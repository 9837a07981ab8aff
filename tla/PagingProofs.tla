---------------------------- MODULE PagingProofs ----------------------------
(***************************************************************************)
(* Proofs about Paging.tla for any number of processes, of entries of a    *)
(* page table, of kernel pages and of frames: the page tables are in order *)
(* whichever directory is in use, no frame is reached twice, what the      *)
(* processor remembers is what the tables say, and each process has memory *)
(* of its own (AddressSpaces).                                             *)
(*                                                                         *)
(* A page is reached in a memory m, by the directory that the kernel's     *)
(* page table has for a process.  Each action is first reduced to what it  *)
(* changes of the frames (MakesDirectory, ChildGets, Loads, Connected).    *)
(***************************************************************************)
EXTENDS Paging, FiniteSetTheorems, TLAPS

\* For the least element of a set of numbers.
Q == INSTANCE QueueTheorems

KERNEL_TABLE == PAGE_DIRECTORY + 1

\* The pages of the user's part, and the page tables of that part as pages.
UserIndices == 0 .. KernelIndex - 1
Spots == (UserIndices \X Offsets) \cup ({Self} \X UserIndices)

\* The page directory of process p, as the kernel's page table m[KERNEL_TABLE] has it.
Root(m, at, p) == m[KERNEL_TABLE][at[p]]

\* The frame of its page x.
Reach(m, at, p, x) == Walk(m, Root(m, at, p), x)

\* The part of a page directory that all have: the kernel's pages, and itself.
IsDirectory(m, c) == m[c][KernelIndex] = KERNEL_TABLE /\ m[c][Self] = c

\* The kernel's page table: each page in use has a frame of its own.
KernelPart(m, virtual, physical) ==
  /\ virtual \subseteq 1 .. KernelPages
  /\ IsDirectory(m, PAGE_DIRECTORY)
  /\ \A v \in virtual : m[KERNEL_TABLE][v] \in physical
  /\ \A v \in 1 .. KernelPages : v \notin virtual => m[KERNEL_TABLE][v] = 0
  /\ \A v, w \in virtual : m[KERNEL_TABLE][v] = m[KERNEL_TABLE][w] => v = w

\* The kernel's frames that are none of its pages: page tables, and what is left
\* of those after an exit.
TableFrames(m, virtual, physical) == physical \ {m[KERNEL_TABLE][v] : v \in virtual}

\* The processes in S have page directories of their own.
Roots(m, at, S, virtual) ==
  /\ \A p \in S : at[p] \in virtual /\ IsDirectory(m, Root(m, at, p))
  /\ \A p, q \in S : at[p] = at[q] => p = q

\* What their directories reach: each frame from one page of one process only.
Trees(m, at, S, tables, user) ==
  /\ \A p \in S, x \in Spots :
       Reach(m, at, p, x) \in {0} \cup user \cup (IF x[1] = Self THEN tables ELSE {})
  /\ \A p, q \in S, x, y \in Spots :
       Reach(m, at, p, x) = Reach(m, at, q, y) => Reach(m, at, p, x) = 0 \/ (p = q /\ x = y)
  /\ \A f \in user : \E p \in S, x \in Spots : Reach(m, at, p, x) = f

\* The frame of page x of process p, 0 if it has none.
At(p, x) == Reach(word, pageDirectoryAddress, p, x)

\* The page directory in use is that of the process that runs.
Turn ==
  /\ running # 0 => phase[running] \in {"load", "user"}
  /\ cr3 = IF running = 0 THEN PAGE_DIRECTORY ELSE Root(word, pageDirectoryAddress, running)

\* What each process has of its memory.
Stages ==
  \A p \in Processes :
    /\ phase[p] = "load" => \A x \in Spots : At(p, x) = 0
    /\ phase[p] = "user" => At(p, UserPage) # 0
    /\ phase[p] = "copied" => p = copy.child

\* How far fork is: what is done is there, with what its parent has, nothing else.
Copies ==
  /\ copy \in [child : Processes \cup {0}, buffer : 0 .. KernelPages, done : SUBSET Spots]
  /\ IF copy.child = 0 THEN copy = NoCopy
     ELSE /\ running # 0 /\ phase[running] = "user" /\ phase[copy.child] = "copied"
          /\ \A x \in Spots : At(copy.child, x) # 0 <=> x \in copy.done
          /\ \A x \in copy.done : At(running, x) # 0 /\ 
               (x[1] # Self => word[At(copy.child, x)] = word[At(running, x)])
          /\ copy.buffer = 0 => copy.done = {}
  /\ copy.buffer # 0 => copy.buffer \in kernelVirtual
                        /\ \A p \in Live : pageDirectoryAddress[p] # copy.buffer

\* A page that is not taken back before cr3 is loaded again.
Lasting(x) ==
  \/ running # 0 /\ x \in Spots
  \/ x \in {Directory, <<Self, KernelIndex>>}
  \/ \E v \in kernelVirtual \ {copy.buffer} : x = KernelPage(v)

\* The processor remembers only pages that last, and what the tables say of them.
Remembered == \A e \in tlb : Lasting(e[1]) /\ Walk(word, cr3, e[1]) = e[2] /\ e[2] # 0

\* The inductive invariant.  That no page is used that is not there needs to know which
\* pages are, in the directory in use and in the child's; that nothing remembered is
\* outdated, which pages last; and that a write through one directory leaves the others
\* alone, that no frame is reached twice.
IInv ==
  /\ TypeOK /\ ~faulted
  /\ KernelPart(word, kernelVirtual, kernelPhysical)
  /\ Roots(word, pageDirectoryAddress, Live, kernelVirtual)
  /\ Trees(word, pageDirectoryAddress, Live,
           TableFrames(word, kernelVirtual, kernelPhysical), userPhysical)
  /\ Turn /\ Stages /\ Copies /\ Remembered

-----------------------------------------------------------------------------
\* What the frames may hold.
Memories == [Frames -> [Offsets -> Words]]

\* The numbers of frames, pages and entries keep apart.
LEMMA Numbers ==
  /\ PAGE_DIRECTORY \in Frames /\ KERNEL_TABLE \in Frames /\ PAGE_DIRECTORY # KERNEL_TABLE
  /\ KernelFrames \subseteq Frames /\ UserFrames \subseteq Frames
  /\ {PAGE_DIRECTORY, KERNEL_TABLE} \cap (KernelFrames \cup UserFrames) = {}
  /\ KernelFrames \cap UserFrames = {}
  /\ 0 \notin Frames /\ Frames \cup {0} \subseteq Words
  /\ KernelIndex \in Offsets /\ Self \in Offsets /\ KernelIndex # Self
  /\ UserIndices \subseteq Offsets /\ KernelIndex \notin UserIndices /\ Self \notin UserIndices
  /\ 1 .. KernelPages \subseteq Offsets /\ 0 \notin 1 .. KernelPages
  /\ \A p \in Processes : p # 0
<1> USE PagingAssumption DEF PAGE_DIRECTORY, KERNEL_TABLE, Frames, KernelFrames, UserFrames,
          Offsets, Self, UserIndices, Words
<1>1. /\ Entries \in Nat /\ KernelIndex \in Nat /\ KernelPages \in Nat /\ UserPages \in Nat
      /\ 0 < KernelIndex /\ KernelIndex < Entries - 1 /\ KernelPages < Entries
  OBVIOUS
<1>2. QED
  BY <1>1

\* A spot is a page of the user's part or one of its page tables.
LEMMA SpotsAre ==
  /\ \A x \in Spots : \/ x[1] \in UserIndices /\ x[2] \in Offsets /\ x = <<x[1], x[2]>>
                      \/ x[1] = Self /\ x[2] \in UserIndices /\ x = <<Self, x[2]>>
  /\ \A i \in UserIndices, j \in Offsets : <<i, j>> \in Spots
  /\ \A i \in UserIndices : <<Self, i>> \in Spots
  /\ UserPage \in Spots /\ UserPage[1] \in UserIndices /\ UserPage[2] \in Offsets
  /\ UserPage = <<UserPage[1], UserPage[2]>>
<1>1. UserPage \in (1 .. KernelIndex - 1) \X (0 .. Entries - 1) /\ KernelIndex \in Nat
  BY PagingAssumption
<1>2. /\ UserPage[1] \in UserIndices /\ UserPage[2] \in Offsets
      /\ UserPage = <<UserPage[1], UserPage[2]>>
  BY <1>1 DEF UserIndices, Offsets
<1>3. QED
  BY <1>2 DEF Spots

\* What the processor makes of the pages the kernel uses in a directory c.
LEMMA Walks ==
  ASSUME NEW m, NEW c, IsDirectory(m, c), c # 0
  PROVE  /\ Walk(m, c, Directory) = c
         /\ Walk(m, c, <<Self, KernelIndex>>) = KERNEL_TABLE
         /\ \A i \in UserIndices : Walk(m, c, <<Self, i>>) = m[c][i]
         /\ \A v : Walk(m, c, KernelPage(v)) = m[KERNEL_TABLE][v]
         /\ \A v : vaddr2paddr(m, c, KernelPage(v)) = m[KERNEL_TABLE][v]
         /\ \A i \in UserIndices, j \in Offsets :
              Walk(m, c, <<i, j>>) = IF m[c][i] = 0 THEN 0 ELSE m[m[c][i]][j]
         /\ \A x \in Spots : Walk(m, c, x) # 0 => vaddr2paddr(m, c, x) = Walk(m, c, x)
<1>1. /\ m[c][KernelIndex] = KERNEL_TABLE /\ m[c][Self] = c /\ KERNEL_TABLE # 0
  BY DEF IsDirectory, KERNEL_TABLE, PAGE_DIRECTORY
<1>2. \A i : Walk(m, c, <<Self, i>>) = m[c][i]
  BY <1>1 DEF Walk
<1>3. \A v : Walk(m, c, KernelPage(v)) = m[KERNEL_TABLE][v]
  BY <1>1 DEF Walk, KernelPage
<1>4. \A v : vaddr2paddr(m, c, KernelPage(v)) = m[KERNEL_TABLE][v]
  BY <1>1, <1>2 DEF vaddr2paddr, TableOf, KernelPage
<1>5. \A i \in UserIndices, j \in Offsets :
        /\ Walk(m, c, <<i, j>>) = IF m[c][i] = 0 THEN 0 ELSE m[m[c][i]][j]
        /\ vaddr2paddr(m, c, <<i, j>>) = m[m[c][i]][j]
  BY <1>2 DEF Walk, vaddr2paddr, TableOf
<1>6. \A i \in UserIndices : vaddr2paddr(m, c, <<Self, i>>) = m[c][i]
  BY <1>1, <1>2 DEF vaddr2paddr, TableOf
<1>7. ASSUME NEW x \in Spots, Walk(m, c, x) # 0 PROVE vaddr2paddr(m, c, x) = Walk(m, c, x)
  BY <1>2, <1>5, <1>6, <1>7, SpotsAre
<1>8. QED
  BY <1>1, <1>2, <1>3, <1>4, <1>5, <1>7 DEF Directory

\* A directory and its page tables that are the same words map the same frames.
LEMMA WalksSame ==
  ASSUME NEW m, NEW n, NEW c, IsDirectory(m, c), c # 0, n[c] = m[c],
         \A i \in UserIndices : m[c][i] # 0 => n[m[c][i]] = m[m[c][i]]
  PROVE  IsDirectory(n, c) /\ \A x \in Spots : Walk(n, c, x) = Walk(m, c, x)
<1>1. IsDirectory(n, c)
  BY DEF IsDirectory
<1>2. QED
  BY <1>1, Walks, SpotsAre

\* Word k of frame g is x in n; or frame g holds s; and the rest is as in m.
WordPut(m, n, g, k, x) ==
  /\ n \in Memories /\ n[g] = [m[g] EXCEPT ![k] = x]
  /\ \A h \in Frames \ {g} : n[h] = m[h]

PagePut(m, n, g, s) ==
  /\ n \in Memories /\ n[g] = s
  /\ \A h \in Frames \ {g} : n[h] = m[h]

\* Store writes the one word of the frame that the page is in.
LEMMA StoreIs ==
  ASSUME NEW m \in Memories, NEW c, NEW p, NEW g \in Frames, Walk(m, c, p) = g,
         NEW k \in Offsets, NEW x \in Words
  PROVE  WordPut(m, Store(m, c, p, k, x), g, k, x)
<1> DEFINE n == [m EXCEPT ![g][k] = x]
<1>1. Store(m, c, p, k, x) = n
  BY DEF Store
<1>2. n \in Memories /\ n[g] = [m[g] EXCEPT ![k] = x] /\ \A h \in Frames \ {g} : n[h] = m[h]
  BY DEF Memories
<1> HIDE DEF n
<1>3. QED
  BY <1>1, <1>2 DEF WordPut

\* StorePage writes the words of that frame.
LEMMA StorePageIs ==
  ASSUME NEW m \in Memories, NEW c, NEW p, NEW g \in Frames, Walk(m, c, p) = g,
         NEW s \in [Offsets -> Words]
  PROVE  PagePut(m, StorePage(m, c, p, s), g, s)
<1> DEFINE n == [m EXCEPT ![g] = s]
<1>1. StorePage(m, c, p, s) = n
  BY DEF StorePage
<1>2. n \in Memories /\ n[g] = s /\ \A h \in Frames \ {g} : n[h] = m[h]
  BY DEF Memories
<1> HIDE DEF n
<1>3. QED
  BY <1>1, <1>2 DEF PagePut

-----------------------------------------------------------------------------
\* The kernel's page table maps page v to f, and the other pages as it did.
PageIs(m, n, v, f) ==
  /\ IsDirectory(n, PAGE_DIRECTORY)
  /\ n[KERNEL_TABLE][v] = f
  /\ \A w \in (1 .. KernelPages) \ {v} : n[KERNEL_TABLE][w] = m[KERNEL_TABLE][w]

\* A kernel page gets a frame, and gives it back.
Takes(m, virtual, physical, n, virtual2, physical2) ==
  /\ \E v, f :
       /\ v \in (1 .. KernelPages) \ virtual /\ f \notin physical /\ PageIs(m, n, v, f)
       /\ virtual2 = virtual \cup {v} /\ physical2 = physical \cup {f}

Returns(m, virtual, physical, n, virtual2, physical2) ==
  /\ \E v \in virtual :
       /\ PageIs(m, n, v, 0)
       /\ virtual2 = virtual \ {v} /\ physical2 = physical \ {m[KERNEL_TABLE][v]}

\* The kernel's page table stays in order when a page is taken.
LEMMA KernelGrows ==
  ASSUME NEW m, NEW n, NEW virtual, NEW physical, NEW virtual2, NEW physical2,
         KernelPart(m, virtual, physical), Takes(m, virtual, physical, n, virtual2, physical2)
  PROVE  /\ KernelPart(n, virtual2, physical2)
         /\ TableFrames(n, virtual2, physical2) = TableFrames(m, virtual, physical)
<1>1. PICK v, f :
        /\ v \in (1 .. KernelPages) \ virtual /\ f \notin physical /\ PageIs(m, n, v, f)
        /\ virtual2 = virtual \cup {v} /\ physical2 = physical \cup {f}
  BY DEF Takes
<1>2. \A w \in virtual : w # v /\ n[KERNEL_TABLE][w] = m[KERNEL_TABLE][w] /\ m[KERNEL_TABLE][w] # f
  BY <1>1 DEF KernelPart, PageIs, Takes
<1>3. KernelPart(n, virtual2, physical2)
  BY <1>1, <1>2 DEF KernelPart, PageIs
<1> DEFINE C == {m[KERNEL_TABLE][w] : w \in virtual}
           D == {n[KERNEL_TABLE][w] : w \in virtual2}
<1>4. D = C \cup {f}
  BY <1>1, <1>2 DEF PageIs
<1>5. physical2 \ D = physical \ C
  BY <1>1, <1>4
<1>6. QED
  BY <1>3, <1>5 DEF TableFrames

\* And when one is returned.
LEMMA KernelShrinks ==
  ASSUME NEW m, NEW n, NEW virtual, NEW physical, NEW virtual2, NEW physical2,
         KernelPart(m, virtual, physical), Returns(m, virtual, physical, n, virtual2, physical2)
  PROVE  /\ KernelPart(n, virtual2, physical2)
         /\ TableFrames(n, virtual2, physical2) = TableFrames(m, virtual, physical)
<1>1. PICK v \in virtual :
        /\ PageIs(m, n, v, 0)
        /\ virtual2 = virtual \ {v} /\ physical2 = physical \ {m[KERNEL_TABLE][v]}
  BY DEF Returns
<1>2. \A w \in virtual \ {v} : /\ n[KERNEL_TABLE][w] = m[KERNEL_TABLE][w]
                               /\ m[KERNEL_TABLE][w] # m[KERNEL_TABLE][v]
  BY <1>1 DEF KernelPart, PageIs, Returns
<1>3. KernelPart(n, virtual2, physical2)
  BY <1>1, <1>2 DEF KernelPart, PageIs, Returns
<1> DEFINE C == {m[KERNEL_TABLE][w] : w \in virtual}
           D == {n[KERNEL_TABLE][w] : w \in virtual2}
           f == m[KERNEL_TABLE][v]
<1>4. C = D \cup {f}
  BY <1>1, <1>2
<1>5. physical2 \ D = physical \ C
  BY <1>1, <1>2, <1>4
<1>6. QED
  BY <1>3, <1>5 DEF TableFrames

\* The kernel's pages stay, while frames are allocated for page tables.
Stays(m, n) ==
  /\ IsDirectory(n, PAGE_DIRECTORY)
  /\ \A w \in 1 .. KernelPages : n[KERNEL_TABLE][w] = m[KERNEL_TABLE][w]

\* The kernel's page table stays in order when no page of the kernel is touched.
LEMMA KernelSame ==
  ASSUME NEW m, NEW n, NEW virtual, NEW physical, KernelPart(m, virtual, physical), Stays(m, n)
  PROVE  /\ KernelPart(n, virtual, physical)
         /\ TableFrames(n, virtual, physical) = TableFrames(m, virtual, physical)
<1>1. \A v \in virtual : n[KERNEL_TABLE][v] = m[KERNEL_TABLE][v]
  BY DEF KernelPart, Stays
<1>2. KernelPart(n, virtual, physical)
  BY DEF KernelPart, Stays
<1>3. QED
  BY <1>1, <1>2 DEF TableFrames

\* And when frames are freed that are none of its pages'.
LEMMA KernelLess ==
  ASSUME NEW m, NEW virtual, NEW physical, NEW lost,
         KernelPart(m, virtual, physical), lost \subseteq TableFrames(m, virtual, physical)
  PROVE  /\ KernelPart(m, virtual, physical \ lost)
         /\ TableFrames(m, virtual, physical \ lost) = TableFrames(m, virtual, physical) \ lost
  BY DEF KernelPart, TableFrames

\* A frame t is allocated for a page table.
Allocates(m, physical, n, physical2, t) ==
  Stays(m, n) /\ t \notin physical /\ physical2 = physical \cup {t}

\* And when a frame is allocated that is none of its pages'.
LEMMA KernelStays ==
  ASSUME NEW m, NEW n, NEW virtual, NEW physical, NEW physical2, NEW t,
         KernelPart(m, virtual, physical), Allocates(m, physical, n, physical2, t)
  PROVE  /\ KernelPart(n, virtual, physical2)
         /\ TableFrames(n, virtual, physical2) = TableFrames(m, virtual, physical) \cup {t}
<1>1. KernelPart(n, virtual, physical2)
  BY DEF KernelPart, Stays, Allocates
<1> DEFINE C == {m[KERNEL_TABLE][v] : v \in virtual}
           D == {n[KERNEL_TABLE][v] : v \in virtual}
<1>2. C = D /\ C \subseteq physical
  BY DEF KernelPart, Stays, Allocates
<1>3. physical2 \ D = (physical \ C) \cup {t}
  BY <1>2 DEF Allocates
<1>4. QED
  BY <1>1, <1>3 DEF TableFrames

-----------------------------------------------------------------------------
\* The processes in S reach what they reached.
Same(m, at, n, bt, S) == \A p \in S, x \in Spots : Reach(n, bt, p, x) = Reach(m, at, p, x)

\* What is reached by one page only still is when nothing reaches anything else.
LEMMA TreesStay ==
  ASSUME NEW m, NEW at, NEW n, NEW bt, NEW S, NEW tables, NEW user, NEW more,
         Trees(m, at, S, tables, user), Same(m, at, n, bt, S), tables \subseteq more
  PROVE  Trees(n, bt, S, more, user)
<1>1. /\ \A p \in S, x \in Spots : Reach(n, bt, p, x) = Reach(m, at, p, x)
  BY DEF Same
<1> HIDE DEF Reach
<1>2. QED
  BY <1>1 DEF Trees

\* A process is added that reaches nothing.
LEMMA TreesNew ==
  ASSUME NEW m, NEW at, NEW n, NEW bt, NEW S, NEW q, NEW tables, NEW user,
         Trees(m, at, S, tables, user), Same(m, at, n, bt, S),
         \A x \in Spots : Reach(n, bt, q, x) = 0
  PROVE  Trees(n, bt, S \cup {q}, tables, user)
  BY DEF Trees, Same

\* One that exits returns what it reached.
LEMMA TreesLess ==
  ASSUME NEW m, NEW at, NEW n, NEW bt, NEW S, NEW q \in S, NEW tables, NEW user,
         Trees(m, at, S, tables, user), Same(m, at, n, bt, S \ {q}), 0 \notin user,
         NEW less, less = user \ {Reach(m, at, q, x) : x \in Spots},
         NEW fewer, tables \ {Reach(m, at, q, x) : x \in Spots} \subseteq fewer
  PROVE  Trees(n, bt, S \ {q}, fewer, less)
<1>1. ASSUME NEW p \in S \ {q}, NEW x \in Spots
      PROVE  Reach(n, bt, p, x) \in {0} \cup less \cup (IF x[1] = Self THEN fewer ELSE {})
  <2>1. Reach(n, bt, p, x) = Reach(m, at, p, x)
    BY <1>1 DEF Same
  <2>2. Reach(m, at, p, x) \in {0} \cup user \cup (IF x[1] = Self THEN tables ELSE {})
    BY <1>1 DEF Trees
  <2>3. Reach(m, at, p, x) = 0 \/ \A y \in Spots : Reach(m, at, p, x) # Reach(m, at, q, y)
    BY <1>1 DEF Trees
  <2>4. QED
    BY <2>1, <2>2, <2>3
<1>2. \A p, r \in S \ {q}, x, y \in Spots :
        Reach(n, bt, p, x) = Reach(n, bt, r, y) => Reach(n, bt, p, x) = 0 \/ (p = r /\ x = y)
  BY DEF Trees, Same
<1>3. ASSUME NEW f \in less PROVE \E p \in S \ {q}, x \in Spots : Reach(n, bt, p, x) = f
  <2>1. PICK p \in S, x \in Spots : Reach(m, at, p, x) = f
    BY <1>3 DEF Trees
  <2>2. p # q
    BY <2>1, <1>3
  <2>3. QED
    BY <2>1, <2>2 DEF Same
<1>4. QED
  BY <1>1, <1>2, <1>3 DEF Trees

\* Process q reaches frame f by page z, and all else is as it was.
OneMore(m, at, n, bt, S, q, z, f) ==
  \A p \in S, x \in Spots : Reach(n, bt, p, x) = IF p = q /\ x = z THEN f ELSE Reach(m, at, p, x)

\* A page that was not there gets a frame that was free.
LEMMA TreesGrow ==
  ASSUME NEW m, NEW at, NEW n, NEW bt, NEW S, NEW tables, NEW user,
         Trees(m, at, S, tables, user), NEW q \in S, NEW z \in Spots, NEW f,
         Reach(m, at, q, z) = 0, f \notin user \cup tables, f # 0, 0 \notin user,
         OneMore(m, at, n, bt, S, q, z, f)
  PROVE  /\ Trees(n, bt, S, tables, user \cup {f})
         /\ z[1] = Self => Trees(n, bt, S, tables \cup {f}, user)
<1>1. \A p \in S, x \in Spots : p # q \/ x # z => Reach(n, bt, p, x) = Reach(m, at, p, x)
  BY DEF OneMore
<1>2. Reach(n, bt, q, z) = f
  BY DEF OneMore
<1>3. \A p \in S, x \in Spots : Reach(m, at, p, x) # f
  BY DEF Trees
<1>4. \A p, r \in S, x, y \in Spots :
        Reach(n, bt, p, x) = Reach(n, bt, r, y) => Reach(n, bt, p, x) = 0 \/ (p = r /\ x = y)
  BY <1>1, <1>2, <1>3 DEF Trees
<1>5. ASSUME NEW g \in user PROVE \E p \in S, x \in Spots : Reach(n, bt, p, x) = g
  <2>1. PICK p \in S, x \in Spots : Reach(m, at, p, x) = g
    BY <1>5 DEF Trees
  <2>2. QED
    BY <1>1, <2>1
<1>6. Trees(n, bt, S, tables, user \cup {f})
  BY <1>1, <1>2, <1>4, <1>5 DEF Trees
<1>7. ASSUME z[1] = Self PROVE Trees(n, bt, S, tables \cup {f}, user)
  BY <1>1, <1>2, <1>4, <1>5, <1>7 DEF Trees
<1>8. QED
  BY <1>6, <1>7

-----------------------------------------------------------------------------
\* The frames of the state, and the directory of process p.
Tables == TableFrames(word, kernelVirtual, kernelPhysical)
RootIs(p) == Root(word, pageDirectoryAddress, p)

\* The frames of page directories, of page tables and of pages are different ones.
LEMMA LiveRoots ==
  ASSUME IInv, NEW p \in Live
  PROVE  /\ RootIs(p) \in kernelPhysical /\ RootIs(p) \in Frames /\ RootIs(p) # 0
         /\ RootIs(p) \notin {PAGE_DIRECTORY, KERNEL_TABLE}
         /\ RootIs(p) \notin Tables \cup userPhysical
         /\ IsDirectory(word, RootIs(p))
         /\ p \in Processes /\ pageDirectoryAddress[p] \in kernelVirtual
         /\ pageDirectoryAddress[p] \in 1 .. KernelPages
<1>1. /\ kernelPhysical \subseteq KernelFrames /\ userPhysical \subseteq UserFrames
      /\ kernelVirtual \subseteq 1 .. KernelPages
  BY DEF IInv, TypeOK
<1>2. pageDirectoryAddress[p] \in kernelVirtual /\ IsDirectory(word, RootIs(p))
  BY DEF IInv, Roots, RootIs
<1>3. \A v \in kernelVirtual : word[KERNEL_TABLE][v] \in kernelPhysical
  BY DEF IInv, KernelPart
<1>4. RootIs(p) \in kernelPhysical /\ RootIs(p) \notin Tables
  BY <1>2, <1>3 DEF RootIs, Root, Tables, TableFrames
<1>5. QED
  BY <1>1, <1>2, <1>4, Numbers DEF Live

\* The pages of a process, by the entries of its directory and its page tables.
LEMMA LiveReach ==
  ASSUME IInv, NEW p \in Live
  PROVE  /\ \A i \in UserIndices : /\ At(p, <<Self, i>>) = word[RootIs(p)][i]
                                   /\ At(p, <<Self, i>>) \in {0} \cup Tables \cup userPhysical
         /\ \A i \in UserIndices, j \in Offsets :
              /\ At(p, <<i, j>>) = IF word[RootIs(p)][i] = 0 THEN 0
                                   ELSE word[word[RootIs(p)][i]][j]
              /\ At(p, <<i, j>>) \in {0} \cup userPhysical
         /\ \A x \in Spots : At(p, x) # 0 => At(p, x) \in Frames
<1>1. \A x \in Spots : At(p, x) \in {0} \cup userPhysical \cup (IF x[1] = Self THEN Tables ELSE {})
  BY DEF IInv, Trees, At, Tables
<1>2. \A x \in Spots : At(p, x) = Walk(word, RootIs(p), x)
  BY DEF At, Reach, RootIs
<1>3. IsDirectory(word, RootIs(p)) /\ RootIs(p) # 0
  BY LiveRoots
<1>4. Tables \subseteq Frames /\ userPhysical \subseteq Frames
  BY Numbers DEF IInv, TypeOK, Tables, TableFrames
<1>5. ASSUME NEW i \in UserIndices
      PROVE  /\ At(p, <<Self, i>>) = word[RootIs(p)][i]
             /\ At(p, <<Self, i>>) \in {0} \cup Tables \cup userPhysical
  BY <1>1, <1>2, <1>3, SpotsAre, Walks
<1>6. ASSUME NEW i \in UserIndices, NEW j \in Offsets
      PROVE  /\ At(p, <<i, j>>) = IF word[RootIs(p)][i] = 0 THEN 0
                                  ELSE word[word[RootIs(p)][i]][j]
             /\ At(p, <<i, j>>) \in {0} \cup userPhysical
  <2>1. <<i, j>> \in Spots /\ <<i, j>>[1] # Self
    BY SpotsAre, Numbers
  <2>2. At(p, <<i, j>>) \in {0} \cup userPhysical
    BY <2>1, <1>1
  <2>3. QED
    BY <2>1, <2>2, <1>2, <1>3, Walks
<1>7. QED
  BY <1>1, <1>4, <1>5, <1>6

\* The page directory in use.
LEMMA InUse ==
  ASSUME IInv
  PROVE  /\ IsDirectory(word, cr3) /\ cr3 # 0 /\ cr3 \in Frames /\ cr3 # KERNEL_TABLE
         /\ cr3 \notin Tables \cup userPhysical
         /\ running # 0 => running \in Live /\ cr3 = RootIs(running)
         /\ running = 0 => cr3 = PAGE_DIRECTORY
<1>1. CASE running = 0
  BY <1>1, Numbers DEF IInv, Turn, KernelPart, TypeOK, Tables, TableFrames
<1>2. CASE running # 0
  <2>1. running \in Live /\ cr3 = RootIs(running)
    BY <1>2 DEF IInv, Turn, RootIs, Live, TypeOK
  <2>2. QED
    BY <2>1, LiveRoots, <1>2
<1>3. QED
  BY <1>1, <1>2

\* What other frames D than those of its page tables become changes nothing for p.
LEMMA LiveSame ==
  ASSUME IInv, NEW p \in Live, NEW n, NEW D, \A g \in Frames \ D : n[g] = word[g],
         RootIs(p) \notin D, \A i \in UserIndices : At(p, <<Self, i>>) \notin D \ {0}
  PROVE  /\ IsDirectory(n, RootIs(p)) /\ n[RootIs(p)] = word[RootIs(p)]
         /\ \A x \in Spots : Walk(n, RootIs(p), x) = At(p, x)
<1>1. RootIs(p) \in Frames /\ RootIs(p) # 0 /\ IsDirectory(word, RootIs(p))
  BY LiveRoots
<1>2. n[RootIs(p)] = word[RootIs(p)]
  BY <1>1
<1>3. ASSUME NEW i \in UserIndices, word[RootIs(p)][i] # 0
      PROVE  n[word[RootIs(p)][i]] = word[word[RootIs(p)][i]]
  <2>1. word[RootIs(p)][i] \in Frames
    BY <1>3, LiveReach, SpotsAre, ZenonT(60)
  <2>2. QED
    BY <1>3, <2>1, LiveReach
<1>4. IsDirectory(n, RootIs(p)) /\ \A x \in Spots : Walk(n, RootIs(p), x) = Walk(word, RootIs(p), x)
  BY <1>1, <1>2, <1>3, WalksSame
<1>5. QED
  BY <1>2, <1>4 DEF At, Reach, RootIs

-----------------------------------------------------------------------------
\* What Create does: frame f becomes the directory of q, on page v.
MakesDirectory(q, v, f) ==
  /\ v \in FreePages /\ f \in FreeKernelFrames
  /\ word' \in Memories
  /\ word'[KERNEL_TABLE] = [word[KERNEL_TABLE] EXCEPT ![v] = f]
  /\ IsDirectory(word', f) /\ \A i \in UserIndices : word'[f][i] = 0
  /\ \A g \in Frames \ {KERNEL_TABLE, f} : word'[g] = word[g]
  /\ Use({<<Self, KernelIndex>>, Directory, KernelPage(v)})
  /\ pageDirectoryAddress' = [pageDirectoryAddress EXCEPT ![q] = v]
  /\ kernelVirtual' = kernelVirtual \cup {v}
  /\ kernelPhysical' = kernelPhysical \cup {f}

\* A page v is connected to frame f.
LEMMA Connects ==
  ASSUME IInv, NEW v \in 1 .. KernelPages, NEW f \in {0} \cup Frames
  PROVE  /\ Connect(word, v, f) \in Memories
         /\ Connect(word, v, f)[KERNEL_TABLE] = [word[KERNEL_TABLE] EXCEPT ![v] = f]
         /\ \A g \in Frames \ {KERNEL_TABLE} : Connect(word, v, f)[g] = word[g]
<1>1. Walk(word, cr3, TableOf(KernelPage(v))) = KERNEL_TABLE
  BY InUse, Walks DEF TableOf, KernelPage
<1>2. word \in Memories /\ v \in Offsets /\ f \in Words /\ KERNEL_TABLE \in Frames
  BY Numbers DEF IInv, TypeOK, Memories
<1>3. Connect(word, v, f) = Store(word, cr3, TableOf(KernelPage(v)), v, f)
  BY DEF Connect
<1>4. WordPut(word, Connect(word, v, f), KERNEL_TABLE, v, f)
  BY <1>1, <1>2, <1>3, StoreIs
<1>5. QED
  BY <1>4 DEF WordPut

\* A pool's first free page is one that is free.
LEMMA LeastIs ==
  ASSUME NEW S, S \subseteq Nat, S # {}
  PROVE  Least(S) \in S
  BY Q!Least DEF Least

\* Create makes a page directory in a free frame, on a free page.
LEMMA CreateMakes ==
  ASSUME IInv, NEW q \in Processes, Create(q), FreePages # {}, FreeKernelFrames # {}
  PROVE  \E v, f : MakesDirectory(q, v, f)
<1> DEFINE v == Least(FreePages)
           f == Least(FreeKernelFrames)
           m == Connect(word, v, f)
           d == NewDirectory(m, v)
<1>1. v \in FreePages /\ v \in 1 .. KernelPages
  BY LeastIs DEF FreePages
<1>2. f \in FreeKernelFrames /\ f \in KernelFrames /\ f \in Frames /\ f \in {0} \cup Frames
  <2>1. FreeKernelFrames \subseteq Nat
    BY PagingAssumption DEF FreeKernelFrames, KernelFrames
  <2>2. QED
    BY <2>1, LeastIs, Numbers DEF FreeKernelFrames
<1>3. /\ word' = StorePage(m, cr3, KernelPage(v), d)
      /\ Use({TableOf(KernelPage(v)), Directory, KernelPage(v)})
      /\ pageDirectoryAddress' = [pageDirectoryAddress EXCEPT ![q] = v]
      /\ kernelVirtual' = kernelVirtual \cup {v}
      /\ kernelPhysical' = kernelPhysical \cup {f}
  BY DEF Create
<1> HIDE DEF v, f
<1>4. /\ m \in Memories /\ m[KERNEL_TABLE] = [word[KERNEL_TABLE] EXCEPT ![v] = f]
      /\ \A g \in Frames \ {KERNEL_TABLE} : m[g] = word[g]
  BY <1>1, <1>2, Connects
<1> HIDE DEF m
<1>5. v \in Offsets /\ m[KERNEL_TABLE][v] = f
  <2>1. word[KERNEL_TABLE] \in [Offsets -> Words] /\ v \in Offsets
    BY <1>1, Numbers DEF IInv, TypeOK
  <2>2. QED
    BY <2>1, <1>4
<1>6. IsDirectory(m, cr3) /\ cr3 # 0 /\ cr3 \in Frames /\ m[cr3] \in [Offsets -> Words]
  BY <1>4, InUse DEF IsDirectory, Memories
<1>7. Walk(m, cr3, KernelPage(v)) = f /\ vaddr2paddr(m, cr3, KernelPage(v)) = f
      /\ Walk(m, cr3, Directory) = cr3
  BY <1>5, <1>6, Walks
<1>8. d = [k \in Offsets |-> IF k = Self THEN f ELSE IF k >= KernelIndex THEN m[cr3][k] ELSE 0]
  BY <1>7 DEF NewDirectory
<1> HIDE DEF d
<1>9. /\ d \in [Offsets -> Words] /\ d[Self] = f /\ d[KernelIndex] = KERNEL_TABLE
      /\ \A i \in UserIndices : d[i] = 0
  <2>1. f \in Words /\ 0 \in Words
    BY <1>2, Numbers
  <2>2. d \in [Offsets -> Words]
    BY <1>8, <1>6, <2>1
  <2>3. KernelIndex \in Nat /\ \A i \in UserIndices : ~(i >= KernelIndex)
    BY PagingAssumption DEF UserIndices
  <2>4. d[Self] = f /\ d[KernelIndex] = KERNEL_TABLE
    BY <1>8, <1>6, <2>3, Numbers DEF IsDirectory
  <2>5. \A i \in UserIndices : d[i] = 0
    BY <1>8, <2>3, Numbers
  <2>6. QED
    BY <2>2, <2>4, <2>5
<1>10. /\ word' \in Memories /\ word'[f] = d
       /\ \A g \in Frames \ {f} : word'[g] = m[g]
  <2>1. PagePut(m, word', f, d)
    BY <1>2, <1>3, <1>4, <1>7, <1>9, StorePageIs
  <2>2. QED
    BY <2>1 DEF PagePut
<1>11. f # KERNEL_TABLE /\ KERNEL_TABLE \in Frames
  BY <1>2, Numbers
<1>12. word'[KERNEL_TABLE] = [word[KERNEL_TABLE] EXCEPT ![v] = f]
  BY <1>4, <1>10, <1>11
<1>13. \A g \in Frames \ {KERNEL_TABLE, f} : word'[g] = word[g]
  BY <1>4, <1>10
<1>14. IsDirectory(word', f) /\ \A i \in UserIndices : word'[f][i] = 0
  BY <1>9, <1>10 DEF IsDirectory
<1>15. TableOf(KernelPage(v)) = <<Self, KernelIndex>>
  BY DEF TableOf, KernelPage
<1>16. MakesDirectory(q, v, f)
  BY <1>1, <1>2, <1>3, <1>10, <1>12, <1>13, <1>14, <1>15 DEF MakesDirectory
<1>17. QED
  BY <1>16

-----------------------------------------------------------------------------
\* Pages that are used, there and lasting, are remembered and no fault.
LEMMA Remembers ==
  ASSUME IInv, NEW pages, Use(pages), UNCHANGED cr3, IsDirectory(word', cr3),
         \A x \in Spots : running # 0 /\ Walk(word, cr3, x) # 0
                            => Walk(word', cr3, x) = Walk(word, cr3, x),
         \A v \in kernelVirtual \ {copy.buffer} : word'[KERNEL_TABLE][v] = word[KERNEL_TABLE][v],
         \A x : Lasting(x) => Lasting(x)',
         \A x \in pages : Lasting(x)' /\ Walk(word', cr3, x) # 0
  PROVE  Remembered' /\ faulted' = FALSE
<1>1. IsDirectory(word, cr3) /\ cr3 # 0
  BY InUse
<1>2. ASSUME NEW e \in tlb PROVE Walk(word', cr3, e[1]) = e[2]
  <2>1. Lasting(e[1]) /\ Walk(word, cr3, e[1]) = e[2] /\ e[2] # 0
    BY DEF IInv, Remembered
  <2>2. CASE running # 0 /\ e[1] \in Spots
    BY <2>1, <2>2
  <2>3. CASE e[1] \in {Directory, <<Self, KernelIndex>>}
    BY <1>1, <2>1, <2>3, Walks
  <2>4. CASE \E v \in kernelVirtual \ {copy.buffer} : e[1] = KernelPage(v)
    BY <1>1, <2>1, <2>4, Walks
  <2>5. QED
    BY <2>1, <2>2, <2>3, <2>4 DEF Lasting
<1>3. tlb' = tlb \cup {<<x, Walk(word', cr3, x)>> : x \in pages}
      /\ faulted' = \E x \in pages : Walk(word', cr3, x) = 0
  BY DEF Use
<1>4. ASSUME NEW e \in tlb'
      PROVE  Lasting(e[1])' /\ Walk(word', cr3, e[1]) = e[2] /\ e[2] # 0
  <2>1. CASE e \in tlb
    BY <1>2, <2>1 DEF IInv, Remembered
  <2>2. CASE \E x \in pages : e = <<x, Walk(word', cr3, x)>>
    BY <2>2
  <2>3. QED
    BY <1>3, <2>1, <2>2
<1>5. Remembered'
  BY <1>4 DEF Remembered
<1>6. QED
  BY <1>3, <1>5

\* A new page directory disturbs none.
LEMMA MadeDirectory ==
  ASSUME IInv, NEW q \in Processes, q \notin Live, Live' = Live \cup {q},
         NEW v, NEW f, MakesDirectory(q, v, f), userPhysical' = userPhysical
  PROVE  /\ KernelPart(word', kernelVirtual', kernelPhysical')
         /\ Roots(word', pageDirectoryAddress', Live', kernelVirtual')
         /\ Trees(word', pageDirectoryAddress', Live', Tables', userPhysical')
         /\ \A p \in Live, x \in Spots : At(p, x)' = At(p, x)
         /\ \A x \in Spots : At(q, x)' = 0
         /\ \A p \in Live : RootIs(p)' = RootIs(p)
<1>1. /\ v \in 1 .. KernelPages /\ v \notin kernelVirtual
      /\ kernelVirtual \subseteq 1 .. KernelPages
      /\ f \in KernelFrames /\ f \notin kernelPhysical
      /\ kernelVirtual' = kernelVirtual \cup {v} /\ kernelPhysical' = kernelPhysical \cup {f}
      /\ pageDirectoryAddress' = [pageDirectoryAddress EXCEPT ![q] = v]
      /\ pageDirectoryAddress \in [Processes -> 0 .. KernelPages]
  BY DEF MakesDirectory, FreePages, FreeKernelFrames, IInv, TypeOK
<1>2. /\ word'[KERNEL_TABLE][v] = f
      /\ \A w \in (1 .. KernelPages) \ {v} : word'[KERNEL_TABLE][w] = word[KERNEL_TABLE][w]
  <2>1. word[KERNEL_TABLE] \in [Offsets -> Words] /\ 1 .. KernelPages \subseteq Offsets
    BY Numbers DEF IInv, TypeOK
  <2>2. QED
    BY <1>1, <2>1 DEF MakesDirectory
<1>3. \A g \in Frames \ {KERNEL_TABLE, f} : word'[g] = word[g]
  BY DEF MakesDirectory
<1>4. IsDirectory(word', PAGE_DIRECTORY)
  BY <1>1, <1>3, Numbers DEF IsDirectory, IInv, KernelPart
<1>5. KernelPart(word, kernelVirtual, kernelPhysical)
  BY DEF IInv
<1>6. KernelPart(word', kernelVirtual', kernelPhysical') /\ Tables' = Tables
  <2>1. PageIs(word, word', v, f)
    BY <1>2, <1>4 DEF PageIs
  <2>2. Takes(word, kernelVirtual, kernelPhysical, word', kernelVirtual', kernelPhysical')
    BY <1>1, <2>1 DEF Takes
  <2>3. QED
    BY <1>5, <2>2, KernelGrows DEF Tables
<1>7. ASSUME NEW p \in Live
      PROVE  /\ p # q /\ pageDirectoryAddress'[p] = pageDirectoryAddress[p]
             /\ RootIs(p)' = RootIs(p)
             /\ IsDirectory(word', RootIs(p))
             /\ \A x \in Spots : At(p, x)' = At(p, x)
  <2>1. p # q /\ pageDirectoryAddress'[p] = pageDirectoryAddress[p]
    BY <1>1, LiveRoots
  <2>2. RootIs(p)' = RootIs(p)
    BY <1>1, <1>2, <2>1, LiveRoots DEF RootIs, Root
  <2>3. RootIs(p) \notin {KERNEL_TABLE, f}
    BY <1>1, LiveRoots
  <2>4. \A i \in UserIndices : At(p, <<Self, i>>) \notin {KERNEL_TABLE, f} \ {0}
    <3>1. KERNEL_TABLE \notin Tables \cup userPhysical /\ f \notin Tables \cup userPhysical
      BY <1>1, Numbers DEF IInv, TypeOK, Tables, TableFrames
    <3>2. QED
      BY <3>1, LiveReach
  <2>5. IsDirectory(word', RootIs(p)) /\ \A x \in Spots : Walk(word', RootIs(p), x) = At(p, x)
    BY <1>3, <2>3, <2>4, LiveSame
  <2>6. QED
    BY <2>1, <2>2, <2>5 DEF At, Reach, RootIs
<1>8. /\ pageDirectoryAddress'[q] = v /\ RootIs(q)' = f
      /\ IsDirectory(word', f) /\ f # 0
      /\ \A x \in Spots : At(q, x)' = 0
  <2>1. pageDirectoryAddress'[q] = v /\ RootIs(q)' = f
    BY <1>1, <1>2 DEF RootIs, Root
  <2>2. IsDirectory(word', f) /\ f # 0 /\ \A i \in UserIndices : word'[f][i] = 0
    BY <1>1, Numbers DEF MakesDirectory
  <2>3. \A x \in Spots : Walk(word', f, x) = 0
    BY <2>2, Walks, SpotsAre
  <2>4. QED
    BY <2>1, <2>2, <2>3 DEF At, Reach, RootIs
<1>9. Roots(word', pageDirectoryAddress', Live', kernelVirtual')
  <2>1. Roots(word, pageDirectoryAddress, Live, kernelVirtual)
    BY DEF IInv
  <2>2. \A p \in Live' : /\ pageDirectoryAddress'[p] \in kernelVirtual'
                         /\ IsDirectory(word', RootIs(p)')
    BY <1>1, <1>7, <1>8, <2>1 DEF Roots
  <2>3. \A p, r \in Live' : pageDirectoryAddress'[p] = pageDirectoryAddress'[r] => p = r
    BY <1>1, <1>7, <1>8, <2>1 DEF Roots
  <2>4. QED
    BY <2>2, <2>3 DEF Roots, RootIs
<1>10. Trees(word', pageDirectoryAddress', Live', Tables', userPhysical')
  <2>1. Trees(word, pageDirectoryAddress, Live, Tables, userPhysical)
    BY DEF IInv, Tables
  <2>2. Same(word, pageDirectoryAddress, word', pageDirectoryAddress', Live)
    BY <1>7 DEF Same, At
  <2>3. \A x \in Spots : Reach(word', pageDirectoryAddress', q, x) = 0
    BY <1>8 DEF At
  <2>4. QED
    BY <1>6, <2>1, <2>2, <2>3, TreesNew
<1>11. QED
  BY <1>6, <1>7, <1>8, <1>9, <1>10

\* What Create uses is there.
LEMMA MadeRemembered ==
  ASSUME IInv, NEW q \in Processes, q \notin Live, NEW v, NEW f, MakesDirectory(q, v, f),
         UNCHANGED <<cr3, running>>, copy.buffer = 0, copy'.buffer = 0
  PROVE  Remembered' /\ faulted' = FALSE
<1>1. /\ v \in 1 .. KernelPages /\ v \notin kernelVirtual
      /\ kernelVirtual \subseteq 1 .. KernelPages
      /\ f \in KernelFrames /\ f \notin kernelPhysical
      /\ kernelVirtual' = kernelVirtual \cup {v}
  BY DEF MakesDirectory, FreePages, FreeKernelFrames, IInv, TypeOK
<1>2. /\ word'[KERNEL_TABLE][v] = f
      /\ \A w \in (1 .. KernelPages) \ {v} : word'[KERNEL_TABLE][w] = word[KERNEL_TABLE][w]
  <2>1. word[KERNEL_TABLE] \in [Offsets -> Words] /\ 1 .. KernelPages \subseteq Offsets
    BY Numbers DEF IInv, TypeOK
  <2>2. QED
    BY <1>1, <2>1 DEF MakesDirectory
<1>3. \A g \in Frames \ {KERNEL_TABLE, f} : word'[g] = word[g]
  BY DEF MakesDirectory
<1>4. cr3 # 0 /\ cr3 \in Frames /\ cr3 \notin {KERNEL_TABLE, f} /\ IsDirectory(word, cr3)
  <2>1. running = 0 => cr3 # f
    BY <1>1, InUse, Numbers
  <2>2. running # 0 => cr3 # f
    BY <1>1, InUse, LiveRoots
  <2>3. QED
    BY <2>1, <2>2, InUse
<1>5. IsDirectory(word', cr3)
  BY <1>3, <1>4 DEF IsDirectory
<1>6. ASSUME running # 0, NEW x \in Spots PROVE Walk(word', cr3, x) = Walk(word, cr3, x)
  <2>1. running \in Live /\ cr3 = RootIs(running)
    BY <1>6, InUse
  <2>2. \A i \in UserIndices : At(running, <<Self, i>>) \notin {KERNEL_TABLE, f} \ {0}
    <3>1. KERNEL_TABLE \notin Tables \cup userPhysical /\ f \notin Tables \cup userPhysical
      BY <1>1, Numbers DEF IInv, TypeOK, Tables, TableFrames
    <3>2. QED
      BY <2>1, <3>1, LiveReach
  <2>3. QED
    BY <1>3, <1>4, <2>1, <2>2, LiveSame DEF At, Reach, RootIs
<1>7. \A x : Lasting(x) => Lasting(x)'
  BY <1>1 DEF Lasting
<1>8. ASSUME NEW x \in {<<Self, KernelIndex>>, Directory, KernelPage(v)}
      PROVE  Lasting(x)' /\ Walk(word', cr3, x) # 0
  <2>1. Lasting(x)'
    BY <1>1 DEF Lasting
  <2>2. Walk(word', cr3, x) \in {cr3, KERNEL_TABLE, f}
    BY <1>2, <1>4, <1>5, Walks
  <2>3. QED
    BY <1>1, <1>4, <2>1, <2>2, Numbers
<1>9. Use({<<Self, KernelIndex>>, Directory, KernelPage(v)})
  BY DEF MakesDirectory
<1>10. \A w \in kernelVirtual \ {copy.buffer} : word'[KERNEL_TABLE][w] = word[KERNEL_TABLE][w]
  BY <1>1, <1>2
<1>11. \A x \in Spots : running # 0 /\ Walk(word, cr3, x) # 0
                            => Walk(word', cr3, x) = Walk(word, cr3, x)
  BY <1>6
<1>12. cr3' = cr3
  OBVIOUS
<1>13. QED
  BY <1>5, <1>7, <1>8, <1>9, <1>10, <1>11, <1>12, Remembers

-----------------------------------------------------------------------------
\* Create leaves the types in order.
LEMMA MadeTypes ==
  ASSUME IInv, NEW q \in Processes, NEW v, NEW f, MakesDirectory(q, v, f)
  PROVE  /\ word' \in Memories
         /\ pageDirectoryAddress' \in [Processes -> 0 .. KernelPages]
         /\ kernelVirtual' \subseteq 1 .. KernelPages /\ kernelPhysical' \subseteq KernelFrames
<1>1. v \in 1 .. KernelPages /\ f \in KernelFrames /\ v \in 0 .. KernelPages
  BY PagingAssumption DEF MakesDirectory, FreePages, FreeKernelFrames
<1>2. QED
  BY <1>1 DEF MakesDirectory, IInv, TypeOK

\* executeProcess keeps the invariant.
LEMMA ExecuteProcessKeeps == ASSUME IInv, ExecuteProcess PROVE IInv'
<1>1. PICK q \in Processes : Create(q) /\ phase' = [phase EXCEPT ![q] = "load"]
  BY DEF ExecuteProcess
<1>2. /\ FreePages # {} /\ FreeKernelFrames # {} /\ running = 0 /\ phase[q] = "free"
      /\ cr3' = cr3 /\ running' = running /\ userPhysical' = userPhysical /\ copy' = copy
      /\ copy = NoCopy
  BY <1>1 DEF ExecuteProcess, Idle, Create
<1>3. PICK v, f : MakesDirectory(q, v, f)
  BY <1>1, <1>2, CreateMakes
<1>4. phase \in [Processes -> {"free", "load", "user", "copied", "zombie"}]
  BY DEF IInv, TypeOK
<1>5. q \notin Live /\ Live' = Live \cup {q}
  BY <1>1, <1>2, <1>4 DEF Live
<1>6. copy.buffer = 0 /\ copy.child = 0
  BY <1>2 DEF NoCopy
<1>7. /\ KernelPart(word', kernelVirtual', kernelPhysical')
      /\ Roots(word', pageDirectoryAddress', Live', kernelVirtual')
      /\ Trees(word', pageDirectoryAddress', Live', Tables', userPhysical')
      /\ \A p \in Live, x \in Spots : At(p, x)' = At(p, x)
      /\ \A x \in Spots : At(q, x)' = 0
  BY <1>2, <1>3, <1>5, MadeDirectory
<1>8. Remembered' /\ faulted' = FALSE
  BY <1>2, <1>3, <1>5, <1>6, MadeRemembered
<1>9. Turn'
  BY <1>2 DEF IInv, Turn
<1>10. Stages'
  <2>1. ASSUME NEW p \in Processes
        PROVE  /\ phase'[p] = "load" => \A x \in Spots : At(p, x)' = 0
               /\ phase'[p] = "user" => At(p, UserPage)' # 0
               /\ phase'[p] = "copied" => p = copy'.child
    <3>1. CASE p = q
      BY <1>1, <1>4, <1>7, <3>1
    <3>2. CASE p # q
      BY <1>1, <1>2, <1>4, <1>7, <3>2, SpotsAre DEF IInv, Stages, Live
    <3>3. QED
      BY <3>1, <3>2
  <2>2. QED
    BY <2>1 DEF Stages
<1>11. Copies'
  BY <1>2, <1>6 DEF IInv, Copies
<1>12. TypeOK'
  <2>1. /\ word' \in Memories
        /\ pageDirectoryAddress' \in [Processes -> 0 .. KernelPages]
        /\ kernelVirtual' \subseteq 1 .. KernelPages /\ kernelPhysical' \subseteq KernelFrames
    BY <1>3, MadeTypes
  <2>2. phase' \in [Processes -> {"free", "load", "user", "copied", "zombie"}]
    BY <1>1, <1>4
  <2>3. QED
    BY <1>2, <1>8, <2>1, <2>2 DEF IInv, TypeOK, Memories
<1>13. QED
  BY <1>7, <1>8, <1>9, <1>10, <1>11, <1>12 DEF IInv, Tables

\* So does the first part of fork, the child's page directory.
LEMMA ForkKeeps == ASSUME IInv, Fork PROVE IInv'
<1>1. PICK q \in Processes : /\ Create(q) /\ phase' = [phase EXCEPT ![q] = "copied"]
                             /\ copy' = [NoCopy EXCEPT !.child = q]
  BY DEF Fork
<1>2. /\ running # 0 /\ phase[running] = "user" /\ phase[q] = "free"
      /\ cr3' = cr3 /\ running' = running /\ userPhysical' = userPhysical /\ copy = NoCopy
      /\ Cardinality(FreePages) > 1 /\ Cardinality(FreeKernelFrames) > 1
  BY <1>1 DEF Fork, Idle, Create
<1>3. FreePages # {} /\ FreeKernelFrames # {}
  <2>1. Cardinality({}) = 0
    BY FS_EmptySet
  <2>2. QED
    BY <1>2, <2>1
<1>4. PICK v, f : MakesDirectory(q, v, f)
  BY <1>1, <1>3, CreateMakes
<1>5. phase \in [Processes -> {"free", "load", "user", "copied", "zombie"}]
      /\ running \in Processes
  BY <1>2 DEF IInv, TypeOK
<1>6. q \notin Live /\ Live' = Live \cup {q} /\ running \in Live /\ running # q
  BY <1>1, <1>2, <1>5 DEF Live
<1>7. /\ copy.buffer = 0 /\ copy.child = 0 /\ q # 0
      /\ copy'.buffer = 0 /\ copy'.child = q /\ copy'.done = {}
      /\ copy' = [child |-> q, buffer |-> 0, done |-> {}]
  BY <1>1, <1>2, Numbers DEF NoCopy
<1>8. /\ KernelPart(word', kernelVirtual', kernelPhysical')
      /\ Roots(word', pageDirectoryAddress', Live', kernelVirtual')
      /\ Trees(word', pageDirectoryAddress', Live', Tables', userPhysical')
      /\ \A p \in Live, x \in Spots : At(p, x)' = At(p, x)
      /\ \A x \in Spots : At(q, x)' = 0
      /\ RootIs(running)' = RootIs(running)
  BY <1>2, <1>4, <1>6, MadeDirectory
<1>9. Remembered' /\ faulted' = FALSE
  BY <1>2, <1>4, <1>6, <1>7, MadeRemembered
<1>10. Turn'
  <2>1. phase'[running] = "user"
    BY <1>1, <1>2, <1>5, <1>6
  <2>2. QED
    BY <1>2, <1>8, <2>1 DEF IInv, Turn, RootIs
<1>11. Stages'
  <2>1. ASSUME NEW p \in Processes
        PROVE  /\ phase'[p] = "load" => \A x \in Spots : At(p, x)' = 0
               /\ phase'[p] = "user" => At(p, UserPage)' # 0
               /\ phase'[p] = "copied" => p = copy'.child
    <3>1. CASE p = q
      BY <1>1, <1>5, <1>7, <3>1
    <3>2. CASE p # q
      BY <1>1, <1>2, <1>5, <1>7, <1>8, <3>2, SpotsAre, Numbers DEF IInv, Stages, Live
    <3>3. QED
      BY <3>1, <3>2
  <2>2. QED
    BY <2>1 DEF Stages
<1>12. Copies'
  <2>1. phase'[running] = "user" /\ phase'[q] = "copied"
    BY <1>1, <1>2, <1>5, <1>6
  <2>2. 0 \in 0 .. KernelPages
    BY PagingAssumption
  <2>3. copy' \in [child : Processes \cup {0}, buffer : 0 .. KernelPages, done : SUBSET Spots]
    BY <1>7, <2>2
  <2>4. QED
    BY <1>2, <1>7, <1>8, <2>1, <2>3 DEF Copies
<1>13. TypeOK'
  <2>1. /\ word' \in Memories
        /\ pageDirectoryAddress' \in [Processes -> 0 .. KernelPages]
        /\ kernelVirtual' \subseteq 1 .. KernelPages /\ kernelPhysical' \subseteq KernelFrames
    BY <1>4, MadeTypes
  <2>2. phase' \in [Processes -> {"free", "load", "user", "copied", "zombie"}]
    BY <1>1, <1>5
  <2>3. QED
    BY <1>2, <1>9, <2>1, <2>2 DEF IInv, TypeOK, Memories
<1>14. QED
  BY <1>8, <1>9, <1>10, <1>11, <1>12, <1>13 DEF IInv, Tables

-----------------------------------------------------------------------------
\* No process in S is disturbed when other frames D than those of directories and
\* page tables change and the kernel's page table still has their directories.
LEMMA AllSame ==
  ASSUME IInv, NEW S \in SUBSET Live, NEW D,
         \A g \in Frames \ D : word'[g] = word[g],
         \A p \in S : /\ RootIs(p)' = RootIs(p) /\ RootIs(p) \notin D
                      /\ \A i \in UserIndices : At(p, <<Self, i>>) \notin D \ {0}
  PROVE  /\ \A p \in S : IsDirectory(word', RootIs(p))
         /\ \A p \in S, x \in Spots : At(p, x)' = At(p, x)
         /\ Same(word, pageDirectoryAddress, word', pageDirectoryAddress', S)
<1>1. ASSUME NEW p \in S
      PROVE  IsDirectory(word', RootIs(p)) /\ \A x \in Spots : At(p, x)' = At(p, x)
  <2>1. /\ p \in Live /\ RootIs(p)' = RootIs(p) /\ RootIs(p) \notin D
        /\ \A i \in UserIndices : At(p, <<Self, i>>) \notin D \ {0}
    OBVIOUS
  <2>2. IsDirectory(word', RootIs(p)) /\ \A x \in Spots : Walk(word', RootIs(p), x) = At(p, x)
    BY <2>1, LiveSame
  <2>3. QED
    BY <2>1, <2>2 DEF At, Reach, RootIs
<1>2. QED
  BY <1>1 DEF Same, At

\* The kernel's page table is no page directory and no page table of a process.
LEMMA TableApart ==
  ASSUME IInv, NEW p \in Live
  PROVE  /\ RootIs(p) \notin {KERNEL_TABLE}
         /\ \A i \in UserIndices : At(p, <<Self, i>>) \notin {KERNEL_TABLE} \ {0}
<1>1. KERNEL_TABLE \notin Tables \cup userPhysical
  BY Numbers DEF IInv, TypeOK, Tables, TableFrames
<1>2. QED
  BY <1>1, LiveRoots, LiveReach

\* Page directories are different frames.
LEMMA RootsDiffer ==
  ASSUME IInv, NEW p \in Live, NEW q \in Live, RootIs(p) = RootIs(q)
  PROVE  p = q
<1>1. pageDirectoryAddress[p] = pageDirectoryAddress[q]
  BY LiveRoots DEF IInv, KernelPart, RootIs, Root
<1>2. QED
  BY <1>1 DEF IInv, Roots

\* A frame is reached by one page only.
LEMMA OnePage ==
  ASSUME IInv, NEW p \in Live, NEW q \in Live, NEW x \in Spots, NEW y \in Spots,
         At(p, x) = At(q, y), At(p, x) # 0
  PROVE  p = q /\ x = y
  BY DEF IInv, Trees, At

\* A PCB that is released had no memory any more.
LEMMA ReapKeeps == ASSUME IInv, Reap PROVE IInv'
<1>1. PICK q \in Processes : phase[q] = "zombie" /\ phase' = [phase EXCEPT ![q] = "free"]
  BY DEF Reap
<1>2. UNCHANGED <<word, cr3, tlb, faulted, running, pageDirectoryAddress,
                  kernelVirtual, kernelPhysical, userPhysical, copy>>
  BY DEF Reap
<1>3. phase \in [Processes -> {"free", "load", "user", "copied", "zombie"}]
  BY DEF IInv, TypeOK
<1>4. /\ Live' = Live
      /\ \A p \in Processes : phase[p] \in {"load", "user", "copied"} => phase'[p] = phase[p]
      /\ \A p \in Processes : phase'[p] \in {"load", "user", "copied"} => phase'[p] = phase[p]
      /\ phase' \in [Processes -> {"free", "load", "user", "copied", "zombie"}]
  BY <1>1, <1>3 DEF Live
<1>5. \A p, x : At(p, x)' = At(p, x)
  BY <1>2 DEF At, Reach, Walk, Root
<1>6. TypeOK' /\ ~faulted'
  BY <1>2, <1>4 DEF IInv, TypeOK
<1>7. Turn'
  BY <1>2, <1>4, <1>3 DEF IInv, Turn, TypeOK, Root
<1>8. Stages'
  BY <1>2, <1>4, <1>5 DEF IInv, Stages
<1>9. Copies'
  <2>1. copy.child # 0 => copy.child \in Processes
    BY DEF IInv, Copies
  <2>2. running # 0 => running \in Processes
    BY DEF IInv, TypeOK
  <2>3. QED
    BY <1>2, <1>4, <1>5, <2>1, <2>2 DEF IInv, Copies
<1>10. Remembered'
  BY <1>2 DEF IInv, Remembered, Lasting, Walk
<1>11. /\ KernelPart(word', kernelVirtual', kernelPhysical')
       /\ Roots(word', pageDirectoryAddress', Live', kernelVirtual')
       /\ Trees(word', pageDirectoryAddress', Live',
                TableFrames(word', kernelVirtual', kernelPhysical'), userPhysical')
  BY <1>2, <1>4 DEF IInv
<1>12. QED
  BY <1>6, <1>7, <1>8, <1>9, <1>10, <1>11 DEF IInv

\* The directory that SwitchTo looks up is that of the process.
LEMMA SwitchToIs ==
  ASSUME NEW m, SwitchTo(m), IsDirectory(m, cr3), cr3 # 0
  PROVE  /\ running' \in (Processes \cup {0}) \ {running}
         /\ running' # 0 => phase[running'] \in {"load", "user"}
         /\ cr3' = IF running' = 0 THEN PAGE_DIRECTORY ELSE Root(m, pageDirectoryAddress, running')
         /\ tlb' = {}
  BY Walks DEF SwitchTo, Root

\* The process that is dispatched gets its own page directory.
LEMMA DispatchKeeps == ASSUME IInv, Dispatch PROVE IInv'
<1>1. UNCHANGED <<word, faulted, phase, pageDirectoryAddress, kernelVirtual,
                  kernelPhysical, userPhysical, copy>> /\ SwitchTo(word) /\ copy = NoCopy
  BY DEF Dispatch, Idle
<1>2. /\ running' \in Processes \cup {0}
      /\ running' # 0 => phase[running'] \in {"load", "user"}
      /\ cr3' = IF running' = 0 THEN PAGE_DIRECTORY ELSE Root(word, pageDirectoryAddress, running')
      /\ tlb' = {}
  BY <1>1, SwitchToIs, InUse
<1>3. Live' = Live
  BY <1>1 DEF Live
<1>4. \A p, x : At(p, x)' = At(p, x)
  BY <1>1 DEF At, Reach, Walk, Root
<1>5. Turn'
  BY <1>1, <1>2 DEF Turn, Root
<1>6. Stages'
  BY <1>1, <1>4 DEF IInv, Stages
<1>7. Copies'
  BY <1>1 DEF IInv, Copies, NoCopy
<1>8. Remembered'
  BY <1>2 DEF Remembered
<1>9. TypeOK' /\ ~faulted'
  <2>1. cr3' \in {PAGE_DIRECTORY} \cup KernelFrames
    <3>1. CASE running' = 0
      BY <1>2, <3>1
    <3>2. CASE running' # 0
      <4>1. running' \in Live
        BY <1>2, <3>2 DEF Live
      <4>2. RootIs(running') \in kernelPhysical
        BY <4>1, LiveRoots
      <4>3. QED
        BY <1>2, <3>2, <4>2 DEF RootIs, IInv, TypeOK
    <3>3. QED
      BY <3>1, <3>2
  <2>2. QED
    BY <1>1, <1>2, <2>1 DEF IInv, TypeOK
<1>10. /\ KernelPart(word', kernelVirtual', kernelPhysical')
       /\ Roots(word', pageDirectoryAddress', Live', kernelVirtual')
       /\ Trees(word', pageDirectoryAddress', Live',
                TableFrames(word', kernelVirtual', kernelPhysical'), userPhysical')
  BY <1>1, <1>3 DEF IInv
<1>11. QED
  BY <1>5, <1>6, <1>7, <1>8, <1>9, <1>10 DEF IInv

\* The page of a program, and what is in it.
PagesAreThere ==
  \A p \in Processes :
    phase[p] = "user" =>
      /\ p \in Live /\ At(p, UserPage) \in userPhysical /\ At(p, UserPage) \in Frames
      /\ At(p, UserPage) # 0
      /\ At(p, UserPage) \notin {PAGE_DIRECTORY, KERNEL_TABLE} \cup KernelFrames
      /\ Memory(p) = word[At(p, UserPage)] /\ Memory(p) \in [Offsets -> Words]

\* The page of every program is there, in a frame of the user's pool.
LEMMA PagesFound == IInv => PagesAreThere
<1> SUFFICES ASSUME IInv, NEW p \in Processes, phase[p] = "user"
             PROVE  /\ p \in Live /\ At(p, UserPage) \in userPhysical /\ At(p, UserPage) \in Frames
                    /\ At(p, UserPage) # 0
                    /\ At(p, UserPage) \notin {PAGE_DIRECTORY, KERNEL_TABLE} \cup KernelFrames
                    /\ Memory(p) = word[At(p, UserPage)] /\ Memory(p) \in [Offsets -> Words]
  BY DEF PagesAreThere
<1>1. p \in Live /\ At(p, UserPage) # 0
  BY DEF Live, IInv, Stages
<1>2. At(p, UserPage) \in userPhysical /\ At(p, UserPage) \in Frames
  BY <1>1, LiveReach, SpotsAre
<1>3. At(p, UserPage) \notin {PAGE_DIRECTORY, KERNEL_TABLE} \cup KernelFrames
  BY <1>2, Numbers DEF IInv, TypeOK
<1>4. RootOf(p) = RootIs(p)
  <2>1. IsDirectory(word, PAGE_DIRECTORY) /\ PAGE_DIRECTORY # 0
    BY DEF IInv, KernelPart, PAGE_DIRECTORY
  <2>2. QED
    BY <2>1, Walks DEF RootOf, RootIs, Root
<1>5. Memory(p) = word[At(p, UserPage)]
  BY <1>1, <1>4 DEF Memory, At, Reach, RootIs
<1>6. QED
  BY <1>1, <1>2, <1>3, <1>5 DEF IInv, TypeOK

\* The programs of the processes in S keep their pages, and what is in them.
PagesKept(S) ==
  \A p \in S : phase[p] = "user" => /\ At(p, UserPage)' = At(p, UserPage)
                                    /\ word'[At(p, UserPage)] = word[At(p, UserPage)]

\* A program that writes changes its own page and nothing else.
LEMMA UserWritesKeeps ==
  ASSUME IInv, UserWrites
  PROVE  /\ IInv' /\ PagesKept(Processes \ {running})
         /\ At(running, UserPage)' = At(running, UserPage)
         /\ \E x \in Data :
              word'[At(running, UserPage)] = [word[At(running, UserPage)] EXCEPT ![0] = x]
<1> DEFINE g == At(running, UserPage)
           D == {g}
<1>1. PICK x \in Data : word' = Store(word, cr3, UserPage, 0, x)
  BY DEF UserWrites
<1>2. /\ running # 0 /\ phase[running] = "user" /\ copy = NoCopy
      /\ UNCHANGED <<cr3, running, phase, pageDirectoryAddress, kernelVirtual,
                     kernelPhysical, userPhysical, copy>>
      /\ Use({UserPage})
  BY DEF UserWrites, Idle
<1>3. running \in Live /\ cr3 = RootIs(running) /\ running \in Processes
  BY <1>2, InUse DEF Live
<1>4. /\ g # 0 /\ Walk(word, cr3, UserPage) = g
      /\ g \in userPhysical /\ g \in Frames /\ g \in UserFrames
  <2>1. g # 0 /\ Walk(word, cr3, UserPage) = g
    BY <1>2, <1>3 DEF IInv, Stages, At, Reach, RootIs
  <2>2. g \in {0} \cup userPhysical
    BY <1>3, LiveReach, SpotsAre
  <2>3. QED
    BY <2>1, <2>2, Numbers DEF IInv, TypeOK
<1>5. word \in Memories /\ 0 \in Offsets /\ x \in Words
  <2>1. 0 \in Offsets
    BY PagingAssumption DEF Offsets
  <2>2. QED
    BY <2>1 DEF IInv, TypeOK, Memories, Words
<1>6. word' \in Memories /\ (\A h \in Frames \ D : word'[h] = word[h])
      /\ word'[g] = [word[g] EXCEPT ![0] = x]
  <2>1. WordPut(word, word', g, 0, x)
    BY <1>1, <1>4, <1>5, StoreIs
  <2>2. QED
    BY <2>1 DEF WordPut
<1>7. ASSUME NEW p \in Live
      PROVE  /\ RootIs(p) \notin D
             /\ \A i \in UserIndices : At(p, <<Self, i>>) \notin D \ {0}
  <2>1. RootIs(p) # g
    BY <1>4, LiveRoots
  <2>2. ASSUME NEW i \in UserIndices, At(p, <<Self, i>>) = g PROVE FALSE
    <3>1. <<Self, i>> \in Spots /\ UserPage \in Spots /\ <<Self, i>> # UserPage
      BY SpotsAre, Numbers
    <3>2. QED
      BY <1>3, <1>4, <2>2, <3>1, OnePage
  <2>3. QED
    BY <2>1, <2>2
<1>8. /\ g \notin {PAGE_DIRECTORY, KERNEL_TABLE}
      /\ KERNEL_TABLE \in Frames /\ PAGE_DIRECTORY \in Frames
  BY <1>4, Numbers
<1> HIDE DEF g
<1>9. word'[KERNEL_TABLE] = word[KERNEL_TABLE] /\ word'[PAGE_DIRECTORY] = word[PAGE_DIRECTORY]
  BY <1>6, <1>8
<1>10. \A p \in Live : RootIs(p)' = RootIs(p)
  BY <1>2, <1>9 DEF RootIs, Root
<1> HIDE DEF D
<1>11. /\ \A p \in Live : IsDirectory(word', RootIs(p))
       /\ \A p \in Live, y \in Spots : At(p, y)' = At(p, y)
       /\ Same(word, pageDirectoryAddress, word', pageDirectoryAddress', Live)
  BY <1>6, <1>7, <1>10, AllSame
<1>12. Live' = Live
  BY <1>2 DEF Live
<1>13. KernelPart(word', kernelVirtual', kernelPhysical') /\ Tables' = Tables
  <2>1. Stays(word, word')
    BY <1>9 DEF Stays, IInv, KernelPart, IsDirectory
  <2>2. KernelPart(word, kernelVirtual, kernelPhysical)
    BY DEF IInv
  <2>3. QED
    BY <1>2, <2>1, <2>2, KernelSame DEF Tables
<1>14. Roots(word', pageDirectoryAddress', Live', kernelVirtual')
  BY <1>2, <1>10, <1>11, <1>12 DEF IInv, Roots, RootIs
<1>15. Trees(word', pageDirectoryAddress', Live', Tables', userPhysical')
  BY <1>2, <1>11, <1>12, <1>13, TreesStay DEF IInv, Tables
<1>16. Turn'
  BY <1>2, <1>3, <1>10 DEF IInv, Turn, RootIs
<1>17. Stages'
  BY <1>2, <1>11, SpotsAre DEF IInv, Stages, Live
<1>18. Copies'
  BY <1>2 DEF IInv, Copies, NoCopy
<1>19. Remembered' /\ faulted' = FALSE
  <2>1. \A y \in Spots : Walk(word', cr3, y) = Walk(word, cr3, y)
    BY <1>3, <1>10, <1>11 DEF At, Reach, RootIs
  <2>2. \A y : Lasting(y) => Lasting(y)'
    BY <1>2 DEF Lasting
  <2>3. \A y \in {UserPage} : Lasting(y)' /\ Walk(word', cr3, y) # 0
    BY <1>2, <1>4, <2>1, SpotsAre DEF Lasting
  <2>4. IsDirectory(word', cr3)
    BY <1>3, <1>11
  <2>5. /\ cr3' = cr3
        /\ \A v \in kernelVirtual \ {copy.buffer} :
             word'[KERNEL_TABLE][v] = word[KERNEL_TABLE][v]
    BY <1>2, <1>9
  <2>6. QED
    BY <1>2, <2>1, <2>2, <2>3, <2>4, <2>5, Remembers
<1>20. TypeOK'
  BY <1>2, <1>6, <1>19 DEF IInv, TypeOK, Memories
<1>21. IInv'
  BY <1>13, <1>14, <1>15, <1>16, <1>17, <1>18, <1>19, <1>20 DEF IInv, Tables
<1>22. ASSUME NEW p \in Processes \ {running}, phase[p] = "user"
       PROVE  /\ At(p, UserPage)' = At(p, UserPage)
              /\ word'[At(p, UserPage)] = word[At(p, UserPage)]
  <2>1. p \in Live /\ At(p, UserPage) \in Frames /\ At(p, UserPage) # 0
    BY <1>22, PagesFound DEF PagesAreThere
  <2>2. At(p, UserPage) # g
    BY <1>3, <1>22, <2>1, OnePage, SpotsAre DEF g
  <2>3. QED
    BY <1>6, <1>11, <2>1, <2>2, SpotsAre DEF D
<1>23. PagesKept(Processes \ {running})
  BY <1>22 DEF PagesKept
<1>24. At(running, UserPage)' = At(running, UserPage)
  BY <1>2, <1>3, <1>11, SpotsAre
<1>25. QED
  BY <1>6, <1>21, <1>23, <1>24 DEF g

-----------------------------------------------------------------------------
\* A kernel page v that is no directory of the processes in S gets another frame.
LEMMA Connected ==
  ASSUME IInv, NEW v \in 1 .. KernelPages, NEW f \in {0} \cup Frames,
         word' = Connect(word, v, f), UNCHANGED pageDirectoryAddress,
         NEW S \in SUBSET Live, \A p \in S : pageDirectoryAddress[p] # v
  PROVE  /\ word' \in Memories /\ PageIs(word, word', v, f)
         /\ \A g \in Frames \ {KERNEL_TABLE} : word'[g] = word[g]
         /\ IsDirectory(word', cr3)
         /\ \A p \in S : RootIs(p)' = RootIs(p) /\ IsDirectory(word', RootIs(p))
         /\ \A p \in S, x \in Spots : At(p, x)' = At(p, x)
         /\ Same(word, pageDirectoryAddress, word', pageDirectoryAddress', S)
<1>1. /\ word' \in Memories
      /\ word'[KERNEL_TABLE] = [word[KERNEL_TABLE] EXCEPT ![v] = f]
      /\ \A g \in Frames \ {KERNEL_TABLE} : word'[g] = word[g]
  BY Connects, ZenonT(60)
<1>2. /\ word'[KERNEL_TABLE][v] = f
      /\ \A w \in (1 .. KernelPages) \ {v} : word'[KERNEL_TABLE][w] = word[KERNEL_TABLE][w]
  <2>1. word[KERNEL_TABLE] \in [Offsets -> Words] /\ 1 .. KernelPages \subseteq Offsets
    BY Numbers DEF IInv, TypeOK
  <2>2. QED
    BY <1>1, <2>1
<1>3. PageIs(word, word', v, f)
  <2>1. IsDirectory(word', PAGE_DIRECTORY)
    BY <1>1, Numbers DEF IsDirectory, IInv, KernelPart
  <2>2. QED
    BY <1>2, <2>1 DEF PageIs
<1>4. IsDirectory(word', cr3)
  BY <1>1, InUse DEF IsDirectory
<1>5. \A p \in S : RootIs(p)' = RootIs(p)
  BY <1>2, LiveRoots DEF RootIs, Root
<1>6. \A p \in S : RootIs(p) \notin {KERNEL_TABLE}
                   /\ \A i \in UserIndices : At(p, <<Self, i>>) \notin {KERNEL_TABLE} \ {0}
  BY TableApart
<1> DEFINE D == {KERNEL_TABLE}
<1>7. \A g \in Frames \ D : word'[g] = word[g]
  BY <1>1
<1>8. \A p \in S : /\ RootIs(p)' = RootIs(p) /\ RootIs(p) \notin D
                   /\ \A i \in UserIndices : At(p, <<Self, i>>) \notin D \ {0}
  BY <1>5, <1>6
<1> HIDE DEF D
<1>9. /\ \A p \in S : IsDirectory(word', RootIs(p))
      /\ \A p \in S, x \in Spots : At(p, x)' = At(p, x)
      /\ Same(word, pageDirectoryAddress, word', pageDirectoryAddress', S)
  BY <1>7, <1>8, AllSame
<1>10. QED
  BY <1>1, <1>3, <1>4, <1>5, <1>9

\* The pages that fork uses in the directory in use.
LEMMA ForkUses ==
  ASSUME IInv, copy.child # 0
  PROVE  /\ running \in Live /\ copy.child \in Live /\ running # copy.child
         /\ running \in Processes /\ copy.child \in Processes
         /\ cr3 = RootIs(running) /\ phase[running] = "user" /\ phase[copy.child] = "copied"
         /\ copy \in [child : Processes \cup {0}, buffer : 0 .. KernelPages, done : SUBSET Spots]
         /\ \A x \in Spots : At(copy.child, x) # 0 <=> x \in copy.done
         /\ \A x \in copy.done : At(running, x) # 0
         /\ copy.done \subseteq Spots
<1>1. /\ copy \in [child : Processes \cup {0}, buffer : 0 .. KernelPages, done : SUBSET Spots]
      /\ running # 0 /\ phase[running] = "user" /\ phase[copy.child] = "copied"
      /\ \A x \in Spots : At(copy.child, x) # 0 <=> x \in copy.done
      /\ \A x \in copy.done : At(running, x) # 0
  BY DEF IInv, Copies
<1>2. running \in Processes /\ copy.child \in Processes /\ copy.done \subseteq Spots
  BY <1>1 DEF IInv, TypeOK
<1>3. QED
  BY <1>1, <1>2, InUse DEF Live

\* The buffer page of fork disturbs no process, and its pages are there.
LEMMA ForkBufferKeeps == ASSUME IInv, ForkBuffer PROVE IInv'
<1> DEFINE v == Least(FreePages)
           f == Least(FreeKernelFrames)
<1>1. /\ copy.child # 0 /\ copy.buffer = 0 /\ FreePages # {} /\ FreeKernelFrames # {}
      /\ word' = Connect(word, v, f)
      /\ Use({TableOf(KernelPage(v)), ParentPage, ChildPage})
      /\ copy' = [copy EXCEPT !.buffer = v]
      /\ kernelVirtual' = kernelVirtual \cup {v}
      /\ kernelPhysical' = kernelPhysical \cup {f}
      /\ UNCHANGED <<cr3, running, phase, pageDirectoryAddress, userPhysical>>
  BY DEF ForkBuffer, Copying
<1>2. v \in FreePages /\ v \in 1 .. KernelPages /\ v \notin kernelVirtual /\ v # 0
      /\ v \in 0 .. KernelPages
  BY <1>1, LeastIs DEF FreePages
<1>3. /\ f \in FreeKernelFrames /\ f \in KernelFrames
      /\ f \in {0} \cup Frames /\ f \notin kernelPhysical
  <2>1. FreeKernelFrames \subseteq Nat
    BY PagingAssumption DEF FreeKernelFrames, KernelFrames
  <2>2. QED
    BY <1>1, <2>1, LeastIs, Numbers DEF FreeKernelFrames
<1> HIDE DEF v, f
<1>4. /\ running \in Live /\ copy.child \in Live /\ cr3 = RootIs(running)
      /\ copy \in [child : Processes \cup {0}, buffer : 0 .. KernelPages, done : SUBSET Spots]
  BY <1>1, ForkUses
<1>5. \A p \in Live : pageDirectoryAddress[p] # v
  BY <1>2, LiveRoots
<1>6. /\ word' \in Memories /\ PageIs(word, word', v, f)
      /\ \A g \in Frames \ {KERNEL_TABLE} : word'[g] = word[g]
      /\ IsDirectory(word', cr3)
      /\ \A p \in Live : RootIs(p)' = RootIs(p) /\ IsDirectory(word', RootIs(p))
      /\ \A p \in Live, x \in Spots : At(p, x)' = At(p, x)
      /\ Same(word, pageDirectoryAddress, word', pageDirectoryAddress', Live)
  BY <1>1, <1>2, <1>3, <1>5, Connected
<1>7. Live' = Live
  BY <1>1 DEF Live
<1>8. KernelPart(word', kernelVirtual', kernelPhysical') /\ Tables' = Tables
  <2>1. Takes(word, kernelVirtual, kernelPhysical, word', kernelVirtual', kernelPhysical')
    BY <1>1, <1>2, <1>3, <1>6 DEF Takes
  <2>2. KernelPart(word, kernelVirtual, kernelPhysical)
    BY DEF IInv
  <2>3. QED
    BY <2>1, <2>2, KernelGrows DEF Tables
<1>9. Roots(word', pageDirectoryAddress', Live', kernelVirtual')
  BY <1>1, <1>6, <1>7 DEF IInv, Roots, RootIs
<1>10. Trees(word', pageDirectoryAddress', Live', Tables', userPhysical')
  BY <1>1, <1>6, <1>7, <1>8, TreesStay DEF IInv, Tables
<1>11. Turn'
  BY <1>1, <1>4, <1>6 DEF IInv, Turn, RootIs
<1>12. copy'.child = copy.child /\ copy'.buffer = v /\ copy'.done = copy.done
       /\ copy' \in [child : Processes \cup {0}, buffer : 0 .. KernelPages, done : SUBSET Spots]
  BY <1>1, <1>2, <1>4
<1>13. Stages'
  BY <1>1, <1>6, <1>12, SpotsAre DEF IInv, Stages, Live
<1>14. Copies'
  <2>1. copy.done = {}
    BY <1>1 DEF IInv, Copies
  <2>2. \A x \in Spots : At(copy.child, x)' = 0
    BY <1>1, <1>4, <1>6, <2>1, ForkUses
  <2>3. running # 0 /\ phase[running] = "user" /\ phase[copy.child] = "copied"
    BY <1>1, ForkUses DEF IInv, Copies
  <2>4. \A p \in Live' : pageDirectoryAddress'[p] # v
    BY <1>1, <1>5, <1>7
  <2>5. QED
    BY <1>1, <1>2, <1>12, <2>1, <2>2, <2>3, <2>4 DEF Copies
<1>15. Remembered' /\ faulted' = FALSE
  <2>1. \A y \in Spots : Walk(word', cr3, y) = Walk(word, cr3, y)
    BY <1>4, <1>6 DEF At, Reach, RootIs
  <2>2. kernelVirtual' \ {copy'.buffer} = kernelVirtual /\ 0 \notin kernelVirtual
    BY <1>1, <1>2, <1>12, Numbers DEF IInv, TypeOK
  <2>3. \A y : Lasting(y) => Lasting(y)'
    BY <1>1, <2>2 DEF Lasting
  <2>4. \A w \in kernelVirtual \ {copy.buffer} : word'[KERNEL_TABLE][w] = word[KERNEL_TABLE][w]
    BY <1>2, <1>6 DEF PageIs, IInv, TypeOK
  <2>5. ASSUME NEW y \in {TableOf(KernelPage(v)), ParentPage, ChildPage}
        PROVE  Lasting(y)' /\ Walk(word', cr3, y) # 0
    <3>1. CASE y = TableOf(KernelPage(v))
      <4>1. y = <<Self, KernelIndex>>
        BY <3>1 DEF TableOf, KernelPage
      <4>2. Walk(word', cr3, y) = KERNEL_TABLE
        BY <1>6, <4>1, InUse, Walks
      <4>3. QED
        BY <4>1, <4>2, Numbers DEF Lasting
    <3>2. ASSUME NEW p \in Live, y = KernelPage(pageDirectoryAddress[p])
          PROVE  Lasting(y)' /\ Walk(word', cr3, y) # 0
      <4>1. pageDirectoryAddress[p] \in kernelVirtual /\ RootIs(p) # 0
        BY LiveRoots
      <4>2. Walk(word', cr3, y) = word'[KERNEL_TABLE][pageDirectoryAddress[p]]
        BY <1>6, <3>2, InUse, Walks
      <4>3. Walk(word', cr3, y) = RootIs(p)
        BY <1>1, <1>6, <4>2 DEF RootIs, Root
      <4>4. QED
        BY <2>2, <3>2, <4>1, <4>3 DEF Lasting
    <3>3. QED
      BY <1>4, <3>1, <3>2 DEF ParentPage, ChildPage
  <2>6. QED
    BY <1>1, <1>6, <2>1, <2>3, <2>4, <2>5, Remembers
<1>16. TypeOK'
  <2>1. kernelVirtual' \subseteq 1 .. KernelPages /\ kernelPhysical' \subseteq KernelFrames
    BY <1>1, <1>2, <1>3 DEF IInv, TypeOK
  <2>2. QED
    BY <1>1, <1>6, <1>15, <2>1 DEF IInv, TypeOK, Memories
<1>17. QED
  BY <1>8, <1>9, <1>10, <1>11, <1>13, <1>14, <1>15, <1>16 DEF IInv, Tables

-----------------------------------------------------------------------------
\* A process q that reached nothing gets a page table t at y with one page f at z.
Loads(m, at, n, bt, q, t, f, y, z) ==
  /\ y[1] = Self /\ y # z /\ y \in Spots /\ z \in Spots
  /\ \A x \in Spots : /\ Reach(m, at, q, x) = 0
                      /\ Reach(n, bt, q, x) = IF x = y THEN t ELSE IF x = z THEN f ELSE 0

\* Both frames are free.
Fresh(t, f, tables, user) ==
  /\ t # f /\ t # 0 /\ f # 0 /\ 0 \notin user
  /\ t \notin tables \cup user /\ f \notin tables \cup user

\* The page table and the page of a process that had none are its own.
LEMMA TreesLoad ==
  ASSUME NEW m, NEW at, NEW n, NEW bt, NEW S, NEW q \in S, NEW tables, NEW user,
         Trees(m, at, S, tables, user), Same(m, at, n, bt, S \ {q}),
         NEW t, NEW f, NEW y, NEW z,
         Loads(m, at, n, bt, q, t, f, y, z), Fresh(t, f, tables, user)
  PROVE  Trees(n, bt, S, tables \cup {t}, user \cup {f})
<1>1. \A p \in S \ {q}, x \in Spots : Reach(n, bt, p, x) = Reach(m, at, p, x)
  BY DEF Same
<1>2. /\ Reach(n, bt, q, y) = t /\ Reach(n, bt, q, z) = f
      /\ \A x \in Spots : x \notin {y, z} => Reach(n, bt, q, x) = 0
      /\ y[1] = Self /\ y # z /\ y \in Spots /\ z \in Spots
  BY DEF Loads
<1>3. \A p \in S, x \in Spots :
        Reach(m, at, p, x) \in {0} \cup user \cup (IF x[1] = Self THEN tables ELSE {})
  BY DEF Trees
<1>4. \A p \in S \ {q}, x \in Spots : Reach(n, bt, p, x) \notin {t, f}
  BY <1>1, <1>3 DEF Fresh
<1>5. ASSUME NEW p \in S, NEW x \in Spots
      PROVE  Reach(n, bt, p, x) \in {0} \cup (user \cup {f})
                                       \cup (IF x[1] = Self THEN tables \cup {t} ELSE {})
  <2>1. CASE p = q
    BY <1>2, <2>1
  <2>2. CASE p # q
    BY <1>1, <1>3, <2>2
  <2>3. QED
    BY <2>1, <2>2
<1>6. ASSUME NEW p \in S, NEW r \in S, NEW x \in Spots, NEW w \in Spots,
             Reach(n, bt, p, x) = Reach(n, bt, r, w), Reach(n, bt, p, x) # 0
      PROVE  p = r /\ x = w
  <2>1. CASE p = q /\ r = q
    BY <1>2, <1>6, <2>1 DEF Fresh
  <2>2. CASE p = q /\ r # q
    BY <1>2, <1>4, <1>6, <2>2
  <2>3. CASE p # q /\ r = q
    BY <1>2, <1>4, <1>6, <2>3
  <2>4. CASE p # q /\ r # q
    BY <1>1, <1>6, <2>4 DEF Trees
  <2>5. QED
    BY <2>1, <2>2, <2>3, <2>4
<1>7. ASSUME NEW g \in user \cup {f} PROVE \E p \in S, x \in Spots : Reach(n, bt, p, x) = g
  <2>1. CASE g = f
    BY <1>2, <2>1
  <2>2. CASE g \in user
    <3>1. PICK p \in S, x \in Spots : Reach(m, at, p, x) = g
      BY <2>2 DEF Trees
    <3>2. p # q
      BY <2>2, <3>1 DEF Loads, Fresh
    <3>3. QED
      BY <1>1, <3>1, <3>2
  <2>3. QED
    BY <2>1, <2>2
<1>8. QED
  BY <1>5, <1>6, <1>7 DEF Trees

\* load_process gives the process a page, and disturbs no other.
LEMMA LoadProcessKeeps ==
  ASSUME IInv, LoadProcess
  PROVE  /\ IInv' /\ PagesKept(Processes \ {running}) /\ phase[running] = "load"
         /\ running \in Processes /\ phase' = [phase EXCEPT ![running] = "user"]
<1> DEFINE f == Least(FreeUserFrames)
           t == Least(FreeKernelFrames)
           c == cr3
           i == UserPage[1]
           s == [k \in Offsets |-> IF k = UserPage[2] THEN f ELSE 0]
           m == Store(word, cr3, Directory, UserPage[1], t)
<1>1. /\ running # 0 /\ phase[running] = "load" /\ copy = NoCopy
      /\ FreeUserFrames # {} /\ FreeKernelFrames # {}
      /\ word' = StorePage(m, cr3, TableOf(UserPage), s)
      /\ Use({Directory, TableOf(UserPage)})
      /\ userPhysical' = userPhysical \cup {f}
      /\ kernelPhysical' = kernelPhysical \cup {t}
      /\ phase' = [phase EXCEPT ![running] = "user"]
      /\ UNCHANGED <<cr3, running, pageDirectoryAddress, kernelVirtual, copy>>
  BY DEF LoadProcess, Idle
<1>2. f \in UserFrames /\ f \notin userPhysical /\ f \in Frames /\ f # 0 /\ f \in Words
  <2>1. FreeUserFrames \subseteq Nat
    BY PagingAssumption DEF FreeUserFrames, UserFrames
  <2>2. QED
    BY <1>1, <2>1, LeastIs, Numbers DEF FreeUserFrames
<1>3. t \in KernelFrames /\ t \notin kernelPhysical /\ t \in Frames /\ t # 0 /\ t \in Words
      /\ t \notin {PAGE_DIRECTORY, KERNEL_TABLE}
  <2>1. FreeKernelFrames \subseteq Nat
    BY PagingAssumption DEF FreeKernelFrames, KernelFrames
  <2>2. QED
    BY <1>1, <2>1, LeastIs, Numbers DEF FreeKernelFrames
<1>4. /\ running \in Live /\ running \in Processes /\ c = RootIs(running)
      /\ c \in Frames /\ c # 0 /\ c \in kernelPhysical /\ c \notin {t, KERNEL_TABLE, PAGE_DIRECTORY}
      /\ IsDirectory(word, c)
  BY <1>1, <1>3, InUse, LiveRoots
<1>5. /\ i \in UserIndices /\ i \in Offsets /\ i # KernelIndex /\ i # Self
      /\ UserPage[2] \in Offsets /\ UserPage = <<i, UserPage[2]>>
      /\ UserPage \in Spots /\ <<Self, i>> \in Spots /\ <<Self, i>> # UserPage
      /\ TableOf(UserPage) = <<Self, i>>
  BY SpotsAre, Numbers DEF TableOf
<1>6. \A x \in Spots : At(running, x) = 0
  BY <1>1, <1>4 DEF IInv, Stages
<1>7. \A k \in UserIndices : word[c][k] = 0
  BY <1>4, <1>6, LiveReach, SpotsAre, ZenonT(60)
<1>8. word \in Memories
  BY DEF IInv, TypeOK, Memories
<1> HIDE DEF f, t, c, i, s
<1>9. m \in Memories /\ m[c] = [word[c] EXCEPT ![i] = t] /\ \A g \in Frames \ {c} : m[g] = word[g]
  <2>1. Walk(word, c, Directory) = c
    BY <1>4, Walks
  <2>2. m = Store(word, c, Directory, i, t)
    BY DEF c, i
  <2>3. WordPut(word, m, c, i, t)
    BY <1>3, <1>4, <1>5, <1>8, <2>1, <2>2, StoreIs
  <2>4. QED
    BY <2>3 DEF WordPut
<1> HIDE DEF m
<1>10. m[c][i] = t /\ \A k \in Offsets \ {i} : m[c][k] = word[c][k]
  <2>1. word[c] \in [Offsets -> Words]
    BY <1>4, <1>8 DEF Memories
  <2>2. QED
    BY <1>5, <1>9, <2>1
<1>11. word' \in Memories /\ word'[t] = s /\ \A g \in Frames \ {t} : word'[g] = m[g]
  <2>1. IsDirectory(m, c)
    BY <1>4, <1>5, <1>10, Numbers DEF IsDirectory
  <2>2. Walk(m, c, TableOf(UserPage)) = t
    BY <1>4, <1>5, <1>10, <2>1, Walks
  <2>3. s \in [Offsets -> Words]
    BY <1>2, Numbers DEF s
  <2>4. word' = StorePage(m, c, TableOf(UserPage), s)
    BY <1>1 DEF c
  <2>5. PagePut(m, word', t, s)
    BY <1>3, <1>9, <2>2, <2>3, <2>4, StorePageIs
  <2>6. QED
    BY <2>5 DEF PagePut
<1> DEFINE D == {c, t}
<1>12. \A g \in Frames \ D : word'[g] = word[g]
  BY <1>9, <1>11
<1>13. /\ word'[c][i] = t /\ \A k \in Offsets \ {i} : word'[c][k] = word[c][k]
       /\ IsDirectory(word', c)
  BY <1>4, <1>5, <1>10, <1>11, Numbers DEF IsDirectory
<1>14. \A j \in Offsets : word'[t][j] = IF j = UserPage[2] THEN f ELSE 0
  BY <1>11 DEF s
<1>15. word'[KERNEL_TABLE] = word[KERNEL_TABLE] /\ word'[PAGE_DIRECTORY] = word[PAGE_DIRECTORY]
  BY <1>3, <1>4, <1>12, Numbers
<1>16. \A p \in Live : RootIs(p)' = RootIs(p)
  BY <1>1, <1>15 DEF RootIs, Root
<1>17. ASSUME NEW p \in Live \ {running}
       PROVE  /\ RootIs(p) \notin D
              /\ \A k \in UserIndices : At(p, <<Self, k>>) \notin D \ {0}
  <2>1. RootIs(p) # c /\ RootIs(p) # t
    BY <1>3, <1>4, RootsDiffer, LiveRoots
  <2>2. c \notin Tables \cup userPhysical /\ t \notin Tables \cup userPhysical
    BY <1>3, <1>4, LiveRoots, Numbers DEF IInv, TypeOK, Tables, TableFrames
  <2>3. QED
    BY <2>1, <2>2, LiveReach
<1>18. /\ \A p \in Live \ {running} : IsDirectory(word', RootIs(p))
       /\ \A p \in Live \ {running}, x \in Spots : At(p, x)' = At(p, x)
       /\ Same(word, pageDirectoryAddress, word', pageDirectoryAddress', Live \ {running})
  <2> HIDE DEF D
  <2>1. \A p \in Live \ {running} :
          /\ RootIs(p)' = RootIs(p) /\ RootIs(p) \notin D
          /\ \A k \in UserIndices : At(p, <<Self, k>>) \notin D \ {0}
    BY <1>16, <1>17
  <2>2. Live \ {running} \in SUBSET Live
    OBVIOUS
  <2>3. QED
    BY <1>12, <2>1, <2>2, AllSame
<1>19. ASSUME NEW x \in Spots
       PROVE  At(running, x)' = IF x = <<Self, i>> THEN t ELSE IF x = UserPage THEN f ELSE 0
  <2>1. At(running, x)' = Walk(word', c, x)
    BY <1>1, <1>4, <1>16 DEF At, Reach, RootIs
  <2>2. CASE x[1] = Self /\ x[2] \in UserIndices /\ x = <<Self, x[2]>>
    <3>1. Walk(word', c, x) = word'[c][x[2]]
      BY <1>4, <1>13, <2>2, Walks
    <3>2. x # UserPage
      BY <1>5, <2>2
    <3>3. x = <<Self, i>> <=> x[2] = i
      BY <2>2
    <3>4. x[2] \in Offsets
      BY <2>2, Numbers
    <3>5. QED
      BY <1>7, <1>13, <2>1, <2>2, <3>1, <3>2, <3>3, <3>4
  <2>3. CASE x[1] \in UserIndices /\ x[2] \in Offsets /\ x = <<x[1], x[2]>>
    <3>1. Walk(word', c, x) = IF word'[c][x[1]] = 0 THEN 0 ELSE word'[word'[c][x[1]]][x[2]]
      BY <1>4, <1>13, <2>3, Walks
    <3>2. x # <<Self, i>> /\ x[1] \in Offsets
      BY <2>3, Numbers
    <3>3. CASE x[1] = i
      <4>1. Walk(word', c, x) = word'[t][x[2]]
        BY <1>3, <1>13, <3>1, <3>3
      <4>2. x = UserPage <=> x[2] = UserPage[2]
        BY <1>5, <2>3, <3>3
      <4>3. QED
        BY <1>14, <2>1, <2>3, <3>2, <4>1, <4>2
    <3>4. CASE x[1] # i
      <4>1. word'[c][x[1]] = 0
        BY <1>7, <1>13, <2>3, <3>2, <3>4
      <4>2. x # UserPage
        BY <1>5, <3>4
      <4>3. QED
        BY <2>1, <3>1, <3>2, <4>1, <4>2
    <3>5. QED
      BY <3>3, <3>4
  <2>4. QED
    BY <2>2, <2>3, SpotsAre
<1>20. Live' = Live
  BY <1>1 DEF Live, IInv, TypeOK
<1>21. KernelPart(word', kernelVirtual', kernelPhysical') /\ Tables' = Tables \cup {t}
  <2>1. Stays(word, word')
    BY <1>15 DEF Stays, IInv, KernelPart, IsDirectory
  <2>2. KernelPart(word, kernelVirtual, kernelPhysical)
    BY DEF IInv
  <2>3. Allocates(word, kernelPhysical, word', kernelPhysical', t)
    BY <1>1, <1>3, <2>1 DEF Allocates
  <2>4. KernelPart(word', kernelVirtual, kernelPhysical')
        /\ TableFrames(word', kernelVirtual, kernelPhysical')
             = TableFrames(word, kernelVirtual, kernelPhysical) \cup {t}
    BY <2>2, <2>3, KernelStays
  <2>5. QED
    BY <1>1, <2>4 DEF Tables
<1>22. Roots(word', pageDirectoryAddress', Live', kernelVirtual')
  <2>1. \A p \in Live : IsDirectory(word', RootIs(p)')
    BY <1>4, <1>13, <1>16, <1>18
  <2>2. QED
    BY <1>1, <1>20, <2>1 DEF IInv, Roots, RootIs
<1>23. Trees(word', pageDirectoryAddress', Live', Tables', userPhysical')
  <2>1. Trees(word, pageDirectoryAddress, Live, Tables, userPhysical)
    BY DEF IInv, Tables
  <2>2. \A x \in Spots : Reach(word, pageDirectoryAddress, running, x) = 0
    BY <1>6 DEF At
  <2>3. \A x \in Spots : Reach(word', pageDirectoryAddress', running, x)
                           = IF x = <<Self, i>> THEN t ELSE IF x = UserPage THEN f ELSE 0
    BY <1>1, <1>19 DEF At
  <2>4. Loads(word, pageDirectoryAddress, word', pageDirectoryAddress', running, t, f,
              <<Self, i>>, UserPage)
    BY <1>5, <2>2, <2>3 DEF Loads
  <2>5. Fresh(t, f, Tables, userPhysical)
    BY <1>2, <1>3, Numbers DEF IInv, TypeOK, Tables, TableFrames, Fresh
  <2>6. Trees(word', pageDirectoryAddress', Live, Tables \cup {t}, userPhysical \cup {f})
    BY <1>4, <1>18, <2>1, <2>4, <2>5, TreesLoad
  <2>7. QED
    BY <1>1, <1>20, <1>21, <2>6
<1>24. phase' \in [Processes -> {"free", "load", "user", "copied", "zombie"}]
       /\ phase'[running] = "user" /\ \A p \in Processes \ {running} : phase'[p] = phase[p]
  BY <1>1, <1>4 DEF IInv, TypeOK
<1>25. Turn'
  BY <1>1, <1>4, <1>16, <1>24 DEF IInv, Turn, RootIs, c
<1>26. Stages'
  <2>1. ASSUME NEW p \in Processes
        PROVE  /\ phase'[p] = "load" => \A x \in Spots : At(p, x)' = 0
               /\ phase'[p] = "user" => At(p, UserPage)' # 0
               /\ phase'[p] = "copied" => p = copy'.child
    <3>1. CASE p = running
      BY <1>1, <1>2, <1>5, <1>19, <1>24, <3>1
    <3>2. CASE p # running
      BY <1>1, <1>5, <1>18, <1>24, <3>2 DEF IInv, Stages, Live
    <3>3. QED
      BY <3>1, <3>2
  <2>2. QED
    BY <2>1 DEF Stages
<1>27. Copies'
  BY <1>1 DEF IInv, Copies, NoCopy
<1>28. Remembered' /\ faulted' = FALSE
  <2>1. \A y \in Spots : running # 0 /\ Walk(word, cr3, y) # 0
                            => Walk(word', cr3, y) = Walk(word, cr3, y)
    BY <1>4, <1>6 DEF At, Reach, RootIs, c
  <2>2. \A y : Lasting(y) => Lasting(y)'
    BY <1>1 DEF Lasting
  <2>3. Walk(word', cr3, <<Self, i>>) = t /\ Walk(word', cr3, Directory) = cr3
    BY <1>4, <1>5, <1>13, Walks DEF c
  <2>4. \A y \in {Directory, TableOf(UserPage)} : Lasting(y)' /\ Walk(word', cr3, y) # 0
    BY <1>1, <1>3, <1>4, <1>5, <2>3 DEF Lasting, c
  <2>5. \A v \in kernelVirtual \ {copy.buffer} : word'[KERNEL_TABLE][v] = word[KERNEL_TABLE][v]
    BY <1>15
  <2>6. IsDirectory(word', cr3) /\ cr3' = cr3
    BY <1>1, <1>13 DEF c
  <2>7. QED
    BY <1>1, <2>1, <2>2, <2>4, <2>5, <2>6, Remembers
<1>29. TypeOK'
  <2>1. userPhysical' \subseteq UserFrames /\ kernelPhysical' \subseteq KernelFrames
    BY <1>1, <1>2, <1>3 DEF IInv, TypeOK
  <2>2. QED
    BY <1>1, <1>11, <1>24, <1>28, <2>1 DEF IInv, TypeOK, Memories
<1>30. IInv'
  BY <1>21, <1>22, <1>23, <1>25, <1>26, <1>27, <1>28, <1>29 DEF IInv, Tables
<1>31. ASSUME NEW p \in Processes \ {running}, phase[p] = "user"
       PROVE  /\ At(p, UserPage)' = At(p, UserPage)
              /\ word'[At(p, UserPage)] = word[At(p, UserPage)]
  <2>1. /\ p \in Live \ {running} /\ At(p, UserPage) \in userPhysical /\ At(p, UserPage) \in Frames
        /\ At(p, UserPage) \notin KernelFrames
    BY <1>31, PagesFound DEF PagesAreThere
  <2>2. At(p, UserPage) \notin D
    BY <1>3, <1>4, <2>1 DEF IInv, TypeOK
  <2>3. QED
    BY <1>12, <1>18, <2>1, <2>2, SpotsAre
<1>32. PagesKept(Processes \ {running})
  BY <1>31 DEF PagesKept
<1>33. QED
  BY <1>1, <1>4, <1>30, <1>32

-----------------------------------------------------------------------------
\* What fork and exit find of the running process: the pages that it reaches.
LEMMA UncopiedIs ==
  ASSUME IInv, running # 0
  PROVE  /\ UserTables = {i \in UserIndices : At(running, <<Self, i>>) # 0}
         /\ MappedPages = {x \in UserIndices \X Offsets : At(running, x) # 0}
         /\ Uncopied = {x \in Spots : At(running, x) # 0 /\ x \notin copy.done}
         /\ FramesOf = {At(running, x) : x \in Spots} \ {0}
<1>1. running \in Live /\ cr3 = RootIs(running) /\ IsDirectory(word, cr3) /\ cr3 # 0
  BY InUse
<1>2. Walk(word, cr3, ParentPage) = cr3
  BY <1>1, Walks DEF ParentPage, RootIs, Root
<1>3. \A x \in Spots : At(running, x) = Walk(word, cr3, x)
  BY <1>1 DEF At, Reach, RootIs
<1>4. \A i \in UserIndices : Read(ParentPage, i) = At(running, <<Self, i>>)
  BY <1>1, <1>2, LiveReach DEF Read
<1>5. UserTables = {i \in UserIndices : At(running, <<Self, i>>) # 0}
  BY <1>4 DEF UserTables, UserIndices
<1>6. ASSUME NEW i \in UserIndices, NEW j \in Offsets, At(running, <<Self, i>>) # 0
      PROVE  Read(TableOf(<<i, j>>), j) = At(running, <<i, j>>)
  <2>1. At(running, <<i, j>>) = word[word[cr3][i]][j]
    BY <1>1, <1>6, LiveReach
  <2>2. Walk(word, cr3, <<Self, i>>) = word[cr3][i]
    BY <1>1, Walks
  <2>3. QED
    BY <2>1, <2>2 DEF Read, TableOf
<1>7. ASSUME NEW x \in UserIndices \X Offsets, At(running, x) # 0
      PROVE  At(running, <<Self, x[1]>>) # 0
  <2>1. x = <<x[1], x[2]>> /\ x[1] \in UserIndices /\ x[2] \in Offsets
    OBVIOUS
  <2>2. QED
    BY <1>1, <1>7, <2>1, LiveReach
<1>8. MappedPages = {x \in UserIndices \X Offsets : At(running, x) # 0}
  <2>1. ASSUME NEW x \in UserTables \X Offsets PROVE Read(TableOf(x), x[2]) = At(running, x)
    <3>1. x = <<x[1], x[2]>> /\ x[1] \in UserIndices /\ x[2] \in Offsets
          /\ At(running, <<Self, x[1]>>) # 0
      BY <1>5
    <3>2. QED
      BY <1>6, <3>1
  <2>2. \A x : x \in MappedPages <=> x \in UserTables \X Offsets /\ At(running, x) # 0
    BY <2>1 DEF MappedPages
  <2>3. \A x \in UserIndices \X Offsets : At(running, x) # 0 => x \in UserTables \X Offsets
    BY <1>5, <1>7
  <2>4. \A x \in UserTables \X Offsets : x \in UserIndices \X Offsets
    BY <1>5
  <2>5. QED
    BY <2>2, <2>3, <2>4
<1> DEFINE P == {x \in Spots : At(running, x) # 0}
           T == {TableOf(<<i, 0>>) : i \in UserTables}
<1>9. T = {<<Self, i>> : i \in UserTables}
  BY DEF TableOf
<1>10. P = T \cup MappedPages
  <2>1. T \subseteq P
    BY <1>5, <1>9, SpotsAre
  <2>2. MappedPages \subseteq P
    BY <1>8 DEF Spots
  <2>3. ASSUME NEW x \in P PROVE x \in T \cup MappedPages
    <3>1. CASE x[1] = Self /\ x[2] \in UserIndices /\ x = <<Self, x[2]>>
      <4>1. x[2] \in UserTables
        BY <1>5, <3>1
      <4>2. QED
        BY <1>9, <3>1, <4>1
    <3>2. CASE x[1] \in UserIndices /\ x[2] \in Offsets /\ x = <<x[1], x[2]>>
      <4>1. x \in UserIndices \X Offsets
        BY <3>2
      <4>2. QED
        BY <1>8, <4>1
    <3>3. QED
      BY <3>1, <3>2, SpotsAre
  <2>4. QED
    BY <2>1, <2>2, <2>3
<1>11. Uncopied = {x \in Spots : At(running, x) # 0 /\ x \notin copy.done}
  BY <1>10 DEF Uncopied
<1>12. \A x \in P : vaddr2paddr(word, cr3, x) = At(running, x)
  BY <1>1, <1>3, Walks
<1>13. FramesOf = {vaddr2paddr(word, cr3, x) : x \in P}
  BY <1>10 DEF FramesOf
<1>14. FramesOf = {At(running, x) : x \in Spots} \ {0}
  BY <1>12, <1>13
<1>15. QED
  BY <1>5, <1>8, <1>11, <1>14

\* Page z of the child of fork is mapped to a new frame f, with what its parent's
\* page holds, and nothing else that processes reach is changed.
ChildGets(z, f) ==
  /\ z \in Spots /\ At(running, z) # 0 /\ z \notin copy.done
  /\ f \in UserFrames /\ f \notin userPhysical /\ userPhysical' = userPhysical \cup {f}
  /\ word' \in Memories
  /\ word'[KERNEL_TABLE] = word[KERNEL_TABLE] /\ word'[PAGE_DIRECTORY] = word[PAGE_DIRECTORY]
  /\ \A p \in Live : IsDirectory(word', RootIs(p))
  /\ \A p \in Live, x \in Spots :
       /\ Walk(word', RootIs(p), x) = IF p = copy.child /\ x = z THEN f ELSE At(p, x)
       /\ x[1] # Self /\ At(p, x) # 0 => word'[At(p, x)] = word[At(p, x)]
  /\ z[1] # Self => word'[f] = word[At(running, z)]
  /\ copy' = [copy EXCEPT !.done = @ \cup {z}]
  /\ tlb' = {} /\ faulted' = FALSE
  /\ UNCHANGED <<cr3, running, phase, pageDirectoryAddress, kernelVirtual, kernelPhysical>>

\* A page that fork copies is reached from the child's directory only.
LEMMA ChildGetsKeeps ==
  ASSUME IInv, copy.child # 0, copy.buffer # 0, NEW z, NEW f, ChildGets(z, f)
  PROVE  IInv'
<1>1. /\ running \in Live /\ copy.child \in Live /\ running # copy.child
      /\ running \in Processes /\ copy.child \in Processes
      /\ cr3 = RootIs(running) /\ phase[running] = "user" /\ phase[copy.child] = "copied"
      /\ copy \in [child : Processes \cup {0}, buffer : 0 .. KernelPages, done : SUBSET Spots]
      /\ \A x \in Spots : At(copy.child, x) # 0 <=> x \in copy.done
      /\ \A x \in copy.done : At(running, x) # 0
      /\ copy.done \subseteq Spots
  BY ForkUses
<1>2. /\ z \in Spots /\ At(running, z) # 0 /\ z \notin copy.done
      /\ f \in UserFrames /\ f \notin userPhysical /\ userPhysical' = userPhysical \cup {f}
      /\ word' \in Memories
      /\ word'[KERNEL_TABLE] = word[KERNEL_TABLE] /\ word'[PAGE_DIRECTORY] = word[PAGE_DIRECTORY]
      /\ \A p \in Live : IsDirectory(word', RootIs(p))
      /\ tlb' = {} /\ faulted' = FALSE
      /\ UNCHANGED <<cr3, running, phase, pageDirectoryAddress, kernelVirtual, kernelPhysical>>
  BY DEF ChildGets
<1>3. Live' = Live
  BY <1>2 DEF Live
<1>4. \A p \in Live : RootIs(p)' = RootIs(p)
  BY <1>2 DEF RootIs, Root
<1>5. \A p \in Live, x \in Spots :
        At(p, x)' = IF p = copy.child /\ x = z THEN f ELSE At(p, x)
  BY <1>4 DEF ChildGets, At, Reach, RootIs
<1>6. /\ copy'.child = copy.child /\ copy'.buffer = copy.buffer
      /\ copy'.done = copy.done \cup {z}
      /\ copy' \in [child : Processes \cup {0}, buffer : 0 .. KernelPages, done : SUBSET Spots]
  BY <1>1, <1>2 DEF ChildGets
<1>7. f # 0 /\ 0 \notin userPhysical
  BY <1>2, Numbers DEF IInv, TypeOK
<1>8. KernelPart(word', kernelVirtual', kernelPhysical') /\ Tables' = Tables
  <2>1. Stays(word, word')
    BY <1>2 DEF Stays, IInv, KernelPart, IsDirectory
  <2>2. KernelPart(word, kernelVirtual, kernelPhysical)
    BY DEF IInv
  <2>3. QED
    BY <1>2, <2>1, <2>2, KernelSame DEF Tables
<1>9. Roots(word', pageDirectoryAddress', Live', kernelVirtual')
  BY <1>2, <1>3, <1>4 DEF IInv, Roots, RootIs
<1>10. Trees(word', pageDirectoryAddress', Live', Tables', userPhysical')
  <2>1. Trees(word, pageDirectoryAddress, Live, Tables, userPhysical)
    BY DEF IInv, Tables
  <2>2. OneMore(word, pageDirectoryAddress, word', pageDirectoryAddress', Live, copy.child, z, f)
    BY <1>2, <1>5 DEF OneMore, At
  <2>3. Reach(word, pageDirectoryAddress, copy.child, z) = 0
    BY <1>1, <1>2 DEF At
  <2>4. f \notin userPhysical \cup Tables
    BY <1>2, Numbers DEF IInv, TypeOK, Tables, TableFrames
  <2>5. Trees(word', pageDirectoryAddress', Live, Tables, userPhysical \cup {f})
    BY <1>1, <1>2, <1>7, <2>1, <2>2, <2>3, <2>4, TreesGrow
  <2>6. QED
    BY <1>2, <1>3, <1>8, <2>5
<1>11. Turn'
  BY <1>1, <1>2, <1>4 DEF IInv, Turn, RootIs
<1>12. Stages'
  BY <1>1, <1>2, <1>5, <1>6, SpotsAre DEF IInv, Stages, Live
<1>13. Copies'
  <2>1. running' # 0 /\ phase'[running'] = "user" /\ phase'[copy'.child] = "copied"
    BY <1>1, <1>2, <1>6, Numbers
  <2>2. \A x \in Spots : At(copy.child, x)' # 0 <=> x \in copy'.done
    BY <1>1, <1>5, <1>6, <1>7
  <2>3. ASSUME NEW x \in copy'.done, x[1] # Self
        PROVE  word'[At(copy.child, x)'] = word'[At(running, x)']
    <3>1. x \in Spots /\ At(running, x)' = At(running, x) /\ At(running, x) # 0
      BY <1>1, <1>2, <1>5, <1>6
    <3>2. word'[At(running, x)] = word[At(running, x)]
      BY <1>1, <2>3, <3>1 DEF ChildGets
    <3>3. CASE x = z
      BY <1>1, <1>5, <1>6, <2>3, <3>1, <3>2, <3>3 DEF ChildGets
    <3>4. CASE x # z
      <4>1. x \in copy.done /\ At(copy.child, x)' = At(copy.child, x) /\ At(copy.child, x) # 0
        BY <1>1, <1>5, <1>6, <3>1, <3>4
      <4>2. word'[At(copy.child, x)] = word[At(copy.child, x)]
        BY <1>1, <2>3, <3>1, <4>1 DEF ChildGets
      <4>3. word[At(copy.child, x)] = word[At(running, x)]
        BY <2>3, <4>1 DEF IInv, Copies
      <4>4. QED
        BY <3>1, <3>2, <4>1, <4>2, <4>3
    <3>5. QED
      BY <3>3, <3>4
  <2>4. \A x \in copy'.done : At(running, x)' # 0
    BY <1>1, <1>2, <1>5, <1>6
  <2>5. copy'.buffer # 0 /\ copy'.buffer \in kernelVirtual'
        /\ \A p \in Live' : pageDirectoryAddress'[p] # copy'.buffer
    BY <1>2, <1>3, <1>6 DEF IInv, Copies
  <2>6. copy'.child # 0
    BY <1>6
  <2>7. QED
    BY <1>6, <2>1, <2>2, <2>3, <2>4, <2>5, <2>6 DEF Copies
<1>14. Remembered'
  BY <1>2 DEF Remembered
<1>15. TypeOK'
  <2>1. userPhysical' \subseteq UserFrames
    BY <1>2 DEF IInv, TypeOK
  <2>2. QED
    BY <1>2, <2>1 DEF IInv, TypeOK, Memories
<1>16. QED
  BY <1>2, <1>8, <1>9, <1>10, <1>11, <1>12, <1>13, <1>14, <1>15 DEF IInv, Tables

-----------------------------------------------------------------------------
\* The child's directory, as fork finds it through the parent's.
LEMMA ChildIs ==
  ASSUME IInv, copy.child # 0
  PROVE  /\ Child = RootIs(copy.child) /\ Child \in Frames /\ Child # 0
         /\ Child \notin {PAGE_DIRECTORY, KERNEL_TABLE} \cup Tables \cup userPhysical
         /\ IsDirectory(word, Child)
         /\ \A i \in UserIndices : word[Child][i] = At(copy.child, <<Self, i>>)
         /\ ChildPage = KernelPage(pageDirectoryAddress[copy.child])
         /\ \A m : IsDirectory(m, Child) /\ m[KERNEL_TABLE] = word[KERNEL_TABLE]
                     => Walk(m, Child, ChildPage) = Child
<1>1. copy.child \in Live /\ running \in Live /\ cr3 = RootIs(running)
  BY ForkUses
<1>2. Child = RootIs(copy.child)
  BY InUse, Walks DEF Child, ChildPage, RootIs, Root
<1>3. /\ Child \in Frames /\ Child # 0
      /\ Child \notin {PAGE_DIRECTORY, KERNEL_TABLE} \cup Tables \cup userPhysical
      /\ IsDirectory(word, Child)
  BY <1>1, <1>2, LiveRoots
<1>4. \A i \in UserIndices : word[Child][i] = At(copy.child, <<Self, i>>)
  BY <1>1, <1>2, LiveReach
<1>5. ASSUME NEW m, IsDirectory(m, Child), m[KERNEL_TABLE] = word[KERNEL_TABLE]
      PROVE  Walk(m, Child, ChildPage) = Child
  <2>1. Walk(m, Child, ChildPage) = m[KERNEL_TABLE][pageDirectoryAddress[copy.child]]
    BY <1>3, <1>5, Walks DEF ChildPage
  <2>2. QED
    BY <1>2, <1>5, <2>1 DEF RootIs, Root
<1>6. QED
  BY <1>2, <1>3, <1>4, <1>5 DEF ChildPage

\* A page table that fork makes is the child's, and empty.
LEMMA ForkTableGives == ASSUME IInv, ForkTable PROVE \E z, f : ChildGets(z, f)
<1> DEFINE I == {p[2] : p \in {q \in Uncopied : q[1] = Self}}
           i == Least(I)
           f == Least(FreeUserFrames)
           c == Child
           z == <<Self, i>>
           s == [k \in Offsets |-> 0]
           m == Store(word, Child, ChildPage, i, f)
           D == {c, f}
<1>1. /\ copy.child # 0 /\ copy.buffer # 0 /\ FreeUserFrames # {}
      /\ \E p \in Uncopied : p[1] = Self
      /\ word' = StorePage(m, Child, <<Self, i>>, s)
      /\ UseInBoth({ParentPage}, Child, {ChildPage, <<Self, i>>})
      /\ copy' = [copy EXCEPT !.done = @ \cup {<<Self, i>>}]
      /\ userPhysical' = userPhysical \cup {f}
      /\ UNCHANGED <<cr3, running, phase, pageDirectoryAddress, kernelVirtual, kernelPhysical>>
  BY DEF ForkTable, Copying
<1>2. f \in UserFrames /\ f \notin userPhysical /\ f \in Frames /\ f # 0 /\ f \in Words
      /\ f \notin {PAGE_DIRECTORY, KERNEL_TABLE}
  <2>1. FreeUserFrames \subseteq Nat
    BY PagingAssumption DEF FreeUserFrames, UserFrames
  <2>2. QED
    BY <1>1, <2>1, LeastIs, Numbers DEF FreeUserFrames
<1>3. /\ running \in Live /\ copy.child \in Live /\ running # copy.child /\ running # 0
      /\ cr3 = RootIs(running)
      /\ \A x \in Spots : At(copy.child, x) # 0 <=> x \in copy.done
  BY <1>1, ForkUses, LiveRoots, Numbers
<1>4. Uncopied = {x \in Spots : At(running, x) # 0 /\ x \notin copy.done}
  BY <1>3, UncopiedIs
<1>5. i \in UserIndices /\ z \in Uncopied
  <2>1. I \subseteq UserIndices /\ \A k \in I : <<Self, k>> \in Uncopied
    BY <1>4, SpotsAre, Numbers
  <2>2. I \subseteq Nat /\ I # {}
    BY <1>1, <2>1, PagingAssumption DEF UserIndices
  <2>3. i \in I
    BY <2>2, LeastIs
  <2>4. QED
    BY <2>1, <2>3
<1>6. z \in Spots /\ At(running, z) # 0 /\ z \notin copy.done /\ At(copy.child, z) = 0
      /\ i \in Offsets /\ i # KernelIndex /\ i # Self /\ z[1] = Self
  BY <1>3, <1>4, <1>5, Numbers
<1>7. /\ c = RootIs(copy.child) /\ c \in Frames /\ c # 0
      /\ c \notin {PAGE_DIRECTORY, KERNEL_TABLE} \cup Tables \cup userPhysical
      /\ IsDirectory(word, c)
      /\ \A k \in UserIndices : word[c][k] = At(copy.child, <<Self, k>>)
      /\ \A n : IsDirectory(n, c) /\ n[KERNEL_TABLE] = word[KERNEL_TABLE]
                  => Walk(n, c, ChildPage) = c
  BY <1>1, ChildIs
<1>8. word \in Memories /\ c # f
  <2>1. c \in kernelPhysical
    BY <1>3, <1>7, LiveRoots
  <2>2. QED
    BY <1>2, <2>1, Numbers DEF IInv, TypeOK, Memories
<1> HIDE DEF I, i, f, c, s, z
<1>9. m \in Memories /\ m[c] = [word[c] EXCEPT ![i] = f] /\ \A g \in Frames \ {c} : m[g] = word[g]
  <2>1. Walk(word, c, ChildPage) = c
    BY <1>7
  <2>2. m = Store(word, c, ChildPage, i, f)
    BY DEF c
  <2>3. WordPut(word, m, c, i, f)
    BY <1>2, <1>6, <1>7, <1>8, <2>1, <2>2, StoreIs
  <2>4. QED
    BY <2>3 DEF WordPut
<1> HIDE DEF m
<1>10. m[c][i] = f /\ \A k \in Offsets \ {i} : m[c][k] = word[c][k]
  <2>1. word[c] \in [Offsets -> Words]
    BY <1>7, <1>8 DEF Memories
  <2>2. QED
    BY <1>6, <1>9, <2>1
<1>11. word' \in Memories /\ word'[f] = s /\ \A g \in Frames \ {f} : word'[g] = m[g]
  <2>1. IsDirectory(m, c)
    BY <1>6, <1>7, <1>10, Numbers DEF IsDirectory
  <2>2. Walk(m, c, <<Self, i>>) = f
    BY <1>5, <1>7, <1>10, <2>1, Walks
  <2>3. s \in [Offsets -> Words]
    BY Numbers DEF s
  <2>4. word' = StorePage(m, c, <<Self, i>>, s)
    BY <1>1 DEF c
  <2>5. PagePut(m, word', f, s)
    BY <1>2, <1>9, <2>2, <2>3, <2>4, StorePageIs
  <2>6. QED
    BY <2>5 DEF PagePut
<1>12. \A g \in Frames \ D : word'[g] = word[g]
  BY <1>9, <1>11
<1>13. /\ word'[c][i] = f /\ \A k \in Offsets \ {i} : word'[c][k] = word[c][k]
       /\ IsDirectory(word', c)
  BY <1>6, <1>7, <1>8, <1>10, <1>11, Numbers DEF IsDirectory
<1>14. \A j \in Offsets : word'[f][j] = 0
  BY <1>11 DEF s
<1>15. word'[KERNEL_TABLE] = word[KERNEL_TABLE] /\ word'[PAGE_DIRECTORY] = word[PAGE_DIRECTORY]
  BY <1>2, <1>7, <1>12, Numbers
<1>16. c \notin Tables \cup userPhysical /\ f \notin Tables \cup userPhysical
  BY <1>2, <1>7, Numbers DEF IInv, TypeOK, Tables, TableFrames
<1>17. ASSUME NEW p \in Live, p # copy.child
       PROVE  /\ IsDirectory(word', RootIs(p))
              /\ \A x \in Spots : Walk(word', RootIs(p), x) = At(p, x)
  <2>1. RootIs(p) # c
    BY <1>3, <1>7, <1>17, RootsDiffer
  <2>2. RootIs(p) # f
    <3>1. RootIs(p) \in kernelPhysical
      BY LiveRoots
    <3>2. QED
      BY <1>2, <3>1, Numbers DEF IInv, TypeOK
  <2>3. RootIs(p) \notin D /\ \A k \in UserIndices : At(p, <<Self, k>>) \notin D \ {0}
    BY <1>2, <1>7, <1>16, <2>1, <2>2, LiveReach
  <2> HIDE DEF D
  <2>4. QED
    BY <1>12, <2>3, LiveSame
<1>18. ASSUME NEW x \in Spots
       PROVE  Walk(word', c, x) = IF x = z THEN f ELSE At(copy.child, x)
  <2>1. CASE x[1] = Self /\ x[2] \in UserIndices /\ x = <<Self, x[2]>>
    <3>1. Walk(word', c, x) = word'[c][x[2]]
      BY <1>7, <1>13, <2>1, Walks
    <3>2. (x = z <=> x[2] = i) /\ x[2] \in Offsets
      BY <2>1, Numbers DEF z
    <3>3. QED
      BY <1>7, <1>13, <2>1, <3>1, <3>2
  <2>2. CASE x[1] \in UserIndices /\ x[2] \in Offsets /\ x = <<x[1], x[2]>>
    <3>1. Walk(word', c, x) = IF word'[c][x[1]] = 0 THEN 0 ELSE word'[word'[c][x[1]]][x[2]]
      BY <1>7, <1>13, <2>2, Walks
    <3>2. x # z /\ x[1] \in Offsets
      BY <1>6, <2>2, Numbers
    <3>3. At(copy.child, x) = IF word[c][x[1]] = 0 THEN 0 ELSE word[word[c][x[1]]][x[2]]
      BY <1>3, <1>7, <2>2, LiveReach
    <3>4. CASE x[1] = i
      <4>1. word'[c][x[1]] = f /\ word[c][x[1]] = 0
        BY <1>5, <1>6, <1>7, <1>13, <3>4 DEF z
      <4>2. word'[f][x[2]] = 0
        BY <1>14, <2>2
      <4>3. QED
        BY <3>1, <3>2, <3>3, <4>1, <4>2
    <3>5. CASE x[1] # i
      <4>1. word'[c][x[1]] = word[c][x[1]]
        BY <1>13, <3>2, <3>5
      <4>2. CASE word[c][x[1]] = 0
        BY <3>1, <3>2, <3>3, <4>1, <4>2
      <4>3. CASE word[c][x[1]] # 0
        <5>1. word[c][x[1]] \in Tables \cup userPhysical /\ word[c][x[1]] \in Frames
          <6>1. <<Self, x[1]>> \in Spots /\ word[c][x[1]] = At(copy.child, <<Self, x[1]>>)
            BY <1>7, <2>2, SpotsAre
          <6>2. /\ At(copy.child, <<Self, x[1]>>) \in {0} \cup Tables \cup userPhysical
                /\ At(copy.child, <<Self, x[1]>>) # 0
                      => At(copy.child, <<Self, x[1]>>) \in Frames
            BY <1>3, <2>2, <6>1, LiveReach
          <6>3. QED
            BY <4>3, <6>1, <6>2
        <5>2. word'[word[c][x[1]]] = word[word[c][x[1]]]
          BY <1>12, <1>16, <5>1
        <5>3. QED
          BY <3>1, <3>2, <3>3, <4>1, <5>2
      <4>4. QED
        BY <4>2, <4>3
    <3>6. QED
      BY <3>4, <3>5
  <2>3. QED
    BY <2>1, <2>2, SpotsAre
<1>19. ASSUME NEW p \in Live, NEW x \in Spots
       PROVE  /\ Walk(word', RootIs(p), x) = IF p = copy.child /\ x = z THEN f ELSE At(p, x)
              /\ x[1] # Self /\ At(p, x) # 0 => word'[At(p, x)] = word[At(p, x)]
  <2>1. Walk(word', RootIs(p), x) = IF p = copy.child /\ x = z THEN f ELSE At(p, x)
    BY <1>7, <1>17, <1>18
  <2>2. ASSUME x[1] # Self, At(p, x) # 0 PROVE word'[At(p, x)] = word[At(p, x)]
    <3>1. At(p, x) \in userPhysical /\ At(p, x) \in Frames
      BY <2>2, LiveReach, SpotsAre
    <3>2. QED
      BY <1>12, <1>16, <3>1
  <2>3. QED
    BY <2>1, <2>2
<1>20. \A p \in Live : IsDirectory(word', RootIs(p))
  BY <1>7, <1>13, <1>17
<1>21. tlb' = {} /\ faulted' = FALSE
  <2>1. IsDirectory(word', cr3) /\ cr3 # 0
    BY <1>3, <1>20, InUse
  <2>2. Walk(word', cr3, ParentPage) # 0
    <3>1. Walk(word', cr3, ParentPage) = word'[KERNEL_TABLE][pageDirectoryAddress[running]]
      BY <2>1, Walks DEF ParentPage
    <3>2. QED
      BY <1>3, <1>15, <3>1, LiveRoots DEF RootIs, Root
  <2>3. Walk(word', c, ChildPage) # 0
    BY <1>7, <1>13, <1>15
  <2>4. Walk(word', c, <<Self, i>>) # 0
    BY <1>2, <1>6, <1>18 DEF z
  <2>5. QED
    BY <1>1, <2>2, <2>3, <2>4 DEF UseInBoth, c
<1>22. ChildGets(z, f)
  BY <1>1, <1>2, <1>6, <1>11, <1>15, <1>19, <1>20, <1>21 DEF ChildGets, z
<1>23. QED
  BY <1>22

-----------------------------------------------------------------------------
\* The frame of the buffer page is no process's.
LEMMA BufferIs ==
  ASSUME IInv, copy.buffer # 0, NEW b, b = word[KERNEL_TABLE][copy.buffer]
  PROVE  /\ b \in kernelPhysical /\ b \in Frames /\ b # 0 /\ copy.buffer \in 1 .. KernelPages
         /\ b \notin {PAGE_DIRECTORY, KERNEL_TABLE} \cup Tables \cup userPhysical
         /\ \A p \in Live : RootIs(p) # b
<1>1. /\ copy.buffer \in kernelVirtual /\ kernelVirtual \subseteq 1 .. KernelPages
      /\ \A p \in Live : pageDirectoryAddress[p] # copy.buffer
  BY DEF IInv, Copies, TypeOK
<1>2. b \in kernelPhysical
  BY <1>1 DEF IInv, KernelPart
<1>3. b \notin Tables
  BY <1>1 DEF Tables, TableFrames
<1>4. \A p \in Live : RootIs(p) # b
  BY <1>1, LiveRoots DEF IInv, KernelPart, RootIs, Root
<1>5. QED
  BY <1>1, <1>2, <1>3, <1>4, Numbers DEF IInv, TypeOK

\* A page that fork copies goes through the buffer to a frame of the child's.
LEMMA ForkPageGives == ASSUME IInv, ForkPage PROVE \E z, f : ChildGets(z, f)
<1> DEFINE f == Least(FreeUserFrames)
           c == Child
           B == KernelPage(copy.buffer)
           b == word[KERNEL_TABLE][copy.buffer]
<1>1. /\ copy.child # 0 /\ copy.buffer # 0 /\ FreeUserFrames # {}
      /\ \A p \in Uncopied : p[1] # Self
      /\ UNCHANGED <<cr3, running, phase, pageDirectoryAddress, kernelVirtual, kernelPhysical>>
  BY DEF ForkPage, Copying
<1>2. PICK z \in Uncopied :
        /\ \E filled \in {StorePage(word, cr3, B, word[Walk(word, cr3, z)])} :
           \E mapped \in {Store(filled, c, TableOf(z), z[2], f)} :
             word' = StorePage(mapped, c, z, mapped[Walk(mapped, c, B)])
        /\ UseInBoth({ParentPage, TableOf(z), z, B}, c, {TableOf(z), z, B})
        /\ userPhysical' = userPhysical \cup {f}
        /\ copy' = [copy EXCEPT !.done = @ \cup {z}]
  BY DEF ForkPage
<1> DEFINE g == At(running, z)
           T == At(copy.child, <<Self, z[1]>>)
           filled == StorePage(word, cr3, B, word[Walk(word, cr3, z)])
           mapped == Store(filled, c, TableOf(z), z[2], f)
           D == {b, T, f}
<1>3. word' = StorePage(mapped, c, z, mapped[Walk(mapped, c, B)])
  BY <1>2
<1>4. f \in UserFrames /\ f \notin userPhysical /\ f \in Frames /\ f # 0 /\ f \in Words
      /\ f \notin {PAGE_DIRECTORY, KERNEL_TABLE}
  <2>1. FreeUserFrames \subseteq Nat
    BY PagingAssumption DEF FreeUserFrames, UserFrames
  <2>2. QED
    BY <1>1, <2>1, LeastIs, Numbers DEF FreeUserFrames
<1>5. /\ running \in Live /\ copy.child \in Live /\ running # copy.child /\ running # 0
      /\ cr3 = RootIs(running)
      /\ \A x \in Spots : At(copy.child, x) # 0 <=> x \in copy.done
  BY <1>1, ForkUses, LiveRoots, Numbers
<1>6. Uncopied = {x \in Spots : At(running, x) # 0 /\ x \notin copy.done}
  BY <1>5, UncopiedIs
<1>7. /\ z \in Spots /\ g # 0 /\ z \notin copy.done /\ At(copy.child, z) = 0
      /\ z[1] \in UserIndices /\ z[2] \in Offsets /\ z = <<z[1], z[2]>> /\ z[1] # Self
      /\ <<Self, z[1]>> \in Spots /\ <<Self, z[1]>> # z /\ TableOf(z) = <<Self, z[1]>>
  <2>1. z \in Spots /\ g # 0 /\ z \notin copy.done /\ z[1] # Self
    BY <1>1, <1>6
  <2>2. z[1] \in UserIndices /\ z[2] \in Offsets /\ z = <<z[1], z[2]>>
    BY <2>1, SpotsAre
  <2>3. QED
    BY <1>5, <2>1, <2>2, SpotsAre DEF TableOf
<1>8. /\ c = RootIs(copy.child) /\ c \in Frames /\ c # 0
      /\ c \notin {PAGE_DIRECTORY, KERNEL_TABLE} \cup Tables \cup userPhysical
      /\ IsDirectory(word, c)
      /\ \A k \in UserIndices : word[c][k] = At(copy.child, <<Self, k>>)
  BY <1>1, ChildIs
<1>9. /\ b \in kernelPhysical /\ b \in Frames /\ b # 0 /\ copy.buffer \in 1 .. KernelPages
      /\ b \notin {PAGE_DIRECTORY, KERNEL_TABLE} \cup Tables \cup userPhysical
      /\ \A p \in Live : RootIs(p) # b
  BY <1>1, BufferIs
<1>10. /\ g \in userPhysical /\ g \in Frames
  BY <1>5, <1>7, LiveReach
<1>11. At(running, <<Self, z[1]>>) # 0
  BY <1>5, <1>7, LiveReach
<1>12. T # 0 /\ T \in Tables \cup userPhysical /\ T \in Frames
  <2>1. <<Self, z[1]>> \notin Uncopied
    BY <1>1
  <2>2. T # 0
    BY <1>5, <1>6, <1>7, <1>11, <2>1
  <2>3. QED
    BY <1>5, <1>7, <2>2, LiveReach
<1>13. /\ f \notin Tables \cup userPhysical /\ f # T /\ f # b /\ b # T /\ c # b /\ c # T /\ c # f
       /\ KERNEL_TABLE \notin D /\ PAGE_DIRECTORY \notin D
  <2>1. f \notin Tables \cup userPhysical
    BY <1>4, Numbers DEF IInv, TypeOK, Tables, TableFrames
  <2>2. T \notin {PAGE_DIRECTORY, KERNEL_TABLE}
    BY <1>12, Numbers DEF IInv, TypeOK, Tables, TableFrames
  <2>3. f # b
    BY <1>4, <1>9, Numbers DEF IInv, TypeOK
  <2>4. c # f /\ c # b
    <3>1. c \in kernelPhysical
      BY <1>5, <1>8, LiveRoots
    <3>2. QED
      BY <1>4, <1>5, <1>8, <1>9, <3>1, Numbers DEF IInv, TypeOK
  <2>5. QED
    BY <1>4, <1>8, <1>9, <1>12, <2>1, <2>2, <2>3, <2>4
<1>14. word \in Memories /\ Walk(word, cr3, z) = g
  BY <1>5 DEF IInv, TypeOK, Memories, At, Reach, RootIs
<1> HIDE DEF f, c, b, g, T, B
<1>15. filled \in Memories /\ filled[b] = word[g] /\ \A h \in Frames \ {b} : filled[h] = word[h]
  <2>1. Walk(word, cr3, B) = b
    BY InUse, Walks DEF B, b
  <2>2. word[g] \in [Offsets -> Words]
    BY <1>10, <1>14 DEF Memories
  <2>3. PagePut(word, filled, b, word[g])
    BY <1>9, <1>14, <2>1, <2>2, StorePageIs
  <2>4. QED
    BY <2>3 DEF PagePut
<1> HIDE DEF filled
<1>16. /\ mapped \in Memories /\ mapped[T] = [word[T] EXCEPT ![z[2]] = f]
       /\ \A h \in Frames \ {T} : mapped[h] = filled[h]
  <2>1. filled[c] = word[c] /\ filled[T] = word[T]
    BY <1>8, <1>12, <1>13, <1>15
  <2>2. IsDirectory(filled, c)
    BY <1>8, <2>1 DEF IsDirectory
  <2>3. Walk(filled, c, TableOf(z)) = T
    BY <1>7, <1>8, <2>1, <2>2, Walks DEF T
  <2>4. WordPut(filled, mapped, T, z[2], f)
    BY <1>4, <1>7, <1>12, <1>15, <2>3, StoreIs
  <2>5. QED
    BY <2>1, <2>4 DEF WordPut
<1> HIDE DEF mapped
<1>17. /\ mapped[T][z[2]] = f /\ \A j \in Offsets \ {z[2]} : mapped[T][j] = word[T][j]
       /\ mapped[c] = word[c] /\ mapped[b] = word[g]
       /\ mapped[KERNEL_TABLE] = word[KERNEL_TABLE]
       /\ IsDirectory(mapped, c)
  <2>1. word[T] \in [Offsets -> Words]
    BY <1>12, <1>14 DEF Memories
  <2>2. mapped[T][z[2]] = f /\ \A j \in Offsets \ {z[2]} : mapped[T][j] = word[T][j]
    BY <1>7, <1>16, <2>1
  <2>3. mapped[c] = word[c] /\ mapped[b] = word[g] /\ mapped[KERNEL_TABLE] = word[KERNEL_TABLE]
    BY <1>8, <1>9, <1>13, <1>15, <1>16, Numbers
  <2>4. QED
    BY <1>8, <2>2, <2>3 DEF IsDirectory
<1>18. word' \in Memories /\ word'[f] = word[g] /\ \A h \in Frames \ {f} : word'[h] = mapped[h]
  <2>1. Walk(mapped, c, B) = b
    BY <1>8, <1>17, Walks DEF B, b
  <2>2. Walk(mapped, c, z) = f
    <3>1. Walk(mapped, c, <<z[1], z[2]>>)
            = IF mapped[c][z[1]] = 0 THEN 0 ELSE mapped[mapped[c][z[1]]][z[2]]
      BY <1>7, <1>8, <1>17, Walks
    <3>2. mapped[c][z[1]] = T
      BY <1>7, <1>8, <1>17 DEF T
    <3>3. QED
      BY <1>7, <1>12, <1>17, <3>1, <3>2
  <2>3. word[g] \in [Offsets -> Words]
    BY <1>10, <1>14 DEF Memories
  <2>4. word' = StorePage(mapped, c, z, word[g])
    BY <1>3, <1>17, <2>1
  <2>5. PagePut(mapped, word', f, word[g])
    BY <1>4, <1>16, <2>2, <2>3, <2>4, StorePageIs
  <2>6. QED
    BY <2>5 DEF PagePut
<1>19. \A h \in Frames \ D : word'[h] = word[h]
  BY <1>15, <1>16, <1>18
<1>20. /\ word'[T][z[2]] = f /\ \A j \in Offsets \ {z[2]} : word'[T][j] = word[T][j]
       /\ word'[c] = word[c] /\ IsDirectory(word', c)
  BY <1>8, <1>12, <1>13, <1>17, <1>18 DEF IsDirectory
<1>21. word'[KERNEL_TABLE] = word[KERNEL_TABLE] /\ word'[PAGE_DIRECTORY] = word[PAGE_DIRECTORY]
  BY <1>13, <1>19, Numbers
<1>22. ASSUME NEW p \in Live, NEW x \in Spots, At(p, x) = T
       PROVE  p = copy.child /\ x = <<Self, z[1]>>
  BY <1>5, <1>7, <1>12, <1>22, OnePage DEF T
<1>23. ASSUME NEW p \in Live, p # copy.child
       PROVE  /\ IsDirectory(word', RootIs(p))
              /\ \A x \in Spots : Walk(word', RootIs(p), x) = At(p, x)
  <2>1. RootIs(p) # b /\ RootIs(p) # T /\ RootIs(p) # f
    <3>1. RootIs(p) \in kernelPhysical /\ RootIs(p) \notin Tables \cup userPhysical
      BY LiveRoots
    <3>2. QED
      BY <1>4, <1>9, <1>12, <3>1, Numbers DEF IInv, TypeOK
  <2>2. \A k \in UserIndices : At(p, <<Self, k>>) # T
    BY <1>22, <1>23, SpotsAre
  <2>3. RootIs(p) \notin D /\ \A k \in UserIndices : At(p, <<Self, k>>) \notin D \ {0}
    BY <1>4, <1>9, <1>13, <2>1, <2>2, LiveReach
  <2> HIDE DEF D
  <2>4. QED
    BY <1>19, <2>3, LiveSame
<1>24. ASSUME NEW x \in Spots
       PROVE  Walk(word', c, x) = IF x = z THEN f ELSE At(copy.child, x)
  <2>1. CASE x[1] = Self /\ x[2] \in UserIndices /\ x = <<Self, x[2]>>
    <3>1. Walk(word', c, x) = word'[c][x[2]]
      BY <1>8, <1>20, <2>1, Walks
    <3>2. x # z
      BY <1>7, <2>1
    <3>3. QED
      BY <1>8, <1>20, <2>1, <3>1, <3>2
  <2>2. CASE x[1] \in UserIndices /\ x[2] \in Offsets /\ x = <<x[1], x[2]>>
    <3>1. Walk(word', c, x) = IF word[c][x[1]] = 0 THEN 0 ELSE word'[word[c][x[1]]][x[2]]
      BY <1>8, <1>20, <2>2, Walks
    <3>2. At(copy.child, x) = IF word[c][x[1]] = 0 THEN 0 ELSE word[word[c][x[1]]][x[2]]
      BY <1>5, <1>8, <2>2, LiveReach
    <3>3. <<Self, x[1]>> \in Spots /\ word[c][x[1]] = At(copy.child, <<Self, x[1]>>)
      BY <1>8, <2>2, SpotsAre
    <3>4. CASE x[1] = z[1]
      <4>1. word[c][x[1]] = T
        BY <3>3, <3>4 DEF T
      <4>2. x = z <=> x[2] = z[2]
        BY <1>7, <2>2, <3>4
      <4>3. QED
        BY <1>12, <1>20, <2>2, <3>1, <3>2, <4>1, <4>2
    <3>5. CASE x[1] # z[1]
      <4>1. x # z /\ word[c][x[1]] # T
        BY <1>5, <1>22, <3>3, <3>5
      <4>2. CASE word[c][x[1]] = 0
        BY <3>1, <3>2, <4>1, <4>2
      <4>3. CASE word[c][x[1]] # 0
        <5>1. word[c][x[1]] \in Tables \cup userPhysical /\ word[c][x[1]] \in Frames
          <6>1. /\ At(copy.child, <<Self, x[1]>>) \in {0} \cup Tables \cup userPhysical
                /\ At(copy.child, <<Self, x[1]>>) # 0
                      => At(copy.child, <<Self, x[1]>>) \in Frames
            BY <1>5, <2>2, <3>3, LiveReach
          <6>2. QED
            BY <3>3, <4>3, <6>1
        <5>2. word'[word[c][x[1]]] = word[word[c][x[1]]]
          BY <1>9, <1>13, <1>19, <4>1, <5>1
        <5>3. QED
          BY <3>1, <3>2, <4>1, <5>2
      <4>4. QED
        BY <4>2, <4>3
    <3>6. QED
      BY <3>4, <3>5
  <2>3. QED
    BY <2>1, <2>2, SpotsAre
<1>25. ASSUME NEW p \in Live, NEW x \in Spots
       PROVE  /\ Walk(word', RootIs(p), x) = IF p = copy.child /\ x = z THEN f ELSE At(p, x)
              /\ x[1] # Self /\ At(p, x) # 0 => word'[At(p, x)] = word[At(p, x)]
  <2>1. Walk(word', RootIs(p), x) = IF p = copy.child /\ x = z THEN f ELSE At(p, x)
    BY <1>8, <1>23, <1>24
  <2>2. ASSUME x[1] # Self, At(p, x) # 0 PROVE word'[At(p, x)] = word[At(p, x)]
    <3>1. At(p, x) \in userPhysical /\ At(p, x) \in Frames
      BY <2>2, LiveReach, SpotsAre
    <3>2. At(p, x) # T
      BY <1>22, <2>2
    <3>3. QED
      BY <1>4, <1>9, <1>19, <3>1, <3>2
  <2>3. QED
    BY <2>1, <2>2
<1>26. \A p \in Live : IsDirectory(word', RootIs(p))
  BY <1>8, <1>20, <1>23
<1>27. tlb' = {} /\ faulted' = FALSE
  <2>1. IsDirectory(word', cr3) /\ cr3 # 0
    BY <1>5, <1>26, InUse
  <2>2. Walk(word', cr3, ParentPage) # 0
    <3>1. Walk(word', cr3, ParentPage) = word'[KERNEL_TABLE][pageDirectoryAddress[running]]
      BY <2>1, Walks DEF ParentPage
    <3>2. QED
      BY <1>5, <1>21, <3>1, LiveRoots DEF RootIs, Root
  <2>3. Walk(word', cr3, TableOf(z)) # 0 /\ Walk(word', cr3, z) # 0
    BY <1>5, <1>7, <1>11, <1>25 DEF g
  <2>4. Walk(word', cr3, B) = b /\ Walk(word', c, B) = b
    BY <1>8, <1>20, <1>21, <2>1, Walks DEF B, b
  <2>5. Walk(word', c, TableOf(z)) # 0 /\ Walk(word', c, z) # 0
    BY <1>4, <1>7, <1>12, <1>24 DEF T
  <2>6. UseInBoth({ParentPage, TableOf(z), z, B}, c, {TableOf(z), z, B})
    BY <1>2 DEF c, B
  <2>7. QED
    BY <1>9, <2>2, <2>3, <2>4, <2>5, <2>6 DEF UseInBoth
<1>28. userPhysical' = userPhysical \cup {f} /\ copy' = [copy EXCEPT !.done = @ \cup {z}]
  BY <1>2 DEF f
<1>29. ChildGets(z, f)
  BY <1>1, <1>4, <1>7, <1>18, <1>21, <1>25, <1>26, <1>27, <1>28 DEF ChildGets, g
<1>30. QED
  BY <1>29

-----------------------------------------------------------------------------
\* Once all is copied the buffer is returned, and the child has its pages.
LEMMA ForkReturnsKeeps == ASSUME IInv, ForkReturns PROVE IInv'
<1> DEFINE v == copy.buffer
           q == copy.child
<1>1. /\ copy.child # 0 /\ copy.buffer # 0 /\ Uncopied = {}
      /\ word' = Connect(word, v, 0)
      /\ kernelPhysical' = kernelPhysical \ {vaddr2paddr(word, cr3, KernelPage(v))}
      /\ kernelVirtual' = kernelVirtual \ {v}
      /\ Use({TableOf(KernelPage(v)), ParentPage} \cup {TableOf(<<i, 0>>) : i \in UserTables})
      /\ phase' = [phase EXCEPT ![q] = "user"]
      /\ copy' = NoCopy
      /\ UNCHANGED <<cr3, running, pageDirectoryAddress, userPhysical>>
  BY DEF ForkReturns, Copying
<1>2. /\ running \in Live /\ q \in Live /\ running # q /\ running # 0
      /\ running \in Processes /\ q \in Processes
      /\ cr3 = RootIs(running) /\ phase[running] = "user" /\ phase[q] = "copied"
      /\ \A x \in Spots : At(q, x) # 0 <=> x \in copy.done
  BY <1>1, ForkUses, Numbers
<1>3. /\ v \in kernelVirtual /\ v \in 1 .. KernelPages /\ kernelVirtual \subseteq 1 .. KernelPages
      /\ \A p \in Live : pageDirectoryAddress[p] # v
  BY <1>1 DEF IInv, Copies, TypeOK
<1>4. /\ word' \in Memories /\ PageIs(word, word', v, 0)
      /\ IsDirectory(word', cr3)
      /\ \A p \in Live : RootIs(p)' = RootIs(p) /\ IsDirectory(word', RootIs(p))
      /\ \A p \in Live, x \in Spots : At(p, x)' = At(p, x)
      /\ Same(word, pageDirectoryAddress, word', pageDirectoryAddress', Live)
  BY <1>1, <1>3, Connected, SMTT(30)
<1>5. phase' \in [Processes -> {"free", "load", "user", "copied", "zombie"}]
      /\ phase'[q] = "user" /\ \A p \in Processes \ {q} : phase'[p] = phase[p]
  BY <1>1, <1>2 DEF IInv, TypeOK
<1>6. Live' = Live
  BY <1>2, <1>5 DEF Live
<1>7. copy'.child = 0 /\ copy'.buffer = 0
  BY <1>1 DEF NoCopy
<1>8. KernelPart(word', kernelVirtual', kernelPhysical') /\ Tables' = Tables
  <2>1. vaddr2paddr(word, cr3, KernelPage(v)) = word[KERNEL_TABLE][v]
    BY InUse, Walks
  <2>2. Returns(word, kernelVirtual, kernelPhysical, word', kernelVirtual', kernelPhysical')
    BY <1>1, <1>3, <1>4, <2>1 DEF Returns
  <2>3. KernelPart(word, kernelVirtual, kernelPhysical)
    BY DEF IInv
  <2>4. QED
    BY <2>2, <2>3, KernelShrinks DEF Tables
<1>9. Roots(word', pageDirectoryAddress', Live', kernelVirtual')
  BY <1>1, <1>3, <1>4, <1>6 DEF IInv, Roots, RootIs
<1>10. Trees(word', pageDirectoryAddress', Live', Tables', userPhysical')
  BY <1>1, <1>4, <1>6, <1>8, TreesStay DEF IInv, Tables
<1>11. Turn'
  <2>1. phase'[running] = "user"
    BY <1>2, <1>5
  <2>2. QED
    BY <1>1, <1>2, <1>4, <2>1 DEF IInv, Turn, RootIs
<1>12. At(q, UserPage) # 0
  <2>1. At(running, UserPage) # 0 /\ UserPage \in Spots
    BY <1>2, SpotsAre DEF IInv, Stages
  <2>2. UserPage \in copy.done
    BY <1>1, <1>2, <2>1, UncopiedIs
  <2>3. QED
    BY <1>2, <2>1, <2>2
<1>13. Stages'
  <2>1. ASSUME NEW p \in Processes
        PROVE  /\ phase'[p] = "load" => \A x \in Spots : At(p, x)' = 0
               /\ phase'[p] = "user" => At(p, UserPage)' # 0
               /\ phase'[p] = "copied" => p = copy'.child
    <3>1. CASE p = q
      BY <1>2, <1>4, <1>5, <1>12, <3>1, SpotsAre
    <3>2. CASE p # q
      BY <1>4, <1>5, <3>2, SpotsAre DEF IInv, Stages, Live
    <3>3. QED
      BY <3>1, <3>2
  <2>2. QED
    BY <2>1 DEF Stages
<1>14. Copies'
  <2>1. copy' \in [child : Processes \cup {0}, buffer : 0 .. KernelPages, done : SUBSET Spots]
    BY <1>1, PagingAssumption DEF NoCopy
  <2>2. QED
    BY <1>1, <1>7, <2>1 DEF Copies
<1>15. Remembered' /\ faulted' = FALSE
  <2> DEFINE pages == {TableOf(KernelPage(v)), ParentPage}
                        \cup {TableOf(<<i, 0>>) : i \in UserTables}
  <2>1. \A y \in Spots : Walk(word', cr3, y) = Walk(word, cr3, y)
    BY <1>2, <1>4 DEF At, Reach, RootIs
  <2>2. kernelVirtual' \ {copy'.buffer} = kernelVirtual \ {copy.buffer}
    BY <1>1, <1>3, <1>7, Numbers
  <2>3. \A y : Lasting(y) => Lasting(y)'
    BY <1>1, <2>2 DEF Lasting
  <2>4. \A w \in kernelVirtual \ {copy.buffer} : word'[KERNEL_TABLE][w] = word[KERNEL_TABLE][w]
    BY <1>3, <1>4 DEF PageIs
  <2>5. ASSUME NEW y \in pages
        PROVE  Lasting(y)' /\ Walk(word', cr3, y) # 0
    <3>1. CASE y = TableOf(KernelPage(v))
      <4>1. y = <<Self, KernelIndex>>
        BY <3>1 DEF TableOf, KernelPage
      <4>2. Walk(word', cr3, y) = KERNEL_TABLE
        BY <1>4, <4>1, InUse, Walks
      <4>3. QED
        BY <4>1, <4>2, Numbers DEF Lasting
    <3>2. CASE y = ParentPage
      <4>1. pageDirectoryAddress[running] \in kernelVirtual \ {copy.buffer} /\ RootIs(running) # 0
        BY <1>2, <1>3, LiveRoots
      <4>2. Walk(word', cr3, y) = word'[KERNEL_TABLE][pageDirectoryAddress[running]]
        BY <1>4, <3>2, InUse, Walks DEF ParentPage
      <4>3. Walk(word', cr3, y) = RootIs(running)
        BY <2>4, <4>1, <4>2 DEF RootIs, Root
      <4>4. QED
        BY <2>2, <3>2, <4>1, <4>3 DEF Lasting, ParentPage
    <3>3. CASE \E i \in UserTables : y = TableOf(<<i, 0>>)
      <4>1. PICK i \in UserTables : y = <<Self, i>>
        BY <3>3 DEF TableOf
      <4>2. i \in UserIndices /\ At(running, <<Self, i>>) # 0
        BY <1>2, <4>1, UncopiedIs
      <4>3. y \in Spots /\ Walk(word, cr3, y) # 0
        BY <1>2, <4>1, <4>2, SpotsAre DEF At, Reach, RootIs
      <4>4. QED
        BY <1>1, <1>2, <2>1, <4>3 DEF Lasting
    <3>4. QED
      BY <3>1, <3>2, <3>3
  <2>6. Use(pages)
    BY <1>1
  <2> HIDE DEF pages
  <2>7. cr3' = cr3
    BY <1>1
  <2>8. QED
    BY <1>4, <2>1, <2>3, <2>4, <2>5, <2>6, <2>7, Remembers
<1>16. TypeOK'
  <2>1. kernelVirtual' \subseteq 1 .. KernelPages /\ kernelPhysical' \subseteq KernelFrames
    BY <1>1 DEF IInv, TypeOK
  <2>2. QED
    BY <1>1, <1>4, <1>5, <1>15, <2>1 DEF IInv, TypeOK, Memories
<1>17. QED
  BY <1>8, <1>9, <1>10, <1>11, <1>13, <1>14, <1>15, <1>16 DEF IInv, Tables

\* exit returns what its page directory reaches, and what others reach stays; the
\* next directory is found although the one in use has been released.
LEMMA ProcessExitKeeps == ASSUME IInv, ProcessExit PROVE IInv'
<1> DEFINE v == pageDirectoryAddress[running]
           S == Live \ {running}
           reached == {Reach(word, pageDirectoryAddress, running, x) : x \in Spots}
<1>1. /\ running # 0 /\ phase[running] = "user" /\ copy = NoCopy
      /\ userPhysical' = userPhysical \ FramesOf
      /\ kernelPhysical' = kernelPhysical \ (Strays \cup {vaddr2paddr(word, cr3, KernelPage(v))})
      /\ kernelVirtual' = kernelVirtual \ {v}
      /\ word' = Connect(word, v, 0)
      /\ phase' = [phase EXCEPT ![running] = "zombie"]
      /\ SwitchTo(word')
      /\ UNCHANGED <<faulted, pageDirectoryAddress, copy>>
  BY DEF ProcessExit, Idle
<1>2. /\ running \in Live /\ running \in Processes /\ cr3 = RootIs(running)
      /\ v \in kernelVirtual /\ v \in 1 .. KernelPages /\ cr3 # 0
  BY <1>1, InUse, LiveRoots
<1>3. \A p \in S : pageDirectoryAddress[p] # v
  BY <1>2 DEF IInv, Roots
<1>4. /\ word' \in Memories /\ PageIs(word, word', v, 0)
      /\ IsDirectory(word', cr3)
      /\ \A p \in S : RootIs(p)' = RootIs(p) /\ IsDirectory(word', RootIs(p))
      /\ \A p \in S, x \in Spots : At(p, x)' = At(p, x)
      /\ Same(word, pageDirectoryAddress, word', pageDirectoryAddress', S)
  <2>1. S \in SUBSET Live
    OBVIOUS
  <2> HIDE DEF S, v
  <2>2. word' = Connect(word, v, 0) /\ UNCHANGED pageDirectoryAddress
    BY <1>1
  <2>3. QED
    BY <1>2, <1>3, <2>1, <2>2, Connected
<1>5. phase' \in [Processes -> {"free", "load", "user", "copied", "zombie"}]
      /\ phase'[running] = "zombie" /\ \A p \in Processes \ {running} : phase'[p] = phase[p]
  BY <1>1, <1>2 DEF IInv, TypeOK
<1>6. Live' = S
  BY <1>2, <1>5 DEF Live
<1>7. /\ running' \in (Processes \cup {0}) \ {running}
      /\ running' # 0 => phase[running'] \in {"load", "user"}
      /\ cr3' = IF running' = 0 THEN PAGE_DIRECTORY ELSE Root(word', pageDirectoryAddress, running')
      /\ tlb' = {}
  BY <1>1, <1>2, <1>4, SwitchToIs
<1>8. running' # 0 => running' \in Processes /\ running' \in S
                      /\ phase'[running'] \in {"load", "user"}
  BY <1>5, <1>7 DEF Live
<1>9. userPhysical' = userPhysical \ reached /\ Strays \subseteq reached \cap Tables
  <2>1. 0 \notin userPhysical /\ 0 \notin KernelFrames /\ userPhysical \cap KernelFrames = {}
    BY Numbers DEF IInv, TypeOK
  <2>2. FramesOf = reached \ {0}
    BY <1>1, UncopiedIs DEF At
  <2>3. Trees(word, pageDirectoryAddress, Live, Tables, userPhysical)
    BY DEF IInv, Tables
  <2>4. reached \subseteq {0} \cup userPhysical \cup Tables
    BY <1>2, <2>3 DEF Trees
  <2>5. Strays \subseteq FramesOf \cap KernelFrames
    BY DEF Strays
  <2>6. QED
    BY <1>1, <2>1, <2>2, <2>4, <2>5
<1>10. KernelPart(word', kernelVirtual', kernelPhysical') /\ Tables' = Tables \ Strays
  <2> DEFINE given == kernelPhysical \ {word[KERNEL_TABLE][v]}
  <2>1. vaddr2paddr(word, cr3, KernelPage(v)) = word[KERNEL_TABLE][v]
    BY InUse, Walks
  <2>2. Returns(word, kernelVirtual, kernelPhysical, word', kernelVirtual', given)
    BY <1>1, <1>2, <1>4 DEF Returns
  <2>3. KernelPart(word, kernelVirtual, kernelPhysical)
    BY DEF IInv
  <2>4. /\ KernelPart(word', kernelVirtual', given)
        /\ TableFrames(word', kernelVirtual', given) = Tables
    BY <2>2, <2>3, KernelShrinks DEF Tables
  <2>5. kernelPhysical' = given \ Strays
    BY <1>1, <2>1
  <2>6. QED
    BY <1>9, <2>4, <2>5, KernelLess DEF Tables
<1>11. Roots(word', pageDirectoryAddress', Live', kernelVirtual')
  BY <1>1, <1>3, <1>4, <1>6 DEF IInv, Roots, RootIs
<1>12. Trees(word', pageDirectoryAddress', Live', Tables', userPhysical')
  <2>1. 0 \notin userPhysical
    BY Numbers DEF IInv, TypeOK
  <2>2. Trees(word, pageDirectoryAddress, Live, Tables, userPhysical)
    BY DEF IInv, Tables
  <2>3. userPhysical' = userPhysical \ reached /\ Tables \ reached \subseteq Tables'
    BY <1>9, <1>10
  <2>4. Trees(word', pageDirectoryAddress', Live \ {running}, Tables', userPhysical')
    BY <1>2, <1>4, <2>1, <2>2, <2>3, TreesLess
  <2>5. QED
    BY <1>6, <2>4
<1>13. Turn'
  BY <1>1, <1>7, <1>8 DEF Turn, Root
<1>14. Stages'
  <2>1. ASSUME NEW p \in Processes
        PROVE  /\ phase'[p] = "load" => \A x \in Spots : At(p, x)' = 0
               /\ phase'[p] = "user" => At(p, UserPage)' # 0
               /\ phase'[p] = "copied" => p = copy'.child
    <3>1. CASE p = running
      BY <1>5, <3>1
    <3>2. CASE p # running
      BY <1>1, <1>4, <1>5, <3>2, SpotsAre DEF IInv, Stages, Live
    <3>3. QED
      BY <3>1, <3>2
  <2>2. QED
    BY <2>1 DEF Stages
<1>15. Copies'
  BY <1>1 DEF IInv, Copies, NoCopy
<1>16. Remembered'
  BY <1>7 DEF Remembered
<1>17. TypeOK' /\ ~faulted'
  <2>1. cr3' \in {PAGE_DIRECTORY} \cup KernelFrames
    <3>1. CASE running' = 0
      BY <1>7, <3>1
    <3>2. CASE running' # 0
      <4>1. running' \in Live
        BY <1>8, <3>2
      <4>2. RootIs(running') \in kernelPhysical
        BY <4>1, LiveRoots
      <4>3. Root(word', pageDirectoryAddress, running') = Root(word, pageDirectoryAddress, running')
        BY <1>3, <1>4, <1>8, <3>2, <4>1, LiveRoots DEF PageIs, Root
      <4>4. QED
        BY <1>7, <3>2, <4>2, <4>3 DEF RootIs, IInv, TypeOK
    <3>3. QED
      BY <3>1, <3>2
  <2>2. kernelVirtual' \subseteq 1 .. KernelPages /\ kernelPhysical' \subseteq KernelFrames
        /\ userPhysical' \subseteq UserFrames
    BY <1>1 DEF IInv, TypeOK
  <2>3. QED
    BY <1>1, <1>4, <1>5, <1>7, <2>1, <2>2 DEF IInv, TypeOK, Memories
<1>18. QED
  BY <1>10, <1>11, <1>12, <1>13, <1>14, <1>15, <1>16, <1>17 DEF IInv, Tables

-----------------------------------------------------------------------------
\* The page tables of the boot loader are in order.
LEMMA InitIInv == Init => IInv
<1> SUFFICES ASSUME Init PROVE IInv
  OBVIOUS
<1>1. /\ cr3 = PAGE_DIRECTORY /\ tlb = {} /\ faulted = FALSE /\ running = 0
      /\ phase = [p \in Processes |-> "free"]
      /\ pageDirectoryAddress = [p \in Processes |-> 0]
      /\ kernelVirtual = {} /\ kernelPhysical = {} /\ userPhysical = {}
      /\ copy = NoCopy
  BY DEF Init
<1>2. word = [f \in Frames |->
               IF f = PAGE_DIRECTORY
               THEN [k \in Offsets |-> IF k \in {0, KernelIndex} THEN KERNEL_TABLE
                                       ELSE IF k = Self THEN PAGE_DIRECTORY ELSE 0]
               ELSE IF f = KERNEL_TABLE
               THEN [k \in Offsets |-> IF k = 0 THEN Low ELSE 0]
               ELSE [k \in Offsets |-> Leftover]]
  BY DEF Init, KERNEL_TABLE
<1>3. /\ word[PAGE_DIRECTORY] = [k \in Offsets |-> IF k \in {0, KernelIndex} THEN KERNEL_TABLE
                                       ELSE IF k = Self THEN PAGE_DIRECTORY ELSE 0]
      /\ word[KERNEL_TABLE] = [k \in Offsets |-> IF k = 0 THEN Low ELSE 0]
  BY <1>2, Numbers
<1>4. IsDirectory(word, PAGE_DIRECTORY)
  <2>1. Self # 0
    BY PagingAssumption DEF Self
  <2>2. QED
    BY <1>3, <2>1, Numbers DEF IsDirectory
<1>5. \A v \in 1 .. KernelPages : word[KERNEL_TABLE][v] = 0
  BY <1>3, Numbers
<1>6. Live = {}
  BY <1>1 DEF Live
<1>7. TypeOK /\ ~faulted
  <2>1. word \in [Frames -> [Offsets -> Words]]
    <3>1. Low \in Words /\ Leftover \in Words /\ 0 \in Words
          /\ KERNEL_TABLE \in Words /\ PAGE_DIRECTORY \in Words
      BY Numbers, PagingAssumption DEF Words, Low, Frames
    <3>2. QED
      BY <1>2, <3>1
  <2>2. pageDirectoryAddress \in [Processes -> 0 .. KernelPages]
    BY <1>1, PagingAssumption
  <2>3. QED
    BY <1>1, <2>1, <2>2 DEF TypeOK
<1>8. KernelPart(word, kernelVirtual, kernelPhysical)
  BY <1>1, <1>4, <1>5 DEF KernelPart
<1>9. Roots(word, pageDirectoryAddress, Live, kernelVirtual)
  BY <1>6 DEF Roots
<1>10. Trees(word, pageDirectoryAddress, Live,
             TableFrames(word, kernelVirtual, kernelPhysical), userPhysical)
  BY <1>1, <1>6 DEF Trees
<1>11. Turn /\ Stages /\ Remembered
  BY <1>1 DEF Turn, Stages, Remembered
<1>12. Copies
  <2>1. copy \in [child : Processes \cup {0}, buffer : 0 .. KernelPages, done : SUBSET Spots]
    BY <1>1, PagingAssumption DEF NoCopy
  <2>2. QED
    BY <1>1, <2>1 DEF Copies, NoCopy
<1>13. QED
  BY <1>7, <1>8, <1>9, <1>10, <1>11, <1>12 DEF IInv

\* A step that changes nothing keeps the invariant.
LEMMA HaltedKeeps == ASSUME IInv, UNCHANGED vars PROVE IInv'
<1>1. /\ word' = word /\ cr3' = cr3 /\ tlb' = tlb /\ faulted' = faulted /\ running' = running
      /\ phase' = phase /\ pageDirectoryAddress' = pageDirectoryAddress /\ copy' = copy
      /\ kernelVirtual' = kernelVirtual /\ kernelPhysical' = kernelPhysical
      /\ userPhysical' = userPhysical
  BY DEF vars
<1>2. Live' = Live /\ (\A p, x : At(p, x)' = At(p, x)) /\ (\A x : Lasting(x)' <=> Lasting(x))
  BY <1>1 DEF Live, At, Reach, Walk, Root, Lasting
<1>3. TypeOK' /\ ~faulted'
  BY <1>1 DEF IInv, TypeOK
<1>4. /\ KernelPart(word', kernelVirtual', kernelPhysical')
      /\ Roots(word', pageDirectoryAddress', Live', kernelVirtual')
      /\ Trees(word', pageDirectoryAddress', Live',
               TableFrames(word', kernelVirtual', kernelPhysical'), userPhysical')
  BY <1>1, <1>2 DEF IInv
<1>5. Turn'
  BY <1>1 DEF IInv, Turn, Root
<1>6. Stages'
  BY <1>1, <1>2 DEF IInv, Stages
<1>7. Copies'
  BY <1>1, <1>2 DEF IInv, Copies
<1>8. Remembered'
  BY <1>1, <1>2 DEF IInv, Remembered, Walk
<1>9. QED
  BY <1>3, <1>4, <1>5, <1>6, <1>7, <1>8 DEF IInv

\* The invariant is inductive.
LEMMA StepKeeps == IInv /\ [Next]_vars => IInv'
<1> SUFFICES ASSUME IInv, [Next]_vars PROVE IInv'
  OBVIOUS
<1>1. CASE ExecuteProcess
  BY <1>1, ExecuteProcessKeeps
<1>2. CASE LoadProcess
  BY <1>2, LoadProcessKeeps
<1>3. CASE UserWrites
  BY <1>3, UserWritesKeeps
<1>4. CASE Fork
  BY <1>4, ForkKeeps
<1>5. CASE ForkBuffer
  BY <1>5, ForkBufferKeeps
<1>6. CASE ForkTable
  <2>1. copy.child # 0 /\ copy.buffer # 0
    BY <1>6 DEF ForkTable, Copying
  <2>2. PICK z, f : ChildGets(z, f)
    BY <1>6, ForkTableGives
  <2>3. QED
    BY <2>1, <2>2, ChildGetsKeeps
<1>7. CASE ForkPage
  <2>1. copy.child # 0 /\ copy.buffer # 0
    BY <1>7 DEF ForkPage, Copying
  <2>2. PICK z, f : ChildGets(z, f)
    BY <1>7, ForkPageGives
  <2>3. QED
    BY <2>1, <2>2, ChildGetsKeeps
<1>8. CASE ForkReturns
  BY <1>8, ForkReturnsKeeps
<1>9. CASE Dispatch
  BY <1>9, DispatchKeeps
<1>10. CASE ProcessExit
  BY <1>10, ProcessExitKeeps
<1>11. CASE Reap
  BY <1>11, ReapKeeps
<1>12. CASE Halted \/ UNCHANGED vars
  BY <1>12, HaltedKeeps DEF Halted
<1>13. QED
  BY <1>1, <1>2, <1>3, <1>4, <1>5, <1>6, <1>7, <1>8, <1>9, <1>10, <1>11, <1>12 DEF Next

\* The page tables are in order in every reachable state, for any number of
\* processes, entries, kernel pages and frames (memory.cpp:186-310, program.cpp:270-310,
\* 435-610).
THEOREM InvariantTheorem == Spec => []IInv
<1>1. QED
  BY InitIInv, StepKeeps, PTL DEF Spec

\* No page is ever used that is not there (memory.cpp:235-272, program.cpp:505-560).
THEOREM NoFaultTheorem == Spec => []NoFault
<1>1. IInv => NoFault
  BY DEF IInv, NoFault
<1>2. QED
  BY <1>1, InvariantTheorem, PTL

\* What the processor may remember of a page stays true until cr3 is loaded, though
\* the code invalidates no page (memory.cpp:285-287).
THEOREM CachedIsCurrentTheorem == Spec => []CachedIsCurrent
<1>1. IInv => CachedIsCurrent
  BY DEF IInv, Remembered, CachedIsCurrent
<1>2. QED
  BY <1>1, InvariantTheorem, PTL

\* The frames that a page directory reaches are those of the pages of its process.
LEMMA ReachedIs ==
  ASSUME IInv, NEW p \in Live
  PROVE  Reached(RootOf(p)) = {At(p, x) : x \in Spots} \ {0}
<1> DEFINE c == RootIs(p)
           tables == {word[c][i] : i \in UserIndices} \ {0}
<1>1. RootOf(p) = c
  <2>1. IsDirectory(word, PAGE_DIRECTORY) /\ PAGE_DIRECTORY # 0
    BY DEF IInv, KernelPart, PAGE_DIRECTORY
  <2>2. QED
    BY <2>1, Walks DEF RootOf, RootIs, Root
<1>2. Reached(c) = tables \cup UNION {{word[t][j] : j \in Offsets} \ {0} : t \in tables}
  BY DEF Reached, UserIndices
<1>3. /\ \A i \in UserIndices : At(p, <<Self, i>>) = word[c][i]
      /\ \A i \in UserIndices, j \in Offsets :
           At(p, <<i, j>>) = IF word[c][i] = 0 THEN 0 ELSE word[word[c][i]][j]
  BY LiveReach
<1> HIDE DEF c
<1>4. ASSUME NEW x \in Spots, At(p, x) # 0 PROVE At(p, x) \in Reached(c)
  <2>1. CASE x[1] = Self /\ x[2] \in UserIndices /\ x = <<Self, x[2]>>
    <3>1. At(p, x) = word[c][x[2]]
      BY <1>3, <2>1
    <3>2. QED
      BY <1>2, <1>4, <2>1, <3>1
  <2>2. CASE x[1] \in UserIndices /\ x[2] \in Offsets /\ x = <<x[1], x[2]>>
    <3>1. At(p, x) = word[word[c][x[1]]][x[2]] /\ word[c][x[1]] # 0
      BY <1>3, <1>4, <2>2
    <3>2. word[c][x[1]] \in tables
      BY <2>2, <3>1
    <3>3. QED
      BY <1>2, <1>4, <2>2, <3>1, <3>2
  <2>3. QED
    BY <2>1, <2>2, SpotsAre
<1>5. ASSUME NEW f \in Reached(c) PROVE f # 0 /\ \E x \in Spots : At(p, x) = f
  <2>1. CASE f \in tables
    <3>1. PICK i \in UserIndices : f = word[c][i] /\ f # 0
      BY <2>1
    <3>2. QED
      BY <1>3, <3>1, SpotsAre
  <2>2. CASE \E t \in tables : f \in {word[t][j] : j \in Offsets} \ {0}
    <3>1. PICK i \in UserIndices, j \in Offsets : word[c][i] # 0 /\ f = word[word[c][i]][j] /\ f # 0
      BY <2>2
    <3>2. At(p, <<i, j>>) = f
      BY <1>3, <3>1
    <3>3. QED
      BY <3>1, <3>2, SpotsAre
  <2>3. QED
    BY <1>2, <1>5, <2>1, <2>2
<1>6. QED
  BY <1>1, <1>4, <1>5

\* The allocated frames of the user's pool are those that the processes reach, each
\* from one only: none is lost and none shared (program.cpp:489-562, 586-607).
THEOREM UserFramesAreReachedTheorem == Spec => []UserFramesAreReached
<1>1. ASSUME IInv PROVE UserFramesAreReached
  <2>1. Trees(word, pageDirectoryAddress, Live, Tables, userPhysical)
    BY <1>1 DEF IInv, Tables
  <2>2. /\ userPhysical \subseteq UserFrames /\ Tables \cap UserFrames = {} /\ 0 \notin UserFrames
    BY <1>1, Numbers DEF IInv, TypeOK, Tables, TableFrames
  <2>3. \A p \in Live : Reached(RootOf(p)) = {At(p, x) : x \in Spots} \ {0}
    BY <1>1, ReachedIs
  <2>4. ASSUME NEW f \in userPhysical
        PROVE  f \in UNION {Reached(RootOf(p)) : p \in Live} /\ f \in UserFrames
    <3>1. PICK p \in Live, x \in Spots : At(p, x) = f
      BY <2>1 DEF Trees, At
    <3>2. f \in Reached(RootOf(p))
      BY <2>2, <2>3, <3>1
    <3>3. QED
      BY <2>2, <3>2
  <2>5. ASSUME NEW p \in Live, NEW f \in Reached(RootOf(p)), f \in UserFrames
        PROVE  f \in userPhysical
    <3>1. PICK x \in Spots : At(p, x) = f
      BY <2>3
    <3>2. QED
      BY <2>1, <2>2, <2>5, <3>1 DEF Trees, At
  <2>6. ASSUME NEW p \in Live, NEW q \in Live, p # q,
               NEW f, f \in Reached(RootOf(p)), f \in Reached(RootOf(q))
        PROVE  FALSE
    <3>1. PICK x \in Spots : At(p, x) = f /\ f # 0
      BY <2>3, <2>6
    <3>2. PICK y \in Spots : At(q, y) = f
      BY <2>3, <2>6
    <3>3. QED
      BY <1>1, <2>6, <3>1, <3>2, OnePage
  <2>7. userPhysical = (UNION {Reached(RootOf(p)) : p \in Live}) \cap UserFrames
    BY <2>4, <2>5
  <2>8. \A p, q \in Live : p # q => Reached(RootOf(p)) \cap Reached(RootOf(q)) = {}
    BY <2>6
  <2>9. QED
    BY <2>7, <2>8 DEF UserFramesAreReached
<1>2. QED
  BY <1>1, InvariantTheorem, PTL

-----------------------------------------------------------------------------
\* The memories of the processes, as AddressSpaces has them.
Space == [p \in Processes |-> IF phase[p] = "user" THEN Memory(p) ELSE <<>>]

\* A step that keeps the pages of the programs and lets none begin or end.
LEMMA Stutters ==
  ASSUME PagesAreThere, PagesAreThere', PagesKept(Processes),
         \A p \in Processes : phase'[p] = "user" <=> phase[p] = "user"
  PROVE  Space' = Space
<1>1. ASSUME NEW p \in Processes, phase[p] = "user" PROVE Memory(p)' = Memory(p)
  BY <1>1 DEF PagesAreThere, PagesKept
<1>2. QED
  BY <1>1 DEF Space

\* A process with memory is told from one without.
LEMMA NoMemoryOfNone == ASSUME NEW f \in [Offsets -> Words] PROVE f # <<>>
<1>1. 0 \in Offsets
  BY PagingAssumption DEF Offsets
<1>2. DOMAIN f = Offsets /\ DOMAIN <<>> = {}
  OBVIOUS
<1>3. QED
  BY <1>1, <1>2

\* What the processes that keep their pages have in them.
LEMMA OthersKeep ==
  ASSUME PagesAreThere, PagesAreThere', NEW S, PagesKept(S), NEW p \in S, p \in Processes,
         phase[p] = "user", phase'[p] = "user"
  PROVE  Memory(p)' = Memory(p)
  BY DEF PagesAreThere, PagesKept

\* Frames that no program's page is in.
LEMMA KeptApart ==
  ASSUME IInv, NEW S \in SUBSET Processes, NEW D, D \subseteq {KERNEL_TABLE} \cup KernelFrames,
         \A g \in Frames \ D : word'[g] = word[g],
         \A p \in S, x \in Spots : p \in Live => At(p, x)' = At(p, x)
  PROVE  PagesKept(S)
  BY PagesFound, SpotsAre DEF PagesAreThere, PagesKept

-----------------------------------------------------------------------------
\* The actions that programs do not notice.
LEMMA MadeKept ==
  ASSUME IInv, NEW q \in Processes, q \notin Live, Live' = Live \cup {q},
         NEW v, NEW f, MakesDirectory(q, v, f), userPhysical' = userPhysical
  PROVE  PagesKept(Processes)
<1> DEFINE D == {KERNEL_TABLE, f}
<1>1. \A p \in Live, x \in Spots : At(p, x)' = At(p, x)
  BY MadeDirectory
<1>2. D \subseteq {KERNEL_TABLE} \cup KernelFrames /\ \A g \in Frames \ D : word'[g] = word[g]
  BY DEF MakesDirectory, FreeKernelFrames
<1> HIDE DEF D
<1>3. \A p \in Processes, x \in Spots : p \in Live => At(p, x)' = At(p, x)
  BY <1>1
<1>4. QED
  BY <1>2, <1>3, KeptApart

\* A kernel page gets another frame, which no program notices.
LEMMA ConnectedKept ==
  ASSUME IInv, NEW v \in 1 .. KernelPages, NEW f \in {0} \cup Frames,
         word' = Connect(word, v, f), UNCHANGED pageDirectoryAddress,
         NEW S \in SUBSET Processes, \A p \in S \cap Live : pageDirectoryAddress[p] # v
  PROVE  PagesKept(S)
<1> DEFINE R == S \cap Live
           D == {KERNEL_TABLE}
<1>1. R \in SUBSET Live /\ \A p \in R : pageDirectoryAddress[p] # v
  OBVIOUS
<1> HIDE DEF R
<1>2. /\ \A g \in Frames \ {KERNEL_TABLE} : word'[g] = word[g]
      /\ \A p \in R, x \in Spots : At(p, x)' = At(p, x)
  BY <1>1, Connected
<1>3. D \subseteq {KERNEL_TABLE} \cup KernelFrames /\ \A g \in Frames \ D : word'[g] = word[g]
  BY <1>2
<1> HIDE DEF D
<1>4. \A p \in S, x \in Spots : p \in Live => At(p, x)' = At(p, x)
  BY <1>2 DEF R
<1>5. QED
  BY <1>3, <1>4, KeptApart

\* A page of the child's, which runs only when fork returns.
LEMMA ChildGetsKept ==
  ASSUME IInv, copy.child # 0, NEW z, NEW f, ChildGets(z, f)
  PROVE  PagesKept(Processes)
<1>1. phase[copy.child] = "copied"
  BY ForkUses
<1>2. /\ word'[KERNEL_TABLE] = word[KERNEL_TABLE] /\ pageDirectoryAddress' = pageDirectoryAddress
      /\ \A p \in Live, x \in Spots :
           /\ Walk(word', RootIs(p), x) = IF p = copy.child /\ x = z THEN f ELSE At(p, x)
           /\ x[1] # Self /\ At(p, x) # 0 => word'[At(p, x)] = word[At(p, x)]
  BY DEF ChildGets
<1>3. \A p \in Live : RootIs(p)' = RootIs(p)
  BY <1>2 DEF RootIs, Root
<1>4. ASSUME NEW p \in Processes, phase[p] = "user"
      PROVE  /\ At(p, UserPage)' = At(p, UserPage)
             /\ word'[At(p, UserPage)] = word[At(p, UserPage)]
  <2>1. p \in Live /\ At(p, UserPage) # 0 /\ p # copy.child
    BY <1>1, <1>4, PagesFound DEF PagesAreThere
  <2>2. UserPage \in Spots /\ UserPage[1] # Self
    BY SpotsAre, Numbers
  <2>3. At(p, UserPage)' = Walk(word', RootIs(p), UserPage)
    BY <1>3, <2>1 DEF At, Reach, RootIs
  <2>4. QED
    BY <1>2, <2>1, <2>2, <2>3
<1>5. QED
  BY <1>4 DEF PagesKept

\* A process that is not loaded or copied yet has no memory.
LEMMA ExecuteProcessStutters ==
  ASSUME IInv, PagesAreThere, PagesAreThere', ExecuteProcess \/ Fork
  PROVE  Space' = Space
<1>1. PICK q \in Processes :
        /\ Create(q)
        /\ phase' = [phase EXCEPT ![q] = "load"] \/ phase' = [phase EXCEPT ![q] = "copied"]
  BY DEF ExecuteProcess, Fork
<1>2. FreePages # {} /\ FreeKernelFrames # {} /\ phase[q] = "free" /\ userPhysical' = userPhysical
  <2>1. CASE ExecuteProcess
    BY <1>1, <2>1 DEF ExecuteProcess, Create
  <2>2. CASE Fork
    <3>1. Cardinality(FreePages) > 1 /\ Cardinality(FreeKernelFrames) > 1 /\ Cardinality({}) = 0
      BY <2>2, FS_EmptySet DEF Fork
    <3>2. FreePages # {} /\ FreeKernelFrames # {}
      BY <3>1
    <3>3. QED
      BY <1>1, <2>2, <3>2 DEF Fork, Create
  <2>3. QED
    BY <2>1, <2>2
<1>3. phase \in [Processes -> {"free", "load", "user", "copied", "zombie"}]
  BY DEF IInv, TypeOK
<1>4. /\ q \notin Live /\ Live' = Live \cup {q}
      /\ \A p \in Processes : phase'[p] = "user" <=> phase[p] = "user"
  BY <1>1, <1>2, <1>3 DEF Live
<1>5. PICK v, f : MakesDirectory(q, v, f)
  BY <1>1, <1>2, CreateMakes
<1>6. PagesKept(Processes)
  BY <1>2, <1>4, <1>5, MadeKept
<1>7. QED
  BY <1>4, <1>6, Stutters

\* No program notices the buffer.
LEMMA ForkBufferStutters ==
  ASSUME IInv, PagesAreThere, PagesAreThere', ForkBuffer
  PROVE  Space' = Space
<1> DEFINE v == Least(FreePages)
           f == Least(FreeKernelFrames)
<1>1. /\ FreePages # {} /\ FreeKernelFrames # {} /\ word' = Connect(word, v, f)
      /\ UNCHANGED pageDirectoryAddress /\ phase' = phase
  BY DEF ForkBuffer
<1>2. v \in 1 .. KernelPages /\ v \notin kernelVirtual
  BY <1>1, LeastIs DEF FreePages
<1>3. f \in {0} \cup Frames
  <2>1. FreeKernelFrames \subseteq Nat /\ FreeKernelFrames \subseteq Frames
    BY PagingAssumption, Numbers DEF FreeKernelFrames, KernelFrames
  <2>2. QED
    BY <1>1, <2>1, LeastIs
<1>4. \A p \in Processes \cap Live : pageDirectoryAddress[p] # v
  BY <1>2, LiveRoots
<1> HIDE DEF v, f
<1>5. PagesKept(Processes)
  BY <1>1, <1>2, <1>3, <1>4, ConnectedKept
<1>6. QED
  BY <1>1, <1>5, Stutters

\* Nor a step that changes no frame and begins or ends no program.
LEMMA StillStutters ==
  ASSUME IInv, PagesAreThere, PagesAreThere',
         UNCHANGED <<word, pageDirectoryAddress>>,
         \A p \in Processes : phase'[p] = "user" <=> phase[p] = "user"
  PROVE  Space' = Space
<1>1. PagesKept(Processes)
  BY DEF PagesKept, At, Reach, Walk, Root
<1>2. QED
  BY <1>1, Stutters

-----------------------------------------------------------------------------
\* The actions that programs notice.
LEMMA LoadProcessLoads ==
  ASSUME IInv, PagesAreThere, PagesAreThere', LoadProcess
  PROVE  A!Next
<1> DEFINE p == running
<1>1. /\ PagesKept(Processes \ {p}) /\ phase[p] = "load"
      /\ p \in Processes /\ phase' = [phase EXCEPT ![p] = "user"]
  BY LoadProcessKeeps
<1>2. phase \in [Processes -> {"free", "load", "user", "copied", "zombie"}]
  BY DEF IInv, TypeOK
<1>3. phase'[p] = "user" /\ \A q \in Processes \ {p} : phase'[q] = phase[q]
  BY <1>1, <1>2
<1> HIDE DEF p
<1>4. \A q \in Processes \ {p} : phase[q] = "user" => Memory(q)' = Memory(q)
  BY <1>1, <1>3, OthersKeep
<1>5. Space[p] = <<>> /\ Space'[p] \in [Offsets -> Words]
  BY <1>1, <1>3 DEF Space, PagesAreThere
<1>6. Space' = [Space EXCEPT ![p] = Space'[p]]
  BY <1>1, <1>3, <1>4 DEF Space
<1>7. PICK r \in Processes : /\ Space[r] = <<>> /\ Space'[r] \in [Offsets -> Words]
                             /\ Space' = [Space EXCEPT ![r] = Space'[r]]
  BY <1>1, <1>5, <1>6
<1>8. A!Load(r)
  BY <1>7 DEF A!Load, A!NoSpace, Space
<1>9. QED
  BY <1>8 DEF A!Next

\* A write to the page is a write to the memory of the process that runs.
LEMMA UserWritesWrites ==
  ASSUME IInv, PagesAreThere, PagesAreThere', UserWrites
  PROVE  A!Next
<1> DEFINE p == running
           g == At(running, UserPage)
<1>1. phase[p] = "user" /\ p \in Processes /\ phase' = phase
  BY DEF UserWrites, IInv, TypeOK
<1>2. PICK x \in Data : word'[g] = [word[g] EXCEPT ![0] = x]
  BY UserWritesKeeps
<1>3. PagesKept(Processes \ {p}) /\ At(running, UserPage)' = g /\ running' = running
  BY UserWritesKeeps DEF UserWrites
<1>4. \A q \in Processes \ {p} : phase[q] = "user" => Memory(q)' = Memory(q)
  <2> HIDE DEF p
  <2>1. QED
    BY <1>1, <1>3, OthersKeep
<1>5. Memory(p) = word[g] /\ Memory(p) \in [Offsets -> Words]
  BY <1>1 DEF PagesAreThere
<1>6. ASSUME NEW q \in Processes, q = p PROVE Memory(q)' = [Memory(q) EXCEPT ![0] = x]
  <2>1. At(q, UserPage)' = g
    BY <1>3, <1>6
  <2>2. Memory(q)' = word'[At(q, UserPage)']
    BY <1>1, <1>6 DEF PagesAreThere
  <2>3. QED
    BY <1>2, <1>5, <1>6, <2>1, <2>2
<1> HIDE DEF p, g
<1>7. Space[p] # <<>>
  BY <1>1, <1>5, NoMemoryOfNone DEF Space
<1>8. Space' = [Space EXCEPT ![p][0] = x]
  <2> DEFINE new == [q \in Processes |-> IF q = p THEN [Memory(q) EXCEPT ![0] = x] ELSE Space[q]]
  <2>1. Space' = new
    BY <1>1, <1>4, <1>6 DEF Space
  <2>2. [Space EXCEPT ![p][0] = x] = new
    BY <1>1 DEF Space
  <2>3. QED
    BY <2>1, <2>2
<1>9. 0 \in Offsets /\ x \in Words
  BY PagingAssumption DEF Offsets, Words
<1>10. PICK r \in Processes : Space[r] # <<>> /\ Space' = [Space EXCEPT ![r][0] = x]
  BY <1>1, <1>7, <1>8
<1>11. A!Write(r, 0, x)
  BY <1>10 DEF A!Write, A!NoSpace, Space
<1>12. QED
  BY <1>9, <1>11 DEF A!Next

\* When fork returns, the child has what its parent has.
LEMMA ForkReturnsForks ==
  ASSUME IInv, PagesAreThere, PagesAreThere', ForkReturns
  PROVE  A!Next
<1> DEFINE p == running
           q == copy.child
           v == copy.buffer
<1>1. /\ p \in Processes /\ q \in Processes /\ p # q
      /\ phase[p] = "user" /\ phase[q] = "copied" /\ p \in Live /\ q \in Live
      /\ phase' = [phase EXCEPT ![q] = "user"]
      /\ word' = Connect(word, v, 0) /\ UNCHANGED pageDirectoryAddress
      /\ copy.child # 0 /\ v # 0 /\ Uncopied = {}
      /\ \A x \in Spots : At(q, x) # 0 <=> x \in copy.done
  BY ForkUses DEF ForkReturns, Copying
<1>2. /\ v \in 1 .. KernelPages /\ \A r \in Live : pageDirectoryAddress[r] # v
  BY <1>1 DEF IInv, Copies, TypeOK
<1>3. /\ \A g \in Frames \ {KERNEL_TABLE} : word'[g] = word[g]
      /\ \A r \in Live, x \in Spots : At(r, x)' = At(r, x)
  BY <1>1, <1>2, Connected
<1>4. At(running, UserPage) # 0 /\ At(running, UserPage) \in Frames \ {KERNEL_TABLE}
  BY <1>1 DEF PagesAreThere
<1>5. UserPage \in copy.done /\ UserPage[1] # Self /\ UserPage \in Spots
  <2>1. UserPage \in Spots /\ p # 0
    BY <1>1, SpotsAre, Numbers
  <2>2. UserPage \notin Uncopied
    BY <1>1
  <2>3. UserPage \in copy.done
    BY <1>4, <2>1, <2>2, UncopiedIs
  <2>4. QED
    BY <2>1, <2>3, SpotsAre, Numbers
<1>6. word[At(copy.child, UserPage)] = word[At(running, UserPage)] /\ At(copy.child, UserPage) # 0
  BY <1>1, <1>5 DEF IInv, Copies
<1>7. At(copy.child, UserPage) \in Frames \ {KERNEL_TABLE}
  <2>1. At(copy.child, UserPage) \in userPhysical
    BY <1>1, <1>6, LiveReach, SpotsAre
  <2>2. QED
    BY <2>1, Numbers DEF IInv, TypeOK
<1>8. phase'[q] = "user" /\ \A r \in Processes \ {q} : phase'[r] = phase[r]
  BY <1>1 DEF IInv, TypeOK
<1> HIDE DEF p, q, v
<1>9. PagesKept(Processes)
  <2>1. \A r \in Processes \cap Live : pageDirectoryAddress[r] # v
    BY <1>2
  <2>2. QED
    BY <1>1, <1>2, <2>1, ConnectedKept
<1>10. \A r \in Processes \ {q} : phase[r] = "user" => Memory(r)' = Memory(r)
  BY <1>8, <1>9, OthersKeep
<1>11. \A r \in Processes : r = q => Memory(r)' = Memory(p)
  <2>1. ASSUME NEW r \in Processes, r = q PROVE Memory(r)' = Memory(p)
    <3>1. Memory(r)' = word'[At(r, UserPage)'] /\ Memory(p) = word[At(p, UserPage)]
      BY <1>1, <1>8, <2>1 DEF PagesAreThere
    <3>2. At(r, UserPage)' = At(q, UserPage)
      BY <1>1, <1>3, <1>5, <2>1
    <3>3. QED
      BY <1>3, <1>6, <1>7, <3>1, <3>2 DEF p, q
  <2>2. QED
    BY <2>1
<1>12. Space[p] # <<>> /\ Space[q] = <<>>
  BY <1>1, NoMemoryOfNone DEF Space, PagesAreThere
<1>13. Space' = [Space EXCEPT ![q] = Space[p]]
  BY <1>1, <1>8, <1>10, <1>11 DEF Space
<1>14. PICK r \in Processes, t \in Processes :
         Space[r] # <<>> /\ Space[t] = <<>> /\ Space' = [Space EXCEPT ![t] = Space[r]]
  BY <1>1, <1>12, <1>13
<1>15. A!Fork(r, t)
  BY <1>14 DEF A!Fork, A!NoSpace, Space
<1>16. QED
  BY <1>15 DEF A!Next

\* exit takes the memory of the process that runs, and of no other.
LEMMA ProcessExitExits ==
  ASSUME IInv, PagesAreThere, PagesAreThere', ProcessExit
  PROVE  A!Next
<1> DEFINE p == running
           v == pageDirectoryAddress[running]
           S == Processes \ {running}
<1>1. /\ p # 0 /\ phase[p] = "user" /\ p \in Processes /\ p \in Live
      /\ word' = Connect(word, v, 0) /\ phase' = [phase EXCEPT ![p] = "zombie"]
      /\ UNCHANGED pageDirectoryAddress
  BY DEF ProcessExit, IInv, TypeOK, Live
<1>2. v \in 1 .. KernelPages /\ \A r \in S \cap Live : pageDirectoryAddress[r] # v
  BY <1>1, LiveRoots DEF IInv, Roots
<1>3. phase'[p] = "zombie" /\ \A r \in Processes \ {p} : phase'[r] = phase[r]
  BY <1>1 DEF IInv, TypeOK
<1>4. PagesKept(S)
  <2>1. S \in SUBSET Processes
    OBVIOUS
  <2> HIDE DEF S, v
  <2>2. QED
    BY <1>1, <1>2, <2>1, ConnectedKept
<1>5. \A r \in Processes \ {p} : phase[r] = "user" => Memory(r)' = Memory(r)
  <2>1. S = Processes \ {p}
    OBVIOUS
  <2> HIDE DEF S, p, v
  <2>2. QED
    BY <1>3, <1>4, <2>1, OthersKeep
<1> HIDE DEF p, v, S
<1>6. Space[p] # <<>>
  BY <1>1, NoMemoryOfNone DEF Space, PagesAreThere
<1>7. Space' = [Space EXCEPT ![p] = <<>>]
  BY <1>1, <1>3, <1>5 DEF Space
<1>8. PICK r \in Processes : Space[r] # <<>> /\ Space' = [Space EXCEPT ![r] = <<>>]
  BY <1>1, <1>6, <1>7
<1>9. A!Exit(r)
  BY <1>8 DEF A!Exit, A!NoSpace, Space
<1>10. QED
  BY <1>9 DEF A!Next

\* Every step is one of AddressSpaces, or one that it does not see.
LEMMA StepImplements ==
  ASSUME IInv, PagesAreThere, PagesAreThere', [Next]_vars
  PROVE  A!Next \/ Space' = Space
<1>1. CASE ExecuteProcess \/ Fork
  BY <1>1, ExecuteProcessStutters
<1>2. CASE LoadProcess
  BY <1>2, LoadProcessLoads
<1>3. CASE UserWrites
  BY <1>3, UserWritesWrites
<1>4. CASE ForkBuffer
  BY <1>4, ForkBufferStutters
<1>5. CASE ForkTable \/ ForkPage
  <2>1. copy.child # 0 /\ phase' = phase
    BY <1>5 DEF ForkTable, ForkPage, Copying
  <2>2. PICK z, f : ChildGets(z, f)
    BY <1>5, ForkTableGives, ForkPageGives
  <2>3. PagesKept(Processes)
    BY <2>1, <2>2, ChildGetsKept
  <2>4. QED
    BY <2>1, <2>3, Stutters
<1>6. CASE ForkReturns
  BY <1>6, ForkReturnsForks
<1>7. CASE ProcessExit
  BY <1>7, ProcessExitExits
<1>8. CASE Dispatch \/ Halted \/ UNCHANGED vars
  <2>1. UNCHANGED <<word, pageDirectoryAddress>> /\ phase' = phase
    BY <1>8 DEF Dispatch, Halted, vars
  <2>2. QED
    BY <2>1, StillStutters
<1>9. CASE Reap
  <2>1. UNCHANGED <<word, pageDirectoryAddress>>
        /\ \A p \in Processes : phase'[p] = "user" <=> phase[p] = "user"
    BY <1>9 DEF Reap, IInv, TypeOK
  <2>2. QED
    BY <2>1, StillStutters
<1>10. QED
  BY <1>1, <1>2, <1>3, <1>4, <1>5, <1>6, <1>7, <1>8, <1>9 DEF Next

\* Every process has memory of its own, of which fork makes a copy (program.cpp:435-567;
\* note.md:183): the page tables implement AddressSpaces.
THEOREM ImplementsAddressSpacesTheorem == Spec => ImplementsAddressSpaces
<1>1. Init => A!Init
  BY DEF Init, A!Init, A!NoSpace
<1>2. IInv /\ PagesAreThere /\ PagesAreThere' /\ [Next]_vars => [A!Next]_Space
  BY StepImplements
<1>3. QED
  BY <1>1, <1>2, InvariantTheorem, PagesFound, PTL DEF Spec, ImplementsAddressSpaces, A!Spec, Space

=============================================================================
