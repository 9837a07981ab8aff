---------------------------- MODULE MemoryProofs ----------------------------
(***************************************************************************)
(* Proofs about Memory.tla for any numbers of processes, pages and frames: *)
(* live processes share no frame, what they use is allocated, the entries  *)
(* of the kernel's page tables agree with its bitmaps, nothing faults      *)
(* while the first table suffices, and exit releases what it owns.         *)
(*                                                                         *)
(* The theorems assume that the kernel's pool has a multiple of 8 frames,  *)
(* as it has with more than 16 MB of memory, what lies above counted in    *)
(* units of 64 KB (memory.cpp:129): then the release of a page             *)
(* table from the kernel's frames to the users' pool (StrayRelease) frees  *)
(* that very frame or nothing.  Otherwise it frees another frame.          *)
(***************************************************************************)
EXTENDS Memory, QueueTheorems, FunctionTheorems

\* FurtherTables of kernel memory k, and the records such a k is.
Tables(k) ==
  ((UNION {{k.pde[d][t] : t \in Further} : d \in Directories})
     \cup {e[1] : e \in k.entries}) \ {None, First}

KernelType == [physical : SUBSET KernelFrames, virtual : SUBSET KernelFrames,
               entries : SUBSET (({First} \cup KernelFrames) \X KernelFrames \X KernelFrames),
               pde : [Directories -> [Further -> KernelFrames \cup {None}]]]

\* What holds of the kernel's memory also between the steps of an operation: page
\* tables and mapped frames are allocated, and no two entries are for one frame
\* or for one page of one table.  An entry of a further table may be left behind
\* by a page that has been released, one of the first table never is.
KernelOK(k) ==
  /\ k \in KernelType
  /\ Tables(k) \subseteq k.physical
  /\ \A e \in k.entries : /\ e[3] \in k.physical \ Tables(k)
                          /\ e[1] = First <=> e[2] < TablePages
                          /\ e[1] = First => e[2] \in k.virtual
  /\ \A e, f \in k.entries : e[3] = f[3] \/ (e[1] = f[1] /\ e[2] = f[2]) => e = f
  /\ \A x \in k.virtual : \E e \in k.entries : e[2] = x

\* And as long as nothing was given up half way, no entry is left behind at all.
Tidy(k) ==
  /\ \A e \in k.entries : e[2] \in k.virtual
  /\ \A e, f \in k.entries : e[2] = f[2] => e = f

-----------------------------------------------------------------------------
\* There are finitely many frames, and neither None nor First is one.
LEMMA FramesFinite ==
  ASSUME NEW S, S \subseteq Frames
  PROVE  /\ S \subseteq 0 .. (KernelPages + UserPages)
         /\ IsFiniteSet(S) /\ Cardinality(S) \in Nat
         /\ None \notin S /\ First \notin S
<1>1. S \subseteq 0 .. (KernelPages + UserPages) /\ KernelPages + UserPages \in Int
  BY MemoryAssumption DEF Frames, KernelFrames, UserFrames
<1>2. IsFiniteSet(0 .. (KernelPages + UserPages))
  BY <1>1, FS_Interval
<1>3. IsFiniteSet(S)
  BY <1>1, <1>2, FS_Subset
<1>4. QED
  BY <1>1, <1>3, FS_CardinalityType DEF None, First

\* Element number i of a set of frames is one of them, with i below it.
LEMMA NthElement ==
  ASSUME NEW S, S \subseteq Frames, NEW i \in Nat, i < Cardinality(S)
  PROVE  Nth(S, i) \in S /\ Cardinality({g \in S : g < Nth(S, i)}) = i
<1> DEFINE N == KernelPages + UserPages
           c == [m \in Nat |-> Cardinality({g \in S : g < m})]
           T == {m \in Nat : c[m] > i}
<1>1. S \subseteq 0 .. N /\ IsFiniteSet(S) /\ Cardinality(S) \in Nat /\ N \in Nat
  BY FramesFinite, MemoryAssumption
<1> HIDE DEF N
<1>2. \A g \in S : g \in Nat /\ g < N + 1
  BY <1>1
<1>3. ASSUME NEW m \in Nat
      PROVE  /\ c[m] \in Nat
             /\ c[m + 1] = IF m \in S THEN c[m] + 1 ELSE c[m]
  <2> DEFINE B == {g \in S : g < m}
  <2>1. IsFiniteSet(B)
    BY <1>1, FS_Subset
  <2>2. {g \in S : g < m + 1} = IF m \in S THEN B \cup {m} ELSE B
    BY <1>2
  <2>3. m \notin B
    OBVIOUS
  <2>4. c[m] = Cardinality(B) /\ c[m + 1] = Cardinality(IF m \in S THEN B \cup {m} ELSE B)
    BY <2>2
  <2> HIDE DEF B, c
  <2>5. Cardinality(B) \in Nat
    BY <2>1, FS_CardinalityType
  <2>6. Cardinality(B \cup {m}) = Cardinality(B) + 1
    BY <2>1, <2>3, FS_AddElement
  <2>7. QED
    BY <2>4, <2>5, <2>6
<1>4. c[N + 1] = Cardinality(S)
  <2>1. {g \in S : g < N + 1} = S
    BY <1>2
  <2>2. N + 1 \in Nat
    BY <1>1
  <2>3. QED
    BY <2>1, <2>2
<1>5. c[0] = 0
  <2>1. {g \in S : g < 0} = {}
    BY <1>2
  <2>2. QED
    BY <2>1, FS_EmptySet
<1> HIDE DEF c
<1>6. PICK m \in T : \A y \in T : m <= y
  <2>1. T \subseteq Nat /\ T # {}
    BY <1>1, <1>4
  <2> HIDE DEF T
  <2>2. QED
    BY <2>1, Least
<1> DEFINE f == m - 1
<1>7. f \in Nat /\ m = f + 1 /\ c[f] <= i
  <2>1. m \in Nat /\ m # 0 /\ c[m] > i
    BY <1>5, <1>6
  <2>2. f \in Nat /\ f \notin T
    BY <1>6, <2>1
  <2>3. QED
    BY <1>3, <2>1, <2>2
<1>8. f \in S /\ c[f] = i
  BY <1>3, <1>6, <1>7
<1>9. \E g \in S : Cardinality({h \in S : h < g}) = i
  BY <1>7, <1>8 DEF c
<1>10. QED
  BY <1>9, Zenon DEF Nth

\* Different numbers, different elements.
LEMMA NthDiffers ==
  ASSUME NEW S, S \subseteq Frames, NEW i \in Nat, i < Cardinality(S),
         NEW j \in Nat, j < Cardinality(S), Nth(S, i) = Nth(S, j)
  PROVE  i = j
<1>1. Cardinality({g \in S : g < Nth(S, i)}) = i /\ Cardinality({g \in S : g < Nth(S, j)}) = j
  BY NthElement
<1>2. QED
  BY <1>1

\* What allocatePhysicalPages and AddressPool::allocate return: a free frame, or none.
LEMMA LowestElement ==
  ASSUME NEW S, S \subseteq Frames
  PROVE  IF S = {} THEN Lowest(S) = None ELSE Lowest(S) \in S /\ Lowest(S) # None
<1>1. CASE S = {}
  BY <1>1 DEF Lowest
<1>2. CASE S # {}
  <2>1. IsFiniteSet(S) /\ None \notin S
    BY FramesFinite
  <2>2. Cardinality(S) \in Nat /\ Cardinality(S) # 0
    BY <1>2, <2>1, FS_EmptySet, FS_CardinalityType
  <2>3. 0 \in Nat /\ 0 < Cardinality(S)
    BY <2>2
  <2>4. Nth(S, 0) \in S
    BY <2>3, NthElement
  <2>5. QED
    BY <1>2, <2>1, <2>4 DEF Lowest
<1>3. QED
  BY <1>1, <1>2

-----------------------------------------------------------------------------
\* The page table for a page is one of those of the directory.
LEMMA TableForIs ==
  ASSUME NEW k \in KernelType, NEW d \in Directories, NEW x \in KernelFrames
  PROVE  IF x < TablePages THEN TableFor(k, d, x) = First
         ELSE /\ TableNumber(x) \in Further /\ TableFor(k, d, x) = k.pde[d][TableNumber(x)]
              /\ TableFor(k, d, x) \in KernelFrames \cup {None}
<1>1. x >= TablePages => TableNumber(x) \in Further
  BY DEF Further
<1>2. x < TablePages \/ x >= TablePages
  BY MemoryAssumption DEF KernelFrames
<1>3. k.pde[d] \in [Further -> KernelFrames \cup {None}]
  BY DEF KernelType
<1>4. QED
  BY <1>1, <1>2, <1>3 DEF TableFor

\* The frames that are allocated before that of page i, with page tables for N.
Before(N, i) == i + Cardinality({j \in N : j < i})

\* Each page takes one more frame, and one for its page table.
LEMMA BeforeNext ==
  ASSUME NEW N, N \subseteq Nat, IsFiniteSet(N), NEW i \in Nat
  PROVE  /\ Before(N, i) \in Nat /\ Before(N, i) >= i
         /\ Before(N, i + 1) = Before(N, i) + IF i \in N THEN 2 ELSE 1
         /\ \A j \in Nat : i < j => Before(N, i + 1) <= Before(N, j)
<1> DEFINE B(j) == {l \in N : l < j}
<1>1. \A j : IsFiniteSet(B(j)) /\ Cardinality(B(j)) \in Nat
  <2> TAKE j
  <2>1. IsFiniteSet(B(j))
    BY FS_Subset
  <2>2. QED
    BY <2>1, FS_CardinalityType
<1>2. B(i + 1) = IF i \in N THEN B(i) \cup {i} ELSE B(i)
  <2>1. \A l \in N : l < i + 1 <=> l < i \/ l = i
    OBVIOUS
  <2>2. QED
    BY <2>1
<1>3. i \notin B(i)
  OBVIOUS
<1>4. ASSUME NEW j \in Nat, i < j PROVE B(i + 1) \subseteq B(j)
  <2>1. \A l \in N : l < i + 1 => l < j
    BY <1>4
  <2>2. QED
    BY <2>1
<1>5. \A j : Before(N, j) = j + Cardinality(B(j))
  BY DEF Before
<1> HIDE DEF B
<1>6. Cardinality(B(i) \cup {i}) = Cardinality(B(i)) + 1
  BY <1>1, <1>3, FS_AddElement
<1>7. \A j \in Nat : i < j => Cardinality(B(i + 1)) <= Cardinality(B(j))
  BY <1>1, <1>4, FS_Subset
<1>8. QED
  BY <1>1, <1>2, <1>5, <1>6, <1>7

\* So that no frame is taken twice.
LEMMA BeforeDiffers ==
  ASSUME NEW N, N \subseteq Nat, IsFiniteSet(N), NEW i \in Nat, NEW j \in Nat
  PROVE  /\ Before(N, i) = Before(N, j) => i = j
         /\ j \in N => Before(N, i) # Before(N, j) + 1
<1>1. /\ Before(N, i) \in Nat /\ Before(N, j) \in Nat
      /\ Before(N, i + 1) = Before(N, i) + IF i \in N THEN 2 ELSE 1
      /\ Before(N, j + 1) = Before(N, j) + IF j \in N THEN 2 ELSE 1
      /\ i < j => Before(N, i + 1) <= Before(N, j)
      /\ j < i => Before(N, j + 1) <= Before(N, i)
  BY BeforeNext
<1>2. i < j \/ j < i \/ i = j
  OBVIOUS
<1>3. QED
  BY <1>1, <1>2

-----------------------------------------------------------------------------
\* What allocatePages(KERNEL, n) makes of the kernel's memory k: the frames X are
\* allocated, and t are then the further page tables of the directory in use, old
\* ones and new ones.
Grown(k, m, X, t) ==
  /\ m \in KernelType
  /\ X \subseteq KernelFrames \ k.physical
  /\ m.physical = k.physical \cup X
  /\ t \in [Further -> KernelFrames \cup {None}]
  /\ \A s \in Further : t[s] # k.pde[running][s] => k.pde[running][s] = None /\ t[s] \in X
  /\ m.pde = [k.pde EXCEPT ![running] = t]

\* When it fails, no page is allocated, and only entries of pages that were not
\* allocated before are cleared.
GivenBack(k, m) ==
  /\ m.virtual = k.virtual
  /\ m.entries \subseteq k.entries
  /\ \A e \in k.entries : e[2] \in k.virtual => e \in m.entries

\* When it succeeds, n pages from v are, and the entries N are written.
Given(k, m, v, n, X, t, N) ==
  /\ v \in KernelFrames
  /\ Run(v, n) \subseteq KernelFrames \ k.virtual
  /\ m.virtual = k.virtual \cup Run(v, n)
  /\ m.entries = {e \in k.entries : ~(e[2] \in Run(v, n) /\ e[1] = TableFor(m, running, e[2]))}
                   \cup N
  /\ \A e \in N : /\ e[1] = TableFor(m, running, e[2]) /\ e[1] # None
                  /\ e[2] \in Run(v, n) /\ e[3] \in X
                  /\ \A s \in Further : e[3] = t[s] => t[s] = k.pde[running][s]
  /\ \A x \in Run(v, n) : \E e \in N : e[2] = x
  /\ \A e, f \in N : e[2] = f[2] \/ e[3] = f[3] => e = f

\* BitMap::allocate returns a run of pages that are all free.
LEMMA AllocateVirtualPagesFacts ==
  ASSUME NEW k, NEW n \in Nat \ {0}, AllocateVirtualPages(k, n) # None
  PROVE  /\ AllocateVirtualPages(k, n) \in KernelFrames
         /\ Run(AllocateVirtualPages(k, n), n) \subseteq KernelFrames \ k.virtual
<1> DEFINE S == {v \in 0 .. (KernelPages - n) : Run(v, n) \cap k.virtual = {}}
<1>1. S \subseteq Frames
  BY MemoryAssumption DEF Frames, KernelFrames
<1>2. Lowest(S) # None
  BY DEF AllocateVirtualPages
<1> HIDE DEF S
<1>3. Lowest(S) \in S
  BY <1>1, <1>2, LowestElement
<1>4. AllocateVirtualPages(k, n) \in S
  BY <1>3 DEF AllocateVirtualPages, S
<1>5. QED
  BY <1>4, MemoryAssumption DEF S, Run, KernelFrames

\* What allocatePages(KERNEL, n) does, in the terms above.
LEMMA AllocatePagesFacts ==
  ASSUME NEW k \in KernelType, running \in Directories, NEW n \in Nat \ {0}
  PROVE  LET a == AllocatePages(k, n)
         IN \E X, t : /\ Grown(k, a.mem, X, t)
                      /\ \/ a.address = None /\ GivenBack(k, a.mem)
                         \/ a.address # None /\ \E N : Given(k, a.mem, a.address, n, X, t, N)
<1> DEFINE v == AllocateVirtualPages(k, n)
      free == KernelFrames \ k.physical
      lacking == {i \in 0 .. (n - 1) : TableFor(k, running, v + i) = None}
      needs == {i \in lacking :
                  \A j \in lacking : j < i => TableNumber(v + j) # TableNumber(v + i)}
      before(i) == i + Cardinality({j \in needs : j < i})
      page(i) == Nth(free, before(i))
      done == {i \in 0 .. (n - 1) : before(i + 1) <= Cardinality(free)}
      tables(t) == {Nth(free, before(i) + 1) :
                      i \in {j \in needs \cap done : TableNumber(v + j) = t}}
      lost == {page(i) : i \in {j \in needs \ done : before(j) < Cardinality(free)}}
      made == [k EXCEPT
                 !.physical = @ \cup lost \cup UNION {tables(t) : t \in Further},
                 !.pde[running] = [t \in Further |->
                   IF tables(t) = {} THEN k.pde[running][t] ELSE Lowest(tables(t))]]
      table == [t \in Further |->
                  IF tables(t) = {} THEN k.pde[running][t] ELSE Lowest(tables(t))]
      short == [made EXCEPT !.entries = Cleared(made, {v + i : i \in done})]
      pages == {page(i) : i \in done}
      written == {<<TableFor(made, running, v + i), v + i, page(i)>> : i \in done}
      whole == [made EXCEPT !.physical = @ \cup pages,
                            !.virtual = @ \cup Run(v, n),
                            !.entries = Cleared(made, Run(v, n)) \cup written]
<1>1. AllocatePages(k, n) =
        IF v = None THEN [address |-> None, mem |-> k]
        ELSE IF done # 0 .. (n - 1) THEN [address |-> None, mem |-> short]
        ELSE [address |-> v, mem |-> whole]
  BY Zenon DEF AllocatePages
<1> DEFINE Goal(a) ==
      \E X, t : /\ Grown(k, a.mem, X, t)
                /\ \/ a.address = None /\ GivenBack(k, a.mem)
                   \/ a.address # None /\ \E N : Given(k, a.mem, a.address, n, X, t, N)
<1>2. /\ k.physical \subseteq KernelFrames /\ k.virtual \subseteq KernelFrames
      /\ k.entries \subseteq ({First} \cup KernelFrames) \X KernelFrames \X KernelFrames
      /\ k.pde \in [Directories -> [Further -> KernelFrames \cup {None}]]
      /\ k.pde[running] \in [Further -> KernelFrames \cup {None}]
  BY DEF KernelType
<1>3. free \subseteq KernelFrames /\ free \subseteq Frames /\ Cardinality(free) \in Nat
  <2>1. free \subseteq KernelFrames /\ free \subseteq Frames
    BY DEF Frames
  <2>2. QED
    BY <2>1, FramesFinite
<1>4. CASE v = None
  <2> DEFINE a == [address |-> None, mem |-> k]
  <2>1. Grown(k, k, {}, k.pde[running]) /\ GivenBack(k, k)
    BY <1>2 DEF Grown, GivenBack
  <2>2. Goal(a)
    BY <2>1
  <2>3. QED
    BY <1>1, <1>4, <2>2
<1>5. CASE v # None
  <2>1. /\ v \in KernelFrames /\ v \in Nat
        /\ Run(v, n) \subseteq KernelFrames \ k.virtual
    BY <1>5, AllocateVirtualPagesFacts DEF KernelFrames
  <2> HIDE DEF v
  <2>2. \A i \in 0 .. (n - 1) : i \in Nat /\ v + i \in Run(v, n) /\ v + i \in KernelFrames
    BY <2>1 DEF Run
  <2>3. \A x \in Run(v, n) : x - v \in 0 .. (n - 1) /\ v + (x - v) = x
    BY <2>1 DEF Run
  <2>4. needs \subseteq Nat /\ IsFiniteSet(needs) /\ needs \subseteq lacking
    <3>1. IsFiniteSet(0 .. (n - 1)) /\ needs \subseteq 0 .. (n - 1)
      BY FS_Interval
    <3>2. QED
      BY <3>1, FS_Subset
  <2>5. \A i \in lacking : /\ TableNumber(v + i) \in Further
                           /\ k.pde[running][TableNumber(v + i)] = None
    <3> TAKE i \in lacking
    <3>1. v + i \in KernelFrames /\ TableFor(k, running, v + i) = None /\ First # None
      BY <2>2 DEF First, None
    <3>2. QED
      BY <3>1, TableForIs
  <2>6. \A i \in lacking : \E j \in needs : TableNumber(v + j) = TableNumber(v + i)
    <3> TAKE i \in lacking
    <3> DEFINE T == {j \in lacking : TableNumber(v + j) = TableNumber(v + i)}
    <3>1. T \subseteq Nat /\ T # {}
      OBVIOUS
    <3> HIDE DEF T
    <3>2. PICK j \in T : \A y \in T : j <= y
      BY <3>1, Least
    <3>3. \A y \in lacking : y < j => y \notin T
      BY <3>1, <3>2
    <3>4. QED
      BY <3>2, <3>3 DEF T
  <2>7. \A i : before(i) = Before(needs, i)
    BY DEF Before
  <2> HIDE DEF needs, before, lacking
  <2>8. \A i \in Nat : before(i) \in Nat /\ before(i + 1) = before(i) + IF i \in needs THEN 2 ELSE 1
    BY <2>4, <2>7, BeforeNext
  <2>9. \A i \in done : /\ i \in Nat /\ before(i) \in Nat /\ before(i) < Cardinality(free)
                        /\ i \in needs => before(i) + 1 < Cardinality(free)
    BY <1>3, <2>8
  <2>10. \A i, j \in done : /\ before(i) = before(j) => i = j
                            /\ j \in needs => before(i) # before(j) + 1
    BY <2>4, <2>7, <2>9, BeforeDiffers
  <2> HIDE DEF free
  <2>11. ASSUME NEW j \in Nat, j < Cardinality(free)
         PROVE  Nth(free, j) \in free
    BY <1>3, <2>11, NthElement
  <2>12. \A i \in done : page(i) \in free
    BY <2>9, <2>11
  <2>13. \A t : tables(t) \subseteq free
    BY <2>9, <2>11
  <2>14. lost \subseteq free
    BY <2>4, <2>8, <2>11
  <2>15. \A i, j \in done : page(i) = page(j) => i = j
    BY <1>3, <2>9, <2>10, NthDiffers
  <2>16. \A i \in done : \A t : page(i) \notin tables(t)
    <3> SUFFICES ASSUME NEW i \in done, NEW t, page(i) \in tables(t)
                 PROVE  FALSE
      OBVIOUS
    <3>1. PICK j \in needs \cap done : Nth(free, before(i)) = Nth(free, before(j) + 1)
      OBVIOUS
    <3>2. /\ before(i) \in Nat /\ before(i) < Cardinality(free)
          /\ before(j) + 1 \in Nat /\ before(j) + 1 < Cardinality(free)
      BY <2>9
    <3>3. before(i) = before(j) + 1
      BY <1>3, <3>1, <3>2, NthDiffers
    <3>4. QED
      BY <2>10, <3>3
  <2>17. \A t : tables(t) # {} => /\ t \in Further /\ k.pde[running][t] = None
                                  /\ Lowest(tables(t)) \in tables(t) /\ Lowest(tables(t)) # None
    <3> SUFFICES ASSUME NEW t, tables(t) # {}
                 PROVE  /\ t \in Further /\ k.pde[running][t] = None
                        /\ Lowest(tables(t)) \in tables(t) /\ Lowest(tables(t)) # None
      OBVIOUS
    <3>1. PICK j \in needs : TableNumber(v + j) = t
      OBVIOUS
    <3>2. t \in Further /\ k.pde[running][t] = None
      BY <2>4, <2>5, <3>1
    <3>3. tables(t) \subseteq Frames
      BY <1>3, <2>13
    <3> HIDE DEF tables
    <3>4. QED
      BY <3>2, <3>3, LowestElement
  <2>18. \A i \in needs \cap done : tables(TableNumber(v + i)) # {}
    OBVIOUS
  <2> DEFINE X0 == lost \cup UNION {tables(t) : t \in Further}
  <2>19. X0 \subseteq free
    BY <2>13, <2>14
  <2> HIDE DEF tables, lost
  <2>20. /\ table \in [Further -> KernelFrames \cup {None}]
         /\ \A s \in Further :
              /\ table[s] = k.pde[running][s] \/ (table[s] \in tables(s) /\ k.pde[running][s] = None)
              /\ tables(s) # {} => table[s] # None
              /\ tables(s) \subseteq X0
    BY <1>2, <1>3, <2>13, <2>17
  <2>21. /\ made.physical = k.physical \cup X0 /\ made.virtual = k.virtual
         /\ made.entries = k.entries /\ made.pde = [k.pde EXCEPT ![running] = table]
         /\ made \in KernelType
    <3>1. made = [k EXCEPT !.physical = k.physical \cup X0,
                           !.pde = [k.pde EXCEPT ![running] = table]]
      <4> HIDE DEF X0
      <4>1. made = [k EXCEPT !.physical = @ \cup lost \cup UNION {tables(t) : t \in Further},
                             !.pde[running] = table]
        OBVIOUS
      <4> HIDE DEF made, table
      <4>2. k.physical \cup lost \cup UNION {tables(t) : t \in Further} = k.physical \cup X0
        BY DEF X0
      <4>3. QED
        BY <4>1, <4>2 DEF KernelType
    <3> HIDE DEF made, table
    <3>2. X0 \subseteq KernelFrames
      BY <1>3, <2>19
    <3> HIDE DEF X0
    <3>3. [k.pde EXCEPT ![running] = table] \in [Directories -> [Further -> KernelFrames \cup {None}]]
      BY <1>2, <2>20
    <3>4. k.physical \cup X0 \subseteq KernelFrames
      BY <1>2, <3>2
    <3>5. QED
      BY <3>1, <3>3, <3>4 DEF KernelType
  <2> HIDE DEF made, table
  <2>22. made.pde[running] = table
    BY <1>2, <2>21
  <2>23. CASE done # 0 .. (n - 1)
    <3> DEFINE S == {v + i : i \in done}
    <3>1. S \subseteq Run(v, n)
      BY <2>2
    <3> HIDE DEF S
    <3>2. /\ short.physical = made.physical /\ short.virtual = made.virtual
          /\ short.entries = Cleared(made, S) /\ short.pde = made.pde
          /\ Cleared(made, S) \subseteq k.entries
          /\ short \in KernelType
      BY <2>21 DEF KernelType, Cleared, S
    <3>3. S \cap k.virtual = {}
      BY <2>1, <3>1
    <3>4. GivenBack(k, short)
      BY <2>21, <3>2, <3>3 DEF GivenBack, Cleared
    <3>5. Grown(k, short, X0, table)
      BY <2>19, <2>20, <2>21, <3>2 DEF Grown, free
    <3> HIDE DEF short, done
    <3>6. AllocatePages(k, n) = [address |-> None, mem |-> short]
      BY <1>1, <1>5, <2>23
    <3>7. QED
      BY <3>4, <3>5, <3>6
  <2>24. CASE done = 0 .. (n - 1)
    <3>1. pages \subseteq free
      BY <2>12
    <3>2. \A x \in Run(v, n) : TableFor(made, running, x) \in {First} \cup KernelFrames
      <4> SUFFICES ASSUME NEW x \in Run(v, n)
                   PROVE  TableFor(made, running, x) \in {First} \cup KernelFrames
        OBVIOUS
      <4> DEFINE s == TableNumber(x)
      <4>1. x \in KernelFrames /\ x - v \in 0 .. (n - 1) /\ v + (x - v) = x
        BY <2>1, <2>3
      <4>2. CASE x < TablePages
        BY <4>1, <4>2, <2>21, TableForIs
      <4>3. CASE ~(x < TablePages)
        <5>1. /\ s \in Further /\ TableFor(made, running, x) = table[s]
              /\ TableFor(k, running, x) = k.pde[running][s]
              /\ table[s] \in KernelFrames \cup {None}
          <6>1. x >= TablePages /\ s \in Further
            BY <4>1, <4>3, MemoryAssumption DEF KernelFrames, Further
          <6>2. /\ TableFor(k, running, x) = k.pde[running][s]
                /\ TableFor(made, running, x) = made.pde[running][s]
            BY <4>3 DEF TableFor
          <6>3. QED
            BY <2>20, <2>22, <6>1, <6>2
        <5>2. ASSUME k.pde[running][s] = None
              PROVE  tables(s) # {}
          <6>1. x - v \in lacking
            BY <4>1, <5>1, <5>2 DEF lacking
          <6>2. PICK j \in needs : TableNumber(v + j) = s
            BY <2>6, <4>1, <6>1
          <6>3. j \in done
            BY <2>4, <2>24, <6>2 DEF lacking
          <6>4. QED
            BY <2>18, <6>2, <6>3
        <5>3. table[s] # None
          BY <2>20, <5>1, <5>2
        <5>4. QED
          BY <5>1, <5>3
      <4>4. QED
        BY <4>2, <4>3
    <3>3. \A x \in Run(v, n) : TableFor(made, running, x) # None
      BY <3>2, MemoryAssumption DEF First, None, KernelFrames
    <3> DEFINE X == X0 \cup pages
    <3>4. /\ whole.physical = k.physical \cup X /\ whole.virtual = k.virtual \cup Run(v, n)
          /\ whole.entries = Cleared(made, Run(v, n)) \cup written /\ whole.pde = made.pde
      <4> HIDE DEF pages, written, X0
      <4>1. QED
        BY <2>21 DEF KernelType
    <3>5. \A i \in 0 .. (n - 1) : page(i) \in X
      BY <2>24
    <3>6. \A i \in 0 .. (n - 1), s \in Further : page(i) = table[s] => table[s] = k.pde[running][s]
      BY <2>16, <2>20, <2>24
    <3>7. X \subseteq KernelFrames \ k.physical
      BY <2>19, <3>1 DEF free
    <3>8. \A i, j \in 0 .. (n - 1) : page(i) = page(j) => i = j
      BY <2>15, <2>24
    <3> HIDE DEF page, X0
    <3>9. /\ \A e \in written : \E i \in 0 .. (n - 1) :
                e = <<TableFor(made, running, v + i), v + i, page(i)>>
          /\ \A i \in 0 .. (n - 1) :
                <<TableFor(made, running, v + i), v + i, page(i)>> \in written
      BY <2>24
    <3> HIDE DEF written
    <3>10. \A e \in written : /\ e[1] = TableFor(made, running, e[2]) /\ e[1] # None
                              /\ e[2] \in Run(v, n) /\ e[3] \in X
                              /\ \A s \in Further : e[3] = table[s] => table[s] = k.pde[running][s]
      <4> HIDE DEF X
      <4>1. QED
        BY <2>2, <3>3, <3>5, <3>6, <3>9
    <3>11. \A x \in Run(v, n) : \E e \in written : e[2] = x
      <4> TAKE x \in Run(v, n)
      <4>1. <<TableFor(made, running, v + (x - v)), v + (x - v), page(x - v)>> \in written
        BY <2>3, <3>9
      <4>2. QED
        BY <2>3, <4>1
    <3>12. \A e, f \in written : e[2] = f[2] \/ e[3] = f[3] => e = f
      <4> TAKE e, f \in written
      <4>1. PICK i \in 0 .. (n - 1) : e = <<TableFor(made, running, v + i), v + i, page(i)>>
        BY <3>9
      <4>2. PICK j \in 0 .. (n - 1) : f = <<TableFor(made, running, v + j), v + j, page(j)>>
        BY <3>9
      <4>3. v + i = v + j \/ page(i) = page(j) => i = j
        BY <2>1, <3>8
      <4>4. QED
        BY <4>1, <4>2, <4>3
    <3>13. written \subseteq ({First} \cup KernelFrames) \X KernelFrames \X KernelFrames
      BY <2>2, <3>2, <3>5, <3>7, <3>9
    <3>14. \A x : TableFor(whole, running, x) = TableFor(made, running, x)
      BY <3>4 DEF TableFor
    <3>15. Given(k, whole, v, n, X, table, written)
      <4> HIDE DEF whole, X
      <4>1. Cleared(made, Run(v, n)) =
              {e \in k.entries : ~(e[2] \in Run(v, n) /\ e[1] = TableFor(whole, running, e[2]))}
        BY <2>21, <3>14 DEF Cleared
      <4>2. whole.virtual = k.virtual \cup Run(v, n)
            /\ whole.entries = {e \in k.entries :
                                  ~(e[2] \in Run(v, n) /\ e[1] = TableFor(whole, running, e[2]))}
                   \cup written
        BY <3>4, <4>1
      <4>3. \A e \in written : e[1] = TableFor(whole, running, e[2])
        BY <3>10, <3>14
      <4>4. QED
        BY <2>1, <3>10, <3>11, <3>12, <4>2, <4>3, Zenon DEF Given
    <3>16. whole \in KernelType
      <4>1. Cleared(made, Run(v, n)) \subseteq k.entries
        BY <2>21 DEF Cleared
      <4>2. /\ whole.entries \subseteq ({First} \cup KernelFrames) \X KernelFrames \X KernelFrames
            /\ whole.physical \subseteq KernelFrames /\ whole.virtual \subseteq KernelFrames
            /\ whole.pde \in [Directories -> [Further -> KernelFrames \cup {None}]]
        <5> HIDE DEF whole, X
        <5>1. made.pde \in [Directories -> [Further -> KernelFrames \cup {None}]]
          BY <2>21 DEF KernelType
        <5>2. QED
          BY <1>2, <2>1, <3>4, <3>7, <3>13, <4>1, <5>1
      <4> HIDE DEF pages, X
      <4>3. QED
        BY <2>21, <4>2 DEF KernelType
    <3>17. Grown(k, whole, X, table)
      <4>1. \A s \in Further : table[s] # k.pde[running][s] => k.pde[running][s] = None /\ table[s] \in X
        BY <2>20
      <4> HIDE DEF whole, X
      <4>2. QED
        BY <2>20, <2>21, <3>4, <3>7, <3>16, <4>1 DEF Grown
    <3> HIDE DEF whole, X, done
    <3>18. AllocatePages(k, n) = [address |-> v, mem |-> whole]
      BY <1>1, <1>5, <2>24
    <3>19. QED
      BY <1>5, <3>15, <3>17, <3>18
  <2>25. QED
    BY <2>23, <2>24
<1>6. QED
  BY <1>1, <1>4, <1>5

-----------------------------------------------------------------------------
\* A further page table is in a directory, or has an entry.
LEMMA InTables ==
  ASSUME NEW k, NEW x
  PROVE  x \in Tables(k) <=> /\ x # None /\ x # First
                             /\ \/ \E d \in Directories, t \in Further : x = k.pde[d][t]
                                \/ \E e \in k.entries : x = e[1]
  BY DEF Tables

\* The processor finds a frame for a page exactly when its table has an entry for it.
LEMMA FrameFound ==
  ASSUME NEW k \in KernelType, NEW d, NEW x
  PROVE  /\ FrameAt(k, d, x) \in KernelFrames \cup {None}
         /\ FrameAt(k, d, x) # None => <<TableFor(k, d, x), x, FrameAt(k, d, x)>> \in k.entries
         /\ \A f : <<TableFor(k, d, x), x, f>> \in k.entries => FrameAt(k, d, x) # None
<1> DEFINE S == {f \in KernelFrames : <<TableFor(k, d, x), x, f>> \in k.entries}
<1>1. \A f : <<TableFor(k, d, x), x, f>> \in k.entries => f \in KernelFrames
  BY DEF KernelType
<1>2. None \notin KernelFrames
  BY MemoryAssumption DEF None, KernelFrames
<1>3. CASE \E f \in KernelFrames : <<TableFor(k, d, x), x, f>> \in k.entries
  <2>1. /\ FrameAt(k, d, x) \in KernelFrames
        /\ <<TableFor(k, d, x), x, FrameAt(k, d, x)>> \in k.entries
    BY <1>3, Zenon DEF FrameAt
  <2>2. QED
    BY <1>2, <2>1
<1>4. CASE ~ \E f \in KernelFrames : <<TableFor(k, d, x), x, f>> \in k.entries
  <2>1. FrameAt(k, d, x) = None
    BY <1>4 DEF FrameAt
  <2>2. QED
    BY <1>1, <1>4, <2>1
<1>5. QED
  BY <1>3, <1>4

\* From k to m nothing that was allocated is released, no entry of an allocated page
\* is cleared, and what is new uses only what was free.
Extends(k, m) ==
  /\ k.physical \subseteq m.physical
  /\ k.virtual \subseteq m.virtual
  /\ \A e \in m.entries : e \in k.entries \/ (e[3] \notin k.physical /\ e[2] \notin k.virtual)
  /\ \A e \in k.entries : e[2] \in k.virtual => e \in m.entries
  /\ \A t \in Tables(m) : t \in Tables(k) \/ t \notin k.physical

\* One growth after another is a growth.
LEMMA ExtendsTwice ==
  ASSUME NEW k, NEW l, NEW m, Extends(k, l), Extends(l, m)
  PROVE  Extends(k, m)
  BY DEF Extends

\* Directory d keeps its page tables, and only the one in use gets new ones.
Keeps(k, m, d) ==
  \A t \in Further : d # running \/ k.pde[d][t] # None => m.pde[d][t] = k.pde[d][t]

\* The pages in S that have a page table in directory d are mapped there.
Mapped(k, d, S) ==
  \A x \in S : TableFor(k, d, x) # None => FrameAt(k, d, x) # None

\* allocatePages(KERNEL, n) keeps the kernel's memory in order, and the pages it
\* returns are mapped to frames that were free.
LEMMA AllocatePagesOK ==
  ASSUME NEW k, KernelOK(k), running \in Directories, NEW n \in Nat \ {0}
  PROVE  LET a == AllocatePages(k, n)
         IN /\ KernelOK(a.mem) /\ Extends(k, a.mem) /\ (Tidy(k) => Tidy(a.mem))
            /\ \A d \in Directories : Keeps(k, a.mem, d)
            /\ a.address # None =>
                 /\ a.address \in KernelFrames
                 /\ Run(a.address, n) \subseteq a.mem.virtual \ k.virtual
                 /\ Reaches(a.mem, running, Run(a.address, n))
                 /\ \A e \in a.mem.entries :
                      e[2] \in Run(a.address, n) /\ e[1] = TableFor(a.mem, running, e[2])
                        => e[3] \notin k.physical
<1> DEFINE a == AllocatePages(k, n)
           m == a.mem
<1>1. PICK X, t : /\ Grown(k, m, X, t)
                  /\ \/ a.address = None /\ GivenBack(k, m)
                     \/ a.address # None /\ \E N : Given(k, m, a.address, n, X, t, N)
  <2>1. k \in KernelType
    BY DEF KernelOK
  <2>2. QED
    BY <2>1, AllocatePagesFacts
<1> HIDE DEF a
<1>2. /\ m \in KernelType /\ k \in KernelType
      /\ X \subseteq KernelFrames \ k.physical
      /\ m.physical = k.physical \cup X
      /\ m.pde[running] = t
      /\ \A d \in Directories \ {running} : m.pde[d] = k.pde[d]
      /\ \A s \in Further : t[s] # k.pde[running][s] => k.pde[running][s] = None /\ t[s] \in X
  BY <1>1 DEF Grown, KernelOK, KernelType
<1>3. \A d \in Directories, s \in Further : m.pde[d][s] = k.pde[d][s] \/ m.pde[d][s] \in X
  BY <1>2
<1>4. \A d \in Directories : Keeps(k, m, d)
  BY <1>2 DEF Keeps
<1>5. k.entries \subseteq ({First} \cup KernelFrames) \X KernelFrames \X KernelFrames
  BY <1>2 DEF KernelType
<1>6. CASE a.address = None /\ GivenBack(k, m)
  <2>1. /\ m.virtual = k.virtual /\ m.entries \subseteq k.entries
        /\ \A e \in k.entries : e[2] \in k.virtual => e \in m.entries
    BY <1>6 DEF GivenBack
  <2>2. \A x \in Tables(m) : x \in Tables(k) \/ x \in X
    BY <1>3, <2>1, InTables
  <2>3. Extends(k, m)
    BY <1>2, <2>1, <2>2 DEF Extends
  <2>4. Tables(m) \subseteq m.physical
    BY <1>2, <2>2 DEF KernelOK
  <2>5. \A e \in m.entries : e[3] \in m.physical \ Tables(m)
    BY <1>2, <2>1, <2>2 DEF KernelOK
  <2>6. KernelOK(m)
    BY <1>2, <2>1, <2>4, <2>5 DEF KernelOK
  <2>7. Tidy(k) => Tidy(m)
    BY <2>1 DEF Tidy
  <2>8. QED
    BY <1>4, <1>6, <2>3, <2>6, <2>7 DEF a
<1>7. CASE a.address # None /\ \E N : Given(k, m, a.address, n, X, t, N)
  <2> DEFINE v == a.address
  <2>1. PICK N : Given(k, m, v, n, X, t, N)
    BY <1>7
  <2> HIDE DEF v
  <2>2. /\ v \in KernelFrames
        /\ Run(v, n) \subseteq KernelFrames \ k.virtual
        /\ m.virtual = k.virtual \cup Run(v, n)
        /\ \A e \in k.entries : e[2] \notin Run(v, n) => e \in m.entries
        /\ \A e \in m.entries : \/ e \in N
                                \/ /\ e \in k.entries
                                   /\ ~(e[2] \in Run(v, n) /\ e[1] = TableFor(m, running, e[2]))
        /\ N \subseteq m.entries
        /\ \A e \in N : /\ e[1] = TableFor(m, running, e[2]) /\ e[1] # None
                        /\ e[2] \in Run(v, n) /\ e[3] \in X
                        /\ \A s \in Further : e[3] = t[s] => t[s] = k.pde[running][s]
        /\ \A x \in Run(v, n) : \E e \in N : e[2] = x
        /\ \A e, f \in N : e[2] = f[2] \/ e[3] = f[3] => e = f
    BY <2>1 DEF Given
  <2>3. \A e \in N : IF e[2] < TablePages THEN e[1] = First
                    ELSE e[1] # First /\ \E s \in Further : e[1] = t[s]
    <3> TAKE e \in N
    <3>1. e[2] \in KernelFrames /\ e[1] = TableFor(m, running, e[2])
      BY <2>2
    <3>2. First \notin KernelFrames \cup {None}
      BY MemoryAssumption DEF First, None, KernelFrames
    <3>3. QED
      BY <1>2, <3>1, <3>2, TableForIs
  <2>4. \A x \in Tables(m) :
          x \in Tables(k) \/ (x \in X /\ \E s \in Further : x = t[s] /\ t[s] # k.pde[running][s])
    <3> TAKE x \in Tables(m)
    <3>1. CASE \E d \in Directories, s \in Further : x = m.pde[d][s]
      <4>1. PICK d \in Directories, s \in Further : x = m.pde[d][s]
        BY <3>1
      <4>2. CASE x = k.pde[d][s]
        BY <4>2, InTables
      <4>3. CASE x # k.pde[d][s]
        BY <1>2, <4>1, <4>3
      <4>4. QED
        BY <4>2, <4>3
    <3>2. CASE \E e \in m.entries : x = e[1]
      <4>1. PICK e \in m.entries : x = e[1]
        BY <3>2
      <4>2. CASE e \in k.entries
        BY <4>1, <4>2, InTables
      <4>3. CASE e \in N
        <5>1. PICK s \in Further : x = t[s]
          BY <2>3, <4>1, <4>3, InTables
        <5>2. CASE x = k.pde[running][s]
          BY <5>2, InTables
        <5>3. CASE x # k.pde[running][s]
          BY <1>2, <5>1, <5>3
        <5>4. QED
          BY <5>2, <5>3
      <4>4. QED
        BY <2>2, <4>2, <4>3
    <3>3. QED
      BY <3>1, <3>2, InTables
  <2>5. Tables(k) \subseteq k.physical /\ Tables(m) \subseteq m.physical
    BY <1>2, <2>4 DEF KernelOK
  <2>6. \A e \in m.entries : e[3] \in m.physical \ Tables(m)
    <3> TAKE e \in m.entries
    <3>1. CASE e \in k.entries
      BY <1>2, <2>4, <3>1 DEF KernelOK
    <3>2. CASE e \in N
      BY <1>2, <2>2, <2>4, <2>5, <3>2
    <3>3. QED
      BY <2>2, <3>1, <3>2
  <2>7. \A e \in m.entries : /\ e[1] = First <=> e[2] < TablePages
                             /\ e[1] = First => e[2] \in m.virtual
    <3> TAKE e \in m.entries
    <3>1. CASE e \in k.entries
      BY <2>2, <3>1 DEF KernelOK
    <3>2. CASE e \in N
      <4>1. e[1] = First <=> e[2] < TablePages
        BY <2>3, <3>2
      <4>2. e[2] \in m.virtual
        BY <2>2, <3>2
      <4>3. QED
        BY <4>1, <4>2
    <3>3. QED
      BY <2>2, <3>1, <3>2
  <2>8. \A e, f \in m.entries : e[3] = f[3] \/ (e[1] = f[1] /\ e[2] = f[2]) => e = f
    <3> TAKE e, f \in m.entries
    <3>1. CASE e \in k.entries /\ f \in k.entries
      BY <3>1 DEF KernelOK
    <3>2. CASE e \in N /\ f \in N
      BY <2>2, <3>2
    <3>3. CASE e \in k.entries /\ f \in N /\ e \notin N
      BY <1>2, <2>2, <3>3 DEF KernelOK
    <3>4. CASE f \in k.entries /\ e \in N /\ f \notin N
      BY <1>2, <2>2, <3>4 DEF KernelOK
    <3>5. QED
      BY <2>2, <3>1, <3>2, <3>3, <3>4
  <2>9. \A x \in m.virtual : \E e \in m.entries : e[2] = x
    BY <2>2 DEF KernelOK
  <2>10. KernelOK(m)
    BY <1>2, <2>5, <2>6, <2>7, <2>8, <2>9 DEF KernelOK
  <2>11. Extends(k, m)
    BY <1>2, <2>2, <2>4 DEF Extends
  <2>12. Tidy(k) => Tidy(m)
    <3> SUFFICES ASSUME Tidy(k)
                 PROVE  Tidy(m)
      OBVIOUS
    <3>1. \A e \in m.entries : e \in N \/ (e \in k.entries /\ e[2] \in k.virtual)
      BY <2>2 DEF Tidy
    <3>2. QED
      BY <2>2, <3>1 DEF Tidy
  <2>13. Reaches(m, running, Run(v, n))
    <3> SUFFICES ASSUME NEW x \in Run(v, n)
                 PROVE  FrameAt(m, running, x) # None
      BY DEF Reaches
    <3>1. PICK e \in N : e[2] = x
      BY <2>2
    <3>2. e = <<e[1], e[2], e[3]>>
      BY <1>2, <2>2, <3>1 DEF KernelType
    <3>3. <<TableFor(m, running, x), x, e[3]>> \in m.entries
      BY <2>2, <3>1, <3>2
    <3>4. QED
      BY <1>2, <3>3, FrameFound
  <2>14. \A e \in m.entries : e[2] \in Run(v, n) /\ e[1] = TableFor(m, running, e[2])
                                => e[3] \notin k.physical
    BY <1>2, <2>2
  <2>15. QED
    BY <1>4, <2>2, <2>10, <2>11, <2>12, <2>13, <2>14 DEF a, v
<1>8. QED
  BY <1>1, <1>6, <1>7

\* A page behind which the first page table has its entry is reached in every directory.
LEMMA FirstTableReaches ==
  ASSUME NEW k, KernelOK(k), NEW x \in k.virtual, x < TablePages \/ Tables(k) = {}, NEW d
  PROVE  TableFor(k, d, x) = First /\ FrameAt(k, d, x) # None
<1>1. PICK e \in k.entries : e[2] = x
  BY DEF KernelOK
<1>2. k \in KernelType /\ e = <<e[1], e[2], e[3]>> /\ e[1] \in {First} \cup KernelFrames
  BY <1>1 DEF KernelOK, KernelType
<1>3. None \notin KernelFrames
  BY MemoryAssumption DEF None, KernelFrames
<1>4. e[1] = First
  <2>1. CASE x < TablePages
    BY <1>1, <2>1 DEF KernelOK
  <2>2. CASE Tables(k) = {}
    BY <1>1, <1>2, <1>3, <2>2, InTables
  <2>3. QED
    BY <2>1, <2>2
<1>5. x < TablePages
  BY <1>1, <1>4 DEF KernelOK
<1>6. <<TableFor(k, d, x), x, e[3]>> \in k.entries
  BY <1>1, <1>2, <1>4, <1>5 DEF TableFor
<1>7. QED
  BY <1>2, <1>5, <1>6, FrameFound DEF TableFor

\* releasePages(KERNEL, v, n): no frame of another page is released.
LEMMA ReleasePagesOK ==
  ASSUME NEW k, KernelOK(k), NEW v, NEW n
  PROVE  LET m == ReleasePages(k, v, n)
         IN /\ KernelOK(m) /\ (Tidy(k) /\ Reaches(k, running, Run(v, n)) => Tidy(m))
            /\ m.pde = k.pde
            /\ m.virtual = k.virtual \ Run(v, n)
            /\ m.entries \subseteq k.entries
            /\ \A e \in k.entries : e[2] \notin Run(v, n) => e \in m.entries
            /\ m.physical \subseteq k.physical
            /\ \A f \in k.physical \ m.physical : \E e \in k.entries :
                 e[2] \in Run(v, n) /\ e[1] = TableFor(k, running, e[2]) /\ e[3] = f
            /\ \A x \in Run(v, n) : FrameAt(k, running, x) \notin m.physical
            /\ \A t \in Tables(m) : t \in Tables(k)
<1> DEFINE m == ReleasePages(k, v, n)
           R == Run(v, n)
           released == {FrameAt(k, running, x) : x \in R}
<1>1. k \in KernelType
  BY DEF KernelOK
<1>2. /\ m.physical = k.physical \ released /\ m.virtual = k.virtual \ R
      /\ m.entries = Cleared(k, R) /\ m.pde = k.pde
  BY <1>1 DEF ReleasePages, KernelType
<1>3. m.entries = {e \in k.entries : ~(e[2] \in R /\ e[1] = TableFor(k, running, e[2]))}
  BY <1>2 DEF Cleared
<1>4. m \in KernelType
  <2>1. /\ m.entries \subseteq k.entries /\ m.physical \subseteq k.physical
        /\ m.virtual \subseteq k.virtual
    BY <1>2, <1>3
  <2>2. Cleared(k, R) \subseteq k.entries
    BY DEF Cleared
  <2>3. /\ k.physical \ released \subseteq KernelFrames /\ k.virtual \ R \subseteq KernelFrames
        /\ Cleared(k, R) \subseteq ({First} \cup KernelFrames) \X KernelFrames \X KernelFrames
    BY <1>1, <2>2 DEF KernelType
  <2>4. m = [k EXCEPT !.physical = k.physical \ released, !.virtual = k.virtual \ R,
                      !.entries = Cleared(k, R)]
    BY DEF ReleasePages
  <2> HIDE DEF m, released, R
  <2>5. QED
    BY <1>1, <2>3, <2>4 DEF KernelType
<1> HIDE DEF m, R
<1>5. \A f \in released : f = None \/ \E e \in k.entries :
                            e[2] \in R /\ e[1] = TableFor(k, running, e[2]) /\ e[3] = f
  <2> TAKE f \in released
  <2>1. PICK x \in R : f = FrameAt(k, running, x)
    OBVIOUS
  <2>2. f = None \/ <<TableFor(k, running, x), x, f>> \in k.entries
    BY <1>1, <2>1, FrameFound
  <2>3. QED
    BY <2>1, <2>2
<1>6. None \notin KernelFrames
  BY MemoryAssumption DEF None, KernelFrames
<1>7. \A e \in k.entries : /\ e[3] # None /\ e[3] \in k.physical \ Tables(k)
                           /\ Tables(k) \subseteq k.physical
  BY <1>1, <1>6 DEF KernelOK, KernelType
<1>8. Tables(m) \subseteq Tables(k)
  BY <1>2, <1>3, InTables
<1>9. \A x \in R : FrameAt(k, running, x) \in released
  OBVIOUS
<1> HIDE DEF released
<1>10. Tables(m) \subseteq m.physical
  <2>1. \A t \in Tables(k) : t # None /\ t \in k.physical
    BY <1>6, InTables DEF KernelOK
  <2>2. QED
    BY <1>2, <1>5, <1>7, <1>8, <2>1
<1>11. \A e \in m.entries : e[3] \in m.physical \ Tables(m)
  <2> TAKE e \in m.entries
  <2>1. e \in k.entries /\ ~(e[2] \in R /\ e[1] = TableFor(k, running, e[2]))
    BY <1>3
  <2>2. e[3] \notin released
    BY <1>5, <1>7, <2>1 DEF KernelOK
  <2>3. QED
    BY <1>2, <1>7, <1>8, <2>1, <2>2
<1>12. \A e \in m.entries : /\ e[1] = First <=> e[2] < TablePages
                            /\ e[1] = First => e[2] \in m.virtual
  <2> TAKE e \in m.entries
  <2>1. e \in k.entries /\ ~(e[2] \in R /\ e[1] = TableFor(k, running, e[2]))
    BY <1>3
  <2>2. QED
    BY <1>2, <2>1 DEF KernelOK, TableFor
<1>13. \A e, f \in m.entries : e[3] = f[3] \/ (e[1] = f[1] /\ e[2] = f[2]) => e = f
  BY <1>3 DEF KernelOK
<1>14. \A x \in m.virtual : \E e \in m.entries : e[2] = x
  BY <1>2, <1>3 DEF KernelOK
<1>15. KernelOK(m)
  BY <1>4, <1>10, <1>11, <1>12, <1>13, <1>14 DEF KernelOK
<1>16. ASSUME Tidy(k), Reaches(k, running, R)
       PROVE  Tidy(m)
  <2>1. ASSUME NEW e \in m.entries
        PROVE  e[2] \notin R
    <3>1. SUFFICES ASSUME e[2] \in R PROVE FALSE
      OBVIOUS
    <3>2. <<TableFor(k, running, e[2]), e[2], FrameAt(k, running, e[2])>> \in k.entries
      BY <1>1, <1>16, <3>1, FrameFound DEF Reaches
    <3>3. e = <<TableFor(k, running, e[2]), e[2], FrameAt(k, running, e[2])>>
      BY <1>3, <1>16, <3>2 DEF Tidy
    <3>4. QED
      BY <1>3, <3>1, <3>3
  <2>2. QED
    BY <1>2, <1>3, <1>16, <2>1 DEF Tidy
<1>17. \A f \in k.physical \ m.physical : \E e \in k.entries :
         e[2] \in R /\ e[1] = TableFor(k, running, e[2]) /\ e[3] = f
  BY <1>1, <1>2, <1>5, <1>6 DEF KernelType
<1>18. \A x \in R : FrameAt(k, running, x) \notin m.physical
  BY <1>2, <1>9
<1>19. QED
  BY <1>2, <1>3, <1>8, <1>15, <1>16, <1>17, <1>18 DEF m, R

\* The page directory p gets the further page tables of the directory in use.
LEMMA CopiedOK ==
  ASSUME NEW k, KernelOK(k), running \in Directories, NEW p \in Directories
  PROVE  LET m == [k EXCEPT !.pde[p] = k.pde[running]]
         IN /\ KernelOK(m) /\ Extends(k, m) /\ (Tidy(k) => Tidy(m))
            /\ m.pde[p] = k.pde[running]
            /\ \A d \in Directories \ {p} : m.pde[d] = k.pde[d]
            /\ m.virtual = k.virtual
<1> DEFINE m == [k EXCEPT !.pde[p] = k.pde[running]]
<1>1. /\ m \in KernelType
      /\ m.physical = k.physical /\ m.virtual = k.virtual /\ m.entries = k.entries
      /\ m.pde[p] = k.pde[running] /\ \A d \in Directories \ {p} : m.pde[d] = k.pde[d]
  BY DEF KernelOK, KernelType
<1> HIDE DEF m
<1>2. \A t \in Tables(m) : t \in Tables(k)
  BY <1>1, InTables
<1>3. KernelOK(m) /\ Extends(k, m) /\ (Tidy(k) => Tidy(m))
  BY <1>1, <1>2 DEF KernelOK, Extends, Tidy
<1>4. QED
  BY <1>1, <1>3 DEF m

\* What executeProcess leaves of the kernel's memory, and what p gets of it.
LEMMA CreationOK ==
  ASSUME KernelOK(kernel), running \in Directories, NEW p \in Processes \ {running},
         NEW new \in Creation(p)
  PROVE  /\ KernelOK(new.mem) /\ Extends(kernel, new.mem) /\ (Tidy(kernel) => Tidy(new.mem))
         /\ \A d \in Directories \ {p} : Keeps(kernel, new.mem, d)
         /\ new.directory \in KernelFrames \cup {None}
         /\ new.pool \in KernelFrames \cup {None}
         /\ Created(new) =>
              /\ new.directory \in new.mem.virtual \ kernel.virtual
              /\ Run(new.pool, PoolPages) \subseteq new.mem.virtual \ kernel.virtual
              /\ new.directory \notin Run(new.pool, PoolPages)
              /\ Mapped(new.mem, p, Run(new.pool, PoolPages))
<1> DEFINE d == AllocatePages(kernel, 1)
           copied == [d.mem EXCEPT !.pde[p] = d.mem.pde[running]]
           b == AllocatePages(copied, PoolPages)
<1>1. new = IF d.address = None THEN [directory |-> None, pool |-> None, mem |-> d.mem]
            ELSE [directory |-> d.address, pool |-> b.address, mem |-> b.mem]
  <2> DEFINE E(x) == [x.mem EXCEPT !.pde[p] = x.mem.pde[running]]
             F(x) == IF x.address = None
                     THEN {[directory |-> None, pool |-> None, mem |-> x.mem]}
                     ELSE {[directory |-> x.address, pool |-> c.address, mem |-> c.mem] :
                             c \in {AllocatePages(E(x), PoolPages)}}
  <2>1. Creation(p) = UNION {F(x) : x \in {d}}
    BY Zenon DEF Creation
  <2>2. new \in F(d)
    <3> HIDE DEF F, d
    <3>1. QED
      BY <2>1
  <2> HIDE DEF d
  <2>3. QED
    BY <2>2
<1>2. p \in Directories /\ p # running /\ 1 \in Nat \ {0} /\ PoolPages \in Nat \ {0}
  BY MemoryAssumption DEF Directories
<1>3. /\ KernelOK(d.mem) /\ Extends(kernel, d.mem) /\ (Tidy(kernel) => Tidy(d.mem))
      /\ \A x \in Directories : Keeps(kernel, d.mem, x)
      /\ d.address # None =>
           /\ d.address \in KernelFrames
           /\ Run(d.address, 1) \subseteq d.mem.virtual \ kernel.virtual
  BY <1>2, AllocatePagesOK
<1> HIDE DEF d
<1>4. /\ KernelOK(copied) /\ Extends(d.mem, copied) /\ (Tidy(d.mem) => Tidy(copied))
      /\ copied.pde[p] = d.mem.pde[running]
      /\ \A x \in Directories \ {p} : copied.pde[x] = d.mem.pde[x]
      /\ copied.virtual = d.mem.virtual
  BY <1>2, <1>3, CopiedOK
<1> HIDE DEF copied
<1>5. /\ KernelOK(b.mem) /\ Extends(copied, b.mem) /\ (Tidy(copied) => Tidy(b.mem))
      /\ \A x \in Directories : Keeps(copied, b.mem, x)
      /\ b.address # None =>
           /\ b.address \in KernelFrames
           /\ Run(b.address, PoolPages) \subseteq b.mem.virtual \ copied.virtual
           /\ Reaches(b.mem, running, Run(b.address, PoolPages))
  BY <1>2, <1>4, AllocatePagesOK
<1> HIDE DEF b
<1>6. CASE d.address = None
  <2>1. new.directory = None /\ new.pool = None /\ new.mem = d.mem
    BY <1>1, <1>6
  <2>2. QED
    BY <1>3, <2>1 DEF Created
<1>7. CASE d.address # None
  <2>1. new.directory = d.address /\ new.pool = b.address /\ new.mem = b.mem
    BY <1>1, <1>7
  <2>2. d.address \in KernelFrames /\ d.address \in d.mem.virtual \ kernel.virtual
    BY <1>3, <1>7, MemoryAssumption DEF Run, KernelFrames
  <2>3. Extends(kernel, b.mem) /\ (Tidy(kernel) => Tidy(b.mem))
    BY <1>3, <1>4, <1>5, ExtendsTwice
  <2>4. d.mem.virtual \subseteq b.mem.virtual /\ kernel.virtual \subseteq d.mem.virtual
    BY <1>3, <1>4, <1>5 DEF Extends
  <2>5. \A x \in Directories \ {p} : Keeps(kernel, b.mem, x)
    BY <1>3, <1>4, <1>5 DEF Keeps
  <2>6. ASSUME b.address # None
        PROVE  Mapped(b.mem, p, Run(b.address, PoolPages))
    <3> SUFFICES ASSUME NEW x \in Run(b.address, PoolPages), TableFor(b.mem, p, x) # None
                 PROVE  FrameAt(b.mem, p, x) # None
      BY DEF Mapped
    <3>1. FrameAt(b.mem, running, x) # None
      BY <1>5, <2>6 DEF Reaches
    <3>2. b.mem \in KernelType /\ x \in KernelFrames
      BY <1>5, <2>6 DEF KernelOK, KernelType
    <3>3. ASSUME NEW t \in Further, b.mem.pde[p][t] # None
          PROVE  b.mem.pde[p][t] = b.mem.pde[running][t]
      BY <1>2, <1>4, <1>5, <3>3 DEF Keeps
    <3>4. TableFor(b.mem, p, x) = TableFor(b.mem, running, x)
      BY <1>2, <3>2, <3>3, TableForIs
    <3>5. QED
      BY <3>1, <3>4 DEF FrameAt
  <2>7. b.address # None =>
          /\ b.address \in KernelFrames
          /\ Run(b.address, PoolPages) \subseteq b.mem.virtual \ kernel.virtual
          /\ d.address \notin Run(b.address, PoolPages)
    BY <1>4, <1>5, <2>2, <2>4
  <2>8. QED
    BY <1>5, <2>1, <2>2, <2>3, <2>4, <2>5, <2>6, <2>7 DEF Created
<1>8. QED
  BY <1>6, <1>7

\* The page of copyProcess through which pages are copied, allocated and released.
LEMMA BufferReleased ==
  ASSUME NEW k, KernelOK(k), running \in Directories,
         NEW buffer, buffer = AllocatePages(k, 1), buffer.address # None
  PROVE  LET m == ReleasePages(buffer.mem, buffer.address, 1)
         IN /\ KernelOK(m) /\ Extends(k, m) /\ (Tidy(k) => Tidy(m))
            /\ m.pde = buffer.mem.pde
<1> DEFINE l == buffer.mem
           m == ReleasePages(l, buffer.address, 1)
           R == Run(buffer.address, 1)
<1>1. /\ KernelOK(l) /\ Extends(k, l) /\ (Tidy(k) => Tidy(l))
      /\ R \subseteq l.virtual \ k.virtual
      /\ Reaches(l, running, R)
      /\ \A e \in l.entries :
           e[2] \in R /\ e[1] = TableFor(l, running, e[2]) => e[3] \notin k.physical
  <2>1. 1 \in Nat \ {0}
    OBVIOUS
  <2>2. QED
    BY <2>1, AllocatePagesOK
<1>2. /\ KernelOK(m) /\ (Tidy(l) /\ Reaches(l, running, R) => Tidy(m))
      /\ m.pde = l.pde
      /\ m.virtual = l.virtual \ R
      /\ m.entries \subseteq l.entries
      /\ \A e \in l.entries : e[2] \notin R => e \in m.entries
      /\ m.physical \subseteq l.physical
      /\ \A f \in l.physical \ m.physical : \E e \in l.entries :
                e[2] \in R /\ e[1] = TableFor(l, running, e[2]) /\ e[3] = f
      /\ \A t \in Tables(m) : t \in Tables(l)
  BY <1>1, ReleasePagesOK
<1> HIDE DEF m, R, l
<1>3. Extends(k, m)
  BY <1>1, <1>2 DEF Extends
<1>4. QED
  BY <1>1, <1>2, <1>3 DEF l, m, R

\* A page that a directory reaches stays where it is as long as its entries do.
LEMMA StaysReached ==
  ASSUME NEW k, KernelOK(k), NEW m, KernelOK(m), NEW d \in Directories, NEW x,
         \A t \in Further : k.pde[d][t] # None => m.pde[d][t] = k.pde[d][t],
         \A e \in k.entries : e[2] = x => e \in m.entries,
         FrameAt(k, d, x) # None
  PROVE  FrameAt(m, d, x) # None
<1>1. k \in KernelType /\ m \in KernelType
  BY DEF KernelOK
<1>2. <<TableFor(k, d, x), x, FrameAt(k, d, x)>> \in k.entries
  BY <1>1, FrameFound
<1>3. TableFor(k, d, x) # None
  BY <1>1, <1>2, MemoryAssumption DEF KernelType, None, First, KernelFrames
<1>4. TableFor(m, d, x) = TableFor(k, d, x)
  <2>1. x \in KernelFrames
    BY <1>1, <1>2 DEF KernelType
  <2>2. QED
    BY <1>1, <1>3, <2>1, TableForIs
<1>5. QED
  BY <1>1, <1>2, <1>4, FrameFound

-----------------------------------------------------------------------------
\* The frames that are allocated and neither mapped nor one of the kernel's page tables.
Reserved(k) == k.physical \ (Tables(k) \cup {e[3] : e \in k.entries})

\* What live process p has is its own and is what it should be.
Owner(p) ==
  /\ PagesOf(p) \subseteq kernel.virtual
  /\ pageDirectoryAddress[p] \notin Run(pool[p], PoolPages)
  /\ phase[p] = "load" => pageTable[p] = None /\ stack[p] = None
  /\ phase[p] = "user" => /\ stack[p] \in userPhysical
                          /\ pageTable[p] \in userPhysical \cup Reserved(kernel)
                          /\ pageTable[p] # stack[p]

\* Two live processes have neither pages nor frames in common.
Apart(p, q) ==
  /\ PagesOf(p) \cap PagesOf(q) = {}
  /\ phase[p] = "user" /\ phase[q] = "user" =>
       {pageTable[p], stack[p]} \cap {pageTable[q], stack[q]} = {}

\* Every live process has what it should have, for itself.
Owners == /\ \A p \in Live : Owner(p)
          /\ \A p, q \in Live : p # q => Apart(p, q)

\* Without a failure no entry is left behind, and every process finds the pages of its
\* bitmap that exit will release, as far as its directory has page tables for them.
Unfailed ==
  ~failed =>
    /\ Tidy(kernel)
    /\ running # Faulted => \A p \in Live : Mapped(kernel, p, BitmapPages(p))

\* The inductive invariant.
IInv == TypeOK /\ KernelOK(kernel) /\ Owners /\ Unfailed /\ FirstTableIsShared

\* The invariant holds before the first process.
LEMMA InitIInv == Init => IInv
<1> SUFFICES ASSUME Init
             PROVE  IInv
  OBVIOUS
<1>1. TypeOK
  BY MemoryAssumption DEF Init, TypeOK
<1>2. kernel \in KernelType /\ kernel.entries = {} /\ kernel.virtual = {}
  BY DEF Init, KernelType
<1>3. Tables(kernel) = {}
  BY InTables DEF Init
<1>4. KernelOK(kernel) /\ Tidy(kernel)
  BY <1>2, <1>3 DEF KernelOK, Tidy
<1>5. Live = {}
  BY DEF Init, Live
<1>6. Owners /\ Unfailed /\ FirstTableIsShared
  BY <1>4, <1>5 DEF Owners, Unfailed, FirstTableIsShared, Init, Faulted
<1>7. QED
  BY <1>1, <1>4, <1>6 DEF IInv

\* The pages of the bitmap that copyProcess copies are pages of the bitmap.
LEMMA BitmapInPool ==
  ASSUME NEW p, pool[p] \in Int
  PROVE  /\ BitmapPages(p) \subseteq Run(pool[p], PoolPages)
         /\ pool[p] \in BitmapPages(p)
         /\ Run(pool[p], Cardinality(BitmapPages(p))) = BitmapPages(p)
<1> DEFINE c == Ceil(PoolPages, 8)
<1>1. c \in Nat /\ 1 <= c /\ c <= PoolPages
  BY MemoryAssumption DEF Ceil
<1> HIDE DEF c
<1>2. BitmapPages(p) = pool[p] .. (pool[p] + c - 1)
  BY DEF BitmapPages, Run, c
<1>3. Cardinality(BitmapPages(p)) = c
  <2>1. /\ pool[p] + c - 1 \in Int /\ pool[p] <= (pool[p] + c - 1) + 1
        /\ ((pool[p] + c - 1) - pool[p]) + 1 = c
    BY <1>1
  <2>2. QED
    BY <1>2, <2>1, Interval
<1>4. QED
  BY <1>1, <1>2, <1>3, MemoryAssumption DEF Run

\* A process keeps what it has when the kernel's memory grows.
LEMMA GrownOwner ==
  ASSUME Extends(kernel, kernel'), userPhysical \subseteq userPhysical',
         NEW p, Owner(p), phase'[p] = phase[p],
         pageDirectoryAddress'[p] = pageDirectoryAddress[p], pool'[p] = pool[p],
         pageTable'[p] = pageTable[p], stack'[p] = stack[p]
  PROVE  Owner(p)'
<1>1. Reserved(kernel) \subseteq Reserved(kernel')
  BY DEF Reserved, Extends
<1>2. kernel.virtual \subseteq kernel'.virtual
  BY DEF Extends
<1>3. QED
  BY <1>1, <1>2 DEF Owner, PagesOf

\* And it keeps its way to the pages of its bitmap.
LEMMA GrownMapped ==
  ASSUME KernelOK(kernel), KernelOK(kernel'), Extends(kernel, kernel'),
         NEW p \in Directories, Owner(p), pool[p] \in Int, pool'[p] = pool[p],
         \A t \in Further : kernel'.pde[p][t] = kernel.pde[p][t],
         Mapped(kernel, p, BitmapPages(p))
  PROVE  Mapped(kernel', p, BitmapPages(p)')
<1>1. BitmapPages(p)' = BitmapPages(p)
  BY DEF BitmapPages
<1>2. SUFFICES ASSUME NEW x \in BitmapPages(p), TableFor(kernel', p, x) # None
               PROVE  FrameAt(kernel', p, x) # None
  BY <1>1 DEF Mapped
<1>3. x \in kernel.virtual
  BY BitmapInPool DEF Owner, PagesOf
<1>4. \A e \in kernel.entries : e[2] = x => e \in kernel'.entries
  BY <1>3 DEF Extends
<1>5. kernel \in KernelType /\ kernel' \in KernelType /\ x \in KernelFrames
  BY <1>3 DEF KernelOK, KernelType
<1>6. TableFor(kernel, p, x) = TableFor(kernel', p, x)
  BY <1>5, TableForIs
<1>7. FrameAt(kernel, p, x) # None
  BY <1>2, <1>6 DEF Mapped
<1>8. QED
  BY <1>4, <1>7, StaysReached

\* The creation of process p keeps the invariant, whatever becomes of p.
LEMMA NewProcessIInv ==
  ASSUME IInv, NEW p \in Processes \ {running}, phase[p] = "free", NEW new, NEW parent, NEW ph,
         NEW table, NEW page, NewProcess(p, new, parent, ph, table, page),
         KernelOK(kernel'), Extends(kernel, kernel'), Tidy(kernel) => Tidy(kernel'),
         \A d \in Directories \ {p} : Keeps(kernel, kernel', d),
         UNCHANGED running, running \in Processes \cup {0},
         userPhysical \subseteq userPhysical', userPhysical' \subseteq UserFrames,
         ph \in {"load", "user", "noload", "nocopy"}, parent \in Processes \cup {0},
         new.directory \in KernelFrames \cup {None}, new.pool \in KernelFrames \cup {None},
         table \in UserFrames \cup {None}, page \in UserFrames \cup {None},
         ph \in {"load", "user"} =>
           /\ new.directory \in kernel'.virtual \ kernel.virtual
           /\ Run(new.pool, PoolPages) \subseteq kernel'.virtual \ kernel.virtual
           /\ new.pool \in KernelFrames
           /\ new.directory \notin Run(new.pool, PoolPages)
           /\ Mapped(kernel', p, Run(new.pool, PoolPages)),
         ph = "load" => table = None /\ page = None,
         ph = "user" => {table, page} \subseteq userPhysical' \ userPhysical /\ table # page,
         ph \in {"load", "user"} /\ running \in Live =>
           Mapped(kernel', running, BitmapPages(running))
  PROVE  IInv'
<1>1. /\ TypeOK /\ KernelOK(kernel) /\ Unfailed
      /\ phase' = [phase EXCEPT ![p] = ph]
      /\ parentPid' = [parentPid EXCEPT ![p] = parent]
      /\ pageDirectoryAddress' = [pageDirectoryAddress EXCEPT ![p] = new.directory]
      /\ pool' = [pool EXCEPT ![p] = new.pool]
      /\ pageTable' = [pageTable EXCEPT ![p] = table]
      /\ stack' = [stack EXCEPT ![p] = page]
      /\ failed' = (failed \/ ph \in {"noload", "nocopy"})
      /\ \A q \in Live : Owner(q)
      /\ \A q, r \in Live : q # r => Apart(q, r)
  BY DEF IInv, Owners, NewProcess
<1>2. TypeOK'
  <2>1. kernel' \in KernelType
    BY DEF KernelOK
  <2>2. /\ kernel'.physical \subseteq KernelFrames
        /\ kernel'.virtual \subseteq KernelFrames
        /\ kernel'.entries \subseteq ({First} \cup KernelFrames) \X KernelFrames \X KernelFrames
        /\ kernel'.pde \in [Directories -> [Further -> KernelFrames \cup {None}]]
    BY <2>1 DEF KernelType
  <2>3. phase' \in [Processes -> {"free", "load", "user", "noload", "nocopy", "zombie"}]
    BY <1>1 DEF TypeOK
  <2>4. parentPid' \in [Processes -> Processes \cup {0}]
    BY <1>1 DEF TypeOK
  <2>5. pageDirectoryAddress' \in [Processes -> KernelFrames \cup {None}]
        /\ pool' \in [Processes -> KernelFrames \cup {None}]
    BY <1>1 DEF TypeOK
  <2>6. /\ pageTable' \in [Processes -> Frames \cup {None}]
        /\ stack' \in [Processes -> UserFrames \cup {None}]
    BY <1>1 DEF TypeOK, Frames
  <2>7. failed' \in BOOLEAN /\ running' \in Processes \cup {0, Stopped, Faulted}
    BY <1>1 DEF TypeOK
  <2>8. QED
    BY <2>2, <2>3, <2>4, <2>5, <2>6, <2>7 DEF TypeOK
<1>3. \A q \in Processes \ {p} :
         /\ phase'[q] = phase[q] /\ pool'[q] = pool[q] /\ pageTable'[q] = pageTable[q]
         /\ pageDirectoryAddress'[q] = pageDirectoryAddress[q] /\ stack'[q] = stack[q]
  BY <1>1 DEF TypeOK
<1>4. /\ phase'[p] = ph /\ pool'[p] = new.pool /\ pageTable'[p] = table
      /\ pageDirectoryAddress'[p] = new.directory /\ stack'[p] = page
  BY <1>1 DEF TypeOK
<1>5. /\ p \notin Live /\ Live \subseteq Processes \ {p}
      /\ Live' \subseteq Live \cup {p}
      /\ p \in Live' => ph \in {"load", "user"}
  BY <1>3, <1>4 DEF Live
<1>6. \A q \in Live : Owner(q)'
  BY <1>1, <1>3, <1>5, GrownOwner
<1>7. p \in Live' => Owner(p)'
  BY <1>4, <1>5 DEF Owner, PagesOf
<1>8. \A q, r \in Live : q # r => Apart(q, r)'
  BY <1>1, <1>3, <1>5, SMTT(30) DEF Apart, PagesOf
<1>9. ASSUME p \in Live', NEW q \in Live
      PROVE  Apart(p, q)' /\ Apart(q, p)'
  <2>1. Owner(q) /\ q \in Processes \ {p} /\ ph \in {"load", "user"}
    BY <1>1, <1>5, <1>9
  <2>2. PagesOf(p)' \cap PagesOf(q)' = {}
    BY <1>3, <1>4, <2>1 DEF PagesOf, Owner
  <2>3. phase'[p] = "user" /\ phase'[q] = "user" =>
          {pageTable'[p], stack'[p]} \cap {pageTable'[q], stack'[q]} = {}
    <3>1. SUFFICES ASSUME phase'[p] = "user", phase'[q] = "user"
                   PROVE  {table, page} \cap {pageTable[q], stack[q]} = {}
      BY <1>3, <1>4, <2>1
    <3>2. stack[q] \in userPhysical /\ pageTable[q] \in userPhysical \cup KernelFrames
      BY <1>1, <1>3, <2>1, <3>1 DEF Owner, Reserved, TypeOK
    <3>3. {table, page} \subseteq UserFrames \ userPhysical
      BY <1>4, <3>1
    <3>4. UserFrames \cap KernelFrames = {}
      BY MemoryAssumption DEF UserFrames, KernelFrames
    <3>5. QED
      BY <3>2, <3>3, <3>4
  <2>4. QED
    BY <2>2, <2>3 DEF Apart
<1>10. Owners'
  BY <1>5, <1>6, <1>7, <1>8, <1>9 DEF Owners
<1>11. Unfailed'
  <2> SUFFICES ASSUME ~failed', NEW q \in Live'
               PROVE  Mapped(kernel', q, BitmapPages(q)')
    BY <1>1 DEF Unfailed
  <2>1. ~failed /\ ph \in {"load", "user"}
    BY <1>1
  <2>2. CASE q = p
    <3>1. pool'[p] \in Int /\ pool'[p] = new.pool
      BY <1>4, <2>1, MemoryAssumption DEF KernelFrames
    <3>2. BitmapPages(p)' \subseteq Run(new.pool, PoolPages)
      BY <3>1, MemoryAssumption, SMTT(30) DEF BitmapPages, Ceil, Run
    <3>3. QED
      BY <2>1, <2>2, <3>2 DEF Mapped
  <2>3. CASE q = running
    <3>1. q \in Live /\ pool'[q] = pool[q]
      BY <1>3, <1>5, <2>3
    <3>2. BitmapPages(q)' = BitmapPages(q)
      BY <3>1 DEF BitmapPages
    <3>3. QED
      BY <2>1, <2>3, <3>1, <3>2
  <2>4. CASE q \notin {p, running}
    <3>1. q \in Live /\ pool'[q] = pool[q] /\ q \in Directories \ {p}
      BY <1>3, <1>5, <2>4 DEF Directories
    <3>2. (\A t \in Further : kernel'.pde[q][t] = kernel.pde[q][t]) /\ running # Faulted
      BY <2>4, <3>1, MemoryAssumption DEF Faulted, Keeps
    <3>3. Mapped(kernel, q, BitmapPages(q))
      BY <1>1, <2>1, <3>1, <3>2 DEF Unfailed
    <3>4. pool[q] \in Int /\ Owner(q)
      <4>1. pool[q] \in KernelFrames \cup {None}
        BY <1>1, <3>1, <1>5 DEF TypeOK
      <4>2. QED
        BY <1>1, <3>1, <4>1, MemoryAssumption DEF KernelFrames, None
    <3>5. QED
      BY <1>1, <3>1, <3>2, <3>3, <3>4, GrownMapped
  <2>5. QED
    BY <2>2, <2>3, <2>4
<1>12. FirstTableIsShared'
  BY MemoryAssumption DEF FirstTableIsShared, Faulted
<1>13. QED
  BY <1>2, <1>10, <1>11, <1>12 DEF IInv

\* executeProcess keeps the invariant.
LEMMA ExecuteProcessIInv == IInv /\ ExecuteProcess => IInv'
<1> SUFFICES ASSUME IInv, ExecuteProcess
             PROVE  IInv'
  OBVIOUS
<1>1. PICK p \in AllocatePCB : \E new \in Creation(p) :
        /\ NewProcess(p, new, 0, IF Created(new) THEN "load" ELSE "noload", None, None)
        /\ kernel' = new.mem
  BY DEF ExecuteProcess
<1>2. PICK new \in Creation(p) :
        /\ NewProcess(p, new, 0, IF Created(new) THEN "load" ELSE "noload", None, None)
        /\ kernel' = new.mem
  BY <1>1
<1>3. running = 0 /\ running' = running /\ userPhysical' = userPhysical
  BY DEF ExecuteProcess
<1>4. /\ p \in Processes \ {running} /\ phase[p] = "free"
      /\ running \in Directories /\ running \notin Live
  BY <1>3, MemoryAssumption DEF AllocatePCB, Directories, Live
<1>5. KernelOK(kernel) /\ userPhysical \subseteq UserFrames
  BY DEF IInv, TypeOK
<1>6. /\ KernelOK(new.mem) /\ Extends(kernel, new.mem) /\ (Tidy(kernel) => Tidy(new.mem))
      /\ \A d \in Directories \ {p} : Keeps(kernel, new.mem, d)
      /\ new.directory \in KernelFrames \cup {None}
      /\ new.pool \in KernelFrames \cup {None}
      /\ Created(new) =>
           /\ new.directory \in new.mem.virtual \ kernel.virtual
           /\ Run(new.pool, PoolPages) \subseteq new.mem.virtual \ kernel.virtual
           /\ new.directory \notin Run(new.pool, PoolPages)
           /\ Mapped(new.mem, p, Run(new.pool, PoolPages))
  BY <1>4, <1>5, CreationOK
<1> DEFINE ph == IF Created(new) THEN "load" ELSE "noload"
<1>7. ph = "load" => Created(new) /\ new.pool \in KernelFrames
  BY <1>6 DEF Created
<1>8. ph \in {"load", "noload"}
  OBVIOUS
<1> HIDE DEF ph
<1>9. NewProcess(p, new, 0, ph, None, None)
  BY <1>2 DEF ph
<1>10. QED
  BY <1>2, <1>3, <1>4, <1>5, <1>6, <1>7, <1>8, <1>9, NewProcessIInv

\* fork keeps the invariant, wherever it stops.
LEMMA ForkIInv == IInv /\ Fork => IInv'
<1> SUFFICES ASSUME IInv, Fork
             PROVE  IInv'
  OBVIOUS
<1>1. PICK p \in AllocatePCB : \E new \in Creation(p) : \E buffer \in Buffers(new) :
        /\ ~ForkFaults(p, new, buffer)
        /\ \/ ForkNoLoad(p, new)
           \/ ForkNoBuffer(p, new, buffer)
           \/ ForkNoFrames(p, new, buffer)
           \/ ForkCopies(p, new, buffer)
  BY DEF Fork
<1>2. PICK new \in Creation(p) : \E buffer \in Buffers(new) :
        /\ ~ForkFaults(p, new, buffer)
        /\ \/ ForkNoLoad(p, new)
           \/ ForkNoBuffer(p, new, buffer)
           \/ ForkNoFrames(p, new, buffer)
           \/ ForkCopies(p, new, buffer)
  BY <1>1
<1>3. PICK buffer \in Buffers(new) :
        /\ ~ForkFaults(p, new, buffer)
        /\ \/ ForkNoLoad(p, new)
           \/ ForkNoBuffer(p, new, buffer)
           \/ ForkNoFrames(p, new, buffer)
           \/ ForkCopies(p, new, buffer)
  BY <1>2
<1>4. /\ running' = running /\ running \in Processes /\ running \in Live
      /\ p \in Processes \ {running} /\ phase[p] = "free" /\ running \in Directories
  BY MemoryAssumption DEF Fork, IInv, TypeOK, Stopped, Faulted, AllocatePCB, Directories, Live
<1>5. /\ KernelOK(kernel) /\ userPhysical \subseteq UserFrames /\ Owner(running)
      /\ pool[running] \in KernelFrames \cup {None}
  BY <1>4 DEF IInv, TypeOK, Owners
<1>6. /\ KernelOK(new.mem) /\ Extends(kernel, new.mem) /\ (Tidy(kernel) => Tidy(new.mem))
      /\ \A d \in Directories \ {p} : Keeps(kernel, new.mem, d)
      /\ new.directory \in KernelFrames \cup {None}
      /\ new.pool \in KernelFrames \cup {None}
      /\ Created(new) =>
           /\ new.directory \in new.mem.virtual \ kernel.virtual
           /\ Run(new.pool, PoolPages) \subseteq new.mem.virtual \ kernel.virtual
           /\ new.directory \notin Run(new.pool, PoolPages)
           /\ Mapped(new.mem, p, Run(new.pool, PoolPages))
  BY <1>4, <1>5, CreationOK
<1>7. buffer = AllocatePages(new.mem, 1)
  BY DEF Buffers
<1>8. /\ KernelOK(buffer.mem) /\ Extends(new.mem, buffer.mem)
      /\ (Tidy(new.mem) => Tidy(buffer.mem))
      /\ \A d \in Directories : Keeps(new.mem, buffer.mem, d)
  <2>1. 1 \in Nat \ {0}
    OBVIOUS
  <2>2. QED
    BY <1>4, <1>6, <1>7, <2>1, AllocatePagesOK
<1>9. /\ Extends(kernel, buffer.mem) /\ (Tidy(kernel) => Tidy(buffer.mem))
      /\ \A d \in Directories \ {p} : Keeps(kernel, buffer.mem, d)
  <2>1. \A d \in Directories \ {p} : Keeps(kernel, buffer.mem, d)
    BY <1>6, <1>8 DEF Keeps
  <2>2. QED
    BY <1>6, <1>8, <2>1, ExtendsTwice
<1>10. FreeUserFrames \subseteq UserFrames \ userPhysical /\ FreeUserFrames \subseteq Frames
  BY DEF FreeUserFrames, Frames
<1>11. CASE ForkNoLoad(p, new)
  <2>1. /\ NewProcess(p, new, 0, "noload", None, None)
        /\ kernel' = new.mem /\ userPhysical' = userPhysical
    BY <1>11 DEF ForkNoLoad
  <2>2. QED
    BY <1>4, <1>5, <1>6, <2>1, NewProcessIInv
<1>12. CASE ForkNoBuffer(p, new, buffer)
  <2>1. /\ NewProcess(p, new, running, "nocopy", None, None)
        /\ kernel' = buffer.mem /\ userPhysical' = userPhysical
    BY <1>12 DEF ForkNoBuffer
  <2>2. QED
    BY <1>4, <1>5, <1>6, <1>8, <1>9, <2>1, NewProcessIInv
<1>13. CASE ForkNoFrames(p, new, buffer)
  <2>1. /\ NewProcess(p, new, running, "nocopy", Lowest(FreeUserFrames), None)
        /\ kernel' = buffer.mem /\ userPhysical' = UserFrames
    BY <1>13 DEF ForkNoFrames
  <2>2. Lowest(FreeUserFrames) \in UserFrames \cup {None}
    BY <1>10, LowestElement
  <2>3. QED
    BY <1>4, <1>5, <1>6, <1>8, <1>9, <2>1, <2>2, NewProcessIInv
<1>14. CASE ForkCopies(p, new, buffer)
  <2> DEFINE table == Lowest(FreeUserFrames)
             page == Lowest(FreeUserFrames \ {table})
             m == ReleasePages(buffer.mem, buffer.address, 1)
  <2>1. /\ NewProcess(p, new, running, "user", table, page)
        /\ kernel' = m /\ userPhysical' = userPhysical \cup {table, page}
        /\ buffer.address # None /\ Created(new) /\ Cardinality(FreeUserFrames) >= 2
    BY <1>14 DEF ForkCopies
  <2>2. table \in FreeUserFrames /\ page \in FreeUserFrames /\ table # page
    <3>1. IsFiniteSet(FreeUserFrames) /\ Cardinality(FreeUserFrames) \in Nat
      BY <1>10, FramesFinite
    <3>2. FreeUserFrames # {}
      BY <2>1, FS_EmptySet
    <3>3. table \in FreeUserFrames
      BY <1>10, <3>2, LowestElement
    <3> HIDE DEF table
    <3>4. FreeUserFrames \ {table} # {}
      <4>1. Cardinality(FreeUserFrames \ {table}) = Cardinality(FreeUserFrames) - 1
        BY <3>1, <3>3, FS_RemoveElement
      <4>2. QED
        BY <2>1, <3>1, <4>1, FS_EmptySet
    <3>5. page \in FreeUserFrames \ {table}
      BY <1>10, <3>4, LowestElement
    <3>6. QED
      BY <3>3, <3>5
  <2> HIDE DEF table, page
  <2>3. /\ KernelOK(m) /\ Extends(new.mem, m) /\ (Tidy(new.mem) => Tidy(m))
        /\ m.pde = buffer.mem.pde
    BY <1>4, <1>6, <1>7, <2>1, BufferReleased
  <2> HIDE DEF m
  <2>4. Extends(kernel, m)
    BY <1>6, <2>3, ExtendsTwice
  <2>5. Reaches(m, running, BitmapPages(running))
    <3>1. SUFFICES ASSUME NEW x \in BitmapPages(running)
                   PROVE  FrameAt(m, running, x) # None
      BY DEF Reaches
    <3>2. FrameAt(new.mem, running, x) # None
      BY <1>3, <2>1 DEF ForkFaults, CopyFaults, Reaches
    <3>3. pool[running] \in Int
      BY <1>5, MemoryAssumption DEF KernelFrames, None
    <3>4. x \in new.mem.virtual
      BY <1>5, <1>6, <3>3, BitmapInPool DEF Owner, PagesOf, Extends
    <3>5. \A e \in new.mem.entries : e[2] = x => e \in m.entries
      BY <2>3, <3>4 DEF Extends
    <3>6. \A t \in Further :
            new.mem.pde[running][t] # None => m.pde[running][t] = new.mem.pde[running][t]
      BY <1>4, <1>8, <2>3 DEF Keeps
    <3>7. QED
      BY <1>4, <1>6, <2>3, <3>2, <3>5, <3>6, StaysReached
  <2>6. \A t \in Further : m.pde[p][t] = new.mem.pde[p][t]
    BY <1>4, <1>8, <2>3 DEF Directories, Keeps
  <2>7. Mapped(m, p, Run(new.pool, PoolPages))
    <3> SUFFICES ASSUME NEW x \in Run(new.pool, PoolPages), TableFor(m, p, x) # None
                 PROVE  FrameAt(m, p, x) # None
      BY DEF Mapped
    <3>1. /\ m \in KernelType /\ new.mem \in KernelType /\ p \in Directories
          /\ x \in new.mem.virtual /\ x \in KernelFrames
      <4>1. m \in KernelType /\ new.mem \in KernelType /\ x \in new.mem.virtual
        BY <1>6, <2>1, <2>3 DEF KernelOK
      <4>2. p \in Directories
        BY <1>4 DEF Directories
      <4>3. QED
        BY <4>1, <4>2 DEF KernelType
    <3>2. TableFor(new.mem, p, x) = TableFor(m, p, x)
      BY <2>6, <3>1, TableForIs
    <3>3. FrameAt(new.mem, p, x) # None
      BY <1>6, <2>1, <3>2 DEF Mapped
    <3>4. \A e \in new.mem.entries : e[2] = x => e \in m.entries
      BY <2>3, <3>1 DEF Extends
    <3>5. QED
      BY <1>6, <2>3, <2>6, <3>1, <3>3, <3>4, StaysReached
  <2>8. /\ new.directory \in m.virtual \ kernel.virtual
        /\ Run(new.pool, PoolPages) \subseteq m.virtual \ kernel.virtual
        /\ new.pool \in KernelFrames
        /\ new.directory \notin Run(new.pool, PoolPages)
    BY <1>6, <2>1, <2>3 DEF Extends, Created
  <2>9. /\ \A d \in Directories \ {p} : Keeps(kernel, m, d)
        /\ Mapped(m, running, BitmapPages(running))
    BY <1>9, <2>3, <2>5 DEF Keeps, Mapped, Reaches
  <2>10. /\ {table, page} \subseteq userPhysical' \ userPhysical
         /\ userPhysical' \subseteq UserFrames
         /\ table \in UserFrames /\ page \in UserFrames
    BY <1>5, <1>10, <2>1, <2>2
  <2>11. Tidy(kernel) => Tidy(m)
    BY <1>6, <2>3
  <2>12. QED
    BY <1>4, <1>6, <2>1, <2>2, <2>3, <2>4, <2>5, <2>7, <2>8, <2>9, <2>10, <2>11, NewProcessIInv
<1>15. QED
  BY <1>3, <1>11, <1>12, <1>13, <1>14

\* What stays of the invariant of the processes when none of their variables changes
\* and the kernel's memory grows.
LEMMA GrownOwners ==
  ASSUME Owners, Extends(kernel, kernel'), userPhysical \subseteq userPhysical',
         UNCHANGED <<phase, owned>>
  PROVE  Owners'
<1>1. /\ UNCHANGED <<phase, pageDirectoryAddress, pool, pageTable, stack>>
      /\ Live' = Live
  BY DEF owned, Live
<1>2. \A p \in Live : Owner(p)'
  BY <1>1, GrownOwner DEF Owners
<1>3. \A p, q \in Live : p # q => Apart(p, q)'
  BY <1>1 DEF Owners, Apart, PagesOf
<1>4. QED
  BY <1>1, <1>2, <1>3 DEF Owners

\* load_process keeps the invariant, also when it halts the machine.
LEMMA LoadProcessIInv == IInv /\ LoadProcess => IInv'
<1> SUFFICES ASSUME IInv, LoadProcess
             PROVE  IInv'
  OBVIOUS
<1> DEFINE page == Lowest(FreeUserFrames)
           table == Lowest(KernelFrames \ kernel.physical)
<1>1. /\ running > 0 /\ phase[running] = "load"
      /\ userPhysical' = userPhysical \cup ({page} \ {None})
      /\ IF page # None /\ table # None
         THEN /\ kernel' = [kernel EXCEPT !.physical = @ \cup {table}]
              /\ pageTable' = [pageTable EXCEPT ![running] = table]
              /\ stack' = [stack EXCEPT ![running] = page]
              /\ phase' = [phase EXCEPT ![running] = "user"]
              /\ UNCHANGED <<running, failed>>
         ELSE /\ running' = Stopped
              /\ failed' = TRUE
              /\ UNCHANGED <<kernel, pageTable, stack, phase>>
      /\ UNCHANGED <<parentPid, pageDirectoryAddress, pool>>
  BY DEF LoadProcess
<1>2. page # None => page \in UserFrames \ userPhysical
  <2>1. FreeUserFrames \subseteq Frames
    BY DEF FreeUserFrames, Frames
  <2>2. QED
    BY <2>1, LowestElement DEF FreeUserFrames
<1>3. table # None => table \in KernelFrames \ kernel.physical
  <2>1. KernelFrames \ kernel.physical \subseteq Frames
    BY DEF Frames
  <2>2. QED
    BY <2>1, LowestElement
<1> HIDE DEF page, table
<1>4. /\ TypeOK /\ KernelOK(kernel) /\ Owners /\ Unfailed /\ FirstTableIsShared
      /\ running \in Processes /\ running \in Live /\ Owner(running)
  BY <1>1, MemoryAssumption DEF IInv, TypeOK, Stopped, Faulted, Live, Owners
<1>5. userPhysical' \subseteq UserFrames /\ userPhysical \subseteq userPhysical'
  BY <1>1, <1>2, <1>4 DEF TypeOK
<1>6. CASE page # None /\ table # None
  <2>1. /\ kernel' = [kernel EXCEPT !.physical = @ \cup {table}]
        /\ pageTable' = [pageTable EXCEPT ![running] = table]
        /\ stack' = [stack EXCEPT ![running] = page]
        /\ phase' = [phase EXCEPT ![running] = "user"]
        /\ UNCHANGED <<running, failed, parentPid, pageDirectoryAddress, pool>>
    BY <1>1, <1>6
  <2>2. /\ kernel' \in KernelType /\ kernel'.physical = kernel.physical \cup {table}
        /\ kernel'.virtual = kernel.virtual /\ kernel'.entries = kernel.entries
        /\ kernel'.pde = kernel.pde
    BY <1>3, <1>4, <1>6, <2>1 DEF KernelOK, KernelType
  <2>3. Tables(kernel') = Tables(kernel)
    BY <2>2 DEF Tables
  <2>4. KernelOK(kernel') /\ Extends(kernel, kernel') /\ (Tidy(kernel) => Tidy(kernel'))
    BY <1>4, <2>2, <2>3 DEF KernelOK, Extends, Tidy
  <2>5. table \in Reserved(kernel')
    BY <1>3, <1>4, <1>6, <2>2, <2>3 DEF KernelOK, Reserved
  <2>6. TypeOK'
    <3>1. /\ pageTable' \in [Processes -> Frames \cup {None}]
          /\ stack' \in [Processes -> UserFrames \cup {None}]
          /\ phase' \in [Processes -> {"free", "load", "user", "noload", "nocopy", "zombie"}]
      BY <1>2, <1>3, <1>4, <1>6, <2>1 DEF TypeOK, Frames
    <3>2. /\ kernel'.physical \subseteq KernelFrames
          /\ kernel'.virtual \subseteq KernelFrames
          /\ kernel'.entries \subseteq ({First} \cup KernelFrames) \X KernelFrames \X KernelFrames
          /\ kernel'.pde \in [Directories -> [Further -> KernelFrames \cup {None}]]
      BY <2>2 DEF KernelType
    <3>3. QED
      BY <1>4, <1>5, <2>1, <3>1, <3>2 DEF TypeOK
  <2>7. /\ \A p \in Processes \ {running} : /\ phase'[p] = phase[p] /\ pageTable'[p] = pageTable[p]
                                            /\ stack'[p] = stack[p]
        /\ phase'[running] = "user" /\ pageTable'[running] = table /\ stack'[running] = page
        /\ Live' = Live /\ Live \subseteq Processes
    BY <1>4, <2>1 DEF TypeOK, Live
  <2>8. ASSUME NEW r \in {running}
        PROVE  Owner(r)'
    <3>1. PagesOf(running) \subseteq kernel'.virtual
          /\ pageDirectoryAddress[running] \notin Run(pool[running], PoolPages)
      BY <1>4, <2>2 DEF Owner
    <3>2. page \in userPhysical' /\ table # page
      BY <1>1, <1>2, <1>3, <1>6, MemoryAssumption DEF UserFrames, KernelFrames
    <3>3. QED
      BY <2>1, <2>5, <2>7, <3>1, <3>2 DEF Owner, PagesOf
  <2>9. \A p \in Live \ {running} : Owner(p)'
    BY <1>4, <1>5, <2>1, <2>4, <2>7, GrownOwner DEF Owners
  <2>10. ASSUME NEW p \in Live \ {running}, NEW r \in {running}
         PROVE  Apart(p, r)' /\ Apart(r, p)'
    <3>1. Owner(p) /\ Apart(p, running) /\ p \in Processes \ {running}
      BY <1>4, <2>7 DEF Owners
    <3>2. phase[p] = "user" => {pageTable[p], stack[p]} \cap {table, page} = {}
      BY <1>2, <1>3, <1>4, <1>6, <3>1, MemoryAssumption
        DEF Owner, Reserved, UserFrames, KernelFrames, TypeOK
    <3>3. QED
      BY <2>1, <2>7, <3>1, <3>2 DEF Apart, PagesOf
  <2>11. \A p, q \in Live \ {running} : p # q => Apart(p, q)'
    BY <1>4, <2>1, <2>7 DEF Owners, Apart, PagesOf
  <2>12. Owners'
    <3>1. \A p \in Live : Owner(p)'
      BY <2>8, <2>9
    <3>2. \A p, q \in Live : p # q => Apart(p, q)'
      BY <2>10, <2>11
    <3>3. QED
      BY <2>7, <3>1, <3>2 DEF Owners
  <2>13. Unfailed'
    <3>1. \A d, x : FrameAt(kernel', d, x) = FrameAt(kernel, d, x)
      BY <2>2 DEF FrameAt, TableFor
    <3>2. \A p \in Live : BitmapPages(p)' = BitmapPages(p)
      BY <2>1 DEF BitmapPages
    <3>3. QED
      <4>1. \A d, x : TableFor(kernel', d, x) = TableFor(kernel, d, x)
        BY <2>2 DEF TableFor
      <4>2. \A p \in Live : Mapped(kernel', p, BitmapPages(p)') <=> Mapped(kernel, p, BitmapPages(p))
        BY <3>1, <3>2, <4>1 DEF Mapped
      <4>3. QED
        BY <1>4, <2>1, <2>4, <2>7, <4>2 DEF Unfailed
  <2>14. FirstTableIsShared'
    BY <1>4, <2>1, MemoryAssumption DEF FirstTableIsShared, Faulted
  <2>15. QED
    BY <2>4, <2>6, <2>12, <2>13, <2>14 DEF IInv
<1>7. CASE ~(page # None /\ table # None)
  <2>1. /\ running' = Stopped /\ failed' = TRUE
        /\ UNCHANGED <<kernel, pageTable, stack, phase, parentPid, pageDirectoryAddress, pool>>
    BY <1>1, <1>7
  <2>2. TypeOK'
    BY <1>4, <1>5, <2>1 DEF TypeOK
  <2>3. Extends(kernel, kernel')
    BY <2>1 DEF Extends
  <2>4. Owners'
    BY <1>4, <1>5, <2>1, <2>3, GrownOwners DEF owned
  <2>5. KernelOK(kernel')
    BY <1>4, <2>1
  <2>6. QED
    BY <2>1, <2>2, <2>4, <2>5 DEF IInv, Unfailed, FirstTableIsShared, Stopped, Faulted
<1>8. QED
  BY <1>6, <1>7

\* schedule() finds the page directory of every process that is alive, or a further
\* page table has been made.
LEMMA SwitchFaults ==
  ASSUME NEW mem, KernelOK(mem), running \in Processes \cup {0}, SwitchTo(mem),
         \A p \in Live \ {running} : pageDirectoryAddress[p] \in mem.virtual
  PROVE  /\ running' \in Processes \cup {0, Stopped, Faulted}
         /\ running' = Faulted => Tables(mem) # {}
<1>1. CASE running # 0 /\ running' = 0
  BY <1>1 DEF Faulted
<1>2. ASSUME NEW p \in Processes \ {running}, phase[p] \in {"load", "user"},
             running' = IF Reaches(mem, running, {pageDirectoryAddress[p]}) THEN p ELSE Faulted
      PROVE  /\ running' \in Processes \cup {0, Stopped, Faulted}
             /\ running' = Faulted => Tables(mem) # {}
  <2>1. p \in Live /\ p # Faulted
    BY <1>2, MemoryAssumption DEF Live, Faulted
  <2>2. Tables(mem) = {} => Reaches(mem, running, {pageDirectoryAddress[p]})
    <3>1. pageDirectoryAddress[p] \in mem.virtual
      BY <1>2, <2>1
    <3>2. Tables(mem) = {} => FrameAt(mem, running, pageDirectoryAddress[p]) # None
      BY <3>1, FirstTableReaches
    <3>3. QED
      BY <3>2 DEF Reaches
  <2>3. QED
    BY <1>2, <2>1, <2>2
<1>3. CASE running' = Stopped
  BY <1>3 DEF Stopped, Faulted
<1>4. QED
  BY <1>1, <1>2, <1>3 DEF SwitchTo

\* A switch keeps the invariant.
LEMMA DispatchIInv == IInv /\ Dispatch => IInv'
<1> SUFFICES ASSUME IInv, Dispatch
             PROVE  IInv'
  OBVIOUS
<1>1. /\ running \in Processes \cup {0} /\ SwitchTo(kernel)
      /\ UNCHANGED <<kernel, userPhysical, phase, parentPid, owned, failed>>
      /\ UNCHANGED <<pageDirectoryAddress, pool, pageTable, stack>>
      /\ TypeOK /\ KernelOK(kernel) /\ Owners /\ Unfailed /\ running # Faulted
  BY MemoryAssumption DEF Dispatch, IInv, TypeOK, owned, Faulted
<1>2. \A p \in Live : pageDirectoryAddress[p] \in kernel.virtual
  BY <1>1 DEF Owners, Owner, PagesOf
<1>3. /\ running' \in Processes \cup {0, Stopped, Faulted}
      /\ running' = Faulted => Tables(kernel) # {}
  BY <1>1, <1>2, SwitchFaults
<1>4. TypeOK'
  BY <1>1, <1>3 DEF TypeOK
<1>5. Owners'
  <2>1. Extends(kernel, kernel')
    BY <1>1 DEF Extends
  <2>2. QED
    BY <1>1, <2>1, GrownOwners
<1>6. KernelOK(kernel')
  BY <1>1
<1>7. Unfailed'
  BY <1>1 DEF Unfailed, Live, BitmapPages
<1>8. FirstTableIsShared'
  BY <1>1, <1>3 DEF FirstTableIsShared, FurtherTables, Tables
<1>9. QED
  BY <1>4, <1>5, <1>6, <1>7, <1>8 DEF IInv

\* wait keeps the invariant: it changes no live process.
LEMMA ReapIInv == IInv /\ Reap => IInv'
<1> SUFFICES ASSUME IInv, Reap
             PROVE  IInv'
  OBVIOUS
<1>1. PICK p \in Processes :
        /\ phase[p] \in {"zombie", "nocopy"}
        /\ phase' = [phase EXCEPT ![p] = "free"]
  BY DEF Reap
<1>2. /\ UNCHANGED <<kernel, userPhysical, running, parentPid, failed>>
      /\ UNCHANGED <<pageDirectoryAddress, pool, pageTable, stack>>
      /\ TypeOK /\ KernelOK(kernel) /\ Owners /\ Unfailed /\ FirstTableIsShared
  BY DEF Reap, IInv, owned
<1>3. \A q \in Processes \ {p} : phase'[q] = phase[q]
  BY <1>1, <1>2 DEF TypeOK
<1>4. Live' = Live /\ p \notin Live /\ Live \subseteq Processes
  BY <1>1, <1>2, <1>3 DEF Live, TypeOK
<1>5. TypeOK'
  BY <1>1, <1>2 DEF TypeOK
<1>6. Owners'
  BY <1>2, <1>3, <1>4 DEF Owners, Owner, Apart, PagesOf
<1>7. Unfailed' /\ FirstTableIsShared' /\ KernelOK(kernel')
  BY <1>2, <1>4 DEF Unfailed, FirstTableIsShared, FurtherTables, BitmapPages
<1>8. QED
  BY <1>5, <1>6, <1>7 DEF IInv

\* The machine stops on a page fault, with the kernel's memory as it is then.
LEMMA FaultedIInv ==
  ASSUME IInv, KernelOK(kernel'), Extends(kernel, kernel'), Tidy(kernel) => Tidy(kernel'),
         UNCHANGED <<userPhysical, phase, parentPid, owned, failed>>, running' = Faulted,
         Tables(kernel') # {}
  PROVE  IInv'
<1>1. /\ TypeOK /\ Owners /\ Unfailed
      /\ UNCHANGED <<pageDirectoryAddress, pool, pageTable, stack>>
  BY DEF IInv, owned
<1>2. kernel' \in KernelType
  BY DEF KernelOK
<1>3. TypeOK'
  BY <1>1, <1>2 DEF TypeOK, KernelType
<1>4. Owners'
  BY <1>1, GrownOwners
<1>5. Unfailed'
  BY <1>1 DEF Unfailed
<1>6. FirstTableIsShared'
  BY DEF FirstTableIsShared, FurtherTables, Tables
<1>7. QED
  BY <1>3, <1>4, <1>5, <1>6 DEF IInv

\* A page fault on a kernel page comes with a further page table.
LEMMA FaultIInv == IInv /\ Fault => IInv'
<1> SUFFICES ASSUME IInv, Fault
             PROVE  IInv'
  OBVIOUS
<1>1. /\ running > 0 /\ phase[running] \in {"load", "user"}
      /\ running' = Faulted
      /\ UNCHANGED <<userPhysical, phase, parentPid, owned, failed>>
  BY DEF Fault
<1>2. /\ KernelOK(kernel) /\ running \in Processes /\ running \in Live /\ Owner(running)
      /\ running \in Directories
  BY <1>1, MemoryAssumption DEF IInv, TypeOK, Stopped, Faulted, Live, Owners, Directories
<1>3. pool[running] \in Int
  BY <1>2, MemoryAssumption DEF IInv, TypeOK, KernelFrames, None
<1>4. /\ BitmapPages(running) \subseteq kernel.virtual /\ pool[running] \in kernel.virtual
      /\ pageDirectoryAddress[running] \in kernel.virtual
  BY <1>2, <1>3, BitmapInPool DEF Owner, PagesOf
<1>5. CASE UNCHANGED kernel /\ (LoadFaults \/ ExitFaults)
  <2>1. Tables(kernel) = {} => ~LoadFaults /\ ~ExitFaults
    <3> SUFFICES ASSUME Tables(kernel) = {}
                 PROVE  ~LoadFaults /\ ~ExitFaults
      OBVIOUS
    <3>1. \A x \in kernel.virtual :
            TableFor(kernel, running, x) = First /\ FrameAt(kernel, running, x) # None
      BY <1>2, FirstTableReaches
    <3>2. First # None
      BY DEF First, None
    <3>3. QED
      BY <1>4, <3>1, <3>2 DEF LoadFaults, ExitFaults, Reaches
  <2>2. Extends(kernel, kernel') /\ Tables(kernel') # {} /\ KernelOK(kernel')
    BY <1>2, <1>5, <2>1 DEF Extends
  <2>3. QED
    BY <1>1, <1>5, <2>2, FaultedIInv
<1>6. ASSUME NEW p \in AllocatePCB, NEW new \in Creation(p), NEW buffer \in Buffers(new),
             phase[running] = "user", ForkFaults(p, new, buffer),
             kernel' = IF CopyFaults(new) THEN new.mem ELSE buffer.mem
      PROVE  IInv'
  <2>1. p \in Processes \ {running}
    BY <1>6 DEF AllocatePCB
  <2>2. KernelOK(new.mem) /\ Extends(kernel, new.mem) /\ (Tidy(kernel) => Tidy(new.mem))
    BY <1>2, <2>1, CreationOK
  <2>3. /\ KernelOK(buffer.mem) /\ Extends(new.mem, buffer.mem)
        /\ (Tidy(new.mem) => Tidy(buffer.mem))
        /\ buffer.address # None => buffer.address \in buffer.mem.virtual
    <3>1. 1 \in Nat \ {0} /\ buffer = AllocatePages(new.mem, 1)
      BY DEF Buffers
    <3>2. /\ KernelOK(buffer.mem) /\ Extends(new.mem, buffer.mem)
          /\ (Tidy(new.mem) => Tidy(buffer.mem))
          /\ buffer.address # None =>
               /\ buffer.address \in KernelFrames
               /\ Run(buffer.address, 1) \subseteq buffer.mem.virtual
      BY <1>2, <2>2, <3>1, AllocatePagesOK
    <3>3. QED
      BY <3>2, MemoryAssumption DEF Run, KernelFrames
  <2>4. CASE CopyFaults(new)
    <3>1. Tables(new.mem) = {} => ~CopyFaults(new)
      BY <1>4, <2>2, FirstTableReaches DEF CopyFaults, Reaches, Extends
    <3>2. QED
      BY <1>1, <1>6, <2>2, <2>4, <3>1, FaultedIInv
  <2>5. CASE ~CopyFaults(new)
    <3>1. BufferFaults(p, buffer)
      BY <1>6, <2>5 DEF ForkFaults
    <3>2. Tables(buffer.mem) = {} => ~BufferFaults(p, buffer)
      <4>1. SUFFICES ASSUME Tables(buffer.mem) = {}, buffer.address # None
                     PROVE  FrameAt(buffer.mem, p, buffer.address) # None
        BY DEF BufferFaults, Reaches
      <4>2. QED
        BY <2>3, <4>1, FirstTableReaches
    <3>3. Extends(kernel, buffer.mem) /\ (Tidy(kernel) => Tidy(buffer.mem))
      BY <2>2, <2>3, ExtendsTwice
    <3>4. QED
      BY <1>1, <1>6, <2>3, <2>5, <3>1, <3>2, <3>3, FaultedIInv
  <2>6. QED
    BY <2>4, <2>5
<1>7. QED
  BY <1>5, <1>6 DEF Fault

-----------------------------------------------------------------------------
\* With a number of kernel pages that is a multiple of 8, a frame of the kernel that
\* is released to the users' pool is itself what becomes free, or nothing is.
LEMMA StrayReleaseOfItself ==
  ASSUME KernelPages % 8 = 0, NEW f \in KernelFrames
  PROVE  StrayRelease(f) \subseteq {f}
<1>1. PICK a \in Nat : KernelPages = 8 * a
  BY MemoryAssumption
<1>2. Ceil(KernelPages, 8) = a
  BY <1>1 DEF Ceil
<1>3. CASE (KernelPages - f) % 8 = 0
  <2>1. KernelPages - f \in Nat /\ f \in Int
    BY MemoryAssumption DEF KernelFrames
  <2>2. PICK b \in Nat : KernelPages - f = 8 * b
    BY <1>3, <2>1
  <2>3. (KernelPages - f) \div 8 = b
    BY <2>2
  <2>4. 8 * (a - b) = f
    BY <1>1, <2>1, <2>2
  <2>5. QED
    BY <1>2, <2>3, <2>4 DEF StrayRelease
<1>4. CASE (KernelPages - f) % 8 # 0
  BY <1>4 DEF StrayRelease
<1>5. QED
  BY <1>3, <1>4

\* What exit releases of the kernel's memory is mapped at pages of the process, or is
\* its page table.
LEMMA ExitFrees ==
  ASSUME KernelPages % 8 = 0, IInv, running \in Processes, phase[running] = "user",
         ~ExitFaults, ExitReleases(running)
  PROVE  /\ KernelOK(kernel') /\ (~failed /\ running # Faulted => Tidy(kernel'))
         /\ kernel'.pde = kernel.pde
         /\ kernel'.virtual =
              kernel.virtual \ ({pageDirectoryAddress[running]} \cup BitmapPages(running))
         /\ kernel'.entries \subseteq kernel.entries
         /\ \A e \in kernel.entries : e[2] \notin PagesOf(running) => e \in kernel'.entries
         /\ kernel'.physical \subseteq kernel.physical
         /\ \A f \in kernel.physical \ kernel'.physical :
              f = pageTable[running]
                \/ \E e \in kernel.entries : e[2] \in PagesOf(running) /\ e[3] = f
         /\ FrameAt(kernel, running, pageDirectoryAddress[running])
              \in kernel.physical \ kernel'.physical
         /\ \A t \in Tables(kernel') : t \in Tables(kernel)
<1> DEFINE a == pageDirectoryAddress[running]
           B == BitmapPages(running)
           l == ReleasePages(kernel, a, 1)
           m == ReleasePages(l, pool[running], Cardinality(B))
           stray == IF pageTable[running] \in KernelFrames
                    THEN StrayRelease(pageTable[running]) ELSE {}
<1>1. /\ KernelOK(kernel) /\ Unfailed /\ running \in Live /\ Owner(running)
      /\ pool[running] \in KernelFrames \cup {None}
  BY DEF IInv, TypeOK, Owners, Live
<1>2. /\ pool[running] \in Int
      /\ a \in kernel.virtual /\ kernel.virtual \subseteq KernelFrames
  BY <1>1, MemoryAssumption DEF KernelFrames, None, Owner, PagesOf, KernelOK, KernelType
<1>3. /\ B \subseteq Run(pool[running], PoolPages) /\ Run(pool[running], Cardinality(B)) = B
  BY <1>2, BitmapInPool
<1>4. Run(a, 1) = {a}
  <2>1. a \in Int
    BY <1>2, MemoryAssumption DEF KernelFrames
  <2>2. QED
    BY <2>1 DEF Run
<1>5. a \notin B /\ B \subseteq PagesOf(running) /\ a \in PagesOf(running)
  BY <1>1, <1>3 DEF Owner, PagesOf
<1>6. kernel' = [m EXCEPT !.physical = @ \ stray]
  BY DEF ExitReleases
<1>7. Reaches(kernel, running, {a}) /\ \A x \in B : TableFor(kernel, running, x) # None
  BY DEF ExitFaults
<1> HIDE DEF a, B
<1>8. /\ KernelOK(l) /\ (Tidy(kernel) /\ Reaches(kernel, running, {a}) => Tidy(l))
      /\ l.pde = kernel.pde
      /\ l.virtual = kernel.virtual \ {a}
      /\ l.entries \subseteq kernel.entries
      /\ \A e \in kernel.entries : e[2] # a => e \in l.entries
      /\ l.physical \subseteq kernel.physical
      /\ \A f \in kernel.physical \ l.physical : \E e \in kernel.entries : e[2] = a /\ e[3] = f
      /\ FrameAt(kernel, running, a) \notin l.physical
      /\ \A t \in Tables(l) : t \in Tables(kernel)
  <2>1. LET r == ReleasePages(kernel, a, 1)
        IN /\ KernelOK(r) /\ (Tidy(kernel) /\ Reaches(kernel, running, Run(a, 1)) => Tidy(r))
           /\ r.pde = kernel.pde
           /\ r.virtual = kernel.virtual \ Run(a, 1)
           /\ r.entries \subseteq kernel.entries
           /\ \A e \in kernel.entries : e[2] \notin Run(a, 1) => e \in r.entries
           /\ r.physical \subseteq kernel.physical
           /\ \A f \in kernel.physical \ r.physical : \E e \in kernel.entries :
                e[2] \in Run(a, 1) /\ e[1] = TableFor(kernel, running, e[2]) /\ e[3] = f
           /\ \A x \in Run(a, 1) : FrameAt(kernel, running, x) \notin r.physical
           /\ \A t \in Tables(r) : t \in Tables(kernel)
    BY <1>1, ReleasePagesOK
  <2> HIDE DEF l
  <2>2. QED
    BY <1>4, <2>1 DEF l
<1> HIDE DEF l
<1>9. /\ KernelOK(m) /\ (Tidy(l) /\ Reaches(l, running, B) => Tidy(m))
      /\ m.pde = l.pde
      /\ m.virtual = l.virtual \ B
      /\ m.entries \subseteq l.entries
      /\ \A e \in l.entries : e[2] \notin B => e \in m.entries
      /\ m.physical \subseteq l.physical
      /\ \A f \in l.physical \ m.physical : \E e \in l.entries : e[2] \in B /\ e[3] = f
      /\ \A t \in Tables(m) : t \in Tables(l)
  BY <1>3, <1>8, ReleasePagesOK
<1> HIDE DEF m
<1>10. ASSUME ~failed, running # Faulted
       PROVE  Tidy(m)
  <2>1. Tidy(kernel) /\ Mapped(kernel, running, B) /\ running \in Directories
    BY <1>1, <1>10 DEF Unfailed, B, Directories
  <2>2. ASSUME NEW x \in B
        PROVE  FrameAt(l, running, x) # None
    <3>1. FrameAt(kernel, running, x) # None
      BY <1>7, <2>1 DEF Mapped
    <3>2. \A e \in kernel.entries : e[2] = x => e \in l.entries
      BY <1>5, <1>8
    <3>3. QED
      BY <1>1, <1>8, <2>1, <3>1, <3>2, StaysReached
  <2>3. QED
    BY <1>7, <1>8, <1>9, <2>1, <2>2 DEF Reaches
<1>11. stray \subseteq {pageTable[running]}
  BY StrayReleaseOfItself
<1>12. /\ kernel' \in KernelType
       /\ kernel'.physical = m.physical \ stray /\ kernel'.virtual = m.virtual
       /\ kernel'.entries = m.entries /\ kernel'.pde = m.pde
  <2> HIDE DEF stray
  <2>1. QED
    BY <1>6, <1>9 DEF KernelOK, KernelType
<1>13. Tables(kernel') = Tables(m)
  BY <1>12 DEF Tables
<1>14. pageTable[running] \in KernelFrames =>
         pageTable[running] \notin Tables(kernel) \cup {e[3] : e \in kernel.entries}
  BY <1>1, MemoryAssumption DEF Owner, Reserved, IInv, TypeOK, UserFrames, KernelFrames
<1>15. \A f \in stray : f \notin Tables(m) /\ \A e \in m.entries : e[3] # f
  BY <1>8, <1>9, <1>11, <1>14
<1> HIDE DEF stray
<1>16. KernelOK(kernel') /\ (Tidy(m) => Tidy(kernel'))
  <2>1. Tables(m) \subseteq m.physical /\ \A e \in m.entries : e[3] \in m.physical \ Tables(m)
    BY <1>9 DEF KernelOK
  <2>2. Tables(m) \subseteq m.physical \ stray
        /\ \A e \in m.entries : e[3] \in (m.physical \ stray) \ Tables(m)
    BY <1>15, <2>1
  <2>3. KernelOK(kernel')
    BY <1>9, <1>12, <1>13, <2>2 DEF KernelOK
  <2>4. QED
    BY <1>12, <2>3 DEF Tidy
<1>17. \A f \in kernel.physical \ kernel'.physical :
         f = pageTable[running]
                \/ \E e \in kernel.entries : e[2] \in PagesOf(running) /\ e[3] = f
  <2> TAKE f \in kernel.physical \ kernel'.physical
  <2>1. CASE f \notin l.physical
    BY <1>5, <1>8, <2>1
  <2>2. CASE f \in l.physical /\ f \notin m.physical
    BY <1>5, <1>8, <1>9, <2>2
  <2>3. CASE f \in m.physical
    BY <1>11, <1>12, <2>3
  <2>4. QED
    BY <2>1, <2>2, <2>3
<1>18. FrameAt(kernel, running, a) \in kernel.physical \ kernel'.physical
  <2>1. <<TableFor(kernel, running, a), a, FrameAt(kernel, running, a)>> \in kernel.entries
    BY <1>1, <1>7, FrameFound DEF KernelOK, Reaches
  <2>2. FrameAt(kernel, running, a) \in kernel.physical
    BY <1>1, <2>1 DEF KernelOK
  <2>3. QED
    BY <1>8, <1>9, <1>12, <2>2
<1>19. \A e \in kernel.entries : e[2] \notin PagesOf(running) => e \in kernel'.entries
  BY <1>5, <1>8, <1>9, <1>12
<1>20. QED
  BY <1>8, <1>9, <1>10, <1>12, <1>13, <1>16, <1>17, <1>18, <1>19 DEF a, B

\* exit keeps the invariant: what it frees no other process uses.
LEMMA ProcessExitIInv == KernelPages % 8 = 0 /\ IInv /\ ProcessExit => IInv'
<1> SUFFICES ASSUME KernelPages % 8 = 0, IInv, ProcessExit
             PROVE  IInv'
  OBVIOUS
<1>1. /\ running > 0 /\ phase[running] = "user" /\ ~ExitFaults
      /\ ExitReleases(running)
      /\ phase' = [phase EXCEPT ![running] = "zombie"]
      /\ SwitchTo(kernel')
      /\ UNCHANGED <<parentPid, pageDirectoryAddress, pool, pageTable, stack, failed>>
  BY DEF ProcessExit, owned
<1>2. /\ TypeOK /\ KernelOK(kernel) /\ Unfailed /\ running \in Processes /\ running # Faulted
      /\ running \in Live /\ Owner(running)
      /\ \A p \in Live : Owner(p)
      /\ \A p, q \in Live : p # q => Apart(p, q)
  BY <1>1, MemoryAssumption DEF IInv, TypeOK, Stopped, Faulted, Live, Owners
<1>3. userPhysical' = userPhysical \ {stack[running], pageTable[running]}
  BY <1>1 DEF ExitReleases
<1> DEFINE pages == {pageDirectoryAddress[running]} \cup BitmapPages(running)
<1>4. /\ KernelOK(kernel') /\ (~failed => Tidy(kernel'))
      /\ kernel'.pde = kernel.pde
      /\ kernel'.virtual = kernel.virtual \ pages
      /\ kernel'.entries \subseteq kernel.entries
      /\ \A e \in kernel.entries : e[2] \notin PagesOf(running) => e \in kernel'.entries
      /\ kernel'.physical \subseteq kernel.physical
      /\ \A f \in kernel.physical \ kernel'.physical :
           f = pageTable[running]
                \/ \E e \in kernel.entries : e[2] \in PagesOf(running) /\ e[3] = f
      /\ \A t \in Tables(kernel') : t \in Tables(kernel)
  BY <1>1, <1>2, ExitFrees
<1>5. pages \subseteq PagesOf(running)
  <2>1. pool[running] \in Int
    BY <1>2, MemoryAssumption DEF TypeOK, KernelFrames, None
  <2>2. QED
    BY <2>1, BitmapInPool DEF PagesOf
<1> HIDE DEF pages
<1>6. \A p \in Processes \ {running} : phase'[p] = phase[p]
  BY <1>1, <1>2 DEF TypeOK
<1>7. Live' = Live \ {running} /\ Live \subseteq Processes
  BY <1>1, <1>2, <1>6 DEF Live, TypeOK
<1>8. ASSUME NEW p \in Live \ {running}
      PROVE  /\ Owner(p)'
             /\ pageDirectoryAddress[p] \in kernel'.virtual
             /\ PagesOf(p) \cap PagesOf(running) = {}
  <2>1. /\ Owner(p) /\ Apart(p, running) /\ p \in Processes \ {running}
        /\ phase'[p] = phase[p]
    BY <1>2, <1>6, <1>7
  <2>2. PagesOf(p) \subseteq kernel'.virtual /\ PagesOf(p)' = PagesOf(p)
    BY <1>1, <1>4, <1>5, <2>1 DEF Owner, Apart, PagesOf
  <2>3. phase[p] = "user" =>
          /\ stack[p] \in userPhysical'
          /\ pageTable[p] \in userPhysical' \cup Reserved(kernel')
    <3> SUFFICES ASSUME phase[p] = "user"
                 PROVE  /\ stack[p] \in userPhysical'
                        /\ pageTable[p] \in userPhysical' \cup Reserved(kernel')
      OBVIOUS
    <3>1. /\ stack[p] \in userPhysical /\ pageTable[p] \in userPhysical \cup Reserved(kernel)
          /\ {pageTable[p], stack[p]} \cap {pageTable[running], stack[running]} = {}
      BY <1>1, <2>1 DEF Owner, Apart
    <3>2. ASSUME pageTable[p] \in Reserved(kernel)
          PROVE  pageTable[p] \in Reserved(kernel')
      <4>1. pageTable[p] \in kernel'.physical
        BY <1>4, <3>1, <3>2 DEF Reserved
      <4>2. QED
        BY <1>4, <3>2, <4>1 DEF Reserved
    <3>3. QED
      BY <1>3, <3>1, <3>2
  <2>4. QED
    BY <1>1, <2>1, <2>2, <2>3 DEF Owner, PagesOf, Apart
<1>9. /\ running' \in Processes \cup {0, Stopped, Faulted}
      /\ running' = Faulted => Tables(kernel') # {}
  BY <1>1, <1>2, <1>4, <1>8, SwitchFaults
<1>10. TypeOK'
  <2>1. /\ kernel'.physical \subseteq KernelFrames
        /\ kernel'.virtual \subseteq KernelFrames
        /\ kernel'.entries \subseteq ({First} \cup KernelFrames) \X KernelFrames \X KernelFrames
        /\ kernel'.pde \in [Directories -> [Further -> KernelFrames \cup {None}]]
    BY <1>4 DEF KernelOK, KernelType
  <2>2. phase' \in [Processes -> {"free", "load", "user", "noload", "nocopy", "zombie"}]
    BY <1>1, <1>2 DEF TypeOK
  <2>3. QED
    BY <1>1, <1>2, <1>3, <1>9, <2>1, <2>2 DEF TypeOK
<1>11. Owners'
  <2>1. \A p \in Live \ {running} : Owner(p)'
    BY <1>8
  <2>2. \A p, q \in Live \ {running} : p # q => Apart(p, q)'
    BY <1>1, <1>2, <1>6, <1>7 DEF Apart, PagesOf
  <2>3. QED
    BY <1>7, <2>1, <2>2 DEF Owners
<1>12. Unfailed'
  <2> SUFFICES ASSUME ~failed', NEW p \in Live'
               PROVE  Mapped(kernel', p, BitmapPages(p)')
    BY <1>1, <1>4 DEF Unfailed
  <2>1. /\ p \in Live \ {running} /\ Owner(p) /\ pool[p] \in Int
        /\ p \in Directories
    BY <1>2, <1>7, MemoryAssumption DEF TypeOK, KernelFrames, None, Directories
  <2>2. Mapped(kernel, p, BitmapPages(p))
    BY <1>1, <1>2, <1>4, <2>1 DEF Unfailed
  <2>3. BitmapPages(p)' = BitmapPages(p)
    BY <1>1 DEF BitmapPages
  <2>4. ASSUME NEW x \in BitmapPages(p), TableFor(kernel', p, x) # None
        PROVE  FrameAt(kernel', p, x) # None
    <3>1. x \notin PagesOf(running)
      BY <1>8, <2>1, BitmapInPool DEF PagesOf
    <3>2. \A e \in kernel.entries : e[2] = x => e \in kernel'.entries
      BY <1>4, <3>1
    <3>3. FrameAt(kernel, p, x) # None
      BY <1>4, <2>2, <2>4 DEF Mapped, TableFor
    <3>4. QED
      BY <1>2, <1>4, <2>1, <3>2, <3>3, StaysReached
  <2>5. QED
    BY <2>3, <2>4 DEF Mapped
<1>13. FirstTableIsShared'
  BY <1>9 DEF FirstTableIsShared, FurtherTables, Tables
<1>14. QED
  BY <1>4, <1>10, <1>11, <1>12, <1>13 DEF IInv

\* Every step keeps the invariant.
LEMMA NextIInv == KernelPages % 8 = 0 /\ IInv /\ [Next]_vars => IInv'
<1> SUFFICES ASSUME KernelPages % 8 = 0, IInv, [Next]_vars
             PROVE  IInv'
  OBVIOUS
<1>1. CASE UNCHANGED vars
  <2>1. UNCHANGED <<kernel, userPhysical, running, phase, parentPid, failed,
                    pageDirectoryAddress, pool, pageTable, stack>>
    BY <1>1 DEF vars, owned
  <2>2. TypeOK' /\ KernelOK(kernel)'
    BY <2>1 DEF IInv, TypeOK
  <2>3. Live' = Live
    BY <2>1 DEF Live
  <2>4. Owners'
    <3>1. Extends(kernel, kernel')
      BY <2>1 DEF Extends
    <3>2. QED
      BY <2>1, <3>1, GrownOwners DEF IInv, owned
  <2>5. Unfailed'
    BY <2>1, <2>3 DEF IInv, Unfailed, BitmapPages
  <2>6. FirstTableIsShared'
    BY <2>1 DEF IInv, FirstTableIsShared, FurtherTables
  <2>7. QED
    BY <2>2, <2>4, <2>5, <2>6 DEF IInv
<1>2. CASE ExecuteProcess
  BY <1>2, ExecuteProcessIInv
<1>3. CASE LoadProcess
  BY <1>3, LoadProcessIInv
<1>4. CASE Fork
  BY <1>4, ForkIInv
<1>5. CASE ProcessExit
  BY <1>5, ProcessExitIInv
<1>6. CASE Reap
  BY <1>6, ReapIInv
<1>7. CASE Dispatch
  BY <1>7, DispatchIInv
<1>8. CASE Fault
  BY <1>8, FaultIInv
<1>9. CASE Halted
  BY <1>1, <1>9 DEF Halted
<1>10. QED
  BY <1>1, <1>2, <1>3, <1>4, <1>5, <1>6, <1>7, <1>8, <1>9 DEF Next

\* The inductive invariant holds in every state.
THEOREM InvariantTheorem == ASSUME KernelPages % 8 = 0 PROVE Spec => []IInv
<1>1. Init => IInv
  BY InitIInv
<1>2. IInv /\ [Next]_vars => IInv'
  BY NextIInv
<1>3. QED
  BY <1>1, <1>2, PTL DEF Spec

-----------------------------------------------------------------------------
\* What a live process owns: the frames that its pages have entries for, and as a
\* user process its page table and its stack.
LEMMA OwnsFacts ==
  ASSUME IInv, NEW p \in Live
  PROVE  /\ p \in Processes /\ Owner(p)
         /\ FurtherTables = Tables(kernel)
         /\ \A e \in kernel.entries : /\ e[3] \in kernel.physical \ FurtherTables
                                      /\ e[3] \in KernelFrames
         /\ FurtherTables \subseteq KernelFrames
         /\ \A f : f \in Owns(p) <=>
                     \/ \E e \in kernel.entries : e[2] \in PagesOf(p) /\ e[3] = f
                     \/ phase[p] = "user" /\ f \in {pageTable[p], stack[p]}
         /\ phase[p] = "user" =>
              /\ stack[p] \in userPhysical /\ stack[p] \notin KernelFrames
              /\ \/ pageTable[p] \in userPhysical /\ pageTable[p] \notin KernelFrames
                 \/ pageTable[p] \in kernel.physical \ FurtherTables
                    /\ \A e \in kernel.entries : e[3] # pageTable[p]
<1>1. /\ TypeOK /\ KernelOK(kernel) /\ p \in Processes /\ Owner(p)
      /\ phase[p] \in {"load", "user"}
  BY DEF IInv, Live, Owners
<1>2. FurtherTables = Tables(kernel)
  BY DEF FurtherTables, Tables
<1>3. /\ \A e \in kernel.entries : e[3] \in kernel.physical \ FurtherTables
      /\ FurtherTables \subseteq kernel.physical /\ kernel.physical \subseteq KernelFrames
  BY <1>1, <1>2 DEF KernelOK, TypeOK
<1>4. userPhysical \cap KernelFrames = {} /\ None \notin userPhysical /\ None \notin KernelFrames
  BY <1>1, MemoryAssumption DEF TypeOK, UserFrames, KernelFrames, None
<1>5. phase[p] = "user" =>
        /\ stack[p] \in userPhysical /\ stack[p] # None
        /\ pageTable[p] \in userPhysical \cup Reserved(kernel) /\ pageTable[p] # None
  BY <1>1, <1>3, <1>4 DEF Owner, Reserved
<1>6. \A f : f \in UNION {FramesOf(v) : v \in PagesOf(p)} <=>
               \E e \in kernel.entries : e[2] \in PagesOf(p) /\ e[3] = f
  <2> DEFINE P == PagesOf(p)
  <2> HIDE DEF P
  <2>1. \A f : f \in UNION {FramesOf(v) : v \in P} <=>
               \E e \in kernel.entries : e[2] \in P /\ e[3] = f
    BY DEF FramesOf
  <2>2. QED
    BY <2>1 DEF P
<1>7. \A f : f \in {pageTable[p], stack[p]} \ {None} <=>
               phase[p] = "user" /\ f \in {pageTable[p], stack[p]}
  BY <1>1, <1>5 DEF Owner
<1>8. \A f : f \in Owns(p) <=>
               \/ \E e \in kernel.entries : e[2] \in PagesOf(p) /\ e[3] = f
               \/ phase[p] = "user" /\ f \in {pageTable[p], stack[p]}
  BY <1>6, <1>7 DEF Owns
<1>9. phase[p] = "user" =>
        \/ pageTable[p] \in userPhysical /\ pageTable[p] \notin KernelFrames
        \/ pageTable[p] \in kernel.physical \ FurtherTables
           /\ \A e \in kernel.entries : e[3] # pageTable[p]
  BY <1>2, <1>4, <1>5 DEF Reserved
<1>10. QED
  BY <1>1, <1>2, <1>3, <1>4, <1>5, <1>8, <1>9

\* The kernel's page tables are in order unless there is more than one and a
\* creation was given up.
LEMMA TidyWhen == IInv /\ (failed => FurtherTables = {}) => Tidy(kernel)
<1> SUFFICES ASSUME IInv, failed, FurtherTables = {}
             PROVE  Tidy(kernel)
  BY DEF IInv, Unfailed
<1>1. /\ KernelOK(kernel) /\ kernel \in KernelType /\ Tables(kernel) = {}
  BY DEF IInv, KernelOK, FurtherTables, Tables
<1>2. None \notin KernelFrames
  BY MemoryAssumption DEF None, KernelFrames
<1>3. \A e \in kernel.entries : e[1] = First
  <2> TAKE e \in kernel.entries
  <2>1. e[1] \in {First} \cup KernelFrames
    BY <1>1 DEF KernelType
  <2>2. e[1] \notin Tables(kernel)
    BY <1>1
  <2>3. QED
    BY <1>2, <2>1, <2>2, InTables
<1>4. QED
  BY <1>1, <1>3 DEF KernelOK, Tidy

\* No frame belongs to two processes.
LEMMA OwnersShareNothing ==
  ASSUME IInv, NEW p \in Live, NEW q \in Live, p # q
  PROVE  Owns(p) \cap Owns(q) = {}
<1>1. KernelOK(kernel) /\ Apart(p, q)
  BY DEF IInv, Owners
<1>2. SUFFICES ASSUME NEW f \in Owns(p) \cap Owns(q)
               PROVE  FALSE
  OBVIOUS
<1>3. ASSUME NEW e \in kernel.entries, e[2] \in PagesOf(p), e[3] = f
      PROVE  FALSE
  <2>1. CASE \E g \in kernel.entries : g[2] \in PagesOf(q) /\ g[3] = f
    BY <1>1, <1>3, <2>1 DEF KernelOK, Apart
  <2>2. CASE phase[q] = "user" /\ f \in {pageTable[q], stack[q]}
    BY <1>3, <2>2, OwnsFacts
  <2>3. QED
    BY <1>2, <2>1, <2>2, OwnsFacts
<1>4. ASSUME phase[p] = "user", f \in {pageTable[p], stack[p]}
      PROVE  FALSE
  <2>1. CASE \E g \in kernel.entries : g[2] \in PagesOf(q) /\ g[3] = f
    BY <1>4, <2>1, OwnsFacts
  <2>2. CASE phase[q] = "user" /\ f \in {pageTable[q], stack[q]}
    BY <1>1, <1>4, <2>2 DEF Apart
  <2>3. QED
    BY <1>2, <2>1, <2>2, OwnsFacts
<1>5. QED
  BY <1>2, <1>3, <1>4, OwnsFacts

\* With the tables in order, each page of a process has one frame, and no other page
\* has this frame.
LEMMA FramesOfPages ==
  ASSUME IInv, Tidy(kernel), NEW p \in Live
  PROVE  LET M == {e[3] : e \in {f \in kernel.entries : f[2] \in PagesOf(p)}}
         IN IsFiniteSet(M) /\ Cardinality(M) = 1 + PoolPages
<1> DEFINE P == PagesOf(p)
           E == {f \in kernel.entries : f[2] \in P}
           M == {e[3] : e \in E}
           R == Run(pool[p], PoolPages)
<1>1. /\ KernelOK(kernel) /\ Owner(p) /\ p \in Processes
      /\ pool[p] \in Int /\ PoolPages \in Nat \ {0}
  BY MemoryAssumption DEF IInv, Owners, Live, TypeOK, KernelFrames, None
<1>2. IsFiniteSet(R) /\ Cardinality(R) = PoolPages
  <2>1. /\ pool[p] + PoolPages - 1 \in Int
        /\ pool[p] <= (pool[p] + PoolPages - 1) + 1
        /\ ((pool[p] + PoolPages - 1) - pool[p]) + 1 = PoolPages
    BY <1>1
  <2>2. R = pool[p] .. (pool[p] + PoolPages - 1)
    BY DEF Run
  <2> HIDE DEF R
  <2>3. QED
    BY <1>1, <2>1, <2>2, Interval
<1>3. IsFiniteSet(P) /\ Cardinality(P) = 1 + PoolPages
  <2>1. pageDirectoryAddress[p] \notin R /\ P = R \cup {pageDirectoryAddress[p]}
    BY <1>1 DEF Owner, PagesOf
  <2> HIDE DEF P, R
  <2>2. /\ IsFiniteSet(R \cup {pageDirectoryAddress[p]})
        /\ Cardinality(R \cup {pageDirectoryAddress[p]}) = Cardinality(R) + 1
    BY <1>2, <2>1, FS_AddElement
  <2>3. QED
    BY <1>1, <1>2, <2>1, <2>2
<1>4. \A x \in P : \E e \in E : e[2] = x
  BY <1>1 DEF Owner, KernelOK
<1> DEFINE f == [x \in P |-> (CHOOSE e \in E : e[2] = x)[3]]
<1>5. \A x \in P : \E e \in E : e[2] = x /\ f[x] = e[3]
  BY <1>4
<1>6. \A e, g \in E : e[2] = g[2] \/ e[3] = g[3] => e = g
  BY <1>1 DEF Tidy, KernelOK
<1>7. f \in [P -> M]
  BY <1>5
<1>8. \A x, y \in P : f[x] = f[y] => x = y
  BY <1>5, <1>6
<1>9. \A m \in M : \E x \in P : f[x] = m
  <2> TAKE m \in M
  <2>1. PICK e \in E : m = e[3]
    OBVIOUS
  <2>2. e[2] \in P
    OBVIOUS
  <2>3. f[e[2]] = m
    BY <1>5, <1>6, <2>1, <2>2
  <2>4. QED
    BY <2>2, <2>3
<1> HIDE DEF f, M, P
<1>10. f \in Bijection(P, M)
  BY <1>7, <1>8, <1>9, Fun_IsBij
<1>11. ExistsBijection(P, M)
  BY <1>10, Fun_ExistsBij
<1>12. IsFiniteSet(M) /\ Cardinality(M) = 1 + PoolPages
  BY <1>3, <1>11, FS_Bijection
<1>13. QED
  BY <1>12 DEF M, P

\* With the tables in order, a process has as many frames as it has uses for them.
LEMMA OwnsCount ==
  ASSUME IInv, Tidy(kernel), NEW p \in Live
  PROVE  Cardinality(Owns(p)) = 1 + PoolPages + IF phase[p] = "user" THEN 2 ELSE 0
<1> DEFINE M == {e[3] : e \in {f \in kernel.entries : f[2] \in PagesOf(p)}}
<1>1. IsFiniteSet(M) /\ Cardinality(M) = 1 + PoolPages
  BY FramesOfPages
<1>2. \A f : f \in Owns(p) <=> f \in M \/ (phase[p] = "user" /\ f \in {pageTable[p], stack[p]})
  BY OwnsFacts
<1>3. phase[p] = "user" =>
        pageTable[p] \notin M /\ stack[p] \notin M /\ pageTable[p] # stack[p]
  BY OwnsFacts DEF Owner
<1> HIDE DEF M
<1>4. PoolPages \in Nat
  BY MemoryAssumption
<1>5. CASE phase[p] # "user"
  <2>1. Owns(p) = M
    BY <1>2, <1>5
  <2>2. QED
    BY <1>1, <1>4, <1>5, <2>1
<1>6. CASE phase[p] = "user"
  <2> DEFINE T == M \cup {pageTable[p]}
  <2>1. IsFiniteSet(T) /\ Cardinality(T) = 2 + PoolPages
    BY <1>1, <1>3, <1>4, <1>6, FS_AddElement
  <2>2. stack[p] \notin T /\ Owns(p) = T \cup {stack[p]}
    BY <1>2, <1>3, <1>6
  <2> HIDE DEF T
  <2>3. Cardinality(Owns(p)) = 3 + PoolPages
    BY <1>4, <2>1, <2>2, FS_AddElement
  <2>4. QED
    BY <1>4, <1>6, <2>3
<1>7. QED
  BY <1>5, <1>6

\* Processes share no memory, and no frame serves two purposes.
LEMMA IInvPrivateMemory == IInv => PrivateMemory
<1> SUFFICES ASSUME IInv
             PROVE  PrivateMemory
  OBVIOUS
<1>1. (failed => FurtherTables = {}) =>
        \A p \in Live : Cardinality(Owns(p)) = 1 + PoolPages + IF phase[p] = "user" THEN 2 ELSE 0
  BY TidyWhen, OwnsCount
<1>2. \A p, q \in Live : p # q => Owns(p) \cap Owns(q) = {}
  BY OwnersShareNothing
<1>3. ASSUME NEW p \in Live
      PROVE  Owns(p) \cap FurtherTables = {}
  BY OwnsFacts
<1>4. QED
  BY <1>1, <1>2, <1>3 DEF PrivateMemory

\* What a live process uses is allocated.
LEMMA IInvOwnedIsAllocated == IInv => OwnedIsAllocated
<1> SUFFICES ASSUME IInv, NEW p \in Live
             PROVE  /\ Owns(p) \subseteq kernel.physical \cup userPhysical
                    /\ PagesOf(p) \subseteq kernel.virtual
  BY DEF OwnedIsAllocated
<1>1. Owns(p) \subseteq kernel.physical \cup userPhysical
  BY OwnsFacts
<1>2. QED
  BY <1>1, OwnsFacts DEF Owner

\* The entries of the kernel's page tables agree with its pools.
LEMMA IInvKernelTable == IInv => KernelTable
<1> SUFFICES ASSUME IInv
             PROVE  KernelTable
  OBVIOUS
<1>1. KernelOK(kernel) /\ FurtherTables = Tables(kernel)
  BY DEF IInv, FurtherTables, Tables
<1>2. (failed => FurtherTables = {}) =>
        /\ kernel.virtual = {e[2] : e \in kernel.entries}
        /\ \A e, f \in kernel.entries : e[2] = f[2] => e = f
  BY <1>1, TidyWhen DEF KernelOK, Tidy
<1>3. QED
  BY <1>1, <1>2 DEF KernelOK, KernelTable

\* Only exit makes a zombie of a process with a user's memory, and of the one that runs.
LEMMA OnlyExitMakesZombies ==
  ASSUME IInv, [Next]_vars, NEW p \in Processes, phase[p] = "user", phase'[p] = "zombie"
  PROVE  ProcessExit /\ p = running
<1>1. phase \in [Processes -> {"free", "load", "user", "noload", "nocopy", "zombie"}]
      /\ phase'[p] # phase[p]
  BY DEF IInv, TypeOK
<1>2. ASSUME NEW q, NEW x, phase' = [phase EXCEPT ![q] = x]
      PROVE  p = q /\ x = "zombie"
  BY <1>1, <1>2
<1>3. CASE ExecuteProcess
  <2>1. PICK q \in AllocatePCB : \E new \in Creation(q) :
          NewProcess(q, new, 0, IF Created(new) THEN "load" ELSE "noload", None, None)
    BY <1>3 DEF ExecuteProcess
  <2>2. QED
    BY <1>2, <2>1 DEF NewProcess
<1>4. CASE Fork
  <2>1. PICK q \in AllocatePCB : \E new \in Creation(q) : \E buffer \in Buffers(new) :
          \/ ForkNoLoad(q, new)
          \/ ForkNoBuffer(q, new, buffer)
          \/ ForkNoFrames(q, new, buffer)
          \/ ForkCopies(q, new, buffer)
    BY <1>4 DEF Fork
  <2>2. \E new, parent, ph, table, page :
          /\ ph \in {"noload", "nocopy", "user"}
          /\ NewProcess(q, new, parent, ph, table, page)
    BY <2>1 DEF ForkNoLoad, ForkNoBuffer, ForkNoFrames, ForkCopies
  <2>3. QED
    BY <1>2, <2>2 DEF NewProcess
<1>5. CASE LoadProcess
  <2>1. phase' = phase \/ phase' = [phase EXCEPT ![running] = "user"]
    BY <1>5 DEF LoadProcess
  <2>2. QED
    BY <1>1, <1>2, <2>1
<1>6. CASE Reap
  <2>1. PICK q \in Processes : phase' = [phase EXCEPT ![q] = "free"]
    BY <1>6 DEF Reap
  <2>2. QED
    BY <1>2, <2>1
<1>7. CASE Dispatch \/ Fault \/ Halted \/ UNCHANGED vars
  BY <1>1, <1>7 DEF Dispatch, Fault, Halted, vars
<1>8. CASE ProcessExit
  BY <1>2, <1>8 DEF ProcessExit
<1>9. QED
  BY <1>3, <1>4, <1>5, <1>6, <1>7, <1>8 DEF Next

\* exit gives back the frame of the page directory and the users' frames, and of all
\* others only frames of the process.
LEMMA ExitOfItsOwn ==
  ASSUME KernelPages % 8 = 0, IInv, ProcessExit
  PROVE  LET released == (kernel.physical \cup userPhysical)
                           \ (kernel'.physical \cup userPhysical')
         IN /\ released \subseteq Owns(running)
            /\ FrameAt(kernel, running, pageDirectoryAddress[running]) \in released
            /\ Owns(running) \cap UserFrames \subseteq released
<1> DEFINE released == (kernel.physical \cup userPhysical)
                           \ (kernel'.physical \cup userPhysical')
           directory == FrameAt(kernel, running, pageDirectoryAddress[running])
<1>1. /\ running \in Live /\ phase[running] = "user" /\ ~ExitFaults /\ ExitReleases(running)
      /\ kernel.physical \subseteq KernelFrames /\ userPhysical \subseteq UserFrames
      /\ running \in Processes
  BY MemoryAssumption DEF IInv, TypeOK, ProcessExit, Live, Stopped, Faulted
<1>2. /\ kernel'.physical \subseteq kernel.physical
      /\ \A f \in kernel.physical \ kernel'.physical :
           f = pageTable[running]
                \/ \E e \in kernel.entries : e[2] \in PagesOf(running) /\ e[3] = f
      /\ directory \in kernel.physical \ kernel'.physical
  BY <1>1, ExitFrees
<1> HIDE DEF directory
<1>3. userPhysical' = userPhysical \ {stack[running], pageTable[running]}
  BY <1>1 DEF ExitReleases
<1>4. KernelFrames \cap UserFrames = {}
  BY MemoryAssumption DEF KernelFrames, UserFrames
<1>5. released \subseteq Owns(running)
  BY <1>1, <1>2, <1>3, OwnsFacts
<1>6. directory \in released
  BY <1>1, <1>2, <1>3, <1>4
<1>7. ASSUME NEW f \in Owns(running), f \in UserFrames
      PROVE  f \in released
  <2>1. f \in {pageTable[running], stack[running]}
    BY <1>1, <1>4, <1>7, OwnsFacts
  <2>2. f \in userPhysical
    BY <1>1, <1>4, <1>7, <2>1, OwnsFacts
  <2>3. QED
    BY <1>1, <1>2, <1>3, <1>4, <1>7, <2>1, <2>2
<1>8. QED
  BY <1>5, <1>6, <1>7 DEF directory

-----------------------------------------------------------------------------
\* The variables, the kernel's tables and bitmaps among them, have their types.
THEOREM TypeTheorem == ASSUME KernelPages % 8 = 0 PROVE Spec => []TypeOK
<1>1. IInv => TypeOK
  BY DEF IInv
<1>2. QED
  BY <1>1, InvariantTheorem, PTL

\* Processes share no memory, and no frame serves two purposes (note.md:170, 183).
THEOREM PrivateMemoryTheorem == ASSUME KernelPages % 8 = 0 PROVE Spec => []PrivateMemory
<1>1. IInv => PrivateMemory
  BY IInvPrivateMemory
<1>2. QED
  BY <1>1, InvariantTheorem, PTL

\* What a live process uses is allocated (program.cpp:569, memory.cpp:205).
THEOREM OwnedIsAllocatedTheorem ==
  ASSUME KernelPages % 8 = 0 PROVE Spec => []OwnedIsAllocated
<1>1. IInv => OwnedIsAllocated
  BY IInvOwnedIsAllocated
<1>2. QED
  BY <1>1, InvariantTheorem, PTL

\* The kernel's page tables agree with its pools (memory.cpp:173-260, 275-291).
THEOREM KernelTableTheorem == ASSUME KernelPages % 8 = 0 PROVE Spec => []KernelTable
<1>1. IInv => KernelTable
  BY IInvKernelTable
<1>2. QED
  BY <1>1, InvariantTheorem, PTL

\* Nothing faults on a kernel page while the first page table suffices
\* (memory.cpp:242, program.cpp:296-302, 388).
THEOREM FirstTableIsSharedTheorem ==
  ASSUME KernelPages % 8 = 0 PROVE Spec => []FirstTableIsShared
<1>1. IInv => FirstTableIsShared
  BY DEF IInv
<1>2. QED
  BY <1>1, InvariantTheorem, PTL

\* exit gives back its page directory and its users' frames, and no frame that is
\* somebody else's (program.cpp:582-617).
THEOREM ExitReleasesItsOwnTheorem ==
  ASSUME KernelPages % 8 = 0 PROVE Spec => ExitReleasesItsOwn
<1> DEFINE A == \A p \in Processes :
       phase[p] = "user" /\ phase'[p] = "zombie" =>
         LET released == (kernel.physical \cup userPhysical)
                           \ (kernel'.physical \cup userPhysical')
         IN /\ released \subseteq Owns(p)
            /\ FrameAt(kernel, p, pageDirectoryAddress[p]) \in released
            /\ Owns(p) \cap UserFrames \subseteq released
<1>1. IInv /\ [Next]_vars => A
  BY OnlyExitMakesZombies, ExitOfItsOwn
<1>2. QED
  BY <1>1, InvariantTheorem, PTL DEF Spec, ExitReleasesItsOwn
=============================================================================
