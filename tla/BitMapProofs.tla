---------------------------- MODULE BitMapProofs ----------------------------
(***************************************************************************)
(* Proofs about BitMap.tla, for every length and every request size: the   *)
(* scanning loop stays within the bitmap, never passes over an answer, and *)
(* implements the first-fit promise of FirstFit.tla.                       *)
(***************************************************************************)
EXTENDS BitMap, TLAPS

Bits == [0 .. (Bytes - 1) -> SUBSET (0 .. 7)]

\* Unit i lies in a byte of the storage.
LEMMA UnitInStorage ==
  ASSUME NEW i \in 0 .. (8 * Bytes - 1)
  PROVE  /\ i \div 8 \in 0 .. (Bytes - 1)
         /\ i % 8 \in 0 .. 7
         /\ 8 * (i \div 8) + (i % 8) = i
BY BitMapAssumption DEF Bytes, Ceil

\* The storage has at least one bit per unit.
LEMMA StorageCovers == Bytes \in Nat /\ Length <= 8 * Bytes
BY BitMapAssumption DEF Bytes, Ceil

\* Set keeps the shape of the storage (bitmap.cpp:33).
LEMMA SetType ==
  ASSUME NEW bm \in Bits, NEW s \in Int, NEW n \in Int, NEW status \in BOOLEAN
  PROVE  Set(bm, s, n, status) \in Bits
BY DEF Set, Bits

\* After setting n units from s on, exactly those units changed.
LEMMA GetSet ==
  ASSUME NEW bm \in Bits, NEW s \in Int, NEW n \in Int, NEW status \in BOOLEAN,
         NEW i \in 0 .. (8 * Bytes - 1)
  PROVE  Get(Set(bm, s, n, status), i)
           <=> IF i \in s .. (s + n - 1) THEN status ELSE Get(bm, i)
<1> DEFINE pos == i \div 8
           off == i % 8
           offsets == {o \in 0 .. 7 : 8 * pos + o \in s .. (s + n - 1)}
<1>1. pos \in 0 .. (Bytes - 1) /\ off \in 0 .. 7 /\ 8 * pos + off = i
  BY UnitInStorage
<1>2. Set(bm, s, n, status)[pos]
        = IF status THEN bm[pos] \cup offsets ELSE bm[pos] \ offsets
  BY <1>1 DEF Set
<1>3. off \in offsets <=> i \in s .. (s + n - 1)
  BY <1>1
<1> HIDE DEF pos, off, offsets
<1>4. QED
  BY <1>1, <1>2, <1>3 DEF Get, pos, off

-----------------------------------------------------------------------------
LEMMA InitIInv == Init => IInv
<1> SUFFICES ASSUME Init PROVE IInv
  OBVIOUS
<1>1. TypeOK
  BY BitMapAssumption, StorageCovers DEF Init, TypeOK
<1>2. NothingSkipped
  BY DEF Init, NothingSkipped
<1>3. PaddingClear
  <2> SUFFICES ASSUME NEW i \in Length .. (8 * Bytes - 1)
               PROVE  ~Get(bitmap, i)
    BY DEF PaddingClear
  <2>1. i \in 0 .. (8 * Bytes - 1)
    BY BitMapAssumption, StorageCovers
  <2>2. QED
    BY <2>1, UnitInStorage DEF Init, Get
<1>4. QED
  BY <1>1, <1>2, <1>3 DEF IInv

\* A step of the kernel keeps every variable within its type.
LEMMA NextType == TypeOK /\ NothingSkipped /\ [Next]_vars => TypeOK'
<1> SUFFICES ASSUME TypeOK, NothingSkipped, [Next]_vars PROVE TypeOK'
  OBVIOUS
<1> USE BitMapAssumption DEF TypeOK
<1>1. ASSUME NEW n \in 0 .. MaxCount, Call(n) PROVE TypeOK'
  BY <1>1 DEF Call
<1>2. CASE Entry
  BY <1>2 DEF Entry, Return
<1>3. CASE SkipAllocated
  BY <1>3 DEF SkipAllocated
<1>4. CASE NotFound
  BY <1>4 DEF NotFound, Return
<1>5. CASE BeginRun
  BY <1>5 DEF BeginRun
<1>6. CASE CountFree
  BY <1>6 DEF CountFree, RunGoesOn
<1>7. CASE TakeRun
  <2>1. bitmap \in Bits /\ start \in Int /\ count \in Int
    BY DEF Bits
  <2>2. Set(bitmap, start, count, TRUE) \in Bits
    BY <2>1, SetType
  <2>3. start \in 0 .. (Length - 1)
    BY <1>7 DEF TakeRun, NothingSkipped
  <2>4. bitmap' \in Bits
    BY <1>7, <2>2 DEF TakeRun
  <2>5. Return(start)
    BY <1>7 DEF TakeRun
  <2>6. QED
    BY <2>3, <2>4, <2>5 DEF Return, Bits
<1>8. CASE ShortRun
  BY <1>8 DEF ShortRun, locals
<1>9. ASSUME NEW s \in 0 .. (Length - 1), NEW n \in 0 .. MaxCount, Release(s, n)
      PROVE  TypeOK'
  <2>1. bitmap \in Bits /\ s \in Int /\ n \in Int
    BY DEF Bits
  <2>2. Set(bitmap, s, n, FALSE) \in Bits
    BY <2>1, SetType
  <2>3. QED
    BY <1>9, <2>2 DEF Release, locals, Bits
<1>10. CASE UNCHANGED vars
  BY <1>10 DEF vars
<1>11. QED
  BY <1>1, <1>2, <1>3, <1>4, <1>5, <1>6, <1>7, <1>8, <1>9, <1>10 DEF Next, Step

\* The scan never passes over an answer.
LEMMA NextNothingSkipped == TypeOK /\ NothingSkipped /\ [Next]_vars => NothingSkipped'
<1> SUFFICES ASSUME TypeOK, NothingSkipped, [Next]_vars PROVE NothingSkipped'
  OBVIOUS
<1> USE BitMapAssumption DEF TypeOK, NothingSkipped
<1>1. ASSUME NEW n \in 0 .. MaxCount, Call(n) PROVE NothingSkipped'
  BY <1>1 DEF Call
<1>2. CASE Entry
  BY <1>2 DEF Entry, Return
<1>3. CASE SkipAllocated
  <2>1. ~Abstract!FreeRun(Allocated, index, count)
    BY <1>3 DEF SkipAllocated, Abstract!FreeRun, Abstract!Run, Allocated
  <2>2. Allocated' = Allocated
    BY <1>3 DEF SkipAllocated, Allocated
  <2>3. pc' = "skip" /\ count' = count /\ index' = index + 1
    BY <1>3 DEF SkipAllocated
  <2>4. ASSUME NEW s \in 0 .. (index' - 1)
        PROVE  ~Abstract!FreeRun(Allocated', s, count')
    <3>1. s \in 0 .. (index - 1) \/ s = index
      BY <2>3
    <3>2. QED
      BY <1>3, <2>1, <2>2, <2>3, <3>1 DEF SkipAllocated
  <2>5. QED
    BY <1>3, <2>3, <2>4 DEF SkipAllocated
<1>4. CASE NotFound
  BY <1>4 DEF NotFound, Return
<1>5. CASE BeginRun
  BY <1>5 DEF BeginRun, Allocated, Abstract!FreeRun, Abstract!Run, Get
<1>6. CASE CountFree
  BY <1>6 DEF CountFree, RunGoesOn, Allocated, Abstract!FreeRun, Abstract!Run, Get
<1>7. CASE TakeRun
  BY <1>7 DEF TakeRun, Return
<1>8. CASE ShortRun
  <2>1. index = Length \/ Get(bitmap, index)
    BY <1>8 DEF ShortRun, RunGoesOn
  <2>2. ASSUME NEW s \in start .. (index - 1)
        PROVE  ~Abstract!FreeRun(Allocated, s, count)
    <3>1. index \in s .. (s + count - 1)
      BY <1>8 DEF ShortRun, RunGoesOn
    <3>2. QED
      BY <2>1, <3>1 DEF Abstract!FreeRun, Abstract!Run, Allocated
  <2>3. Allocated' = Allocated
    BY <1>8 DEF ShortRun, Allocated
  <2>4. ASSUME NEW s \in 0 .. (index' - 1)
        PROVE  ~Abstract!FreeRun(Allocated', s, count')
    <3>1. s \in 0 .. (start - 1) \/ s \in start .. (index - 1)
      BY <1>8 DEF ShortRun, locals
    <3>2. QED
      BY <1>8, <2>2, <2>3, <3>1 DEF ShortRun, locals
  <2>5. QED
    BY <1>8, <2>4 DEF ShortRun, locals
<1>9. ASSUME NEW s \in 0 .. (Length - 1), NEW n \in 0 .. MaxCount, Release(s, n)
      PROVE  NothingSkipped'
  BY <1>9 DEF Release
<1>10. CASE UNCHANGED vars
  BY <1>10 DEF vars, Allocated, Abstract!FreeRun, Abstract!Run, Get
<1>11. QED
  BY <1>1, <1>2, <1>3, <1>4, <1>5, <1>6, <1>7, <1>8, <1>9, <1>10 DEF Next, Step

\* The padding bits of the last byte stay clear.
LEMMA NextPaddingClear ==
  TypeOK /\ NothingSkipped /\ PaddingClear /\ [Next]_vars => PaddingClear'
<1> SUFFICES ASSUME TypeOK, NothingSkipped, PaddingClear, [Next]_vars,
                    NEW i \in Length .. (8 * Bytes - 1)
             PROVE  ~Get(bitmap', i)
  BY DEF PaddingClear, Get
<1>1. ~Get(bitmap, i)
  BY DEF PaddingClear
<1>2. i \in 0 .. (8 * Bytes - 1) /\ bitmap \in Bits
  BY BitMapAssumption, StorageCovers DEF TypeOK, Bits
<1>3. CASE TakeRun
  <2>1. start \in Int /\ count \in Int /\ start + count <= Length
    BY <1>3, BitMapAssumption DEF TakeRun, TypeOK, NothingSkipped
  <2>2. i \notin start .. (start + count - 1)
    BY <2>1, BitMapAssumption, StorageCovers
  <2>3. ~Get(Set(bitmap, start, count, TRUE), i)
    BY <1>1, <1>2, <2>1, <2>2, GetSet
  <2>4. QED
    BY <1>3, <2>3 DEF TakeRun
<1>4. ASSUME NEW s \in 0 .. (Length - 1), NEW n \in 0 .. MaxCount, Release(s, n)
      PROVE  ~Get(bitmap', i)
  <2>1. s \in Int /\ n \in Int
    BY BitMapAssumption
  <2>2. ~Get(Set(bitmap, s, n, FALSE), i)
    BY <1>1, <1>2, <2>1, GetSet
  <2>3. QED
    BY <1>4, <2>2 DEF Release
<1>5. CASE bitmap' = bitmap
  BY <1>1, <1>5
<1>6. QED
  BY <1>3, <1>4, <1>5 DEF Next, Step, Call, Entry, SkipAllocated, NotFound,
                          BeginRun, CountFree, ShortRun, vars

\* The locals stay in range, the scan never passes over a run that would have
\* answered the request, and no bit beyond length is ever set: in every state
\* of BitMap::allocate and BitMap::release, for every length.
THEOREM InvariantTheorem == Spec => []IInv
<1>1. Init => IInv
  BY InitIInv
<1>2. IInv /\ [Next]_vars => IInv'
  BY NextType, NextNothingSkipped, NextPaddingClear DEF IInv
<1>3. QED
  BY <1>1, <1>2, PTL DEF Spec

\* Locals and storage keep their types.
THEOREM TypeTheorem == Spec => []TypeOK
<1>1. IInv => TypeOK
  BY DEF IInv
<1>2. QED
  BY <1>1, InvariantTheorem, PTL

\* The scan never steps over an answer (bitmap.cpp:56-88).
THEOREM NothingSkippedTheorem == Spec => []NothingSkipped
<1>1. IInv => NothingSkipped
  BY DEF IInv
<1>2. QED
  BY <1>1, InvariantTheorem, PTL

\* The bits behind the last unit, which pad its byte, are never set
\* (bitmap.cpp:72-88).
THEOREM PaddingClearTheorem == Spec => []PaddingClear
<1>1. IInv => PaddingClear
  BY DEF IInv
<1>2. QED
  BY <1>1, InvariantTheorem, PTL

-----------------------------------------------------------------------------
\* The allocated units after n units from s on, all below length, are set.
LEMMA AllocatedSet ==
  ASSUME TypeOK, NEW s \in Int, NEW n \in Int, NEW status \in BOOLEAN,
         bitmap' = Set(bitmap, s, n, status),
         s >= 0, s + n <= Length
  PROVE  Allocated' = IF status THEN Allocated \cup Abstract!Run(s, n)
                                ELSE Allocated \ Abstract!Run(s, n)
<1>1. bitmap \in Bits
  BY DEF TypeOK, Bits
<1>2. ASSUME NEW i \in 0 .. (Length - 1)
      PROVE  Get(bitmap', i)
               <=> IF i \in s .. (s + n - 1) THEN status ELSE Get(bitmap, i)
  <2>1. i \in 0 .. (8 * Bytes - 1)
    BY BitMapAssumption, StorageCovers
  <2>2. QED
    BY <1>1, <2>1, GetSet
<1>3. s .. (s + n - 1) \subseteq 0 .. (Length - 1)
  BY BitMapAssumption
<1>4. CASE status
  BY <1>2, <1>3, <1>4 DEF Allocated, Abstract!Run, Get
<1>5. CASE ~status
  BY <1>2, <1>3, <1>5 DEF Allocated, Abstract!Run, Get
<1>6. QED
  BY <1>4, <1>5

\* Every step of the loop is a step of the first-fit allocator, or none.
LEMMA StepSimulation == IInv /\ [Next]_vars => [Abstract!Next]_(Abstract!vars)
<1> SUFFICES ASSUME TypeOK, NothingSkipped, [Next]_vars
             PROVE  Abstract!Next \/ UNCHANGED Abstract!vars
  BY DEF IInv
<1> USE BitMapAssumption
<1>1. ASSUME bitmap' = bitmap PROVE Allocated' = Allocated
  BY <1>1 DEF Allocated, Get
<1>2. ASSUME NEW n \in 0 .. MaxCount, Call(n) PROVE Abstract!Ask(n)
  BY <1>1, <1>2 DEF Call, Abstract!Ask, Abstract!None
<1>3. CASE Entry
  <2>1. CASE count = 0
    BY <1>1, <1>3, <2>1 DEF Entry, Return, TypeOK, Abstract!Next, Abstract!Refuse, Abstract!None
  <2>2. CASE count # 0
    BY <1>1, <1>3, <2>2 DEF Entry, Abstract!vars
  <2>3. QED
    BY <2>1, <2>2
<1>4. CASE NotFound
  BY <1>1, <1>4 DEF NotFound, Return, TypeOK, NothingSkipped,
                    Abstract!Next, Abstract!Refuse, Abstract!None
<1>5. CASE TakeRun
  <2>1. /\ start \in 0 .. (Length - 1) /\ count \in Int /\ count > 0
        /\ index = start + count /\ index <= Length
    BY <1>5 DEF TakeRun, TypeOK, NothingSkipped
  <2>2. Abstract!FreeRun(Allocated, start, count)
    BY <1>5, <2>1 DEF TakeRun, NothingSkipped, Abstract!FreeRun, Abstract!Run, Allocated
  <2>3. bitmap' = Set(bitmap, start, count, TRUE)
    BY <1>5 DEF TakeRun
  <2>4. Allocated' = Allocated \cup Abstract!Run(start, count)
    <3>1. start \in Int /\ start >= 0 /\ start + count <= Length
      BY <2>1
    <3>2. QED
      BY <2>1, <2>3, <3>1, AllocatedSet
  <2>5. Abstract!Grant(start)
    BY <1>5, <2>1, <2>2, <2>4 DEF TakeRun, Return, NothingSkipped, Abstract!Grant, Abstract!None
  <2>6. QED
    BY <2>1, <2>5 DEF Abstract!Next
<1>6. ASSUME NEW s \in 0 .. (Length - 1), NEW n \in 0 .. MaxCount, Release(s, n)
      PROVE  Abstract!Release(s, n)
  <2>1. /\ bitmap' = Set(bitmap, s, n, FALSE) /\ s \in Int /\ n \in Int
        /\ s >= 0 /\ s + n <= Length
    BY <1>6 DEF Release
  <2>2. Allocated' = Allocated \ Abstract!Run(s, n)
    BY <2>1, AllocatedSet
  <2>3. Abstract!Run(s, n) \subseteq Allocated
    BY <1>6 DEF Release, Abstract!Run, Allocated
  <2>4. QED
    BY <1>6, <2>2, <2>3 DEF Release, locals, Abstract!Release, Abstract!None
<1>7. CASE SkipAllocated \/ BeginRun \/ CountFree \/ ShortRun
  BY <1>1, <1>7 DEF SkipAllocated, BeginRun, CountFree, ShortRun, locals, Abstract!vars
<1>8. CASE UNCHANGED vars
  BY <1>1, <1>8 DEF vars, Abstract!vars
<1>9. QED
  BY <1>2, <1>3, <1>4, <1>5, <1>6, <1>7, <1>8 DEF Next, Step, Abstract!Next

\* BitMap::allocate and BitMap::release keep the promise of a first-fit
\* allocator for every length of the bitmap and every size of request:
\* each call returns the lowest run that is long enough and marks exactly
\* that run, or returns -1 when there is none (bitmap.cpp:49-101).
THEOREM FirstFitTheorem == Spec => ImplementsFirstFit
<1>1. Init => Abstract!Init
  <2> SUFFICES ASSUME Init PROVE Abstract!Init
    OBVIOUS
  <2>1. ASSUME NEW i \in 0 .. (Length - 1) PROVE ~Get(bitmap, i)
    <3>1. i \in 0 .. (8 * Bytes - 1)
      BY BitMapAssumption, StorageCovers
    <3>2. QED
      BY <3>1, UnitInStorage DEF Init, Get
  <2>2. Allocated = {}
    BY <2>1 DEF Allocated
  <2>3. QED
    BY <2>2 DEF Init, Abstract!Init, Abstract!None
<1>2. QED
  BY <1>1, StepSimulation, InvariantTheorem, PTL DEF Spec, ImplementsFirstFit, Abstract!Spec
=============================================================================
