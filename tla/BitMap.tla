------------------------------- MODULE BitMap -------------------------------
(***************************************************************************)
(* The bitmap allocator of src/utils/bitmap.cpp, at the level of its loop  *)
(* iterations.  The storage is an array of bytes; unit i is bit i % 8 of   *)
(* byte i / 8.  BitMap::allocate(count) scans for the first run of count   *)
(* clear bits; its locals index, start and empty are variables here, and   *)
(* pc says which loop it is in.  Every caller in the kernel runs with      *)
(* interrupts disabled, so one call is served at a time.                   *)
(***************************************************************************)
EXTENDS Integers

CONSTANTS
  Length,    \* BitMap::length; 0 is a bitmap that was never initialised
  MaxCount   \* bound: the largest count passed to allocate

ASSUME BitMapAssumption == Length \in Nat /\ MaxCount \in Nat

VARIABLES
  bitmap,    \* the bytes: each the set of its bits that are 1
  pc,        \* "idle" between calls, otherwise the loop allocate is in
  count,     \* argument of allocate
  index, start, empty,   \* locals of allocate
  result     \* value the last allocate returned

locals == <<count, index, start, empty>>
vars == <<bitmap, pc, count, index, start, empty, result>>

\* ceil() of src/utils/stdlib.cpp
Ceil(dividend, divisor) == (dividend + divisor - 1) \div divisor

Bytes == Ceil(Length, 8)

\* BitMap::get
Get(bm, i) == (i % 8) \in bm[i \div 8]

\* BitMap::set applied to each of the n units from s on
Set(bm, s, n, status) ==
  [pos \in 0 .. (Bytes - 1) |->
     LET offsets == {o \in 0 .. 7 : 8 * pos + o \in s .. (s + n - 1)}
     IN  IF status THEN bm[pos] \cup offsets ELSE bm[pos] \ offsets]

-----------------------------------------------------------------------------
\* BitMap::initialize
Init ==
  /\ bitmap = [pos \in 0 .. (Bytes - 1) |-> {}]
  /\ pc = "idle"
  /\ count = 0 /\ index = 0 /\ start = 0 /\ empty = 0
  /\ result = -1

\* A call of allocate(n).
Call(n) ==
  /\ pc = "idle"
  /\ pc' = "entry"
  /\ count' = n
  /\ UNCHANGED <<bitmap, index, start, empty, result>>

\* allocate returns r; its locals go out of scope.
Return(r) ==
  /\ pc' = "idle"
  /\ result' = r
  /\ count' = 0 /\ index' = 0 /\ start' = 0 /\ empty' = 0

\* if (count == 0) return -1; index = 0;
Entry ==
  /\ pc = "entry"
  /\ \/ /\ count = 0
        /\ Return(-1)
     \/ /\ count # 0
        /\ index' = 0
        /\ pc' = "skip"
        /\ UNCHANGED <<count, start, empty, result>>
  /\ UNCHANGED bitmap

\* while (index < length && get(index)) ++index;
SkipAllocated ==
  /\ pc = "skip"
  /\ index < Length
  /\ Get(bitmap, index)
  /\ index' = index + 1
  /\ UNCHANGED <<bitmap, pc, count, start, empty, result>>

\* Mutant of NotFound: only the outer loop looks for the end.
NotFoundLate ==
  /\ pc = "skip"
  /\ index > Length
  /\ Return(-1)
  /\ UNCHANGED bitmap

\* The end of the bitmap, seen by the inner test or by the outer loop.
NotFound ==
  /\ pc = "skip"
  /\ index = Length
  /\ Return(-1)
  /\ UNCHANGED bitmap

\* Mutant of BeginRun: empty keeps the length of the last run.
BeginRunKeepsEmpty ==
  /\ pc = "skip"
  /\ index < Length
  /\ ~Get(bitmap, index)
  /\ start' = index
  /\ pc' = "probe"
  /\ UNCHANGED <<bitmap, count, empty, index, result>>

\* empty = 0; start = index;
BeginRun ==
  /\ pc = "skip"
  /\ index < Length
  /\ ~Get(bitmap, index)
  /\ empty' = 0
  /\ start' = index
  /\ pc' = "probe"
  /\ UNCHANGED <<bitmap, count, index, result>>

\* Mutant of RunGoesOn: the loop counts up to the end of the storage.
RunGoesOnToStorage == index < 8 * Bytes /\ ~Get(bitmap, index) /\ empty < count

\* Condition of the counting loop.
RunGoesOn == index < Length /\ ~Get(bitmap, index) /\ empty < count

CountFree ==
  /\ pc = "probe"
  /\ RunGoesOn
  /\ empty' = empty + 1
  /\ index' = index + 1
  /\ UNCHANGED <<bitmap, pc, count, start, result>>

\* Mutants of TakeRun: the unit behind the run is returned; the last unit of
\* the run is not marked.
TakeRunReturnsEnd ==
  /\ pc = "probe"
  /\ ~RunGoesOn
  /\ empty = count
  /\ bitmap' = Set(bitmap, start, count, TRUE)
  /\ Return(index)

TakeRunOneShort ==
  /\ pc = "probe"
  /\ ~RunGoesOn
  /\ empty = count
  /\ bitmap' = Set(bitmap, start, count - 1, TRUE)
  /\ Return(start)

\* empty == count: mark the run and return its first unit.
TakeRun ==
  /\ pc = "probe"
  /\ ~RunGoesOn
  /\ empty = count
  /\ bitmap' = Set(bitmap, start, count, TRUE)
  /\ Return(start)

\* The run is too short: back to the outer loop.
ShortRun ==
  /\ pc = "probe"
  /\ ~RunGoesOn
  /\ empty # count
  /\ pc' = "skip"
  /\ UNCHANGED <<bitmap, locals, result>>

\* BitMap::release; callers release units they were given.
Release(s, n) ==
  /\ pc = "idle"
  /\ s + n <= Length
  /\ \A i \in s .. (s + n - 1) : Get(bitmap, i)
  /\ bitmap' = Set(bitmap, s, n, FALSE)
  /\ UNCHANGED <<pc, locals, result>>

Step ==
  Entry \/ SkipAllocated \/ NotFound \/ BeginRun \/ CountFree \/ TakeRun \/ ShortRun

Next ==
  \/ \E n \in 0 .. MaxCount : Call(n)
  \/ Step
  \/ \E s \in 0 .. (Length - 1), n \in 0 .. MaxCount : Release(s, n)

Spec == Init /\ [][Next]_vars

\* The loop is straight-line kernel code with interrupts off: it keeps running.
FairSpec == Spec /\ WF_vars(Step)

-----------------------------------------------------------------------------
TypeOK ==
  /\ bitmap \in [0 .. (Bytes - 1) -> SUBSET (0 .. 7)]
  /\ pc \in {"idle", "entry", "skip", "probe"}
  /\ count \in 0 .. MaxCount
  /\ index \in 0 .. Length
  /\ start \in 0 .. Length
  /\ empty \in 0 .. MaxCount
  /\ result \in -1 .. (Length - 1)

Allocated == {i \in 0 .. (Length - 1) : Get(bitmap, i)}

\* The promise, with the units whose bit is 1 as the allocated ones.
Abstract ==
  INSTANCE FirstFit WITH
    allocated <- Allocated,
    request <- IF pc = "idle" THEN -1 ELSE count,
    reply <- result

\* Allocate hands out the first run of free units that is long enough and marks
\* exactly that run, and refuses only when no run is long enough (bitmap.cpp:49).
ImplementsFirstFit == Abstract!Spec

\* Every run of count free units that the scan has already passed over was
\* really not free: the loop never steps over an answer (bitmap.cpp:56-88).
NothingSkipped ==
  /\ pc \in {"skip", "probe"} => count > 0
  /\ pc = "skip" =>
       \A s \in 0 .. (index - 1) : ~Abstract!FreeRun(Allocated, s, count)
  /\ pc = "probe" =>
       /\ \A s \in 0 .. (start - 1) : ~Abstract!FreeRun(Allocated, s, count)
       /\ \A i \in start .. (index - 1) : ~Get(bitmap, i)
       /\ start <= index /\ empty = index - start /\ empty <= count

\* The bits of the last byte beyond length are never set: two neighbouring
\* bitmaps share no unit (bitmap.cpp:12, memory.cpp:43).
PaddingClear ==
  \A i \in Length .. (8 * Bytes - 1) : ~Get(bitmap, i)

\* The three together are inductive.
IInv == TypeOK /\ NothingSkipped /\ PaddingClear

\* Every call of allocate returns (bitmap.cpp:57).
AllocateReturns == (pc # "idle") ~> (pc = "idle")
=============================================================================
