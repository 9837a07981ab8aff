--------------------------- MODULE SemaphoreProofs ---------------------------
(***************************************************************************)
(* Proofs about Semaphore.tla for every number of threads.                 *)
(*                                                                         *)
(* semLock excludes, the counter never wraps and what is read has its type *)
(* wherever the timer switches threads: nothing is assumed there about the *)
(* shape of the two lists, which a switch can tear.                        *)
(*                                                                         *)
(* With interrupts disabled in P and V, the links are always those of two  *)
(* lists (ListsHold), and every BLOCKED thread, READY thread and permit is *)
(* accounted for.  While push_front has moved the head of readyPrograms    *)
(* and not yet linked the rest behind it, the list is the one the local    *)
(* variable temp still leads to (Intact).                                  *)
(***************************************************************************)
EXTENDS Semaphore, QueueTheorems

Waking == {"V_unlock", "V_wake", "V_front", "V_head", "V_item"}

\* What is read from the memory is an item where one is expected.
Shape ==
  /\ counter \in Nat
  /\ bolt \in {0, 1}
  /\ links = [next |-> links.next, previous |-> links.previous]
  /\ links.next \in [L!Nodes -> Items \cup {NULL}]
  /\ running \in Items
  /\ pc \in [Items -> Labels]
  /\ program \in [Items -> Items \cup {NULL}]
  /\ temp \in [Items -> Items \cup {NULL}]
  /\ \A t \in Items : pc[t] \in Waking => program[t] \in Items

\* Between the test that found no permit and semLock.unlock().
Sleepy == {"P_wait", "P_block", "P_unlock"}

IInv == Shape /\ LockExclusion /\ NoUnderflow /\ SleepIsJustified

-----------------------------------------------------------------------------
LEMMA InitEstablishes == Init => IInv
<1> SUFFICES ASSUME Init PROVE IInv
  OBVIOUS
<1> USE DEF Init
<1>1. counter \in Nat /\ bolt \in {0, 1} /\ running \in Items
  BY SemaphoreAssumption DEF Items
<1>2. /\ pc \in [Items -> Labels]
      /\ \A t \in Items : pc[t] \in {"idle", "out"}
  BY DEF Labels
<1>3. program \in [Items -> Items \cup {NULL}] /\ temp \in [Items -> Items \cup {NULL}]
  OBVIOUS
<1>4. \A n \in L!Nodes : (IF n = readyPrograms THEN 1
                          ELSE IF n \in 1 .. (N - 1) THEN n + 1 ELSE NULL) \in Items \cup {NULL}
  BY SemaphoreAssumption DEF Items
<1>5. links = [next |-> links.next, previous |-> links.previous]
  OBVIOUS
<1>6. links.next \in [L!Nodes -> Items \cup {NULL}]
  BY <1>4
<1>7. Shape
  BY <1>1, <1>2, <1>3, <1>5, <1>6 DEF Shape, Waking
<1>8. Holders = {}
  BY <1>2 DEF Holders, Held
<1>9. LockExclusion /\ NoUnderflow /\ SleepIsJustified
  BY <1>2, <1>8 DEF LockExclusion, NoUnderflow, SleepIsJustified
<1> QED BY <1>7, <1>9 DEF IInv

\* push_back leaves next an item or NULL.
LEMMA PushBackLinks ==
  ASSUME NEW h, NEW l \in {readyPrograms, waiting}, NEW x \in Items,
         h.next \in [L!Nodes -> Items \cup {NULL}]
  PROVE  /\ L!PushBack(h, l, x).next \in [L!Nodes -> Items \cup {NULL}]
         /\ L!PushBack(h, l, x)
              = [next |-> L!PushBack(h, l, x).next, previous |-> L!PushBack(h, l, x).previous]
         /\ h.next[l] # NULL => L!PushBack(h, l, x).next[l] # NULL
<1> DEFINE at == IF L!Back(h, l) = NULL THEN l ELSE L!Back(h, l)
           n == [h.next EXCEPT ![at] = x, ![x] = NULL]
           p == [h.previous EXCEPT ![x] = at]
<1>1. L!PushBack(h, l, x) = [next |-> n, previous |-> p]
  BY DEF L!PushBack
<1> HIDE DEF at, p
<1>2. n \in [L!Nodes -> Items \cup {NULL}]
  OBVIOUS
<1>3. h.next[l] # NULL => n[l] # NULL
  <2>1. l \notin Items /\ l \in L!Nodes /\ x # NULL
    BY SemaphoreAssumption DEF L!Nodes
  <2> QED BY <2>1
<1> HIDE DEF n
<1> QED BY <1>1, <1>2, <1>3

\* So does pop_front.
LEMMA PopFrontLinks ==
  ASSUME NEW h, NEW l \in {readyPrograms, waiting},
         h = [next |-> h.next, previous |-> h.previous],
         h.next \in [L!Nodes -> Items \cup {NULL}]
  PROVE  /\ L!PopFront(h, l).next \in [L!Nodes -> Items \cup {NULL}]
         /\ L!PopFront(h, l)
              = [next |-> L!PopFront(h, l).next, previous |-> L!PopFront(h, l).previous]
<1>1. CASE h.next[l] = NULL
  <2>1. L!PopFront(h, l) = h
    BY <1>1 DEF L!PopFront
  <2> QED BY <2>1
<1>2. CASE h.next[l] # NULL
  <2> DEFINE n == [h.next EXCEPT ![l] = h.next[h.next[l]], ![h.next[l]] = NULL]
             p == [m \in L!Nodes |-> CASE m = h.next[l] -> NULL
                                       [] m = h.next[h.next[l]] /\ m # h.next[l] -> l
                                       [] OTHER -> h.previous[m]]
  <2>1. L!PopFront(h, l) = [next |-> n, previous |-> p]
    BY <1>2 DEF L!PopFront
  <2>2. h.next[l] \in L!Nodes
    BY <1>2 DEF L!Nodes
  <2>3. n \in [L!Nodes -> Items \cup {NULL}]
    BY <2>2
  <2> HIDE DEF n, p
  <2> QED BY <2>1, <2>3
<1> QED BY <1>1, <1>2

\* schedule() dispatches an item.
LEMMA ScheduleLinks ==
  ASSUME Shape, Schedule
  PROVE  /\ links' = [next |-> links'.next, previous |-> links'.previous]
         /\ links'.next \in [L!Nodes -> Items \cup {NULL}]
         /\ running' \in Items
<1> DEFINE queued == IF status[running] = "RUNNING"
                     THEN L!PushBack(links, readyPrograms, running) ELSE links
           next == L!Front(queued, readyPrograms)
<1>1. /\ running \in Items
      /\ links.next \in [L!Nodes -> Items \cup {NULL}]
      /\ links = [next |-> links.next, previous |-> links.previous]
  BY DEF Shape
<1>2. CASE links.next[readyPrograms] = NULL
  BY <1>1, <1>2 DEF Schedule, L!Front
<1>3. CASE links.next[readyPrograms] # NULL
  <2>1. /\ queued.next \in [L!Nodes -> Items \cup {NULL}]
        /\ queued = [next |-> queued.next, previous |-> queued.previous]
        /\ queued.next[readyPrograms] # NULL
    BY <1>1, <1>3, PushBackLinks
  <2>2. links' = L!PopFront(queued, readyPrograms) /\ running' = queued.next[readyPrograms]
    BY <1>3 DEF Schedule, L!Front
  <2> HIDE DEF queued
  <2>3. queued.next[readyPrograms] \in Items
    BY <2>1 DEF L!Nodes
  <2>4. /\ L!PopFront(queued, readyPrograms).next \in [L!Nodes -> Items \cup {NULL}]
        /\ L!PopFront(queued, readyPrograms)
             = [next |-> L!PopFront(queued, readyPrograms).next,
                previous |-> L!PopFront(queued, readyPrograms).previous]
    BY <2>1, PopFrontLinks
  <2> QED BY <2>2, <2>3, <2>4
<1> QED BY <1>2, <1>3

-----------------------------------------------------------------------------
\* Any step between two labels that are both inside or both outside the locked
\* section leaves the exclusion alone.
LEMMA SameSide ==
  ASSUME IInv, NEW from \in Labels, NEW to \in Labels, Step(from, to),
         from \in Held <=> to \in Held, bolt' = bolt
  PROVE  pc' \in [Items -> Labels] /\ LockExclusion'
<1>1. pc \in [Items -> Labels] /\ running \in Items /\ pc[running] = from
  BY DEF IInv, Shape, Step
<1>2. pc' = [pc EXCEPT ![running] = to]
  BY DEF Step, Goto
<1>3. Holders' = Holders
  BY <1>1, <1>2 DEF Holders
<1> QED BY <1>1, <1>2, <1>3 DEF IInv, LockExclusion

LEMMA LockKeeps ==
  ASSUME IInv, NEW from \in {"P_lock", "V_lock"}, NEW to \in {"P_test", "V_increment"},
         Lock(from, to)
  PROVE  IInv'
<1>1. pc \in [Items -> Labels] /\ running \in Items /\ Holders = {}
  BY DEF IInv, Shape, Lock, LockExclusion
<1>2. pc' = [pc EXCEPT ![running] = to] /\ to \in Held /\ to \in Labels /\ to \notin Waking
      /\ to # "P_take" /\ to \notin Sleepy
  BY DEF Lock, Step, Goto, Held, Labels, Waking, Sleepy
<1>3. bolt' = 1 /\ UNCHANGED <<counter, links, running, status, locals>>
  BY DEF Lock
<1>4. Holders' = {running}
  BY <1>1, <1>2 DEF Holders
<1>5. LockExclusion'
  BY <1>3, <1>4 DEF LockExclusion
<1>6. Shape'
  BY <1>2, <1>3 DEF IInv, Shape, locals
<1>7. NoUnderflow' /\ SleepIsJustified'
  BY <1>1, <1>2, <1>3 DEF IInv, NoUnderflow, SleepIsJustified, Sleepy
<1> QED BY <1>5, <1>6, <1>7 DEF IInv

LEMMA UnlockKeeps ==
  ASSUME IInv, NEW from \in Held, NEW to \in {"out", "P_schedule", "V_wake"},
         to = "V_wake" => from = "V_unlock", Unlock(from, to)
  PROVE  IInv'
<1>1. pc \in [Items -> Labels] /\ running \in Items /\ pc[running] = from
  BY DEF IInv, Shape, Unlock, Step
<1>2. Holders = {running}
  BY <1>1 DEF IInv, LockExclusion, Holders
<1>3. pc' = [pc EXCEPT ![running] = to] /\ to \notin Held /\ to \in Labels
      /\ to # "P_take" /\ to \notin Sleepy
  BY DEF Unlock, Step, Goto, Held, Labels, Sleepy
<1>4. bolt' = 0 /\ UNCHANGED <<counter, links, running, status, locals>>
  BY DEF Unlock
<1>5. Holders' = {}
  BY <1>1, <1>2, <1>3 DEF Holders
<1>6. LockExclusion'
  BY <1>4, <1>5 DEF LockExclusion
<1>7. \A t \in Items : pc'[t] \in Waking => program[t] \in Items
  BY <1>1, <1>3 DEF IInv, Shape, Waking
<1>8. Shape'
  BY <1>3, <1>4, <1>7 DEF IInv, Shape, locals
<1>9. NoUnderflow' /\ SleepIsJustified'
  BY <1>1, <1>3, <1>4 DEF IInv, NoUnderflow, SleepIsJustified, Sleepy
<1> QED BY <1>6, <1>8, <1>9 DEF IInv

\* A step that changes no more than pc, from a label to one that expects nothing.
LEMMA PlainKeeps ==
  ASSUME IInv, NEW from \in Labels, NEW to \in Labels \ Waking, Step(from, to),
         from \in Held <=> to \in Held, to = "P_take" => counter > 0, to \in Sleepy => counter = 0,
         UNCHANGED <<counter, bolt, locals>>,
         links' = [next |-> links'.next, previous |-> links'.previous],
         links'.next \in [L!Nodes -> Items \cup {NULL}],
         running' \in Items
  PROVE  IInv'
<1>1. pc' \in [Items -> Labels] /\ LockExclusion'
  BY SameSide
<1>2. pc \in [Items -> Labels] /\ running \in Items /\ pc' = [pc EXCEPT ![running] = to]
  BY DEF IInv, Shape, Step, Goto
<1>3. \A t \in Items : pc'[t] \in Waking => program[t] \in Items
  BY <1>2 DEF IInv, Shape
<1>4. Shape'
  BY <1>1, <1>3 DEF IInv, Shape, locals
<1>5. NoUnderflow' /\ SleepIsJustified'
  BY <1>2 DEF IInv, NoUnderflow, SleepIsJustified, Sleepy
<1> QED BY <1>1, <1>4, <1>5 DEF IInv

\* The same for a step that leaves the links and the processor alone.
LEMMA QuietKeeps ==
  ASSUME IInv, NEW from \in Labels, NEW to \in Labels \ Waking, Step(from, to),
         from \in Held <=> to \in Held, to = "P_take" => counter > 0, to \in Sleepy => counter = 0,
         UNCHANGED <<counter, bolt, links, running, locals>>
  PROVE  IInv'
<1>1. /\ links' = [next |-> links'.next, previous |-> links'.previous]
      /\ links'.next \in [L!Nodes -> Items \cup {NULL}]
      /\ running' \in Items
  BY DEF IInv, Shape
<1>2. UNCHANGED <<counter, bolt, locals>>
  OBVIOUS
<1> QED BY <1>1, <1>2, PlainKeeps

LEMMA PKeeps == IInv /\ P => IInv'
<1> SUFFICES ASSUME IInv, P PROVE IInv'
  OBVIOUS
<1>1. CASE Lock("P_lock", "P_test")
  BY <1>1, LockKeeps
<1>2. CASE PTest
  <2>1. CASE counter > 0
    BY <1>2, <2>1, QuietKeeps DEF PTest, Labels, Waking, Held, Sleepy
  <2>2. CASE ~(counter > 0)
    <3>1. counter = 0
      BY <2>2 DEF IInv, Shape
    <3>2. QED
      BY <1>2, <2>2, <3>1, QuietKeeps DEF PTest, Labels, Waking, Held, Sleepy
  <2> QED BY <2>1, <2>2
<1>3. CASE PTake
  <2>1. pc \in [Items -> Labels] /\ running \in Items /\ pc[running] = "P_take"
        /\ pc' = [pc EXCEPT ![running] = "P_return"] /\ counter \in Nat
    BY <1>3 DEF IInv, Shape, PTake, Step, Goto
  <2>2. counter > 0 /\ counter' = counter - 1
    BY <1>3, <2>1 DEF IInv, NoUnderflow, PTake
  <2>3. UNCHANGED <<bolt, links, running, locals>>
    BY <1>3 DEF PTake
  <2>4. pc' \in [Items -> Labels] /\ LockExclusion'
    BY <1>3, <2>3, SameSide DEF PTake, Labels, Held
  <2>5. Holders = {running}
    BY <2>1 DEF IInv, LockExclusion, Holders, Held
  <2>6. \A t \in Items : pc'[t] # "P_take" /\ pc'[t] \notin Sleepy
    BY <2>1, <2>5 DEF Holders, Held, Sleepy
  <2>7. \A t \in Items : pc'[t] \in Waking => program[t] \in Items
    BY <2>1 DEF IInv, Shape, Waking
  <2>8. counter' \in Nat
    BY <2>1, <2>2
  <2>9. Shape'
    BY <2>3, <2>4, <2>7, <2>8 DEF IInv, Shape, locals
  <2> QED BY <2>4, <2>6, <2>9 DEF IInv, NoUnderflow, SleepIsJustified, Sleepy
<1>4. CASE Unlock("P_return", "out")
  BY <1>4, UnlockKeeps DEF Held
<1>5. CASE PWait
  <2>1. /\ L!PushBack(links, waiting, running).next \in [L!Nodes -> Items \cup {NULL}]
        /\ L!PushBack(links, waiting, running)
             = [next |-> L!PushBack(links, waiting, running).next,
                previous |-> L!PushBack(links, waiting, running).previous]
        /\ running' \in Items
    BY <1>5, PushBackLinks DEF IInv, Shape, PWait
  <2>2. /\ links' = L!PushBack(links, waiting, running)
        /\ Step("P_wait", "P_block")
        /\ UNCHANGED <<counter, bolt, locals>>
    BY <1>5 DEF PWait
  <2>3. links'.next \in [L!Nodes -> Items \cup {NULL}]
        /\ links' = [next |-> links'.next, previous |-> links'.previous]
    BY <2>1, <2>2
  <2>4. "P_wait" \in Labels /\ "P_block" \in Labels \ Waking
        /\ ("P_wait" \in Held <=> "P_block" \in Held)
    BY DEF Labels, Waking, Held
  <2>5. counter = 0
    BY <2>2 DEF IInv, Shape, SleepIsJustified, Step
  <2> QED BY <2>1, <2>2, <2>3, <2>4, <2>5, PlainKeeps
<1>6. CASE PBlock
  <2>1. counter = 0
    BY <1>6 DEF IInv, Shape, SleepIsJustified, PBlock, Step
  <2> QED BY <1>6, <2>1, QuietKeeps DEF PBlock, Labels, Waking, Held
<1>7. CASE Unlock("P_unlock", "P_schedule")
  BY <1>7, UnlockKeeps DEF Held
<1>8. CASE PSchedule
  <2>1. /\ links' = [next |-> links'.next, previous |-> links'.previous]
        /\ links'.next \in [L!Nodes -> Items \cup {NULL}]
        /\ running' \in Items
    BY <1>8, ScheduleLinks DEF IInv, PSchedule
  <2>2. Step("P_schedule", "P_restore") /\ UNCHANGED <<counter, bolt, locals>>
    BY <1>8 DEF PSchedule
  <2>3. "P_schedule" \in Labels /\ "P_restore" \in Labels \ Waking
        /\ ("P_schedule" \in Held <=> "P_restore" \in Held) /\ "P_restore" \notin Sleepy
    BY DEF Labels, Waking, Held, Sleepy
  <2> QED BY <2>1, <2>2, <2>3, PlainKeeps
<1>9. CASE PRestore
  BY <1>9, QuietKeeps DEF PRestore, Labels, Waking, Held, Sleepy
<1> QED BY <1>1, <1>2, <1>3, <1>4, <1>5, <1>6, <1>7, <1>8, <1>9 DEF P

\* A statement of MESA_WakeUp: outside the locked section, program is an item.
LEMMA WakingKeeps ==
  ASSUME IInv, NEW from \in Waking \ Held, NEW to \in Waking \ Held, Step(from, to),
         UNCHANGED <<counter, bolt, program, running>>,
         temp' \in [Items -> Items \cup {NULL}],
         links' = [next |-> links'.next, previous |-> links'.previous],
         links'.next \in [L!Nodes -> Items \cup {NULL}]
  PROVE  IInv'
<1>1. pc' \in [Items -> Labels] /\ LockExclusion'
  BY SameSide, SMTT(30) DEF Waking, Labels
<1>2. pc \in [Items -> Labels] /\ running \in Items /\ pc[running] = from
      /\ pc' = [pc EXCEPT ![running] = to]
  BY DEF IInv, Shape, Step, Goto
<1>3. \A t \in Items : pc'[t] \in Waking => program[t] \in Items
  BY <1>2 DEF IInv, Shape
<1>4. Shape'
  BY <1>1, <1>3 DEF IInv, Shape
<1>5. NoUnderflow' /\ SleepIsJustified'
  BY <1>2 DEF IInv, NoUnderflow, SleepIsJustified, Waking, Sleepy
<1> QED BY <1>1, <1>4, <1>5 DEF IInv

LEMMA VIncrementKeeps == IInv /\ VIncrement => IInv'
<1> SUFFICES ASSUME IInv, VIncrement PROVE IInv'
  OBVIOUS
<1>1. /\ counter \in Nat /\ pc \in [Items -> Labels] /\ running \in Items
      /\ pc[running] = "V_increment" /\ counter' = counter + 1
      /\ bolt' = bolt /\ running' = running /\ temp' = temp
      /\ links.next \in [L!Nodes -> Items \cup {NULL}]
      /\ links = [next |-> links.next, previous |-> links.previous]
      /\ program \in [Items -> Items \cup {NULL}]
  BY DEF VIncrement, IInv, Shape
<1>2. \A t \in Items : pc[t] # "P_take" /\ pc[t] \notin Sleepy
  BY <1>1 DEF IInv, LockExclusion, Holders, Held, Sleepy
<1>3. CASE L!Front(links, waiting) # NULL
  <2>1. /\ program' = [program EXCEPT ![running] = L!Front(links, waiting)]
        /\ links' = L!PopFront(links, waiting)
        /\ Step("V_increment", "V_unlock")
    BY <1>1, <1>3 DEF VIncrement, Step
  <2>2. L!Front(links, waiting) \in Items
    BY <1>1, <1>3 DEF L!Front, L!Nodes
  <2>3. /\ links' = [next |-> links'.next, previous |-> links'.previous]
        /\ links'.next \in [L!Nodes -> Items \cup {NULL}]
    BY <1>1, <2>1, PopFrontLinks
  <2>4. pc' \in [Items -> Labels] /\ LockExclusion'
    BY <1>1, <2>1, SameSide DEF Labels, Held
  <2>5. pc' = [pc EXCEPT ![running] = "V_unlock"]
    BY <2>1 DEF Step, Goto
  <2>6. \A t \in Items : pc'[t] \in Waking => program'[t] \in Items
    BY <1>1, <2>1, <2>2, <2>5 DEF IInv, Shape
  <2>7. program' \in [Items -> Items \cup {NULL}]
    BY <1>1, <2>1, <2>2
  <2>8. Shape'
    BY <1>1, <2>3, <2>4, <2>6, <2>7 DEF IInv, Shape
  <2>9. NoUnderflow' /\ SleepIsJustified'
    BY <1>1, <1>2, <2>5 DEF NoUnderflow, SleepIsJustified, Sleepy
  <2> QED BY <2>4, <2>8, <2>9 DEF IInv
<1>4. CASE L!Front(links, waiting) = NULL
  <2>1. Step("V_increment", "V_return") /\ UNCHANGED <<program, links>>
    BY <1>1, <1>4 DEF VIncrement, Step
  <2>2. pc' \in [Items -> Labels] /\ LockExclusion'
    BY <1>1, <2>1, SameSide DEF Labels, Held
  <2>3. pc' = [pc EXCEPT ![running] = "V_return"]
    BY <2>1 DEF Step, Goto
  <2>4. \A t \in Items : pc'[t] \in Waking => program'[t] \in Items
    BY <1>1, <2>1, <2>3 DEF IInv, Shape, Waking
  <2>5. Shape'
    BY <1>1, <2>1, <2>2, <2>4 DEF IInv, Shape
  <2>6. NoUnderflow' /\ SleepIsJustified'
    BY <1>1, <1>2, <2>3 DEF NoUnderflow, SleepIsJustified, Sleepy
  <2> QED BY <2>2, <2>5, <2>6 DEF IInv
<1> QED BY <1>3, <1>4

LEMMA VKeeps == IInv /\ V => IInv'
<1> SUFFICES ASSUME IInv, V PROVE IInv'
  OBVIOUS
<1>0. /\ links.next \in [L!Nodes -> Items \cup {NULL}]
      /\ links = [next |-> links.next, previous |-> links.previous]
      /\ temp \in [Items -> Items \cup {NULL}] /\ running \in Items
      /\ pc \in [Items -> Labels] /\ program \in [Items -> Items \cup {NULL}]
      /\ \A t \in Items : pc[t] \in Waking => program[t] \in Items
  BY DEF IInv, Shape
<1>1. CASE Lock("V_lock", "V_increment")
  BY <1>1, LockKeeps
<1>2. CASE VIncrement
  BY <1>2, VIncrementKeeps
<1>3. CASE Unlock("V_return", "out")
  BY <1>3, UnlockKeeps DEF Held
<1>4. CASE Unlock("V_unlock", "V_wake")
  BY <1>4, UnlockKeeps DEF Held
<1>5. CASE WakeUp
  BY <1>0, <1>5, WakingKeeps DEF WakeUp, Waking, Held, locals
<1>6. CASE PushFrontReads
  <2>1. Step("V_front", "V_head") /\ UNCHANGED <<counter, bolt, program, running>>
    BY <1>6 DEF PushFrontReads
  <2>2. temp' \in [Items -> Items \cup {NULL}]
    BY <1>0, <1>6 DEF PushFrontReads, L!Nodes
  <2>3. /\ links' = [next |-> links'.next, previous |-> links'.previous]
        /\ links'.next \in [L!Nodes -> Items \cup {NULL}]
    <3>1. CASE links.next[readyPrograms] = NULL
      BY <1>0, <1>6, <3>1 DEF PushFrontReads
    <3>2. CASE links.next[readyPrograms] # NULL
      <4> DEFINE p == [links.previous EXCEPT ![links.next[readyPrograms]] = program[running]]
      <4>1. links' = [links EXCEPT !.previous = p]
        BY <1>6, <3>2 DEF PushFrontReads
      <4> HIDE DEF p
      <4>2. links' = [next |-> links.next, previous |-> p]
        BY <1>0, <4>1
      <4> QED BY <1>0, <4>2
    <3> QED BY <3>1, <3>2
  <2>4. "V_front" \in Waking \ Held /\ "V_head" \in Waking \ Held
    BY DEF Waking, Held
  <2> QED BY <2>1, <2>2, <2>3, <2>4, WakingKeeps
<1>7. CASE PushFrontHead
  <2>1. Step("V_head", "V_item") /\ UNCHANGED <<counter, bolt, program, running, temp>>
    BY <1>7 DEF PushFrontHead, locals
  <2>2. program[running] \in Items
    BY <1>0, <2>1 DEF Step, Waking
  <2> DEFINE n == [links.next EXCEPT ![readyPrograms] = program[running]]
  <2>3. links' = [links EXCEPT !.next = n]
    BY <1>7 DEF PushFrontHead
  <2>4. n \in [L!Nodes -> Items \cup {NULL}]
    BY <1>0, <2>2
  <2> HIDE DEF n
  <2>5. links' = [next |-> n, previous |-> links.previous]
    BY <1>0, <2>3
  <2>6. "V_head" \in Waking \ Held /\ "V_item" \in Waking \ Held
    BY DEF Waking, Held
  <2> QED BY <1>0, <2>1, <2>4, <2>5, <2>6, WakingKeeps
<1>8. CASE PushFrontItem
  <2>1. /\ Step("V_item", "out") /\ UNCHANGED <<counter, bolt, running, status>>
        /\ pc' = [pc EXCEPT ![running] = "out"]
        /\ program' = [program EXCEPT ![running] = NULL]
        /\ temp' = [temp EXCEPT ![running] = NULL]
    BY <1>8 DEF PushFrontItem, Step, Goto
  <2>2. pc' \in [Items -> Labels] /\ LockExclusion'
    BY <2>1, SameSide DEF Labels, Held
  <2> DEFINE n == [links.next EXCEPT ![program[running]] = temp[running]]
             p == [links.previous EXCEPT ![program[running]] = readyPrograms]
  <2>3. links' = [[links EXCEPT !.previous = p] EXCEPT !.next = n]
    BY <1>0, <1>8 DEF PushFrontItem
  <2>4. n \in [L!Nodes -> Items \cup {NULL}]
    BY <1>0
  <2> HIDE DEF n, p
  <2>5. links' = [next |-> n, previous |-> p]
    BY <1>0, <2>3
  <2>6. \A t \in Items : pc'[t] \in Waking => program'[t] \in Items
    BY <1>0, <2>1 DEF Waking
  <2>7. program' \in [Items -> Items \cup {NULL}] /\ temp' \in [Items -> Items \cup {NULL}]
    BY <1>0, <2>1
  <2>8. Shape'
    BY <2>1, <2>2, <2>4, <2>5, <2>6, <2>7 DEF IInv, Shape
  <2>9. NoUnderflow' /\ SleepIsJustified'
    BY <1>0, <2>1 DEF IInv, NoUnderflow, SleepIsJustified, Sleepy
  <2> QED BY <2>2, <2>8, <2>9 DEF IInv
<1> QED BY <1>1, <1>2, <1>3, <1>4, <1>5, <1>6, <1>7, <1>8 DEF V

-----------------------------------------------------------------------------
LEMMA StepKeeps == IInv /\ [Next]_vars => IInv'
<1> SUFFICES ASSUME IInv, [Next]_vars PROVE IInv'
  OBVIOUS
<1>1. CASE TimerSchedule
  <2>1. /\ links' = [next |-> links'.next, previous |-> links'.previous]
        /\ links'.next \in [L!Nodes -> Items \cup {NULL}]
        /\ running' \in Items
    BY <1>1, ScheduleLinks DEF IInv, TimerSchedule
  <2>2. UNCHANGED <<counter, bolt, pc, program, temp>>
    BY <1>1 DEF TimerSchedule, locals
  <2> QED BY <2>1, <2>2 DEF IInv, Shape, LockExclusion, Holders, NoUnderflow, SleepIsJustified
<1>2. CASE UNCHANGED vars
  BY <1>2 DEF vars, IInv, Shape, LockExclusion, Holders, NoUnderflow, SleepIsJustified
<1>3. CASE Hung \/ Spin
  BY <1>2, <1>3 DEF Hung, Spin
<1>4. CASE CallP
  BY <1>4, QuietKeeps DEF CallP, Labels, Waking, Held, Sleepy
<1>5. CASE CallV
  BY <1>5, QuietKeeps DEF CallV, Labels, Waking, Held, Sleepy
<1>6. CASE P
  BY <1>6, PKeeps
<1>7. CASE V
  BY <1>7, VKeeps
<1> QED BY <1>1, <1>2, <1>3, <1>4, <1>5, <1>6, <1>7 DEF Next

\* The invariant of SpinLock and Semaphore (sync.cpp:18-93).
THEOREM InvariantTheorem == Spec => []IInv
<1>1. Init => IInv
  BY InitEstablishes
<1>2. IInv /\ [Next]_vars => IInv'
  BY StepKeeps
<1> QED BY <1>1, <1>2, PTL DEF Spec

\* semLock is held by one thread at a time, and bolt tells (sync.cpp:18-32).
THEOREM LockExclusionTheorem == Spec => []LockExclusion
<1>1. IInv => LockExclusion
  BY DEF IInv
<1> QED BY <1>1, InvariantTheorem, PTL

\* The counter is positive where P decrements it: it never wraps (sync.cpp:58-60).
THEOREM NoUnderflowTheorem == Spec => []NoUnderflow
<1>1. IInv => NoUnderflow
  BY DEF IInv
<1> QED BY <1>1, InvariantTheorem, PTL

\* No V gets between the test that found no permit and the sleeper's unlock, however the
\* threads are switched (sync.cpp:58, 65-70, 80-83).
THEOREM SleepIsJustifiedTheorem == Spec => []SleepIsJustified
<1>1. IInv => SleepIsJustified
  BY DEF IInv
<1> QED BY <1>1, InvariantTheorem, PTL

-----------------------------------------------------------------------------
\* The lists s and t are what next links, from the heads l and m.
Linked(next, l, s, m, t) ==
  /\ next \in [L!Nodes -> Items \cup {NULL}]
  /\ l \in {readyPrograms, waiting} /\ m \in {readyPrograms, waiting} /\ l # m
  /\ s \in Seq(Items) /\ IsInjective(s) /\ Forwards(next, l, s, NULL)
  /\ t \in Seq(Items) /\ IsInjective(t) /\ Forwards(next, m, t, NULL)
  /\ ToSet(s) \cap ToSet(t) = {}

\* An item that is on neither list.
Off(x, s, t) == x \in Items /\ x \notin ToSet(s) /\ x \notin ToSet(t)

\* From links a to links b, x is put behind place p of the list s of head l.
Put(a, b, l, s, p, x) ==
  /\ b \in [L!Nodes -> Items \cup {NULL}]
  /\ \A n \in L!Nodes : b[n] = IF n = Place(s, l, NULL, p) THEN x
                               ELSE IF n = x THEN Place(s, l, NULL, p + 1) ELSE a[n]

\* The first item is taken out, whatever its own link becomes.
FirstTaken(a, b, l, s) ==
  /\ b \in [L!Nodes -> Items \cup {NULL}]
  /\ \A n \in L!Nodes : n # s[1] => b[n] = IF n = l THEN Place(s, l, NULL, 2) ELSE a[n]

-----------------------------------------------------------------------------
\* There are as many nodes as the constants say.
LEMMA NodesAre ==
  /\ readyPrograms # waiting /\ NULL \notin L!Nodes /\ NULL \notin Items
  /\ readyPrograms \notin Items /\ waiting \notin Items
  /\ readyPrograms \in L!Nodes /\ waiting \in L!Nodes /\ Items \subseteq L!Nodes
  /\ IsFiniteSet(Items)
<1>1. IsFiniteSet(Items)
  <2>1. 0 \in Int /\ N \in Int /\ 0 <= N + 1
    BY SemaphoreAssumption
  <2>2. QED
    BY <2>1, Interval DEF Items
<1>2. QED
  BY <1>1, SemaphoreAssumption DEF L!Nodes

\* IntrusiveList counts as this module does.
LEMMA SameCardinality == ASSUME NEW S PROVE L!Cardinality(S) = Cardinality(S)
  BY DEF L!Cardinality, Cardinality

\* The loops of list.cpp visit a list that is linked forwards, and end.
LEMMA Visited ==
  ASSUME NEW h, NEW l, NEW s \in Seq(Items), IsInjective(s), Forwards(h.next, l, s, NULL)
  PROVE  L!Contents(h, l) = s /\ L!Terminates(h, l)
<1> DEFINE C == Cardinality(Items)
           next == h.next
           nth[i \in 0 .. C] ==
             IF i = 0 THEN next[l]
             ELSE IF nth[i - 1] = NULL THEN NULL ELSE next[nth[i - 1]]
<1>1. L!Nth(h, l) = nth
  BY SameCardinality, Zenon DEF L!Nth
<1>2. C \in Nat /\ Len(s) \in Nat /\ NULL \notin Items
      /\ \A i \in 1 .. Len(s) : s[i] \in Items /\ s[i] # NULL
  BY NodesAre, FS_CardinalityType
<1> HIDE DEF C, next
<1>3. nth = [i \in 0 .. C |-> IF i = 0 THEN next[l]
                              ELSE IF nth[i - 1] = NULL THEN NULL ELSE next[nth[i - 1]]]
  <2> DEFINE g == [i \in 0 .. C |-> Place(s, l, NULL, i + 1)]
  <2>1. Forwards(next, l, s, NULL)
    BY DEF next
  <2>2. g = [i \in 0 .. C |-> IF i = 0 THEN next[l]
                              ELSE IF g[i - 1] = NULL THEN NULL ELSE next[g[i - 1]]]
    BY <1>2, <2>1, ListWalk
  <2> HIDE DEF g
  <2>3. QED
    BY <2>2, Zenon
<1> HIDE DEF nth
<1>4. /\ DOMAIN nth = 0 .. C /\ Len(s) <= C
      /\ \A i \in 0 .. C : nth[i] = Place(s, l, NULL, i + 1)
      /\ nth[C] = NULL
      /\ Cardinality({j \in DOMAIN nth : nth[j] # NULL}) = Len(s)
  <2>1. IsFiniteSet(Items) /\ Forwards(next, l, s, NULL)
    BY NodesAre DEF next
  <2>2. Walk(nth, Cardinality(Items), next, l, NULL)
    BY <1>3 DEF C, Walk
  <2>3. Reads(nth, Cardinality(Items), s, l, NULL)
    BY <1>2, <2>1, <2>2, ListRead
  <2>4. DOMAIN nth = 0 .. C
    BY <1>3
  <2>5. QED
    BY <2>3, <2>4 DEF C, Reads
<1>5. L!Terminates(h, l)
  BY <1>1, <1>4, SameCardinality DEF L!Terminates, C
<1>6. L!Contents(h, l) = [i \in 1 .. Len(s) |-> nth[i - 1]]
  BY <1>1, <1>4, SameCardinality DEF L!Contents
<1>7. ASSUME NEW i \in 1 .. Len(s) PROVE nth[i - 1] = s[i]
  <2>1. i - 1 \in 0 .. C /\ (i - 1) + 1 = i
    BY <1>2, <1>4
  <2>2. QED
    BY <1>4, <2>1 DEF Place
<1>8. s = [i \in 1 .. Len(s) |-> s[i]]
  OBVIOUS
<1>9. QED
  BY <1>5, <1>6, <1>7, <1>8

\* Which of the two lists is named first does not matter.
LEMMA LinkedTurned ==
  ASSUME NEW next, NEW l, NEW s, NEW m, NEW t, Linked(next, l, s, m, t)
  PROVE  Linked(next, m, t, l, s)
  BY DEF Linked

\* The nodes of the lists differ.
LEMMA PlacesAre ==
  ASSUME NEW next, NEW l, NEW s, NEW m, NEW t, Linked(next, l, s, m, t)
  PROVE  /\ s \in Seq(Items) /\ Len(s) \in Nat
         /\ l \in L!Nodes /\ l \notin Items /\ l # NULL
         /\ \A i \in 1 .. Len(s) : Place(s, l, NULL, i) = s[i] /\ s[i] \in Items
                                   /\ s[i] \in ToSet(s)
         /\ \A i \in 0 .. Len(s) : Place(s, l, NULL, i) \in L!Nodes
         /\ Place(s, l, NULL, 0) = l /\ Place(s, l, NULL, Len(s) + 1) = NULL
         /\ \A i, j \in 0 .. Len(s) + 1 :
              Place(s, l, NULL, i) = Place(s, l, NULL, j) => i = j
         /\ \A i \in 0 .. Len(s) : \A j \in 0 .. Len(t) :
              Place(s, l, NULL, i) # Place(t, m, NULL, j)
<1>1. /\ s \in Seq(Items) /\ IsInjective(s) /\ t \in Seq(Items) /\ IsInjective(t)
      /\ ToSet(s) \cap ToSet(t) = {} /\ l # m
      /\ l \in {readyPrograms, waiting} /\ m \in {readyPrograms, waiting}
  BY DEF Linked
<1>2. /\ l \in L!Nodes /\ l \notin Items /\ l # NULL /\ m \notin Items /\ m # NULL
      /\ NULL \notin Items /\ Items \subseteq L!Nodes
  BY <1>1, NodesAre
<1>3. /\ Len(s) \in Nat
      /\ \A i \in 1 .. Len(s) : Place(s, l, NULL, i) = s[i] /\ s[i] \in Items /\ s[i] \in ToSet(s)
      /\ Place(s, l, NULL, 0) = l /\ Place(s, l, NULL, Len(s) + 1) = NULL
      /\ \A i, j \in 0 .. Len(s) + 1 : Place(s, l, NULL, i) = Place(s, l, NULL, j) => i = j
  BY <1>1, <1>2, PlacesDiffer
<1>4. /\ Len(t) \in Nat /\ Place(t, m, NULL, 0) = m
      /\ \A i \in 1 .. Len(t) : Place(t, m, NULL, i) = t[i] /\ t[i] \in Items /\ t[i] \in ToSet(t)
  BY <1>1, <1>2, PlacesDiffer
<1>5. \A i \in 0 .. Len(s) : i = 0 \/ i \in 1 .. Len(s)
  BY <1>3
<1>6. \A j \in 0 .. Len(t) : j = 0 \/ j \in 1 .. Len(t)
  BY <1>4
<1>7. \A i \in 0 .. Len(s) : Place(s, l, NULL, i) \in L!Nodes
  BY <1>2, <1>3, <1>5
<1>8. ASSUME NEW i \in 0 .. Len(s), NEW j \in 0 .. Len(t)
      PROVE  Place(s, l, NULL, i) # Place(t, m, NULL, j)
  BY <1>1, <1>2, <1>3, <1>4, <1>5, <1>6
<1>9. QED
  BY <1>1, <1>2, <1>3, <1>7, <1>8

\* What the operations read from the links.
LEMMA ReadsAre ==
  ASSUME NEW h, NEW l, NEW s, NEW m, NEW t, Linked(h.next, l, s, m, t)
  PROVE  /\ L!Contents(h, l) = s /\ L!Terminates(h, l)
         /\ L!Front(h, l) = IF s = <<>> THEN NULL ELSE s[1]
         /\ L!Back(h, l) = IF s = <<>> THEN NULL ELSE s[Len(s)]
<1>1. s \in Seq(Items) /\ IsInjective(s) /\ Forwards(h.next, l, s, NULL)
  BY DEF Linked
<1>2. L!Contents(h, l) = s /\ L!Terminates(h, l)
  BY <1>1, Visited
<1>3. Len(s) \in Nat /\ Place(s, l, NULL, 0) = l /\ 0 \in 0 .. Len(s)
  BY <1>1 DEF Place
<1>4. h.next[l] = Place(s, l, NULL, 0 + 1)
  BY <1>1, <1>3 DEF Forwards
<1>5. Place(s, l, NULL, 0 + 1) = IF s = <<>> THEN NULL ELSE s[1]
  BY <1>1, <1>3 DEF Place
<1>6. L!Front(h, l) = IF s = <<>> THEN NULL ELSE s[1]
  BY <1>4, <1>5 DEF L!Front
<1>7. s # <<>> => s[1] \in Items
  BY <1>1
<1>8. L!Back(h, l) = IF s = <<>> THEN NULL ELSE s[Len(s)]
  BY <1>2, <1>6, <1>7, NodesAre DEF L!Back, L!Size
<1>9. QED
  BY <1>2, <1>6, <1>8

\* An item put behind a place of a list: the list has it there, the other is the same.
LEMMA Spliced ==
  ASSUME NEW a, NEW l, NEW s, NEW m, NEW t, Linked(a, l, s, m, t),
         NEW p \in 0 .. Len(s), NEW x, Off(x, s, t),
         NEW r \in Seq(Items), Inserted(s, p, x, r), NEW b, Put(a, b, l, s, p, x)
  PROVE  Linked(b, l, r, m, t)
<1> DEFINE at(i) == Place(s, l, NULL, i)
           to(j) == Place(t, m, NULL, j)
<1>1. /\ b \in [L!Nodes -> Items \cup {NULL}]
      /\ \A n \in L!Nodes : b[n] = IF n = at(p) THEN x ELSE IF n = x THEN at(p + 1) ELSE a[n]
  BY DEF Put
<1>2. x \in Items /\ x \notin ToSet(s) /\ x \notin ToSet(t) /\ x \in L!Nodes
  BY NodesAre DEF Off
<1>3. /\ s \in Seq(Items) /\ Len(s) \in Nat /\ l \in L!Nodes /\ l \notin Items
      /\ \A i \in 1 .. Len(s) : at(i) = s[i] /\ s[i] \in Items /\ s[i] \in ToSet(s)
      /\ \A i \in 0 .. Len(s) : at(i) \in L!Nodes
      /\ at(0) = l
      /\ \A i, j \in 0 .. Len(s) + 1 : at(i) = at(j) => i = j
      /\ \A i \in 0 .. Len(s) : \A j \in 0 .. Len(t) : at(i) # to(j)
  BY PlacesAre
<1>4. /\ Len(t) \in Nat /\ m \notin Items /\ to(0) = m
      /\ \A j \in 1 .. Len(t) : to(j) = t[j] /\ t[j] \in ToSet(t)
      /\ \A j \in 0 .. Len(t) : to(j) \in L!Nodes
  <2>1. Linked(a, m, t, l, s)
    BY LinkedTurned
  <2>2. QED
    BY <2>1, PlacesAre
<1>5. /\ IsInjective(s) /\ Forwards(a, l, s, NULL) /\ t \in Seq(Items) /\ IsInjective(t)
      /\ Forwards(a, m, t, NULL) /\ ToSet(s) \cap ToSet(t) = {} /\ l # m
      /\ l \in {readyPrograms, waiting} /\ m \in {readyPrograms, waiting}
  BY DEF Linked
<1>6. \A i \in 0 .. Len(s) : at(i) # x
  <2> TAKE i \in 0 .. Len(s)
  <2>1. i = 0 \/ i \in 1 .. Len(s)
    BY <1>3
  <2>2. QED
    BY <1>2, <1>3, <2>1
<1>7. \A j \in 0 .. Len(t) : to(j) # x
  <2> TAKE j \in 0 .. Len(t)
  <2>1. j = 0 \/ j \in 1 .. Len(t)
    BY <1>4
  <2>2. QED
    BY <1>2, <1>4, <2>1
<1>8. IsInjective(r) /\ ToSet(r) = ToSet(s) \cup {x}
  BY <1>2, <1>3, <1>5, InsertedOnce
<1>9. p \in 0 .. Len(s) + 1 /\ \A i \in 0 .. Len(s) : i \in 0 .. Len(s) + 1
  BY <1>3
<1>10. b[at(p)] = x /\ b[x] = at(p + 1)
  BY <1>1, <1>2, <1>3, <1>6
<1>11. \A i \in 0 .. Len(s) : i # p => b[at(i)] = a[at(i)]
  BY <1>1, <1>3, <1>6, <1>9
<1>12. NextPut(a, b, s, l, NULL, p, x)
  BY <1>10, <1>11 DEF NextPut
<1>13. Forwards(b, l, r, NULL)
  BY <1>3, <1>5, <1>12, InsertedForwards
<1>14. \A j \in 0 .. Len(t) : b[to(j)] = a[to(j)]
  BY <1>1, <1>3, <1>4, <1>7
<1>15. Forwards(b, m, t, NULL)
  BY <1>5, <1>14 DEF Forwards
<1>16. ToSet(r) \cap ToSet(t) = {}
  BY <1>2, <1>5, <1>8
<1>17. QED
  BY <1>1, <1>5, <1>8, <1>13, <1>15, <1>16 DEF Linked

\* The first item taken out.
LEMMA TakenOut ==
  ASSUME NEW a, NEW l, NEW s, NEW m, NEW t, Linked(a, l, s, m, t), s # <<>>,
         NEW r \in Seq(Items), Removed(s, 1, r), NEW b, FirstTaken(a, b, l, s)
  PROVE  Linked(b, l, r, m, t)
<1> DEFINE at(i) == Place(s, l, NULL, i)
           to(j) == Place(t, m, NULL, j)
<1>1. /\ b \in [L!Nodes -> Items \cup {NULL}]
      /\ \A n \in L!Nodes : n # s[1] => b[n] = IF n = l THEN at(2) ELSE a[n]
  BY DEF FirstTaken
<1>2. /\ s \in Seq(Items) /\ Len(s) \in Nat /\ l \in L!Nodes /\ l \notin Items
      /\ \A i \in 1 .. Len(s) : at(i) = s[i] /\ s[i] \in Items /\ s[i] \in ToSet(s)
      /\ \A i \in 0 .. Len(s) : at(i) \in L!Nodes
      /\ at(0) = l
      /\ \A i, j \in 0 .. Len(s) + 1 : at(i) = at(j) => i = j
      /\ \A i \in 0 .. Len(s) : \A j \in 0 .. Len(t) : at(i) # to(j)
  BY PlacesAre
<1>3. \A j \in 0 .. Len(t) : to(j) \in L!Nodes
  <2>1. Linked(a, m, t, l, s)
    BY LinkedTurned
  <2>2. QED
    BY <2>1, PlacesAre
<1>4. /\ IsInjective(s) /\ Forwards(a, l, s, NULL) /\ t \in Seq(Items) /\ IsInjective(t)
      /\ Forwards(a, m, t, NULL) /\ ToSet(s) \cap ToSet(t) = {} /\ l # m
      /\ l \in {readyPrograms, waiting} /\ m \in {readyPrograms, waiting}
  BY DEF Linked
<1>5. 1 \in 1 .. Len(s) /\ 1 \in 0 .. Len(s) /\ 0 \in 0 .. Len(s)
  BY <1>2
<1>6. IsInjective(r) /\ ToSet(r) = ToSet(s) \ {s[1]}
  BY <1>2, <1>4, <1>5, RemovedOnce
<1>7. \A i \in 0 .. Len(s) : i # 1 => at(i) # s[1]
  BY <1>2, <1>5
<1>8. \A i \in 0 .. Len(s) : i # 0 => at(i) # l
  BY <1>2, <1>5
<1>9. b[at(1 - 1)] = at(1 + 1)
  BY <1>1, <1>2, <1>5, <1>7
<1>10. \A i \in 0 .. Len(s) : i \notin {1 - 1, 1} => b[at(i)] = a[at(i)]
  BY <1>1, <1>2, <1>7, <1>8
<1>11. NextTaken(a, b, s, l, NULL, 1)
  BY <1>9, <1>10 DEF NextTaken
<1>12. Forwards(b, l, r, NULL)
  BY <1>2, <1>4, <1>5, <1>11, RemovedForwards
<1>13. \A j \in 0 .. Len(t) : to(j) # s[1] /\ to(j) # l
  BY <1>2, <1>5
<1>14. \A j \in 0 .. Len(t) : b[to(j)] = a[to(j)]
  BY <1>1, <1>3, <1>13
<1>15. Forwards(b, m, t, NULL)
  BY <1>4, <1>14 DEF Forwards
<1>16. ToSet(r) \cap ToSet(t) = {}
  BY <1>4, <1>6
<1>17. QED
  BY <1>1, <1>4, <1>6, <1>12, <1>15, <1>16 DEF Linked

\* push_back
LEMMA PushBackIs ==
  ASSUME NEW h, NEW l, NEW s, NEW m, NEW t, Linked(h.next, l, s, m, t),
         NEW x, Off(x, s, t)
  PROVE  Linked(L!PushBack(h, l, x).next, l, Append(s, x), m, t)
<1> DEFINE at(i) == Place(s, l, NULL, i)
           tail == IF L!Back(h, l) = NULL THEN l ELSE L!Back(h, l)
           a == h.next
           b == [h.next EXCEPT ![tail] = x, ![x] = NULL]
           r == Append(s, x)
<1>1. /\ s \in Seq(Items) /\ Len(s) \in Nat /\ l \in L!Nodes /\ l \notin Items /\ l # NULL
      /\ \A i \in 1 .. Len(s) : at(i) = s[i] /\ s[i] \in Items /\ s[i] \in ToSet(s)
      /\ \A i \in 0 .. Len(s) : at(i) \in L!Nodes
      /\ at(0) = l /\ at(Len(s) + 1) = NULL
  BY PlacesAre
<1>2. x \in Items /\ x \notin ToSet(s) /\ x \in L!Nodes /\ NULL \notin Items
  BY NodesAre DEF Off
<1>3. tail = at(Len(s)) /\ tail \in L!Nodes /\ tail # x
  <2>1. s = <<>> <=> Len(s) = 0
    BY <1>1
  <2>2. L!Back(h, l) = IF s = <<>> THEN NULL ELSE s[Len(s)]
    BY ReadsAre
  <2>3. CASE Len(s) = 0
    BY <1>1, <1>2, <2>1, <2>2, <2>3
  <2>4. CASE Len(s) # 0
    <3>1. Len(s) \in 1 .. Len(s)
      BY <1>1, <2>4
    <3>2. QED
      BY <1>1, <1>2, <2>1, <2>2, <2>4, <3>1
  <2>5. QED
    BY <2>3, <2>4
<1>4. L!PushBack(h, l, x).next = b
  BY DEF L!PushBack
<1> HIDE DEF tail
<1>5. a \in [L!Nodes -> Items \cup {NULL}]
  BY DEF Linked
<1>6. b \in [L!Nodes -> Items \cup {NULL}]
  BY <1>2, <1>3, <1>5
<1>7. \A n \in L!Nodes : b[n] = IF n = at(Len(s)) THEN x
                                ELSE IF n = x THEN at(Len(s) + 1) ELSE a[n]
  BY <1>1, <1>2, <1>3, <1>5
<1>8. r \in Seq(Items) /\ Inserted(s, Len(s), x, r)
  BY <1>1, <1>2, Insertions
<1>9. Len(s) \in 0 .. Len(s) /\ Linked(a, l, s, m, t)
  BY <1>1
<1> HIDE DEF a, b, r
<1>10. Put(a, b, l, s, Len(s), x)
  BY <1>6, <1>7 DEF Put
<1>11. Linked(b, l, r, m, t)
  BY <1>8, <1>9, <1>10, Spliced
<1>12. QED
  BY <1>4, <1>11 DEF r

\* push_front, its two statements about next: the head and then the item.
LEMMA PushFrontIs ==
  ASSUME NEW a, NEW l, NEW s, NEW m, NEW t, Linked(a, l, s, m, t),
         NEW x, Off(x, s, t)
  PROVE  Linked([a EXCEPT ![l] = x, ![x] = a[l]], l, <<x>> \o s, m, t)
<1> DEFINE at(i) == Place(s, l, NULL, i)
           b == [a EXCEPT ![l] = x, ![x] = a[l]]
           r == <<x>> \o s
<1>1. /\ s \in Seq(Items) /\ Len(s) \in Nat /\ l \in L!Nodes /\ l \notin Items
      /\ at(0) = l /\ 0 \in 0 .. Len(s)
  BY PlacesAre
<1>2. x \in Items /\ x \in L!Nodes /\ x # l
  BY <1>1, NodesAre DEF Off
<1>3. a \in [L!Nodes -> Items \cup {NULL}] /\ Forwards(a, l, s, NULL)
  BY DEF Linked
<1>4. a[l] = at(0 + 1)
  BY <1>1, <1>3 DEF Forwards
<1> HIDE DEF at
<1>5. b \in [L!Nodes -> Items \cup {NULL}]
  BY <1>1, <1>2, <1>3
<1>6. \A n \in L!Nodes : b[n] = IF n = at(0) THEN x ELSE IF n = x THEN at(0 + 1) ELSE a[n]
  BY <1>1, <1>2, <1>3, <1>4
<1>7. r \in Seq(Items) /\ Inserted(s, 0, x, r)
  BY <1>1, <1>2, Insertions
<1> HIDE DEF b, r
<1>8. Put(a, b, l, s, 0, x)
  BY <1>5, <1>6 DEF Put, at
<1>9. Linked(b, l, r, m, t)
  BY <1>1, <1>7, <1>8, Spliced
<1>10. QED
  BY <1>9 DEF b, r

\* pop_front of a list that is not empty.
LEMMA PopFrontIs ==
  ASSUME NEW h, NEW l, NEW s, NEW m, NEW t, Linked(h.next, l, s, m, t), s # <<>>
  PROVE  Linked(L!PopFront(h, l).next, l, Tail(s), m, t)
<1> DEFINE at(i) == Place(s, l, NULL, i)
           a == h.next
           b == [h.next EXCEPT ![l] = h.next[s[1]], ![s[1]] = NULL]
           r == Tail(s)
<1>1. /\ s \in Seq(Items) /\ Len(s) \in Nat /\ l \in L!Nodes /\ l \notin Items
      /\ \A i \in 1 .. Len(s) : at(i) = s[i] /\ s[i] \in Items
      /\ at(0) = l
  BY PlacesAre
<1>2. 1 \in 1 .. Len(s) /\ 0 \in 0 .. Len(s) /\ 1 \in 0 .. Len(s)
  BY <1>1
<1>3. a \in [L!Nodes -> Items \cup {NULL}] /\ Forwards(a, l, s, NULL)
  BY DEF Linked
<1>4. a[l] = s[1] /\ a[s[1]] = at(2)
  <2>1. a[at(0)] = at(0 + 1) /\ a[at(1)] = at(1 + 1)
    BY <1>2, <1>3 DEF Forwards
  <2>2. QED
    BY <1>1, <1>2, <2>1
<1>5. s[1] \in Items /\ s[1] \in L!Nodes /\ s[1] # NULL /\ s[1] # l
  BY <1>1, <1>2, NodesAre
<1>6. L!PopFront(h, l).next = b
  BY <1>4, <1>5 DEF L!PopFront
<1>7. at(2) \in Items \cup {NULL}
  BY <1>3, <1>4, <1>5
<1>8. b \in [L!Nodes -> Items \cup {NULL}]
  BY <1>1, <1>3, <1>4, <1>5, <1>7
<1>9. \A n \in L!Nodes : n # s[1] => b[n] = IF n = l THEN at(2) ELSE a[n]
  BY <1>1, <1>3, <1>4, <1>5
<1>10. r \in Seq(Items) /\ Removed(s, 1, r)
  BY <1>1, Removals
<1>11. Linked(a, l, s, m, t)
  OBVIOUS
<1> HIDE DEF a, b, r
<1>12. FirstTaken(a, b, l, s)
  BY <1>8, <1>9 DEF FirstTaken
<1>13. Linked(b, l, r, m, t)
  BY <1>10, <1>11, <1>12, TakenOut
<1>14. QED
  BY <1>6, <1>13 DEF r

-----------------------------------------------------------------------------
\* The variables Shape says nothing about.
Typed ==
  /\ links.previous \in [L!Nodes -> L!Nodes \cup {NULL}]
  /\ status \in [Items -> {"RUNNING", "READY", "BLOCKED"}]

\* back() finds an item or nothing, whatever a switch has made of the links.
LEMMA BackTyped ==
  ASSUME NEW h, h.next \in [L!Nodes -> Items \cup {NULL}], NEW l \in L!Nodes
  PROVE  L!Back(h, l) \in Items \cup {NULL}
<1> DEFINE C == Cardinality(Items)
           next == h.next
           nth[i \in 0 .. C] ==
             IF i = 0 THEN next[l]
             ELSE IF nth[i - 1] = NULL THEN NULL ELSE next[nth[i - 1]]
<1>1. L!Nth(h, l) = nth
  BY SameCardinality, Zenon DEF L!Nth
<1>2. C \in Nat /\ next \in [L!Nodes -> Items \cup {NULL}] /\ Items \subseteq L!Nodes
      /\ IsFiniteSet(Items)
  BY NodesAre, FS_CardinalityType
<1> HIDE DEF C, next
<1>3. nth = [i \in 0 .. C |-> IF i = 0 THEN next[l]
                              ELSE IF nth[i - 1] = NULL THEN NULL ELSE next[nth[i - 1]]]
  <2>1. PICK n : Walk(n, C, next, l, NULL)
    BY <1>2, WalkExists
  <2> DEFINE g == [i \in 0 .. C |-> n[i]]
  <2>2. \A i \in 0 .. C : i # 0 => i - 1 \in 0 .. C
    BY <1>2
  <2>3. \A i \in 0 .. C : g[i] = IF i = 0 THEN next[l]
                                 ELSE IF g[i - 1] = NULL THEN NULL ELSE next[g[i - 1]]
    BY <2>1, <2>2 DEF Walk
  <2>4. g = [i \in 0 .. C |-> IF i = 0 THEN next[l]
                              ELSE IF g[i - 1] = NULL THEN NULL ELSE next[g[i - 1]]]
    <3>1. g = [i \in 0 .. C |-> g[i]]
      OBVIOUS
    <3> HIDE DEF g
    <3>2. QED
      BY <2>3, <3>1
  <2> HIDE DEF g
  <2>5. QED
    BY <2>4, Zenon
<1> HIDE DEF nth
<1>4. /\ DOMAIN nth = 0 .. C
      /\ \A i \in 0 .. C : nth[i] = IF i = 0 THEN next[l]
                                    ELSE IF nth[i - 1] = NULL THEN NULL ELSE next[nth[i - 1]]
  BY <1>3
<1>5. \A i \in 0 .. C : nth[i] \in Items \cup {NULL}
  <2> DEFINE T == {i \in 0 .. C : nth[i] \notin Items \cup {NULL}}
  <2>1. ASSUME T # {} PROVE FALSE
    <3>1. T \subseteq Nat
      BY <1>2
    <3> HIDE DEF T
    <3>2. PICK i \in T : \A j \in T : i <= j
      BY <2>1, <3>1, Least
    <3> USE DEF T
    <3>3. CASE i = 0
      BY <1>2, <1>4, <3>2, <3>3
    <3>4. CASE i # 0
      <4>1. i - 1 \in 0 .. C /\ i - 1 \notin T
        BY <1>2, <3>2, <3>4
      <4>2. nth[i - 1] \in Items \cup {NULL}
        BY <4>1
      <4>3. QED
        BY <1>2, <1>4, <3>2, <3>4, <4>2
    <3>5. QED
      BY <3>3, <3>4
  <2>2. QED
    BY <2>1
<1> DEFINE J == {j \in DOMAIN nth : nth[j] # NULL}
           k == Cardinality(J)
           s == [i \in 1 .. k |-> nth[i - 1]]
<1>6. L!Contents(h, l) = s
  BY <1>1, SameCardinality DEF L!Contents
<1>7. IsFiniteSet(0 .. C) /\ Cardinality(0 .. C) = (C - 0) + 1
  BY <1>2, Interval
<1>8. J \subseteq 0 .. C
  BY <1>4
<1> HIDE DEF J
<1>9. k \in Nat /\ k <= C + 1 /\ (J # {} => k # 0)
  <2>1. IsFiniteSet(J) /\ Cardinality(J) <= Cardinality(0 .. C)
    BY <1>7, <1>8, FS_Subset
  <2>2. Cardinality(J) \in Nat /\ (Cardinality(J) = 0 <=> J = {})
    BY <2>1, FS_CardinalityType, FS_EmptySet
  <2>3. QED
    BY <1>2, <1>7, <2>1, <2>2
<1> HIDE DEF k
<1>10. s \in Seq(Items \cup {NULL}) /\ Len(s) = k
  <2>1. \A i \in 1 .. k : i - 1 \in 0 .. C
    BY <1>2, <1>9
  <2>2. \A i \in 1 .. k : nth[i - 1] \in Items \cup {NULL}
    BY <1>5, <2>1
  <2>3. s \in [1 .. k -> Items \cup {NULL}]
    BY <2>2
  <2> HIDE DEF s
  <2>4. QED
    BY <1>9, <2>3
<1>11. CASE L!Front(h, l) = NULL
  BY <1>11 DEF L!Back
<1>12. CASE L!Front(h, l) # NULL
  <2>1. 0 \in J
    BY <1>2, <1>4, <1>12 DEF J, L!Front, next
  <2>2. k \in 1 .. k
    BY <1>9, <2>1
  <2>3. s[k] \in Items \cup {NULL}
    BY <1>10, <2>2
  <2> HIDE DEF s
  <2>4. L!Back(h, l) = s[k]
    BY <1>6, <1>10, <1>12 DEF L!Back, L!Size
  <2>5. QED
    BY <2>3, <2>4
<1>13. QED
  BY <1>11, <1>12

\* push_back and pop_front leave previous a node or NULL.
LEMMA PreviousTyped ==
  ASSUME NEW h, h.next \in [L!Nodes -> Items \cup {NULL}],
         h.previous \in [L!Nodes -> L!Nodes \cup {NULL}], NEW l \in {readyPrograms, waiting}
  PROVE  /\ \A x \in Items : L!PushBack(h, l, x).previous \in [L!Nodes -> L!Nodes \cup {NULL}]
         /\ L!PopFront(h, l).previous \in [L!Nodes -> L!Nodes \cup {NULL}]
<1>1. l \in L!Nodes /\ Items \subseteq L!Nodes
  BY NodesAre
<1>2. ASSUME NEW x \in Items
      PROVE  L!PushBack(h, l, x).previous \in [L!Nodes -> L!Nodes \cup {NULL}]
  <2> DEFINE tail == IF L!Back(h, l) = NULL THEN l ELSE L!Back(h, l)
  <2>1. tail \in L!Nodes
    BY <1>1, BackTyped
  <2>2. L!PushBack(h, l, x).previous = [h.previous EXCEPT ![x] = tail]
    BY DEF L!PushBack
  <2> HIDE DEF tail
  <2>3. QED
    BY <2>1, <2>2
<1>3. L!PopFront(h, l).previous \in [L!Nodes -> L!Nodes \cup {NULL}]
  <2>1. CASE h.next[l] = NULL
    BY <2>1 DEF L!PopFront
  <2>2. CASE h.next[l] # NULL
    <3> DEFINE of(n) == CASE n = h.next[l] -> NULL
                          [] n = h.next[h.next[l]] /\ n # h.next[l] -> l
                          [] OTHER -> h.previous[n]
    <3>1. L!PopFront(h, l).previous = [n \in L!Nodes |-> of(n)]
      BY <2>2 DEF L!PopFront
    <3>2. \A n \in L!Nodes : of(n) \in L!Nodes \cup {NULL}
      BY <1>1
    <3> HIDE DEF of
    <3>3. QED
      BY <3>1, <3>2
  <2>3. QED
    BY <2>1, <2>2
<1>4. QED
  BY <1>2, <1>3

\* schedule()
LEMMA ScheduleTyped == ASSUME Shape, Typed, Schedule PROVE Typed'
<1> DEFINE preempted == status[running] = "RUNNING"
           queued == IF preempted THEN L!PushBack(links, readyPrograms, running) ELSE links
           next == L!Front(queued, readyPrograms)
           parked == IF preempted THEN [status EXCEPT ![running] = "READY"] ELSE status
<1>1. /\ links.next \in [L!Nodes -> Items \cup {NULL}] /\ running \in Items
      /\ links.previous \in [L!Nodes -> L!Nodes \cup {NULL}]
      /\ status \in [Items -> {"RUNNING", "READY", "BLOCKED"}]
  BY DEF Shape, Typed
<1>2. /\ queued.next \in [L!Nodes -> Items \cup {NULL}]
      /\ queued.previous \in [L!Nodes -> L!Nodes \cup {NULL}]
  BY <1>1, PushBackLinks, PreviousTyped
<1>3. parked \in [Items -> {"RUNNING", "READY", "BLOCKED"}]
  BY <1>1
<1> HIDE DEF queued, parked
<1>4. L!PopFront(queued, readyPrograms).previous \in [L!Nodes -> L!Nodes \cup {NULL}]
  BY <1>2, PreviousTyped
<1>5. \/ links' = links /\ status' = status
      \/ links' = L!PopFront(queued, readyPrograms) /\ status' = [parked EXCEPT ![next] = "RUNNING"]
  BY DEF Schedule, queued, parked
<1>6. QED
  BY <1>1, <1>3, <1>4, <1>5 DEF Typed

\* Every step leaves the types.
LEMMA TypedKeeps == ASSUME IInv, Typed, [Next]_vars PROVE Typed'
<1>1. /\ links.next \in [L!Nodes -> Items \cup {NULL}] /\ running \in Items
      /\ links.previous \in [L!Nodes -> L!Nodes \cup {NULL}]
      /\ status \in [Items -> {"RUNNING", "READY", "BLOCKED"}]
      /\ links = [next |-> links.next, previous |-> links.previous]
      /\ \A t \in Items : pc[t] \in Waking => program[t] \in Items
      /\ readyPrograms \in L!Nodes /\ waiting \in L!Nodes /\ Items \subseteq L!Nodes
      /\ Shape
  BY NodesAre DEF IInv, Shape, Typed
<1>2. ASSUME UNCHANGED <<links, status>> PROVE Typed'
  BY <1>2 DEF Typed
<1>3. CASE TimerSchedule \/ PSchedule
  BY <1>1, <1>3, ScheduleTyped DEF TimerSchedule, PSchedule
<1>4. CASE PWait
  BY <1>1, <1>4, PreviousTyped DEF PWait, Typed
<1>5. CASE PBlock
  BY <1>1, <1>5 DEF PBlock, Typed
<1>6. CASE VIncrement
  BY <1>1, <1>6, PreviousTyped DEF VIncrement, Typed
<1>7. CASE WakeUp
  <2>1. program[running] \in Items
    BY <1>1, <1>7 DEF WakeUp, Step, Waking
  <2>2. QED
    BY <1>1, <1>7, <2>1 DEF WakeUp, Typed
<1>8. CASE PushFrontReads
  <2> DEFINE b == [links.previous EXCEPT ![links.next[readyPrograms]] = program[running]]
  <2>1. program[running] \in Items /\ status' = status
    BY <1>1, <1>8 DEF PushFrontReads, Step, Waking
  <2>2. links' = links \/ links' = [links EXCEPT !.previous = b]
    BY <1>8 DEF PushFrontReads
  <2>3. b \in [L!Nodes -> L!Nodes \cup {NULL}]
    BY <1>1, <2>1
  <2> HIDE DEF b
  <2>4. links'.previous \in [L!Nodes -> L!Nodes \cup {NULL}]
    BY <1>1, <2>2, <2>3
  <2>5. QED
    BY <1>1, <2>1, <2>4 DEF Typed
<1>9. CASE PushFrontHead
  <2> DEFINE a == [links.next EXCEPT ![readyPrograms] = program[running]]
  <2>1. links' = [links EXCEPT !.next = a] /\ status' = status
    BY <1>9 DEF PushFrontHead
  <2> HIDE DEF a
  <2>2. links'.previous = links.previous
    BY <1>1, <2>1
  <2>3. QED
    BY <1>1, <2>1, <2>2 DEF Typed
<1>10. CASE PushFrontItem
  <2> DEFINE b == [links.previous EXCEPT ![program[running]] = readyPrograms]
             a == [links.next EXCEPT ![program[running]] = temp[running]]
  <2>1. links' = [[links EXCEPT !.previous = b] EXCEPT !.next = a] /\ status' = status
    BY <1>1, <1>10 DEF PushFrontItem
  <2>2. b \in [L!Nodes -> L!Nodes \cup {NULL}]
    BY <1>1
  <2> HIDE DEF a, b
  <2>3. links'.previous = b
    BY <1>1, <2>1
  <2>4. QED
    BY <1>1, <2>1, <2>2, <2>3 DEF Typed
<1>11. CASE Hung \/ Spin \/ CallP \/ CallV \/ PTest \/ PTake \/ PRestore \/ UNCHANGED vars
  BY <1>2, <1>11 DEF Hung, Spin, CallP, CallV, PTest, PTake, PRestore, vars
<1>12. ASSUME NEW from, NEW to, Lock(from, to) \/ Unlock(from, to) PROVE Typed'
  BY <1>2, <1>12 DEF Lock, Unlock
<1>13. QED
  BY <1>3, <1>4, <1>5, <1>6, <1>7, <1>8, <1>9, <1>10, <1>11, <1>12 DEF Next, P, V

\* The first links and status are typed.
LEMMA InitTyped == Init => Typed
<1> SUFFICES ASSUME Init PROVE Typed
  OBVIOUS
<1>1. \A n \in L!Nodes : (IF n = 1 THEN readyPrograms
                          ELSE IF n \in 2 .. N THEN n - 1 ELSE NULL) \in L!Nodes \cup {NULL}
  <2>1. \A n \in 2 .. N : n - 1 \in Items
    BY SemaphoreAssumption DEF Items
  <2>2. QED
    BY <2>1, NodesAre
<1>2. links.previous \in [L!Nodes -> L!Nodes \cup {NULL}]
  BY <1>1 DEF Init
<1>3. status \in [Items -> {"RUNNING", "READY", "BLOCKED"}]
  BY DEF Init
<1>4. QED
  BY <1>2, <1>3 DEF Typed

-----------------------------------------------------------------------------
\* Where a thread can be that is not running when interrupts are disabled in P and V.
Suspended == {"idle", "out", "P_restore"}

\* next as it is but for the head of readyPrograms, which push_front has moved
\* before it links the rest behind the new first item.
Intact == IF pc[running] = "V_item" THEN [links.next EXCEPT ![readyPrograms] = temp[running]]
          ELSE links.next

Ready == L!Contents([next |-> Intact], readyPrograms)
Waiting == L!Contents([next |-> Intact], waiting)

\* The threads that are to be on readyPrograms, and those that are to be on waiting.
Queued == {t \in Items : status[t] = "READY" /\ t \notin InWakeUp}
Asleep == {t \in Items : \/ status[t] = "BLOCKED" /\ t \notin InWakeUp
                         \/ t = running /\ pc[t] = "P_block"}

\* Only the running thread is inside P or V, and its locals are what it has read.
Turns ==
  /\ \A t \in Items \ {running} : pc[t] \in Suspended
  /\ \A t \in Items : pc[t] = "idle" <=> t = 0
  /\ \A t \in Items : program[t] # NULL <=> pc[t] \in Waking
  /\ pc[running] = "P_wait" => counter = 0
  /\ pc[running] \in {"V_head", "V_item"} => temp[running] = Intact[readyPrograms]
  /\ pc[running] = "V_item" => links.next[readyPrograms] = program[running]

\* The status of the threads, and of the one that a V has taken off waiting.
States ==
  /\ status[running] = IF pc[running] \in {"P_unlock", "P_schedule"} THEN "BLOCKED"
                       ELSE "RUNNING"
  /\ running \notin InWakeUp
  /\ \A t \in Items \ {running} :
       /\ status[t] \in {"READY", "BLOCKED"}
       /\ t \in InWakeUp =>
            status[t] = IF pc[running] \in {"V_unlock", "V_wake"} THEN "BLOCKED" ELSE "READY"
       /\ status[t] = "BLOCKED" \/ t \in InWakeUp => pc[t] = "P_restore"

\* The links are those of two lists, which hold the threads they are to hold.
ListsHold ==
  /\ Linked(Intact, readyPrograms, Ready, waiting, Waiting)
  /\ ToSet(Ready) = Queued /\ ToSet(Waiting) = Asleep

\* The labels behind which the counter will be looked at.
Trying == {"P_schedule", "P_restore", "P_lock", "P_test", "P_take"}

\* The threads that will look at the counter, and that they are enough for it.
Coming == {t \in Threads \ Asleep : pc[t] \in Trying \/ t \in InWakeUp}
Permits == Asleep # {} => counter <= Cardinality(Coming)

Undisturbed == Turns /\ States /\ ListsHold /\ Permits

-----------------------------------------------------------------------------
\* Lists that are linked are those that are read.
LEMMA Becomes ==
  ASSUME NEW r, NEW w, Linked(Intact', readyPrograms, r, waiting, w),
         ToSet(r) = Queued', ToSet(w) = Asleep'
  PROVE  ListsHold'
<1> DEFINE h == [next |-> Intact']
<1>1. h.next = Intact'
  OBVIOUS
<1>2. Linked(h.next, readyPrograms, r, waiting, w)
  BY <1>1
<1>3. Linked(h.next, waiting, w, readyPrograms, r)
  BY <1>2, LinkedTurned
<1> HIDE DEF h
<1>4. L!Contents(h, readyPrograms) = r /\ L!Contents(h, waiting) = w
  BY <1>2, <1>3, ReadsAre
<1>5. Ready' = r /\ Waiting' = w
  BY <1>4 DEF h, Ready, Waiting
<1>6. QED
  BY <1>5 DEF ListsHold

\* Nothing changes on the lists.
LEMMA ListsStay ==
  ASSUME ListsHold, Intact' = Intact, Queued' = Queued, Asleep' = Asleep
  PROVE  ListsHold'
<1>1. Linked(Intact', readyPrograms, Ready, waiting, Waiting)
      /\ ToSet(Ready) = Queued' /\ ToSet(Waiting) = Asleep'
  BY DEF ListsHold
<1>2. QED
  BY <1>1, Becomes

\* Who is being woken up: at most the program of the running thread.
LEMMA WokenIs ==
  ASSUME Shape, Turns
  PROVE  /\ pc[running] \in Waking =>
              InWakeUp = {program[running]} /\ program[running] \in Items
         /\ pc[running] \notin Waking => InWakeUp = {} /\ \A t \in Items : program[t] = NULL
<1>1. \A t \in Items \ {running} : pc[t] \notin Waking /\ program[t] = NULL
  BY DEF Turns, Suspended, Waking
<1>2. running \in Items /\ (program[running] # NULL <=> pc[running] \in Waking)
  BY DEF Shape, Turns
<1>3. pc[running] \in Waking => program[running] \in Items
  BY <1>2 DEF Shape
<1>4. CASE pc[running] \in Waking
  BY <1>1, <1>2, <1>3, <1>4 DEF InWakeUp
<1>5. CASE pc[running] \notin Waking
  BY <1>1, <1>2, <1>5 DEF InWakeUp
<1>6. QED
  BY <1>4, <1>5

\* The sets of threads are finite.
LEMMA ComingFinite == IsFiniteSet(Coming) /\ IsFiniteSet(Coming') /\ Coming \subseteq Items
<1>1. Coming \subseteq Items /\ Coming' \subseteq Items
  BY SemaphoreAssumption DEF Coming, Threads, Items
<1>2. QED
  BY <1>1, NodesAre, FS_Subset

\* Enough threads remain on their way when none of them stops and no permit is added.
LEMMA PermitsStay ==
  ASSUME Permits, Asleep' = Asleep, Coming \subseteq Coming', counter' = counter,
         counter \in Nat
  PROVE  Permits'
<1>1. Cardinality(Coming) <= Cardinality(Coming') /\ Cardinality(Coming) \in Nat
      /\ Cardinality(Coming') \in Nat
  BY ComingFinite, FS_Subset, FS_CardinalityType
<1>2. QED
  BY <1>1 DEF Permits

\* Labels between which a thread goes without a change to anything but the counter.
Alike(from, to) ==
  /\ from \notin {"idle", "V_item", "P_block"}
  /\ to \notin {"idle", "V_head", "V_item", "P_block"}
  /\ from \in Waking <=> to \in Waking
  /\ from \in {"P_unlock", "P_schedule"} <=> to \in {"P_unlock", "P_schedule"}
  /\ from \in {"V_unlock", "V_wake"} <=> to \in {"V_unlock", "V_wake"}

\* A step between such labels.
LEMMA AlikeKeeps ==
  ASSUME Shape, Turns, States, ListsHold, NEW from, NEW to, Step(from, to), Alike(from, to),
         to = "P_wait" => counter' = 0, UNCHANGED <<links, running, status, program, temp>>
  PROVE  /\ Turns' /\ States' /\ ListsHold'
         /\ Asleep' = Asleep /\ InWakeUp' = InWakeUp
         /\ pc[running] = from /\ pc' = [pc EXCEPT ![running] = to]
<1>1. /\ running \in Items /\ pc \in [Items -> Labels] /\ pc[running] = from
      /\ pc' = [pc EXCEPT ![running] = to]
      /\ links' = links /\ running' = running /\ status' = status
      /\ program' = program /\ temp' = temp
  BY DEF Shape, Step, Goto
<1>2. /\ pc'[running] = to
      /\ \A t \in Items \ {running} : pc'[t] = pc[t]
  BY <1>1
<1>3. /\ from \notin {"idle", "V_item", "P_block"}
      /\ to \notin {"idle", "V_head", "V_item", "P_block"}
      /\ from \in Waking <=> to \in Waking
      /\ from \in {"P_unlock", "P_schedule"} <=> to \in {"P_unlock", "P_schedule"}
      /\ from \in {"V_unlock", "V_wake"} <=> to \in {"V_unlock", "V_wake"}
  BY DEF Alike
<1>4. InWakeUp' = InWakeUp
  BY <1>1 DEF InWakeUp
<1>5. Intact' = Intact
  BY <1>1, <1>2, <1>3 DEF Intact
<1>6. Queued' = Queued
  BY <1>1, <1>4 DEF Queued
<1>7. Asleep' = Asleep
  BY <1>1, <1>2, <1>3, <1>4 DEF Asleep
<1>8. ListsHold'
  BY <1>5, <1>6, <1>7, ListsStay
<1>9. Turns'
  BY <1>1, <1>2, <1>3 DEF Turns
<1>10. States'
  BY <1>1, <1>2, <1>3, <1>4 DEF States
<1>11. QED
  BY <1>1, <1>4, <1>7, <1>8, <1>9, <1>10

\* The step of a thread that goes on trying, or finds the counter zero.
LEMMA QuietStays ==
  ASSUME Shape, Undisturbed, NEW from, NEW to, Step(from, to), Alike(from, to),
         to = "P_wait" => counter = 0, from \in Trying => to \in Trying \/ counter = 0,
         UNCHANGED <<counter, links, running, status, program, temp>>
  PROVE  Undisturbed'
<1>1. /\ Turns' /\ States' /\ ListsHold' /\ Asleep' = Asleep /\ InWakeUp' = InWakeUp
      /\ pc[running] = from /\ pc' = [pc EXCEPT ![running] = to]
  BY AlikeKeeps DEF Undisturbed
<1>2. counter \in Nat /\ running \in Items /\ pc \in [Items -> Labels] /\ counter' = counter
  BY DEF Shape
<1>3. CASE counter = 0
  <2>1. Cardinality(Coming') \in Nat
    BY ComingFinite, FS_CardinalityType
  <2>2. Permits'
    BY <1>2, <1>3, <2>1 DEF Permits
  <2>3. QED
    BY <1>1, <2>2 DEF Undisturbed
<1>4. CASE counter # 0
  <2>1. from \in Trying => to \in Trying
    BY <1>4
  <2>2. \A t \in Items : pc[t] \in Trying => pc'[t] \in Trying
    BY <1>1, <1>2, <2>1
  <2>3. Coming \subseteq Coming'
    BY <1>1, <2>2, ComingFinite DEF Coming, Trying
  <2>4. Permits'
    BY <1>1, <1>2, <2>3, PermitsStay DEF Undisturbed
  <2>5. QED
    BY <1>1, <2>4 DEF Undisturbed
<1>5. QED
  BY <1>3, <1>4

\* P takes a permit, and is on its way no longer.
LEMMA PTakeStays ==
  ASSUME Shape, NoUnderflow, Undisturbed, PTake
  PROVE  Undisturbed'
<1>1. /\ Step("P_take", "P_return") /\ counter' = counter - 1
      /\ UNCHANGED <<links, running, status, program, temp>>
  BY DEF PTake, locals
<1>2. Alike("P_take", "P_return")
  BY DEF Alike, Waking
<1>3. /\ Turns' /\ States' /\ ListsHold' /\ Asleep' = Asleep /\ InWakeUp' = InWakeUp
      /\ pc[running] = "P_take" /\ pc' = [pc EXCEPT ![running] = "P_return"]
  BY <1>1, <1>2, AlikeKeeps DEF Undisturbed
<1>4. counter \in Nat /\ running \in Items /\ pc \in [Items -> Labels]
  BY DEF Shape
<1>5. counter > 0 /\ counter' = counter - 1
  BY <1>1, <1>3, <1>4 DEF NoUnderflow
<1> DEFINE D == Coming \ {running}
<1>6. D \subseteq Coming'
  BY <1>3, <1>4, ComingFinite DEF Coming, Trying
<1>7. /\ Cardinality(Coming) \in Nat /\ Cardinality(Coming') \in Nat
      /\ Cardinality(D) \in Nat /\ Cardinality(Coming) <= Cardinality(D) + 1
  <2>1. Cardinality(Coming) \in Nat /\ Cardinality(Coming') \in Nat
    BY ComingFinite, FS_CardinalityType
  <2>2. IsFiniteSet(D)
    BY ComingFinite, FS_Subset
  <2>3. Cardinality(D) \in Nat
    BY <2>2, FS_CardinalityType
  <2>4. CASE running \in Coming
    <3>1. Cardinality(D) = Cardinality(Coming) - 1
      BY <2>4, ComingFinite, FS_RemoveElement
    <3> HIDE DEF D
    <3>2. QED
      BY <2>1, <2>3, <3>1
  <2>5. CASE running \notin Coming
    <3>1. D = Coming
      BY <2>5
    <3> HIDE DEF D
    <3>2. QED
      BY <2>1, <2>3, <3>1
  <2>6. QED
    BY <2>1, <2>3, <2>4, <2>5
<1> HIDE DEF D
<1>8. Cardinality(D) <= Cardinality(Coming')
  BY <1>6, ComingFinite, FS_Subset
<1>9. Asleep # {} => counter <= Cardinality(Coming)
  BY DEF Undisturbed, Permits
<1>10. Permits'
  BY <1>3, <1>4, <1>5, <1>7, <1>8, <1>9 DEF Permits
<1>11. QED
  BY <1>3, <1>10 DEF Undisturbed

\* P puts the running thread on waiting.
LEMMA PWaitStays ==
  ASSUME Shape, Undisturbed, PWait
  PROVE  Undisturbed'
<1>1. /\ running \in Items /\ pc \in [Items -> Labels] /\ pc[running] = "P_wait"
      /\ pc' = [pc EXCEPT ![running] = "P_block"]
      /\ links' = L!PushBack(links, waiting, running)
      /\ counter' = counter /\ running' = running /\ status' = status
      /\ program' = program /\ temp' = temp
  BY DEF Shape, PWait, Step, Goto, locals
<1>2. /\ pc'[running] = "P_block"
      /\ \A t \in Items \ {running} : pc'[t] = pc[t]
  BY <1>1
<1>3. Turns /\ States /\ ListsHold
  BY DEF Undisturbed
<1>4. InWakeUp = {} /\ InWakeUp' = InWakeUp /\ counter = 0
  BY <1>1, <1>3, WokenIs DEF InWakeUp, Waking, Turns
<1>5. status[running] = "RUNNING"
  BY <1>1, <1>3 DEF States
<1>6. Queued' = Queued /\ Asleep' = Asleep \cup {running}
  BY <1>1, <1>2, <1>4 DEF Queued, Asleep
<1>7. Off(running, Waiting, Ready)
  BY <1>1, <1>3, <1>5 DEF Off, ListsHold, Queued, Asleep
<1>8. Linked(links.next, waiting, Waiting, readyPrograms, Ready)
  BY <1>1, <1>3, LinkedTurned DEF ListsHold, Intact
<1>9. Linked(links'.next, waiting, Append(Waiting, running), readyPrograms, Ready)
  BY <1>1, <1>7, <1>8, PushBackIs
<1>10. Intact' = links'.next
  BY <1>1, <1>2 DEF Intact
<1>11. Linked(Intact', readyPrograms, Ready, waiting, Append(Waiting, running))
  BY <1>9, <1>10, LinkedTurned
<1>12. ToSet(Append(Waiting, running)) = ToSet(Waiting) \cup {running}
  BY <1>7, <1>8, AppendOnce DEF Linked, Off
<1>13. ListsHold'
  BY <1>3, <1>6, <1>11, <1>12, Becomes DEF ListsHold
<1>14. Turns'
  BY <1>1, <1>2, <1>3 DEF Turns, Waking
<1>15. States'
  BY <1>1, <1>2, <1>3, <1>4 DEF States
<1>16. Permits'
  <2>1. Cardinality(Coming') \in Nat
    BY ComingFinite, FS_CardinalityType
  <2>2. QED
    BY <1>1, <1>4, <2>1 DEF Permits
<1>17. QED
  BY <1>13, <1>14, <1>15, <1>16 DEF Undisturbed

\* The running thread is BLOCKED.
LEMMA PBlockStays ==
  ASSUME Shape, Undisturbed, PBlock, status \in [Items -> {"RUNNING", "READY", "BLOCKED"}]
  PROVE  Undisturbed'
<1>1. /\ running \in Items /\ pc \in [Items -> Labels] /\ pc[running] = "P_block"
      /\ pc' = [pc EXCEPT ![running] = "P_unlock"]
      /\ status' = [status EXCEPT ![running] = "BLOCKED"]
      /\ counter' = counter /\ running' = running /\ links' = links
      /\ program' = program /\ temp' = temp /\ counter \in Nat
  BY DEF Shape, PBlock, Step, Goto, locals
<1>2. /\ pc'[running] = "P_unlock" /\ status'[running] = "BLOCKED"
      /\ \A t \in Items \ {running} : pc'[t] = pc[t] /\ status'[t] = status[t]
  BY <1>1
<1>3. Turns /\ States /\ ListsHold
  BY DEF Undisturbed
<1>4. InWakeUp = {} /\ InWakeUp' = InWakeUp
  BY <1>1, <1>3, WokenIs DEF InWakeUp, Waking
<1>5. Asleep' = Asleep /\ Queued' = Queued
  <2>1. status[running] = "RUNNING"
    BY <1>1, <1>3 DEF States
  <2>2. QED
    BY <1>1, <1>2, <1>4, <2>1 DEF Queued, Asleep
<1>6. Intact' = Intact
  BY <1>1, <1>2 DEF Intact
<1>7. ListsHold'
  BY <1>3, <1>5, <1>6, ListsStay
<1>8. Turns'
  BY <1>1, <1>2, <1>3 DEF Turns, Waking
<1>9. States'
  BY <1>1, <1>2, <1>3, <1>4 DEF States
<1>10. Coming \subseteq Coming'
  BY <1>1, <1>2, <1>4, <1>5, ComingFinite DEF Coming, Trying
<1>11. Permits'
  BY <1>1, <1>5, <1>10, PermitsStay DEF Undisturbed
<1>12. QED
  BY <1>7, <1>8, <1>9, <1>11 DEF Undisturbed

\* schedule(): the list is rotated, and whoever was first on it runs.
LEMMA DispatchIs ==
  ASSUME Shape, Turns, States, ListsHold, Schedule, Ready # <<>>,
         pc[running] \in Suspended \cup {"P_schedule"},
         status \in [Items -> {"RUNNING", "READY", "BLOCKED"}]
  PROVE  LET r == IF status[running] = "RUNNING" THEN Append(Ready, running) ELSE Ready
         IN  /\ Linked(links'.next, readyPrograms, Tail(r), waiting, Waiting)
             /\ running' \in Queued
             /\ ToSet(Tail(r)) = (Queued \ {running'})
                                   \cup {t \in {running} : status[t] = "RUNNING"}
             /\ status' = [t \in Items |-> IF t = running' THEN "RUNNING"
                                           ELSE IF t = running /\ status[t] = "RUNNING"
                                           THEN "READY" ELSE status[t]]
<1> DEFINE preempted == status[running] = "RUNNING"
           r == IF preempted THEN Append(Ready, running) ELSE Ready
           queued == IF preempted THEN L!PushBack(links, readyPrograms, running) ELSE links
           next == L!Front(queued, readyPrograms)
           parked == IF preempted THEN [status EXCEPT ![running] = "READY"] ELSE status
<1>1. running \in Items /\ pc[running] \notin Waking \cup {"P_block"}
  BY DEF Shape, Suspended, Waking
<1>2. InWakeUp = {}
  BY <1>1, WokenIs
<1>3. Linked(links.next, readyPrograms, Ready, waiting, Waiting)
      /\ ToSet(Ready) = Queued /\ ToSet(Waiting) = Asleep
  BY <1>1 DEF ListsHold, Intact, Waking
<1>4. L!Front(links, readyPrograms) # NULL
  <2>1. L!Front(links, readyPrograms) = Ready[1]
    BY <1>3, ReadsAre
  <2>2. Ready[1] \in Items
    BY <1>3 DEF Linked
  <2>3. QED
    BY <2>1, <2>2, NodesAre
<1>5. /\ links' = L!PopFront(queued, readyPrograms)
      /\ status' = [parked EXCEPT ![next] = "RUNNING"]
      /\ running' = next
  BY <1>4 DEF Schedule
<1>6. preempted => Off(running, Ready, Waiting)
  BY <1>1, <1>3 DEF Off, Queued, Asleep
<1>7. /\ Ready \in Seq(Items) /\ IsInjective(Ready)
      /\ Head(Ready) = Ready[1] /\ 1 \in 1 .. Len(Ready)
  BY <1>3 DEF Linked
<1>8. /\ Linked(queued.next, readyPrograms, r, waiting, Waiting)
      /\ r # <<>> /\ r[1] = Ready[1]
      /\ ToSet(r) = Queued \cup {t \in {running} : status[t] = "RUNNING"}
  <2>1. CASE preempted
    <3>1. queued = L!PushBack(links, readyPrograms, running) /\ r = Append(Ready, running)
      BY <2>1
    <3>2. Linked(L!PushBack(links, readyPrograms, running).next, readyPrograms,
                 Append(Ready, running), waiting, Waiting)
      BY <1>3, <1>6, <2>1, PushBackIs
    <3>3. ToSet(Append(Ready, running)) = ToSet(Ready) \cup {running}
      BY <1>6, <1>7, <2>1, AppendOnce DEF Off
    <3>4. Append(Ready, running) # <<>> /\ Append(Ready, running)[1] = Ready[1]
      BY <1>1, <1>7
    <3>5. {t \in {running} : status[t] = "RUNNING"} = {running}
      BY <2>1
    <3>6. QED
      BY <1>3, <3>1, <3>2, <3>3, <3>4, <3>5
  <2>2. CASE ~preempted
    <3>1. queued = links /\ r = Ready /\ {t \in {running} : status[t] = "RUNNING"} = {}
      BY <2>2
    <3>2. QED
      BY <1>3, <3>1
  <2>3. QED
    BY <2>1, <2>2
<1> HIDE DEF queued, r
<1>9. next = r[1]
  BY <1>8, ReadsAre
<1>10. Linked(L!PopFront(queued, readyPrograms).next, readyPrograms, Tail(r), waiting, Waiting)
  BY <1>8, PopFrontIs
<1>11. /\ r \in Seq(Items) /\ IsInjective(r) /\ Head(r) = r[1]
  BY <1>8 DEF Linked
<1>12. ToSet(Tail(r)) = ToSet(r) \ {r[1]}
  BY <1>8, <1>11, TailOnce
<1>13. Ready[1] \in ToSet(Ready)
  BY <1>7 DEF ToSet
<1>14. running' = Ready[1] /\ running' \in Queued /\ running' \in Items
  BY <1>3, <1>5, <1>8, <1>9, <1>13 DEF Queued
<1>15. preempted => running \notin Queued
  BY DEF Queued
<1>16. ToSet(Tail(r)) = (Queued \ {running'}) \cup {t \in {running} : status[t] = "RUNNING"}
  BY <1>8, <1>12, <1>14, <1>15
<1>17. status' = [t \in Items |-> IF t = running' THEN "RUNNING"
                                  ELSE IF t = running /\ status[t] = "RUNNING"
                                  THEN "READY" ELSE status[t]]
  <2>1. status' = [parked EXCEPT ![running'] = "RUNNING"]
    BY <1>5
  <2>2. CASE preempted
    BY <1>1, <1>14, <2>1, <2>2
  <2>3. CASE ~preempted
    BY <1>1, <1>14, <2>1, <2>3
  <2>4. QED
    BY <2>2, <2>3
<1>18. Linked(links'.next, readyPrograms, Tail(r), waiting, Waiting)
  BY <1>5, <1>10
<1>19. QED
  BY <1>14, <1>16, <1>17, <1>18 DEF r

\* A switch, by the timer or by P, from a thread that can be suspended.
LEMMA ScheduleStays ==
  ASSUME Shape, Undisturbed, Schedule, pc[running] \in Suspended \cup {"P_schedule"},
         pc' = IF pc[running] = "P_schedule" THEN [pc EXCEPT ![running] = "P_restore"] ELSE pc,
         status \in [Items -> {"RUNNING", "READY", "BLOCKED"}],
         UNCHANGED <<counter, program, temp>>
  PROVE  Undisturbed'
<1>1. Turns /\ States /\ ListsHold /\ Permits
  BY DEF Undisturbed
<1>2. running \in Items /\ pc \in [Items -> Labels] /\ pc[running] \notin Waking \cup {"P_block"}
      /\ counter \in Nat
  BY DEF Shape, Suspended, Waking
<1>3. InWakeUp = {} /\ InWakeUp' = {} /\ \A t \in Items : program[t] = NULL
  BY <1>1, <1>2, WokenIs DEF InWakeUp
<1>4. /\ \A t \in Items : pc'[t] = IF t = running /\ pc[t] = "P_schedule" THEN "P_restore"
                                  ELSE pc[t]
      /\ \A t \in Items : pc'[t] \in Suspended
  BY <1>1, <1>2 DEF Turns, Suspended
<1>5. ListsHold => Linked(links.next, readyPrograms, Ready, waiting, Waiting)
  BY <1>2 DEF ListsHold, Intact, Waking
<1>6. CASE Ready = <<>>
  <2>1. L!Front(links, readyPrograms) = NULL
    BY <1>1, <1>5, <1>6, ReadsAre
  <2>2. links' = links /\ status' = status /\ running' = running
    BY <2>1 DEF Schedule
  <2>3. Queued = {}
    BY <1>1, <1>6 DEF ListsHold, ToSet
  <2>4. pc[running] # "P_schedule"
    <3>1. ASSUME pc[running] = "P_schedule" PROVE FALSE
      <4>1. 0 \in Items
        BY SemaphoreAssumption DEF Items
      <4>2. pc[0] = "idle" /\ 0 # running
        BY <1>1, <3>1, <4>1 DEF Turns
      <4>3. status[0] = "READY"
        BY <1>1, <4>1, <4>2 DEF States
      <4>4. 0 \in Queued
        BY <1>3, <4>1, <4>3 DEF Queued
      <4>5. QED
        BY <2>3, <4>4
    <3>2. QED
      BY <3>1
  <2>5. pc' = pc
    BY <2>4
  <2>6. /\ Turns' /\ States' /\ Asleep' = Asleep /\ Queued' = Queued /\ Intact' = Intact
        /\ Coming' = Coming
    BY <1>1, <1>3, <2>2, <2>5
      DEF Turns, States, Asleep, Queued, Intact, Coming
  <2>7. ListsHold' /\ Permits'
    BY <1>1, <2>6, ListsStay DEF Permits
  <2>8. QED
    BY <2>6, <2>7 DEF Undisturbed
<1>7. CASE Ready # <<>>
  <2> DEFINE r == IF status[running] = "RUNNING" THEN Append(Ready, running) ELSE Ready
  <2>1. /\ Linked(links'.next, readyPrograms, Tail(r), waiting, Waiting)
        /\ running' \in Queued
        /\ ToSet(Tail(r)) = (Queued \ {running'}) \cup {t \in {running} : status[t] = "RUNNING"}
        /\ status' = [t \in Items |-> IF t = running' THEN "RUNNING"
                                      ELSE IF t = running /\ status[t] = "RUNNING"
                                      THEN "READY" ELSE status[t]]
    BY <1>1, <1>7, DispatchIs
  <2> HIDE DEF r
  <2>2. running' \in Items /\ status[running'] = "READY" /\ running' # running
    BY <1>1, <2>1 DEF Queued, States
  <2>3. /\ status'[running'] = "RUNNING"
        /\ \A t \in Items \ {running'} :
             status'[t] = IF t = running /\ status[t] = "RUNNING" THEN "READY" ELSE status[t]
    BY <2>1, <2>2
  <2>4. Queued' = (Queued \ {running'}) \cup {t \in {running} : status[t] = "RUNNING"}
    <3>1. \A t \in Items : t \in Queued' <=> status'[t] = "READY"
      BY <1>3 DEF Queued
    <3>2. \A t \in Items : t \in Queued <=> status[t] = "READY"
      BY <1>3 DEF Queued
    <3>3. Queued \subseteq Items /\ Queued' \subseteq Items
      BY DEF Queued
    <3>4. \A t \in Items :
            status'[t] = "READY" <=> \/ status[t] = "READY" /\ t # running'
                                     \/ t = running /\ status[t] = "RUNNING"
      BY <2>2, <2>3
    <3>5. QED
      BY <1>2, <3>1, <3>2, <3>3, <3>4
  <2>5. Asleep' = Asleep
    <3>1. \A t \in Items : pc'[t] # "P_block"
      BY <1>4 DEF Suspended
    <3>2. Asleep' = {t \in Items : status'[t] = "BLOCKED"}
      BY <1>3, <3>1 DEF Asleep
    <3>3. Asleep = {t \in Items : status[t] = "BLOCKED"}
      BY <1>2, <1>3 DEF Asleep
    <3>4. \A t \in Items : status'[t] = "BLOCKED" <=> status[t] = "BLOCKED"
      BY <2>2, <2>3
    <3>5. QED
      BY <3>2, <3>3, <3>4
  <2>6. Intact' = links'.next
    BY <1>4, <2>2 DEF Intact, Suspended
  <2>7. ListsHold'
    BY <1>1, <2>1, <2>4, <2>5, <2>6, Becomes DEF ListsHold
  <2>8. Turns'
    <3>1. \A t \in Items : pc'[t] = "idle" <=> t = 0
      BY <1>1, <1>4 DEF Turns
    <3>2. \A t \in Items : program'[t] # NULL <=> pc'[t] \in Waking
      BY <1>3, <1>4 DEF Waking, Suspended
    <3>3. QED
      BY <1>4, <2>2, <3>1, <3>2 DEF Turns, Suspended
  <2>9. States'
    <3>1. \A t \in Items \ {running'} :
            /\ status'[t] \in {"READY", "BLOCKED"}
            /\ status'[t] = "BLOCKED" => pc'[t] = "P_restore"
      <4> TAKE t \in Items \ {running'}
      <4>1. CASE t = running
        BY <1>1, <1>2, <1>4, <2>3, <4>1 DEF States, Suspended
      <4>2. CASE t # running
        BY <1>1, <1>4, <2>3, <4>2 DEF States
      <4>3. QED
        BY <4>1, <4>2
    <3>2. pc'[running'] \notin {"P_unlock", "P_schedule"}
      BY <1>4, <2>2 DEF Suspended
    <3>3. QED
      BY <1>3, <2>3, <3>1, <3>2 DEF States
  <2>10. Coming \subseteq Coming'
    BY <1>3, <1>4, <2>5, ComingFinite DEF Coming, Trying
  <2>11. Permits'
    BY <1>1, <1>2, <2>5, <2>10, PermitsStay
  <2>12. QED
    BY <2>7, <2>8, <2>9, <2>11 DEF Undisturbed
<1>8. QED
  BY <1>6, <1>7

\* V adds a permit, and takes the first waiter off his list.
LEMMA VIncrementStays ==
  ASSUME Shape, Undisturbed, VIncrement
  PROVE  Undisturbed'
<1>1. /\ running \in Items /\ pc \in [Items -> Labels] /\ pc[running] = "V_increment"
      /\ counter' = counter + 1 /\ counter \in Nat
      /\ running' = running /\ status' = status /\ temp' = temp
  BY DEF Shape, VIncrement
<1>2. Turns /\ States /\ ListsHold /\ Permits
  BY DEF Undisturbed
<1>3. InWakeUp = {} /\ \A t \in Items : program[t] = NULL
  BY <1>1, <1>2, WokenIs DEF Waking
<1>4. Linked(links.next, waiting, Waiting, readyPrograms, Ready)
  BY <1>1, <1>2, LinkedTurned DEF ListsHold, Intact
<1>5. L!Front(links, waiting) = IF Waiting = <<>> THEN NULL ELSE Waiting[1]
  BY <1>4, ReadsAre
<1>6. CASE Waiting = <<>>
  <2>1. /\ Step("V_increment", "V_return")
        /\ UNCHANGED <<links, running, status, program, temp>>
    BY <1>1, <1>5, <1>6 DEF VIncrement, Step
  <2>2. Alike("V_increment", "V_return")
    BY DEF Alike, Waking
  <2>3. Turns' /\ States' /\ ListsHold' /\ Asleep' = Asleep
    BY <1>2, <2>1, <2>2, AlikeKeeps
  <2>4. Asleep = {}
    BY <1>2, <1>6 DEF ListsHold, ToSet
  <2>5. QED
    BY <2>3, <2>4 DEF Permits, Undisturbed
<1>7. CASE Waiting # <<>>
  <2> DEFINE p == Waiting[1]
  <2>1. /\ Waiting \in Seq(Items) /\ IsInjective(Waiting) /\ 1 \in 1 .. Len(Waiting)
        /\ p \in Items /\ p \in ToSet(Waiting) /\ Head(Waiting) = p
    BY <1>4, <1>7 DEF Linked, ToSet
  <2> HIDE DEF p
  <2>2. L!Front(links, waiting) = p /\ p # NULL
    BY <1>5, <1>7, <2>1, NodesAre DEF p
  <2>3. /\ program' = [program EXCEPT ![running] = p]
        /\ links' = L!PopFront(links, waiting)
        /\ pc' = [pc EXCEPT ![running] = "V_unlock"]
    BY <2>2 DEF VIncrement, Goto
  <2>4. /\ pc'[running] = "V_unlock"
        /\ \A t \in Items \ {running} : pc'[t] = pc[t]
    BY <1>1, <2>3
  <2>5. InWakeUp' = {p}
    <3>1. program' \in [Items -> Items \cup {NULL}] /\ program'[running] = p
          /\ \A t \in Items \ {running} : program'[t] = NULL
      BY <1>1, <1>3, <2>1, <2>3 DEF Shape
    <3>2. QED
      BY <1>1, <2>2, <3>1 DEF InWakeUp
  <2>6. p \in Asleep /\ status[p] = "BLOCKED" /\ p # running /\ pc[p] = "P_restore" /\ p # 0
    <3>1. p \in Asleep
      BY <1>2, <2>1 DEF ListsHold
    <3>2. status[p] = "BLOCKED"
      BY <1>1, <3>1 DEF Asleep
    <3>3. p # running
      BY <1>1, <1>2, <3>2 DEF States
    <3>4. pc[p] = "P_restore"
      BY <1>2, <2>1, <3>2, <3>3 DEF States
    <3>5. QED
      BY <1>2, <2>1, <3>1, <3>2, <3>3, <3>4 DEF Turns
  <2>7. Queued' = Queued
    BY <1>1, <1>3, <2>5, <2>6 DEF Queued
  <2>8. Asleep' = Asleep \ {p}
    BY <1>1, <1>3, <2>4, <2>5 DEF Asleep
  <2>9. Linked(links'.next, waiting, Tail(Waiting), readyPrograms, Ready)
    BY <1>4, <1>7, <2>3, PopFrontIs
  <2>10. Intact' = links'.next
    BY <1>1, <2>4 DEF Intact
  <2>11. Linked(Intact', readyPrograms, Ready, waiting, Tail(Waiting))
    BY <2>9, <2>10, LinkedTurned
  <2>12. ToSet(Tail(Waiting)) = ToSet(Waiting) \ {p}
    BY <1>7, <2>1, TailOnce
  <2>13. ListsHold'
    BY <1>2, <2>7, <2>8, <2>11, <2>12, Becomes DEF ListsHold
  <2>14. Turns'
    <3>1. \A t \in Items : program'[t] # NULL <=> pc'[t] \in Waking
      BY <1>1, <1>2, <1>3, <2>2, <2>3, <2>4 DEF Turns, Suspended, Waking, Shape
    <3>2. QED
      BY <1>1, <1>2, <2>4, <3>1 DEF Turns
  <2>15. States'
    BY <1>1, <1>2, <1>3, <2>4, <2>5, <2>6 DEF States
  <2>16. Permits'
    <3>1. Coming' = Coming \cup {p} /\ p \notin Coming
      <4>1. p \in Threads
        BY <2>1, <2>6, SemaphoreAssumption DEF Items, Threads
      <4>2. Threads \subseteq Items
        BY SemaphoreAssumption DEF Items, Threads
      <4>3. \A t \in Threads : t \in Coming' <=> t \in Coming \cup {p}
        <5> TAKE t \in Threads
        <5>1. CASE t = p
          BY <2>1, <2>5, <2>8, <4>1, <5>1 DEF Coming, Trying
        <5>2. CASE t # p /\ t # running
          BY <1>3, <2>4, <2>5, <2>8, <4>2, <5>2 DEF Coming, Trying
        <5>3. CASE t # p /\ t = running
          BY <1>1, <1>3, <2>4, <2>5, <5>3 DEF Coming, Trying
        <5>4. QED
          BY <5>1, <5>2, <5>3
      <4>4. Coming \subseteq Threads /\ Coming' \subseteq Threads /\ p \notin Coming
        BY <2>6 DEF Coming, Trying
      <4>5. QED
        BY <4>1, <4>3, <4>4
    <3>2. Cardinality(Coming') = Cardinality(Coming) + 1 /\ Cardinality(Coming) \in Nat
      BY <3>1, ComingFinite, FS_CardinalityType, FS_AddElement
    <3>3. QED
      BY <1>1, <1>2, <2>6, <3>2 DEF Permits
  <2>17. QED
    BY <2>13, <2>14, <2>15, <2>16 DEF Undisturbed
<1>8. QED
  BY <1>6, <1>7

\* The waiter is READY.
LEMMA WakeUpStays ==
  ASSUME Shape, Undisturbed, WakeUp, status \in [Items -> {"RUNNING", "READY", "BLOCKED"}]
  PROVE  Undisturbed'
<1> DEFINE p == program[running]
<1>1. /\ running \in Items /\ pc \in [Items -> Labels] /\ pc[running] = "V_wake"
      /\ pc' = [pc EXCEPT ![running] = "V_front"]
      /\ status' = [status EXCEPT ![p] = "READY"]
      /\ counter' = counter /\ running' = running /\ links' = links
      /\ program' = program /\ temp' = temp /\ counter \in Nat
  BY DEF Shape, WakeUp, Step, Goto, locals
<1>2. Turns /\ States /\ ListsHold /\ Permits
  BY DEF Undisturbed
<1>3. InWakeUp = {p} /\ InWakeUp' = {p} /\ p \in Items
  BY <1>1, <1>2, WokenIs DEF InWakeUp, Waking
<1> HIDE DEF p
<1>4. p # running
  BY <1>2, <1>3 DEF States
<1>5. /\ pc'[running] = "V_front" /\ status'[p] = "READY"
      /\ \A t \in Items \ {running} : pc'[t] = pc[t]
      /\ \A t \in Items \ {p} : status'[t] = status[t]
  BY <1>1, <1>3
<1>6. Asleep' = Asleep /\ Queued' = Queued
  BY <1>1, <1>3, <1>5 DEF Asleep, Queued
<1>7. Intact' = Intact
  BY <1>1, <1>5 DEF Intact
<1>8. ListsHold'
  BY <1>2, <1>6, <1>7, ListsStay
<1>9. Turns'
  BY <1>1, <1>2, <1>5 DEF Turns, Waking
<1>10. States'
  BY <1>1, <1>2, <1>3, <1>4, <1>5 DEF States
<1>11. Coming \subseteq Coming'
  BY <1>1, <1>3, <1>5, <1>6, ComingFinite DEF Coming, Trying
<1>12. Permits'
  BY <1>1, <1>2, <1>6, <1>11, PermitsStay
<1>13. QED
  BY <1>8, <1>9, <1>10, <1>12 DEF Undisturbed

\* The statements of push_front that leave the two lists what they are.
LEMMA PushingStays ==
  ASSUME Shape, Undisturbed, PushFrontReads \/ PushFrontHead
  PROVE  Undisturbed'
<1>1. /\ running \in Items /\ pc \in [Items -> Labels]
      /\ counter' = counter /\ running' = running /\ status' = status
      /\ program' = program /\ counter \in Nat
      /\ links = [next |-> links.next, previous |-> links.previous]
      /\ links.next \in [L!Nodes -> Items \cup {NULL}]
      /\ temp \in [Items -> Items \cup {NULL}]
  BY DEF Shape, PushFrontReads, PushFrontHead, locals
<1>2. Turns /\ States /\ ListsHold /\ Permits
  BY DEF Undisturbed
<1> DEFINE from == IF pc[running] = "V_front" THEN "V_front" ELSE "V_head"
           to == IF pc[running] = "V_front" THEN "V_head" ELSE "V_item"
<1>3. pc[running] = from /\ pc' = [pc EXCEPT ![running] = to]
  BY DEF PushFrontReads, PushFrontHead, Step, Goto
<1>4. /\ from \in {"V_front", "V_head"} /\ to \in {"V_head", "V_item"}
      /\ pc'[running] = to
      /\ \A t \in Items \ {running} : pc'[t] = pc[t]
  BY <1>1, <1>3
<1>5. readyPrograms \in L!Nodes
  BY NodesAre
<1>6. Intact' = Intact /\ temp'[running] = Intact'[readyPrograms]
      /\ (to = "V_item" => links'.next[readyPrograms] = program[running])
  <2>1. CASE PushFrontReads
    <3>1. /\ pc[running] = "V_front" /\ temp' = [temp EXCEPT ![running] = links.next[readyPrograms]]
          /\ links' = IF links.next[readyPrograms] = NULL THEN links
                      ELSE [links EXCEPT !.previous[links.next[readyPrograms]] = program[running]]
      BY <2>1 DEF PushFrontReads, Step
    <3>2. links'.next = links.next
      BY <1>1, <3>1
    <3>3. Intact = links.next /\ Intact' = links'.next /\ to = "V_head"
      BY <1>1, <1>4, <3>1 DEF Intact
    <3>4. QED
      BY <1>1, <3>1, <3>2, <3>3
  <2>2. CASE PushFrontHead
    <3> DEFINE n == [links.next EXCEPT ![readyPrograms] = program[running]]
    <3>1. /\ pc[running] = "V_head" /\ temp' = temp
          /\ links' = [links EXCEPT !.next = n]
      BY <2>2 DEF PushFrontHead, Step, locals
    <3>2. n \in [L!Nodes -> Items \cup {NULL}] /\ n[readyPrograms] = program[running]
          /\ \A m \in L!Nodes \ {readyPrograms} : n[m] = links.next[m]
      <4>1. program[running] \in Items
        BY <1>1, <3>1 DEF Shape, Waking
      <4>2. QED
        BY <1>1, <1>5, <4>1
    <3> HIDE DEF n
    <3>3. links'.next = n
      BY <1>1, <3>1
    <3>4. Intact = links.next /\ temp[running] = links.next[readyPrograms]
      BY <1>2, <3>1 DEF Intact, Turns
    <3>5. Intact' = [n EXCEPT ![readyPrograms] = temp[running]]
      BY <1>1, <1>4, <3>1, <3>3 DEF Intact
    <3>6. [n EXCEPT ![readyPrograms] = temp[running]] = links.next
      BY <1>1, <1>5, <3>2, <3>4
    <3>7. QED
      BY <1>1, <3>1, <3>2, <3>3, <3>4, <3>5, <3>6
  <2>3. QED
    BY <2>1, <2>2
<1> HIDE DEF from, to
<1>7. InWakeUp' = InWakeUp
  BY <1>1 DEF InWakeUp
<1>8. Asleep' = Asleep /\ Queued' = Queued
  BY <1>1, <1>3, <1>4, <1>7 DEF Asleep, Queued
<1>9. ListsHold'
  BY <1>2, <1>6, <1>8, ListsStay
<1>10. Turns'
  <2>1. \A t \in Items : pc'[t] \in Waking <=> pc[t] \in Waking
    BY <1>3, <1>4 DEF Waking
  <2>2. \A t \in Items : pc'[t] = "idle" <=> pc[t] = "idle"
    BY <1>3, <1>4
  <2>3. QED
    BY <1>1, <1>2, <1>4, <1>6, <2>1, <2>2 DEF Turns
<1>11. States'
  BY <1>1, <1>2, <1>3, <1>4, <1>7 DEF States
<1>12. Coming \subseteq Coming'
  BY <1>1, <1>3, <1>4, <1>7, <1>8, ComingFinite DEF Coming, Trying
<1>13. Permits'
  BY <1>1, <1>2, <1>8, <1>12, PermitsStay
<1>14. QED
  BY <1>9, <1>10, <1>11, <1>13 DEF Undisturbed

\* The last statement of push_front puts the waiter on readyPrograms.
LEMMA PushFrontItemStays ==
  ASSUME Shape, Undisturbed, PushFrontItem
  PROVE  Undisturbed'
<1> DEFINE p == program[running]
           n == [links.next EXCEPT ![p] = temp[running]]
<1>1. /\ running \in Items /\ pc \in [Items -> Labels] /\ pc[running] = "V_item"
      /\ pc' = [pc EXCEPT ![running] = "out"]
      /\ program' = [program EXCEPT ![running] = NULL]
      /\ links' = [[links EXCEPT !.previous = [links.previous EXCEPT ![p] = readyPrograms]]
                     EXCEPT !.next = n]
      /\ counter' = counter /\ running' = running /\ status' = status /\ counter \in Nat
      /\ links = [next |-> links.next, previous |-> links.previous]
      /\ links.next \in [L!Nodes -> Items \cup {NULL}]
      /\ program \in [Items -> Items \cup {NULL}]
  BY DEF Shape, PushFrontItem, Step, Goto
<1>2. Turns /\ States /\ ListsHold /\ Permits
  BY DEF Undisturbed
<1>3. InWakeUp = {p} /\ p \in Items
  BY <1>1, <1>2, WokenIs DEF Waking
<1>4. p # running /\ status[p] = "READY" /\ pc[p] = "P_restore"
  BY <1>1, <1>2, <1>3 DEF States
<1>5. /\ pc'[running] = "out" /\ program'[running] = NULL
      /\ \A t \in Items \ {running} : pc'[t] = pc[t] /\ program'[t] = program[t]
  BY <1>1
<1>6. InWakeUp' = {} /\ \A t \in Items : program'[t] = NULL
  <2>1. \A t \in Items \ {running} : program[t] = NULL
    BY <1>2 DEF Turns, Suspended, Waking
  <2>2. QED
    BY <1>1, <1>5, <2>1 DEF InWakeUp
<1>7. links'.next = n
  <2> HIDE DEF n
  <2>1. QED
    BY <1>1
<1>8. Queued' = Queued \cup {p} /\ Asleep' = Asleep
  BY <1>1, <1>3, <1>4, <1>5, <1>6 DEF Queued, Asleep
<1>9. Off(p, Ready, Waiting)
  BY <1>1, <1>2, <1>3 DEF Off, ListsHold, Queued, Asleep
<1>10. n = [Intact EXCEPT ![readyPrograms] = p, ![p] = Intact[readyPrograms]]
  <2>1. Intact = [links.next EXCEPT ![readyPrograms] = temp[running]]
        /\ links.next[readyPrograms] = p /\ temp[running] = Intact[readyPrograms]
    BY <1>1, <1>2 DEF Intact, Turns
  <2>2. Intact \in [L!Nodes -> Items \cup {NULL}]
    BY <1>2 DEF ListsHold, Linked
  <2>3. readyPrograms \in L!Nodes /\ p \in L!Nodes /\ p # readyPrograms
    BY <1>3, NodesAre
  <2> HIDE DEF p
  <2>4. QED
    BY <1>1, <2>1, <2>2, <2>3
<1> HIDE DEF n, p
<1>11. Linked(n, readyPrograms, <<p>> \o Ready, waiting, Waiting)
  <2>1. Linked(Intact, readyPrograms, Ready, waiting, Waiting)
    BY <1>2 DEF ListsHold
  <2>2. QED
    BY <1>9, <1>10, <2>1, PushFrontIs
<1>12. ToSet(<<p>> \o Ready) = ToSet(Ready) \cup {p}
  <2> DEFINE s == Ready
             r == <<p>> \o s
  <2>1. s \in Seq(Items) /\ IsInjective(s)
    BY <1>2 DEF ListsHold, Linked
  <2>2. p \in Items /\ p \notin ToSet(s)
    BY <1>9 DEF Off
  <2> HIDE DEF s
  <2>3. r \in Seq(Items) /\ Inserted(s, 0, p, r)
    BY <2>1, <2>2, Insertions
  <2>4. 0 \in 0 .. Len(s)
    BY <2>1
  <2> HIDE DEF r
  <2>5. ToSet(r) = ToSet(s) \cup {p}
    BY <2>1, <2>2, <2>3, <2>4, InsertedOnce
  <2>6. QED
    BY <2>5 DEF r, s
<1>13. Intact' = n
  BY <1>1, <1>5, <1>7 DEF Intact
<1>14. ListsHold'
  BY <1>2, <1>8, <1>11, <1>12, <1>13, Becomes DEF ListsHold
<1>15. Turns'
  BY <1>1, <1>2, <1>5, <1>6 DEF Turns, Suspended, Waking
<1>16. States'
  BY <1>1, <1>2, <1>4, <1>5, <1>6 DEF States
<1>17. Coming \subseteq Coming'
  BY <1>1, <1>3, <1>4, <1>5, <1>6, <1>8, ComingFinite DEF Coming, Trying
<1>18. Permits'
  BY <1>1, <1>2, <1>8, <1>17, PermitsStay
<1>19. QED
  BY <1>14, <1>15, <1>16, <1>18 DEF Undisturbed

-----------------------------------------------------------------------------
\* At the start the processor and every list are where the invariant has them.
LEMMA InitUndisturbed == Init => Undisturbed
<1> SUFFICES ASSUME Init PROVE Undisturbed
  OBVIOUS
<1> DEFINE r == [i \in 1 .. N |-> i]
           w == <<>>
           h == [next |-> links.next]
<1>1. N \in Nat /\ N # 0 /\ Items = 0 .. N
  BY SemaphoreAssumption DEF Items
<1>2. /\ running = 0 /\ running \in Items
      /\ \A t \in Items : pc[t] = IF t = 0 THEN "idle" ELSE "out"
      /\ \A t \in Items : status[t] = IF t = 0 THEN "RUNNING" ELSE "READY"
      /\ \A t \in Items : program[t] = NULL
  BY <1>1 DEF Init
<1>3. \A n \in L!Nodes :
        links.next[n] = IF n = readyPrograms THEN 1
                        ELSE IF n \in 1 .. (N - 1) THEN n + 1 ELSE NULL
  BY DEF Init
<1>4. links.next \in [L!Nodes -> Items \cup {NULL}]
  BY InitEstablishes DEF IInv, Shape
<1>5. InWakeUp = {}
  BY <1>2 DEF InWakeUp
<1>6. Intact = links.next
  BY <1>2 DEF Intact
<1>7. r \in Seq(Items) /\ Len(r) = N /\ \A i \in 1 .. N : r[i] = i
  BY <1>1
<1>8. IsInjective(r) /\ ToSet(r) = 1 .. N
  BY <1>7 DEF IsInjective, ToSet
<1>9. w \in Seq(Items) /\ Len(w) = 0 /\ IsInjective(w) /\ ToSet(w) = {}
  BY DEF IsInjective, ToSet
<1> HIDE DEF r, w
<1>10. Forwards(links.next, readyPrograms, r, NULL)
  <2>1. ASSUME NEW i \in 0 .. Len(r)
        PROVE  links.next[Place(r, readyPrograms, NULL, i)] = Place(r, readyPrograms, NULL, i + 1)
    <3>1. i \in 0 .. N /\ i \in Nat
      BY <1>7
    <3>2. CASE i = 0
      BY <1>1, <1>3, <1>7, <3>1, <3>2, NodesAre DEF Place
    <3>3. CASE i # 0
      <4>1. Place(r, readyPrograms, NULL, i) = i /\ i \in Items /\ i \in L!Nodes
            /\ i # readyPrograms
        BY <1>1, <1>7, <3>1, <3>3, NodesAre DEF Place
      <4>2. Place(r, readyPrograms, NULL, i + 1) = IF i \in 1 .. (N - 1) THEN i + 1 ELSE NULL
        BY <1>1, <1>7, <3>1, <3>3 DEF Place
      <4>3. QED
        BY <1>3, <4>1, <4>2
    <3>4. QED
      BY <3>2, <3>3
  <2>2. QED
    BY <2>1 DEF Forwards
<1>11. Forwards(links.next, waiting, w, NULL)
  <2>1. waiting \in L!Nodes /\ waiting # readyPrograms /\ waiting \notin 1 .. (N - 1)
    BY <1>1, NodesAre
  <2>2. links.next[waiting] = NULL
    BY <1>3, <2>1
  <2>3. \A i \in 0 .. Len(w) : Place(w, waiting, NULL, i) = waiting
                               /\ Place(w, waiting, NULL, i + 1) = NULL
    BY <1>9 DEF Place
  <2>4. QED
    BY <2>2, <2>3 DEF Forwards
<1>12. h.next = links.next
  OBVIOUS
<1>13. Linked(links.next, readyPrograms, r, waiting, w)
  BY <1>4, <1>7, <1>8, <1>9, <1>10, <1>11, NodesAre DEF Linked
<1>14. Linked(h.next, readyPrograms, r, waiting, w) /\ Linked(h.next, waiting, w, readyPrograms, r)
  BY <1>12, <1>13, LinkedTurned
<1> HIDE DEF h
<1>15. L!Contents(h, readyPrograms) = r /\ L!Contents(h, waiting) = w
  BY <1>14, ReadsAre
<1>16. Ready = r /\ Waiting = w
  BY <1>6, <1>15 DEF h, Ready, Waiting
<1>17. Queued = 1 .. N /\ Asleep = {}
  BY <1>1, <1>2, <1>5 DEF Queued, Asleep
<1>18. ListsHold
  BY <1>6, <1>8, <1>9, <1>13, <1>16, <1>17 DEF ListsHold
<1>19. Turns
  BY <1>1, <1>2 DEF Turns, Suspended, Waking
<1>20. States
  BY <1>1, <1>2, <1>5 DEF States
<1>21. QED
  BY <1>17, <1>18, <1>19, <1>20 DEF Undisturbed, Permits

\* Every statement of P and V keeps the invariant when interrupts are disabled in them.
LEMMA UndisturbedKeeps ==
  ASSUME InterruptsOff, IInv, Typed, Undisturbed, [Next]_vars
  PROVE  Undisturbed'
<1>1. Shape /\ NoUnderflow /\ status \in [Items -> {"RUNNING", "READY", "BLOCKED"}]
  BY DEF IInv, Typed
<1> USE DEF Alike, Waking, Trying
<1>2. CASE UNCHANGED vars
  BY <1>2 DEF vars, Undisturbed, Turns, States, ListsHold, Permits, Intact, Ready, Waiting,
              Queued, Asleep, Coming, InWakeUp
<1>3. CASE Hung \/ Spin
  BY <1>2, <1>3 DEF Hung, Spin
<1>4. CASE TimerSchedule
  <2>1. pc[running] \in Suspended
    BY <1>4 DEF TimerSchedule, Preemptible, Suspended
  <2>2. /\ Schedule /\ pc' = pc /\ pc[running] # "P_schedule"
        /\ UNCHANGED <<counter, program, temp>>
    BY <1>4, <2>1 DEF TimerSchedule, locals, Suspended
  <2>3. QED
    BY <1>1, <2>1, <2>2, ScheduleStays
<1>5. CASE CallP
  BY <1>1, <1>5, QuietStays DEF CallP, locals
<1>6. CASE CallV
  BY <1>1, <1>6, QuietStays DEF CallV, locals
<1>7. CASE Lock("P_lock", "P_test")
  BY <1>1, <1>7, QuietStays DEF Lock, locals
<1>8. CASE PTest
  <2>1. CASE counter > 0
    BY <1>1, <1>8, <2>1, QuietStays DEF PTest, locals
  <2>2. CASE ~(counter > 0)
    <3>1. counter = 0
      BY <1>1, <2>2 DEF Shape
    <3>2. QED
      BY <1>1, <1>8, <2>2, <3>1, QuietStays DEF PTest, locals
  <2>3. QED
    BY <2>1, <2>2
<1>9. CASE PTake
  BY <1>1, <1>9, PTakeStays
<1>10. CASE Unlock("P_return", "out")
  BY <1>1, <1>10, QuietStays DEF Unlock, locals
<1>11. CASE PWait
  BY <1>1, <1>11, PWaitStays
<1>12. CASE PBlock
  BY <1>1, <1>12, PBlockStays
<1>13. CASE Unlock("P_unlock", "P_schedule")
  BY <1>1, <1>13, QuietStays DEF Unlock, locals
<1>14. CASE PSchedule
  <2>1. /\ Schedule /\ pc[running] = "P_schedule"
        /\ pc' = [pc EXCEPT ![running] = "P_restore"]
        /\ UNCHANGED <<counter, program, temp>>
    BY <1>14 DEF PSchedule, Step, Goto, locals
  <2>2. QED
    BY <1>1, <2>1, ScheduleStays
<1>15. CASE PRestore
  BY <1>1, <1>15, QuietStays DEF PRestore, locals
<1>16. CASE Lock("V_lock", "V_increment")
  BY <1>1, <1>16, QuietStays DEF Lock, locals
<1>17. CASE VIncrement
  BY <1>1, <1>17, VIncrementStays
<1>18. CASE Unlock("V_return", "out")
  BY <1>1, <1>18, QuietStays DEF Unlock, locals
<1>19. CASE Unlock("V_unlock", "V_wake")
  BY <1>1, <1>19, QuietStays DEF Unlock, locals
<1>20. CASE WakeUp
  BY <1>1, <1>20, WakeUpStays
<1>21. CASE PushFrontReads \/ PushFrontHead
  BY <1>1, <1>21, PushingStays
<1>22. CASE PushFrontItem
  BY <1>1, <1>22, PushFrontItemStays
<1>23. QED
  BY <1>2, <1>3, <1>4, <1>5, <1>6, <1>7, <1>8, <1>9, <1>10, <1>11, <1>12, <1>13, <1>14,
     <1>15, <1>16, <1>17, <1>18, <1>19, <1>20, <1>21, <1>22 DEF Next, P, V

-----------------------------------------------------------------------------
\* Links, status and locals have the types of the model, wherever the timer switches.
THEOREM TypeTheorem == Spec => []TypeOK
<1>1. Init => Typed
  BY InitTyped
<1>2. IInv /\ Typed /\ [Next]_vars => Typed'
  BY TypedKeeps
<1>3. IInv /\ Typed => TypeOK
  <2>1. ASSUME IInv, Typed PROVE TypeOK
    <3>1. links \in [next : [L!Nodes -> Items \cup {NULL}],
                     previous : [L!Nodes -> L!Nodes \cup {NULL}]]
      BY <2>1 DEF IInv, Shape, Typed
    <3>2. QED
      BY <2>1, <3>1 DEF IInv, Shape, Typed, TypeOK
  <2>2. QED
    BY <2>1
<1>4. QED
  BY <1>1, <1>2, <1>3, InvariantTheorem, PTL DEF Spec

\* With interrupts disabled in P and V, the lists hold whom they are to hold, and permits
\* do not lie idle, after every statement.
THEOREM UndisturbedTheorem == ASSUME InterruptsOff PROVE Spec => [](IInv /\ Undisturbed)
<1>1. Init => IInv /\ Typed /\ Undisturbed
  BY InitEstablishes, InitUndisturbed, InitTyped
<1>2. IInv /\ Typed /\ Undisturbed /\ [Next]_vars => IInv' /\ Typed' /\ Undisturbed'
  BY StepKeeps, TypedKeeps, UndisturbedKeeps
<1>3. QED
  BY <1>1, <1>2, PTL DEF Spec

\* The waiting threads the run sees are those of the invariant.
LEMMA SeenAre ==
  ASSUME IInv, Undisturbed
  PROVE  Waiters = Asleep
<1>1. Turns /\ Linked(Intact, readyPrograms, Ready, waiting, Waiting)
      /\ ToSet(Ready) = Queued /\ ToSet(Waiting) = Asleep /\ Shape
  BY DEF Undisturbed, ListsHold, IInv
<1>2. /\ links.next \in [L!Nodes -> Items \cup {NULL}]
      /\ \A n \in L!Nodes : n # readyPrograms => Intact[n] = links.next[n]
  BY <1>1 DEF Shape, Intact
<1>3. /\ Waiting \in Seq(Items) /\ IsInjective(Waiting)
      /\ Forwards(Intact, waiting, Waiting, NULL)
      /\ Ready \in Seq(Items) /\ IsInjective(Ready)
  BY <1>1 DEF Linked
<1>4. Forwards(links.next, waiting, Waiting, NULL)
  <2>1. Linked(Intact, waiting, Waiting, readyPrograms, Ready)
    BY <1>1, LinkedTurned
  <2>2. /\ Len(Ready) \in Nat /\ Place(Ready, readyPrograms, NULL, 0) = readyPrograms
        /\ 0 \in 0 .. Len(Ready)
    BY <1>1, PlacesAre
  <2>3. /\ \A i \in 0 .. Len(Waiting) : Place(Waiting, waiting, NULL, i) \in L!Nodes
        /\ \A i \in 0 .. Len(Waiting) : \A j \in 0 .. Len(Ready) :
             Place(Waiting, waiting, NULL, i) # Place(Ready, readyPrograms, NULL, j)
    BY <2>1, PlacesAre
  <2>4. \A i \in 0 .. Len(Waiting) : links.next[Place(Waiting, waiting, NULL, i)]
                                       = Intact[Place(Waiting, waiting, NULL, i)]
    BY <1>2, <2>2, <2>3
  <2>5. QED
    BY <1>3, <2>4 DEF Forwards
<1>5. L!Contents(links, waiting) = Waiting
  BY <1>3, <1>4, Visited
<1>6. Waiters = ToSet(Waiting)
  BY <1>3, <1>5 DEF Waiters, ToSet
<1>7. QED
  BY <1>1, <1>6

\* With interrupts disabled in P and V, nobody sleeps where no V will find him, and no
\* permit lies idle while a thread waits for it (sync.cpp:65-71, 81-87).
THEOREM NoLostWakeupTheorem ==
  ASSUME InterruptsOff PROVE Spec => [](SleepersAreFound /\ NoLostWakeup)
<1>1. IInv /\ Undisturbed => SleepersAreFound
  <2>1. Threads \subseteq Items
    BY SemaphoreAssumption DEF Threads, Items
  <2>2. QED
    BY <2>1, SeenAre DEF SleepersAreFound, Asleep
<1>2. IInv /\ Undisturbed => NoLostWakeup
  BY SeenAre DEF NoLostWakeup, Undisturbed, Permits, Coming, Trying
<1>3. QED
  BY <1>1, <1>2, UndisturbedTheorem, PTL

\* lock() never spins with interrupts disabled, when it would never end (sync.cpp:22-25).
THEOREM SpinWouldHangTheorem == Spec => []SpinWouldHang
<1>1. CASE InterruptsOff
  <2>1. IInv /\ Undisturbed => SpinWouldHang
    <3>1. ASSUME IInv, Undisturbed, pc[running] \in {"P_lock", "V_lock"} PROVE bolt = 0
      <4>1. Holders = {}
        BY <3>1 DEF Holders, Held, Undisturbed, Turns, Suspended
      <4>2. QED
        BY <3>1, <4>1 DEF IInv, LockExclusion, Shape
    <3>2. QED
      BY <3>1 DEF SpinWouldHang
  <2>2. QED
    BY <1>1, <2>1, UndisturbedTheorem, PTL
<1>2. CASE ~InterruptsOff
  <2>1. SpinWouldHang
    BY <1>2 DEF SpinWouldHang
  <2>2. QED
    BY <2>1, PTL
<1>3. QED
  BY <1>1, <1>2
=============================================================================
