------------------------------ MODULE Semaphore ------------------------------
(***************************************************************************)
(* SpinLock and Semaphore of src/kernel/sync.cpp, with MESA_WakeUp and     *)
(* schedule() of program.cpp, statement by statement: threads 1 .. N call  *)
(* P and V of one semaphore, thread 0 never does and is always ready.      *)
(*                                                                         *)
(* The timer may switch threads between any two statements while           *)
(* interrupts are enabled.  InterruptsOff is the usage under which P and V *)
(* are called with interrupts disabled: a switch then happens in schedule()*)
(* only, and in the window between the sti of asm_switch_thread and the    *)
(* setInterruptStatus behind it ("P_restore").                             *)
(*                                                                         *)
(* readyPrograms and waiting link the PCBs through the same tag, so the    *)
(* links are kept as they are in memory (IntrusiveList.tla).               *)
(***************************************************************************)
EXTENDS Integers, FiniteSets, Sequences

CONSTANTS N, readyPrograms, waiting, NULL,
          InitialCounter,
          MaxCounter,      \* bound: V is not called beyond it
          InterruptsOff    \* do the callers of P and V disable interrupts?

Threads == 1 .. N
Items == 0 .. N

ASSUME SemaphoreAssumption ==
  /\ N \in Nat \ {0}
  /\ readyPrograms # waiting /\ NULL \notin {readyPrograms, waiting}
  /\ {readyPrograms, waiting, NULL} \cap Items = {}
  /\ MaxCounter \in Nat
  /\ InitialCounter \in 0 .. MaxCounter
  /\ InterruptsOff \in BOOLEAN

VARIABLES
  counter, bolt,    \* of the semaphore and of its semLock
  links,            \* of the PCBs and of the heads of the two lists
  running, status,
  pc,               \* per thread: the next statement of P or V, "out" of them
  program,          \* per thread: the local variable of V and MESA_WakeUp
  temp              \* per thread: the local variable of push_front

locals == <<program, temp>>
vars == <<counter, bolt, links, running, status, pc, program, temp>>

L == INSTANCE IntrusiveList WITH Lists <- {readyPrograms, waiting}

Init ==
  /\ counter = InitialCounter
  /\ bolt = 0
  /\ links = [next |-> [n \in L!Nodes |-> IF n = readyPrograms THEN 1
                                          ELSE IF n \in 1 .. (N - 1) THEN n + 1 ELSE NULL],
              previous |-> [n \in L!Nodes |-> IF n = 1 THEN readyPrograms
                                              ELSE IF n \in 2 .. N THEN n - 1 ELSE NULL]]
  /\ running = 0
  /\ status = [t \in Items |-> IF t = 0 THEN "RUNNING" ELSE "READY"]
  /\ pc = [t \in Items |-> IF t = 0 THEN "idle" ELSE "out"]
  /\ program = [t \in Items |-> NULL]
  /\ temp = [t \in Items |-> NULL]

-----------------------------------------------------------------------------
Goto(label) == pc' = [pc EXCEPT ![running] = label]

\* The running thread goes from one statement to the next.
Step(from, to) == pc[running] = from /\ Goto(to)

\* schedule(), which looks at the ready list with interrupts disabled.
Schedule ==
  LET preempted == status[running] = "RUNNING"
      queued == IF preempted THEN L!PushBack(links, readyPrograms, running) ELSE links
      next == L!Front(queued, readyPrograms)
      parked == IF preempted THEN [status EXCEPT ![running] = "READY"] ELSE status
  IN  /\ L!Terminates(links, readyPrograms)
      /\ IF L!Front(links, readyPrograms) = NULL
         THEN UNCHANGED <<links, status, running>>
         ELSE /\ links' = L!PopFront(queued, readyPrograms)
              /\ status' = [parked EXCEPT ![next] = "RUNNING"]
              /\ running' = next

\* Interrupts are enabled at the running thread's next statement.
Preemptible == ~InterruptsOff \/ pc[running] \in {"idle", "out", "P_restore"}

TimerSchedule ==
  /\ Preemptible
  /\ Schedule
  /\ UNCHANGED <<counter, bolt, pc, locals>>

\* size() runs round a ready list that has become a circle.
Hung == ~L!Terminates(links, readyPrograms) /\ UNCHANGED vars

-----------------------------------------------------------------------------
\* Mutant of Lock: the test and the set without the exchange.
LockAnyway(from, to) ==
  /\ Step(from, to)
  /\ bolt' = 1
  /\ UNCHANGED <<counter, links, running, status, locals>>

\* One asm_atomic_exchange of SpinLock::lock that finds the lock free.
Lock(from, to) ==
  /\ bolt = 0
  /\ Step(from, to)
  /\ bolt' = 1
  /\ UNCHANGED <<counter, links, running, status, locals>>

Spin ==
  /\ pc[running] \in {"P_lock", "V_lock"}
  /\ bolt = 1
  /\ UNCHANGED vars

\* Mutant of Unlock: the lock stays taken.
UnlockForgotten(from, to) ==
  /\ Step(from, to)
  /\ UNCHANGED <<counter, bolt, links, running, status, locals>>

Unlock(from, to) ==
  /\ Step(from, to)
  /\ bolt' = 0
  /\ UNCHANGED <<counter, links, running, status, locals>>

CallP ==
  /\ Step("out", "P_lock")
  /\ UNCHANGED <<counter, bolt, links, running, status, locals>>

CallV ==
  /\ counter < MaxCounter
  /\ Step("out", "V_lock")
  /\ UNCHANGED <<counter, bolt, links, running, status, locals>>

\* Mutant of PTest: the counter is not looked at.
PTestAnyway ==
  /\ Step("P_test", "P_take")
  /\ UNCHANGED <<counter, bolt, links, running, status, locals>>

\* Mutant of PTest: semLock is given back before the thread is on waiting.
PTestGivesBack ==
  /\ Step("P_test", IF counter > 0 THEN "P_take" ELSE "P_wait")
  /\ bolt' = IF counter > 0 THEN bolt ELSE 0
  /\ UNCHANGED <<counter, links, running, status, locals>>

\* if (counter > 0)
PTest ==
  /\ Step("P_test", IF counter > 0 THEN "P_take" ELSE "P_wait")
  /\ UNCHANGED <<counter, bolt, links, running, status, locals>>

PTake ==
  /\ Step("P_take", "P_return")
  /\ counter' = counter - 1
  /\ UNCHANGED <<bolt, links, running, status, locals>>

\* Mutant of PWait: the thread does not enter the list.
PWaitNowhere ==
  /\ Step("P_wait", "P_block")
  /\ UNCHANGED <<counter, bolt, links, running, status, locals>>

\* waiting.push_back: nobody else uses waiting while semLock is held.
PWait ==
  /\ Step("P_wait", "P_block")
  /\ links' = L!PushBack(links, waiting, running)
  /\ UNCHANGED <<counter, bolt, running, status, locals>>

PBlock ==
  /\ Step("P_block", "P_unlock")
  /\ status' = [status EXCEPT ![running] = "BLOCKED"]
  /\ UNCHANGED <<counter, bolt, links, running, locals>>

PSchedule ==
  /\ Step("P_schedule", "P_restore")
  /\ Schedule
  /\ UNCHANGED <<counter, bolt, locals>>

\* setInterruptStatus at the end of schedule(), then once more round the loop.
PRestore ==
  /\ Step("P_restore", "P_lock")
  /\ UNCHANGED <<counter, bolt, links, running, status, locals>>

P ==
  \/ Lock("P_lock", "P_test")
  \/ PTest \/ PTake \/ Unlock("P_return", "out")
  \/ PWait \/ PBlock \/ Unlock("P_unlock", "P_schedule")
  \/ PSchedule \/ PRestore

-----------------------------------------------------------------------------
\* Mutant of VIncrement: a waiter is woken only when the counter was zero.
VIncrementFromZero ==
  /\ pc[running] = "V_increment"
  /\ counter' = counter + 1
  /\ IF counter = 0 /\ L!Front(links, waiting) # NULL
     THEN /\ program' = [program EXCEPT ![running] = L!Front(links, waiting)]
          /\ links' = L!PopFront(links, waiting)
          /\ Goto("V_unlock")
     ELSE Goto("V_return") /\ UNCHANGED <<program, links>>
  /\ UNCHANGED <<bolt, running, status, temp>>

\* ++counter, and the first waiter is taken off its list, under semLock.
VIncrement ==
  /\ pc[running] = "V_increment"
  /\ counter' = counter + 1
  /\ IF L!Front(links, waiting) # NULL
     THEN /\ program' = [program EXCEPT ![running] = L!Front(links, waiting)]
          /\ links' = L!PopFront(links, waiting)
          /\ Goto("V_unlock")
     ELSE Goto("V_return") /\ UNCHANGED <<program, links>>
  /\ UNCHANGED <<bolt, running, status, temp>>

\* MESA_WakeUp
WakeUp ==
  /\ Step("V_wake", "V_front")
  /\ status' = [status EXCEPT ![program[running]] = "READY"]
  /\ UNCHANGED <<counter, bolt, links, running, locals>>

\* readyPrograms.push_front, statement by statement.
PushFrontReads ==
  /\ Step("V_front", "V_head")
  /\ temp' = [temp EXCEPT ![running] = links.next[readyPrograms]]
  /\ links' = IF links.next[readyPrograms] = NULL THEN links
              ELSE [links EXCEPT !.previous[links.next[readyPrograms]] = program[running]]
  /\ UNCHANGED <<counter, bolt, running, status, program>>

PushFrontHead ==
  /\ Step("V_head", "V_item")
  /\ links' = [links EXCEPT !.next[readyPrograms] = program[running]]
  /\ UNCHANGED <<counter, bolt, running, status, locals>>

PushFrontItem ==
  /\ Step("V_item", "out")
  /\ links' = [links EXCEPT !.previous[program[running]] = readyPrograms,
                            !.next[program[running]] = temp[running]]
  /\ program' = [program EXCEPT ![running] = NULL]
  /\ temp' = [temp EXCEPT ![running] = NULL]
  /\ UNCHANGED <<counter, bolt, running, status>>

V ==
  \/ Lock("V_lock", "V_increment")
  \/ VIncrement
  \/ Unlock("V_return", "out")
  \/ Unlock("V_unlock", "V_wake")
  \/ WakeUp \/ PushFrontReads \/ PushFrontHead \/ PushFrontItem

Next == TimerSchedule \/ Hung \/ Spin \/ CallP \/ CallV \/ P \/ V

Spec == Init /\ [][Next]_vars

-----------------------------------------------------------------------------
Labels == {"idle", "out", "P_lock", "P_test", "P_take", "P_return", "P_wait", "P_block",
           "P_unlock", "P_schedule", "P_restore", "V_lock", "V_increment", "V_return",
           "V_unlock", "V_wake", "V_front", "V_head", "V_item"}

TypeOK ==
  /\ counter \in Nat
  /\ bolt \in {0, 1}
  /\ links \in [next : [L!Nodes -> Items \cup {NULL}],
                previous : [L!Nodes -> L!Nodes \cup {NULL}]]
  /\ running \in Items
  /\ status \in [Items -> {"RUNNING", "READY", "BLOCKED"}]
  /\ pc \in [Items -> Labels]
  /\ program \in [Items -> Items \cup {NULL}]
  /\ temp \in [Items -> Items \cup {NULL}]

\* The statements between semLock.lock() and semLock.unlock().
Held == {"P_test", "P_take", "P_return", "P_wait", "P_block", "P_unlock",
         "V_increment", "V_return", "V_unlock"}

Holders == {t \in Items : pc[t] \in Held}

\* semLock excludes: at most one thread is between lock() and unlock(), and bolt
\* tells whether one is, wherever threads are switched (sync.cpp:18-32).
LockExclusion ==
  /\ \A t, u \in Holders : t = u
  /\ bolt = 1 <=> Holders # {}

\* The test of counter > 0 still holds where the counter is decremented, so
\* that it never wraps below zero (sync.cpp:58-60).
NoUnderflow == \A t \in Items : pc[t] = "P_take" => counter > 0

\* Nobody goes to sleep beside a permit: from the test that found none until the
\* thread is on waiting and gives semLock back, no V gets in between, wherever
\* threads are switched (sync.cpp:58, 65-70, 80-83).
SleepIsJustified ==
  \A t \in Items : pc[t] \in {"P_wait", "P_block", "P_unlock"} => counter = 0

Waiters == {t \in Items : \E i \in DOMAIN L!Contents(links, waiting) :
                            L!Contents(links, waiting)[i] = t}

\* The threads some V has taken off waiting and not yet put on readyPrograms.
InWakeUp == {program[t] : t \in Items} \ {NULL}

\* Nobody sleeps where no V will find him: a BLOCKED thread is on waiting or
\* about to be woken by the V that took it off (sync.cpp:65-71, 82-87).
SleepersAreFound == \A t \in Threads : status[t] = "BLOCKED" => t \in Waiters \cup InWakeUp

\* A permit does not lie idle while a thread waits for it: for each one there is
\* a thread on its way to the test of counter > 0 (sync.cpp:81-87).
NoLostWakeup ==
  Waiters # {} =>
    counter <= Cardinality({t \in Threads \ Waiters :
                              \/ pc[t] \in {"P_schedule", "P_restore", "P_lock", "P_test", "P_take"}
                              \/ t \in InWakeUp})

\* semLock is never found taken when interrupts are disabled: the loop in lock()
\* would never end (sync.cpp:22-25).
SpinWouldHang == InterruptsOff /\ pc[running] \in {"P_lock", "V_lock"} => bolt = 0

\* A thread that cannot make progress has released the lock (sync.cpp:65): the
\* holder of semLock has the processor or is on the ready list.
HolderCanRun == \A t \in Holders : t = running \/ status[t] = "READY"
=============================================================================
