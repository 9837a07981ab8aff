------------------------------ MODULE Scheduler ------------------------------
(***************************************************************************)
(* The kernel threads of src/kernel/program.cpp on one processor: creation *)
(* (executeThread), the timer interrupt and schedule(), and program_exit.  *)
(*                                                                         *)
(* A section that runs with interrupts disabled is one action.  The timer  *)
(* may fire wherever interrupts are enabled, which includes two places the *)
(* code does not guard: between "status = DEAD" and schedule() in          *)
(* program_exit, and between the sti of asm_switch_thread and the          *)
(* setInterruptStatus that ends schedule().  A thread that was switched    *)
(* out inside schedule() has a frame on its stack; frames[p] are the       *)
(* interrupt flags those calls restore, innermost last.                    *)
(***************************************************************************)
EXTENDS Integers, SequencesExt

CONSTANTS
  MAX_PROGRAM_AMOUNT,   \* size of PCB_SET
  Quantum,              \* timer ticks per unit of priority (10 in the code)
  Priorities,           \* priorities passed to executeThread
  MaxNest,              \* bound: calls of schedule() pending on one stack
  FirstThreadReturns    \* may the function of pid 0 return?  Not in setup.cpp

ASSUME SchedulerAssumption ==
  /\ MAX_PROGRAM_AMOUNT \in Nat \ {0}
  /\ Quantum \in Nat
  /\ Priorities \subseteq Nat
  /\ 1 \in Priorities
  /\ MaxNest \in Nat
  /\ FirstThreadReturns \in BOOLEAN

VARIABLES
  PCB_SET_STATUS,         \* which PCBs of PCB_SET are allocated
  allPrograms,            \* list of the allocated PCBs
  readyPrograms,          \* list of the PCBs waiting for the processor
  running,                \* the PCB that has the processor
  status, priority, ticks, pageDirectoryAddress,   \* fields of the PCBs
  interrupts,             \* the interrupt flag of the processor
  frames,                 \* per PCB: flags the pending schedule() calls restore
  pc,                     \* per PCB: what it does outside schedule()
  cr3, esp0               \* page directory in use; kernel stack in the TSS

pcbs == <<PCB_SET_STATUS, allPrograms, priority, pageDirectoryAddress>>
mmu == <<cr3, esp0>>
schedVars == <<PCB_SET_STATUS, allPrograms, readyPrograms, running, status, priority,
               ticks, pageDirectoryAddress, interrupts, frames, pc, cr3, esp0>>
vars == schedVars

Pids == 0 .. (MAX_PROGRAM_AMOUNT - 1)

\* PAGE_DIRECTORY, the page directory of the kernel threads.
KernelDirectory == -1

Statuses == {"CREATED", "RUNNING", "READY", "BLOCKED", "DEAD"}

\* Mutant of PushBack: the item goes to the front.
PushBackAtFront(list, p) == <<p>> \o list

\* List::push_back of an item that may still be on the list: the last item then
\* points at it and its own next becomes null, so what followed it is cut off.
PushBack(list, p) ==
  IF Contains(list, p) THEN SubSeq(list, 1, SelectInSeq(list, LAMBDA q : q = p))
                       ELSE Append(list, p)

\* The free PCBs, and the one allocatePCB takes: the first of them, if any.
FreePCBs == {p \in Pids : ~PCB_SET_STATUS[p]}

AllocatePCB == {p \in FreePCBs : \A q \in FreePCBs : p <= q}

-----------------------------------------------------------------------------
\* setup_kernel after its asm_switch_thread: pid 0 runs first_thread.
Init ==
  /\ PCB_SET_STATUS = [p \in Pids |-> p = 0]
  /\ allPrograms = <<0>>
  /\ readyPrograms = <<>>
  /\ running = 0
  /\ status = [p \in Pids |-> IF p = 0 THEN "RUNNING" ELSE "CREATED"]
  /\ priority = [p \in Pids |-> IF p = 0 THEN 1 ELSE 0]
  /\ ticks = [p \in Pids |-> IF p = 0 THEN Quantum ELSE 0]
  /\ pageDirectoryAddress = [p \in Pids |-> FALSE]
  /\ interrupts = TRUE
  /\ frames = [p \in Pids |-> <<>>]
  /\ pc = [p \in Pids |-> "run"]
  /\ cr3 = KernelDirectory
  /\ esp0 = KernelDirectory

\* The running PCB executes code at label l, outside schedule().
At(l) == pc[running] = l /\ frames[running] = <<>>

\* Mutant of CreatePCB: status = READY is forgotten.
CreatePCBWithoutStatus(p, prio) ==
  /\ PCB_SET_STATUS' = [PCB_SET_STATUS EXCEPT ![p] = TRUE]
  /\ priority' = [priority EXCEPT ![p] = prio]
  /\ ticks' = [ticks EXCEPT ![p] = prio * Quantum]
  /\ frames' = [frames EXCEPT ![p] = <<>>]
  /\ allPrograms' = PushBack(allPrograms, p)
  /\ readyPrograms' = PushBack(readyPrograms, p)
  /\ UNCHANGED status

\* executeThread up to its last line: PCB p is filled in and queued.
CreatePCB(p, prio) ==
  /\ PCB_SET_STATUS' = [PCB_SET_STATUS EXCEPT ![p] = TRUE]
  /\ status' = [status EXCEPT ![p] = "READY"]
  /\ priority' = [priority EXCEPT ![p] = prio]
  /\ ticks' = [ticks EXCEPT ![p] = prio * Quantum]
  /\ frames' = [frames EXCEPT ![p] = <<>>]
  /\ allPrograms' = PushBack(allPrograms, p)
  /\ readyPrograms' = PushBack(readyPrograms, p)

ExecuteThread(prio) ==
  /\ At("run")
  /\ \E p \in AllocatePCB :
       /\ CreatePCB(p, prio)
       /\ pageDirectoryAddress' = [pageDirectoryAddress EXCEPT ![p] = FALSE]
       /\ pc' = [pc EXCEPT ![p] = "run"]
  /\ UNCHANGED <<running, interrupts, mmu>>

\* if (!thread) return -1; with interrupts disabled.
ExecuteThreadFails ==
  /\ At("run")
  /\ FreePCBs = {}
  /\ interrupts' = FALSE
  /\ UNCHANGED <<pcbs, readyPrograms, running, status, ticks, frames, pc, mmu>>

-----------------------------------------------------------------------------
\* Mutant of ActivateProgramPage: a kernel thread keeps the page directory in use.
ActivateProgramPageLazily(p) ==
  /\ cr3' = IF pageDirectoryAddress[p] THEN p ELSE cr3
  /\ esp0' = IF pageDirectoryAddress[p] THEN p ELSE esp0

\* activateProgramPage
ActivateProgramPage(p) ==
  /\ cr3' = IF pageDirectoryAddress[p] THEN p ELSE KernelDirectory
  /\ esp0' = IF pageDirectoryAddress[p] THEN p ELSE esp0

\* schedule() with somebody to switch to.  before is the status of the PCBs at
\* the call and restore the flag in force once the call has returned.
Switch(before, restore) ==
  LET cur == running
      next == Head(readyPrograms)
      preempted == before[cur] = "RUNNING"
      released == before[cur] = "DEAD" /\ ~pageDirectoryAddress[cur]
      parked == [before EXCEPT ![cur] = IF preempted THEN "READY" ELSE @]
  IN  /\ readyPrograms # <<>>
      /\ status' = [parked EXCEPT ![next] = "RUNNING"]
      /\ ticks' = [ticks EXCEPT ![cur] = IF preempted THEN priority[cur] * Quantum ELSE @]
      /\ readyPrograms' =
           Tail(IF preempted THEN PushBack(readyPrograms, cur) ELSE readyPrograms)
      /\ PCB_SET_STATUS' = [PCB_SET_STATUS EXCEPT ![cur] = @ /\ ~released]
      /\ allPrograms' = IF released THEN RemoveFirst(allPrograms, cur) ELSE allPrograms
      /\ frames' = [frames EXCEPT ![cur] = IF before[cur] = "DEAD" THEN <<>>
                                           ELSE Append(@, restore)]
      /\ running' = next
      /\ interrupts' = TRUE
      /\ ActivateProgramPage(next)
      /\ UNCHANGED <<priority, pageDirectoryAddress>>

\* schedule() with an empty ready list: it returns at once.
NothingReady(restore) ==
  /\ readyPrograms = <<>>
  /\ interrupts' = restore
  /\ UNCHANGED <<pcbs, readyPrograms, running, ticks, frames, mmu>>

\* A call of schedule() from the thread's own code.
CallSchedule ==
  /\ At("run")
  /\ Switch(status, interrupts) \/ (NothingReady(interrupts) /\ UNCHANGED status)
  /\ UNCHANGED pc

\* The code behind asm_switch_thread: setInterruptStatus, and the iret of the
\* timer interrupt when that was the caller.
FinishSchedule ==
  /\ frames[running] # <<>>
  /\ interrupts' = Last(frames[running])
  /\ frames' = [frames EXCEPT ![running] = Front(@)]
  /\ UNCHANGED <<pcbs, readyPrograms, running, status, ticks, pc, mmu>>

\* Mutants of TimerTick: ticks counts below zero; ticks is not counted down.
TimerTickUnguarded ==
  /\ interrupts
  /\ ticks' = [ticks EXCEPT ![running] = @ - 1]
  /\ UNCHANGED <<pcbs, readyPrograms, running, status, interrupts, frames, pc, mmu>>

TimerTickFrozen ==
  /\ interrupts
  /\ ticks[running] > 0
  /\ UNCHANGED vars

\* c_time_interrupt_handler with time left.
TimerTick ==
  /\ interrupts
  /\ ticks[running] > 0
  /\ ticks' = [ticks EXCEPT ![running] = @ - 1]
  /\ UNCHANGED <<pcbs, readyPrograms, running, status, interrupts, frames, pc, mmu>>

\* c_time_interrupt_handler at the end of the time slice.
TimerSchedule ==
  /\ interrupts
  /\ ticks[running] = 0
  /\ Len(frames[running]) < MaxNest
  /\ Switch(status, TRUE) \/ (NothingReady(TRUE) /\ UNCHANGED status)
  /\ UNCHANGED pc

TimerInterrupt == TimerTick \/ TimerSchedule

-----------------------------------------------------------------------------
\* Mutants of ExitMark: the PCB is released at once; the thread is not marked
\* DEAD.
ExitMarkReleases ==
  /\ At("run")
  /\ running = 0 => FirstThreadReturns
  /\ status' = [status EXCEPT ![running] = "DEAD"]
  /\ PCB_SET_STATUS' = [PCB_SET_STATUS EXCEPT ![running] = FALSE]
  /\ pc' = [pc EXCEPT ![running] = "exit"]
  /\ UNCHANGED <<allPrograms, priority, pageDirectoryAddress, readyPrograms, running,
                 ticks, interrupts, frames, mmu>>

ExitMarkKeepsStatus ==
  /\ At("run")
  /\ running = 0 => FirstThreadReturns
  /\ pc' = [pc EXCEPT ![running] = "exit"]
  /\ UNCHANGED <<pcbs, readyPrograms, running, status, ticks, interrupts, frames, mmu>>

\* A thread function returns into program_exit, which marks the thread DEAD.
ExitMark ==
  /\ At("run")
  /\ running = 0 => FirstThreadReturns
  /\ status' = [status EXCEPT ![running] = "DEAD"]
  /\ pc' = [pc EXCEPT ![running] = "exit"]
  /\ UNCHANGED <<pcbs, readyPrograms, running, ticks, interrupts, frames, mmu>>

\* program_exit of any other thread.  Nobody called it: were schedule() to
\* return, the thread would go on at an address that is no code ("wild").
ExitSchedule ==
  /\ At("exit")
  /\ running # 0
  /\ \/ Switch(status, interrupts) /\ UNCHANGED pc
     \/ /\ NothingReady(interrupts)
        /\ pc' = [pc EXCEPT ![running] = "wild"]
        /\ UNCHANGED status

\* program_exit of pid 0: the machine stops.
ExitHalt ==
  /\ At("exit")
  /\ running = 0
  /\ interrupts' = FALSE
  /\ pc' = [pc EXCEPT ![0] = "halt"]
  /\ UNCHANGED <<pcbs, readyPrograms, running, status, ticks, frames, mmu>>

\* asm_halt is jmp $; of a thread gone wild nothing is known, it is left there.
Halted == (At("halt") \/ At("wild")) /\ UNCHANGED schedVars

Exit == ExitSchedule \/ ExitHalt

Next ==
  \/ \E prio \in Priorities : ExecuteThread(prio)
  \/ ExecuteThreadFails
  \/ CallSchedule
  \/ FinishSchedule
  \/ TimerInterrupt
  \/ ExitMark
  \/ Exit
  \/ Halted

Spec == Init /\ [][Next]_vars

\* The timer keeps ticking, and straight-line kernel code keeps running.
FairSpec ==
  /\ Spec
  /\ WF_vars(TimerInterrupt)
  /\ WF_vars(FinishSchedule)
  /\ WF_vars(Exit)

-----------------------------------------------------------------------------
TypeOK ==
  /\ PCB_SET_STATUS \in [Pids -> BOOLEAN]
  /\ allPrograms \in Seq(Pids)
  /\ readyPrograms \in Seq(Pids)
  /\ running \in Pids
  /\ status \in [Pids -> Statuses]
  /\ priority \in [Pids -> Nat]
  /\ ticks \in [Pids -> Nat]
  /\ pageDirectoryAddress \in [Pids -> BOOLEAN]
  /\ interrupts \in BOOLEAN
  /\ frames \in [Pids -> Seq(BOOLEAN)]
  /\ pc \in [Pids -> {"run", "exit", "wild", "halt"}]
  /\ cr3 \in Pids \cup {KernelDirectory}
  /\ esp0 \in Pids \cup {KernelDirectory}

Allocated == {p \in Pids : PCB_SET_STATUS[p]}

\* readyPrograms holds exactly the READY threads, each once (program.h:14): no
\* interleaving of the timer with creation, exit or a nested schedule() loses a
\* thread or queues it twice.
ReadyQueue ==
  /\ IsInjective(readyPrograms)
  /\ ToSet(readyPrograms) = {p \in Allocated : status[p] = "READY"}

\* allPrograms holds exactly the allocated PCBs, each once (program.h:13): a PCB
\* is released exactly once however its exit is interrupted.
AllPrograms ==
  /\ IsInjective(allPrograms)
  /\ ToSet(allPrograms) = Allocated

\* The processor is held by an allocated thread that is RUNNING, or DEAD and on
\* its way out of program_exit; every other thread waits (program.cpp:145-168).
OneRunning ==
  /\ running \in Allocated
  /\ status[running] = IF pc[running] = "run" THEN "RUNNING" ELSE "DEAD"
  /\ \A p \in Allocated \ {running} : status[p] = "READY" /\ pc[p] = "run"

\* schedule() called from program_exit never returns (program.cpp:187-190).
ExitNeverReturns == \A p \in Pids : pc[p] # "wild"

\* Threads on the ready list keep their order, and only the first one leaves it:
\* the rotation is first in, first out (interrupt.cpp:105).
FirstInFirstOut ==
  [][\/ IsPrefix(readyPrograms, readyPrograms')
     \/ /\ readyPrograms # <<>>
        /\ IsPrefix(Tail(readyPrograms), readyPrograms')
        /\ running' = Head(readyPrograms)]_vars

\* Every thread on the ready list gets the processor, unless a thread that
\* failed to create another one keeps interrupts disabled (program.cpp:60).
ReadyRuns ==
  \A p \in Pids :
    (status[p] = "READY") ~> (status[p] = "RUNNING" \/ ~interrupts)
=============================================================================
