---------------------------- MODULE ProcessProofs ----------------------------
(***************************************************************************)
(* Proofs about Scheduler.tla and Process.tla for every number of PCBs,    *)
(* every quantum and every set of priorities.                              *)
(*                                                                         *)
(* Threads: the two lists of the program manager agree with the states of  *)
(* the PCBs in every reachable state, one thread has the processor, nobody *)
(* overtakes on the ready list, and program_exit never returns.            *)
(*                                                                         *)
(* Processes, with and without allocations that fail: the processor is     *)
(* always in the right address space, the lists agree with the PCBs, an    *)
(* exit is final, and a PCB is released only once nothing will use it      *)
(* again.                                                                  *)
(*                                                                         *)
(* A creation that is given up half way leaves a PCB on readyPrograms that *)
(* its parent may release while it is queued.  What then still holds needs *)
(* an invariant of its own: QueuedPCBs and RunningPCB hold always, and     *)
(* WhileWhole as long as no creation was given up.                         *)
(***************************************************************************)
EXTENDS Process, QueueTheorems


\* Only executeProcess gives a PCB a page directory.
KernelThreadsOnly == \A p \in Pids : ~pageDirectoryAddress[p]

\* The inductive invariant: that the lists are right needs to know which thread
\* runs, and that the thread that runs is right needs the lists.
IInv == TypeOK /\ ReadyQueue /\ AllPrograms /\ OneRunning /\ KernelThreadsOnly

LEMMA PidsInt == Pids \subseteq Nat /\ 0 \in Pids
BY SchedulerAssumption DEF Pids

\* push_back of a PCB that is not on the list appends it.
LEMMA PushBackOnce ==
  ASSUME NEW list \in Seq(Pids), NEW p \in Pids, IsInjective(list), p \notin ToSet(list)
  PROVE  /\ PushBack(list, p) = Append(list, p)
         /\ PushBack(list, p) \in Seq(Pids)
         /\ ToSet(PushBack(list, p)) = ToSet(list) \cup {p}
         /\ IsInjective(PushBack(list, p))
<1>1. ~Contains(list, p)
  BY DEF Contains, ToSet
<1>2. PushBack(list, p) = Append(list, p)
  BY <1>1 DEF PushBack
<1>3. QED
  BY <1>2, AppendOnce

-----------------------------------------------------------------------------
LEMMA InitIInv == Init => IInv
<1> SUFFICES ASSUME Init PROVE IInv
  OBVIOUS
<1> USE PidsInt
<1>1. TypeOK
  BY SchedulerAssumption DEF Init, TypeOK, Statuses, KernelDirectory
<1>2. ReadyQueue
  BY DEF Init, ReadyQueue, IsInjective, ToSet, Allocated
<1>3. AllPrograms
  <2>1. allPrograms = <<0>> /\ DOMAIN allPrograms = {1} /\ allPrograms[1] = 0
    BY DEF Init
  <2>2. Allocated = {0}
    BY DEF Init, Allocated
  <2>3. QED
    BY <2>1, <2>2 DEF AllPrograms, IsInjective, ToSet
<1>4. OneRunning /\ KernelThreadsOnly
  BY DEF Init, OneRunning, Allocated, KernelThreadsOnly
<1>5. QED
  BY <1>1, <1>2, <1>3, <1>4 DEF IInv

\* Creating a thread keeps the invariant.
LEMMA CreateIInv ==
  ASSUME IInv, NEW prio \in Priorities, ExecuteThread(prio)
  PROVE  IInv'
<1> USE PidsInt
<1>0. PICK p \in AllocatePCB :
        /\ CreatePCB(p, prio)
        /\ pageDirectoryAddress' = [pageDirectoryAddress EXCEPT ![p] = FALSE]
        /\ pc' = [pc EXCEPT ![p] = "run"]
  BY DEF ExecuteThread
<1>1. p \in Pids /\ ~PCB_SET_STATUS[p]
  BY DEF AllocatePCB, FreePCBs
<1>2. /\ CreatePCB(p, prio)
      /\ pageDirectoryAddress' = [pageDirectoryAddress EXCEPT ![p] = FALSE]
      /\ pc' = [pc EXCEPT ![p] = "run"]
      /\ UNCHANGED <<running, interrupts, cr3, esp0>>
  BY <1>0 DEF ExecuteThread, mmu
<1>3. p \notin ToSet(readyPrograms) /\ p \notin ToSet(allPrograms) /\ p # running
  BY <1>1 DEF IInv, ReadyQueue, AllPrograms, OneRunning, Allocated
<1>4. /\ readyPrograms' \in Seq(Pids) /\ IsInjective(readyPrograms')
      /\ ToSet(readyPrograms') = ToSet(readyPrograms) \cup {p}
  BY <1>1, <1>2, <1>3, PushBackOnce DEF CreatePCB, IInv, TypeOK, ReadyQueue
<1>5. /\ allPrograms' \in Seq(Pids) /\ IsInjective(allPrograms')
      /\ ToSet(allPrograms') = ToSet(allPrograms) \cup {p}
  BY <1>1, <1>2, <1>3, PushBackOnce DEF CreatePCB, IInv, TypeOK, AllPrograms
<1>6. Allocated' = Allocated \cup {p}
  BY <1>1, <1>2 DEF CreatePCB, Allocated, IInv, TypeOK
<1>7. prio * Quantum \in Nat /\ prio \in Nat
  BY SchedulerAssumption
<1>8. TypeOK'
  <2>1. /\ PCB_SET_STATUS' \in [Pids -> BOOLEAN] /\ status' \in [Pids -> Statuses]
        /\ priority' \in [Pids -> Nat] /\ ticks' \in [Pids -> Nat]
    BY <1>1, <1>2, <1>7 DEF CreatePCB, IInv, TypeOK, Statuses
  <2>2. frames' \in [Pids -> Seq(BOOLEAN)]
    BY <1>1, <1>2 DEF CreatePCB, IInv, TypeOK
  <2>3. /\ pageDirectoryAddress' \in [Pids -> BOOLEAN]
        /\ pc' \in [Pids -> {"run", "exit", "wild", "halt"}]
    BY <1>1, <1>2 DEF IInv, TypeOK
  <2>4. QED
    BY <1>2, <1>4, <1>5, <2>1, <2>2, <2>3 DEF IInv, TypeOK
<1>9. ReadyQueue'
  BY <1>1, <1>2, <1>4, <1>6 DEF CreatePCB, IInv, TypeOK, ReadyQueue, Allocated
<1>10. AllPrograms'
  BY <1>5, <1>6 DEF IInv, AllPrograms
<1>11. OneRunning'
  <2>1. running' = running /\ running \in Allocated /\ running \in Pids
    BY <1>2 DEF IInv, TypeOK, OneRunning
  <2>2. status'[running] = status[running] /\ pc'[running] = pc[running]
    BY <1>1, <1>2, <1>3, <2>1 DEF CreatePCB, IInv, TypeOK
  <2>3. ASSUME NEW q \in Allocated' \ {running}
        PROVE  status'[q] = "READY" /\ pc'[q] = "run"
    <3>1. CASE q = p
      BY <1>1, <1>2, <3>1 DEF CreatePCB, IInv, TypeOK
    <3>2. CASE q # p
      <4>1. q \in Allocated \ {running} /\ q \in Pids
        BY <1>6, <2>3, <3>2 DEF Allocated
      <4>2. status'[q] = status[q] /\ pc'[q] = pc[q]
        BY <1>1, <1>2, <3>2, <4>1 DEF CreatePCB, IInv, TypeOK
      <4>3. QED
        BY <4>1, <4>2 DEF IInv, OneRunning
    <3>3. QED
      BY <3>1, <3>2
  <2>4. QED
    BY <1>6, <2>1, <2>2, <2>3 DEF IInv, OneRunning
<1>12. KernelThreadsOnly'
  BY <1>1, <1>2 DEF IInv, TypeOK, KernelThreadsOnly
<1>13. QED
  BY <1>8, <1>9, <1>10, <1>11, <1>12 DEF IInv

\* Switching to the next thread keeps the invariant, whoever calls schedule().
LEMMA SwitchIInv ==
  ASSUME IInv, NEW restore \in BOOLEAN, Switch(status, restore), pc' = pc
  PROVE  IInv'
<1> USE PidsInt
<1> DEFINE cur == running
           next == Head(readyPrograms)
<1>1. /\ cur \in Allocated /\ cur \in Pids /\ cur \notin ToSet(readyPrograms)
      /\ ~pageDirectoryAddress[cur] /\ cur \in ToSet(allPrograms)
  BY DEF IInv, TypeOK, OneRunning, ReadyQueue, AllPrograms, KernelThreadsOnly, Allocated
<1>2. /\ readyPrograms # <<>> /\ next \in Pids /\ next \in ToSet(readyPrograms)
      /\ Tail(readyPrograms) \in Seq(Pids) /\ IsInjective(Tail(readyPrograms))
      /\ ToSet(Tail(readyPrograms)) = ToSet(readyPrograms) \ {next}
  BY TailOnce DEF Switch, IInv, TypeOK, ReadyQueue
<1>3. next \in Allocated /\ status[next] = "READY" /\ pc[next] = "run" /\ next # cur
  BY <1>1, <1>2 DEF IInv, ReadyQueue, OneRunning
<1>4. ~pageDirectoryAddress[next]
  BY <1>2 DEF IInv, KernelThreadsOnly
<1>5. /\ running' = next /\ interrupts' = TRUE
      /\ cr3' = KernelDirectory /\ esp0' = esp0
      /\ UNCHANGED <<priority, pageDirectoryAddress, pc>>
  BY <1>4 DEF Switch, ActivateProgramPage
<1>6. frames' \in [Pids -> Seq(BOOLEAN)]
  <2>1. frames \in [Pids -> Seq(BOOLEAN)] /\ Append(frames[cur], restore) \in Seq(BOOLEAN)
    BY <1>1 DEF IInv, TypeOK
  <2>2. frames' = [frames EXCEPT ![cur] = IF status[cur] = "DEAD" THEN <<>>
                                          ELSE Append(frames[cur], restore)]
    BY <1>1, <2>1 DEF Switch
  <2> DEFINE f == IF status[cur] = "DEAD" THEN <<>> ELSE Append(frames[cur], restore)
  <2>3. f \in Seq(BOOLEAN)
    BY <2>1
  <2> HIDE DEF f
  <2>4. frames' = [frames EXCEPT ![cur] = f]
    BY <2>2 DEF f
  <2>5. QED
    BY <2>1, <2>3, <2>4
<1>7. CASE status[cur] = "RUNNING"
  <2>1. /\ status' = [[status EXCEPT ![cur] = "READY"] EXCEPT ![next] = "RUNNING"]
        /\ ticks' = [ticks EXCEPT ![cur] = priority[cur] * Quantum]
        /\ readyPrograms' = Tail(PushBack(readyPrograms, cur))
        /\ PCB_SET_STATUS' = PCB_SET_STATUS /\ allPrograms' = allPrograms
    BY <1>1, <1>7 DEF Switch, IInv, TypeOK
  <2>2. pc[cur] = "run"
    BY <1>7 DEF IInv, OneRunning
  <2>3. /\ PushBack(readyPrograms, cur) = Append(readyPrograms, cur)
        /\ PushBack(readyPrograms, cur) \in Seq(Pids)
        /\ ToSet(PushBack(readyPrograms, cur)) = ToSet(readyPrograms) \cup {cur}
        /\ IsInjective(PushBack(readyPrograms, cur))
    BY <1>1, PushBackOnce DEF IInv, TypeOK, ReadyQueue
  <2>4. /\ PushBack(readyPrograms, cur) # <<>>
        /\ Head(PushBack(readyPrograms, cur)) = next
    <3>1. readyPrograms \in Seq(Pids)
      BY DEF IInv, TypeOK
    <3>2. Len(readyPrograms) \in Nat \ {0} /\ next = readyPrograms[1]
      BY <1>2, <3>1
    <3>3. /\ Append(readyPrograms, cur) \in Seq(Pids)
          /\ Len(Append(readyPrograms, cur)) = Len(readyPrograms) + 1
          /\ Append(readyPrograms, cur)[1] = readyPrograms[1]
      BY <1>1, <3>1, <3>2, AppendProperties
    <3>4. QED
      BY <2>3, <3>2, <3>3
  <2>5. /\ readyPrograms' \in Seq(Pids) /\ IsInjective(readyPrograms')
        /\ ToSet(readyPrograms') = (ToSet(readyPrograms) \cup {cur}) \ {next}
    BY <2>1, <2>3, <2>4, TailOnce
  <2>6. Allocated' = Allocated
    BY <2>1 DEF Allocated
  <2>7. TypeOK'
    <3>1. priority[cur] * Quantum \in Nat
      BY <1>1, SchedulerAssumption, SMTT(30) DEF IInv, TypeOK
    <3>2. status' \in [Pids -> Statuses] /\ ticks' \in [Pids -> Nat]
      BY <1>1, <1>2, <2>1, <3>1 DEF IInv, TypeOK, Statuses
    <3>3. QED
      BY <1>2, <1>5, <1>6, <2>1, <2>5, <3>2 DEF IInv, TypeOK
  <2>8. ReadyQueue'
    <3>1. \A p \in Pids : status'[p] = IF p = next THEN "RUNNING"
                                      ELSE IF p = cur THEN "READY" ELSE status[p]
      BY <1>1, <1>2, <2>1 DEF IInv, TypeOK
    <3>2. ToSet(readyPrograms) = {p \in Allocated : status[p] = "READY"}
      BY DEF IInv, ReadyQueue
    <3>3. ToSet(readyPrograms') = {p \in Allocated : status'[p] = "READY"}
      BY <1>1, <1>2, <1>3, <2>5, <3>1, <3>2 DEF Allocated
    <3>4. QED
      BY <2>5, <2>6, <3>3 DEF ReadyQueue
  <2>9. AllPrograms'
    BY <2>1, <2>6 DEF IInv, AllPrograms
  <2>10. OneRunning'
    <3>1. status'[next] = "RUNNING" /\ pc'[next] = "run"
      BY <1>1, <1>2, <1>3, <1>5, <2>1 DEF IInv, TypeOK
    <3>2. ASSUME NEW q \in Allocated \ {next}
          PROVE  status'[q] = "READY" /\ pc'[q] = "run"
      <4>1. q \in Pids
        BY DEF Allocated
      <4>2. status'[q] = IF q = cur THEN "READY" ELSE status[q]
        BY <1>1, <2>1, <3>2, <4>1 DEF IInv, TypeOK
      <4>3. QED
        BY <1>1, <1>5, <2>2, <3>2, <4>2 DEF IInv, OneRunning
    <3>3. QED
      BY <1>3, <1>5, <2>6, <3>1, <3>2 DEF OneRunning
  <2>11. QED
    BY <1>5, <2>7, <2>8, <2>9, <2>10 DEF IInv, KernelThreadsOnly
<1>8. CASE status[cur] # "RUNNING"
  <2>1. status[cur] = "DEAD"
    BY <1>8 DEF IInv, OneRunning
  <2>2. /\ status' = [status EXCEPT ![next] = "RUNNING"]
        /\ ticks' = ticks
        /\ readyPrograms' = Tail(readyPrograms)
        /\ PCB_SET_STATUS' = [PCB_SET_STATUS EXCEPT ![cur] = FALSE]
        /\ allPrograms' = RemoveFirst(allPrograms, cur)
    BY <1>1, <2>1 DEF Switch, IInv, TypeOK
  <2>3. /\ allPrograms' \in Seq(Pids) /\ IsInjective(allPrograms')
        /\ ToSet(allPrograms') = ToSet(allPrograms) \ {cur}
    BY <1>1, <2>2, RemoveFirstOnce DEF IInv, TypeOK, AllPrograms
  <2>4. Allocated' = Allocated \ {cur}
    BY <1>1, <2>2 DEF IInv, TypeOK, Allocated
  <2>5. TypeOK'
    <3>1. /\ status' \in [Pids -> Statuses] /\ PCB_SET_STATUS' \in [Pids -> BOOLEAN]
      BY <1>1, <1>2, <2>2 DEF IInv, TypeOK, Statuses
    <3>2. QED
      BY <1>2, <1>5, <1>6, <2>2, <2>3, <3>1 DEF IInv, TypeOK
  <2>6. ReadyQueue'
    BY <1>1, <1>2, <1>3, <2>1, <2>2, <2>4 DEF IInv, TypeOK, ReadyQueue, Allocated
  <2>7. AllPrograms'
    BY <2>3, <2>4 DEF IInv, AllPrograms
  <2>8. OneRunning'
    BY <1>1, <1>2, <1>3, <1>5, <2>2, <2>4 DEF IInv, TypeOK, OneRunning
  <2>9. QED
    BY <1>5, <2>5, <2>6, <2>7, <2>8 DEF IInv, KernelThreadsOnly
<1>9. QED
  BY <1>7, <1>8

\* The steps that switch to nobody: they move neither list and change no status.
LEMMA QuietIInv ==
  ASSUME IInv, UNCHANGED <<PCB_SET_STATUS, allPrograms, readyPrograms, running, status,
                           priority, pageDirectoryAddress, cr3, esp0>>,
         ticks' \in [Pids -> Nat], interrupts' \in BOOLEAN,
         frames' \in [Pids -> Seq(BOOLEAN)],
         \/ pc' = pc
         \/ pc[running] # "run" /\ \E l \in {"exit", "wild", "halt"} :
                                      pc' = [pc EXCEPT ![running] = l]
  PROVE  IInv'
<1>1. Allocated' = Allocated
  BY DEF Allocated
<1>2. TypeOK'
  BY DEF IInv, TypeOK
<1>3. ReadyQueue' /\ AllPrograms' /\ KernelThreadsOnly'
  BY <1>1 DEF IInv, ReadyQueue, AllPrograms, KernelThreadsOnly, Allocated
<1>4. OneRunning'
  <2>1. running \in Pids /\ pc'[running] # "run" <=> running \in Pids /\ pc[running] # "run"
    BY DEF IInv, TypeOK
  <2>2. \A p \in Pids \ {running} : pc'[p] = pc[p]
    BY DEF IInv, TypeOK
  <2>3. QED
    BY <1>1, <2>1, <2>2 DEF IInv, TypeOK, OneRunning, Allocated
<1>5. QED
  BY <1>2, <1>3, <1>4 DEF IInv

\* Marking the thread DEAD at the start of program_exit keeps the invariant.
LEMMA ExitMarkIInv ==
  ASSUME IInv, ExitMark
  PROVE  IInv'
<1>1. running \in Pids /\ pc[running] = "run" /\ status[running] = "RUNNING"
  BY DEF ExitMark, At, IInv, TypeOK, OneRunning
<1>2. /\ status' = [status EXCEPT ![running] = "DEAD"]
      /\ pc' = [pc EXCEPT ![running] = "exit"]
      /\ UNCHANGED <<PCB_SET_STATUS, allPrograms, readyPrograms, running, priority, ticks,
                     pageDirectoryAddress, interrupts, frames, cr3, esp0>>
  BY DEF ExitMark, pcbs, mmu
<1>3. Allocated' = Allocated
  BY <1>2 DEF Allocated
<1>4. TypeOK'
  BY <1>1, <1>2 DEF IInv, TypeOK, Statuses
<1>5. ReadyQueue'
  BY <1>1, <1>2, <1>3 DEF IInv, TypeOK, ReadyQueue, Allocated
<1>6. AllPrograms' /\ KernelThreadsOnly'
  BY <1>2, <1>3 DEF IInv, AllPrograms, KernelThreadsOnly
<1>7. OneRunning'
  BY <1>1, <1>2, <1>3 DEF IInv, TypeOK, OneRunning, Allocated
<1>8. QED
  BY <1>4, <1>5, <1>6, <1>7 DEF IInv

\* Every step of the kernel keeps the invariant.
LEMMA NextIInv == IInv /\ [Next]_vars => IInv'
<1> SUFFICES ASSUME IInv, [Next]_vars PROVE IInv'
  OBVIOUS
<1> USE DEF pcbs, mmu
<1>1. /\ running \in Pids /\ ticks \in [Pids -> Nat] /\ interrupts \in BOOLEAN
      /\ frames \in [Pids -> Seq(BOOLEAN)]
  BY DEF IInv, TypeOK
<1>2. ASSUME NEW prio \in Priorities, ExecuteThread(prio) PROVE IInv'
  BY <1>2, CreateIInv
<1>3. CASE ExecuteThreadFails
  BY <1>1, <1>3, QuietIInv DEF ExecuteThreadFails
<1>4. CASE CallSchedule
  BY <1>1, <1>4, SwitchIInv, QuietIInv DEF CallSchedule, NothingReady
<1>5. CASE FinishSchedule
  <2>1. frames[running] \in Seq(BOOLEAN) /\ frames[running] # <<>>
    BY <1>1, <1>5 DEF FinishSchedule
  <2>2. Last(frames[running]) \in BOOLEAN /\ Front(frames[running]) \in Seq(BOOLEAN)
    BY <2>1 DEF Last, Front
  <2>3. QED
    BY <1>1, <1>5, <2>2, QuietIInv DEF FinishSchedule
<1>6. CASE TimerTick
  <2>1. ticks' \in [Pids -> Nat]
    BY <1>1, <1>6 DEF TimerTick
  <2>2. QED
    BY <1>1, <1>6, <2>1, QuietIInv DEF TimerTick
<1>7. CASE TimerSchedule
  BY <1>1, <1>7, SwitchIInv, QuietIInv DEF TimerSchedule, NothingReady
<1>8. CASE ExitMark
  BY <1>8, ExitMarkIInv
<1>9. CASE ExitSchedule
  <2>1. pc[running] # "run"
    BY <1>9 DEF ExitSchedule, At
  <2>2. QED
    BY <1>1, <1>9, <2>1, SwitchIInv, QuietIInv DEF ExitSchedule, NothingReady
<1>10. CASE ExitHalt
  BY <1>1, <1>10, QuietIInv DEF ExitHalt, At
<1>11. CASE UNCHANGED vars
  BY <1>1, <1>11, QuietIInv DEF vars, schedVars
<1>12. CASE Halted
  BY <1>11, <1>12 DEF Halted, vars
<1>13. QED
  BY <1>2, <1>3, <1>4, <1>5, <1>6, <1>7, <1>8, <1>9, <1>10, <1>11, <1>12
     DEF Next, TimerInterrupt, Exit

-----------------------------------------------------------------------------
\* In every reachable state, for every number of PCBs, however the timer
\* interleaves with creation, exit and nested calls of schedule(): the lists,
\* the statuses and the running thread agree.
THEOREM InvariantTheorem == Spec => []IInv
<1>1. Init => IInv
  BY InitIInv
<1>2. IInv /\ [Next]_vars => IInv'
  BY NextIInv
<1>3. QED
  BY <1>1, <1>2, PTL DEF Spec

\* The state of the program manager keeps its types.
THEOREM TypeTheorem == Spec => []TypeOK
<1>1. IInv => TypeOK
  BY DEF IInv
<1>2. QED
  BY <1>1, InvariantTheorem, PTL

\* readyPrograms holds exactly the READY threads, each once (program.h:14).
THEOREM ReadyQueueTheorem == Spec => []ReadyQueue
<1>1. IInv => ReadyQueue
  BY DEF IInv
<1>2. QED
  BY <1>1, InvariantTheorem, PTL

\* allPrograms holds exactly the allocated PCBs, each once (program.h:13).
THEOREM AllProgramsTheorem == Spec => []AllPrograms
<1>1. IInv => AllPrograms
  BY DEF IInv
<1>2. QED
  BY <1>1, InvariantTheorem, PTL

\* One allocated thread has the processor; all the others are READY.
THEOREM OneRunningTheorem == Spec => []OneRunning
<1>1. IInv => OneRunning
  BY DEF IInv
<1>2. QED
  BY <1>1, InvariantTheorem, PTL

\* The steps of schedule() rotate the ready list.
LEMMA SwitchRotates ==
  ASSUME IInv, NEW restore \in BOOLEAN, Switch(status, restore)
  PROVE  /\ readyPrograms # <<>>
         /\ IsPrefix(Tail(readyPrograms), readyPrograms')
         /\ running' = Head(readyPrograms)
<1>1. /\ running \in Pids /\ running \notin ToSet(readyPrograms)
      /\ readyPrograms \in Seq(Pids) /\ IsInjective(readyPrograms)
  BY DEF IInv, TypeOK, OneRunning, ReadyQueue
<1>2. readyPrograms # <<>> /\ running' = Head(readyPrograms)
  BY DEF Switch
<1>3. Tail(readyPrograms) \in Seq(Pids)
  BY <1>1, <1>2, TailOnce
<1>4. CASE status[running] = "RUNNING"
  <2>1. readyPrograms' = Tail(PushBack(readyPrograms, running))
    BY <1>4 DEF Switch
  <2>2. PushBack(readyPrograms, running) = Append(readyPrograms, running)
    BY <1>1, PushBackOnce
  <2>3. QED
    BY <1>1, <1>2, <2>1, <2>2, Rotation
<1>5. CASE status[running] # "RUNNING"
  <2>1. readyPrograms' = Tail(readyPrograms)
    BY <1>5 DEF Switch
  <2>2. IsPrefix(Tail(readyPrograms), Tail(readyPrograms))
    <3> DEFINE t == Tail(readyPrograms)
    <3>1. t \in Seq(Pids)
      BY <1>3
    <3> HIDE DEF t
    <3>2. IsPrefix(t, t)
      BY <3>1, Rotation, PidsInt
    <3>3. QED
      BY <3>2 DEF t
  <2>3. QED
    BY <1>2, <2>1, <2>2
<1>6. QED
  BY <1>4, <1>5

\* Threads leave the ready list only at its head, for the processor, and the
\* others keep their order (interrupt.cpp:105).
THEOREM FirstInFirstOutTheorem == Spec => FirstInFirstOut
<1> DEFINE Rotated ==
             \/ IsPrefix(readyPrograms, readyPrograms')
             \/ /\ readyPrograms # <<>>
                /\ IsPrefix(Tail(readyPrograms), readyPrograms')
                /\ running' = Head(readyPrograms)
<1>1. ASSUME IInv, [Next]_vars PROVE [Rotated]_vars
  <2> USE PidsInt
  <2>1. /\ readyPrograms \in Seq(Pids) /\ IsInjective(readyPrograms)
        /\ interrupts \in BOOLEAN
    BY <1>1 DEF IInv, TypeOK, ReadyQueue
  <2>2. IsPrefix(readyPrograms, readyPrograms)
    BY <2>1, Rotation
  <2>3. ASSUME readyPrograms' = readyPrograms PROVE Rotated
    BY <2>2, <2>3
  <2>4. ASSUME NEW restore \in BOOLEAN, Switch(status, restore) PROVE Rotated
    BY <1>1, <2>4, SwitchRotates
  <2>5. ASSUME NEW prio \in Priorities, ExecuteThread(prio) PROVE Rotated
    <3>1. PICK p \in AllocatePCB : CreatePCB(p, prio)
      BY <2>5 DEF ExecuteThread
    <3>2. p \in Pids /\ p \notin ToSet(readyPrograms)
      BY <1>1 DEF AllocatePCB, FreePCBs, IInv, ReadyQueue, Allocated
    <3>3. readyPrograms' = Append(readyPrograms, p)
      BY <2>1, <3>1, <3>2, PushBackOnce DEF CreatePCB
    <3>4. IsPrefix(readyPrograms, Append(readyPrograms, p))
      BY <2>1, <3>2, Rotation
    <3>5. QED
      BY <3>3, <3>4
  <2> HIDE DEF Rotated
  <2>6. CASE ExecuteThreadFails \/ FinishSchedule \/ TimerTick \/ ExitMark \/ ExitHalt
    BY <2>3, <2>6 DEF ExecuteThreadFails, FinishSchedule, TimerTick, ExitMark, ExitHalt
  <2>7. CASE CallSchedule
    BY <2>1, <2>3, <2>4, <2>7 DEF CallSchedule, NothingReady
  <2>8. CASE TimerSchedule
    BY <2>3, <2>4, <2>8 DEF TimerSchedule, NothingReady
  <2>9. CASE ExitSchedule
    BY <2>1, <2>3, <2>4, <2>9 DEF ExitSchedule, NothingReady
  <2>10. CASE Halted \/ UNCHANGED vars
    BY <2>3, <2>10 DEF Halted, vars, schedVars
  <2>11. QED
    BY <1>1, <2>5, <2>6, <2>7, <2>8, <2>9, <2>10 DEF Next, TimerInterrupt, Exit
<1>2. IInv /\ [Next]_vars => [Rotated]_vars
  BY <1>1
<1>3. QED
  BY <1>2, InvariantTheorem, PTL DEF Spec, FirstInFirstOut

\* While the first thread does not return there is always somebody to switch to.
FirstThreadLives == 0 \in Allocated /\ pc[0] = "run" /\ ExitNeverReturns

LEMMA NextFirstThreadLives ==
  ASSUME ~FirstThreadReturns
  PROVE  IInv /\ FirstThreadLives /\ [Next]_vars => FirstThreadLives'
<1> SUFFICES ASSUME IInv, FirstThreadLives, [Next]_vars PROVE FirstThreadLives'
  OBVIOUS
<1> USE PidsInt DEF pcbs, mmu
<1>1. /\ running \in Pids /\ pc \in [Pids -> {"run", "exit", "wild", "halt"}]
      /\ PCB_SET_STATUS \in [Pids -> BOOLEAN] /\ PCB_SET_STATUS[0]
  BY DEF IInv, TypeOK, FirstThreadLives, Allocated
<1>2. ASSUME NEW prio \in Priorities, ExecuteThread(prio) PROVE FirstThreadLives'
  BY <1>1, <1>2 DEF ExecuteThread, CreatePCB, AllocatePCB, FreePCBs,
                    FirstThreadLives, Allocated, ExitNeverReturns
<1>3. ASSUME NEW restore \in BOOLEAN, Switch(status, restore), pc' = pc
      PROVE  FirstThreadLives'
  <2>1. running = 0 => status[running] = "RUNNING"
    BY DEF IInv, OneRunning, FirstThreadLives
  <2>2. PCB_SET_STATUS'[0]
    BY <1>1, <1>3, <2>1 DEF Switch
  <2>3. QED
    BY <1>3, <2>2 DEF FirstThreadLives, Allocated, ExitNeverReturns
<1>4. ASSUME PCB_SET_STATUS' = PCB_SET_STATUS, pc' = pc PROVE FirstThreadLives'
  BY <1>4 DEF FirstThreadLives, Allocated, ExitNeverReturns
<1>5. interrupts \in BOOLEAN
  BY DEF IInv, TypeOK
<1>6. CASE ExecuteThreadFails \/ FinishSchedule \/ TimerTick \/ Halted \/ UNCHANGED vars
  BY <1>4, <1>6 DEF ExecuteThreadFails, FinishSchedule, TimerTick, Halted, vars, schedVars
<1>7. CASE CallSchedule \/ TimerSchedule
  BY <1>3, <1>4, <1>5, <1>7 DEF CallSchedule, TimerSchedule, NothingReady
<1>8. CASE ExitMark
  <2>1. running # 0 /\ pc' = [pc EXCEPT ![running] = "exit"]
        /\ PCB_SET_STATUS' = PCB_SET_STATUS
    BY <1>8 DEF ExitMark
  <2>2. QED
    BY <1>1, <2>1 DEF FirstThreadLives, Allocated, ExitNeverReturns
<1>9. CASE ExitSchedule
  <2>1. running # 0
    BY <1>9 DEF ExitSchedule
  <2>2. 0 \in ToSet(readyPrograms)
    BY <2>1 DEF IInv, OneRunning, ReadyQueue, FirstThreadLives
  <2>3. readyPrograms # <<>>
    BY <2>2 DEF ToSet
  <2>4. QED
    BY <1>3, <1>5, <1>9, <2>3 DEF ExitSchedule, NothingReady
<1>10. CASE ExitHalt
  BY <1>10 DEF ExitHalt, At, FirstThreadLives
<1>11. QED
  BY <1>2, <1>6, <1>7, <1>8, <1>9, <1>10 DEF Next, TimerInterrupt, Exit

\* schedule() called from program_exit never returns to a thread that has no
\* caller (program.cpp:187-190), provided the first thread does not return.
THEOREM ExitNeverReturnsTheorem ==
  ASSUME ~FirstThreadReturns
  PROVE  Spec => []ExitNeverReturns
<1>1. Init => FirstThreadLives
  BY PidsInt DEF Init, FirstThreadLives, Allocated, ExitNeverReturns
<1>2. IInv /\ FirstThreadLives /\ [Next]_vars => FirstThreadLives'
  BY NextFirstThreadLives
<1>3. FirstThreadLives => ExitNeverReturns
  BY DEF FirstThreadLives
<1>4. QED
  BY <1>1, <1>2, <1>3, InvariantTheorem, PTL DEF Spec

-----------------------------------------------------------------------------
(***************************************************************************)
(* Processes, from here on.                                                *)
(***************************************************************************)
GivenUp == {"noload", "nocopy"}

\* A PCB is on readyPrograms once, it is not the running one, and unless its
\* creation was given up it is allocated and READY.
QueuedPCBs ==
  /\ IsInjective(readyPrograms)
  /\ running \notin ToSet(readyPrograms)
  /\ \A p \in ToSet(readyPrograms) :
       \/ pc[p] \in GivenUp
       \/ p \in Allocated /\ status[p] = "READY" /\ pc[p] \notin {"halt", "wild"}

\* Only a PCB whose creation was given up can have been released by the time it
\* runs, and it runs no further than to the stop of the machine.
RunningPCB ==
  /\ running \in Allocated \/ pc[running] \in GivenUp \cup {"halt"}
  /\ IF pc[running] \in {"halt", "wild"}
     THEN ~interrupts /\ frames[running] = <<>>
     ELSE status[running] = "RUNNING"

\* The first thread never exits and is nobody's child.
KernelThread ==
  /\ 0 \in Allocated /\ pc[0] = "run" /\ parentPid[0] = 0
  /\ running # 0 => status[0] = "READY"

\* What a process whose creation succeeded does.
ProcessLabels == {"load", "user", "wait", "yield"}

\* A process that gets to user mode has a page directory.
Directories == \A p \in Pids : pc[p] \in ProcessLabels => pageDirectoryAddress[p]

\* What a creation given up half way destroys.
WhileWhole ==
  ~failed => ReadyQueue /\ \A p \in Pids : pc[p] \notin GivenUp \cup {"wild"}

\* The inductive invariant.
PInv ==
  /\ ProcessTypeOK
  /\ AllPrograms
  /\ AddressSpace
  /\ QueuedPCBs
  /\ RunningPCB
  /\ KernelThread
  /\ Directories
  /\ WhileWhole

-----------------------------------------------------------------------------
\* push_back of a PCB that may be on the list already: what followed it is lost,
\* but nothing is on the list twice and nothing new is but that PCB.
LEMMA PushBackAgain ==
  ASSUME NEW list \in Seq(Pids), NEW p \in Pids, IsInjective(list)
  PROVE  /\ PushBack(list, p) \in Seq(Pids)
         /\ IsInjective(PushBack(list, p))
         /\ ToSet(PushBack(list, p)) \subseteq ToSet(list) \cup {p}
<1>1. CASE p \notin ToSet(list)
  BY <1>1, PushBackOnce
<1>2. CASE p \in ToSet(list)
  <2>1. PICK k \in 1 .. Len(list) : list[k] = p
    BY <1>2 DEF ToSet
  <2>2. {i \in 1 .. Len(list) : list[i] = p} = {k}
    BY <2>1 DEF IsInjective
  <2>3. Min({k}) = k
    BY DEF Min
  <2>4. Contains(list, p)
    BY <1>2 DEF Contains, ToSet
  <2> DEFINE r == SubSeq(list, 1, k)
  <2>5. PushBack(list, p) = r
    BY <2>1, <2>2, <2>3, <2>4 DEF PushBack, SelectInSeq
  <2>6. /\ r \in Seq(Pids) /\ Len(r) = k
        /\ \A i \in 1 .. k : r[i] = list[i]
    BY <2>1, SubSeqProperties
  <2> HIDE DEF r
  <2>7. IsInjective(r)
    BY <2>1, <2>6 DEF IsInjective
  <2>8. ToSet(r) \subseteq ToSet(list)
    BY <2>1, <2>6 DEF ToSet
  <2>9. QED
    BY <2>5, <2>6, <2>7, <2>8
<1>3. QED
  BY <1>1, <1>2

-----------------------------------------------------------------------------
LEMMA InitPInv == ProcessInit => PInv
<1> SUFFICES ASSUME ProcessInit PROVE PInv
  OBVIOUS
<1> USE PidsInt
<1>1. Init /\ parentPid = [p \in Pids |-> 0] /\ failed = FALSE
  BY DEF ProcessInit
<1>2. ReadyQueue /\ AllPrograms /\ 0 \in Allocated
  BY <1>1, InitIInv DEF IInv, Init, Allocated
<1>3. ProcessTypeOK
  <2>1. frames \in [Pids -> Seq(BOOLEAN)]
    BY <1>1 DEF Init
  <2>2. QED
    BY <1>1, <2>1, SchedulerAssumption DEF Init, ProcessTypeOK, Statuses, KernelDirectory
<1>4. AddressSpace /\ QueuedPCBs /\ RunningPCB /\ KernelThread
  <2>1. ToSet(readyPrograms) = {}
    BY <1>1 DEF Init, ToSet
  <2>2. QED
    BY <1>1, <1>2, <2>1
       DEF Init, AddressSpace, QueuedPCBs, RunningPCB, KernelThread, ReadyQueue
<1>5. Directories /\ WhileWhole
  BY <1>1, <1>2 DEF Init, Directories, ProcessLabels, WhileWhole, GivenUp
<1>6. QED
  BY <1>2, <1>3, <1>4, <1>5 DEF PInv

\* Creating a process, whole or half way, keeps the invariant.
LEMMA NewProcessPInv ==
  ASSUME PInv, NEW p \in AllocatePCB, NEW parent \in Pids, NEW prio \in Nat, NEW t \in Nat,
         NEW label \in {"load", "user", "noload", "nocopy"},
         NEW has \in BOOLEAN, label \in {"load", "user"} => has,
         frames[running] = <<>>, pc[running] \in {"run", "user"},
         pageDirectoryAddress' = [pageDirectoryAddress EXCEPT ![p] = has],
         NewProcess(p, parent, prio, t, label)
  PROVE  PInv'
<1> USE PidsInt
<1>1. /\ PCB_SET_STATUS' = [PCB_SET_STATUS EXCEPT ![p] = TRUE]
      /\ status' = [status EXCEPT ![p] = IF label \in {"load", "user"} THEN "READY"
                                                                      ELSE "DEAD"]
      /\ priority' = [priority EXCEPT ![p] = prio]
      /\ ticks' = [ticks EXCEPT ![p] = t]
      /\ frames' = [frames EXCEPT ![p] = <<>>]
      /\ pc' = [pc EXCEPT ![p] = label]
      /\ parentPid' = [parentPid EXCEPT ![p] = parent]
      /\ failed' = (failed \/ label \in {"noload", "nocopy"})
      /\ allPrograms' = PushBack(allPrograms, p)
      /\ readyPrograms' = PushBack(readyPrograms, p)
      /\ UNCHANGED <<running, interrupts, cr3, esp0>>
  BY DEF NewProcess, mmu
<1>2. p \in Pids /\ ~PCB_SET_STATUS[p] /\ p \notin Allocated
  BY DEF AllocatePCB, FreePCBs, Allocated
<1>3. running \in Allocated /\ running \in Pids /\ running # p /\ p # 0
  BY <1>2 DEF PInv, ProcessTypeOK, RunningPCB, GivenUp, KernelThread
<1>4. /\ readyPrograms' \in Seq(Pids) /\ IsInjective(readyPrograms')
      /\ ToSet(readyPrograms') \subseteq ToSet(readyPrograms) \cup {p}
  BY <1>1, <1>2, PushBackAgain DEF PInv, ProcessTypeOK, QueuedPCBs
<1>5. /\ allPrograms' \in Seq(Pids) /\ IsInjective(allPrograms')
      /\ ToSet(allPrograms') = ToSet(allPrograms) \cup {p}
  BY <1>1, <1>2, PushBackOnce DEF PInv, ProcessTypeOK, AllPrograms
<1>6. Allocated' = Allocated \cup {p}
  BY <1>1, <1>2 DEF Allocated, PInv, ProcessTypeOK
<1>7. /\ status'[p] = (IF label \in {"load", "user"} THEN "READY" ELSE "DEAD")
      /\ pc'[p] = label /\ pageDirectoryAddress'[p] = has
      /\ \A q \in Pids \ {p} :
           /\ status'[q] = status[q] /\ pc'[q] = pc[q] /\ frames'[q] = frames[q]
           /\ parentPid'[q] = parentPid[q]
           /\ pageDirectoryAddress'[q] = pageDirectoryAddress[q]
  BY <1>1, <1>2 DEF PInv, ProcessTypeOK
<1>8. ProcessTypeOK'
  <2>1. frames' \in [Pids -> Seq(BOOLEAN)]
    BY <1>1 DEF PInv, ProcessTypeOK
  <2>2. /\ PCB_SET_STATUS' \in [Pids -> BOOLEAN] /\ status' \in [Pids -> Statuses]
        /\ priority' \in [Pids -> Nat] /\ ticks' \in [Pids -> Nat]
        /\ parentPid' \in [Pids -> Pids]
    BY <1>1, <1>2 DEF PInv, ProcessTypeOK, Statuses
  <2>3. /\ pageDirectoryAddress' \in [Pids -> BOOLEAN]
        /\ pc' \in [Pids -> {"run", "load", "user", "wait", "yield", "noload", "nocopy",
                             "wild", "halt"}]
        /\ failed' \in BOOLEAN
    BY <1>1 DEF PInv, ProcessTypeOK
  <2>4. QED
    BY <1>1, <1>4, <1>5, <2>1, <2>2, <2>3 DEF PInv, ProcessTypeOK
<1>9. AllPrograms'
  BY <1>5, <1>6 DEF PInv, AllPrograms
<1>10. AddressSpace'
  BY <1>1, <1>3, <1>7 DEF PInv, AddressSpace
<1>11. QueuedPCBs'
  <2>1. ASSUME NEW q \in ToSet(readyPrograms')
        PROVE  \/ pc'[q] \in GivenUp
               \/ q \in Allocated' /\ status'[q] = "READY" /\ pc'[q] \notin {"halt", "wild"}
    <3>1. CASE q = p
      BY <1>6, <1>7, <3>1 DEF GivenUp
    <3>2. CASE q # p
      <4>1. q \in ToSet(readyPrograms) /\ q \in Pids
        BY <1>4, <2>1, <3>2 DEF ToSet
      <4>2. QED
        BY <1>6, <1>7, <3>2, <4>1 DEF PInv, QueuedPCBs
    <3>3. QED
      BY <3>1, <3>2
  <2>2. running' \notin ToSet(readyPrograms')
    BY <1>1, <1>3, <1>4 DEF PInv, QueuedPCBs
  <2>3. QED
    BY <1>4, <2>1, <2>2 DEF QueuedPCBs
<1>12. RunningPCB'
  BY <1>1, <1>3, <1>6, <1>7 DEF PInv, RunningPCB
<1>13. KernelThread'
  BY <1>1, <1>3, <1>6, <1>7 DEF PInv, KernelThread
<1>14. Directories'
  BY <1>7 DEF PInv, Directories, ProcessLabels
<1>15. WhileWhole'
  <2> SUFFICES ASSUME ~failed'
               PROVE  ReadyQueue' /\ \A q \in Pids : pc'[q] \notin GivenUp \cup {"wild"}
    BY DEF WhileWhole
  <2>1. ~failed /\ label \in {"load", "user"}
    BY <1>1
  <2>2. /\ IsInjective(readyPrograms)
        /\ ToSet(readyPrograms) = {q \in Allocated : status[q] = "READY"}
        /\ \A q \in Pids : pc[q] \notin GivenUp \cup {"wild"}
    BY <2>1 DEF PInv, WhileWhole, ReadyQueue
  <2>3. ToSet(readyPrograms') = ToSet(readyPrograms) \cup {p}
    BY <1>1, <1>2, <2>2, PushBackOnce DEF PInv, ProcessTypeOK
  <2>4. ToSet(readyPrograms') = {q \in Allocated' : status'[q] = "READY"}
    BY <1>6, <1>7, <2>1, <2>2, <2>3 DEF Allocated
  <2>5. QED
    BY <1>4, <1>7, <2>1, <2>2, <2>4 DEF ReadyQueue, GivenUp
<1>16. QED
  BY <1>8, <1>9, <1>10, <1>11, <1>12, <1>13, <1>14, <1>15 DEF PInv

\* Nobody is released by schedule(): whoever exits has a page directory, and its
\* PCB stays for its parent.
LEMMA SwitchReleasesNobody ==
  ASSUME PInv, NEW before, NEW restore \in BOOLEAN,
         pc[running] \notin {"halt", "wild"},
         \/ before = status
         \/ pc[running] = "user" /\ before = [status EXCEPT ![running] = "DEAD"],
         Switch(before, restore)
  PROVE  PCB_SET_STATUS' = PCB_SET_STATUS /\ allPrograms' = allPrograms
<1>1. running \in Pids /\ status[running] = "RUNNING"
  BY DEF PInv, ProcessTypeOK, RunningPCB
<1>2. ~(before[running] = "DEAD" /\ ~pageDirectoryAddress[running])
  BY <1>1 DEF PInv, ProcessTypeOK, Directories, ProcessLabels
<1>3. PCB_SET_STATUS' = [PCB_SET_STATUS EXCEPT ![running] = @ /\ TRUE]
  BY <1>2 DEF Switch
<1>4. PCB_SET_STATUS \in [Pids -> BOOLEAN]
  BY DEF PInv, ProcessTypeOK
<1>5. QED
  BY <1>1, <1>2, <1>3, <1>4 DEF Switch

\* schedule() with somebody to switch to keeps the invariant, from the timer,
\* from wait and from exit.
LEMMA SwitchPInv ==
  ASSUME PInv, NEW before, NEW restore \in BOOLEAN,
         pc[running] \notin {"halt", "wild"},
         \/ before = status
         \/ pc[running] = "user" /\ before = [status EXCEPT ![running] = "DEAD"],
         Switch(before, restore),
         pc' = pc \/ (pc[running] = "yield" /\ pc' = [pc EXCEPT ![running] = "wait"]),
         UNCHANGED procVars
  PROVE  PInv'
<1> USE PidsInt
<1> DEFINE cur == running
           next == Head(readyPrograms)
<1>1. /\ cur \in Pids /\ status[cur] = "RUNNING" /\ cur \notin ToSet(readyPrograms)
      /\ readyPrograms \in Seq(Pids) /\ IsInjective(readyPrograms)
  BY DEF PInv, ProcessTypeOK, RunningPCB, QueuedPCBs
<1>2. /\ readyPrograms # <<>> /\ next \in Pids /\ next \in ToSet(readyPrograms)
      /\ Tail(readyPrograms) \in Seq(Pids) /\ IsInjective(Tail(readyPrograms))
      /\ ToSet(Tail(readyPrograms)) = ToSet(readyPrograms) \ {next}
  BY <1>1, TailOnce DEF Switch
<1>3. next # cur
  BY <1>1, <1>2
<1>5. /\ running' = next /\ interrupts' = TRUE
      /\ cr3' = IF pageDirectoryAddress[next] THEN next ELSE KernelDirectory
      /\ esp0' = IF pageDirectoryAddress[next] THEN next ELSE esp0
      /\ UNCHANGED <<priority, pageDirectoryAddress, parentPid, failed>>
  BY DEF Switch, ActivateProgramPage, procVars
<1>6. PCB_SET_STATUS' = PCB_SET_STATUS /\ allPrograms' = allPrograms
  BY SwitchReleasesNobody
<1>7. Allocated' = Allocated
  BY <1>6 DEF Allocated
<1>8. /\ status' \in [Pids -> Statuses] /\ status'[next] = "RUNNING"
      /\ status'[cur] = (IF before = status THEN "READY" ELSE "DEAD")
      /\ \A q \in Pids \ {cur, next} : status'[q] = status[q]
  <2>1. before \in [Pids -> Statuses] /\ before[cur] \in {"RUNNING", "DEAD"}
        /\ (before = status <=> before[cur] = "RUNNING")
        /\ \A q \in Pids \ {cur} : before[q] = status[q]
    BY <1>1 DEF PInv, ProcessTypeOK, Statuses
  <2>2. status' = [[before EXCEPT ![cur] = IF before[cur] = "RUNNING" THEN "READY" ELSE @]
                     EXCEPT ![next] = "RUNNING"]
    BY DEF Switch
  <2>3. QED
    BY <1>1, <1>2, <1>3, <2>1, <2>2 DEF Statuses
<1>9. ticks' \in [Pids -> Nat]
  <2>1. ticks \in [Pids -> Nat] /\ priority[cur] * Quantum \in Nat
    BY <1>1, SchedulerAssumption, SMTT(30) DEF PInv, ProcessTypeOK
  <2>2. QED
    BY <1>1, <2>1 DEF Switch
<1>10. frames' \in [Pids -> Seq(BOOLEAN)]
  <2>1. frames \in [Pids -> Seq(BOOLEAN)] /\ Append(frames[cur], restore) \in Seq(BOOLEAN)
    BY <1>1 DEF PInv, ProcessTypeOK
  <2> DEFINE f == IF before[cur] = "DEAD" THEN <<>> ELSE Append(frames[cur], restore)
  <2>2. f \in Seq(BOOLEAN)
    <3>1. CASE before[cur] = "DEAD"
      <4>1. f = <<>>
        BY <3>1
      <4>2. <<>> \in Seq(BOOLEAN)
        OBVIOUS
      <4> HIDE DEF f
      <4>3. QED
        BY <4>1, <4>2
    <3>2. CASE before[cur] # "DEAD"
      BY <2>1, <3>2
    <3>3. QED
      BY <3>1, <3>2
  <2>3. frames' = [frames EXCEPT ![cur] = f]
    BY <1>1, <2>1 DEF Switch
  <2> HIDE DEF f
  <2>4. QED
    BY <2>1, <2>2, <2>3
<1>11. /\ readyPrograms' \in Seq(Pids) /\ IsInjective(readyPrograms')
       /\ ToSet(readyPrograms') =
            (ToSet(readyPrograms) \cup (IF before = status THEN {cur} ELSE {})) \ {next}
  <2>1. before = status <=> before[cur] = "RUNNING"
    BY <1>1 DEF PInv, ProcessTypeOK
  <2>2. CASE before = status
    <3>1. readyPrograms' = Tail(PushBack(readyPrograms, cur))
      BY <2>1, <2>2 DEF Switch
    <3>2. /\ PushBack(readyPrograms, cur) = Append(readyPrograms, cur)
          /\ PushBack(readyPrograms, cur) \in Seq(Pids)
          /\ ToSet(PushBack(readyPrograms, cur)) = ToSet(readyPrograms) \cup {cur}
          /\ IsInjective(PushBack(readyPrograms, cur))
      BY <1>1, PushBackOnce
    <3>3. Len(readyPrograms) \in Nat \ {0} /\ next = readyPrograms[1]
      BY <1>1, <1>2
    <3>4. /\ Append(readyPrograms, cur) \in Seq(Pids)
          /\ Len(Append(readyPrograms, cur)) = Len(readyPrograms) + 1
          /\ Append(readyPrograms, cur)[1] = readyPrograms[1]
      BY <1>1, <3>3, AppendProperties
    <3>5. PushBack(readyPrograms, cur) # <<>> /\ Head(PushBack(readyPrograms, cur)) = next
      BY <3>2, <3>3, <3>4
    <3>6. QED
      BY <2>2, <3>1, <3>2, <3>5, TailOnce
  <2>3. CASE before # status
    BY <1>2, <2>1, <2>3 DEF Switch
  <2>4. QED
    BY <2>2, <2>3
<1>12. /\ pc' \in [Pids -> {"run", "load", "user", "wait", "yield", "noload", "nocopy",
                            "wild", "halt"}]
       /\ \A q \in Pids \ {cur} : pc'[q] = pc[q]
       /\ pc'[cur] = pc[cur] \/ (pc[cur] = "yield" /\ pc'[cur] = "wait")
  BY <1>1 DEF PInv, ProcessTypeOK
<1>13. ProcessTypeOK'
  BY <1>2, <1>5, <1>6, <1>8, <1>9, <1>10, <1>11, <1>12 DEF PInv, ProcessTypeOK
<1>14. AllPrograms' /\ AddressSpace'
  BY <1>5, <1>6, <1>7 DEF PInv, AllPrograms, AddressSpace
<1>15. QueuedPCBs'
  <2>1. ASSUME NEW q \in ToSet(readyPrograms')
        PROVE  \/ pc'[q] \in GivenUp
               \/ q \in Allocated' /\ status'[q] = "READY" /\ pc'[q] \notin {"halt", "wild"}
    <3>1. CASE q = cur
      <4>1. before = status
        BY <1>1, <1>11, <2>1, <3>1
      <4>2. QED
        BY <1>1, <1>7, <1>8, <1>12, <3>1, <4>1 DEF PInv, RunningPCB, GivenUp
    <3>2. CASE q # cur
      <4>1. q \in ToSet(readyPrograms) /\ q # next
        BY <1>11, <2>1, <3>2
      <4>2. q \in Pids
        BY <1>1, <4>1 DEF ToSet
      <4>3. QED
        BY <1>7, <1>8, <1>12, <3>2, <4>1, <4>2 DEF PInv, QueuedPCBs
    <3>3. QED
      BY <3>1, <3>2
  <2>2. QED
    BY <1>5, <1>11, <2>1 DEF QueuedPCBs
<1>16. RunningPCB'
  <2>1. pc'[next] = pc[next] /\ pc[next] \notin {"halt", "wild"}
    BY <1>2, <1>3, <1>12 DEF PInv, QueuedPCBs, GivenUp
  <2>2. next \in Allocated \/ pc[next] \in GivenUp
    BY <1>2 DEF PInv, QueuedPCBs
  <2>3. QED
    BY <1>5, <1>7, <1>8, <2>1, <2>2 DEF RunningPCB
<1>17. KernelThread'
  BY <1>1, <1>3, <1>5, <1>7, <1>8, <1>12 DEF PInv, KernelThread
<1>18. Directories'
  BY <1>5, <1>12 DEF PInv, Directories, ProcessLabels
<1>19. WhileWhole'
  <2> SUFFICES ASSUME ~failed'
               PROVE  ReadyQueue' /\ \A q \in Pids : pc'[q] \notin GivenUp \cup {"wild"}
    BY DEF WhileWhole
  <2>1. /\ ToSet(readyPrograms) = {q \in Allocated : status[q] = "READY"}
        /\ \A q \in Pids : pc[q] \notin GivenUp \cup {"wild"}
    BY <1>5 DEF PInv, WhileWhole, ReadyQueue
  <2>2. cur \in Allocated
    BY <1>1, <2>1 DEF PInv, RunningPCB
  <2>3. ToSet(readyPrograms') = {q \in Allocated' : status'[q] = "READY"}
    <3>1. \A q \in Allocated : q \in ToSet(readyPrograms') <=> status'[q] = "READY"
      BY <1>1, <1>2, <1>3, <1>8, <1>11, <2>1, <2>2 DEF Allocated
    <3>2. ToSet(readyPrograms') \subseteq Allocated
      BY <1>11, <2>1, <2>2
    <3>3. QED
      BY <1>7, <3>1, <3>2
  <2>4. QED
    BY <1>1, <1>11, <1>12, <2>1, <2>3 DEF ReadyQueue, GivenUp
<1>20. QED
  BY <1>13, <1>14, <1>15, <1>16, <1>17, <1>18, <1>19 DEF PInv

\* The types of what such a step leaves alone and of what it changes.
LEMMA QuietTypes ==
  ASSUME ProcessTypeOK,
         UNCHANGED <<PCB_SET_STATUS, allPrograms, priority, pageDirectoryAddress,
                     readyPrograms, running, cr3, esp0, parentPid, failed>>,
         ticks' \in [Pids -> Nat], interrupts' \in BOOLEAN,
         frames' \in [Pids -> Seq(BOOLEAN)], status' \in [Pids -> Statuses],
         pc' \in [Pids -> {"run", "load", "user", "wait", "yield", "noload", "nocopy",
                           "wild", "halt"}]
  PROVE  ProcessTypeOK'
  BY DEF ProcessTypeOK

\* A step that switches to nobody and moves neither list keeps the invariant: the
\* running PCB goes on, stops the machine, or exits with nobody left to run,
\* which takes a creation given up half way.
LEMMA QuietPInv ==
  ASSUME PInv, NEW l,
         UNCHANGED <<pcbs, readyPrograms, running, mmu, procVars>>,
         ticks' \in [Pids -> Nat], interrupts' \in BOOLEAN,
         frames' \in [Pids -> Seq(BOOLEAN)],
         status' = status \/ status' = [status EXCEPT ![running] = "DEAD"],
         pc' = [pc EXCEPT ![running] = l],
         \/ /\ l = pc[running] /\ status' = status
            /\ l \in {"halt", "wild"} => ~interrupts' /\ frames'[running] = <<>>
         \/ pc[running] \in ProcessLabels /\ l \in ProcessLabels /\ status' = status
         \/ /\ l = "halt" /\ pc[running] \in ProcessLabels \cup GivenUp
            /\ ~interrupts' /\ frames'[running] = <<>>
         \/ /\ l = "wild" /\ pc[running] = "user" /\ failed
            /\ ~interrupts' /\ frames'[running] = <<>>
  PROVE  PInv'
<1> USE PidsInt
<1>1. /\ running \in Pids /\ running \notin ToSet(readyPrograms)
      /\ status \in [Pids -> Statuses]
      /\ readyPrograms \in Seq(Pids)
      /\ pc \in [Pids -> {"run", "load", "user", "wait", "yield", "noload", "nocopy",
                          "wild", "halt"}]
  BY DEF PInv, ProcessTypeOK, QueuedPCBs
<1>2. UNCHANGED <<PCB_SET_STATUS, allPrograms, priority, pageDirectoryAddress,
                  readyPrograms, running, cr3, esp0, parentPid, failed>>
  BY DEF pcbs, mmu, procVars
<1>3. Allocated' = Allocated
  BY <1>2 DEF Allocated
<1>4. /\ pc'[running] = l
      /\ \A q \in Pids \ {running} : pc'[q] = pc[q] /\ status'[q] = status[q]
  BY <1>1
<1>5. ProcessTypeOK'
  <2>1. status' \in [Pids -> Statuses]
    BY <1>1 DEF Statuses
  <2>2. l \in {"run", "load", "user", "wait", "yield", "noload", "nocopy", "wild", "halt"}
    BY <1>1 DEF ProcessLabels
  <2>3. pc' \in [Pids -> {"run", "load", "user", "wait", "yield", "noload", "nocopy",
                          "wild", "halt"}]
    BY <1>1, <2>2
  <2>4. ProcessTypeOK
    BY DEF PInv
  <2>5. QED
    BY <1>2, <2>1, <2>3, <2>4, QuietTypes
<1>6. AllPrograms' /\ AddressSpace'
  BY <1>2, <1>3 DEF PInv, AllPrograms, AddressSpace
<1>7. QueuedPCBs'
  <2>1. \A q \in ToSet(readyPrograms) : q \in Pids \ {running}
    BY <1>1 DEF ToSet
  <2>2. QED
    BY <1>2, <1>3, <1>4, <2>1 DEF PInv, QueuedPCBs
<1>8. RunningPCB'
  <2>1. CASE pc[running] = l
    BY <1>2, <1>3, <1>4, <2>1 DEF PInv, RunningPCB, ProcessLabels, GivenUp
  <2>2. CASE pc[running] # l
    BY <1>2, <1>3, <1>4, <2>2 DEF PInv, RunningPCB, ProcessLabels, GivenUp
  <2>3. QED
    BY <2>1, <2>2
<1>9. KernelThread'
  BY <1>2, <1>3, <1>4 DEF PInv, KernelThread, ProcessLabels, GivenUp
<1>10. Directories'
  BY <1>1, <1>2, <1>4 DEF PInv, Directories, ProcessLabels
<1>11. WhileWhole'
  <2> SUFFICES ASSUME ~failed'
               PROVE  ReadyQueue' /\ \A q \in Pids : pc'[q] \notin GivenUp \cup {"wild"}
    BY DEF WhileWhole
  <2>1. ReadyQueue /\ \A q \in Pids : pc[q] \notin GivenUp \cup {"wild"}
    BY <1>2 DEF PInv, WhileWhole
  <2>2. status'[running] = "READY" => running \in ToSet(readyPrograms) \/ running \notin Allocated
    BY <1>1, <2>1 DEF ReadyQueue
  <2>3. ReadyQueue'
    BY <1>1, <1>2, <1>3, <1>4, <2>1, <2>2 DEF ReadyQueue, Allocated
  <2>4. QED
    BY <1>1, <1>2, <1>4, <2>1, <2>3 DEF GivenUp, ProcessLabels
<1>12. QED
  BY <1>5, <1>6, <1>7, <1>8, <1>9, <1>10, <1>11 DEF PInv

\* releasePCB of a DEAD child in wait keeps the invariant.
LEMMA ReapPInv ==
  ASSUME PInv, WaitReap
  PROVE  PInv'
<1> USE PidsInt
<1>1. PICK i \in DOMAIN allPrograms :
        IsDeadChild(allPrograms[i]) /\ ReleasePCB(allPrograms[i])
  BY DEF WaitReap
<1> DEFINE c == allPrograms[i]
<1>2. /\ PCB_SET_STATUS' = [PCB_SET_STATUS EXCEPT ![c] = FALSE]
      /\ allPrograms' = RemoveFirst(allPrograms, c)
      /\ parentPid[c] = running /\ status[c] = "DEAD"
  BY <1>1 DEF IsDeadChild, ReleasePCB
<1>3. /\ pc[running] = "wait" /\ pc' = [pc EXCEPT ![running] = "user"]
      /\ UNCHANGED <<priority, pageDirectoryAddress, readyPrograms, running, status, ticks,
                     interrupts, frames, cr3, esp0, parentPid, failed>>
  BY DEF WaitReap, At, Goto, mmu
<1>4. c \in ToSet(allPrograms) /\ c \in Pids
  BY DEF ToSet, PInv, ProcessTypeOK
<1>5. running \in Pids /\ running \in Allocated /\ status[running] = "RUNNING"
  BY <1>3 DEF PInv, ProcessTypeOK, RunningPCB, GivenUp
<1>6. c # running /\ c # 0
  BY <1>2, <1>3, <1>5 DEF PInv, KernelThread
<1> HIDE DEF c
<1>7. /\ allPrograms' \in Seq(Pids) /\ IsInjective(allPrograms')
      /\ ToSet(allPrograms') = ToSet(allPrograms) \ {c}
  BY <1>2, <1>4, RemoveFirstOnce DEF PInv, ProcessTypeOK, AllPrograms
<1>8. Allocated' = Allocated \ {c}
  BY <1>2, <1>4 DEF Allocated, PInv, ProcessTypeOK
<1>9. pc'[running] = "user" /\ \A q \in Pids \ {running} : pc'[q] = pc[q]
  BY <1>3, <1>5 DEF PInv, ProcessTypeOK
<1>10. ProcessTypeOK'
  BY <1>2, <1>3, <1>4, <1>7 DEF PInv, ProcessTypeOK
<1>11. AllPrograms' /\ AddressSpace'
  BY <1>3, <1>7, <1>8 DEF PInv, AllPrograms, AddressSpace
<1>12. QueuedPCBs'
  <2>1. \A q \in ToSet(readyPrograms) : q \in Pids \ {running}
    BY DEF PInv, ProcessTypeOK, QueuedPCBs, ToSet
  <2>2. QED
    BY <1>2, <1>3, <1>8, <1>9, <2>1 DEF PInv, QueuedPCBs
<1>13. RunningPCB'
  BY <1>3, <1>5, <1>6, <1>8, <1>9 DEF RunningPCB
<1>14. KernelThread'
  BY <1>3, <1>6, <1>8, <1>9 DEF PInv, KernelThread
<1>15. Directories'
  BY <1>3, <1>5, <1>9 DEF PInv, Directories, ProcessLabels
<1>16. WhileWhole'
  BY <1>2, <1>3, <1>8, <1>9 DEF PInv, WhileWhole, ReadyQueue, Allocated, GivenUp
<1>17. QED
  BY <1>10, <1>11, <1>12, <1>13, <1>14, <1>15, <1>16 DEF PInv

-----------------------------------------------------------------------------
\* While no creation was given up, a process that exits leaves somebody READY.
LEMMA SomebodyIsReady ==
  ASSUME PInv, ~failed, pc[running] # "run"
  PROVE  readyPrograms # <<>>
<1>1. running # 0
  BY DEF PInv, KernelThread
<1>2. 0 \in ToSet(readyPrograms)
  BY <1>1 DEF PInv, KernelThread, WhileWhole, ReadyQueue
<1>3. QED
  BY <1>2 DEF ToSet

\* Every step keeps the invariant.
LEMMA NextPInv == PInv /\ [ProcessNext]_allVars => PInv'
<1> SUFFICES ASSUME PInv, [ProcessNext]_allVars PROVE PInv'
  OBVIOUS
<1> USE PidsInt
<1>1. /\ running \in Pids /\ ticks \in [Pids -> Nat] /\ interrupts \in BOOLEAN
      /\ frames \in [Pids -> Seq(BOOLEAN)] /\ priority \in [Pids -> Nat]
      /\ pc = [pc EXCEPT ![running] = pc[running]]
      /\ MemoryFails \in BOOLEAN
  BY ProcessAssumption DEF PInv, ProcessTypeOK
<1>2. /\ pc[running] \in {"halt", "wild"} => ~interrupts /\ frames[running] = <<>>
      /\ pc[running] \notin {"halt", "wild"} => status[running] = "RUNNING"
  BY DEF PInv, RunningPCB
<1>3. ASSUME NEW prio \in Priorities, ExecuteProcess(prio) PROVE PInv'
  <2>1. prio \in Nat /\ prio * Quantum \in Nat
    BY SchedulerAssumption
  <2>2. PICK p \in AllocatePCB, label \in {"load", "noload"} :
          NewDirectory(p, label) /\ NewProcess(p, 0, prio, prio * Quantum, label)
    BY <1>3 DEF ExecuteProcess
  <2>3. PICK has \in BOOLEAN :
          /\ label = "load" => has
          /\ pageDirectoryAddress' = [pageDirectoryAddress EXCEPT ![p] = has]
    BY <2>2 DEF NewDirectory
  <2>4. pc[running] = "run" /\ frames[running] = <<>> /\ 0 \in Nat
    BY <1>3 DEF ExecuteProcess, At
  <2>5. p \in AllocatePCB /\ NewProcess(p, 0, prio, prio * Quantum, label)
    BY <2>2
  <2> DEFINE t == prio * Quantum
  <2>6. t \in Nat /\ NewProcess(p, 0, prio, t, label)
    BY <2>1, <2>5
  <2> HIDE DEF t
  <2>7. QED
    BY <2>1, <2>2, <2>3, <2>4, <2>6, NewProcessPInv, ZenonT(60)
<1>4. CASE Fork
  <2>1. PICK p \in AllocatePCB :
          \/ NewDirectory(p, "noload") /\ NewProcess(p, 0, 0, 0, "noload")
          \/ \E label \in {"user", "nocopy"} :
               /\ NewDirectory(p, "load")
               /\ NewProcess(p, running, priority[running], ticks[running], label)
    BY <1>4 DEF Fork
  <2>2. priority[running] \in Nat /\ ticks[running] \in Nat
    BY <1>1
  <2>3. pc[running] = "user" /\ frames[running] = <<>>
    BY <1>4 DEF Fork, At
  <2>4. CASE NewDirectory(p, "noload") /\ NewProcess(p, 0, 0, 0, "noload")
    <3>1. PICK has \in BOOLEAN :
            pageDirectoryAddress' = [pageDirectoryAddress EXCEPT ![p] = has]
      BY <2>4 DEF NewDirectory
    <3>2. QED
      BY <2>3, <2>4, <3>1, NewProcessPInv
  <2>5. ASSUME NEW label \in {"user", "nocopy"}, NewDirectory(p, "load"),
               NewProcess(p, running, priority[running], ticks[running], label)
        PROVE  PInv'
    <3>1. pageDirectoryAddress' = [pageDirectoryAddress EXCEPT ![p] = TRUE]
      BY <2>5 DEF NewDirectory
    <3>2. PICK has \in BOOLEAN :
            /\ label \in {"load", "user"} => has
            /\ pageDirectoryAddress' = [pageDirectoryAddress EXCEPT ![p] = has]
      BY <3>1
    <3>3. PICK parent \in Pids, prio \in Nat, t \in Nat : NewProcess(p, parent, prio, t, label)
      BY <1>1, <2>2, <2>5
    <3>4. label \in {"load", "user", "noload", "nocopy"} /\ p \in AllocatePCB
      OBVIOUS
    <3>5. QED
      BY <2>3, <3>2, <3>3, <3>4, NewProcessPInv, ZenonT(60)
  <2>6. QED
    BY <2>1, <2>4, <2>5
<1>5. CASE LoadProcess
  BY <1>1, <1>5, QuietPInv DEF LoadProcess, At, ProcessLabels
<1>6. CASE RunBroken
  BY <1>1, <1>6, QuietPInv DEF RunBroken, At, GivenUp
<1>7. CASE ProcessExit
  <2>1. pc[running] = "user" /\ frames[running] = <<>>
    BY <1>7 DEF ProcessExit, At
  <2>2. CASE readyPrograms = <<>>
    <3>1. failed
      BY <2>1, <2>2, SomebodyIsReady
    <3>2. QED
      BY <1>1, <1>7, <2>1, <2>2, <3>1, QuietPInv
         DEF ProcessExit, Schedule, NothingReady, ProcessLabels
  <2>3. CASE readyPrograms # <<>>
    BY <1>7, <2>1, <2>3, SwitchPInv DEF ProcessExit, Schedule
  <2>4. QED
    BY <2>2, <2>3
<1>8. CASE WaitCall
  BY <1>1, <1>8, QuietPInv DEF WaitCall, Goto, At, ProcessLabels
<1>9. CASE WaitReap
  BY <1>9, ReapPInv
<1>10. CASE WaitNone \/ WaitLater
  BY <1>1, <1>10, QuietPInv DEF WaitNone, WaitLater, Goto, At, ProcessLabels
<1>11. CASE WaitYield
  <2>1. /\ pc[running] = "yield" /\ pc' = [pc EXCEPT ![running] = "wait"]
        /\ Schedule(status, interrupts) /\ UNCHANGED procVars
    BY <1>11 DEF WaitYield, At, Goto
  <2>2. CASE readyPrograms = <<>>
    BY <1>1, <2>1, <2>2, QuietPInv DEF Schedule, NothingReady, ProcessLabels
  <2>3. CASE readyPrograms # <<>>
    BY <1>1, <2>1, <2>3, SwitchPInv DEF Schedule
  <2>4. QED
    BY <2>2, <2>3
<1>12. CASE FinishSchedule /\ UNCHANGED procVars
  <2>1. frames[running] \in Seq(BOOLEAN) /\ frames[running] # <<>>
    BY <1>1, <1>12 DEF FinishSchedule
  <2>2. Last(frames[running]) \in BOOLEAN /\ Front(frames[running]) \in Seq(BOOLEAN)
    BY <2>1 DEF Last, Front
  <2>3. pc[running] \notin {"halt", "wild"}
    BY <1>2, <2>1
  <2>4. /\ interrupts' \in BOOLEAN /\ frames' \in [Pids -> Seq(BOOLEAN)]
        /\ UNCHANGED <<pcbs, readyPrograms, running, status, ticks, pc, mmu, procVars>>
    BY <1>1, <1>12, <2>2 DEF FinishSchedule
  <2>5. QED
    BY <1>1, <2>3, <2>4, QuietPInv
<1>13. CASE TimerTick /\ UNCHANGED procVars
  <2>1. ticks' \in [Pids -> Nat]
    BY <1>1, <1>13 DEF TimerTick
  <2>2. QED
    BY <1>1, <1>2, <1>13, <2>1, QuietPInv DEF TimerTick
<1>14. CASE TimerSchedule /\ UNCHANGED procVars
  <2>1. pc[running] \notin {"halt", "wild"}
    BY <1>2, <1>14 DEF TimerSchedule
  <2>2. pc' = pc /\ (Switch(status, TRUE) \/ (NothingReady(TRUE) /\ UNCHANGED status))
    BY <1>14 DEF TimerSchedule
  <2>3. CASE Switch(status, TRUE)
    BY <1>14, <2>1, <2>2, <2>3, SwitchPInv
  <2>4. CASE NothingReady(TRUE) /\ UNCHANGED status
    BY <1>1, <1>14, <2>1, <2>2, <2>4, QuietPInv DEF NothingReady
  <2>5. QED
    BY <2>2, <2>3, <2>4
<1>15. CASE UNCHANGED allVars
  BY <1>1, <1>2, <1>15, QuietPInv DEF allVars, schedVars, pcbs, mmu
<1>16. QED
  BY <1>3, <1>4, <1>5, <1>6, <1>7, <1>8, <1>9, <1>10, <1>11, <1>12, <1>13, <1>14, <1>15
     DEF ProcessNext, WaitStep, TimerInterrupt, Stopped

\* In every reachable state, whatever processes do and whichever allocations
\* fail, the invariant holds.
THEOREM ProcessInvariantTheorem == ProcessSpec => []PInv
<1>1. ProcessInit => PInv
  BY InitPInv
<1>2. PInv /\ [ProcessNext]_allVars => PInv'
  BY NextPInv
<1>3. QED
  BY <1>1, <1>2, PTL DEF ProcessSpec

\* The state of the program manager keeps its types.
THEOREM ProcessTypeTheorem == ProcessSpec => []ProcessTypeOK
<1>1. PInv => ProcessTypeOK
  BY DEF PInv
<1>2. QED
  BY <1>1, ProcessInvariantTheorem, PTL

\* The processor runs in the address space of the running process and enters the
\* kernel on that process's stack (program.cpp:381), even after failed creations.
THEOREM AddressSpaceTheorem == ProcessSpec => []AddressSpace
<1>1. PInv => AddressSpace
  BY DEF PInv
<1>2. QED
  BY <1>1, ProcessInvariantTheorem, PTL

\* A process that has exited never has the processor again (program.cpp:569-622),
\* as long as no creation is given up half way.
THEOREM ExitIsFinalTheorem == ProcessSpec => []ExitIsFinal
<1>1. PInv => ExitIsFinal
  BY DEF PInv, ProcessTypeOK, RunningPCB, WhileWhole, ExitIsFinal
<1>2. QED
  BY <1>1, ProcessInvariantTheorem, PTL

\* allPrograms holds exactly the allocated PCBs, and readyPrograms the READY ones
\* until a creation is given up half way (program.h:13-14).
THEOREM QueueIntactTheorem == ProcessSpec => []QueueIntact
<1>1. PInv => QueueIntact
  BY DEF PInv, WhileWhole, QueueIntact
<1>2. QED
  BY <1>1, ProcessInvariantTheorem, PTL

\* A PCB that was allocated is released by wait only, as its DEAD child.
LEMMA OnlyWaitReleases ==
  ASSUME PInv, [ProcessNext]_allVars,
         NEW c \in Pids, PCB_SET_STATUS[c], ~PCB_SET_STATUS'[c]
  PROVE  pc[running] = "wait" /\ status[c] = "DEAD"
<1>1. running \in Pids /\ PCB_SET_STATUS \in [Pids -> BOOLEAN]
  BY DEF PInv, ProcessTypeOK
<1>2. /\ pc[running] \in {"halt", "wild"} => ~interrupts
      /\ interrupts \in BOOLEAN
  BY DEF PInv, ProcessTypeOK, RunningPCB
<1>3. PCB_SET_STATUS' # PCB_SET_STATUS
  OBVIOUS
<1>4. ASSUME NEW p \in Pids, NEW parent, NEW prio, NEW t, NEW label,
             NewProcess(p, parent, prio, t, label)
      PROVE  FALSE
  <2>1. PCB_SET_STATUS' = [PCB_SET_STATUS EXCEPT ![p] = TRUE]
    BY <1>4 DEF NewProcess
  <2>2. QED
    BY <1>1, <2>1
<1>5. AllocatePCB \subseteq Pids
  BY DEF AllocatePCB, FreePCBs
<1>6. ASSUME NEW prio \in Priorities, ExecuteProcess(prio) PROVE FALSE
  <2>1. PICK p \in AllocatePCB, label \in {"load", "noload"} :
          NewProcess(p, 0, prio, prio * Quantum, label)
    BY <1>6 DEF ExecuteProcess
  <2>2. QED
    BY <1>4, <1>5, <2>1
<1>7. CASE Fork
  <2>1. PICK p \in AllocatePCB :
          \/ NewProcess(p, 0, 0, 0, "noload")
          \/ \E label \in {"user", "nocopy"} :
               NewProcess(p, running, priority[running], ticks[running], label)
    BY <1>7 DEF Fork
  <2>2. QED
    BY <1>4, <1>5, <2>1
<1>8. CASE ProcessExit
  <2>1. pc[running] = "user" /\ Schedule([status EXCEPT ![running] = "DEAD"], FALSE)
    BY <1>8 DEF ProcessExit, At
  <2>2. CASE readyPrograms = <<>>
    BY <1>3, <2>1, <2>2 DEF Schedule, NothingReady, pcbs
  <2>3. CASE readyPrograms # <<>>
    BY <1>3, <2>1, <2>3, SwitchReleasesNobody DEF Schedule
  <2>4. QED
    BY <2>2, <2>3
<1>9. CASE WaitYield
  <2>1. pc[running] = "yield" /\ Schedule(status, interrupts)
    BY <1>9 DEF WaitYield, At
  <2>2. CASE readyPrograms = <<>>
    BY <1>3, <2>1, <2>2 DEF Schedule, NothingReady, pcbs
  <2>3. CASE readyPrograms # <<>>
    BY <1>2, <1>3, <2>1, <2>3, SwitchReleasesNobody DEF Schedule
  <2>4. QED
    BY <2>2, <2>3
<1>10. CASE TimerSchedule
  <2>1. pc[running] \notin {"halt", "wild"}
    BY <1>2, <1>10 DEF TimerSchedule
  <2>2. Switch(status, TRUE) \/ NothingReady(TRUE)
    BY <1>10 DEF TimerSchedule
  <2>3. QED
    BY <1>3, <2>1, <2>2, SwitchReleasesNobody DEF NothingReady, pcbs
<1>11. CASE WaitReap
  <2>1. PICK i \in DOMAIN allPrograms :
          IsDeadChild(allPrograms[i]) /\ ReleasePCB(allPrograms[i])
    BY <1>11 DEF WaitReap
  <2>2. PCB_SET_STATUS' = [PCB_SET_STATUS EXCEPT ![allPrograms[i]] = FALSE]
    BY <2>1 DEF ReleasePCB
  <2>3. c = allPrograms[i]
    BY <1>1, <2>2
  <2>4. QED
    BY <1>11, <2>1, <2>3 DEF WaitReap, At, IsDeadChild
<1>12. CASE LoadProcess \/ RunBroken \/ WaitCall \/ WaitNone \/ WaitLater \/ FinishSchedule
  BY <1>3, <1>12
     DEF LoadProcess, RunBroken, WaitCall, WaitNone, WaitLater, FinishSchedule, pcbs
<1>13. CASE TimerTick \/ Stopped \/ UNCHANGED allVars
  BY <1>3, <1>13 DEF TimerTick, Stopped, allVars, schedVars, pcbs
<1>14. QED
  BY <1>6, <1>7, <1>8, <1>9, <1>10, <1>11, <1>12, <1>13
     DEF ProcessNext, WaitStep, TimerInterrupt

\* A PCB is released only when nothing will use it again: not the running one
\* and not one on the ready list (program.cpp:120, 661).
THEOREM ReleasedIsUnusedTheorem == ProcessSpec => ReleasedIsUnused
<1>1. ASSUME PInv, [ProcessNext]_allVars,
             NEW c \in Pids, ~failed, PCB_SET_STATUS[c], ~PCB_SET_STATUS'[c]
      PROVE  c # running /\ status[c] = "DEAD" /\ c \notin ToSet(readyPrograms)
  <2>1. pc[running] = "wait" /\ status[c] = "DEAD"
    BY <1>1, OnlyWaitReleases
  <2>2. c # running
    BY <1>1, <2>1 DEF PInv, RunningPCB
  <2>3. c \notin ToSet(readyPrograms)
    BY <1>1, <2>1 DEF PInv, WhileWhole, ReadyQueue
  <2>4. QED
    BY <2>1, <2>2, <2>3
<1> DEFINE Released ==
             \A c \in Pids :
               ~failed /\ PCB_SET_STATUS[c] /\ ~PCB_SET_STATUS'[c] =>
                 c # running /\ status[c] = "DEAD" /\ c \notin ToSet(readyPrograms)
<1>2. PInv /\ [ProcessNext]_allVars => [Released]_allVars
  BY <1>1
<1>3. QED
  BY <1>2, ProcessInvariantTheorem, PTL DEF ProcessSpec, ReleasedIsUnused
=============================================================================
