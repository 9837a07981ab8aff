------------------------------- MODULE Process -------------------------------
(***************************************************************************)
(* The processes of src/kernel/program.cpp on top of Scheduler.tla:        *)
(* executeProcess, load_process, fork, exit and wait.                      *)
(*                                                                         *)
(* pid 0 is the kernel thread first_thread of setup.cpp; every other PCB   *)
(* is a process, created by executeProcess or fork.  fork and exit run     *)
(* with interrupts disabled and are one action each; wait enables them in  *)
(* every turn of its loop.  An allocation of memory succeeds, or fails     *)
(* where MemoryFails says that it may.                                     *)
(*                                                                         *)
(* pc of a process: "load" in load_process, "user" in its program, "wait"  *)
(* at the head of the loop of wait, "yield" before the schedule() in it,   *)
(* "noload" and "nocopy" when its creation was given up half way.          *)
(***************************************************************************)
EXTENDS Scheduler

CONSTANT MemoryFails   \* may memoryManager fail to allocate?

ASSUME ProcessAssumption == MemoryFails \in BOOLEAN

VARIABLES
  parentPid,   \* field of the PCBs
  failed       \* history: has a creation been given up half way?

procVars == <<parentPid, failed>>
allVars == <<schedVars, procVars>>

ProcessInit ==
  /\ Init
  /\ parentPid = [p \in Pids |-> 0]
  /\ failed = FALSE

-----------------------------------------------------------------------------
\* Mutant of NewProcess: the time slice is one tick short.
NewProcessShort(p, parent, prio, ticksLeft, label) ==
  /\ PCB_SET_STATUS' = [PCB_SET_STATUS EXCEPT ![p] = TRUE]
  /\ status' = [status EXCEPT ![p] = IF label \in {"load", "user"} THEN "READY" ELSE "DEAD"]
  /\ priority' = [priority EXCEPT ![p] = prio]
  /\ ticks' = [ticks EXCEPT ![p] = ticksLeft - 1]
  /\ frames' = [frames EXCEPT ![p] = <<>>]
  /\ pc' = [pc EXCEPT ![p] = label]
  /\ parentPid' = [parentPid EXCEPT ![p] = parent]
  /\ failed' = (failed \/ label \in {"noload", "nocopy"})
  /\ allPrograms' = PushBack(allPrograms, p)
  /\ readyPrograms' = PushBack(readyPrograms, p)
  /\ UNCHANGED <<running, interrupts, mmu>>

\* PCB p as executeProcess or fork leaves it.  A creation that was given up has
\* the status DEAD, but executeThread has put it on the ready list already.
NewProcess(p, parent, prio, ticksLeft, label) ==
  /\ PCB_SET_STATUS' = [PCB_SET_STATUS EXCEPT ![p] = TRUE]
  /\ status' = [status EXCEPT ![p] = IF label \in {"load", "user"} THEN "READY" ELSE "DEAD"]
  /\ priority' = [priority EXCEPT ![p] = prio]
  /\ ticks' = [ticks EXCEPT ![p] = ticksLeft]
  /\ frames' = [frames EXCEPT ![p] = <<>>]
  /\ pc' = [pc EXCEPT ![p] = label]
  /\ parentPid' = [parentPid EXCEPT ![p] = parent]
  /\ failed' = (failed \/ label \in {"noload", "nocopy"})
  /\ allPrograms' = PushBack(allPrograms, p)
  /\ readyPrograms' = PushBack(readyPrograms, p)
  /\ UNCHANGED <<running, interrupts, mmu>>

\* createProcessPageDirectory and createUserVirtualPool: "load" is their success.
NewDirectory(p, label) ==
  /\ label = "load" \/ (MemoryFails /\ label = "noload")
  /\ \E has \in BOOLEAN :
       /\ label = "load" => has
       /\ pageDirectoryAddress' = [pageDirectoryAddress EXCEPT ![p] = has]

\* executeProcess, called by the kernel thread; the parentPid it leaves is 0.
\* Without a free PCB it returns -1 and changes nothing, and so does fork.
ExecuteProcess(prio) ==
  /\ At("run")
  /\ \E p \in AllocatePCB, label \in {"load", "noload"} :
       /\ NewDirectory(p, label)
       /\ NewProcess(p, 0, prio, prio * Quantum, label)

\* load_process: the user stack is allocated and the process enters user mode,
\* or the machine stops with interrupts disabled.
LoadProcess ==
  /\ At("load")
  /\ \/ /\ interrupts' = TRUE
        /\ pc' = [pc EXCEPT ![running] = "user"]
        /\ UNCHANGED status
     \/ /\ MemoryFails
        /\ interrupts' = FALSE
        /\ pc' = [pc EXCEPT ![running] = "halt"]
        /\ status' = [status EXCEPT ![running] = "DEAD"]
  /\ UNCHANGED <<pcbs, readyPrograms, running, ticks, frames, mmu, procVars>>

\* A PCB whose creation was given up is dispatched all the same.  load_process
\* finds no address pool to take the stack from; a fork without its pages
\* faults on the stack, and asm_unhandled_interrupt stops the machine.
RunBroken ==
  /\ At("noload") \/ At("nocopy")
  /\ interrupts' = FALSE
  /\ pc' = [pc EXCEPT ![running] = "halt"]
  /\ status' = IF At("noload") THEN [status EXCEPT ![running] = "DEAD"] ELSE status
  /\ UNCHANGED <<pcbs, readyPrograms, running, ticks, frames, mmu, procVars>>

\* fork: executeProcess with priority 0, then copyProcess.
Fork ==
  /\ At("user")
  /\ \E p \in AllocatePCB :
       \/ /\ NewDirectory(p, "noload")
          /\ NewProcess(p, 0, 0, 0, "noload")
       \/ \E label \in {"user"} \cup IF MemoryFails THEN {"nocopy"} ELSE {} :
            /\ NewDirectory(p, "load")
            /\ NewProcess(p, running, priority[running], ticks[running], label)

\* schedule() with the status of the PCBs given and the flag it restores.
Schedule(before, restore) ==
  IF readyPrograms = <<>> THEN NothingReady(restore) /\ status' = before
                          ELSE Switch(before, restore)

\* Mutant of ProcessExit: it does not call schedule().
ProcessExitReturns ==
  /\ At("user")
  /\ status' = [status EXCEPT ![running] = "DEAD"]
  /\ UNCHANGED <<pcbs, readyPrograms, running, ticks, interrupts, frames, pc, mmu, procVars>>

\* exit: the memory of the process is given back; its PCB stays for its parent.
\* Were schedule() to return, exit would return into memory that is gone.
ProcessExit ==
  /\ At("user")
  /\ Schedule([status EXCEPT ![running] = "DEAD"], FALSE)
  /\ pc' = IF readyPrograms = <<>> THEN [pc EXCEPT ![running] = "wild"] ELSE pc
  /\ UNCHANGED procVars

-----------------------------------------------------------------------------
Children(p) == {c \in ToSet(allPrograms) : parentPid[c] = p}

\* Mutant of IsDeadChild: any child will do.
IsDeadChildAny(c) == parentPid[c] = running

IsDeadChild(c) == parentPid[c] = running /\ status[c] = "DEAD"

Goto(label) == pc' = [pc EXCEPT ![running] = label]

\* The call of wait.
WaitCall ==
  /\ At("user")
  /\ Goto("wait")
  /\ UNCHANGED <<pcbs, readyPrograms, running, status, ticks, interrupts, frames, mmu, procVars>>

\* releasePCB
ReleasePCB(c) ==
  /\ PCB_SET_STATUS' = [PCB_SET_STATUS EXCEPT ![c] = FALSE]
  /\ allPrograms' = RemoveFirst(allPrograms, c)

\* Mutant of WaitReap: only the oldest child is looked at.
WaitReapOldest ==
  /\ At("wait")
  /\ \E i \in DOMAIN allPrograms :
       /\ IsDeadChild(allPrograms[i])
       /\ \A j \in 1 .. (i - 1) : parentPid[allPrograms[j]] # running
       /\ ReleasePCB(allPrograms[i])
  /\ Goto("user")
  /\ UNCHANGED <<priority, pageDirectoryAddress, readyPrograms, running, status, ticks,
                 interrupts, frames, mmu, parentPid, failed>>

\* The first DEAD child on allPrograms is released and its pid returned.
WaitReap ==
  /\ At("wait")
  /\ \E i \in DOMAIN allPrograms :
       /\ IsDeadChild(allPrograms[i])
       /\ \A j \in 1 .. (i - 1) : ~IsDeadChild(allPrograms[j])
       /\ ReleasePCB(allPrograms[i])
  /\ Goto("user")
  /\ UNCHANGED <<priority, pageDirectoryAddress, readyPrograms, running, status, ticks,
                 interrupts, frames, mmu, parentPid, failed>>

\* No child at all: wait returns -1.
WaitNone ==
  /\ At("wait")
  /\ Children(running) = {}
  /\ Goto("user")
  /\ UNCHANGED <<pcbs, readyPrograms, running, status, ticks, interrupts, frames, mmu, procVars>>

\* Children, none of them DEAD: setInterruptStatus, then schedule().
WaitLater ==
  /\ At("wait")
  /\ Children(running) # {}
  /\ \A c \in Children(running) : ~IsDeadChild(c)
  /\ Goto("yield")
  /\ UNCHANGED <<pcbs, readyPrograms, running, status, ticks, interrupts, frames, mmu, procVars>>

WaitYield ==
  /\ At("yield")
  /\ Schedule(status, interrupts)
  /\ Goto("wait")
  /\ UNCHANGED procVars

WaitStep == WaitReap \/ WaitNone \/ WaitLater \/ WaitYield

Stopped == (At("halt") \/ At("wild")) /\ UNCHANGED allVars

ProcessNext ==
  \/ \E prio \in Priorities : ExecuteProcess(prio)
  \/ LoadProcess
  \/ RunBroken
  \/ Fork
  \/ ProcessExit
  \/ WaitCall
  \/ WaitStep
  \/ FinishSchedule /\ UNCHANGED procVars
  \/ TimerInterrupt /\ UNCHANGED procVars
  \/ Stopped

ProcessSpec == ProcessInit /\ [][ProcessNext]_allVars

\* The timer keeps ticking and straight-line kernel code keeps running.  A
\* process that is dispatched again and again gets through the next section of
\* wait: a time slice is longer than that section.  What a program does in user
\* mode, and whether it ever exits, is up to the program.
FairProcessSpec ==
  /\ ProcessSpec
  /\ WF_allVars(TimerInterrupt /\ UNCHANGED procVars)
  /\ WF_allVars(FinishSchedule /\ UNCHANGED procVars)
  /\ \A p \in Pids : SF_allVars(running = p /\ WaitStep)

-----------------------------------------------------------------------------
ProcessTypeOK ==
  /\ PCB_SET_STATUS \in [Pids -> BOOLEAN]
  /\ allPrograms \in Seq(Pids)
  /\ readyPrograms \in Seq(Pids)
  /\ running \in Pids
  /\ status \in [Pids -> Statuses]
  /\ priority \in [Pids -> Nat]
  /\ ticks \in [Pids -> Nat]
  /\ pageDirectoryAddress \in [Pids -> BOOLEAN]
  /\ interrupts \in BOOLEAN
  /\ frames \in [Pids -> Seq(BOOLEAN)]
  /\ pc \in [Pids -> {"run", "load", "user", "wait", "yield", "noload", "nocopy",
                      "wild", "halt"}]
  /\ cr3 \in Pids \cup {KernelDirectory}
  /\ esp0 \in Pids \cup {KernelDirectory}
  /\ parentPid \in [Pids -> Pids]
  /\ failed \in BOOLEAN

\* The processor runs in the address space of the running process, or in the
\* kernel's for a kernel thread, and an interrupt from user mode lands on that
\* process's own kernel stack (program.cpp:381).
AddressSpace ==
  /\ cr3 = IF pageDirectoryAddress[running] THEN running ELSE KernelDirectory
  /\ pageDirectoryAddress[running] => esp0 = running

\* A process that has exited never has the processor again: the schedule() in
\* exit does not return to it, its memory is gone (program.cpp:569-622).  Like
\* the next ones it is in force until a creation is given up half way.
ExitIsFinal == ~failed => status[running] = "RUNNING" \/ pc[running] = "halt"

\* readyPrograms holds exactly the READY processes and allPrograms the allocated
\* PCBs, each once (program.h:13-14): wait and exit of several processes neither
\* lose one nor queue it twice.  Failures spare allPrograms.
QueueIntact == AllPrograms /\ (~failed => ReadyQueue)

\* A PCB is released only when nothing will use it again: not the running one
\* and not one that waits on the ready list (program.cpp:120, 661).
ReleasedIsUnused ==
  [][\A c \in Pids :
       ~failed /\ PCB_SET_STATUS[c] /\ ~PCB_SET_STATUS'[c] =>
         c # running /\ status[c] = "DEAD" /\ c \notin ToSet(readyPrograms)]_allVars

\* A parent in wait gets its child once the child has exited, whatever its
\* other children do (program.cpp:624).
WaitCollects ==
  \A p \in Pids :
    (pc[p] = "wait" /\ \E c \in Children(p) : status[c] = "DEAD")
      ~> (pc[p] = "user" \/ failed \/ ~interrupts)

\* No READY process is missing from readyPrograms, whatever has failed before
\* (program.h:14).
NoReadyLost ==
  \A p \in Pids : PCB_SET_STATUS[p] /\ status[p] = "READY" => p \in ToSet(readyPrograms)
=============================================================================
