--------------------------------- MODULE Proc ---------------------------------
(***************************************************************************)
(* The life cycle of processes: allocproc, fork, exit, wait and kill of    *)
(* kernel/proc.c, with the checks of proc->killed in trap.c.  Module       *)
(* Console shows a sleep that kill interrupts.                             *)
(*                                                                         *)
(* A critical section of ptable.lock is one step (module Sched shows why   *)
(* that is sound, the hand-over to the scheduler included); what fork does *)
(* outside the lock is a step each.  RUNNABLE stands for RUNNABLE and      *)
(* RUNNING: any number of processes may be on a CPU.                       *)
(***************************************************************************)
EXTENDS Ptable

CONSTANTS
  MaxPid,   \* bound on nextpid
  KillArgs  \* the arguments kill is called with

ASSUME MaxPidAssumption == MaxPid \in Nat \ {0}
ASSUME InputAssumption == KillArgs \subseteq Nat

initproc == 1
NoSlot == 0     \* a null struct proc pointer; a slot is the channel of its wait

VARIABLES
  pid, parent, killed, chan,   \* struct proc
  mem,       \* what the slot owns: its kstack, its pgdir
  at, child, \* where each process is, and the local variable np of its fork
  nextpid

fields == <<state, pid, parent, killed, chan, mem>>
tablevars == <<fields, at, child, nextpid>>

SlotStates == {"UNUSED", "EMBRYO", "SLEEPING", "RUNNABLE", "ZOMBIE"}
Places == {"user", "stack", "copy", "start", "wait", "exit", "panic"}
Forking == {"stack", "copy", "start"}
Live == {"SLEEPING", "RUNNABLE"}

\* userinit
ProcInit ==
  /\ state = [s \in Slots |-> IF s = initproc THEN "RUNNABLE" ELSE "UNUSED"]
  /\ pid = [s \in Slots |-> IF s = initproc THEN 1 ELSE 0]
  /\ parent = [s \in Slots |-> NoSlot]
  /\ killed = [s \in Slots |-> FALSE]
  /\ chan = [s \in Slots |-> NoSlot]
  /\ mem = [s \in Slots |-> IF s = initproc THEN {"kstack", "pgdir"} ELSE {}]
  /\ at = [s \in Slots |-> "user"]
  /\ child = [s \in Slots |-> NoSlot]
  /\ nextpid = 2

Here(p, a) == state[p] = "RUNNABLE" /\ at[p] = a
GoTo(p, b) == at' = [at EXCEPT ![p] = b]

\* a process in user mode enters the kernel; a killed one does not get past trap
Syscall(p) == Here(p, "user") /\ ~killed[p]

\* back in trap: a killed process exits instead of returning to user mode
Return(p) == GoTo(p, IF killed[p] THEN "exit" ELSE "user")

\* wakeup1, as the new value of state
wakeup1(st, c) == [s \in Slots |-> IF st[s] = "SLEEPING" /\ chan[s] = c
                                     THEN "RUNNABLE" ELSE st[s]]

-----------------------------------------------------------------------------
(* fork *)

FreshPid == nextpid

Claimed(s) == [state EXCEPT ![s] = "EMBRYO"]

\* allocproc under the lock: the first UNUSED slot; its other fields stay
allocproc(p) ==
  /\ Syscall(p) /\ nextpid <= MaxPid
  /\ \E s \in Slots :
       /\ state[s] = "UNUSED"
       /\ \A r \in 1..s-1 : state[r] # "UNUSED"
       /\ state' = Claimed(s)
       /\ pid' = [pid EXCEPT ![s] = FreshPid]
       /\ child' = [child EXCEPT ![p] = s]
  /\ nextpid' = nextpid + 1
  /\ GoTo(p, "stack")
  /\ UNCHANGED <<parent, killed, chan, mem>>

\* allocproc finds no UNUSED slot: fork returns -1
NoSlotFree(p) ==
  /\ Syscall(p) /\ \A s \in Slots : state[s] # "UNUSED"
  /\ UNCHANGED tablevars

\* allocproc: kalloc of the kernel stack fails
NoStack(p) ==
  /\ Here(p, "stack")
  /\ state' = [state EXCEPT ![child[p]] = "UNUSED"]
  /\ child' = [child EXCEPT ![p] = NoSlot]
  /\ Return(p)
  /\ UNCHANGED <<pid, parent, killed, chan, mem, nextpid>>

GotStack(p) ==
  /\ Here(p, "stack")
  /\ mem' = [mem EXCEPT ![child[p]] = {"kstack"}]
  /\ GoTo(p, "copy")
  /\ UNCHANGED <<state, pid, parent, killed, chan, child, nextpid>>

\* Faulty: the kernel stack is not freed.
Undone_Not(s) == mem
Undone(s) == [mem EXCEPT ![s] = {}]

\* fork: copyuvm fails
CopyFails(p) ==
  /\ Here(p, "copy")
  /\ state' = [state EXCEPT ![child[p]] = "UNUSED"]
  /\ mem' = Undone(child[p])
  /\ child' = [child EXCEPT ![p] = NoSlot]
  /\ Return(p)
  /\ UNCHANGED <<pid, parent, killed, chan, nextpid>>

\* fork: pgdir, parent, open files
Copy(p) ==
  /\ Here(p, "copy")
  /\ mem' = [mem EXCEPT ![child[p]] = @ \cup {"pgdir"}]
  /\ parent' = [parent EXCEPT ![child[p]] = p]
  /\ GoTo(p, "start")
  /\ UNCHANGED <<state, pid, killed, chan, child, nextpid>>

\* fork: the child is RUNNABLE, and starts in user mode
fork(p) ==
  /\ Here(p, "start")
  /\ state' = [state EXCEPT ![child[p]] = "RUNNABLE"]
  /\ at' = [at EXCEPT ![child[p]] = "user", ![p] = IF killed[p] THEN "exit" ELSE "user"]
  /\ child' = [child EXCEPT ![p] = NoSlot]
  /\ UNCHANGED <<pid, parent, killed, chan, mem, nextpid>>

-----------------------------------------------------------------------------
(* exit *)

\* sys_exit, or trap finds the process killed
ExitCall(p) ==
  /\ Here(p, "user")
  /\ GoTo(p, "exit")
  /\ UNCHANGED <<fields, child, nextpid>>

\* trap: the process misbehaved in user mode
Fault(p) ==
  /\ Here(p, "user")
  /\ killed' = [killed EXCEPT ![p] = TRUE]
  /\ GoTo(p, "exit")
  /\ UNCHANGED <<state, pid, parent, chan, mem, child, nextpid>>

\* panic("init exiting"): its CPU loops for ever, the others go on
ExitPanic(p) ==
  /\ Here(p, "exit") \/ Here(p, "panic")
  /\ p = initproc
  /\ GoTo(p, "panic")
  /\ UNCHANGED <<fields, child, nextpid>>

\* Faulty: the children keep their dead parent.
Adopted_Not(p) == parent
Adopted(p) == [s \in Slots |-> IF parent[s] = p THEN initproc ELSE parent[s]]

\* Faulty: the parent is not woken.
Told_Parent(p) == state

\* Faulty: init is not told of the zombies it inherits.
Told_Init(p) == wakeup1(state, parent[p])

\* the parent is woken, and init if it inherits a zombie
Told(p) ==
  LET orphan == \E s \in Slots : parent[s] = p /\ state[s] = "ZOMBIE"
  IN  IF orphan THEN wakeup1(wakeup1(state, parent[p]), initproc)
      ELSE wakeup1(state, parent[p])

exit(p) ==
  /\ Here(p, "exit") /\ p # initproc
  /\ parent' = Adopted(p)
  /\ state' = [Told(p) EXCEPT ![p] = "ZOMBIE"]
  /\ UNCHANGED <<pid, killed, chan, mem, at, child, nextpid>>

-----------------------------------------------------------------------------
(* wait *)

WaitCall(p) ==
  /\ Syscall(p)
  /\ GoTo(p, "wait")
  /\ UNCHANGED <<fields, child, nextpid>>

Children(p) == {s \in Slots : parent[s] = p}
Zombies(p) == {s \in Children(p) : state[s] = "ZOMBIE"}

\* the first zombie child is freed
WaitReap(p) ==
  /\ Here(p, "wait")
  /\ \E s \in Zombies(p) :
       /\ \A r \in Zombies(p) : s <= r
       /\ state' = [state EXCEPT ![s] = "UNUSED"]
       /\ pid' = [pid EXCEPT ![s] = 0]
       /\ parent' = [parent EXCEPT ![s] = NoSlot]
       /\ killed' = [killed EXCEPT ![s] = FALSE]
       /\ mem' = [mem EXCEPT ![s] = {}]
  /\ chan' = [chan EXCEPT ![p] = NoSlot]
  /\ Return(p)
  /\ UNCHANGED <<child, nextpid>>

\* return -1
WaitNone(p) ==
  /\ Here(p, "wait")
  /\ Zombies(p) = {} /\ (Children(p) = {} \/ killed[p])
  /\ chan' = [chan EXCEPT ![p] = NoSlot]
  /\ Return(p)
  /\ UNCHANGED <<state, pid, parent, killed, mem, child, nextpid>>

\* sleep(proc, &ptable.lock), and again from the top when woken
WaitSleep(p) ==
  /\ Here(p, "wait")
  /\ Zombies(p) = {} /\ Children(p) # {} /\ ~killed[p]
  /\ chan' = [chan EXCEPT ![p] = p]
  /\ state' = [state EXCEPT ![p] = "SLEEPING"]
  /\ UNCHANGED <<pid, parent, killed, mem, at, child, nextpid>>

-----------------------------------------------------------------------------
(* kill *)

\* the first slot with that pid, whatever its state
kill(p, n) ==
  /\ Syscall(p)
  /\ \E s \in Slots :
       /\ pid[s] = n
       /\ \A r \in 1..s-1 : pid[r] # n
       /\ killed' = [killed EXCEPT ![s] = TRUE]
       /\ state' = IF state[s] = "SLEEPING" THEN [state EXCEPT ![s] = "RUNNABLE"] ELSE state
       /\ GoTo(p, IF s = p THEN "exit" ELSE "user")
  /\ UNCHANGED <<pid, parent, chan, mem, child, nextpid>>

-----------------------------------------------------------------------------
Fork(p) == \/ allocproc(p) \/ NoSlotFree(p) \/ NoStack(p) \/ GotStack(p) \/ CopyFails(p) \/ Copy(p)
           \/ fork(p)
Exit(p) == ExitCall(p) \/ Fault(p) \/ ExitPanic(p) \/ exit(p)
Wait(p) == WaitReap(p) \/ WaitNone(p) \/ WaitSleep(p)

ProcNext == \/ \E p \in Slots : Fork(p)
            \/ \E p \in Slots : Exit(p)
            \/ \E p \in Slots : WaitCall(p) \/ Wait(p)
            \/ \E p \in Slots : \E n \in KillArgs : kill(p, n)

ProcSpec == ProcInit /\ [][ProcNext]_tablevars

\* A process in the kernel goes on; init calls wait again and again.
ProcFairness == /\ \A p \in Slots : /\ WF_tablevars(Wait(p))
                                    /\ WF_tablevars(Here(p, "stack") /\ Fork(p))
                                    /\ WF_tablevars(Here(p, "copy") /\ Fork(p))
                                    /\ WF_tablevars(fork(p))
                                    /\ WF_tablevars(ExitPanic(p) \/ exit(p))
                                    /\ WF_tablevars(Here(p, "user") /\ killed[p] /\ ExitCall(p))
                /\ WF_tablevars(WaitCall(initproc))

ProcLiveSpec == ProcSpec /\ ProcFairness
-----------------------------------------------------------------------------
(* Properties *)

ProcTypeOK ==
  /\ state \in [Slots -> SlotStates] /\ pid \in [Slots -> 0..nextpid-1]
  /\ parent \in [Slots -> Slots \cup {NoSlot}] /\ killed \in [Slots -> BOOLEAN]
  /\ chan \in [Slots -> Slots \cup {NoSlot}]
  /\ mem \in [Slots -> SUBSET {"kstack", "pgdir"}]
  /\ at \in [Slots -> Places] /\ child \in [Slots -> Slots \cup {NoSlot}]
  /\ nextpid \in Nat

\* Every process but init has a parent that has not exited: exit hands its
\* children over before it is a zombie, also those that exited before it.
ParentAlive ==
  \A s \in Slots : s # initproc /\ state[s] \in Live \cup {"ZOMBIE"} =>
    parent[s] \in Slots /\ state[parent[s]] \in Live

\* A slot between allocproc and the end of fork belongs to one forking process,
\* and to one only.
EmbryoOwned ==
  /\ \A p \in Slots : at[p] \in Forking /\ state[p] = "RUNNABLE" =>
       child[p] \in Slots /\ state[child[p]] = "EMBRYO"
  /\ \A p, q \in Slots : child[p] # NoSlot /\ child[p] = child[q] => p = q
  /\ \A s \in Slots : state[s] = "EMBRYO" => \E p \in Slots : child[p] = s

\* Nobody sleeps in wait who should not: a sleeping waiter has a child, none of
\* its children is a zombie, and it is not killed.
WaiterHasWork ==
  \A p \in Slots : state[p] = "SLEEPING" /\ at[p] = "wait" =>
    Children(p) # {} /\ Zombies(p) = {} /\ ~killed[p]

\* Stack and page table are freed with the process, on every path: an unused
\* slot owns neither, a process that can run or was not reaped owns both.
MemoryOwned ==
  \A s \in Slots : /\ state[s] = "UNUSED" => mem[s] = {}
                   /\ state[s] \in Live \cup {"ZOMBIE"} => mem[s] = {"kstack", "pgdir"}

\* The table is consistent: types, one owner for every slot in the making, and
\* memory with the processes and with nobody else.
TableSound == ProcTypeOK /\ EmbryoOwned /\ MemoryOwned

\* wait returns once a child has exited or the waiter is killed.
WaitReturns ==
  \A p \in Slots : at[p] = "wait" /\ (Zombies(p) # {} \/ killed[p]) ~> at[p] # "wait"

\* As long as init keeps waiting, a process that exits leaves the table, though
\* its parent may have exited before it.
OrphansLeave ==
  [](at[initproc] \notin {"exit", "panic"}) =>
     \A s \in Slots :
       state[s] = "ZOMBIE" /\ parent[s] = initproc ~> state[s] # "ZOMBIE"

\* Zombies are found: by the parent that waits, and by init once it is gone.
ZombiesReaped == WaitReturns /\ OrphansLeave
=============================================================================
