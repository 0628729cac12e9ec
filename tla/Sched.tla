-------------------------------- MODULE Sched --------------------------------
(***************************************************************************)
(* Spinlocks, interrupts, context switches and sleep/wakeup on several     *)
(* CPUs: kernel/spinlock.c, and sleep, wakeup, sched, yield, scheduler and *)
(* forkret of kernel/proc.c, driven by sys_sleep and the timer interrupt   *)
(* of kernel/trap.c, which is the waker.                                   *)
(*                                                                         *)
(* A thread is a process's kernel thread or a CPU's scheduler loop.  The   *)
(* lock ptable.lock is taken by one thread and released by another, the    *)
(* saved interrupt flag is per CPU but belongs to the thread, and CPU 0    *)
(* takes both locks inside an interrupt handler, at any instruction with   *)
(* interrupts enabled.                                                     *)
(***************************************************************************)
EXTENDS Ptable, FiniteSets

CONSTANTS
  CPUs,       \* cpus[], a set of naturals; cpu 0 keeps the time
  Sleep,      \* the argument of sys_sleep, in ticks
  None

ASSUME CpuAssumption == CPUs \subseteq Nat /\ 0 \in CPUs /\ IsFiniteSet(CPUs)
ASSUME SleepAssumption == Sleep \in Nat \ {0}
ASSUME NoneAssumption == None \notin CPUs /\ None \notin Int

Procs == 1..NPROC
Locks == {"ptable", "ticks"}

VARIABLES
  holder,   \* lk->locked and lk->cpu of each lock
  ncli, intena, \* per CPU, struct cpu
  iflag,    \* per CPU, FL_IF
  spin,     \* per CPU, is it in acquire, past pushcli?
  proc,     \* per CPU, the running process; None: the scheduler loop runs
  spc, idx, \* per CPU, where its scheduler loop is, and its table index
  onticks,  \* is proc->chan set, to &ticks?
  pc,       \* where each process's kernel thread is
  saved,    \* sched's local variable intena
  ret,      \* where an interrupted thread was
  need      \* ticks a process in sys_sleep still waits: n - (ticks - ticks0)

lockvars == <<holder, ncli, intena, iflag, spin>>
cpuvars == <<proc, spc, idx>>
procvars == <<state, onticks, pc, saved, ret, need>>
vars == <<lockvars, cpuvars, procvars>>

Handler == {"h_acq", "h_wk", "h_rel"}
PCs == {"forkret", "user", "kern", "s_acq", "s_test", "s_pt", "s_rel", "s_wake",
        "s_reacq", "y_acq", "y_set", "y_rel", "sched"} \cup Handler
States == {"SLEEPING", "RUNNABLE", "RUNNING"}

Init ==
  /\ holder = [l \in Locks |-> None]
  /\ ncli = [c \in CPUs |-> 0]
  /\ intena = [c \in CPUs |-> FALSE]
  /\ iflag = [c \in CPUs |-> TRUE]
  /\ spin = [c \in CPUs |-> FALSE]
  /\ proc = [c \in CPUs |-> None]
  /\ spc = [c \in CPUs |-> "idle"]
  /\ idx = [c \in CPUs |-> 1]
  /\ state = [p \in Procs |-> "RUNNABLE"]
  /\ onticks = [p \in Procs |-> FALSE]
  /\ pc = [p \in Procs |-> "forkret"]
  /\ saved = [p \in Procs |-> FALSE]
  /\ ret = [p \in Procs |-> "user"]
  /\ need = [p \in Procs |-> 0]

-----------------------------------------------------------------------------
(* spinlock.c *)

\* the lock the thread on CPU c takes next
Wanted(c) ==
  LET a == IF proc[c] = None THEN spc[c] ELSE pc[proc[c]] IN
    IF a \in {"s_acq", "s_reacq", "h_acq"} THEN {"ticks"}
    ELSE IF a \in {"s_pt", "y_acq", "h_wk", "idle"} THEN {"ptable"} ELSE {}

\* Faulty: interrupts stay enabled.
cli_Not(c) == iflag
cli(c) == [iflag EXCEPT ![c] = FALSE]

\* acquire, first part: pushcli
pushcli(c) ==
  /\ Wanted(c) # {} /\ ~spin[c]
  /\ spin' = [spin EXCEPT ![c] = TRUE]
  /\ ncli' = [ncli EXCEPT ![c] = @ + 1]
  /\ intena' = IF ncli[c] = 0 THEN [intena EXCEPT ![c] = iflag[c]] ELSE intena
  /\ iflag' = cli(c)
  /\ UNCHANGED <<holder, cpuvars, procvars>>

\* acquire, second part: the xchg that finds the lock free
acquire(c, l) ==
  /\ spin[c] /\ holder[l] = None
  /\ holder' = [holder EXCEPT ![l] = c]
  /\ spin' = [spin EXCEPT ![c] = FALSE]
  /\ UNCHANGED <<ncli, intena, iflag>>

\* clear the lock, then popcli
release(c, l) ==
  /\ holder' = [holder EXCEPT ![l] = None]
  /\ ncli' = [ncli EXCEPT ![c] = @ - 1]
  /\ iflag' = [iflag EXCEPT ![c] = @ \/ (ncli[c] = 1 /\ intena[c])]
  /\ UNCHANGED <<intena, spin>>

\* process p, on CPU c, is at a; it goes on at b
At(c, p, a) == proc[c] = p /\ pc[p] = a
Go(p, b) == pc' = [pc EXCEPT ![p] = b]

-----------------------------------------------------------------------------
(* sys_sleep and sleep *)

\* a process enters sys_sleep
SleepCall(c, p) ==
  /\ At(c, p, "user")
  /\ Go(p, "s_acq")
  /\ UNCHANGED <<lockvars, cpuvars, state, onticks, saved, ret, need>>

\* acquire(&tickslock); ticks0 = ticks
SleepStart(c, p) ==
  /\ At(c, p, "s_acq")
  /\ acquire(c, "ticks")
  /\ need' = [need EXCEPT ![p] = Sleep]
  /\ Go(p, "s_test")
  /\ UNCHANGED <<cpuvars, state, onticks, saved, ret>>

\* while(ticks - ticks0 < n)
SleepTest(c, p) ==
  /\ At(c, p, "s_test")
  /\ need[p] # 0
  /\ Go(p, "s_pt")
  /\ UNCHANGED <<lockvars, cpuvars, state, onticks, saved, ret, need>>

\* release(&tickslock); return
SleepDone(c, p) ==
  /\ At(c, p, "s_test")
  /\ need[p] = 0
  /\ release(c, "ticks")
  /\ Go(p, "kern")
  /\ UNCHANGED <<cpuvars, state, onticks, saved, ret, need>>

\* Faulty: releases lk before it takes ptable.lock.
SleepLock_ReleaseFirst(c, p) ==
  /\ At(c, p, "s_pt")
  /\ release(c, "ticks")
  /\ Go(p, "s_rel")
  /\ UNCHANGED <<cpuvars, state, onticks, saved, ret, need>>

\* sleep: acquire(&ptable.lock) ...
SleepLock(c, p) ==
  /\ At(c, p, "s_pt")
  /\ acquire(c, "ptable")
  /\ Go(p, "s_rel")
  /\ UNCHANGED <<cpuvars, state, onticks, saved, ret, need>>

\* ... release(lk); chan and state; sched()
SleepSet(c, p) ==
  /\ At(c, p, "s_rel")
  /\ release(c, "ticks")
  /\ onticks' = [onticks EXCEPT ![p] = TRUE]
  /\ state' = [state EXCEPT ![p] = "SLEEPING"]
  /\ Go(p, "sched")
  /\ UNCHANGED <<cpuvars, saved, ret, need>>

\* back from sched: chan = 0; release(&ptable.lock)
SleepWake(c, p) ==
  /\ At(c, p, "s_wake")
  /\ onticks' = [onticks EXCEPT ![p] = FALSE]
  /\ release(c, "ptable")
  /\ Go(p, "s_reacq")
  /\ UNCHANGED <<cpuvars, state, saved, ret, need>>

\* acquire(lk)
SleepReacquire(c, p) ==
  /\ At(c, p, "s_reacq")
  /\ acquire(c, "ticks")
  /\ Go(p, "s_test")
  /\ UNCHANGED <<cpuvars, state, onticks, saved, ret, need>>

\* back to user mode
Iret(c, p) ==
  /\ At(c, p, "kern")
  /\ Go(p, "user")
  /\ UNCHANGED <<lockvars, cpuvars, state, onticks, saved, ret, need>>

-----------------------------------------------------------------------------
(* yield, sched, scheduler, forkret *)

Yield(c, p) ==
  /\ At(c, p, "y_acq")
  /\ acquire(c, "ptable")
  /\ Go(p, "y_set")
  /\ UNCHANGED <<cpuvars, state, onticks, saved, ret, need>>

\* Faulty: gives ptable.lock up before the context is saved.
YieldSet_Unlocked(c, p) ==
  /\ At(c, p, "y_set")
  /\ state' = [state EXCEPT ![p] = "RUNNABLE"]
  /\ release(c, "ptable")
  /\ Go(p, "sched")
  /\ UNCHANGED <<cpuvars, onticks, saved, ret, need>>

YieldSet(c, p) ==
  /\ At(c, p, "y_set")
  /\ state' = [state EXCEPT ![p] = "RUNNABLE"]
  /\ Go(p, "sched")
  /\ UNCHANGED <<lockvars, cpuvars, onticks, saved, ret, need>>

\* back from sched: release(&ptable.lock), and iret from the interrupt
YieldDone(c, p) ==
  /\ At(c, p, "y_rel")
  /\ holder' = [holder EXCEPT !["ptable"] = None]
  /\ ncli' = [ncli EXCEPT ![c] = @ - 1]
  /\ iflag' = [iflag EXCEPT ![c] = TRUE]
  /\ Go(p, ret[p])
  /\ UNCHANGED <<intena, spin, cpuvars, state, onticks, saved, ret, need>>

\* swtch to the scheduler, which drops the process and goes on scanning
sched(c, p) ==
  /\ At(c, p, "sched")
  /\ saved' = [saved EXCEPT ![p] = intena[c]]
  /\ Go(p, IF onticks[p] THEN "s_wake" ELSE "y_rel")
  /\ proc' = [proc EXCEPT ![c] = None]
  /\ idx' = [idx EXCEPT ![c] = @ + 1]
  /\ UNCHANGED <<lockvars, spc, state, onticks, ret, need>>

\* scheduler: sti(); acquire(&ptable.lock)
SchedulerLock(c) ==
  /\ proc[c] = None /\ spc[c] = "idle"
  /\ acquire(c, "ptable")
  /\ idx' = [idx EXCEPT ![c] = 1]
  /\ spc' = [spc EXCEPT ![c] = "scan"]
  /\ UNCHANGED <<proc, procvars>>

SchedulerSkip(c) ==
  /\ proc[c] = None /\ spc[c] = "scan" /\ idx[c] \in Procs
  /\ state[idx[c]] # "RUNNABLE"
  /\ idx' = [idx EXCEPT ![c] = @ + 1]
  /\ UNCHANGED <<lockvars, proc, spc, procvars>>

\* Faulty: cpu->intena stays as the last thread left it.
Restored_Not(c, p) == intena

\* the end of sched, in the process that resumes; a new one starts in forkret
Restored(c, p) == IF pc[p] = "forkret" THEN intena ELSE [intena EXCEPT ![c] = saved[p]]

\* swtch to the process
SchedulerRun(c) ==
  /\ proc[c] = None /\ spc[c] = "scan" /\ idx[c] \in Procs
  /\ LET p == idx[c] IN
       /\ state[p] = "RUNNABLE"
       /\ state' = [state EXCEPT ![p] = "RUNNING"]
       /\ proc' = [proc EXCEPT ![c] = p]
       /\ intena' = Restored(c, p)
  /\ UNCHANGED <<holder, ncli, iflag, spin, spc, idx, onticks, pc, saved, ret, need>>

\* end of the table: release(&ptable.lock); sti() at the top of the loop
SchedulerUnlock(c) ==
  /\ proc[c] = None /\ spc[c] = "scan" /\ idx[c] \notin Procs
  /\ holder' = [holder EXCEPT !["ptable"] = None]
  /\ ncli' = [ncli EXCEPT ![c] = @ - 1]
  /\ iflag' = [iflag EXCEPT ![c] = TRUE]
  /\ spc' = [spc EXCEPT ![c] = "idle"]
  /\ UNCHANGED <<intena, spin, proc, idx, procvars>>

\* a new process: release(&ptable.lock), and iret to user mode
forkret(c, p) ==
  /\ At(c, p, "forkret")
  /\ holder' = [holder EXCEPT !["ptable"] = None]
  /\ ncli' = [ncli EXCEPT ![c] = @ - 1]
  /\ iflag' = [iflag EXCEPT ![c] = TRUE]
  /\ Go(p, "user")
  /\ UNCHANGED <<intena, spin, cpuvars, state, onticks, saved, ret, need>>

-----------------------------------------------------------------------------
(* the timer interrupt *)

\* the gate clears FL_IF; CPU 0 keeps time, the others only yield
Interrupt(c, p) ==
  /\ proc[c] = p /\ iflag[c]
  /\ iflag' = [iflag EXCEPT ![c] = FALSE]
  /\ ret' = [ret EXCEPT ![p] = pc[p]]
  /\ Go(p, IF c = 0 THEN "h_acq" ELSE "y_acq")
  /\ UNCHANGED <<holder, ncli, intena, spin, proc, spc, idx, state, onticks, saved, need>>

\* the same under the scheduler loop, where there is no process to yield
InterruptIdle(c) ==
  /\ proc[c] = None /\ spc[c] = "idle"
  /\ iflag[c] /\ c = 0
  /\ iflag' = [iflag EXCEPT ![c] = FALSE]
  /\ spc' = [spc EXCEPT ![c] = "h_acq"]
  /\ UNCHANGED <<holder, ncli, intena, spin, proc, idx, procvars>>

\* where CPU c is in the handler
InHandler(c, a) == IF proc[c] = None THEN spc[c] = a ELSE pc[proc[c]] = a
HandlerGo(c, b) == IF proc[c] = None
                     THEN spc' = [spc EXCEPT ![c] = b] /\ UNCHANGED pc
                     ELSE Go(proc[c], b) /\ UNCHANGED spc

\* acquire(&tickslock); ticks++
TickStart(c) ==
  /\ InHandler(c, "h_acq")
  /\ acquire(c, "ticks")
  /\ need' = [p \in Procs |-> IF need[p] = 0 THEN 0 ELSE need[p] - 1]
  /\ HandlerGo(c, "h_wk")
  /\ UNCHANGED <<proc, idx, state, onticks, saved, ret>>

\* Faulty: wakes the first sleeper only.
Woken_First == [p \in Procs |-> IF /\ state[p] = "SLEEPING" /\ onticks[p]
                                   /\ \A q \in 1..p-1 : state[q] # "SLEEPING"
                                THEN "RUNNABLE" ELSE state[p]]

\* wakeup1(&ticks)
Woken == [p \in Procs |-> IF state[p] = "SLEEPING" /\ onticks[p] THEN "RUNNABLE"
                          ELSE state[p]]

\* wakeup(&ticks): the whole critical section of ptable.lock, interrupts off
wakeup(c) ==
  /\ InHandler(c, "h_wk")
  /\ spin[c] /\ holder["ptable"] = None
  /\ state' = Woken
  /\ spin' = [spin EXCEPT ![c] = FALSE]
  /\ ncli' = [ncli EXCEPT ![c] = @ - 1]
  /\ HandlerGo(c, "h_rel")
  /\ UNCHANGED <<holder, intena, iflag, proc, idx, onticks, saved, ret, need>>

\* release(&tickslock); then yield, or iret to the scheduler loop
TickEnd(c) ==
  /\ InHandler(c, "h_rel")
  /\ holder' = [holder EXCEPT !["ticks"] = None]
  /\ ncli' = [ncli EXCEPT ![c] = @ - 1]
  /\ iflag' = [iflag EXCEPT ![c] = (proc[c] = None) \/ (ncli[c] = 1 /\ intena[c])]
  /\ HandlerGo(c, IF proc[c] = None THEN "idle" ELSE "y_acq")
  /\ UNCHANGED <<intena, spin, proc, idx, state, onticks, saved, ret, need>>

-----------------------------------------------------------------------------
SleepStep(c, p) ==
  \/ SleepStart(c, p) \/ SleepTest(c, p) \/ SleepDone(c, p)
  \/ SleepLock(c, p) \/ SleepSet(c, p) \/ SleepWake(c, p) \/ SleepReacquire(c, p)
  \/ Iret(c, p)

ThreadStep(c, p) ==
  \/ SleepStep(c, p) \/ Yield(c, p) \/ YieldSet(c, p) \/ YieldDone(c, p)
  \/ sched(c, p) \/ forkret(c, p)

\* what a CPU does by itself; entering sys_sleep is the user program's choice
CpuStep(c) ==
  \/ \E p \in Procs : ThreadStep(c, p)
  \/ SchedulerLock(c) \/ SchedulerSkip(c) \/ SchedulerRun(c) \/ SchedulerUnlock(c)
  \/ pushcli(c) \/ TickStart(c) \/ wakeup(c) \/ TickEnd(c)

Timer(c) == InterruptIdle(c) \/ \E p \in Procs : Interrupt(c, p)

Next == \E c \in CPUs : \/ CpuStep(c)
                        \/ Timer(c)
                        \/ \E p \in Procs : SleepCall(c, p)

Spec == Init /\ [][Next]_vars

\* Every CPU keeps executing and gets a lock that is free again and again; the
\* timer keeps interrupting CPU 0, an interrupt waiting until it is enabled.
Fairness == /\ \A c \in CPUs : SF_vars(CpuStep(c))
            /\ SF_vars(Timer(0))

LiveSpec == Spec /\ Fairness
-----------------------------------------------------------------------------
(* Properties *)

TypeOK ==
  /\ holder \in [Locks -> CPUs \cup {None}]
  /\ ncli \in [CPUs -> Nat]
  /\ intena \in [CPUs -> BOOLEAN] /\ iflag \in [CPUs -> BOOLEAN]
  /\ spin \in [CPUs -> BOOLEAN]
  /\ proc \in [CPUs -> Procs \cup {None}]
  /\ spc \in [CPUs -> {"idle", "scan"} \cup Handler]
  /\ idx \in [CPUs -> Nat]
  /\ state \in [Procs -> States] /\ onticks \in [Procs -> BOOLEAN]
  /\ pc \in [Procs -> PCs] /\ ret \in [Procs -> PCs]
  /\ saved \in [Procs -> BOOLEAN] /\ need \in [Procs -> 0..Sleep]

HeldBy(c) == {l \in Locks : holder[l] = c}

\* The nesting depth of pushcli is the number of locks the CPU holds or waits
\* for, through every hand-over of ptable.lock between a process and the
\* scheduler.
NcliCountsLocks == \A c \in CPUs :
  ncli[c] = Cardinality(HeldBy(c)) + (IF spin[c] THEN 1 ELSE 0)

\* Interrupts are off on a CPU that holds a lock or spins for one.
LocksMaskInterrupts == \A c \in CPUs : HeldBy(c) # {} \/ spin[c] => ~iflag[c]

\* No CPU ever tries to take a lock it holds (panic "acquire"), not even from
\* an interrupt handler.
NoSelfDeadlock == \A c \in CPUs : \A l \in Wanted(c) : holder[l] # c

\* The four conditions sched() checks: ptable.lock is held, and only it; the
\* process is no longer RUNNING; interrupts are off.
SchedPreconditions ==
  \A c \in CPUs : proc[c] # None /\ pc[proc[c]] = "sched" =>
    /\ holder["ptable"] = c /\ ncli[c] = 1
    /\ state[proc[c]] # "RUNNING" /\ ~iflag[c]

\* Types, and what pushcli and popcli are for: nesting is counted, a CPU with a
\* lock is not interrupted, no handler waits for a lock of the code it
\* interrupted, and sched is entered with ptable.lock only.
LockDiscipline == TypeOK /\ NcliCountsLocks /\ LocksMaskInterrupts
                    /\ NoSelfDeadlock /\ SchedPreconditions

\* A process runs on one CPU at a time: nobody picks it up between the moment it
\* is marked RUNNABLE or SLEEPING and the moment swtch has saved its context.
OneCpuPerProcess ==
  /\ \A c, d \in CPUs : c # d /\ proc[c] # None => proc[c] # proc[d]
  /\ \A p \in Procs : state[p] = "RUNNING" => \E c \in CPUs : proc[c] = p

\* A process asleep on ticks whose time has come has a wakeup on its way: the
\* handler has counted the tick and not yet called wakeup.
NoLostWakeup ==
  \A p \in Procs : state[p] = "SLEEPING" /\ need[p] = 0 =>
    \E c \in CPUs : InHandler(c, "h_wk")

\* A process comes out of sys_sleep with interrupts enabled, as it went in,
\* though it may have changed CPU and other threads used cpu->intena meanwhile.
InterruptsRestored ==
  \A c \in CPUs : \A p \in Procs :
    proc[c] = p /\ pc[p] \in {"user", "kern", "s_acq", "s_reacq"} =>
      iflag[c] \/ spin[c]

\* Every sleeper is woken, though the handler that does it needs both locks and
\* the CPU that keeps the time may itself be running a sleeper.
SleepersWoken == \A p \in Procs : state[p] = "SLEEPING" ~> state[p] # "SLEEPING"
=============================================================================
