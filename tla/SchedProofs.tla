----------------------------- MODULE SchedProofs -----------------------------
(***************************************************************************)
(* Proofs about the process table: Sched, for any number of CPUs and       *)
(* processes; then Proc, for every size of the table; then Lottery, for    *)
(* any number of processes, numbers, shares and bids.                      *)
(***************************************************************************)
EXTENDS Sched, Proc, Lottery, Lemmas

\* where the thread on CPU c is
Pos(c) == IF proc[c] = None THEN spc[c] ELSE pc[proc[c]]

\* the places at which a thread holds ptable.lock, holds tickslock, is about to
\* take a lock, or has interrupts enabled
PtablePlaces == {"s_rel", "s_wake", "y_set", "y_rel", "sched", "forkret", "scan"}
TicksPlaces == {"s_test", "s_pt", "s_rel", "h_wk", "h_rel"}
AcquirePlaces == {"s_acq", "s_reacq", "h_acq", "s_pt", "y_acq", "h_wk", "idle"}
OpenPlaces == {"user", "kern", "s_acq", "s_reacq", "idle"}

\* where a process can be interrupted, and where it stands off the CPU
Interruptible == {"user", "kern", "s_acq", "s_reacq"}
Parked == {"forkret", "s_wake", "y_rel"}

\* A lock belongs to the CPU whose thread is at a place between its acquire and
\* its release, pushcli is nested as deep as there are locks, and interrupts are
\* enabled exactly where no lock is held and no handler runs.
CpuState(c) ==
  /\ holder["ptable"] = c <=> Pos(c) \in PtablePlaces
  /\ holder["ticks"] = c <=> Pos(c) \in TicksPlaces
  /\ spin[c] => Pos(c) \in AcquirePlaces
  /\ iflag[c] <=> Pos(c) \in OpenPlaces /\ ~spin[c]
  /\ ncli[c] = (IF Pos(c) \in PtablePlaces THEN 1 ELSE 0)
               + (IF Pos(c) \in TicksPlaces THEN 1 ELSE 0) + (IF spin[c] THEN 1 ELSE 0)

\* cpu->intena is TRUE as long as the CPU is in sys_sleep with a lock, or waits
\* for its first one, and FALSE in the timer's handler.
IntenaState(c) ==
  /\ Pos(c) \in {"s_test", "s_pt", "s_rel", "s_wake"} => intena[c]
  /\ Pos(c) \in {"s_acq", "s_reacq"} /\ spin[c] => intena[c]
  /\ Pos(c) = "sched" /\ onticks[proc[c]] => intena[c]
  /\ Pos(c) \in {"h_wk", "h_rel"} \/ (Pos(c) = "h_acq" /\ spin[c]) => ~intena[c]

OnCpu(p) == \E c \in CPUs : proc[c] = p

\* One CPU per process, whose scheduler loop waits in the middle of its scan.
OneCpu ==
  /\ \A c, d \in CPUs : c # d /\ proc[c] # None => proc[c] # proc[d]
  /\ \A c \in CPUs : proc[c] # None => spc[c] = "scan"

\* What a process is that has a CPU, and one that has none.
ProcState(p) ==
  /\ OnCpu(p) => (state[p] = "RUNNING" <=> pc[p] # "sched")
  /\ ~OnCpu(p) => /\ pc[p] \in Parked /\ state[p] # "RUNNING"
                  /\ pc[p] = "s_wake" => saved[p]
  /\ ret[p] \in Interruptible

\* Who sleeps does so on ticks, and has not been forgotten.
SleepState(p) ==
  /\ onticks[p] => pc[p] \in {"sched", "s_wake"}
  /\ pc[p] = "s_wake" => onticks[p]
  /\ state[p] = "SLEEPING" => onticks[p]
  /\ pc[p] \in {"s_pt", "s_rel"} => need[p] # 0
  /\ state[p] = "SLEEPING" /\ need[p] = 0 => \E c \in CPUs : Pos(c) = "h_wk"

\* The inductive invariant.
Inv == /\ TypeOK /\ OneCpu
       /\ \A c \in CPUs : CpuState(c) /\ IntenaState(c)
       /\ \A p \in Procs : ProcState(p) /\ SleepState(p)

-----------------------------------------------------------------------------
(* What a step on one CPU leaves alone *)

\* A step on CPU c changes nothing of the other CPUs, takes or gives back locks
\* for c only, and moves no process but the one that runs on c.
Local(c) ==
  /\ \A d \in CPUs \ {c} : /\ proc'[d] = proc[d] /\ spc'[d] = spc[d] /\ spin'[d] = spin[d]
                           /\ iflag'[d] = iflag[d] /\ ncli'[d] = ncli[d] /\ intena'[d] = intena[d]
  /\ \A l \in Locks : holder'[l] = holder[l] \/ {holder[l], holder'[l]} = {None, c}
  /\ \A q \in Procs \ {proc[c]} : /\ pc'[q] = pc[q] /\ onticks'[q] = onticks[q]
                                  /\ saved'[q] = saved[q] /\ ret'[q] = ret[q]

\* The same of states and ticks.
Quiet(c) ==
  \A q \in Procs \ {proc[c], proc'[c]} : state'[q] = state[q] /\ need'[q] = need[q]

\* None is no CPU and no process.
LEMMA Nothing == None \notin CPUs /\ None \notin Procs
  BY NoneAssumption, NPROCAssumption DEF Procs

\* The other CPUs' threads stay where they are, and so does what is known of them.
LEMMA OtherCpus ==
  ASSUME Inv, NEW c \in CPUs, Local(c), NEW d \in CPUs \ {c}
  PROVE  Pos(d)' = Pos(d) /\ CpuState(d)' /\ IntenaState(d)'
  <1>1. proc[d] # None => proc[d] \in Procs \ {proc[c]}
    BY DEF Inv, TypeOK, OneCpu
  <1>2. proc'[d] = proc[d] /\ spc'[d] = spc[d]
    BY DEF Local
  <1>3. proc[d] # None => pc'[proc[d]] = pc[proc[d]] /\ onticks'[proc[d]] = onticks[proc[d]]
    BY <1>1 DEF Local
  <1>4. Pos(d)' = Pos(d)
    BY <1>2, <1>3 DEF Pos
  <1>5. \A l \in Locks : holder'[l] = d <=> holder[l] = d
    BY Nothing DEF Local
  <1>6. CpuState(d) /\ IntenaState(d)
    BY DEF Inv
  <1>7. CpuState(d)'
    BY <1>4, <1>5, <1>6 DEF CpuState, Local, Locks
  <1>8. Pos(d) = "sched" => proc[d] # None
    BY DEF Pos, Inv, TypeOK, Handler
  <1>9. IntenaState(d)'
    BY <1>2, <1>3, <1>4, <1>6, <1>8 DEF IntenaState, Local
  <1>. QED  BY <1>4, <1>7, <1>9

\* A process that is not on CPU c is where it was, with or without a CPU.
LEMMA OtherProcs ==
  ASSUME Inv, NEW c \in CPUs, Local(c), NEW q \in Procs \ {proc[c], proc'[c]}
  PROVE  /\ OnCpu(q)' <=> OnCpu(q)
         /\ pc'[q] = pc[q] /\ onticks'[q] = onticks[q] /\ saved'[q] = saved[q] /\ ret'[q] = ret[q]
  <1>1. \A d \in CPUs : proc'[d] = q <=> proc[d] = q
    BY DEF Local
  <1>. QED  BY <1>1 DEF OnCpu, Local

\* A step on CPU c keeps the invariant if it keeps what concerns c and its
\* process, and does not forget a wakeup.
LEMMA LocalStep ==
  ASSUME Inv, NEW c \in CPUs, Local(c), Quiet(c), TypeOK', OneCpu',
         CpuState(c)', IntenaState(c)',
         Pos(c) = "h_wk" => Pos(c)' = "h_wk",
         \A q \in Procs : q \in {proc[c], proc'[c]} => ProcState(q)' /\ SleepState(q)'
  PROVE  Inv'
  <1>1. ASSUME NEW d \in CPUs PROVE CpuState(d)' /\ IntenaState(d)'
    BY OtherCpus
  <1>2. (\E d \in CPUs : Pos(d) = "h_wk") => \E d \in CPUs : Pos(d)' = "h_wk"
    BY OtherCpus
  <1>3. ASSUME NEW q \in Procs PROVE ProcState(q)' /\ SleepState(q)'
    <2>1. CASE q \in {proc[c], proc'[c]}
      BY <2>1
    <2>2. CASE q \notin {proc[c], proc'[c]}
      <3>1. ProcState(q) /\ SleepState(q)
        BY DEF Inv
      <3>2. state'[q] = state[q] /\ need'[q] = need[q]
        BY <2>2 DEF Quiet
      <3>3. ProcState(q)'
        BY <2>2, <3>1, <3>2, OtherProcs DEF ProcState
      <3>4. SleepState(q)'
        BY <2>2, <3>1, <3>2, <1>2, OtherProcs DEF SleepState
      <3>. QED  BY <3>3, <3>4
    <2>. QED  BY <2>1, <2>2
  <1>. QED  BY <1>1, <1>3 DEF Inv

\* A process on a CPU: where it is, and what its CPU and its state are like.
LEMMA RunningThread ==
  ASSUME Inv, NEW c \in CPUs, NEW p \in Procs, proc[c] = p
  PROVE  /\ Pos(c) = pc[p] /\ spc[c] = "scan" /\ CpuState(c) /\ IntenaState(c)
         /\ state[p] = "RUNNING" <=> pc[p] # "sched"
         /\ ret[p] \in Interruptible /\ SleepState(p)
  BY Nothing DEF Inv, Pos, OneCpu, ProcState, OnCpu

\* A thread that goes to b and keeps its CPU.
LEMMA Moved ==
  ASSUME Inv, NEW c \in CPUs, NEW p \in Procs, NEW b, proc[c] = p, proc' = proc, Go(p, b)
  PROVE  Pos(c)' = b /\ pc'[p] = b /\ OnCpu(p)'
  BY Nothing DEF Inv, TypeOK, Pos, OnCpu, Go

-----------------------------------------------------------------------------
(* sys_sleep, yield and forkret *)

\* A user program calls sys_sleep.
LEMMA SleepCallInv ==
  ASSUME Inv, NEW c \in CPUs, NEW p \in Procs, SleepCall(c, p)
  PROVE  Inv'
  <1>. USE DEF SleepCall, At
  <1>1. proc[c] = p /\ Pos(c) = "user" /\ CpuState(c) /\ IntenaState(c) /\ SleepState(p)
    BY RunningThread
  <1>2. Pos(c)' = "s_acq" /\ pc'[p] = "s_acq" /\ OnCpu(p)'
    BY <1>1, Moved DEF lockvars, cpuvars
  <1>3. state[p] = "RUNNING"
    BY <1>1, RunningThread DEF CpuState, IntenaState, SleepState, PtablePlaces, TicksPlaces, AcquirePlaces, OpenPlaces
  <1>4. TypeOK'
    BY <1>3, SleepAssumption DEF Inv, TypeOK, Go, lockvars, cpuvars, PCs, States, Locks
  <1>5. Local(c) /\ Quiet(c) /\ OneCpu'
    BY <1>1, <1>3 DEF Local, Quiet, OneCpu, Go, lockvars, cpuvars, Inv, TypeOK, Locks, CpuState, PtablePlaces, TicksPlaces, AcquirePlaces, OpenPlaces
  <1>6. CpuState(c)' /\ IntenaState(c)'
    BY <1>1, <1>2, <1>3 DEF CpuState, IntenaState, PtablePlaces, TicksPlaces, AcquirePlaces, OpenPlaces, lockvars, cpuvars, Inv, TypeOK, Locks
  <1>7. ProcState(p)' /\ SleepState(p)'
    BY <1>1, <1>2, <1>3, RunningThread DEF ProcState, SleepState, lockvars, cpuvars, Inv, TypeOK
  <1>. QED  BY <1>1, <1>2, <1>4, <1>5, <1>6, <1>7, LocalStep DEF lockvars, cpuvars

\* sys_sleep takes tickslock.
LEMMA SleepStartInv ==
  ASSUME Inv, NEW c \in CPUs, NEW p \in Procs, SleepStart(c, p)
  PROVE  Inv'
  <1>. USE DEF SleepStart, At
  <1>1. proc[c] = p /\ Pos(c) = "s_acq" /\ CpuState(c) /\ IntenaState(c) /\ SleepState(p)
    BY RunningThread
  <1>2. Pos(c)' = "s_test" /\ pc'[p] = "s_test" /\ OnCpu(p)'
    BY <1>1, Moved DEF acquire, cpuvars
  <1>3. state[p] = "RUNNING"
    BY <1>1, RunningThread DEF CpuState, IntenaState, SleepState, PtablePlaces, TicksPlaces, AcquirePlaces, OpenPlaces
  <1>4. TypeOK'
    BY <1>3, SleepAssumption DEF Inv, TypeOK, Go, acquire, cpuvars, PCs, States, Locks
  <1>5. Local(c) /\ Quiet(c) /\ OneCpu'
    BY <1>1, <1>3 DEF Local, Quiet, OneCpu, Go, acquire, cpuvars, Inv, TypeOK, Locks, CpuState, PtablePlaces, TicksPlaces, AcquirePlaces, OpenPlaces
  <1>6. CpuState(c)' /\ IntenaState(c)'
    BY <1>1, <1>2, <1>3 DEF CpuState, IntenaState, PtablePlaces, TicksPlaces, AcquirePlaces, OpenPlaces, acquire, cpuvars, Inv, TypeOK, Locks
  <1>7. ProcState(p)' /\ SleepState(p)'
    BY <1>1, <1>2, <1>3, RunningThread DEF ProcState, SleepState, acquire, cpuvars, Inv, TypeOK
  <1>. QED  BY <1>1, <1>2, <1>4, <1>5, <1>6, <1>7, LocalStep DEF acquire, cpuvars

\* The time has not come.
LEMMA SleepTestInv ==
  ASSUME Inv, NEW c \in CPUs, NEW p \in Procs, SleepTest(c, p)
  PROVE  Inv'
  <1>. USE DEF SleepTest, At
  <1>1. proc[c] = p /\ Pos(c) = "s_test" /\ CpuState(c) /\ IntenaState(c) /\ SleepState(p)
    BY RunningThread
  <1>2. Pos(c)' = "s_pt" /\ pc'[p] = "s_pt" /\ OnCpu(p)'
    BY <1>1, Moved DEF lockvars, cpuvars
  <1>3. need[p] # 0
    BY <1>1, RunningThread DEF CpuState, IntenaState, SleepState, PtablePlaces, TicksPlaces, AcquirePlaces, OpenPlaces
  <1>4. TypeOK'
    BY <1>3, SleepAssumption DEF Inv, TypeOK, Go, lockvars, cpuvars, PCs, States, Locks
  <1>5. Local(c) /\ Quiet(c) /\ OneCpu'
    BY <1>1, <1>3 DEF Local, Quiet, OneCpu, Go, lockvars, cpuvars, Inv, TypeOK, Locks, CpuState, PtablePlaces, TicksPlaces, AcquirePlaces, OpenPlaces
  <1>6. CpuState(c)' /\ IntenaState(c)'
    BY <1>1, <1>2, <1>3 DEF CpuState, IntenaState, PtablePlaces, TicksPlaces, AcquirePlaces, OpenPlaces, lockvars, cpuvars, Inv, TypeOK, Locks
  <1>7. ProcState(p)' /\ SleepState(p)'
    BY <1>1, <1>2, <1>3, RunningThread DEF ProcState, SleepState, lockvars, cpuvars, Inv, TypeOK
  <1>. QED  BY <1>1, <1>2, <1>4, <1>5, <1>6, <1>7, LocalStep DEF lockvars, cpuvars

\* The time has come: interrupts are enabled again.
LEMMA SleepDoneInv ==
  ASSUME Inv, NEW c \in CPUs, NEW p \in Procs, SleepDone(c, p)
  PROVE  Inv'
  <1>. USE DEF SleepDone, At
  <1>1. proc[c] = p /\ Pos(c) = "s_test" /\ CpuState(c) /\ IntenaState(c) /\ SleepState(p)
    BY RunningThread
  <1>2. Pos(c)' = "kern" /\ pc'[p] = "kern" /\ OnCpu(p)'
    BY <1>1, Moved DEF release, cpuvars
  <1>3. ncli[c] = 1 /\ intena[c]
    BY <1>1, RunningThread DEF CpuState, IntenaState, SleepState, PtablePlaces, TicksPlaces, AcquirePlaces, OpenPlaces
  <1>4. TypeOK'
    BY <1>3, SleepAssumption DEF Inv, TypeOK, Go, release, cpuvars, PCs, States, Locks
  <1>5. Local(c) /\ Quiet(c) /\ OneCpu'
    BY <1>1, <1>3 DEF Local, Quiet, OneCpu, Go, release, cpuvars, Inv, TypeOK, Locks, CpuState, PtablePlaces, TicksPlaces, AcquirePlaces, OpenPlaces
  <1>6. CpuState(c)' /\ IntenaState(c)'
    BY <1>1, <1>2, <1>3, Nothing DEF CpuState, IntenaState, PtablePlaces, TicksPlaces, AcquirePlaces, OpenPlaces, release, cpuvars, Inv, TypeOK, Locks
  <1>7. ProcState(p)' /\ SleepState(p)'
    BY <1>1, <1>2, <1>3, RunningThread DEF ProcState, SleepState, release, cpuvars, Inv, TypeOK
  <1>. QED  BY <1>1, <1>2, <1>4, <1>5, <1>6, <1>7, LocalStep DEF release, cpuvars

\* sleep takes the second lock while it has the first.
LEMMA SleepLockInv ==
  ASSUME Inv, NEW c \in CPUs, NEW p \in Procs, SleepLock(c, p)
  PROVE  Inv'
  <1>. USE DEF SleepLock, At
  <1>1. proc[c] = p /\ Pos(c) = "s_pt" /\ CpuState(c) /\ IntenaState(c) /\ SleepState(p)
    BY RunningThread
  <1>2. Pos(c)' = "s_rel" /\ pc'[p] = "s_rel" /\ OnCpu(p)'
    BY <1>1, Moved DEF acquire, cpuvars
  <1>3. need[p] # 0
    BY <1>1, RunningThread DEF CpuState, IntenaState, SleepState, PtablePlaces, TicksPlaces, AcquirePlaces, OpenPlaces
  <1>4. TypeOK'
    BY <1>3, SleepAssumption DEF Inv, TypeOK, Go, acquire, cpuvars, PCs, States, Locks
  <1>5. Local(c) /\ Quiet(c) /\ OneCpu'
    BY <1>1, <1>3 DEF Local, Quiet, OneCpu, Go, acquire, cpuvars, Inv, TypeOK, Locks, CpuState, PtablePlaces, TicksPlaces, AcquirePlaces, OpenPlaces
  <1>6. CpuState(c)' /\ IntenaState(c)'
    BY <1>1, <1>2, <1>3 DEF CpuState, IntenaState, PtablePlaces, TicksPlaces, AcquirePlaces, OpenPlaces, acquire, cpuvars, Inv, TypeOK, Locks
  <1>7. ProcState(p)' /\ SleepState(p)'
    BY <1>1, <1>2, <1>3, RunningThread DEF ProcState, SleepState, acquire, cpuvars, Inv, TypeOK
  <1>. QED  BY <1>1, <1>2, <1>4, <1>5, <1>6, <1>7, LocalStep DEF acquire, cpuvars

\* The process marks itself asleep; the tick it waits for cannot have come.
LEMMA SleepSetInv ==
  ASSUME Inv, NEW c \in CPUs, NEW p \in Procs, SleepSet(c, p)
  PROVE  Inv'
  <1>. USE DEF SleepSet, At
  <1>1. proc[c] = p /\ Pos(c) = "s_rel" /\ CpuState(c) /\ IntenaState(c) /\ SleepState(p)
    BY RunningThread
  <1>2. Pos(c)' = "sched" /\ pc'[p] = "sched" /\ OnCpu(p)'
    BY <1>1, Moved DEF release, cpuvars
  <1>3. ncli[c] = 2 /\ intena[c] /\ need[p] # 0 /\ holder["ptable"] = c
    BY <1>1, RunningThread DEF CpuState, IntenaState, SleepState, PtablePlaces, TicksPlaces, AcquirePlaces, OpenPlaces
  <1>4. TypeOK'
    BY <1>3, SleepAssumption DEF Inv, TypeOK, Go, release, cpuvars, PCs, States, Locks
  <1>5. Local(c) /\ Quiet(c) /\ OneCpu'
    BY <1>1, <1>3 DEF Local, Quiet, OneCpu, Go, release, cpuvars, Inv, TypeOK, Locks, CpuState, PtablePlaces, TicksPlaces, AcquirePlaces, OpenPlaces
  <1>6. CpuState(c)' /\ IntenaState(c)'
    BY <1>1, <1>2, <1>3, Nothing DEF CpuState, IntenaState, PtablePlaces, TicksPlaces, AcquirePlaces, OpenPlaces, release, cpuvars, Inv, TypeOK, Locks
  <1>7. ProcState(p)' /\ SleepState(p)'
    BY <1>1, <1>2, <1>3, RunningThread DEF ProcState, SleepState, release, cpuvars, Inv, TypeOK
  <1>. QED  BY <1>1, <1>2, <1>4, <1>5, <1>6, <1>7, LocalStep DEF release, cpuvars

\* Back from sched on some CPU, interrupts are enabled again.
LEMMA SleepWakeInv ==
  ASSUME Inv, NEW c \in CPUs, NEW p \in Procs, SleepWake(c, p)
  PROVE  Inv'
  <1>. USE DEF SleepWake, At
  <1>1. proc[c] = p /\ Pos(c) = "s_wake" /\ CpuState(c) /\ IntenaState(c) /\ SleepState(p)
    BY RunningThread
  <1>2. Pos(c)' = "s_reacq" /\ pc'[p] = "s_reacq" /\ OnCpu(p)'
    BY <1>1, Moved DEF release, cpuvars
  <1>3. ncli[c] = 1 /\ intena[c] /\ state[p] = "RUNNING"
    BY <1>1, RunningThread DEF CpuState, IntenaState, SleepState, PtablePlaces, TicksPlaces, AcquirePlaces, OpenPlaces
  <1>4. TypeOK'
    BY <1>3, SleepAssumption DEF Inv, TypeOK, Go, release, cpuvars, PCs, States, Locks
  <1>5. Local(c) /\ Quiet(c) /\ OneCpu'
    BY <1>1, <1>3 DEF Local, Quiet, OneCpu, Go, release, cpuvars, Inv, TypeOK, Locks, CpuState, PtablePlaces, TicksPlaces, AcquirePlaces, OpenPlaces
  <1>6. CpuState(c)' /\ IntenaState(c)'
    BY <1>1, <1>2, <1>3, Nothing DEF CpuState, IntenaState, PtablePlaces, TicksPlaces, AcquirePlaces, OpenPlaces, release, cpuvars, Inv, TypeOK, Locks
  <1>7. ProcState(p)' /\ SleepState(p)'
    BY <1>1, <1>2, <1>3, RunningThread DEF ProcState, SleepState, release, cpuvars, Inv, TypeOK
  <1>. QED  BY <1>1, <1>2, <1>4, <1>5, <1>6, <1>7, LocalStep DEF release, cpuvars

\* sleep takes tickslock again.
LEMMA SleepReacquireInv ==
  ASSUME Inv, NEW c \in CPUs, NEW p \in Procs, SleepReacquire(c, p)
  PROVE  Inv'
  <1>. USE DEF SleepReacquire, At
  <1>1. proc[c] = p /\ Pos(c) = "s_reacq" /\ CpuState(c) /\ IntenaState(c) /\ SleepState(p)
    BY RunningThread
  <1>2. Pos(c)' = "s_test" /\ pc'[p] = "s_test" /\ OnCpu(p)'
    BY <1>1, Moved DEF acquire, cpuvars
  <1>3. state[p] = "RUNNING"
    BY <1>1, RunningThread DEF CpuState, IntenaState, SleepState, PtablePlaces, TicksPlaces, AcquirePlaces, OpenPlaces
  <1>4. TypeOK'
    BY <1>3, SleepAssumption DEF Inv, TypeOK, Go, acquire, cpuvars, PCs, States, Locks
  <1>5. Local(c) /\ Quiet(c) /\ OneCpu'
    BY <1>1, <1>3 DEF Local, Quiet, OneCpu, Go, acquire, cpuvars, Inv, TypeOK, Locks, CpuState, PtablePlaces, TicksPlaces, AcquirePlaces, OpenPlaces
  <1>6. CpuState(c)' /\ IntenaState(c)'
    BY <1>1, <1>2, <1>3 DEF CpuState, IntenaState, PtablePlaces, TicksPlaces, AcquirePlaces, OpenPlaces, acquire, cpuvars, Inv, TypeOK, Locks
  <1>7. ProcState(p)' /\ SleepState(p)'
    BY <1>1, <1>2, <1>3, RunningThread DEF ProcState, SleepState, acquire, cpuvars, Inv, TypeOK
  <1>. QED  BY <1>1, <1>2, <1>4, <1>5, <1>6, <1>7, LocalStep DEF acquire, cpuvars

\* Back to user mode.
LEMMA IretInv ==
  ASSUME Inv, NEW c \in CPUs, NEW p \in Procs, Iret(c, p)
  PROVE  Inv'
  <1>. USE DEF Iret, At
  <1>1. proc[c] = p /\ Pos(c) = "kern" /\ CpuState(c) /\ IntenaState(c) /\ SleepState(p)
    BY RunningThread
  <1>2. Pos(c)' = "user" /\ pc'[p] = "user" /\ OnCpu(p)'
    BY <1>1, Moved DEF lockvars, cpuvars
  <1>3. state[p] = "RUNNING"
    BY <1>1, RunningThread DEF CpuState, IntenaState, SleepState, PtablePlaces, TicksPlaces, AcquirePlaces, OpenPlaces
  <1>4. TypeOK'
    BY <1>3, SleepAssumption DEF Inv, TypeOK, Go, lockvars, cpuvars, PCs, States, Locks
  <1>5. Local(c) /\ Quiet(c) /\ OneCpu'
    BY <1>1, <1>3 DEF Local, Quiet, OneCpu, Go, lockvars, cpuvars, Inv, TypeOK, Locks, CpuState, PtablePlaces, TicksPlaces, AcquirePlaces, OpenPlaces
  <1>6. CpuState(c)' /\ IntenaState(c)'
    BY <1>1, <1>2, <1>3 DEF CpuState, IntenaState, PtablePlaces, TicksPlaces, AcquirePlaces, OpenPlaces, lockvars, cpuvars, Inv, TypeOK, Locks
  <1>7. ProcState(p)' /\ SleepState(p)'
    BY <1>1, <1>2, <1>3, RunningThread DEF ProcState, SleepState, lockvars, cpuvars, Inv, TypeOK
  <1>. QED  BY <1>1, <1>2, <1>4, <1>5, <1>6, <1>7, LocalStep DEF lockvars, cpuvars

\* yield takes ptable.lock.
LEMMA YieldInv ==
  ASSUME Inv, NEW c \in CPUs, NEW p \in Procs, Yield(c, p)
  PROVE  Inv'
  <1>. USE DEF Yield, At
  <1>1. proc[c] = p /\ Pos(c) = "y_acq" /\ CpuState(c) /\ IntenaState(c) /\ SleepState(p)
    BY RunningThread
  <1>2. Pos(c)' = "y_set" /\ pc'[p] = "y_set" /\ OnCpu(p)'
    BY <1>1, Moved DEF acquire, cpuvars
  <1>3. state[p] = "RUNNING"
    BY <1>1, RunningThread DEF CpuState, IntenaState, SleepState, PtablePlaces, TicksPlaces, AcquirePlaces, OpenPlaces
  <1>4. TypeOK'
    BY <1>3, SleepAssumption DEF Inv, TypeOK, Go, acquire, cpuvars, PCs, States, Locks
  <1>5. Local(c) /\ Quiet(c) /\ OneCpu'
    BY <1>1, <1>3 DEF Local, Quiet, OneCpu, Go, acquire, cpuvars, Inv, TypeOK, Locks, CpuState, PtablePlaces, TicksPlaces, AcquirePlaces, OpenPlaces
  <1>6. CpuState(c)' /\ IntenaState(c)'
    BY <1>1, <1>2, <1>3 DEF CpuState, IntenaState, PtablePlaces, TicksPlaces, AcquirePlaces, OpenPlaces, acquire, cpuvars, Inv, TypeOK, Locks
  <1>7. ProcState(p)' /\ SleepState(p)'
    BY <1>1, <1>2, <1>3, RunningThread DEF ProcState, SleepState, acquire, cpuvars, Inv, TypeOK
  <1>. QED  BY <1>1, <1>2, <1>4, <1>5, <1>6, <1>7, LocalStep DEF acquire, cpuvars

\* The process gives its turn up.
LEMMA YieldSetInv ==
  ASSUME Inv, NEW c \in CPUs, NEW p \in Procs, YieldSet(c, p)
  PROVE  Inv'
  <1>. USE DEF YieldSet, At
  <1>1. proc[c] = p /\ Pos(c) = "y_set" /\ CpuState(c) /\ IntenaState(c) /\ SleepState(p)
    BY RunningThread
  <1>2. Pos(c)' = "sched" /\ pc'[p] = "sched" /\ OnCpu(p)'
    BY <1>1, Moved DEF lockvars, cpuvars
  <1>3. ~onticks[p]
    BY <1>1, RunningThread DEF CpuState, IntenaState, SleepState, PtablePlaces, TicksPlaces, AcquirePlaces, OpenPlaces
  <1>4. TypeOK'
    BY <1>3, SleepAssumption DEF Inv, TypeOK, Go, lockvars, cpuvars, PCs, States, Locks
  <1>5. Local(c) /\ Quiet(c) /\ OneCpu'
    BY <1>1, <1>3 DEF Local, Quiet, OneCpu, Go, lockvars, cpuvars, Inv, TypeOK, Locks, CpuState, PtablePlaces, TicksPlaces, AcquirePlaces, OpenPlaces
  <1>6. CpuState(c)' /\ IntenaState(c)'
    BY <1>1, <1>2, <1>3 DEF CpuState, IntenaState, PtablePlaces, TicksPlaces, AcquirePlaces, OpenPlaces, lockvars, cpuvars, Inv, TypeOK, Locks
  <1>7. ProcState(p)' /\ SleepState(p)'
    BY <1>1, <1>2, <1>3, RunningThread DEF ProcState, SleepState, lockvars, cpuvars, Inv, TypeOK
  <1>. QED  BY <1>1, <1>2, <1>4, <1>5, <1>6, <1>7, LocalStep DEF lockvars, cpuvars

\* A new process releases the scheduler's lock.
LEMMA ForkretInv ==
  ASSUME Inv, NEW c \in CPUs, NEW p \in Procs, forkret(c, p)
  PROVE  Inv'
  <1>. USE DEF forkret, At
  <1>1. proc[c] = p /\ Pos(c) = "forkret" /\ CpuState(c) /\ IntenaState(c) /\ SleepState(p)
    BY RunningThread
  <1>2. Pos(c)' = "user" /\ pc'[p] = "user" /\ OnCpu(p)'
    BY <1>1, Moved DEF cpuvars
  <1>3. ncli[c] = 1
    BY <1>1, RunningThread DEF CpuState, IntenaState, SleepState, PtablePlaces, TicksPlaces, AcquirePlaces, OpenPlaces
  <1>4. TypeOK'
    BY <1>3, SleepAssumption DEF Inv, TypeOK, Go, cpuvars, PCs, States, Locks
  <1>5. Local(c) /\ Quiet(c) /\ OneCpu'
    BY <1>1, <1>3 DEF Local, Quiet, OneCpu, Go, cpuvars, Inv, TypeOK, Locks, CpuState, PtablePlaces, TicksPlaces, AcquirePlaces, OpenPlaces
  <1>6. CpuState(c)' /\ IntenaState(c)'
    BY <1>1, <1>2, <1>3, Nothing DEF CpuState, IntenaState, PtablePlaces, TicksPlaces, AcquirePlaces, OpenPlaces, cpuvars, Inv, TypeOK, Locks
  <1>7. ProcState(p)' /\ SleepState(p)'
    BY <1>1, <1>2, <1>3, RunningThread DEF ProcState, SleepState, cpuvars, Inv, TypeOK
  <1>. QED  BY <1>1, <1>2, <1>4, <1>5, <1>6, <1>7, LocalStep DEF cpuvars

\* yield returns to where the timer interrupted the process, with interrupts on.
LEMMA YieldDoneInv ==
  ASSUME Inv, NEW c \in CPUs, NEW p \in Procs, YieldDone(c, p)
  PROVE  Inv'
  <1>. USE DEF YieldDone, At
  <1>1. proc[c] = p /\ Pos(c) = "y_rel" /\ CpuState(c) /\ SleepState(p) /\ ret[p] \in Interruptible
    BY RunningThread
  <1>2. Pos(c)' = ret[p] /\ pc'[p] = ret[p] /\ OnCpu(p)'
    BY <1>1, Moved DEF cpuvars
  <1>3. ncli[c] = 1 /\ holder["ptable"] = c /\ ~spin[c] /\ state[p] = "RUNNING" /\ holder["ticks"] # c
    BY <1>1, RunningThread DEF CpuState, PtablePlaces, TicksPlaces, AcquirePlaces
  <1>4. TypeOK'
    BY <1>3 DEF Inv, TypeOK, Go, cpuvars, PCs, Locks
  <1>5. Local(c) /\ Quiet(c) /\ OneCpu'
    BY <1>1, <1>3 DEF Local, Quiet, OneCpu, Go, cpuvars, Inv, TypeOK, Locks
  <1>6. CpuState(c)' /\ IntenaState(c)'
    <2>1. holder'["ptable"] # c /\ holder'["ticks"] # c /\ ~spin'[c] /\ iflag'[c] /\ ncli'[c] = 0
      BY <1>3, Nothing DEF Inv, TypeOK, Locks
    <2>. QED  BY <2>1, <1>1, <1>2 DEF CpuState, IntenaState, PtablePlaces, TicksPlaces, AcquirePlaces,
                                     OpenPlaces, Interruptible
  <1>7. ProcState(p)' /\ SleepState(p)'
    BY <1>1, <1>2, <1>3 DEF ProcState, SleepState, Interruptible
  <1>. QED  BY <1>1, <1>2, <1>4, <1>5, <1>6, <1>7, LocalStep DEF cpuvars

\* The timer interrupts a process, at a place to which it can return.
LEMMA InterruptInv ==
  ASSUME Inv, NEW c \in CPUs, NEW p \in Procs, Interrupt(c, p)
  PROVE  Inv'
  <1>. USE DEF Interrupt
  <1>. DEFINE b == IF c = 0 THEN "h_acq" ELSE "y_acq"
  <1>1. proc[c] = p /\ Pos(c) = pc[p] /\ CpuState(c) /\ SleepState(p) /\ spc[c] = "scan"
    BY RunningThread
  <1>2. Pos(c)' = b /\ pc'[p] = b /\ OnCpu(p)'
    BY <1>1, Moved
  <1>3. /\ ~spin[c] /\ pc[p] \in Interruptible /\ state[p] = "RUNNING"
        /\ ncli[c] = 0 /\ holder["ptable"] # c /\ holder["ticks"] # c
    <2>1. pc[p] \in OpenPlaces /\ ~spin[c] /\ pc[p] \in PCs
      BY <1>1 DEF CpuState, Inv, TypeOK
    <2>2. pc[p] \in Interruptible
      BY <2>1 DEF OpenPlaces, PCs, Handler, Interruptible
    <2>. QED  BY <2>1, <2>2, <1>1, RunningThread DEF CpuState, Interruptible, PtablePlaces, TicksPlaces
  <1>4. TypeOK'
    BY DEF Inv, TypeOK, Go, PCs, Handler
  <1>5. Local(c) /\ Quiet(c) /\ OneCpu'
    BY <1>1 DEF Local, Quiet, OneCpu, Go, Inv, TypeOK
  <1>6. CpuState(c)' /\ IntenaState(c)'
    <2>1. ~spin'[c] /\ ~iflag'[c] /\ ncli'[c] = 0 /\ holder'["ptable"] # c /\ holder'["ticks"] # c
      BY <1>3 DEF Inv, TypeOK
    <2>. QED  BY <2>1, <1>2 DEF CpuState, IntenaState, PtablePlaces, TicksPlaces, AcquirePlaces, OpenPlaces
  <1>7. ProcState(p)' /\ SleepState(p)'
    BY <1>1, <1>2, <1>3 DEF ProcState, SleepState, Interruptible, Inv, TypeOK
  <1>. QED  BY <1>1, <1>2, <1>3, <1>4, <1>5, <1>6, <1>7, LocalStep DEF Interruptible

\* sched hands ptable.lock over to the scheduler loop, and keeps the flag that
\* sleep will need.
LEMMA SchedInv ==
  ASSUME Inv, NEW c \in CPUs, NEW p \in Procs, sched(c, p)
  PROVE  Inv'
  <1>. USE DEF sched, At
  <1>1. /\ proc[c] = p /\ Pos(c) = "sched" /\ CpuState(c) /\ IntenaState(c) /\ SleepState(p)
        /\ spc[c] = "scan" /\ state[p] # "RUNNING" /\ ret[p] \in Interruptible
    BY RunningThread
  <1>2. proc'[c] = None /\ Pos(c)' = "scan" /\ pc'[p] = IF onticks[p] THEN "s_wake" ELSE "y_rel"
    BY <1>1 DEF Inv, TypeOK, Pos, Go
  <1>3. ~OnCpu(p)'
    BY <1>1, Nothing DEF Inv, TypeOK, OneCpu, OnCpu
  <1>4. TypeOK'
    BY DEF Inv, TypeOK, Go, lockvars, PCs
  <1>5. Local(c) /\ Quiet(c) /\ OneCpu'
    BY <1>1, <1>2 DEF Local, Quiet, OneCpu, Go, lockvars, Inv, TypeOK
  <1>6. CpuState(c)' /\ IntenaState(c)'
    BY <1>1, <1>2 DEF CpuState, IntenaState, PtablePlaces, TicksPlaces, AcquirePlaces, OpenPlaces, lockvars
  <1>7. onticks[p] => saved'[p]
    BY <1>1 DEF IntenaState, Inv, TypeOK
  <1>8. ProcState(p)' /\ SleepState(p)'
    <2>1. ProcState(p)'
      BY <1>1, <1>2, <1>3, <1>7 DEF ProcState, Parked
    <2>2. state[p] = "SLEEPING" /\ need[p] = 0 => \E d \in CPUs : Pos(d)' = "h_wk"
      BY <1>1, <1>5, OtherCpus DEF SleepState
    <2>. QED  BY <1>1, <1>2, <2>1, <2>2 DEF SleepState
  <1>. QED  BY <1>1, <1>2, <1>4, <1>5, <1>6, <1>8, Nothing, LocalStep

-----------------------------------------------------------------------------
(* the scheduler loop, pushcli, and the timer's handler *)

\* The thread on a CPU stays where it is.
LEMMA StaysThere ==
  ASSUME NEW c \in CPUs, proc'[c] = proc[c], spc'[c] = spc[c], pc' = pc
  PROVE  Pos(c)' = Pos(c)
  BY DEF Pos

\* pushcli before an acquire: the first one saves the interrupt flag.
LEMMA PushcliInv ==
  ASSUME Inv, NEW c \in CPUs, pushcli(c)
  PROVE  Inv'
  <1>. USE DEF pushcli, cli
  <1>1. Pos(c)' = Pos(c) /\ proc' = proc /\ onticks' = onticks
    BY StaysThere DEF cpuvars, procvars
  <1>2. Pos(c) \in AcquirePlaces /\ CpuState(c) /\ IntenaState(c) /\ ~spin[c]
    BY DEF Wanted, Pos, Inv, AcquirePlaces
  <1>3. TypeOK'
    BY DEF Inv, TypeOK, cpuvars, procvars
  <1>4. Local(c) /\ Quiet(c) /\ OneCpu'
    BY DEF Local, Quiet, OneCpu, Inv, TypeOK, cpuvars, procvars
  <1>5. /\ spin'[c] /\ ~iflag'[c] /\ ncli'[c] = ncli[c] + 1 /\ holder' = holder
        /\ intena'[c] = IF ncli[c] = 0 THEN iflag[c] ELSE intena[c]
    BY DEF Inv, TypeOK
  <1>6. CpuState(c)'
    BY <1>1, <1>2, <1>5 DEF CpuState, PtablePlaces, TicksPlaces, AcquirePlaces, OpenPlaces
  <1>7. IntenaState(c)'
    BY <1>1, <1>2, <1>5 DEF IntenaState, CpuState, PtablePlaces, TicksPlaces, AcquirePlaces, OpenPlaces
  <1>8. ASSUME NEW q \in Procs PROVE ProcState(q)' /\ SleepState(q)'
    <2>1. ProcState(q) /\ SleepState(q)
      BY DEF Inv
    <2>2. \A d \in CPUs : Pos(d)' = Pos(d)
      BY <1>1, <1>4, OtherCpus
    <2>. QED  BY <2>1, <2>2, <1>1 DEF ProcState, SleepState, OnCpu, procvars
  <1>. QED  BY <1>1, <1>3, <1>4, <1>6, <1>7, <1>8, LocalStep

\* The scheduler loop of an idle CPU: where it is, and what the CPU is like.
LEMMA Idling ==
  ASSUME Inv, NEW c \in CPUs, proc[c] = None
  PROVE  Pos(c) = spc[c] /\ CpuState(c) /\ IntenaState(c) /\ proc[c] \notin Procs
  BY Nothing DEF Inv, Pos

\* The scheduler takes ptable.lock.
LEMMA SchedulerLockInv ==
  ASSUME Inv, NEW c \in CPUs, SchedulerLock(c)
  PROVE  Inv'
  <1>. USE DEF SchedulerLock, acquire
  <1>1. Pos(c) = "idle" /\ CpuState(c) /\ proc[c] \notin Procs /\ proc' = proc
    BY Idling
  <1>2. Pos(c)' = "scan"
    BY DEF Pos, Inv, TypeOK
  <1>3. TypeOK'
    BY DEF Inv, TypeOK, procvars
  <1>4. Local(c) /\ Quiet(c) /\ OneCpu'
    BY DEF Local, Quiet, OneCpu, Inv, TypeOK, procvars
  <1>5. CpuState(c)' /\ IntenaState(c)'
    BY <1>1, <1>2 DEF CpuState, IntenaState, PtablePlaces, TicksPlaces, AcquirePlaces, OpenPlaces, Inv,
                      TypeOK, Locks
  <1>. QED  BY <1>1, <1>2, <1>3, <1>4, <1>5, LocalStep

\* It passes over a process that cannot run.
LEMMA SchedulerSkipInv ==
  ASSUME Inv, NEW c \in CPUs, SchedulerSkip(c)
  PROVE  Inv'
  <1>. USE DEF SchedulerSkip
  <1>1. Pos(c) = "scan" /\ CpuState(c) /\ IntenaState(c) /\ proc[c] \notin Procs /\ proc' = proc
    BY Idling
  <1>2. Pos(c)' = Pos(c)
    BY StaysThere DEF procvars
  <1>3. TypeOK'
    BY DEF Inv, TypeOK, lockvars, procvars
  <1>4. Local(c) /\ Quiet(c) /\ OneCpu'
    BY DEF Local, Quiet, OneCpu, Inv, TypeOK, lockvars, procvars
  <1>5. CpuState(c)' /\ IntenaState(c)'
    BY <1>1, <1>2 DEF CpuState, IntenaState, lockvars, procvars
  <1>. QED  BY <1>1, <1>2, <1>3, <1>4, <1>5, LocalStep

\* It gives up ptable.lock at the end of the table.
LEMMA SchedulerUnlockInv ==
  ASSUME Inv, NEW c \in CPUs, SchedulerUnlock(c)
  PROVE  Inv'
  <1>. USE DEF SchedulerUnlock
  <1>1. Pos(c) = "scan" /\ CpuState(c) /\ proc[c] \notin Procs /\ proc' = proc
    BY Idling
  <1>2. Pos(c)' = "idle"
    BY DEF Pos, Inv, TypeOK
  <1>3. ncli[c] = 1 /\ holder["ptable"] = c /\ holder["ticks"] # c /\ ~spin[c]
    BY <1>1 DEF CpuState, PtablePlaces, TicksPlaces, AcquirePlaces
  <1>4. TypeOK'
    <2>1. ncli' \in [CPUs -> Nat] /\ iflag' \in [CPUs -> BOOLEAN]
      BY <1>3 DEF Inv, TypeOK
    <2>2. holder' \in [Locks -> CPUs \cup {None}] /\ spc' \in [CPUs -> {"idle", "scan"} \cup Handler]
      BY DEF Inv, TypeOK
    <2>. QED  BY <2>1, <2>2 DEF Inv, TypeOK, procvars
  <1>5. Local(c) /\ Quiet(c) /\ OneCpu'
    BY <1>3 DEF Local, Quiet, OneCpu, Inv, TypeOK, procvars, Locks
  <1>6. CpuState(c)' /\ IntenaState(c)'
    <2>1. ncli'[c] = 0 /\ holder'["ptable"] # c /\ holder'["ticks"] # c /\ ~spin'[c] /\ iflag'[c]
      BY <1>3, Nothing DEF Inv, TypeOK, Locks
    <2>. QED  BY <2>1, <1>2 DEF CpuState, IntenaState, PtablePlaces, TicksPlaces, AcquirePlaces, OpenPlaces
  <1>. QED  BY <1>1, <1>2, <1>4, <1>5, <1>6, LocalStep

\* It runs a process nobody else runs: a CPU in the middle of leaving that
\* process would hold ptable.lock.
LEMMA SchedulerRunInv ==
  ASSUME Inv, NEW c \in CPUs, SchedulerRun(c)
  PROVE  Inv'
  <1>1. PICK p \in Procs :
        /\ proc[c] = None /\ spc[c] = "scan" /\ state[p] = "RUNNABLE"
        /\ state' = [state EXCEPT ![p] = "RUNNING"] /\ proc' = [proc EXCEPT ![c] = p]
        /\ intena' = Restored(c, p)
        /\ UNCHANGED <<holder, ncli, iflag, spin, spc, idx, onticks, pc, saved, ret, need>>
    BY DEF SchedulerRun
  <1>2. Pos(c) = "scan" /\ CpuState(c) /\ proc[c] \notin Procs
    BY <1>1, Idling
  <1>3. ~OnCpu(p)
    <2>. SUFFICES ASSUME NEW d \in CPUs, proc[d] = p PROVE FALSE
      BY DEF OnCpu
    <2>1. Pos(d) = "sched" /\ CpuState(d)
      BY <1>1, RunningThread
    <2>. QED  BY <2>1, <1>1, <1>2 DEF CpuState, PtablePlaces
  <1>4. pc[p] \in Parked /\ (pc[p] = "s_wake" => saved[p]) /\ ret[p] \in Interruptible /\ SleepState(p)
    BY <1>1, <1>3 DEF Inv, ProcState
  <1>5. proc'[c] = p /\ OnCpu(p)' /\ Pos(c)' = pc[p] /\ state'[p] = "RUNNING"
    <2>1. proc'[c] = p /\ state'[p] = "RUNNING"
      BY <1>1 DEF Inv, TypeOK
    <2>2. OnCpu(p)'
      BY <2>1 DEF OnCpu
    <2>3. Pos(c)' = pc[p]
      BY <1>1, <2>1, Nothing DEF Pos
    <2>. QED  BY <2>1, <2>2, <2>3
  <1>6. TypeOK'
    BY <1>1 DEF Inv, TypeOK, States, Restored
  <1>7. Local(c) /\ Quiet(c) /\ OneCpu'
    <2>1. Local(c) /\ Quiet(c)
      BY <1>1 DEF Local, Quiet, Inv, TypeOK, Restored
    <2>2. OneCpu'
      BY <1>1, <1>3 DEF OneCpu, OnCpu, Inv, TypeOK
    <2>. QED  BY <2>1, <2>2
  <1>8. CpuState(c)'
    BY <1>1, <1>2, <1>4, <1>5 DEF CpuState, PtablePlaces, TicksPlaces, AcquirePlaces, OpenPlaces, Parked
  <1>9. IntenaState(c)'
    <2>1. pc[p] = "s_wake" => intena'[c]
      BY <1>1, <1>4 DEF Restored, Inv, TypeOK
    <2>. QED  BY <2>1, <1>4, <1>5 DEF IntenaState, Parked
  <1>10. ProcState(p)' /\ SleepState(p)'
    <2>1. pc'[p] = pc[p] /\ ret'[p] = ret[p] /\ onticks'[p] = onticks[p] /\ pc[p] # "sched"
      BY <1>1, <1>4 DEF Parked
    <2>2. ProcState(p)'
      BY <2>1, <1>4, <1>5 DEF ProcState
    <2>3. SleepState(p)'
      BY <2>1, <1>4, <1>5 DEF SleepState, Parked
    <2>. QED  BY <2>2, <2>3
  <1>11. \A q \in Procs : q \in {proc[c], proc'[c]} => ProcState(q)' /\ SleepState(q)'
    BY <1>2, <1>5, <1>10
  <1>12. Pos(c) # "h_wk"
    BY <1>2
  <1>. QED  BY <1>6, <1>7, <1>8, <1>9, <1>11, <1>12, LocalStep

\* The timer interrupts the scheduler loop, which holds no lock there.
LEMMA InterruptIdleInv ==
  ASSUME Inv, NEW c \in CPUs, InterruptIdle(c)
  PROVE  Inv'
  <1>. USE DEF InterruptIdle
  <1>1. Pos(c) = "idle" /\ CpuState(c) /\ proc[c] \notin Procs /\ proc' = proc
    BY Idling
  <1>2. Pos(c)' = "h_acq"
    BY DEF Pos, Inv, TypeOK
  <1>3. TypeOK'
    BY DEF Inv, TypeOK, Handler, procvars
  <1>4. Local(c) /\ Quiet(c) /\ OneCpu'
    BY DEF Local, Quiet, OneCpu, Inv, TypeOK, procvars
  <1>5. CpuState(c)' /\ IntenaState(c)'
    BY <1>1, <1>2 DEF CpuState, IntenaState, PtablePlaces, TicksPlaces, AcquirePlaces, OpenPlaces, Inv,
                      TypeOK
  <1>. QED  BY <1>1, <1>2, <1>3, <1>4, <1>5, LocalStep

\* A step of the handler moves the thread of its CPU, a process or the loop.
LEMMA HandlerMoves ==
  ASSUME Inv, NEW c \in CPUs, NEW b \in Handler \cup {"idle", "y_acq"}, HandlerGo(c, b), proc' = proc,
         proc[c] = None => b # "y_acq", proc[c] # None => b # "idle"
  PROVE  /\ Pos(c)' = b
         /\ \A d \in CPUs \ {c} : spc'[d] = spc[d]
         /\ \A q \in Procs \ {proc[c]} : pc'[q] = pc[q]
         /\ proc[c] # None => spc' = spc /\ pc'[proc[c]] = b
         /\ spc' \in [CPUs -> {"idle", "scan"} \cup Handler] /\ pc' \in [Procs -> PCs]
  BY Nothing DEF HandlerGo, Go, Inv, TypeOK, Pos, PCs, Handler

\* A handler finds its process running, with the timer's place to return to.
LEMMA InHandlerPos ==
  ASSUME Inv, NEW c \in CPUs, NEW a, InHandler(c, a)
  PROVE  /\ Pos(c) = a /\ CpuState(c) /\ IntenaState(c)
         /\ proc[c] # None =>
              /\ proc[c] \in Procs /\ SleepState(proc[c]) /\ pc[proc[c]] = a
              /\ OnCpu(proc[c]) /\ ret[proc[c]] \in Interruptible
              /\ a # "sched" => state[proc[c]] = "RUNNING"
  BY DEF InHandler, Pos, Inv, TypeOK, ProcState, OnCpu

\* The timer counts a tick: the sleepers whose time comes have a wakeup due.
LEMMA TickStartInv ==
  ASSUME Inv, NEW c \in CPUs, TickStart(c)
  PROVE  Inv'
  <1>. USE DEF TickStart, acquire
  <1>1. /\ Pos(c) = "h_acq" /\ CpuState(c) /\ IntenaState(c)
        /\ proc[c] # None => proc[c] \in Procs /\ pc[proc[c]] = "h_acq" /\ OnCpu(proc[c])
    BY InHandlerPos
  <1>2. /\ Pos(c)' = "h_wk"
        /\ \A d \in CPUs \ {c} : spc'[d] = spc[d]
        /\ \A q \in Procs \ {proc[c]} : pc'[q] = pc[q]
        /\ proc[c] # None => spc' = spc /\ pc'[proc[c]] = "h_wk"
        /\ spc' \in [CPUs -> {"idle", "scan"} \cup Handler] /\ pc' \in [Procs -> PCs]
    BY HandlerMoves DEF Handler
  <1>3. TypeOK'
    <2>1. need' \in [Procs -> 0..Sleep]
      BY SleepAssumption DEF Inv, TypeOK
    <2>. QED  BY <2>1, <1>2 DEF Inv, TypeOK
  <1>4. Local(c) /\ OneCpu'
    BY <1>2 DEF Local, OneCpu, Inv, TypeOK
  <1>5. CpuState(c)' /\ IntenaState(c)'
    BY <1>1, <1>2 DEF CpuState, IntenaState, PtablePlaces, TicksPlaces, AcquirePlaces, OpenPlaces, Inv,
                      TypeOK, Locks
  <1>6. ASSUME NEW q \in Procs PROVE ProcState(q)'
    <2>1. ProcState(q) /\ (OnCpu(q)' <=> OnCpu(q))
      BY DEF Inv, OnCpu
    <2>2. pc'[q] = pc[q] \/ (pc'[q] = "h_wk" /\ pc[q] = "h_acq" /\ OnCpu(q))
      <3>1. CASE q = proc[c]
        BY <3>1, <1>1, <1>2, Nothing
      <3>2. CASE q # proc[c]
        <4>1. q \in Procs \ {proc[c]}
          BY <3>2
        <4>. QED  BY <4>1, <1>2
      <3>. QED  BY <3>1, <3>2
    <2>. QED  BY <2>1, <2>2 DEF ProcState
  <1>7. ASSUME NEW q \in Procs PROVE SleepState(q)'
    <2>1. SleepState(q)
      BY DEF Inv
    <2>2. pc[q] \notin {"s_pt", "s_rel"}
      <3>. SUFFICES ASSUME pc[q] \in {"s_pt", "s_rel"} PROVE FALSE
        OBVIOUS
      <3>1. PICK d \in CPUs : proc[d] = q
        BY DEF Inv, ProcState, OnCpu, Parked
      <3>2. Pos(d) = pc[q] /\ CpuState(d)
        BY <3>1, RunningThread
      <3>. QED  BY <3>2, Nothing DEF CpuState, TicksPlaces
    <2>3. pc'[q] = pc[q] \/ (pc'[q] = "h_wk" /\ pc[q] = "h_acq")
      <3>1. CASE q = proc[c]
        BY <3>1, <1>1, <1>2, Nothing
      <3>2. CASE q # proc[c]
        <4>1. q \in Procs \ {proc[c]}
          BY <3>2
        <4>. QED  BY <4>1, <1>2
      <3>. QED  BY <3>1, <3>2
    <2>. QED  BY <1>2, <2>1, <2>2, <2>3 DEF SleepState
  <1>8. ASSUME NEW d \in CPUs PROVE CpuState(d)' /\ IntenaState(d)'
    BY <1>4, <1>5, OtherCpus
  <1>. QED  BY <1>3, <1>4, <1>6, <1>7, <1>8 DEF Inv

\* wakeup reaches every sleeper, so none is left whose time has come.
LEMMA WakeupInv ==
  ASSUME Inv, NEW c \in CPUs, wakeup(c)
  PROVE  Inv'
  <1>. USE DEF wakeup
  <1>1. /\ Pos(c) = "h_wk" /\ CpuState(c) /\ IntenaState(c)
        /\ proc[c] # None => proc[c] \in Procs /\ pc[proc[c]] = "h_wk" /\ OnCpu(proc[c])
    BY InHandlerPos
  <1>2. /\ Pos(c)' = "h_rel"
        /\ \A d \in CPUs \ {c} : spc'[d] = spc[d]
        /\ \A q \in Procs \ {proc[c]} : pc'[q] = pc[q]
        /\ proc[c] # None => spc' = spc /\ pc'[proc[c]] = "h_rel"
        /\ spc' \in [CPUs -> {"idle", "scan"} \cup Handler] /\ pc' \in [Procs -> PCs]
    BY HandlerMoves DEF Handler
  <1>3. ncli[c] = 2 /\ spin[c] /\ holder["ptable"] # c /\ holder["ticks"] = c
    BY <1>1 DEF CpuState, PtablePlaces, TicksPlaces
  <1>4. \A q \in Procs : state'[q] = IF state[q] = "SLEEPING" THEN "RUNNABLE" ELSE state[q]
    BY DEF Woken, Inv, SleepState
  <1>5. TypeOK'
    <2>1. state' \in [Procs -> States]
      BY DEF Woken, States, Inv, TypeOK
    <2>2. ncli' \in [CPUs -> Nat] /\ spin' \in [CPUs -> BOOLEAN]
      BY <1>3 DEF Inv, TypeOK
    <2>. QED  BY <2>1, <2>2, <1>2 DEF Inv, TypeOK
  <1>6. Local(c) /\ OneCpu'
    BY <1>2 DEF Local, OneCpu, Inv, TypeOK
  <1>7. CpuState(c)' /\ IntenaState(c)'
    <2>1. ncli'[c] = 1 /\ ~spin'[c]
      BY <1>3 DEF Inv, TypeOK
    <2>. QED  BY <2>1, <1>1, <1>2, <1>3 DEF CpuState, IntenaState, PtablePlaces, TicksPlaces, AcquirePlaces,
                                            OpenPlaces
  <1>8. ASSUME NEW q \in Procs PROVE ProcState(q)'
    <2>1. ProcState(q) /\ (OnCpu(q)' <=> OnCpu(q))
      BY DEF Inv, OnCpu
    <2>2. pc'[q] = pc[q] \/ (pc'[q] = "h_rel" /\ pc[q] = "h_wk" /\ OnCpu(q))
      <3>1. CASE q = proc[c]
        BY <3>1, <1>1, <1>2, Nothing
      <3>2. CASE q # proc[c]
        <4>1. q \in Procs \ {proc[c]}
          BY <3>2
        <4>. QED  BY <4>1, <1>2
      <3>. QED  BY <3>1, <3>2
    <2>. QED  BY <1>4, <2>1, <2>2 DEF ProcState
  <1>9. ASSUME NEW q \in Procs PROVE SleepState(q)'
    <2>1. SleepState(q)
      BY DEF Inv
    <2>2. pc'[q] = pc[q] \/ (pc'[q] = "h_rel" /\ pc[q] = "h_wk")
      <3>1. CASE q = proc[c]
        BY <3>1, <1>1, <1>2, Nothing
      <3>2. CASE q # proc[c]
        <4>1. q \in Procs \ {proc[c]}
          BY <3>2
        <4>. QED  BY <4>1, <1>2
      <3>. QED  BY <3>1, <3>2
    <2>. QED  BY <1>4, <2>1, <2>2 DEF SleepState
  <1>10. ASSUME NEW d \in CPUs PROVE CpuState(d)' /\ IntenaState(d)'
    BY <1>6, <1>7, OtherCpus
  <1>. QED  BY <1>5, <1>6, <1>8, <1>9, <1>10 DEF Inv

\* The handler ends with interrupts still off, if a process is to yield.
LEMMA TickEndInv ==
  ASSUME Inv, NEW c \in CPUs, TickEnd(c)
  PROVE  Inv'
  <1>. USE DEF TickEnd
  <1>. DEFINE b == IF proc[c] = None THEN "idle" ELSE "y_acq"
  <1>1. /\ Pos(c) = "h_rel" /\ CpuState(c) /\ IntenaState(c)
        /\ proc[c] # None => /\ proc[c] \in Procs /\ pc[proc[c]] = "h_rel" /\ OnCpu(proc[c])
                             /\ state[proc[c]] = "RUNNING" /\ SleepState(proc[c])
                             /\ ret[proc[c]] \in Interruptible
    BY InHandlerPos
  <1>2. /\ Pos(c)' = b
        /\ \A d \in CPUs \ {c} : spc'[d] = spc[d]
        /\ \A q \in Procs \ {proc[c]} : pc'[q] = pc[q]
        /\ proc[c] # None => spc' = spc /\ pc'[proc[c]] = "y_acq"
        /\ spc' \in [CPUs -> {"idle", "scan"} \cup Handler] /\ pc' \in [Procs -> PCs]
    BY HandlerMoves DEF Handler
  <1>3. ncli[c] = 1 /\ ~spin[c] /\ holder["ptable"] # c /\ holder["ticks"] = c /\ ~intena[c]
    BY <1>1 DEF CpuState, IntenaState, PtablePlaces, TicksPlaces, AcquirePlaces
  <1>. DEFINE f == (proc[c] = None) \/ (ncli[c] = 1 /\ intena[c])
  <1>a. f \in BOOLEAN /\ (f <=> proc[c] = None)
    BY <1>3
  <1>b. iflag' = [iflag EXCEPT ![c] = f]
    OBVIOUS
  <1>. HIDE DEF f
  <1>c. /\ iflag' \in [CPUs -> BOOLEAN] /\ iflag'[c] = f
        /\ \A d \in CPUs \ {c} : iflag'[d] = iflag[d]
    BY <1>a, <1>b DEF Inv, TypeOK
  <1>4. TypeOK'
    <2>1. holder' \in [Locks -> CPUs \cup {None}]
      BY DEF Inv, TypeOK
    <2>2. ncli' \in [CPUs -> Nat]
      BY <1>3 DEF Inv, TypeOK
    <2>. QED  BY <2>1, <2>2, <1>2, <1>c DEF Inv, TypeOK
  <1>5. Local(c) /\ Quiet(c) /\ OneCpu'
    <2>1. \A d \in CPUs \ {c} : ncli'[d] = ncli[d]
      BY DEF Inv, TypeOK
    <2>2. \A l \in Locks : holder'[l] = holder[l] \/ {holder[l], holder'[l]} = {None, c}
      BY <1>3 DEF Inv, TypeOK, Locks
    <2>3. Local(c) /\ Quiet(c)
      BY <1>2, <1>c, <2>1, <2>2 DEF Local, Quiet
    <2>4. OneCpu'
      <3>1. \A d \in CPUs : proc[d] # None => spc'[d] = "scan"
        BY <1>2 DEF OneCpu, Inv
      <3>. QED  BY <3>1 DEF OneCpu, Inv
    <2>. QED  BY <2>3, <2>4
  <1>6. CpuState(c)' /\ IntenaState(c)'
    <2>1. /\ ncli'[c] = 0 /\ ~spin'[c] /\ holder'["ptable"] # c /\ holder'["ticks"] # c
      BY <1>3, Nothing DEF Inv, TypeOK, Locks
    <2>. QED  BY <2>1, <1>2, <1>a, <1>c DEF CpuState, IntenaState, PtablePlaces, TicksPlaces, AcquirePlaces,
                                            OpenPlaces
  <1>7. ASSUME NEW q \in Procs, q = proc[c] PROVE ProcState(q)' /\ SleepState(q)'
    BY <1>1, <1>2, <1>7, Nothing DEF ProcState, SleepState, OnCpu
  <1>. QED  BY <1>1, <1>2, <1>4, <1>5, <1>6, <1>7, LocalStep

-----------------------------------------------------------------------------
\* All processes start in forkret, and all CPUs in their scheduler loop.
LEMMA InitInv == Init => Inv
  <1>. SUFFICES ASSUME Init PROVE Inv
    OBVIOUS
  <1>. USE DEF Init
  <1>1. TypeOK
    BY NPROCAssumption, SleepAssumption DEF TypeOK, PCs, States, Handler
  <1>2. OneCpu /\ \A c \in CPUs : Pos(c) = "idle"
    BY DEF OneCpu, Pos
  <1>3. \A c \in CPUs : CpuState(c) /\ IntenaState(c)
    BY <1>2, Nothing DEF CpuState, IntenaState, PtablePlaces, TicksPlaces, AcquirePlaces, OpenPlaces, Locks
  <1>4. \A p \in Procs : ProcState(p) /\ SleepState(p)
    BY Nothing DEF ProcState, SleepState, OnCpu, Parked, Interruptible
  <1>. QED  BY <1>1, <1>2, <1>3, <1>4 DEF Inv

\* Every step keeps the invariant.
LEMMA StepInv == Inv /\ [Next]_vars => Inv'
  <1>. SUFFICES ASSUME Inv, [Next]_vars PROVE Inv'
    OBVIOUS
  <1>1. CASE UNCHANGED vars
    <2>1. \A c \in CPUs : Pos(c)' = Pos(c)
      BY <1>1 DEF vars, cpuvars, procvars, Pos
    <2>2. \A p \in Procs : OnCpu(p)' <=> OnCpu(p)
      BY <1>1 DEF vars, cpuvars, OnCpu
    <2>. QED  BY <1>1, <2>1, <2>2 DEF vars, lockvars, cpuvars, procvars, Inv, TypeOK, OneCpu, CpuState,
                                      IntenaState, ProcState, SleepState
  <1>2. ASSUME NEW c \in CPUs, NEW p \in Procs, ThreadStep(c, p) PROVE Inv'
    BY <1>2, SleepStartInv, SleepTestInv, SleepDoneInv, SleepLockInv, SleepSetInv, SleepWakeInv,
       SleepReacquireInv, IretInv, YieldInv, YieldSetInv, YieldDoneInv, SchedInv, ForkretInv
       DEF ThreadStep, SleepStep
  <1>3. ASSUME NEW c \in CPUs, CpuStep(c) PROVE Inv'
    BY <1>2, <1>3, SchedulerLockInv, SchedulerSkipInv, SchedulerRunInv, SchedulerUnlockInv, PushcliInv,
       TickStartInv, WakeupInv, TickEndInv
       DEF CpuStep
  <1>4. ASSUME NEW c \in CPUs, Timer(c) PROVE Inv'
    BY <1>4, InterruptIdleInv, InterruptInv DEF Timer
  <1>5. ASSUME NEW c \in CPUs, NEW p \in Procs, SleepCall(c, p) PROVE Inv'
    BY <1>5, SleepCallInv
  <1>. QED  BY <1>1, <1>3, <1>4, <1>5 DEF Next

\* The invariant holds in every reachable state.
THEOREM InvHolds == Spec => []Inv
  BY InitInv, StepInv, PTL DEF Spec

\* The number of locks a CPU holds.
LEMMA LocksCounted ==
  ASSUME Inv, NEW c \in CPUs
  PROVE  Cardinality(HeldBy(c)) = (IF holder["ptable"] = c THEN 1 ELSE 0)
                                  + (IF holder["ticks"] = c THEN 1 ELSE 0)
  <1>1. Cardinality({}) = 0 /\ Cardinality({"ptable"}) = 1 /\ Cardinality({"ticks"}) = 1
    BY FS_EmptySet, FS_Singleton
  <1>2. Cardinality({"ptable", "ticks"}) = 2
    <2>1. IsFiniteSet({"ptable"}) /\ "ticks" \notin {"ptable"}
      BY FS_Singleton
    <2>2. Cardinality({"ptable"} \cup {"ticks"}) = Cardinality({"ptable"}) + 1
      BY <2>1, FS_AddElement
    <2>3. {"ptable"} \cup {"ticks"} = {"ptable", "ticks"}
      OBVIOUS
    <2>. QED  BY <2>2, <2>3, <1>1
  <1>3. CASE holder["ptable"] = c /\ holder["ticks"] = c
    <2>1. HeldBy(c) = {"ptable", "ticks"}
      BY <1>3 DEF HeldBy, Locks
    <2>. QED  BY <2>1, <1>2, <1>3
  <1>4. CASE holder["ptable"] = c /\ holder["ticks"] # c
    <2>1. HeldBy(c) = {"ptable"}
      BY <1>4 DEF HeldBy, Locks
    <2>. QED  BY <2>1, <1>1, <1>4
  <1>5. CASE holder["ptable"] # c /\ holder["ticks"] = c
    <2>1. HeldBy(c) = {"ticks"}
      BY <1>5 DEF HeldBy, Locks
    <2>. QED  BY <2>1, <1>1, <1>5
  <1>6. CASE holder["ptable"] # c /\ holder["ticks"] # c
    <2>1. HeldBy(c) = {}
      BY <1>6 DEF HeldBy, Locks
    <2>. QED  BY <2>1, <1>1, <1>6
  <1>. QED  BY <1>3, <1>4, <1>5, <1>6

\* pushcli and popcli do what they are for, on any number of CPUs: the nesting
\* depth is the number of locks held or awaited, a CPU with a lock is not
\* interrupted, no handler waits for a lock of the code it interrupted, and
\* sched is entered with ptable.lock only.
THEOREM LocksAreDisciplined == Spec => []LockDiscipline
  <1>1. ASSUME Inv PROVE LockDiscipline
    <2>1. \A c \in CPUs : CpuState(c) /\ TypeOK
      BY <1>1 DEF Inv
    <2>2. NcliCountsLocks
      BY <1>1, <2>1, LocksCounted DEF NcliCountsLocks, CpuState
    <2>3. LocksMaskInterrupts
      BY <2>1 DEF LocksMaskInterrupts, HeldBy, Locks, CpuState, PtablePlaces, TicksPlaces, OpenPlaces
    <2>4. NoSelfDeadlock
      <3>. SUFFICES ASSUME NEW c \in CPUs, NEW l \in Wanted(c) PROVE holder[l] # c
        BY DEF NoSelfDeadlock
      <3>1. \/ l = "ticks" /\ Pos(c) \in {"s_acq", "s_reacq", "h_acq"}
            \/ l = "ptable" /\ Pos(c) \in {"s_pt", "y_acq", "h_wk", "idle"}
        BY DEF Wanted, Pos
      <3>. QED  BY <2>1, <3>1 DEF CpuState, PtablePlaces, TicksPlaces
    <2>5. SchedPreconditions
      <3>. SUFFICES ASSUME NEW c \in CPUs, proc[c] # None, pc[proc[c]] = "sched"
                    PROVE  /\ holder["ptable"] = c /\ ncli[c] = 1
                           /\ state[proc[c]] # "RUNNING" /\ ~iflag[c]
        BY DEF SchedPreconditions
      <3>1. proc[c] \in Procs
        BY <2>1 DEF TypeOK
      <3>2. Pos(c) = "sched" /\ state[proc[c]] # "RUNNING"
        BY <1>1, <3>1, RunningThread
      <3>. QED  BY <2>1, <3>2 DEF CpuState, PtablePlaces, TicksPlaces, AcquirePlaces, OpenPlaces
    <2>. QED  BY <2>1, <2>2, <2>3, <2>4, <2>5, CpuAssumption DEF LockDiscipline
  <1>. QED  BY <1>1, InvHolds, PTL

\* No process is ever on two CPUs, and none is marked RUNNING without one.
THEOREM OneCpuEach == Spec => []OneCpuPerProcess
  <1>1. Inv => OneCpuPerProcess
    BY DEF Inv, OneCpu, ProcState, OnCpu, OneCpuPerProcess
  <1>. QED  BY <1>1, InvHolds, PTL

\* No sleeper is forgotten: sleep takes ptable.lock before it releases tickslock.
THEOREM WakeupsArrive == Spec => []NoLostWakeup
  <1>1. Inv => NoLostWakeup
    BY DEF Inv, SleepState, Pos, InHandler, NoLostWakeup
  <1>. QED  BY <1>1, InvHolds, PTL

\* cpu->intena is the thread's own: who came in with interrupts enabled has them
\* enabled again when the last lock is released, on whatever CPU that happens.
THEOREM FlagsAreRestored == Spec => []InterruptsRestored
  <1>1. ASSUME Inv PROVE InterruptsRestored
    <2>. SUFFICES ASSUME NEW c \in CPUs, NEW p \in Procs, proc[c] = p,
                         pc[p] \in {"user", "kern", "s_acq", "s_reacq"}
                  PROVE  iflag[c] \/ spin[c]
      BY DEF InterruptsRestored
    <2>. QED  BY <1>1, RunningThread DEF CpuState, OpenPlaces
  <1>. QED  BY <1>1, InvHolds, PTL

-----------------------------------------------------------------------------
(* Proc: the life cycle of processes *)

\* What a fork in progress has made of the slot it claimed: memory and parent
\* are those of the place the forking process has reached.
ForkPlace(p) ==
  /\ child[p] # NoSlot => state[p] = "RUNNABLE" /\ at[p] \in Forking
  /\ state[p] = "RUNNABLE" /\ at[p] \in Forking =>
       /\ at[p] = "stack" => mem[child[p]] = {} /\ parent[child[p]] = NoSlot
       /\ at[p] = "copy" => mem[child[p]] = {"kstack"} /\ parent[child[p]] = NoSlot
       /\ at[p] = "start" => mem[child[p]] = {"kstack", "pgdir"} /\ parent[child[p]] = p
ForkState == \A p \in Slots : ForkPlace(p)

\* Sleepers are in wait, each on its own channel; a free slot has no parent;
\* init is there, and has no parent either.
SlotState ==
  /\ \A s \in Slots : state[s] = "SLEEPING" => at[s] = "wait" /\ chan[s] = s
  /\ \A s \in Slots : state[s] = "UNUSED" => parent[s] = NoSlot
  /\ \A s \in Slots : parent[s] # s
  /\ state[initproc] \in Live /\ parent[initproc] = NoSlot

\* The inductive invariant.
ProcInv == /\ ProcTypeOK /\ EmbryoOwned /\ MemoryOwned /\ ParentAlive /\ WaiterHasWork
           /\ ForkState /\ SlotState

\* userinit leaves a table with init in it.
LEMMA ProcStart == ProcInit => ProcInv
  <1>. SUFFICES ASSUME ProcInit PROVE ProcInv
    OBVIOUS
  <1>. USE NPROCAssumption DEF ProcInit, Slots, initproc, NoSlot
  <1>1. ProcTypeOK
    BY DEF ProcTypeOK, SlotStates, Places
  <1>2. EmbryoOwned /\ ForkState
    BY DEF EmbryoOwned, ForkState, ForkPlace, Forking
  <1>3. MemoryOwned /\ ParentAlive
    BY DEF MemoryOwned, ParentAlive, Live
  <1>4. WaiterHasWork /\ SlotState
    BY DEF WaiterHasWork, SlotState, Live
  <1>. QED  BY <1>1, <1>2, <1>3, <1>4 DEF ProcInv

-----------------------------------------------------------------------------
\* A process that is not in the middle of fork has no slot in the making.
LEMMA NotForking ==
  ASSUME ProcInv, NEW p \in Slots, at[p] \notin Forking
  PROVE  child[p] = NoSlot
  BY DEF ProcInv, ForkState, ForkPlace

\* The slot a fork works on is EMBRYO.
LEMMA ChildIsEmbryo ==
  ASSUME ProcInv, NEW p \in Slots, child[p] # NoSlot
  PROVE  child[p] \in Slots /\ state[child[p]] = "EMBRYO"
  BY DEF ProcInv, ForkState, ForkPlace, EmbryoOwned

\* allocproc claims the slot for p alone.
LEMMA AllocprocInv ==
  ASSUME ProcInv, NEW p \in Slots, allocproc(p)
  PROVE  ProcInv'
  <1>0. PICK s \in Slots : /\ state[s] = "UNUSED" /\ state' = [state EXCEPT ![s] = "EMBRYO"]
                           /\ child' = [child EXCEPT ![p] = s]
    BY DEF allocproc, Claimed
  <1>a. \A q \in Slots : child[q] # s
    BY <1>0, ChildIsEmbryo DEF NoSlot, Slots
  <1>. USE NPROCAssumption DEF allocproc, ProcInv, ProcTypeOK, FreshPid, Syscall, Here, GoTo, Slots, initproc, NoSlot
  <1>1. ProcTypeOK'
    BY <1>0 DEF SlotStates, Places
  <1>2. EmbryoOwned'
    <2>2. \A q \in Slots : q # s /\ q # p => state'[q] = state[q] /\ at'[q] = at[q]
      BY <1>0
    <2>3. p # s /\ child[p] = NoSlot /\ child'[p] = s /\ state'[s] = "EMBRYO"
      BY <1>0, NotForking DEF Forking
    <2>. QED  BY <1>0, <1>a, <2>2, <2>3 DEF EmbryoOwned
  <1>3. MemoryOwned'
    BY <1>0 DEF MemoryOwned, Live
  <1>4. ParentAlive'
    BY <1>0 DEF ParentAlive, Live
  <1>5. WaiterHasWork'
    BY <1>0 DEF WaiterHasWork, Children, Zombies
  <1>6. ForkState'
    <2>. SUFFICES ASSUME NEW q \in Slots PROVE ForkPlace(q)'
      BY DEF ForkState
    <2>1. CASE q = p
      BY <2>1, <1>0 DEF Forking, ForkPlace, SlotState, MemoryOwned
    <2>2. CASE q # p
      BY <2>2, <1>0 DEF ForkState, EmbryoOwned, Forking, ForkPlace
    <2>. QED  BY <2>1, <2>2
  <1>7. SlotState'
    BY <1>0 DEF SlotState, Live
  <1>. QED  BY <1>1, <1>2, <1>3, <1>4, <1>5, <1>6, <1>7 DEF ProcInv

\* Without a stack the slot goes back as it was.
LEMMA NoStackInv ==
  ASSUME ProcInv, NEW p \in Slots, NoStack(p)
  PROVE  ProcInv'
  <1>. USE NPROCAssumption DEF NoStack, ProcInv, ProcTypeOK, Here, GoTo, Return, Slots, initproc, NoSlot
  <1>1. ProcTypeOK'
    BY DEF SlotStates, Places
  <1>2. EmbryoOwned'
    BY DEF EmbryoOwned, Forking, ForkState, ForkPlace
  <1>3. MemoryOwned'
    BY DEF MemoryOwned, Live, EmbryoOwned, ForkState, ForkPlace, Forking
  <1>4. ParentAlive'
    BY DEF ParentAlive, EmbryoOwned, ForkState, ForkPlace, Live, SlotState, Forking
  <1>5. WaiterHasWork'
    BY DEF WaiterHasWork, EmbryoOwned, ForkState, ForkPlace, Forking, SlotState, Children, Zombies
  <1>6. ForkState'
    <2>. SUFFICES ASSUME NEW q \in Slots PROVE ForkPlace(q)'
      BY DEF ForkState
    <2>1. CASE q = p
      BY <2>1 DEF ForkState, EmbryoOwned, Forking, ForkPlace, SlotState
    <2>2. CASE q # p
      BY <2>2 DEF ForkState, EmbryoOwned, Forking, ForkPlace, SlotState
    <2>. QED  BY <2>1, <2>2
  <1>7. SlotState'
    BY DEF SlotState, EmbryoOwned, ForkState, ForkPlace, Forking, Live
  <1>. QED  BY <1>1, <1>2, <1>3, <1>4, <1>5, <1>6, <1>7 DEF ProcInv

\* The slot gets its kernel stack.
LEMMA GotStackInv ==
  ASSUME ProcInv, NEW p \in Slots, GotStack(p)
  PROVE  ProcInv'
  <1>. USE NPROCAssumption DEF GotStack, ProcInv, ProcTypeOK, Here, GoTo, Return, Slots, initproc, NoSlot
  <1>1. ProcTypeOK'
    BY DEF SlotStates, Places
  <1>2. EmbryoOwned'
    BY DEF EmbryoOwned, Forking, ForkState, ForkPlace
  <1>3. MemoryOwned'
    BY DEF MemoryOwned, Live, EmbryoOwned, ForkState, ForkPlace, Forking
  <1>4. ParentAlive'
    BY DEF ParentAlive, EmbryoOwned, ForkState, ForkPlace, Live, SlotState, Forking
  <1>5. WaiterHasWork'
    BY DEF WaiterHasWork, EmbryoOwned, ForkState, ForkPlace, Forking, SlotState, Children, Zombies
  <1>6. ForkState'
    <2>. SUFFICES ASSUME NEW q \in Slots PROVE ForkPlace(q)'
      BY DEF ForkState
    <2>1. CASE q = p
      BY <2>1 DEF ForkState, EmbryoOwned, Forking, ForkPlace, SlotState
    <2>2. CASE q # p
      BY <2>2 DEF ForkState, EmbryoOwned, Forking, ForkPlace, SlotState
    <2>. QED  BY <2>1, <2>2
  <1>7. SlotState'
    BY DEF SlotState, EmbryoOwned, ForkState, ForkPlace, Forking, Live
  <1>. QED  BY <1>1, <1>2, <1>3, <1>4, <1>5, <1>6, <1>7 DEF ProcInv

\* copyuvm has failed: stack and slot are given back.
LEMMA CopyFailsInv ==
  ASSUME ProcInv, NEW p \in Slots, CopyFails(p)
  PROVE  ProcInv'
  <1>. USE NPROCAssumption DEF CopyFails, ProcInv, ProcTypeOK, Undone, Here, GoTo, Return, Slots, initproc, NoSlot
  <1>1. ProcTypeOK'
    BY DEF SlotStates, Places
  <1>2. EmbryoOwned'
    BY DEF EmbryoOwned, Forking, ForkState, ForkPlace
  <1>3. MemoryOwned'
    BY DEF MemoryOwned, Live, EmbryoOwned, ForkState, ForkPlace, Forking
  <1>4. ParentAlive'
    BY DEF ParentAlive, EmbryoOwned, ForkState, ForkPlace, Live, SlotState, Forking
  <1>5. WaiterHasWork'
    BY DEF WaiterHasWork, EmbryoOwned, ForkState, ForkPlace, Forking, SlotState, Children, Zombies
  <1>6. ForkState'
    <2>. SUFFICES ASSUME NEW q \in Slots PROVE ForkPlace(q)'
      BY DEF ForkState
    <2>1. CASE q = p
      BY <2>1 DEF ForkState, EmbryoOwned, Forking, ForkPlace, SlotState
    <2>2. CASE q # p
      BY <2>2 DEF ForkState, EmbryoOwned, Forking, ForkPlace, SlotState
    <2>. QED  BY <2>1, <2>2
  <1>7. SlotState'
    BY DEF SlotState, EmbryoOwned, ForkState, ForkPlace, Forking, Live
  <1>. QED  BY <1>1, <1>2, <1>3, <1>4, <1>5, <1>6, <1>7 DEF ProcInv

\* The slot gets its page table and its parent.
LEMMA CopyInv ==
  ASSUME ProcInv, NEW p \in Slots, Copy(p)
  PROVE  ProcInv'
  <1>. USE NPROCAssumption DEF Copy, ProcInv, ProcTypeOK, Here, GoTo, Return, Slots, initproc, NoSlot
  <1>1. ProcTypeOK'
    BY DEF SlotStates, Places
  <1>2. EmbryoOwned'
    BY DEF EmbryoOwned, Forking, ForkState, ForkPlace
  <1>3. MemoryOwned'
    BY DEF MemoryOwned, Live, EmbryoOwned, ForkState, ForkPlace, Forking
  <1>4. ParentAlive'
    BY DEF ParentAlive, EmbryoOwned, ForkState, ForkPlace, Live, SlotState, Forking
  <1>5. WaiterHasWork'
    BY DEF WaiterHasWork, EmbryoOwned, ForkState, ForkPlace, Forking, SlotState, Children, Zombies
  <1>6. ForkState'
    <2>. SUFFICES ASSUME NEW q \in Slots PROVE ForkPlace(q)'
      BY DEF ForkState
    <2>1. CASE q = p
      BY <2>1 DEF ForkState, EmbryoOwned, Forking, ForkPlace, SlotState
    <2>2. CASE q # p
      BY <2>2 DEF ForkState, EmbryoOwned, Forking, ForkPlace, SlotState
    <2>. QED  BY <2>1, <2>2
  <1>7. SlotState'
    BY DEF SlotState, EmbryoOwned, ForkState, ForkPlace, Forking, Live
  <1>. QED  BY <1>1, <1>2, <1>3, <1>4, <1>5, <1>6, <1>7 DEF ProcInv

\* The child starts as a child of a live process.
LEMMA ForkInv ==
  ASSUME ProcInv, NEW p \in Slots, fork(p)
  PROVE  ProcInv'
  <1>. USE NPROCAssumption DEF fork, ProcInv, ProcTypeOK, Here, GoTo, Return, Slots, initproc, NoSlot
  <1>1. ProcTypeOK'
    BY DEF SlotStates, Places
  <1>2. EmbryoOwned'
    BY DEF EmbryoOwned, Forking, ForkState, ForkPlace
  <1>3. MemoryOwned'
    BY DEF MemoryOwned, Live, EmbryoOwned, ForkState, ForkPlace, Forking
  <1>4. ParentAlive'
    BY DEF ParentAlive, EmbryoOwned, ForkState, ForkPlace, Live, SlotState, Forking
  <1>5. WaiterHasWork'
    BY DEF WaiterHasWork, EmbryoOwned, ForkState, ForkPlace, Forking, SlotState, Children, Zombies
  <1>6. ForkState'
    <2>. SUFFICES ASSUME NEW q \in Slots PROVE ForkPlace(q)'
      BY DEF ForkState
    <2>1. CASE q = p
      BY <2>1 DEF ForkState, EmbryoOwned, Forking, ForkPlace, SlotState
    <2>2. CASE q # p
      BY <2>2 DEF ForkState, EmbryoOwned, Forking, ForkPlace, SlotState
    <2>. QED  BY <2>1, <2>2
  <1>7. SlotState'
    BY DEF SlotState, EmbryoOwned, ForkState, ForkPlace, Forking, Live
  <1>. QED  BY <1>1, <1>2, <1>3, <1>4, <1>5, <1>6, <1>7 DEF ProcInv

\* A process on its way to exit keeps what it has.
LEMMA ExitCallInv ==
  ASSUME ProcInv, NEW p \in Slots, ExitCall(p)
  PROVE  ProcInv'
  <1>. USE NPROCAssumption DEF ExitCall, ProcInv, ProcTypeOK, fields, Here, GoTo, Return, Slots, initproc, NoSlot
  <1>1. ProcTypeOK'
    BY DEF SlotStates, Places
  <1>2. EmbryoOwned'
    BY DEF EmbryoOwned, Forking, ForkState, ForkPlace
  <1>3. MemoryOwned'
    BY DEF MemoryOwned, Live, EmbryoOwned, ForkState, ForkPlace, Forking
  <1>4. ParentAlive'
    BY DEF ParentAlive, EmbryoOwned, ForkState, ForkPlace, Live, SlotState, Forking
  <1>5. WaiterHasWork'
    BY DEF WaiterHasWork, EmbryoOwned, ForkState, ForkPlace, Forking, SlotState, Children, Zombies
  <1>6. ForkState'
    <2>. SUFFICES ASSUME NEW q \in Slots PROVE ForkPlace(q)'
      BY DEF ForkState
    <2>1. CASE q = p
      BY <2>1, NotForking DEF Forking, ForkPlace
    <2>2. CASE q # p
      BY <2>2 DEF ForkState, EmbryoOwned, Forking, ForkPlace, SlotState
    <2>. QED  BY <2>1, <2>2
  <1>7. SlotState'
    BY DEF SlotState, EmbryoOwned, ForkState, ForkPlace, Forking, Live
  <1>. QED  BY <1>1, <1>2, <1>3, <1>4, <1>5, <1>6, <1>7 DEF ProcInv

\* So does one that trap kills.
LEMMA FaultInv ==
  ASSUME ProcInv, NEW p \in Slots, Fault(p)
  PROVE  ProcInv'
  <1>. USE NPROCAssumption DEF Fault, ProcInv, ProcTypeOK, Here, GoTo, Return, Slots, initproc, NoSlot
  <1>1. ProcTypeOK'
    BY DEF SlotStates, Places
  <1>2. EmbryoOwned'
    BY DEF EmbryoOwned, Forking, ForkState, ForkPlace
  <1>3. MemoryOwned'
    BY DEF MemoryOwned, Live, EmbryoOwned, ForkState, ForkPlace, Forking
  <1>4. ParentAlive'
    BY DEF ParentAlive, EmbryoOwned, ForkState, ForkPlace, Live, SlotState, Forking
  <1>5. WaiterHasWork'
    BY DEF WaiterHasWork, EmbryoOwned, ForkState, ForkPlace, Forking, SlotState, Children, Zombies
  <1>6. ForkState'
    <2>. SUFFICES ASSUME NEW q \in Slots PROVE ForkPlace(q)'
      BY DEF ForkState
    <2>1. CASE q = p
      BY <2>1, NotForking DEF Forking, ForkPlace
    <2>2. CASE q # p
      BY <2>2 DEF ForkState, EmbryoOwned, Forking, ForkPlace, SlotState
    <2>. QED  BY <2>1, <2>2
  <1>7. SlotState'
    BY DEF SlotState, EmbryoOwned, ForkState, ForkPlace, Forking, Live
  <1>. QED  BY <1>1, <1>2, <1>3, <1>4, <1>5, <1>6, <1>7 DEF ProcInv

\* init stops in panic, and stays where it is.
LEMMA ExitPanicInv ==
  ASSUME ProcInv, NEW p \in Slots, ExitPanic(p)
  PROVE  ProcInv'
  <1>. USE NPROCAssumption DEF ExitPanic, ProcInv, ProcTypeOK, fields, Here, GoTo, Return, Slots, initproc, NoSlot
  <1>1. ProcTypeOK'
    BY DEF SlotStates, Places
  <1>2. EmbryoOwned'
    BY DEF EmbryoOwned, Forking, ForkState, ForkPlace
  <1>3. MemoryOwned'
    BY DEF MemoryOwned, Live, EmbryoOwned, ForkState, ForkPlace, Forking
  <1>4. ParentAlive'
    BY DEF ParentAlive, EmbryoOwned, ForkState, ForkPlace, Live, SlotState, Forking
  <1>5. WaiterHasWork'
    BY DEF WaiterHasWork, EmbryoOwned, ForkState, ForkPlace, Forking, SlotState, Children, Zombies
  <1>6. ForkState'
    <2>. SUFFICES ASSUME NEW q \in Slots PROVE ForkPlace(q)'
      BY DEF ForkState
    <2>1. CASE q = p
      BY <2>1, NotForking DEF Forking, ForkPlace
    <2>2. CASE q # p
      BY <2>2 DEF ForkState, EmbryoOwned, Forking, ForkPlace, SlotState
    <2>. QED  BY <2>1, <2>2
  <1>7. SlotState'
    BY DEF SlotState, EmbryoOwned, ForkState, ForkPlace, Forking, Live
  <1>. QED  BY <1>1, <1>2, <1>3, <1>4, <1>5, <1>6, <1>7 DEF ProcInv

\* exit hands the children over and wakes the parent, and init when it is given
\* a zombie.
LEMMA ExitInv ==
  ASSUME ProcInv, NEW p \in Slots, exit(p)
  PROVE  ProcInv'
  <1>. USE NPROCAssumption DEF exit, ProcInv, ProcTypeOK, Here, Slots, initproc, NoSlot
  <1>a. state' \in [Slots -> SlotStates] /\ state'[p] = "ZOMBIE"
    BY DEF Told, wakeup1, SlotStates
  <1>b. \A s \in Slots : s # p =>
           \/ state'[s] = state[s]
           \/ state[s] = "SLEEPING" /\ state'[s] = "RUNNABLE"
    BY DEF Told, wakeup1
  <1>c. \A s \in Slots : s # p /\ s = parent[p] => state'[s] # "SLEEPING"
    BY DEF Told, wakeup1, SlotState
  <1>d. (\E s \in Slots : parent[s] = p /\ state[s] = "ZOMBIE") => state'[initproc] # "SLEEPING"
    BY DEF Told, wakeup1, SlotState
  <1>e. \A s \in Slots : /\ parent[s] = p => parent'[s] = initproc
                         /\ parent[s] # p => parent'[s] = parent[s]
    BY DEF Adopted
  <1>f. child[p] = NoSlot
    BY NotForking DEF Forking
  <1>1. ProcTypeOK'
    BY <1>a DEF Adopted
  <1>2. EmbryoOwned'
    <2>1. \A s \in Slots : state'[s] = "EMBRYO" <=> state[s] = "EMBRYO"
      BY <1>a, <1>b
    <2>2. \A s \in Slots : at[s] \in Forking => state[s] # "SLEEPING"
      BY DEF SlotState, Forking
    <2>. QED  BY <1>a, <1>b, <2>1, <2>2 DEF EmbryoOwned, Forking
  <1>3. MemoryOwned'
    BY <1>a, <1>b DEF MemoryOwned, Live
  <1>4. ParentAlive'
    <2>. SUFFICES ASSUME NEW s \in Slots, s # initproc, state'[s] \in Live \cup {"ZOMBIE"}
                  PROVE  parent'[s] \in Slots /\ state'[parent'[s]] \in Live
      BY DEF ParentAlive
    <2>1. parent[s] \in Slots /\ state[parent[s]] \in Live
      BY <1>a, <1>b DEF ParentAlive, Live
    <2>2. CASE parent[s] = p
      BY <2>2, <1>b, <1>e DEF SlotState, Live
    <2>3. CASE parent[s] # p
      BY <2>1, <2>3, <1>b, <1>e DEF Live
    <2>. QED  BY <2>2, <2>3
  <1>5. WaiterHasWork'
    <2>. SUFFICES ASSUME NEW q \in Slots, state'[q] = "SLEEPING", at[q] = "wait"
                  PROVE  Children(q)' # {} /\ Zombies(q)' = {} /\ ~killed[q]
      BY DEF WaiterHasWork
    <2>1. q # p /\ state[q] = "SLEEPING" /\ q # parent[p]
      BY <1>a, <1>b, <1>c
    <2>2. Children(q) # {} /\ Zombies(q) = {} /\ ~killed[q]
      BY <2>1 DEF WaiterHasWork
    <2>3. Children(q) \subseteq Children(q)'
      BY <2>1, <1>e DEF Children
    <2>4. ASSUME NEW s \in Slots, parent'[s] = q, state'[s] = "ZOMBIE" PROVE FALSE
      <3>1. s # p
        BY <2>1, <2>4, <1>e DEF SlotState
      <3>2. state[s] = "ZOMBIE"
        BY <2>4, <3>1, <1>b
      <3>3. CASE parent[s] = p
        BY <3>2, <3>3, <2>4, <1>d, <1>e
      <3>4. CASE parent[s] # p
        BY <3>2, <3>4, <2>4, <2>2, <1>e DEF Zombies, Children
      <3>. QED  BY <3>3, <3>4
    <2>. QED  BY <2>2, <2>3, <2>4 DEF Zombies, Children
  <1>6. ForkState'
    <2>. SUFFICES ASSUME NEW q \in Slots PROVE ForkPlace(q)'
      BY DEF ForkState
    <2>1. CASE q = p
      BY <2>1, <1>a, <1>f DEF ForkPlace
    <2>2. CASE q # p
      BY <2>2, <1>b, <1>e DEF ForkState, ForkPlace, EmbryoOwned, SlotState, Forking
    <2>. QED  BY <2>1, <2>2
  <1>7. SlotState'
    BY <1>a, <1>b, <1>e DEF SlotState, Live
  <1>. QED  BY <1>1, <1>2, <1>3, <1>4, <1>5, <1>6, <1>7 DEF ProcInv

\* Entering wait changes no slot.
LEMMA WaitCallInv ==
  ASSUME ProcInv, NEW p \in Slots, WaitCall(p)
  PROVE  ProcInv'
  <1>. USE NPROCAssumption DEF WaitCall, ProcInv, ProcTypeOK, Syscall, fields, Here, GoTo, Return, Slots, initproc, NoSlot
  <1>1. ProcTypeOK'
    BY DEF SlotStates, Places
  <1>2. EmbryoOwned'
    BY DEF EmbryoOwned, Forking, ForkState, ForkPlace
  <1>3. MemoryOwned'
    BY DEF MemoryOwned, Live, EmbryoOwned, ForkState, ForkPlace, Forking
  <1>4. ParentAlive'
    BY DEF ParentAlive, EmbryoOwned, ForkState, ForkPlace, Live, SlotState, Forking
  <1>5. WaiterHasWork'
    BY DEF WaiterHasWork, EmbryoOwned, ForkState, ForkPlace, Forking, SlotState, Children, Zombies
  <1>6. ForkState'
    <2>. SUFFICES ASSUME NEW q \in Slots PROVE ForkPlace(q)'
      BY DEF ForkState
    <2>1. CASE q = p
      BY <2>1, NotForking DEF Forking, ForkPlace
    <2>2. CASE q # p
      BY <2>2 DEF ForkState, EmbryoOwned, Forking, ForkPlace, SlotState
    <2>. QED  BY <2>1, <2>2
  <1>7. SlotState'
    BY DEF SlotState, EmbryoOwned, ForkState, ForkPlace, Forking, Live
  <1>. QED  BY <1>1, <1>2, <1>3, <1>4, <1>5, <1>6, <1>7 DEF ProcInv

\* Reaping a zombie takes no child and no parent away from anybody else.
LEMMA WaitReapInv ==
  ASSUME ProcInv, NEW p \in Slots, WaitReap(p)
  PROVE  ProcInv'
  <1>. USE NPROCAssumption DEF WaitReap, ProcInv, ProcTypeOK, Zombies, Children, Here, GoTo, Return, Slots, initproc, NoSlot
  <1>1. ProcTypeOK'
    BY DEF SlotStates, Places
  <1>2. EmbryoOwned'
    BY DEF EmbryoOwned, Forking, ForkState, ForkPlace
  <1>3. MemoryOwned'
    BY DEF MemoryOwned, Live, EmbryoOwned, ForkState, ForkPlace, Forking
  <1>4. ParentAlive'
    BY DEF ParentAlive, EmbryoOwned, ForkState, ForkPlace, Live, SlotState, Forking
  <1>5. WaiterHasWork'
    BY DEF WaiterHasWork, EmbryoOwned, ForkState, ForkPlace, Forking, SlotState
  <1>6. ForkState'
    <2>. SUFFICES ASSUME NEW q \in Slots PROVE ForkPlace(q)'
      BY DEF ForkState
    <2>1. CASE q = p
      BY <2>1, NotForking DEF Forking, ForkPlace
    <2>2. CASE q # p
      BY <2>2 DEF ForkState, EmbryoOwned, Forking, ForkPlace, SlotState
    <2>. QED  BY <2>1, <2>2
  <1>7. SlotState'
    BY DEF SlotState, EmbryoOwned, ForkState, ForkPlace, Forking, Live
  <1>. QED  BY <1>1, <1>2, <1>3, <1>4, <1>5, <1>6, <1>7 DEF ProcInv

\* wait returns -1.
LEMMA WaitNoneInv ==
  ASSUME ProcInv, NEW p \in Slots, WaitNone(p)
  PROVE  ProcInv'
  <1>. USE NPROCAssumption DEF WaitNone, ProcInv, ProcTypeOK, Zombies, Children, Here, GoTo, Return, Slots, initproc, NoSlot
  <1>1. ProcTypeOK'
    BY DEF SlotStates, Places
  <1>2. EmbryoOwned'
    BY DEF EmbryoOwned, Forking, ForkState, ForkPlace
  <1>3. MemoryOwned'
    BY DEF MemoryOwned, Live, EmbryoOwned, ForkState, ForkPlace, Forking
  <1>4. ParentAlive'
    BY DEF ParentAlive, EmbryoOwned, ForkState, ForkPlace, Live, SlotState, Forking
  <1>5. WaiterHasWork'
    BY DEF WaiterHasWork, EmbryoOwned, ForkState, ForkPlace, Forking, SlotState
  <1>6. ForkState'
    <2>. SUFFICES ASSUME NEW q \in Slots PROVE ForkPlace(q)'
      BY DEF ForkState
    <2>1. CASE q = p
      BY <2>1, NotForking DEF Forking, ForkPlace
    <2>2. CASE q # p
      BY <2>2 DEF ForkState, EmbryoOwned, Forking, ForkPlace, SlotState
    <2>. QED  BY <2>1, <2>2
  <1>7. SlotState'
    BY DEF SlotState, EmbryoOwned, ForkState, ForkPlace, Forking, Live
  <1>. QED  BY <1>1, <1>2, <1>3, <1>4, <1>5, <1>6, <1>7 DEF ProcInv

\* The test that precedes the sleep is still true after it.
LEMMA WaitSleepInv ==
  ASSUME ProcInv, NEW p \in Slots, WaitSleep(p)
  PROVE  ProcInv'
  <1>. USE NPROCAssumption DEF WaitSleep, ProcInv, ProcTypeOK, Zombies, Children, Here, GoTo, Return, Slots, initproc, NoSlot
  <1>1. ProcTypeOK'
    BY DEF SlotStates, Places
  <1>2. EmbryoOwned'
    BY DEF EmbryoOwned, Forking, ForkState, ForkPlace
  <1>3. MemoryOwned'
    BY DEF MemoryOwned, Live, EmbryoOwned, ForkState, ForkPlace, Forking
  <1>4. ParentAlive'
    BY DEF ParentAlive, EmbryoOwned, ForkState, ForkPlace, Live, SlotState, Forking
  <1>5. WaiterHasWork'
    BY DEF WaiterHasWork, EmbryoOwned, ForkState, ForkPlace, Forking, SlotState
  <1>6. ForkState'
    <2>. SUFFICES ASSUME NEW q \in Slots PROVE ForkPlace(q)'
      BY DEF ForkState
    <2>1. CASE q = p
      BY <2>1 DEF ForkState, EmbryoOwned, Forking, ForkPlace, SlotState
    <2>2. CASE q # p
      BY <2>2 DEF ForkState, EmbryoOwned, Forking, ForkPlace, SlotState
    <2>. QED  BY <2>1, <2>2
  <1>7. SlotState'
    BY DEF SlotState, EmbryoOwned, ForkState, ForkPlace, Forking, Live
  <1>. QED  BY <1>1, <1>2, <1>3, <1>4, <1>5, <1>6, <1>7 DEF ProcInv

\* kill wakes its victim, so no sleeper is killed.
LEMMA KillInv ==
  ASSUME ProcInv, NEW p \in Slots, NEW k \in KillArgs, kill(p, k)
  PROVE  ProcInv'
  <1>. USE NPROCAssumption DEF kill, ProcInv, ProcTypeOK, Syscall, Here, GoTo, Return, Slots, initproc, NoSlot
  <1>1. ProcTypeOK'
    BY DEF SlotStates, Places
  <1>2. EmbryoOwned'
    BY DEF EmbryoOwned, Forking, SlotState
  <1>3. MemoryOwned'
    BY DEF MemoryOwned, Live, EmbryoOwned, ForkState, ForkPlace, Forking
  <1>4. ParentAlive'
    BY DEF ParentAlive, EmbryoOwned, ForkState, ForkPlace, Live, SlotState, Forking
  <1>5. WaiterHasWork'
    BY DEF WaiterHasWork, EmbryoOwned, ForkState, ForkPlace, Forking, SlotState, Children, Zombies
  <1>6. ForkState'
    <2>. SUFFICES ASSUME NEW q \in Slots PROVE ForkPlace(q)'
      BY DEF ForkState
    <2>1. CASE q = p
      BY <2>1, NotForking DEF Forking, ForkPlace
    <2>2. CASE q # p
      BY <2>2 DEF ForkState, EmbryoOwned, Forking, ForkPlace, SlotState
    <2>. QED  BY <2>1, <2>2
  <1>7. SlotState'
    BY DEF SlotState, EmbryoOwned, ForkState, ForkPlace, Forking, Live
  <1>. QED  BY <1>1, <1>2, <1>3, <1>4, <1>5, <1>6, <1>7 DEF ProcInv

-----------------------------------------------------------------------------
\* Every step keeps the invariant.
LEMMA ProcStep == ProcInv /\ [ProcNext]_tablevars => ProcInv'
  <1>. SUFFICES ASSUME ProcInv, [ProcNext]_tablevars PROVE ProcInv'
    OBVIOUS
  <1>1. CASE UNCHANGED tablevars
    BY <1>1 DEF ProcInv, ProcTypeOK, EmbryoOwned, MemoryOwned, ParentAlive, WaiterHasWork, Children, Zombies,
                ForkState, ForkPlace, SlotState, tablevars, fields
  <1>2. ASSUME NEW p \in Slots, Fork(p) PROVE ProcInv'
    <2>1. CASE NoSlotFree(p)
      BY <2>1, <1>1 DEF NoSlotFree
    <2>. QED  BY <1>2, <2>1, AllocprocInv, NoStackInv, GotStackInv, CopyFailsInv, CopyInv, ForkInv DEF Fork
  <1>3. ASSUME NEW p \in Slots, Exit(p) PROVE ProcInv'
    BY <1>3, ExitCallInv, FaultInv, ExitPanicInv, ExitInv DEF Exit
  <1>4. ASSUME NEW p \in Slots, WaitCall(p) \/ Wait(p) PROVE ProcInv'
    BY <1>4, WaitCallInv, WaitReapInv, WaitNoneInv, WaitSleepInv DEF Wait
  <1>5. ASSUME NEW p \in Slots, NEW k \in KillArgs, kill(p, k) PROVE ProcInv'
    BY <1>5, KillInv
  <1>. QED  BY <1>1, <1>2, <1>3, <1>4, <1>5 DEF ProcNext

\* The invariant holds in every reachable state.
THEOREM ProcInvHolds == ProcSpec => []ProcInv
  BY ProcStart, ProcStep, PTL DEF ProcSpec

\* The process table is consistent in a table of any size: a slot in the making
\* has one owner, and memory is where the processes are.
THEOREM TableIsSound == ProcSpec => []TableSound
  <1>1. ProcInv => TableSound
    BY DEF ProcInv, TableSound
  <1>. QED  BY <1>1, ProcInvHolds, PTL

\* exit never leaves a process behind whose parent is gone.
THEOREM ParentIsAlive == ProcSpec => []ParentAlive
  <1>1. ProcInv => ParentAlive
    BY DEF ProcInv
  <1>. QED  BY <1>1, ProcInvHolds, PTL

\* Nobody sleeps in wait beside a zombie, without a child, or killed.
THEOREM WaiterIsRight == ProcSpec => []WaiterHasWork
  <1>1. ProcInv => WaiterHasWork
    BY DEF ProcInv
  <1>. QED  BY <1>1, ProcInvHolds, PTL

-----------------------------------------------------------------------------
(* Lottery: the lottery and spot-market scheduler *)

\* What Lottery assumes of its constants.
LEMMA LotteryConstants ==
  /\ Full \in Nat \ {0} /\ MaxTotal \in Nat /\ MaxBill \in Nat
  /\ Percents \subseteq Nat /\ Bids \subseteq Int
  /\ Cap \in Nat \ {0} /\ Fee \in Nat /\ Scale \in Nat \ {0}
  BY RangeAssumption, PercentsAssumption, BidsAssumption, CapAssumption

-----------------------------------------------------------------------------
(* the tickets of the first i slots *)

Before(i) == {p \in Reserved : p <= i}
Sold(i) == SumFunctionOnSet(rpercent, Before(i))

\* Slots are few, and reserve processes are slots with a share.
LEMMA ReservedIs ==
  ASSUME LotteryTypeOK
  PROVE  /\ IsFiniteSet(Slots) /\ NPROC \in Nat /\ Slots = 1..NPROC
         /\ \A p \in Slots : rpercent[p] \in Nat
         /\ Reserved \subseteq Slots /\ Spots \subseteq Slots /\ Reserved \cap Spots = {}
         /\ \A i \in 0..NPROC : Before(i) \subseteq Slots /\ IsFiniteSet(Before(i)) /\ Cardinality(Before(i)) \in Nat
         /\ IsFiniteSet(Reserved) /\ Cardinality(Reserved) \in Nat
         /\ Before(0) = {} /\ Before(NPROC) = Reserved
  <1>0. NPROC \in Nat /\ NPROC \in Int /\ 1 \in Int /\ Slots = 1..NPROC
    BY NPROCAssumption DEF Slots
  <1>1. IsFiniteSet(Slots) /\ NPROC \in Nat /\ Slots = 1..NPROC
    BY <1>0, FS_Interval
  <1>2. \A p \in Slots : rpercent[p] \in Nat
    <2>1. rpercent \in [Slots -> Percents \cup {0}]
      BY DEF LotteryTypeOK
    <2>2. Percents \cup {0} \subseteq Nat
      BY LotteryConstants
    <2>. QED  BY <2>1, <2>2
  <1>3. Reserved \subseteq Slots /\ Spots \subseteq Slots /\ Reserved \cap Spots = {}
    BY <1>2 DEF Reserved, Spots
  <1>4. \A i \in 0..NPROC : Before(i) \subseteq Slots
    BY <1>3 DEF Before
  <1>5. ASSUME NEW i \in 0..NPROC PROVE IsFiniteSet(Before(i)) /\ Cardinality(Before(i)) \in Nat
    <2>1. Before(i) \in SUBSET Slots
      BY <1>4
    <2>2. IsFiniteSet(Before(i))
      BY <1>1, <2>1, FS_Subset
    <2>. QED  BY <2>2, FS_CardinalityType
  <1>6. IsFiniteSet(Reserved) /\ Cardinality(Reserved) \in Nat
    BY <1>1, <1>3, FS_Subset, FS_CardinalityType
  <1>7. Before(0) = {}
    <2>1. \A p \in Slots : ~(p <= 0)
      BY <1>0
    <2>. QED  BY <1>3, <2>1 DEF Before
  <1>8. Before(NPROC) = Reserved
    <2>1. \A p \in Slots : p <= NPROC
      BY <1>0
    <2>. QED  BY <1>3, <2>1 DEF Before
  <1>. QED  BY <1>1, <1>2, <1>3, <1>4, <1>5, <1>6, <1>7, <1>8

\* One slot more.
LEMMA SoldNext ==
  ASSUME LotteryTypeOK, NEW i \in 1..NPROC
  PROVE  /\ i \in Reserved => /\ Sold(i) = Sold(i-1) + rpercent[i] /\ Sold(i-1) \in Int
                              /\ Cardinality(Before(i)) = Cardinality(Before(i-1)) + 1
         /\ i \notin Reserved => Before(i) = Before(i-1)
  <1>1. i \in Nat /\ i - 1 \in 0..NPROC /\ i \in 0..NPROC
    BY ReservedIs
  <1>2. CASE i \in Reserved
    <2>1. i \in Before(i) /\ Before(i-1) = Before(i) \ {i}
      BY <1>1, <1>2, ReservedIs DEF Before
    <2>2. IsFiniteSet(Before(i)) /\ (\A y \in Before(i) : rpercent[y] \in Int) /\ Before(i) \subseteq Slots
      BY <1>1, ReservedIs
    <2>3. /\ SumFunctionOnSet(rpercent, Before(i) \ {i}) \in Int
          /\ SumFunctionOnSet(rpercent, Before(i)) = rpercent[i] + SumFunctionOnSet(rpercent, Before(i) \ {i})
      BY <2>1, <2>2, SumRemove
    <2>4. Sold(i-1) \in Int /\ Sold(i) = rpercent[i] + Sold(i-1)
      BY <2>1, <2>3 DEF Sold
    <2>5. Cardinality(Before(i-1)) = Cardinality(Before(i)) - 1
      BY <2>1, <2>2, FS_RemoveElement
    <2>6. Cardinality(Before(i)) \in Nat /\ rpercent[i] \in Int
      BY <1>1, <2>1, <2>2, ReservedIs
    <2>. QED  BY <1>2, <2>4, <2>5, <2>6
  <1>3. CASE i \notin Reserved
    <2>1. Before(i) = Before(i-1)
      BY <1>1, <1>3, ReservedIs DEF Before
    <2>. QED  BY <1>3, <2>1
  <1>. QED  BY <1>2, <1>3

\* The tickets grow with the slots, up to Tickets.
LEMMA SoldNat ==
  ASSUME LotteryTypeOK
  PROVE  /\ Sold(0) = 0 /\ Sold(NPROC) = Tickets
         /\ \A i \in 0..NPROC : Sold(i) \in Nat
         /\ \A i \in 0..NPROC : \A j \in 0..i : Sold(j) <= Sold(i)
  <1>1. Sold(0) = 0 /\ Sold(NPROC) = Tickets
    <2>1. Before(0) = {} /\ Before(NPROC) = Reserved
      BY ReservedIs
    <2>. QED  BY <2>1, SumEmpty DEF Sold, Tickets
  <1>. DEFINE Good(i) == Sold(i) \in Nat /\ \A j \in 0..i : Sold(j) <= Sold(i)
              T == {i \in Nat : i <= NPROC /\ ~Good(i)}
  <1>2. SUFFICES T = {}
    <2>1. \A i \in 0..NPROC : i \in Nat /\ i <= NPROC
      BY ReservedIs
    <2>2. T = {} => \A i \in 0..NPROC : Good(i)
      BY <2>1
    <2>. QED  BY <1>1, <2>2
  <1>3. SUFFICES ASSUME T # {} PROVE FALSE
    OBVIOUS
  <1>4. PICK i \in T : \A y \in T : i <= y
    BY <1>3, LeastNat
  <1>5. i \in Nat /\ i <= NPROC /\ ~Good(i)
    BY <1>4
  <1>6. i # 0
    BY <1>1, <1>5
  <1>7. i \in 1..NPROC /\ i - 1 \in Nat /\ i - 1 <= NPROC /\ ~(i <= i - 1)
    BY <1>5, <1>6, ReservedIs
  <1>8. Good(i - 1)
    <2>. HIDE DEF Good
    <2>. QED  BY <1>4, <1>7
  <1>9. Sold(i-1) <= Sold(i) /\ Sold(i) \in Nat
    <2>1. CASE i \in Reserved
      <3>1. rpercent[i] \in Nat /\ Sold(i-1) \in Nat /\ Sold(i) = Sold(i-1) + rpercent[i]
        BY <1>7, <1>8, <2>1, SoldNext, ReservedIs
      <3>. QED  BY <3>1
    <2>2. CASE i \notin Reserved
      BY <1>7, <1>8, <2>2, SoldNext DEF Sold
    <2>. QED  BY <2>1, <2>2
  <1>10. ASSUME NEW j \in 0..i PROVE Sold(j) <= Sold(i)
    <2>1. CASE j = i
      BY <2>1, <1>9
    <2>2. CASE j # i
      <3>1. j \in 0..i-1
        BY <2>2, <1>5
      <3>2. Sold(j) <= Sold(i-1) /\ Sold(i-1) \in Nat
        BY <1>8, <3>1
      <3>3. Sold(j) \in Nat
        <4>1. j \in Nat /\ j <= NPROC /\ ~(i <= j)
          BY <1>5, <3>1, ReservedIs
        <4>2. Good(j)
          <5>. HIDE DEF Good
          <5>. QED  BY <1>4, <4>1
        <4>. QED  BY <4>2
      <3>. QED  BY <1>9, <3>2, <3>3
    <2>. QED  BY <2>1, <2>2
  <1>. QED  BY <1>5, <1>9, <1>10
-----------------------------------------------------------------------------
(* the second scan *)

Sites == [numofrp : Int, ticket : Int, pick : Slots \cup {NoProc}]
Start == [numofrp |-> Cardinality(Reserved), ticket |-> 0, pick |-> NoProc]

\* what the scan does at slot i
Visit(rand, i, s) ==
  IF s.pick # NoProc \/ state[i] # "RUNNABLE" THEN s
  ELSE IF rpercent[i] > 0
  THEN [numofrp |-> s.numofrp - 1, ticket |-> s.ticket + rpercent[i],
        pick |-> IF Wins(s.ticket + rpercent[i], rand) THEN i ELSE NoProc]
  ELSE IF /\ s.numofrp = 0 /\ Spots # {} /\ s.ticket < rand
          /\ spotbid[i] = higherbid
  THEN [s EXCEPT !.pick = i]
  ELSE s

\* g is a run of the scan
Scans(rand, g) ==
  /\ g \in [0..NPROC -> Sites] /\ g[0] = Start
  /\ \A i \in 1..NPROC : g[i] = Visit(rand, i, g[i-1])

\* Every visit leaves the scan in one of its sites.
LEMMA VisitSite ==
  ASSUME LotteryTypeOK, NEW rand, NEW i \in 1..NPROC, NEW s \in Sites
  PROVE  Visit(rand, i, s) \in Sites
  <1>1. rpercent[i] \in Int /\ i \in Slots
    BY ReservedIs
  <1>2. s.numofrp \in Int /\ s.ticket \in Int
    BY DEF Sites
  <1>3. s.numofrp - 1 \in Int /\ s.ticket + rpercent[i] \in Int
    BY <1>1, <1>2
  <1>4. [numofrp |-> s.numofrp - 1, ticket |-> s.ticket + rpercent[i],
         pick |-> IF Wins(s.ticket + rpercent[i], rand) THEN i ELSE NoProc] \in Sites
    BY <1>1, <1>3 DEF Sites
  <1>5. [s EXCEPT !.pick = i] \in Sites
    BY <1>1 DEF Sites
  <1>. QED  BY <1>4, <1>5 DEF Visit

\* Pick is where a run of the scan ends.
LEMMA PickScans ==
  ASSUME LotteryTypeOK, NEW rand
  PROVE  \E g : Scans(rand, g) /\ Pick(rand) = g[NPROC].pick
  <1>. DEFINE F(g) == [i \in 0..NPROC |->
        IF i = 0 THEN [numofrp |-> Cardinality(Reserved), ticket |-> 0, pick |-> NoProc]
        ELSE LET s == g[i-1]
                 ticket == s.ticket + rpercent[i]
             IN  IF s.pick # NoProc \/ state[i] # "RUNNABLE" THEN s
                 ELSE IF rpercent[i] > 0
                 THEN [numofrp |-> s.numofrp - 1, ticket |-> ticket,
                       pick |-> IF Wins(ticket, rand) THEN i ELSE NoProc]
                 ELSE IF /\ s.numofrp = 0 /\ Spots # {} /\ s.ticket < rand
                         /\ spotbid[i] = higherbid
                 THEN [s EXCEPT !.pick = i]
                 ELSE s]
              G(g) == [i \in 0..NPROC |-> IF i = 0 THEN Start ELSE Visit(rand, i, g[i-1])]
              scan == CHOOSE g : g = G(g)
  <1>1. \A g : F(g) = G(g)
    BY DEF Visit, Start
  <1>2. Pick(rand) = (CHOOSE g : g = F(g))[NPROC].pick
    BY DEF Pick
  <1>3. Pick(rand) = scan[NPROC].pick
    <2>. HIDE DEF F, G
    <2>. QED  BY <1>1, <1>2
  <1>4. NPROC \in Nat /\ Start \in Sites
    <2>1. NPROC \in Nat /\ Cardinality(Reserved) \in Int
      BY ReservedIs
    <2>. QED  BY <2>1 DEF Start, Sites
  <1>. DEFINE step == [i \in 1..NPROC |-> [s \in Sites |-> Visit(rand, i, s)]]
  <1>5. step \in [1..NPROC -> [Sites -> Sites]]
    BY VisitSite
  <1>6. PICK f \in [0..NPROC -> Sites] : f[0] = Start /\ \A k \in 1..NPROC : f[k] = step[k][f[k-1]]
    <2>. HIDE DEF step
    <2>1. IsLoop(NPROC, Sites, Start, step)
      BY <1>4, <1>5 DEF IsLoop
    <2>2. \E f : Loops(NPROC, Sites, Start, step, f)
      BY <2>1, LoopRuns
    <2>. QED  BY <2>2 DEF Loops
  <1>7. ASSUME NEW k \in 1..NPROC PROVE f[k] = Visit(rand, k, f[k-1])
    <2>1. f[k-1] \in Sites
      BY <1>4, <1>6
    <2>. QED  BY <1>6, <2>1
  <1>8. f = G(f)
    <2>1. ASSUME NEW i \in 0..NPROC PROVE f[i] = G(f)[i]
      <3>1. CASE i = 0
        BY <1>6, <3>1
      <3>2. CASE i # 0
        <4>1. i \in 1..NPROC
          BY <1>4, <3>2
        <4>. QED  BY <1>7, <3>2, <4>1
      <3>. QED  BY <3>1, <3>2
    <2>2. f = [i \in 0..NPROC |-> f[i]] /\ G(f) = [i \in 0..NPROC |-> G(f)[i]]
      BY <1>6
    <2>. QED  BY <2>1, <2>2
  <1>9. scan = G(scan)
    <2>. HIDE DEF G
    <2>. QED  BY <1>8
  <1>. HIDE DEF scan
  <1>10. scan[0] = Start /\ \A i \in 1..NPROC : scan[i] = Visit(rand, i, scan[i-1])
    <2>1. \A i \in 0..NPROC : G(scan)[i] = IF i = 0 THEN Start ELSE Visit(rand, i, scan[i-1])
      OBVIOUS
    <2>2. \A i \in 0..NPROC : scan[i] = IF i = 0 THEN Start ELSE Visit(rand, i, scan[i-1])
      <3>. HIDE DEF G
      <3>. QED  BY <1>9, <2>1
    <2>3. 0 \in 0..NPROC /\ \A i \in 1..NPROC : i \in 0..NPROC /\ i # 0
      BY <1>4
    <2>. QED  BY <2>2, <2>3
  <1>11. scan \in [0..NPROC -> Sites]
    <2>. DEFINE T == {i \in Nat : i <= NPROC /\ scan[i] \notin Sites}
    <2>1. T = {} => \A i \in 0..NPROC : scan[i] \in Sites
      BY <1>4
    <2>2. ASSUME T # {} PROVE FALSE
      <3>1. PICK i \in T : \A y \in T : i <= y
        BY <2>2, LeastNat
      <3>2. i \in Nat /\ i <= NPROC /\ scan[i] \notin Sites /\ i # 0
        BY <1>4, <1>10, <3>1
      <3>3. i \in 1..NPROC /\ i - 1 \in Nat /\ i - 1 <= NPROC /\ ~(i <= i - 1)
        BY <1>4, <3>2
      <3>4. scan[i-1] \in Sites
        BY <3>1, <3>3
      <3>. QED  BY <1>10, <3>2, <3>3, <3>4, VisitSite
    <2>3. scan = [i \in 0..NPROC |-> scan[i]]
      BY <1>9
    <2>. QED  BY <2>1, <2>2, <2>3
  <1>. QED  BY <1>3, <1>10, <1>11 DEF Scans

-----------------------------------------------------------------------------
(* who is chosen *)

\* a spot process that wins unless one before it does
SpotWins(p, rand) ==
  p \in Spots /\ (\A q \in Reserved : q < p) /\ Tickets < rand /\ spotbid[p] = higherbid

Chosen(p, rand) ==
  \/ p \in Reserved /\ Sold(p-1) <= rand /\ rand < Sold(p)
  \/ SpotWins(p, rand) /\ \A q \in 1..p-1 : ~SpotWins(q, rand)

\* where the scan stands after slot i
Stands(rand, i, s) ==
  IF s.pick = NoProc
    THEN /\ s.ticket = Sold(i) /\ Sold(i) <= rand
         /\ s.numofrp = Cardinality(Reserved) - Cardinality(Before(i))
         /\ \A q \in 1..i : ~SpotWins(q, rand)
    ELSE s.pick \in 1..i /\ Chosen(s.pick, rand)

\* No reserve process is left to come exactly when all stand before slot i.
LEMMA NoneLeft ==
  ASSUME LotteryTypeOK, NEW i \in 1..NPROC, i \notin Reserved
  PROVE  /\ Cardinality(Reserved) - Cardinality(Before(i-1)) = 0 <=> \A q \in Reserved : q < i
         /\ (\A q \in Reserved : q < i) => Sold(i-1) = Tickets
  <1>1. i - 1 \in 0..NPROC /\ i \in Nat /\ Reserved \subseteq Nat
    BY ReservedIs
  <1>2. /\ IsFiniteSet(Reserved) /\ Before(i-1) \subseteq Reserved
        /\ Cardinality(Reserved) \in Nat /\ Cardinality(Before(i-1)) \in Nat
    BY <1>1, ReservedIs DEF Before
  <1>3. Before(i-1) = Reserved <=> \A q \in Reserved : q < i
    <2>1. \A q \in Reserved : q <= i-1 <=> q < i
      BY <1>1
    <2>. QED  BY <2>1, Zenon DEF Before
  <1>4. Before(i-1) = Reserved <=> Cardinality(Reserved) = Cardinality(Before(i-1))
    BY <1>2, FS_Subset
  <1>. QED  BY <1>2, <1>3, <1>4 DEF Sold, Tickets

\* A visit to a slot whose process is not runnable, or a scan that is over.
LEMMA VisitSkips ==
  ASSUME LotteryTypeOK, NEW rand \in 0..Full-1, NEW i \in 1..NPROC, NEW s \in Sites,
         Stands(rand, i-1, s), s.pick # NoProc \/ i \notin Reserved \cup Spots
  PROVE  Stands(rand, i, Visit(rand, i, s))
  <1>0. i \in Nat /\ NPROC \in Nat /\ rpercent[i] \in Nat /\ i \in Slots
    BY ReservedIs
  <1>1. Visit(rand, i, s) = s
    <2>1. i \notin Reserved \cup Spots => state[i] # "RUNNABLE"
      BY <1>0 DEF Reserved, Spots
    <2>. QED  BY <2>1 DEF Visit
  <1>2. CASE s.pick # NoProc
    BY <1>0, <1>1, <1>2 DEF Stands
  <1>3. CASE s.pick = NoProc
    <2>1. i \notin Reserved /\ Before(i) = Before(i-1) /\ ~SpotWins(i, rand)
      BY <1>3, SoldNext DEF SpotWins
    <2>2. \A q \in 1..i : q = i \/ q \in 1..i-1
      BY <1>0
    <2>. QED  BY <1>1, <1>3, <2>1, <2>2 DEF Stands, Sold
  <1>. QED  BY <1>2, <1>3

\* A visit to a reserve process.
LEMMA VisitReserved ==
  ASSUME LotteryTypeOK, NEW rand \in 0..Full-1, NEW i \in 1..NPROC, NEW s \in Sites,
         Stands(rand, i-1, s), s.pick = NoProc, i \in Reserved
  PROVE  Stands(rand, i, Visit(rand, i, s))
  <1>0. i \in Nat /\ i \in Slots /\ rand \in Int /\ NoProc \notin Slots
    BY ReservedIs, NoProcAssumption DEF Slots
  <1>1. rpercent[i] > 0 /\ state[i] = "RUNNABLE" /\ rpercent[i] \in Nat
    BY <1>0, ReservedIs DEF Reserved
  <1>2. /\ s.ticket = Sold(i-1) /\ Sold(i-1) <= rand
        /\ s.numofrp = Cardinality(Reserved) - Cardinality(Before(i-1))
        /\ \A q \in 1..i-1 : ~SpotWins(q, rand)
    BY DEF Stands
  <1>3. Sold(i) = Sold(i-1) + rpercent[i] /\ Sold(i-1) \in Int
        /\ Cardinality(Before(i)) = Cardinality(Before(i-1)) + 1
    BY SoldNext
  <1>. DEFINE v == Visit(rand, i, s)
  <1>4. v = [numofrp |-> s.numofrp - 1, ticket |-> Sold(i),
             pick |-> IF Sold(i) > rand THEN i ELSE NoProc]
    BY <1>1, <1>2, <1>3 DEF Visit, Wins
  <1>. HIDE DEF v
  <1>5. CASE Sold(i) > rand
    <2>1. v.pick = i /\ i # NoProc
      BY <1>0, <1>4, <1>5
    <2>2. Chosen(i, rand)
      BY <1>0, <1>2, <1>3, <1>1, <1>5 DEF Chosen
    <2>. QED  BY <1>0, <2>1, <2>2 DEF Stands, v
  <1>6. CASE ~(Sold(i) > rand)
    <2>1. v.pick = NoProc /\ v.ticket = Sold(i) /\ v.numofrp = s.numofrp - 1
      BY <1>4, <1>6
    <2>2. Sold(i) <= rand
      BY <1>0, <1>1, <1>3, <1>6
    <2>3. v.numofrp = Cardinality(Reserved) - Cardinality(Before(i))
      <3>1. Cardinality(Reserved) \in Nat /\ Cardinality(Before(i-1)) \in Nat
        BY <1>0, ReservedIs
      <3>. QED  BY <1>2, <1>3, <2>1, <3>1
    <2>4. \A q \in 1..i : ~SpotWins(q, rand)
      <3>1. ~SpotWins(i, rand)
        BY ReservedIs DEF SpotWins
      <3>2. \A q \in 1..i : q = i \/ q \in 1..i-1
        BY <1>0
      <3>. QED  BY <1>2, <3>1, <3>2
    <2>. QED  BY <2>1, <2>2, <2>3, <2>4 DEF Stands, v
  <1>. QED  BY <1>5, <1>6

\* A visit to a process without a reservation.
LEMMA VisitSpot ==
  ASSUME LotteryTypeOK, NEW rand \in 0..Full-1, NEW i \in 1..NPROC, NEW s \in Sites,
         Stands(rand, i-1, s), s.pick = NoProc, i \in Spots
  PROVE  Stands(rand, i, Visit(rand, i, s))
  <1>0. i \in Nat /\ i \in Slots /\ rand \in Int /\ i # NoProc /\ i \notin Reserved
    BY ReservedIs, NoProcAssumption DEF Slots
  <1>1. rpercent[i] = 0 /\ state[i] = "RUNNABLE" /\ Spots # {}
    BY DEF Spots
  <1>2. /\ s.ticket = Sold(i-1) /\ Sold(i-1) <= rand
        /\ s.numofrp = Cardinality(Reserved) - Cardinality(Before(i-1))
        /\ \A q \in 1..i-1 : ~SpotWins(q, rand)
    BY DEF Stands
  <1>3. Before(i) = Before(i-1) /\ Sold(i) = Sold(i-1)
    BY <1>0, SoldNext DEF Sold
  <1>. DEFINE v == Visit(rand, i, s)
  <1>4. v = IF s.numofrp = 0 /\ Sold(i-1) < rand /\ spotbid[i] = higherbid
            THEN [s EXCEPT !.pick = i] ELSE s
    BY <1>1, <1>2 DEF Visit
  <1>5. (s.numofrp = 0 /\ Sold(i-1) < rand /\ spotbid[i] = higherbid) <=> SpotWins(i, rand)
    <2>1. s.numofrp = 0 <=> \A q \in Reserved : q < i
      BY <1>0, <1>2, NoneLeft
    <2>2. (\A q \in Reserved : q < i) => Sold(i-1) = Tickets
      BY <1>0, NoneLeft
    <2>. QED  BY <2>1, <2>2, Zenon DEF SpotWins
  <1>. HIDE DEF v
  <1>6. CASE SpotWins(i, rand)
    <2>1. v.pick = i
      BY <1>4, <1>5, <1>6 DEF Sites
    <2>2. Chosen(i, rand)
      BY <1>2, <1>6 DEF Chosen
    <2>. QED  BY <1>0, <2>1, <2>2 DEF Stands, v
  <1>7. CASE ~SpotWins(i, rand)
    <2>1. v = s
      BY <1>4, <1>5, <1>7
    <2>2. \A q \in 1..i : q = i \/ q \in 1..i-1
      BY <1>0
    <2>3. \A q \in 1..i : ~SpotWins(q, rand)
      BY <1>2, <1>7, <2>2
    <2>. QED  BY <1>2, <1>3, <2>1, <2>3 DEF Stands, v
  <1>. QED  BY <1>6, <1>7

\* What the whole scan finds.
LEMMA PickFinds ==
  ASSUME LotteryTypeOK, NEW rand \in 0..Full-1
  PROVE  /\ Pick(rand) \in Slots \cup {NoProc}
         /\ Pick(rand) # NoProc => Chosen(Pick(rand), rand)
         /\ Pick(rand) = NoProc => Tickets <= rand /\ \A q \in Slots : ~SpotWins(q, rand)
  <1>1. PICK g : Scans(rand, g) /\ Pick(rand) = g[NPROC].pick
    BY PickScans
  <1>2. NPROC \in Nat /\ Slots = 1..NPROC /\ rand \in Nat
    BY ReservedIs, LotteryConstants
  <1>3. g \in [0..NPROC -> Sites] /\ g[0] = Start /\ \A i \in 1..NPROC : g[i] = Visit(rand, i, g[i-1])
    BY <1>1 DEF Scans
  <1>. DEFINE T == {i \in Nat : i <= NPROC /\ ~Stands(rand, i, g[i])}
  <1>4. ASSUME T # {} PROVE FALSE
    <2>1. PICK i \in T : \A y \in T : i <= y
      BY <1>4, LeastNat
    <2>2. i \in Nat /\ i <= NPROC /\ ~Stands(rand, i, g[i])
      BY <2>1
    <2>3. i # 0
      <3>1. Stands(rand, 0, Start)
        <4>1. Sold(0) = 0 /\ Before(0) = {} /\ Cardinality({}) = 0 /\ Cardinality(Reserved) \in Nat
          BY SoldNat, ReservedIs, FS_EmptySet
        <4>2. \A q \in 1..0 : FALSE
          OBVIOUS
        <4>3. Start.pick = NoProc /\ Start.ticket = 0 /\ Start.numofrp = Cardinality(Reserved)
          BY DEF Start
        <4>4. Start.numofrp = Cardinality(Reserved) - Cardinality(Before(0)) /\ Sold(0) <= rand
          <5>1. Cardinality(Before(0)) = 0
            BY <4>1
          <5>2. Start.numofrp = Start.numofrp - 0 /\ 0 <= rand
            BY <1>2, <4>1, <4>3
          <5>. QED  BY <4>1, <4>3, <5>1, <5>2, Zenon
        <4>. QED  BY <4>1, <4>2, <4>3, <4>4 DEF Stands
      <3>. QED  BY <1>3, <2>2, <3>1
    <2>4. i \in 1..NPROC /\ i - 1 \in Nat /\ i - 1 <= NPROC /\ ~(i <= i - 1) /\ i - 1 \in 0..NPROC
      BY <1>2, <2>2, <2>3
    <2>5. Stands(rand, i - 1, g[i - 1])
      BY <2>1, <2>4
    <2>. DEFINE s == g[i - 1]
    <2>6. s \in Sites /\ g[i] = Visit(rand, i, s) /\ Stands(rand, i - 1, s)
      BY <1>3, <2>4, <2>5
    <2>. HIDE DEF s
    <2>7. Stands(rand, i, Visit(rand, i, s))
      BY <2>4, <2>6, VisitSkips, VisitReserved, VisitSpot
    <2>. QED  BY <2>2, <2>6, <2>7
  <1>5. Stands(rand, NPROC, g[NPROC])
    BY <1>2, <1>4
  <1>6. g[NPROC] \in Sites /\ Sold(NPROC) = Tickets
    BY <1>2, <1>3, SoldNat
  <1>. QED  BY <1>1, <1>2, <1>5, <1>6 DEF Stands, Sites

\* A reserve process is chosen by its own tickets.
LEMMA PickReserved ==
  ASSUME LotteryTypeOK, NEW rand \in 0..Full-1, NEW p \in Reserved
  PROVE  Pick(rand) = p <=> Sold(p-1) <= rand /\ rand < Sold(p)
  <1>0. /\ rand \in Nat /\ NPROC \in Nat /\ Slots = 1..NPROC /\ Reserved \subseteq Slots
        /\ NoProc \notin Slots /\ Reserved \cap Spots = {}
    BY ReservedIs, NoProcAssumption, LotteryConstants
  <1>1. ASSUME NEW q \in Slots
        PROVE  /\ q \in 0..NPROC /\ q-1 \in 0..NPROC /\ Sold(q) \in Nat /\ Sold(q-1) \in Nat
               /\ Sold(q) <= Tickets /\ Tickets \in Nat
    <2>1. q \in 0..NPROC /\ q-1 \in 0..NPROC /\ NPROC \in 0..NPROC
      BY <1>0
    <2>. QED  BY <2>1, SoldNat
  <1>2. ASSUME Pick(rand) = p PROVE Sold(p-1) <= rand /\ rand < Sold(p)
    BY <1>0, <1>2, PickFinds DEF Chosen, SpotWins
  <1>3. ASSUME Sold(p-1) <= rand, rand < Sold(p) PROVE Pick(rand) = p
    <2>1. ~(Tickets < rand) /\ ~(Tickets <= rand)
      BY <1>0, <1>1, <1>3
    <2>2. PICK q \in Reserved : Pick(rand) = q /\ Sold(q-1) <= rand /\ rand < Sold(q)
      BY <2>1, PickFinds DEF Chosen, SpotWins
    <2>3. \A x, y \in Slots : x < y => Sold(x) <= Sold(y-1)
      <3>1. \A x, y \in Slots : x < y => x \in 0..y-1 /\ y-1 \in 0..NPROC
        BY <1>0
      <3>. QED  BY <3>1, SoldNat
    <2>4. ~(q < p) /\ ~(p < q)
      BY <1>0, <1>1, <1>3, <2>2, <2>3
    <2>5. q = p
      BY <1>0, <2>4
    <2>. QED  BY <2>2, <2>5
  <1>. QED  BY <1>2, <1>3

\* The first scan finds the highest bid of the spot processes, or 0.
LEMMA HighestBid ==
  ASSUME LotteryTypeOK
  PROVE  \A p \in Spots : spotbid[p] <= higherbid
  <1>0. NPROC \in Nat /\ Slots = 1..NPROC /\ Spots \subseteq Slots
    BY ReservedIs
  <1>1. \A p \in Slots : spotbid[p] \in Int
    <2>1. spotbid \in [Slots -> Bids \cup {0}] /\ Bids \cup {0} \subseteq Int
      BY LotteryConstants DEF LotteryTypeOK
    <2>. QED  BY <2>1
  <1>. DEFINE B == {0} \cup {spotbid[p] : p \in Spots}
              Above(b, i) == \A p \in Spots : p <= i => spotbid[p] <= b
              T == {i \in Nat : i <= NPROC /\ ~\E b \in B : Above(b, i)}
  <1>2. ASSUME T # {} PROVE FALSE
    <2>1. PICK i \in T : \A y \in T : i <= y
      BY <1>2, LeastNat
    <2>2. i \in Nat /\ i <= NPROC /\ ~\E b \in B : Above(b, i)
      BY <2>1
    <2>3. i # 0
      <3>1. Above(0, 0) /\ 0 \in B
        BY <1>0
      <3>. QED  BY <2>2, <3>1
    <2>4. i - 1 \in Nat /\ i - 1 <= NPROC /\ ~(i <= i - 1) /\ i \in Slots
      BY <1>0, <2>2, <2>3
    <2>5. PICK b \in B : Above(b, i - 1)
      BY <2>1, <2>4
    <2>6. b \in Int /\ spotbid[i] \in Int
      BY <1>0, <1>1, <2>4
    <2>7. \A p \in Spots : p <= i => p = i \/ p <= i - 1
      BY <1>0, <2>4
    <2>8. CASE i \in Spots /\ spotbid[i] > b
      <3>1. spotbid[i] \in B
        BY <2>8
      <3>2. Above(spotbid[i], i)
        BY <1>0, <1>1, <2>5, <2>6, <2>7, <2>8
      <3>. QED  BY <2>2, <3>1, <3>2
    <2>9. CASE ~(i \in Spots /\ spotbid[i] > b)
      <3>1. Above(b, i)
        BY <2>5, <2>6, <2>7, <2>9
      <3>. QED  BY <2>2, <3>1
    <2>. QED  BY <2>8, <2>9
  <1>3. \E b \in B : Above(b, NPROC)
    <2>1. NPROC \notin T
      BY <1>2
    <2>. HIDE DEF B, Above
    <2>2. NPROC <= NPROC
      BY <1>0
    <2>. QED  BY <1>0, <2>1, <2>2
  <1>4. \E b \in B : \A p \in Spots : spotbid[p] <= b
    <2>1. \A p \in Spots : p <= NPROC
      BY <1>0
    <2>. QED  BY <1>3, <2>1
  <1>. QED  BY <1>4 DEF higherbid

\* A process without a reservation is chosen only with the highest bid, by a
\* number above the tickets.
LEMMA PickSpot ==
  ASSUME LotteryTypeOK, NEW rand \in 0..Full-1, Pick(rand) \notin Reserved \cup {NoProc}
  PROVE  Pick(rand) \in TopBidders /\ Tickets < rand
  <1>1. SpotWins(Pick(rand), rand)
    BY PickFinds DEF Chosen
  <1>. QED  BY <1>1, HighestBid DEF SpotWins, TopBidders

\* The draw is honest in every state of the right type.
LEMMA DrawIsHonest ==
  ASSUME LotteryTypeOK
  PROVE  DrawsHonest
  <1>0. /\ Full \in Nat \ {0} /\ NPROC \in Nat /\ Slots = 1..NPROC /\ Reserved \subseteq Slots
        /\ Sold(NPROC) = Tickets /\ NPROC \in 0..NPROC
    BY ReservedIs, SoldNat, LotteryConstants
  <1>1. Tickets \in Nat
    BY <1>0, SoldNat
  <1>. DEFINE R == 0..Full-1
              D(p) == {rand \in R : Picks[rand] = p}
  <1>2. ASSUME Tickets <= Full, NEW p \in Reserved PROVE Draws(Picks, p) = rpercent[p]
    <2>1. p \in 1..NPROC /\ p \in 0..NPROC /\ p-1 \in 0..NPROC
      BY <1>0
    <2>2. /\ Sold(p-1) \in Nat /\ Sold(p) \in Nat /\ Sold(p) = Sold(p-1) + rpercent[p]
          /\ Sold(p) <= Tickets /\ rpercent[p] \in Nat
      BY <1>0, <2>1, SoldNext, SoldNat, ReservedIs
    <2>. DEFINE a == Sold(p-1)
                b == Sold(p)
    <2>3. D(p) = {rand \in R : a <= rand /\ rand < b}
      BY PickReserved DEF Picks
    <2>4. a \in Nat /\ b \in Nat /\ b = a + rpercent[p] /\ b <= Full
      BY <1>0, <1>1, <1>2, <2>2
    <2>. HIDE DEF a, b
    <2>5. {rand \in R : a <= rand /\ rand < b} = a..b-1
      BY <1>0, <2>4
    <2>6. Cardinality(a..b-1) = rpercent[p]
      <3>. DEFINE z == b-1
      <3>1. a \in Int /\ z \in Int /\ z + 1 = a + rpercent[p]
        BY <2>2, <2>4
      <3>. HIDE DEF z
      <3>2. Cardinality(a..z) = IF a > z THEN 0 ELSE z-a+1
        BY <3>1, FS_Interval
      <3>3. Cardinality(a..z) = rpercent[p]
        BY <2>2, <3>1, <3>2
      <3>. QED  BY <3>3 DEF z
    <2>. QED  BY <2>3, <2>5, <2>6 DEF Draws
  <1>3. ASSUME NEW rand \in R, Picks[rand] \notin Reserved \cup {NoProc}
        PROVE  Picks[rand] \in TopBidders /\ rand >= Tickets
    <2>1. Picks[rand] = Pick(rand) /\ rand \in Nat
      BY <1>0 DEF Picks
    <2>2. Pick(rand) \in TopBidders /\ Tickets < rand
      BY <1>3, <2>1, PickSpot
    <2>. QED  BY <1>1, <2>1, <2>2
  <1>. QED  BY <1>2, <1>3 DEF DrawsHonest

-----------------------------------------------------------------------------
(* the accounts *)

Promised == SumFunction(rpercent)

\* a call of sys_reserve keeps what it was asked for
Calls == \A p \in Slots : rpc[p] # "user" => n[p] \in Percents /\ t[p] + n[p] <= MaxTotal

\* calls that do not overlap see the total and leave it above what is promised
Shares ==
  raced \/ /\ \A p, q \in Slots : rpc[p] # "user" /\ rpc[q] # "user" => p = q
           /\ \A p \in Slots : rpc[p] = "store" => totalpercent = t[p]
           /\ \A p \in Slots : rpc[p] = "test" => totalpercent = t[p] + n[p] /\ Promised <= t[p]
           /\ Promised <= totalpercent /\ Promised <= Full

\* a charge is carried over before it can grow beyond Cap
Bills == \A p \in Slots : charge[p] <= Cap /\ tcharge[p] * Cap + charge[p] = due[p]

\* The inductive invariant.
LotteryInv == LotteryTypeOK /\ Calls /\ Shares

\* What is promised is a natural number, and changes by what one slot's share does.
LEMMA PromisedIs ==
  ASSUME LotteryTypeOK
  PROVE  /\ Promised \in Nat
         /\ \A p \in Slots : \A k \in Nat :
              rpercent' = [rpercent EXCEPT ![p] = k] =>
                Promised' = (Promised - rpercent[p]) + k /\ rpercent[p] \in Nat
  <1>1. rpercent \in [Slots -> Nat] /\ IsFiniteSet(Slots)
    <2>1. rpercent \in [Slots -> Percents \cup {0}]
      BY DEF LotteryTypeOK
    <2>2. \A p \in Slots : rpercent[p] \in Nat
      BY ReservedIs
    <2>. QED  BY <2>1, <2>2, ReservedIs
  <1>2. Promised = SumFunctionOnSet(rpercent, Slots)
    BY <1>1 DEF Promised, SumFunction
  <1>3. Promised \in Nat
    BY <1>1, <1>2, SumNat
  <1>4. ASSUME NEW p \in Slots, NEW k \in Nat, rpercent' = [rpercent EXCEPT ![p] = k]
        PROVE  Promised' = (Promised - rpercent[p]) + k /\ rpercent[p] \in Nat
    <2>. DEFINE e == [rpercent EXCEPT ![p] = k]
    <2>1. e \in [Slots -> Nat] /\ e[p] = k /\ \A y \in Slots : y # p => e[y] = rpercent[y]
      BY <1>1
    <2>. HIDE DEF e
    <2>2. SumFunctionOnSet(e, Slots) = (SumFunctionOnSet(rpercent, Slots) - rpercent[p]) + e[p]
      BY <1>1, <2>1, SumChange
    <2>3. Promised' = SumFunctionOnSet(e, Slots)
      <3>1. rpercent' = e
        BY <1>4 DEF e
      <3>2. DOMAIN e = Slots
        BY <2>1
      <3>. QED  BY <3>1, <3>2 DEF Promised, SumFunction
    <2>. QED  BY <1>1, <1>2, <2>1, <2>2, <2>3
  <1>. QED  BY <1>3, <1>4

\* The table starts with nothing promised.
LEMMA LotteryStart ==
  LotteryInit => LotteryInv /\ Bills
  <1>. SUFFICES ASSUME LotteryInit PROVE LotteryInv /\ Bills
    OBVIOUS
  <1>0. NPROC \in Nat \ {0} /\ Full \in Nat /\ MaxTotal \in Nat /\ Cap \in Nat /\ 1 \in Slots
    BY NPROCAssumption, LotteryConstants DEF Slots
  <1>1. LotteryTypeOK
    <2>1. state \in [Slots -> {"UNUSED", "EMBRYO", "RUNNABLE", "RUNNING", "SLEEPING", "ZOMBIE"}]
      BY DEF LotteryInit
    <2>2. run \in [Schedulers -> [proc : Slots, share : BOOLEAN] \cup {NoProc}]
      BY DEF LotteryInit
    <2>3. totalpercent \in 0..MaxTotal
      BY <1>0 DEF LotteryInit
    <2>4. /\ rpercent \in [Slots -> Percents \cup {0}] /\ spotbid \in [Slots -> Bids \cup {0}]
          /\ charge \in [Slots -> Int] /\ tcharge \in [Slots -> Nat] /\ due \in [Slots -> Int]
      BY DEF LotteryInit
    <2>5. rpc \in [Slots -> {"user", "store", "test"}] /\ n \in [Slots -> Nat] /\ t \in [Slots -> Nat]
      BY DEF LotteryInit
    <2>6. raced \in BOOLEAN /\ np \in [Slots -> Slots \cup {0}]
      BY DEF LotteryInit
    <2>. QED  BY <2>1, <2>2, <2>3, <2>4, <2>5, <2>6 DEF LotteryTypeOK
  <1>2. Calls
    BY DEF LotteryInit, Calls
  <1>3. Promised = 0
    <2>1. IsFiniteSet(Slots)
      BY <1>1, ReservedIs
    <2>2. rpercent \in [Slots -> Nat] /\ \A p \in Slots : rpercent[p] = 0
      BY DEF LotteryInit
    <2>3. SumFunctionOnSet(rpercent, Slots) = 0
      BY <2>1, <2>2, SumNat
    <2>. QED  BY <2>2, <2>3 DEF Promised, SumFunction
  <1>4. Shares
    <2>1. totalpercent = 0 /\ \A p \in Slots : rpc[p] = "user"
      BY DEF LotteryInit
    <2>2. Promised <= totalpercent /\ Promised <= Full
      BY <1>0, <1>3, <2>1
    <2>. QED  BY <2>1, <2>2 DEF Shares
  <1>5. Bills
    BY <1>0 DEF LotteryInit, Bills
  <1>. QED  BY <1>1, <1>2, <1>4, <1>5 DEF LotteryInv

\* Where neither shares nor calls are touched, they stay as they are.
LEMMA SharesKept ==
  ASSUME Calls, Shares, UNCHANGED <<rpercent, reserve>>
  PROVE  Calls' /\ Shares'
  <1>1. UNCHANGED <<rpercent, totalpercent, rpc, n, t, raced>>
    BY DEF reserve
  <1>2. Promised' = Promised
    BY <1>1 DEF Promised
  <1>. QED  BY <1>1, <1>2 DEF Calls, Shares

LEMMA BillsKept ==
  ASSUME Bills, UNCHANGED bill
  PROVE  Bills'
  BY DEF Bills, bill

LEMMA DrawInv ==
  ASSUME LotteryInv, NEW c \in Schedulers, NEW rand \in 0..Full-1, Draw(c, rand)
  PROVE  LotteryInv' /\ (Bills => Bills')
  <1>1. PICK p \in {Pick(rand)} \ {NoProc} :
          /\ state' = [state EXCEPT ![p] = "RUNNING"]
          /\ run' = [run EXCEPT ![c] = [proc |-> p, share |-> rpercent[p] > 0]]
    BY DEF Draw
  <1>2. p \in Slots
    BY <1>1, PickFinds DEF LotteryInv
  <1>3. LotteryTypeOK'
    <2>1. [proc |-> p, share |-> rpercent[p] > 0] \in [proc : Slots, share : BOOLEAN]
      BY <1>2
    <2>. QED  BY <1>1, <1>2, <2>1 DEF Draw, LotteryInv, LotteryTypeOK, market, bill, reserve
  <1>4. Calls' /\ Shares'
    BY SharesKept DEF Draw, LotteryInv, market
  <1>5. Bills => Bills'
    BY BillsKept DEF Draw
  <1>. QED  BY <1>3, <1>4, <1>5 DEF LotteryInv

\* A turn costs a whole number, and nothing without a bid.
LEMMA CostType ==
  Cost(0) = 0 /\ \A b \in Int : Cost(b) \in Int
  <1>1. Scale \in Nat \ {0} /\ 0 \div Scale = 0
    BY LotteryConstants
  <1>2. \A b \in Int : -b \in Int /\ b \div Scale \in Int /\ (-b) \div Scale \in Int
    BY <1>1, DivMod
  <1>. QED  BY <1>1, <1>2 DEF Cost

\* One charge more: what is above Cap is carried over.
LEMMA StopInv ==
  ASSUME LotteryInv, NEW c \in Schedulers, NEW st \in {"RUNNABLE", "SLEEPING", "ZOMBIE"}, Stop(c, st)
  PROVE  LotteryInv' /\ (Fee < Cap /\ (\A b \in Bids : Cost(b) < Cap) /\ Bills => Bills')
  <1>. DEFINE p == run[c].proc
              fee == IF run[c].share THEN Fee ELSE Cost(spotbid[p])
              x == charge[p] + fee
  <1>0. Cap \in Nat /\ Cap > 0 /\ Fee \in Nat /\ Bids \cup {0} \subseteq Int
    BY LotteryConstants
  <1>1. p \in Slots /\ spotbid[p] \in Bids \cup {0} /\ charge[p] \in Int /\ tcharge[p] \in Nat /\ due[p] \in Int
    <2>1. run[c] \in [proc : Slots, share : BOOLEAN]
      BY DEF Stop, LotteryInv, LotteryTypeOK
    <2>. QED  BY <2>1 DEF LotteryInv, LotteryTypeOK
  <1>2. fee \in Int /\ x \in Int
    <2>1. Cost(spotbid[p]) \in Int
      BY <1>0, <1>1, CostType
    <2>. HIDE DEF p
    <2>. QED  BY <1>0, <1>1, <2>1
  <1>3. /\ state' = [state EXCEPT ![p] = st]
        /\ due' = [due EXCEPT ![p] = @ + fee]
        /\ tcharge' = [tcharge EXCEPT ![p] = IF x > Cap THEN @ + 1 ELSE @]
        /\ charge' = [charge EXCEPT ![p] = IF x > Cap THEN Carried(x) ELSE x]
        /\ run' = [run EXCEPT ![c] = NoProc]
        /\ UNCHANGED <<market, np, reserve>>
    BY DEF Stop
  <1>4. Carried(x) \in Int
    <2>. HIDE DEF x
    <2>. QED  BY <1>0, <1>2, DivMod DEF Carried
  <1>. HIDE DEF p, fee, x
  <1>5. LotteryTypeOK'
    <2>1. UNCHANGED <<rpercent, spotbid, np, totalpercent, rpc, n, t, raced>>
      BY <1>3 DEF market, reserve
    <2>2. state' \in [Slots -> {"UNUSED", "EMBRYO", "RUNNABLE", "RUNNING", "SLEEPING", "ZOMBIE"}]
      BY <1>1, <1>3 DEF LotteryInv, LotteryTypeOK
    <2>3. due' \in [Slots -> Int]
      BY <1>1, <1>2, <1>3 DEF LotteryInv, LotteryTypeOK
    <2>4. tcharge' \in [Slots -> Nat]
      BY <1>1, <1>3 DEF LotteryInv, LotteryTypeOK
    <2>5. charge' \in [Slots -> Int]
      BY <1>1, <1>2, <1>3, <1>4 DEF LotteryInv, LotteryTypeOK
    <2>6. run' \in [Schedulers -> [proc : Slots, share : BOOLEAN] \cup {NoProc}]
      BY <1>3 DEF LotteryInv, LotteryTypeOK
    <2>. QED  BY <2>1, <2>2, <2>3, <2>4, <2>5, <2>6 DEF LotteryInv, LotteryTypeOK
  <1>6. Calls' /\ Shares'
    BY <1>3, SharesKept DEF LotteryInv, market
  <1>7. ASSUME Fee < Cap, \A b \in Bids : Cost(b) < Cap, Bills PROVE Bills'
    <2>1. fee < Cap
      BY <1>0, <1>1, <1>7, CostType DEF fee
    <2>2. charge[p] <= Cap /\ tcharge[p] * Cap + charge[p] = due[p]
      BY <1>1, <1>7 DEF Bills
    <2>3. x = charge[p] + fee
      BY DEF x
    <2>4. ASSUME x > Cap PROVE Carried(x) = x - Cap
      <3>. DEFINE d == x - Cap
      <3>1. d \in 0..Cap-1 /\ d + Cap = x /\ d \in Int /\ Cap % Cap = 0 /\ Cap \in Nat \ {0}
        BY <1>0, <1>1, <1>2, <2>1, <2>2, <2>3, <2>4
      <3>. HIDE DEF d
      <3>2. (d + Cap) % Cap = d % Cap
        BY <3>1, Wraps
      <3>3. d % Cap = d
        BY <3>1
      <3>. QED  BY <3>1, <3>2, <3>3 DEF Carried, d
    <2>5. charge'[p] <= Cap /\ tcharge'[p] * Cap + charge'[p] = due'[p]
      <3>1. due'[p] = due[p] + fee
        BY <1>1, <1>3 DEF LotteryInv, LotteryTypeOK
      <3>2. CASE x > Cap
        <4>1. tcharge'[p] = tcharge[p] + 1 /\ charge'[p] = x - Cap
          BY <1>1, <1>3, <2>4, <3>2 DEF LotteryInv, LotteryTypeOK
        <4>2. (tcharge[p] + 1) * Cap = (tcharge[p] * Cap) + Cap /\ tcharge[p] * Cap \in Int
          BY <1>0, <1>1
        <4>. QED  BY <1>0, <1>1, <1>2, <2>1, <2>2, <2>3, <3>1, <4>1, <4>2
      <3>3. CASE ~(x > Cap)
        <4>1. tcharge'[p] = tcharge[p] /\ charge'[p] = x
          BY <1>1, <1>3, <3>3 DEF LotteryInv, LotteryTypeOK
        <4>2. tcharge[p] * Cap \in Int
          BY <1>0, <1>1
        <4>. QED  BY <1>0, <1>1, <1>2, <2>2, <2>3, <3>1, <3>3, <4>1, <4>2
      <3>. QED  BY <3>2, <3>3
    <2>6. ASSUME NEW q \in Slots, q # p
          PROVE  charge'[q] = charge[q] /\ tcharge'[q] = tcharge[q] /\ due'[q] = due[q]
      BY <1>3, <2>6 DEF LotteryInv, LotteryTypeOK
    <2>. QED  BY <1>7, <2>5, <2>6 DEF Bills
  <1>. QED  BY <1>5, <1>6, <1>7 DEF LotteryInv

\* The steps that only change what a process is.
LEMMA StateInv ==
  ASSUME LotteryInv, NEW p \in Slots,
         \/ ForkClaim(p) \/ wait(p) \/ wake(p)
         \/ \E st \in {"RUNNABLE", "UNUSED"} : ForkEnd(p, st)
  PROVE  LotteryInv' /\ (Bills => Bills')
  <1>1. /\ state' \in [Slots -> {"UNUSED", "EMBRYO", "RUNNABLE", "RUNNING", "SLEEPING", "ZOMBIE"}]
        /\ np' \in [Slots -> Slots \cup {0}]
        /\ UNCHANGED <<market, bill, run, reserve>>
    BY DEF LotteryInv, LotteryTypeOK, ForkClaim, ForkEnd, wait, wake
  <1>2. LotteryTypeOK'
    BY <1>1 DEF LotteryInv, LotteryTypeOK, market, bill, reserve
  <1>3. Calls' /\ Shares'
    BY <1>1, SharesKept DEF LotteryInv, market
  <1>. QED  BY <1>1, <1>2, <1>3, BillsKept DEF LotteryInv

\* A bid gives a share back.
LEMMA SpotInv ==
  ASSUME LotteryInv, NEW p \in Slots, NEW b \in Bids, sys_spot(p, b)
  PROVE  LotteryInv' /\ (Bills => Bills')
  <1>1. /\ rpercent' = [rpercent EXCEPT ![p] = 0] /\ spotbid' = [spotbid EXCEPT ![p] = b]
        /\ UNCHANGED <<state, bill, run, np, totalpercent, rpc, n, t, raced>>
    BY DEF sys_spot, reserve
  <1>2. LotteryTypeOK'
    BY <1>1 DEF LotteryInv, LotteryTypeOK, bill
  <1>3. Promised' <= Promised /\ Promised \in Int /\ Promised' \in Int
    <2>1. Promised' = (Promised - rpercent[p]) + 0 /\ rpercent[p] \in Nat /\ Promised \in Nat
      BY <1>1, PromisedIs DEF LotteryInv
    <2>. QED  BY <2>1
  <1>4. Calls'
    BY <1>1 DEF LotteryInv, Calls
  <1>5. Shares'
    <2>1. ASSUME NEW m \in Nat, Promised <= m PROVE Promised' <= m
      BY <1>3, <2>1
    <2>2. totalpercent \in Nat /\ Full \in Nat /\ \A q \in Slots : t[q] \in Nat
      BY LotteryConstants DEF LotteryInv, LotteryTypeOK
    <2>. QED  BY <1>1, <2>1, <2>2 DEF LotteryInv, Shares
  <1>. QED  BY <1>1, <1>2, <1>4, <1>5, BillsKept DEF LotteryInv

LEMMA LoadInv ==
  ASSUME LotteryInv, NEW p \in Slots, NEW k \in Percents, ReserveLoad(p, k)
  PROVE  LotteryInv' /\ (Bills => Bills')
  <1>0. k \in Nat /\ totalpercent \in Nat /\ MaxTotal \in Nat
    BY LotteryConstants DEF LotteryInv, LotteryTypeOK
  <1>1. /\ n' = [n EXCEPT ![p] = k] /\ t' = [t EXCEPT ![p] = totalpercent]
        /\ rpc' = [rpc EXCEPT ![p] = "store"] /\ totalpercent + k <= MaxTotal
        /\ raced' = (raced \/ \E q \in Slots : rpc[q] # "user")
        /\ UNCHANGED <<state, market, bill, run, np, totalpercent>>
    BY DEF ReserveLoad
  <1>2. LotteryTypeOK'
    <2>1. n' \in [Slots -> Nat] /\ t' \in [Slots -> Nat] /\ rpc' \in [Slots -> {"user", "store", "test"}]
      BY <1>0, <1>1 DEF LotteryInv, LotteryTypeOK
    <2>2. raced' \in BOOLEAN
      BY <1>1 DEF LotteryInv, LotteryTypeOK
    <2>. QED  BY <1>1, <2>1, <2>2 DEF LotteryInv, LotteryTypeOK, market, bill
  <1>3. /\ n'[p] = k /\ t'[p] = totalpercent /\ rpc'[p] = "store"
        /\ \A q \in Slots : q # p => n'[q] = n[q] /\ t'[q] = t[q] /\ rpc'[q] = rpc[q]
    BY <1>1 DEF LotteryInv, LotteryTypeOK
  <1>4. Calls'
    BY <1>1, <1>3 DEF LotteryInv, Calls
  <1>5. Shares'
    <2>1. CASE raced'
      BY <2>1 DEF Shares
    <2>2. CASE ~raced'
      <3>1. ~raced /\ \A q \in Slots : rpc[q] = "user"
        BY <1>1, <2>2
      <3>2. Promised' = Promised /\ totalpercent' = totalpercent
        BY <1>1 DEF Promised, market
      <3>. QED  BY <1>3, <3>1, <3>2 DEF LotteryInv, Shares
    <2>. QED  BY <2>1, <2>2
  <1>. QED  BY <1>1, <1>2, <1>4, <1>5, BillsKept DEF LotteryInv

LEMMA StoreInv ==
  ASSUME LotteryInv, NEW p \in Slots, ReserveStore(p)
  PROVE  LotteryInv' /\ (Bills => Bills')
  <1>1. /\ rpc[p] = "store" /\ totalpercent' = t[p] + n[p] /\ rpc' = [rpc EXCEPT ![p] = "test"]
        /\ UNCHANGED <<state, market, bill, run, np, n, t, raced>>
    BY DEF ReserveStore
  <1>2. t[p] \in Nat /\ n[p] \in Nat /\ t[p] + n[p] <= MaxTotal /\ MaxTotal \in Nat
    BY <1>1, LotteryConstants DEF LotteryInv, LotteryTypeOK, Calls
  <1>3. LotteryTypeOK'
    <2>1. totalpercent' \in 0..MaxTotal
      BY <1>1, <1>2
    <2>. QED  BY <1>1, <2>1 DEF LotteryInv, LotteryTypeOK, market, bill
  <1>4. rpc'[p] = "test" /\ \A q \in Slots : q # p => rpc'[q] = rpc[q]
    BY <1>1 DEF LotteryInv, LotteryTypeOK
  <1>5. Calls'
    BY <1>1, <1>4 DEF LotteryInv, Calls
  <1>6. Shares'
    <2>1. CASE raced
      BY <1>1, <2>1 DEF Shares
    <2>2. CASE ~raced
      <3>1. /\ totalpercent = t[p] /\ Promised <= t[p] /\ Promised <= Full
            /\ \A q \in Slots : q # p => rpc[q] = "user"
        BY <1>1, <2>2 DEF LotteryInv, Shares
      <3>2. Promised' = Promised /\ Promised \in Nat
        BY <1>1, PromisedIs DEF Promised, market, LotteryInv
      <3>3. Promised' <= totalpercent'
        BY <1>1, <1>2, <3>1, <3>2
      <3>. QED  BY <1>1, <1>4, <3>1, <3>2, <3>3 DEF Shares
    <2>. QED  BY <2>1, <2>2
  <1>. QED  BY <1>1, <1>3, <1>5, <1>6, BillsKept DEF LotteryInv

LEMMA TestInv ==
  ASSUME LotteryInv, NEW p \in Slots, ReserveTest(p)
  PROVE  LotteryInv' /\ (Bills => Bills')
  <1>1. PICK total \in {totalpercent, t[p] + n[p]} :
          IF total <= Full
            THEN rpercent' = [rpercent EXCEPT ![p] = n[p]] /\ spotbid' = [spotbid EXCEPT ![p] = 0]
            ELSE UNCHANGED market
    BY DEF ReserveTest, Allowed
  <1>2. /\ rpc[p] = "test" /\ rpc' = [rpc EXCEPT ![p] = "user"]
        /\ n' = [n EXCEPT ![p] = 0] /\ t' = [t EXCEPT ![p] = 0]
        /\ UNCHANGED <<state, bill, run, np, totalpercent, raced>>
    BY DEF ReserveTest
  <1>3. t[p] \in Nat /\ n[p] \in Percents /\ n[p] \in Nat /\ totalpercent \in Nat /\ Full \in Nat
    BY <1>2, LotteryConstants DEF LotteryInv, LotteryTypeOK, Calls
  <1>4. LotteryTypeOK'
    <2>1. rpercent' \in [Slots -> Percents \cup {0}] /\ spotbid' \in [Slots -> Bids \cup {0}]
      BY <1>1, <1>3 DEF LotteryInv, LotteryTypeOK, market
    <2>2. rpc' \in [Slots -> {"user", "store", "test"}] /\ n' \in [Slots -> Nat] /\ t' \in [Slots -> Nat]
      BY <1>2 DEF LotteryInv, LotteryTypeOK
    <2>. QED  BY <1>2, <2>1, <2>2 DEF LotteryInv, LotteryTypeOK, bill
  <1>5. rpc'[p] = "user" /\ \A q \in Slots : q # p => rpc'[q] = rpc[q] /\ n'[q] = n[q] /\ t'[q] = t[q]
    BY <1>2 DEF LotteryInv, LotteryTypeOK
  <1>6. Calls'
    BY <1>5 DEF LotteryInv, Calls
  <1>7. Shares'
    <2>1. CASE raced
      BY <1>2, <2>1 DEF Shares
    <2>2. CASE ~raced
      <3>1. /\ totalpercent = t[p] + n[p] /\ Promised <= t[p] /\ Promised <= Full
            /\ \A q \in Slots : q # p => rpc[q] = "user"
        BY <1>2, <2>2 DEF LotteryInv, Shares
      <3>2. Promised' <= totalpercent' /\ Promised' <= Full
        <4>1. total = t[p] + n[p] /\ totalpercent' = t[p] + n[p] /\ Promised \in Nat
          BY <1>1, <1>2, <3>1, PromisedIs DEF LotteryInv
        <4>2. CASE total <= Full
          <5>1. rpercent' = [rpercent EXCEPT ![p] = n[p]]
            BY <1>1, <4>2
          <5>2. Promised' = (Promised - rpercent[p]) + n[p] /\ rpercent[p] \in Nat
            BY <1>3, <5>1, PromisedIs DEF LotteryInv
          <5>. QED  BY <1>3, <3>1, <4>1, <4>2, <5>2
        <4>3. CASE ~(total <= Full)
          <5>1. Promised' = Promised
            BY <1>1, <4>3 DEF Promised, market
          <5>. QED  BY <1>3, <3>1, <4>1, <5>1
        <4>. QED  BY <4>2, <4>3
      <3>3. \A q \in Slots : rpc'[q] = "user"
        BY <1>5, <3>1
      <3>. QED  BY <3>2, <3>3 DEF Shares
    <2>. QED  BY <2>1, <2>2
  <1>. QED  BY <1>2, <1>4, <1>6, <1>7, BillsKept DEF LotteryInv

\* Every step keeps the invariant, and the bills where no turn costs Cap or more.
LEMMA LotteryStep ==
  LotteryInv /\ [LotteryNext]_lotteryvars => LotteryInv' /\ (Fee < Cap /\ (\A b \in Bids : Cost(b) < Cap) /\ Bills => Bills')
  <1>. SUFFICES ASSUME LotteryInv, [LotteryNext]_lotteryvars
                PROVE  LotteryInv' /\ (Fee < Cap /\ (\A b \in Bids : Cost(b) < Cap) /\ Bills => Bills')
    OBVIOUS
  <1>1. CASE UNCHANGED lotteryvars
    <2>1. UNCHANGED <<rpercent, reserve, bill>>
      BY <1>1 DEF lotteryvars, market
    <2>2. LotteryTypeOK'
      BY <1>1 DEF LotteryInv, LotteryTypeOK, lotteryvars, market, bill, reserve
    <2>. QED  BY <2>1, <2>2, SharesKept, BillsKept DEF LotteryInv
  <1>2. ASSUME NEW c \in Schedulers, NEW rand \in 0..Full-1, Draw(c, rand) PROVE LotteryInv' /\ (Bills => Bills')
    BY <1>2, DrawInv
  <1>3. ASSUME NEW c \in Schedulers, NEW st \in {"RUNNABLE", "SLEEPING", "ZOMBIE"}, Stop(c, st)
        PROVE  LotteryInv' /\ (Fee < Cap /\ (\A b \in Bids : Cost(b) < Cap) /\ Bills => Bills')
    BY <1>3, StopInv
  <1>4. ASSUME NEW p \in Slots,
               \/ ForkClaim(p) \/ wait(p) \/ wake(p)
               \/ \E st \in {"RUNNABLE", "UNUSED"} : ForkEnd(p, st)
        PROVE  LotteryInv' /\ (Bills => Bills')
    BY <1>4, StateInv
  <1>5. ASSUME NEW p \in Slots, NEW b \in Bids, sys_spot(p, b) PROVE LotteryInv' /\ (Bills => Bills')
    BY <1>5, SpotInv
  <1>6. ASSUME NEW p \in Slots, NEW k \in Percents, ReserveLoad(p, k) PROVE LotteryInv' /\ (Bills => Bills')
    BY <1>6, LoadInv
  <1>7. ASSUME NEW p \in Slots, ReserveStore(p) \/ ReserveTest(p) PROVE LotteryInv' /\ (Bills => Bills')
    BY <1>7, StoreInv, TestInv
  <1>. QED  BY <1>1, <1>2, <1>3, <1>4, <1>5, <1>6, <1>7 DEF LotteryNext

\* The draw is honest: whatever processes are runnable, of the numbers that can
\* be drawn exactly rpercent choose each reserve process, and only the numbers
\* beyond all reservations choose a spot process, one nobody outbids.
THEOREM DrawsAreHonest == LotterySpec => []DrawsHonest
  <1>1. LotteryInv => DrawsHonest
    BY DrawIsHonest DEF LotteryInv
  <1>2. LotteryInit => LotteryInv
    BY LotteryStart
  <1>3. LotteryInv /\ [LotteryNext]_lotteryvars => LotteryInv'
    BY LotteryStep
  <1>. QED  BY <1>1, <1>2, <1>3, PTL DEF LotterySpec

\* Shares stay within the limit while calls of sys_reserve do not overlap, and no
\* charge is lost, when no turn costs Cap or more.
THEOREM AccountsAreKept ==
  ASSUME Fee < Cap, \A b \in Bids : Cost(b) < Cap
  PROVE  LotterySpec => []AccountsKept
  <1>1. LotteryInv /\ Bills => AccountsKept
    <2>1. Bills => BillKept
      BY DEF Bills, BillKept
    <2>. QED  BY <2>1 DEF LotteryInv, Shares, Promised, AccountsKept, NoOvercommit
  <1>2. LotteryInit => LotteryInv /\ Bills
    BY LotteryStart
  <1>3. (LotteryInv /\ Bills) /\ [LotteryNext]_lotteryvars => (LotteryInv /\ Bills)'
    BY LotteryStep
  <1>. QED  BY <1>1, <1>2, <1>3, PTL DEF LotterySpec
=============================================================================
