--------------------------------- MODULE Pipe ---------------------------------
(***************************************************************************)
(* kernel/pipe.c: a pipe shared by processes that read, write, close and   *)
(* are killed.  p->lock is a variable: a process that copies bytes or is   *)
(* about to sleep holds it over several steps, and kill does not take it.  *)
(* sleep and wakeup are those of proc.c: sleep gives the lock up and the   *)
(* sleeper, once woken, takes it again.  An end is closed (pipeclose) with *)
(* the last descriptor for it, which fileclose counts.                     *)
(***************************************************************************)
EXTENDS Integers, FiniteSets

CONSTANTS
  Procs, Byte,
  Ends,      \* the descriptors each process starts with
  PIPESIZE,
  W,         \* nread and nwrite are unsigned ints modulo W
  Reqs,      \* the arguments n of read and write
  Killable,  \* the processes that may be killed
  None, EOF

ASSUME SizeAssumption == PIPESIZE \in Nat \ {0}
ASSUME WAssumption == W \in Nat /\ W % PIPESIZE = 0 /\ W > PIPESIZE
ASSUME EndsAssumption == /\ Ends \in [Procs -> SUBSET {"r", "w"}]
                         /\ \A e \in {"r", "w"} : \E p \in Procs : e \in Ends[p]
ASSUME ReqsAssumption == Reqs \subseteq Nat \ {0}
ASSUME KillableAssumption == Killable \subseteq Procs
ASSUME NoneAssumption == None \notin Procs

VARIABLES
  data, nread, nwrite, readopen, writeopen,  \* struct pipe
  lock,            \* the holder of p->lock
  freed,           \* has the page been given to kfree?
  fds,             \* the ends each process has open
  pc, left, took,  \* where each process is, n - i, and i > 0 in piperead
  killed,
  got              \* the last byte or end of file a reader was given

pipe == <<data, nread, nwrite, readopen, writeopen>>
vars == <<pipe, lock, freed, fds, pc, left, took, killed, got>>

Waiting == {"w_acq", "r_acq"}
Holding == {"w", "w_doze", "r", "r_doze", "r_copy"}
Sleeping == {"w_sleep", "r_sleep"}
PCs == {"idle", "cr_acq", "cw_acq"} \cup Waiting \cup Holding \cup Sleeping

\* pipealloc; then the processes inherit the descriptors
Init ==
  /\ data = [k \in 0..PIPESIZE-1 |-> None]
  /\ nread = 0 /\ nwrite = 0
  /\ readopen = TRUE /\ writeopen = TRUE
  /\ lock = None /\ freed = FALSE
  /\ fds = Ends
  /\ pc = [p \in Procs |-> "idle"]
  /\ left = [p \in Procs |-> 0] /\ took = [p \in Procs |-> FALSE]
  /\ killed = [p \in Procs |-> FALSE]
  /\ got = EOF

\* Faulty: off by one.
Full_Late == nwrite = (nread + PIPESIZE + 1) % W

Full == nwrite = (nread + PIPESIZE) % W
Empty == nread = nwrite

At(p, a) == pc[p] = a
Go(p, b) == pc' = [pc EXCEPT ![p] = b]

\* Faulty: the sleepers stay asleep.
Woken_Not(q, a) == pc[q]

\* Faulty: only readers are ever woken.
Woken_Readers(q, a) == IF a = "r" /\ pc[q] = "r_sleep" THEN "r_acq" ELSE pc[q]

\* the sleepers of an end go and take the lock
Woken(q, a) == IF a = "r" /\ pc[q] = "r_sleep" THEN "r_acq"
               ELSE IF a = "w" /\ pc[q] = "w_sleep" THEN "w_acq" ELSE pc[q]

\* wakeup of an end's sleepers by p, which itself goes to b
wakeup(p, a, b) == pc' = [q \in Procs |-> IF q = p THEN b ELSE Woken(q, a)]

\* acquire(&p->lock), at the start or at the end of sleep
Acquire(p) ==
  /\ pc[p] \in Waiting
  /\ lock = None
  /\ lock' = p
  /\ Go(p, IF pc[p] = "w_acq" THEN "w" ELSE "r")
  /\ UNCHANGED <<pipe, freed, fds, left, took, killed, got>>

-----------------------------------------------------------------------------
(* pipewrite *)

WriteCall(p, k) ==
  /\ At(p, "idle") /\ "w" \in fds[p] /\ ~killed[p]
  /\ left' = [left EXCEPT ![p] = k]
  /\ Go(p, "w_acq")
  /\ UNCHANGED <<pipe, lock, freed, fds, took, killed, got>>

WriteByte(p, b) ==
  /\ At(p, "w") /\ left[p] > 0 /\ ~Full
  /\ data' = [data EXCEPT ![nwrite % PIPESIZE] = b]
  /\ nwrite' = (nwrite + 1) % W
  /\ left' = [left EXCEPT ![p] = @ - 1]
  /\ UNCHANGED <<nread, readopen, writeopen, lock, freed, fds, pc, took, killed, got>>

\* return -1
WriteFail(p) ==
  /\ At(p, "w") /\ left[p] > 0 /\ Full
  /\ ~readopen \/ killed[p]
  /\ lock' = None
  /\ Go(p, "idle")
  /\ left' = [left EXCEPT ![p] = 0]
  /\ UNCHANGED <<pipe, freed, fds, took, killed, got>>

\* wakeup(&p->nread); the process is now committed to sleep
WriteBlock(p) ==
  /\ At(p, "w") /\ left[p] > 0 /\ Full
  /\ readopen /\ ~killed[p]
  /\ wakeup(p, "r", "w_doze")
  /\ UNCHANGED <<pipe, lock, freed, fds, left, took, killed, got>>

\* sleep(&p->nwrite, &p->lock) or sleep(&p->nread, &p->lock)
Sleep(p) ==
  /\ pc[p] \in {"w_doze", "r_doze"}
  /\ lock' = None
  /\ Go(p, IF pc[p] = "w_doze" THEN "w_sleep" ELSE "r_sleep")
  /\ UNCHANGED <<pipe, freed, fds, left, took, killed, got>>

WriteDone(p) ==
  /\ At(p, "w") /\ left[p] = 0
  /\ wakeup(p, "r", "idle")
  /\ lock' = None
  /\ UNCHANGED <<pipe, freed, fds, left, took, killed, got>>

-----------------------------------------------------------------------------
(* piperead *)

ReadCall(p, k) ==
  /\ At(p, "idle") /\ "r" \in fds[p] /\ ~killed[p]
  /\ left' = [left EXCEPT ![p] = k]
  /\ Go(p, "r_acq")
  /\ UNCHANGED <<pipe, lock, freed, fds, took, killed, got>>

\* return -1
ReadFail(p) ==
  /\ At(p, "r") /\ Empty /\ writeopen /\ killed[p]
  /\ lock' = None
  /\ Go(p, "idle")
  /\ left' = [left EXCEPT ![p] = 0]
  /\ UNCHANGED <<pipe, freed, fds, took, killed, got>>

ReadBlock(p) ==
  /\ At(p, "r") /\ Empty /\ writeopen /\ ~killed[p]
  /\ Go(p, "r_doze")
  /\ UNCHANGED <<pipe, lock, freed, fds, left, took, killed, got>>

ReadStart(p) ==
  /\ At(p, "r") /\ ~(Empty /\ writeopen)
  /\ Go(p, "r_copy")
  /\ UNCHANGED <<pipe, lock, freed, fds, left, took, killed, got>>

ReadByte(p) ==
  /\ At(p, "r_copy") /\ left[p] > 0 /\ ~Empty
  /\ got' = data[nread % PIPESIZE]
  /\ nread' = (nread + 1) % W
  /\ left' = [left EXCEPT ![p] = @ - 1]
  /\ took' = [took EXCEPT ![p] = TRUE]
  /\ UNCHANGED <<data, nwrite, readopen, writeopen, lock, freed, fds, pc, killed>>

\* return i, which is 0 at end of file
ReadDone(p) ==
  /\ At(p, "r_copy") /\ (left[p] = 0 \/ Empty)
  /\ got' = IF took[p] THEN got ELSE EOF
  /\ wakeup(p, "w", "idle")
  /\ lock' = None
  /\ left' = [left EXCEPT ![p] = 0]
  /\ took' = [took EXCEPT ![p] = FALSE]
  /\ UNCHANGED <<pipe, freed, fds, killed>>

-----------------------------------------------------------------------------
(* close, and kill *)

\* fileclose: the last descriptor of the end takes the end along
Close(p, e) ==
  /\ At(p, "idle") /\ e \in fds[p]
  /\ fds' = [fds EXCEPT ![p] = @ \ {e}]
  /\ Go(p, IF \E q \in Procs \ {p} : e \in fds[q] THEN "idle"
           ELSE IF e = "r" THEN "cr_acq" ELSE "cw_acq")
  /\ UNCHANGED <<pipe, lock, freed, left, took, killed, got>>

\* Faulty: freed when one end is closed.
LastEnd_Early == TRUE

\* after this close nobody has an end open
LastEnd == ~(readopen' \/ writeopen')

pipeclose(p) ==
  /\ pc[p] \in {"cr_acq", "cw_acq"}
  /\ lock = None
  /\ writeopen' = (writeopen /\ pc[p] # "cw_acq")
  /\ readopen' = (readopen /\ pc[p] # "cr_acq")
  /\ wakeup(p, IF pc[p] = "cw_acq" THEN "r" ELSE "w", "idle")
  /\ freed' = (freed \/ LastEnd)
  /\ UNCHANGED <<data, nread, nwrite, lock, fds, left, took, killed, got>>

\* kill of proc.c
kill(p) ==
  /\ ~killed[p]
  /\ killed' = [killed EXCEPT ![p] = TRUE]
  /\ Go(p, IF pc[p] = "r_sleep" THEN "r_acq"
           ELSE IF pc[p] = "w_sleep" THEN "w_acq" ELSE pc[p])
  /\ UNCHANGED <<pipe, lock, freed, fds, left, took, got>>

-----------------------------------------------------------------------------
Write(p) == \/ \E b \in Byte : WriteByte(p, b)
            \/ WriteFail(p) \/ WriteBlock(p) \/ WriteDone(p)
Read(p) == ReadFail(p) \/ ReadBlock(p) \/ ReadStart(p) \/ ReadByte(p) \/ ReadDone(p)

\* the steps of a process once it is inside a call
InCall(p) == Acquire(p) \/ Sleep(p) \/ Write(p) \/ Read(p) \/ pipeclose(p)

Next ==
  \/ \E p \in Procs : InCall(p)
  \/ \E p \in Procs : \E k \in Reqs : WriteCall(p, k) \/ ReadCall(p, k)
  \/ \E p \in Procs : \E e \in {"r", "w"} : Close(p, e)
  \/ \E p \in Killable : kill(p)

Spec == Init /\ [][Next]_vars

\* A process in the kernel goes on, and gets a lock that is free again and
\* again.  A process with the read end open keeps reading until it closes it or
\* is killed; trap makes a killed one exit, which closes its descriptors.
Fairness ==
  \A p \in Procs : /\ SF_vars(InCall(p))
                   /\ WF_vars((\E k \in Reqs : ReadCall(p, k))
                              \/ (killed[p] /\ \E e \in {"r", "w"} : Close(p, e)))

LiveSpec == Spec /\ Fairness
-----------------------------------------------------------------------------
(* Properties *)

TypeOK ==
  /\ data \in [0..PIPESIZE-1 -> Byte \cup {None}]
  /\ nread \in 0..W-1 /\ nwrite \in 0..W-1
  /\ readopen \in BOOLEAN /\ writeopen \in BOOLEAN /\ freed \in BOOLEAN
  /\ lock \in Procs \cup {None}
  /\ fds \in [Procs -> SUBSET {"r", "w"}]
  /\ pc \in [Procs -> PCs]
  /\ left \in [Procs -> Nat] /\ took \in [Procs -> BOOLEAN]
  /\ killed \in [Procs -> BOOLEAN]
  /\ got \in Byte \cup {EOF}

\* Nobody touches the page after kfree: once both ends are closed no process is
\* on its way into the pipe or asleep in it.
NoUseAfterFree == freed => \A p \in Procs : pc[p] = "idle"

\* An end is open as long as a process has it open or is inside an operation on
\* it, and its close is on the way when nobody has it.
EndsCounted ==
  /\ (\E p \in Procs : "r" \in fds[p] \/ pc[p] = "cr_acq") <=> readopen
  /\ (\E p \in Procs : "w" \in fds[p] \/ pc[p] = "cw_acq") <=> writeopen

\* Types, and the page lives as long as somebody can reach it.
PageOwned == TypeOK /\ NoUseAfterFree /\ EndsCounted

\* A sleeping writer finds the pipe full and the read end open, whenever nobody
\* is in the middle of a transfer.
WriterBlocked ==
  lock = None => \A p \in Procs : pc[p] = "w_sleep" => Full /\ readopen

WriterKilled == \E p \in Procs : killed[p] /\ "w" \in Ends[p]

\* A reader sleeps only while the write end is open and the pipe is empty
\* ("pipe-empty", pipe.c); the pipe may hold bytes beside it only once a process
\* that could write has been killed: a killed writer that finds the pipe full
\* returns without waking the readers.  A killed reader costs nobody a wakeup.
ReaderBlocked ==
  lock = None => \A p \in Procs : pc[p] = "r_sleep" => writeopen /\ (Empty \/ WriterKilled)

\* Nobody sleeps beside work, as long as no writer is killed.
SleepersBlocked == WriterBlocked /\ ReaderBlocked

Count == (nwrite - nread) % W
Queue == [k \in 1..Count |-> data[(nread + k - 1) % PIPESIZE]]

Promise == INSTANCE Fifo WITH Size <- PIPESIZE, q <- Queue,
                              ropen <- readopen, wopen <- writeopen

\* The ring with its two counters, which wrap around, is a FIFO queue; a read
\* returns 0 only at the end of the file.
ImplementsFifo == Promise!Spec

\* Every write ends, while somebody reads or when the readers are gone; and once
\* the write end is closed every read ends, also that of a reader which was
\* asleep when pipeclose cleared writeopen.
TransfersEnd ==
  \A p \in Procs :
    \/ pc[p] \in {"w_acq", "w_sleep"}
    \/ pc[p] \in {"r_acq", "r_sleep"} /\ ~writeopen
    ~> pc[p] = "idle"
=============================================================================
