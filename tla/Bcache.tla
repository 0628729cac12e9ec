------------------------------- MODULE Bcache -------------------------------
(***************************************************************************)
(* The buffer cache (kernel/bio.c) and the IDE driver under it             *)
(* (kernel/ide.c), used by several processes at once.                      *)
(*                                                                         *)
(* A critical section of bcache.lock or idelock is one action; everything  *)
(* between two critical sections is a separate step.  sleep(chan, lk)      *)
(* releases lk and sleeps in one step and wakeup(chan) wakes every sleeper *)
(* of chan: module Sched models the code that makes this so.               *)
(*                                                                         *)
(* Bget waiters and iderw waiters sleep on the same channel, the buffer,   *)
(* so ideintr also wakes processes that only wait for the buffer; and kill *)
(* wakes a sleeper whatever it sleeps on.                                  *)
(***************************************************************************)
EXTENDS Integers, Sequences, FiniteSets

CONSTANTS
  Procs,        \* processes in the kernel
  Bufs,         \* the NBUF buffers
  Sectors,      \* disk sectors; callers nest bread in increasing order
  Data,         \* sector contents
  ReadErrors,   \* may a read fail (idewait(1) < 0)?
  None          \* not a buffer, not a sector, not a process

ASSUME SectorAssumption == Sectors \subseteq Nat
ASSUME ErrorAssumption == ReadErrors \in BOOLEAN
ASSUME NoneAssumption == None \notin Bufs \cup Sectors \cup Procs
ASSUME BufsAssumption == IsFiniteSet(Bufs) /\ Bufs # {}

VARIABLES
  lru,       \* bcache.head.next ... bcache.head.prev
  sector,    \* b->dev and b->sector
  flags,     \* b->flags
  data,      \* b->data
  idequeue,  \* the driver's queue, first request active
  ide,       \* the disk controller
  disk,      \* what is on the platter
  pc,        \* where each process is
  want,      \* the sector argument of the bread in progress
  cur,       \* the buffer of the call in progress, or slept on
  held,      \* buffers bread has returned and brelse has not got back
  panic      \* bget has panicked: its CPU loops for ever with bcache.lock held

procvars == <<pc, want, cur, held>>
diskvars == <<idequeue, ide, disk>>
vars == <<lru, sector, flags, data, idequeue, ide, disk,
          pc, want, cur, held, panic>>

NBUF == Cardinality(Bufs)
Positions == 1..NBUF
Flags == [busy : BOOLEAN, valid : BOOLEAN, dirty : BOOLEAN]
PCs == {"run", "bget", "bsleep", "got", "iderw", "iosleep", "iocheck"}
Idle == [st |-> "idle"]
Requests == [st : {"busy", "irq"}, op : {"read", "write"},
             sector : Sectors, data : Data]

Done(b) == flags[b].valid /\ ~flags[b].dirty

-----------------------------------------------------------------------------
\* idestart: program the controller; a write hands over the data (outsl)
idestart(b) == [st |-> "busy",
                op |-> IF flags[b].dirty THEN "write" ELSE "read",
                sector |-> sector[b], data |-> data[b]]

\* wakeup(b) on the processes' program counters
wakeup(b) == [p \in Procs |->
                IF cur[p] = b /\ pc[p] = "bsleep" THEN "bget"
                ELSE IF cur[p] = b /\ pc[p] = "iosleep" THEN "iocheck"
                ELSE pc[p]]

\* Faulty: the buffer is linked at the front but not unlinked.
MoveToFront_NoUnlink(s, i) == [k \in Positions |-> IF k = 1 THEN s[i] ELSE s[k-1]]

\* brelse's list surgery: the i-th buffer becomes head.next
MoveToFront(s, i) == [k \in Positions |-> IF k = 1 THEN s[i]
                                          ELSE IF k <= i THEN s[k-1] ELSE s[k]]

\* binit; the order of the list depends only on the buffers' names
Init ==
  /\ lru \in [Positions -> Bufs]
  /\ \A i, j \in Positions : i # j => lru[i] # lru[j]
  /\ sector = [b \in Bufs |-> None]
  /\ flags = [b \in Bufs |-> [busy |-> FALSE, valid |-> FALSE, dirty |-> FALSE]]
  /\ \E zero \in Data : data = [b \in Bufs |-> zero]
  /\ idequeue = <<>>
  /\ ide = Idle
  /\ disk \in [Sectors -> Data]
  /\ pc = [p \in Procs |-> "run"]
  /\ want = [p \in Procs |-> None]
  /\ cur = [p \in Procs |-> None]
  /\ held = [p \in Procs |-> {}]
  /\ panic = FALSE

-----------------------------------------------------------------------------
\* A caller enters bread.  It may hold any number of buffers, of smaller
\* sectors only: in fs.c a block of the locked inode comes first, the bitmap
\* block last.
BreadCall(p, s) ==
  /\ pc[p] = "run"
  /\ \A b \in held[p] : sector[b] < s
  /\ pc' = [pc EXCEPT ![p] = "bget"]
  /\ want' = [want EXCEPT ![p] = s]
  /\ UNCHANGED <<lru, sector, flags, data, diskvars, cur, held, panic>>

\* bget's first loop found the sector in b
Cached(p, b) == sector[b] = want[p]

\* Faulty: B_BUSY is not tested.
BgetHit_NoBusyTest(p, b) ==
  /\ pc[p] = "bget"
  /\ ~panic
  /\ Cached(p, b)
  /\ flags' = [flags EXCEPT ![b].busy = TRUE]
  /\ cur' = [cur EXCEPT ![p] = b]
  /\ pc' = [pc EXCEPT ![p] = "got"]
  /\ UNCHANGED <<lru, sector, data, diskvars, want, held, panic>>

\* ... free: take it
BgetHit(p, b) ==
  /\ pc[p] = "bget"
  /\ ~panic
  /\ Cached(p, b)
  /\ ~flags[b].busy
  /\ flags' = [flags EXCEPT ![b].busy = TRUE]
  /\ cur' = [cur EXCEPT ![p] = b]
  /\ pc' = [pc EXCEPT ![p] = "got"]
  /\ UNCHANGED <<lru, sector, data, diskvars, want, held, panic>>

\* ... busy: sleep on it, and scan again after the wakeup (goto loop)
BgetSleep(p, b) ==
  /\ pc[p] = "bget"
  /\ ~panic
  /\ Cached(p, b)
  /\ flags[b].busy
  /\ cur' = [cur EXCEPT ![p] = b]
  /\ pc' = [pc EXCEPT ![p] = "bsleep"]
  /\ UNCHANGED <<lru, sector, flags, data, diskvars, want, held, panic>>

\* Faulty: a fresh buffer although the sector is cached and busy.
BgetFresh_NoScan(p, i) ==
  /\ pc[p] = "bget"
  /\ ~panic
  /\ \A b \in Bufs : Cached(p, b) => flags[b].busy
  /\ ~flags[lru[i]].busy
  /\ \A j \in i+1..NBUF : flags[lru[j]].busy
  /\ sector' = [sector EXCEPT ![lru[i]] = want[p]]
  /\ flags' = [flags EXCEPT ![lru[i]] =
                 [busy |-> TRUE, valid |-> FALSE, dirty |-> FALSE]]
  /\ cur' = [cur EXCEPT ![p] = lru[i]]
  /\ pc' = [pc EXCEPT ![p] = "got"]
  /\ UNCHANGED <<lru, data, diskvars, want, held, panic>>

\* Faulty: flags |= B_BUSY, so a recycled buffer stays valid.
BgetFresh_KeepValid(p, i) ==
  /\ pc[p] = "bget"
  /\ ~panic
  /\ \A b \in Bufs : ~Cached(p, b)
  /\ ~flags[lru[i]].busy
  /\ \A j \in i+1..NBUF : flags[lru[j]].busy
  /\ sector' = [sector EXCEPT ![lru[i]] = want[p]]
  /\ flags' = [flags EXCEPT ![lru[i]].busy = TRUE]
  /\ cur' = [cur EXCEPT ![p] = lru[i]]
  /\ pc' = [pc EXCEPT ![p] = "got"]
  /\ UNCHANGED <<lru, data, diskvars, want, held, panic>>

\* bget's second loop, from the tail: the i-th buffer is the first free one
BgetFresh(p, i) ==
  /\ pc[p] = "bget"
  /\ ~panic
  /\ \A b \in Bufs : ~Cached(p, b)
  /\ ~flags[lru[i]].busy
  /\ \A j \in i+1..NBUF : flags[lru[j]].busy
  /\ sector' = [sector EXCEPT ![lru[i]] = want[p]]
  /\ flags' = [flags EXCEPT ![lru[i]] =
                 [busy |-> TRUE, valid |-> FALSE, dirty |-> FALSE]]
  /\ cur' = [cur EXCEPT ![p] = lru[i]]
  /\ pc' = [pc EXCEPT ![p] = "got"]
  /\ UNCHANGED <<lru, data, diskvars, want, held, panic>>

\* Faulty: the second loop takes only a buffer that was never used.
BgetPanic_NeverUsed(p) ==
  /\ pc[p] = "bget"
  /\ ~panic
  /\ \A b \in Bufs : ~Cached(p, b) /\ (flags[b].busy \/ flags[b].valid)
  /\ panic' = TRUE
  /\ UNCHANGED <<lru, sector, flags, data, diskvars, procvars>>

\* neither loop found one: panic("bget: no buffers").  Only this CPU stops, but
\* it stops inside the critical section, so bget and brelse block everyone.
BgetPanic(p) ==
  /\ pc[p] = "bget"
  /\ ~panic
  /\ \A b \in Bufs : ~Cached(p, b) /\ flags[b].busy
  /\ panic' = TRUE
  /\ UNCHANGED <<lru, sector, flags, data, diskvars, procvars>>

\* bread after bget: a valid buffer is returned, an invalid one is read
Bread(p) ==
  /\ pc[p] = "got"
  /\ IF flags[cur[p]].valid
       THEN /\ pc' = [pc EXCEPT ![p] = "run"]
            /\ held' = [held EXCEPT ![p] = @ \cup {cur[p]}]
       ELSE /\ pc' = [pc EXCEPT ![p] = "iderw"]
            /\ UNCHANGED held
  /\ UNCHANGED <<lru, sector, flags, data, diskvars, want, cur, panic>>

\* The holder fills b->data and calls bwrite
Bwrite(p, b, v) ==
  /\ pc[p] = "run"
  /\ b \in held[p]
  /\ data' = [data EXCEPT ![b] = v]
  /\ flags' = [flags EXCEPT ![b].dirty = TRUE]
  /\ cur' = [cur EXCEPT ![p] = b]
  /\ pc' = [pc EXCEPT ![p] = "iderw"]
  /\ UNCHANGED <<lru, sector, diskvars, want, held, panic>>

\* Faulty: waits for B_VALID only, so a write is not waited for.
Iderw_NoWait(p) ==
  /\ pc[p] = "iderw"
  /\ idequeue' = Append(idequeue, cur[p])
  /\ ide' = IF idequeue = <<>> THEN idestart(cur[p]) ELSE ide
  /\ pc' = [pc EXCEPT ![p] = IF flags[cur[p]].valid THEN "run" ELSE "iosleep"]
  /\ UNCHANGED <<lru, sector, flags, data, disk, want, cur, held, panic>>

\* iderw: append to the queue, start the disk if it was idle, sleep
Iderw(p) ==
  /\ pc[p] = "iderw"
  /\ idequeue' = Append(idequeue, cur[p])
  /\ ide' = IF idequeue = <<>> THEN idestart(cur[p]) ELSE ide
  /\ pc' = [pc EXCEPT ![p] = "iosleep"]
  /\ UNCHANGED <<lru, sector, flags, data, disk, want, cur, held, panic>>

\* Faulty: submits the request again after every wakeup.
IderwCheck_Resubmit(p) ==
  /\ pc[p] = "iocheck"
  /\ pc' = [pc EXCEPT ![p] = "iderw"]
  /\ UNCHANGED <<lru, sector, flags, data, diskvars, want, cur, held, panic>>

\* Faulty: "if" for "while": whoever is woken returns with the buffer.
IderwCheck_If(p) ==
  /\ pc[p] = "iocheck"
  /\ pc' = [pc EXCEPT ![p] = "run"]
  /\ held' = [held EXCEPT ![p] = @ \cup {cur[p]}]
  /\ UNCHANGED <<lru, sector, flags, data, diskvars, want, cur, panic>>

\* iderw's while condition after a wakeup: ideintr's, or that of a kill, which
\* finds the request still in the queue
IderwCheck(p) ==
  /\ pc[p] = "iocheck"
  /\ IF Done(cur[p])
       THEN /\ pc' = [pc EXCEPT ![p] = "run"]
            /\ held' = [held EXCEPT ![p] = @ \cup {cur[p]}]
       ELSE /\ pc' = [pc EXCEPT ![p] = "iosleep"]
            /\ UNCHANGED held
  /\ UNCHANGED <<lru, sector, flags, data, diskvars, want, cur, panic>>

Brelse(p, i) ==
  /\ pc[p] = "run"
  /\ ~panic
  /\ lru[i] \in held[p]
  /\ lru' = MoveToFront(lru, i)
  /\ flags' = [flags EXCEPT ![lru[i]].busy = FALSE]
  /\ pc' = wakeup(lru[i])
  /\ held' = [held EXCEPT ![p] = @ \ {lru[i]}]
  /\ UNCHANGED <<sector, data, diskvars, want, cur, panic>>

\* The controller finishes the active request and raises the interrupt
DiskDone ==
  /\ ide.st = "busy"
  /\ disk' = IF ide.op = "write" THEN [disk EXCEPT ![ide.sector] = ide.data]
                                 ELSE disk
  /\ ide' = [ide EXCEPT !.st = "irq"]
  /\ UNCHANGED <<lru, sector, flags, data, idequeue, procvars, panic>>

\* ideintr for the first request; ok: idewait(1) >= 0.  An interrupt that
\* finds the queue empty changes nothing.
Ideintr(ok) ==
  /\ ide.st = "irq"
  /\ idequeue # <<>>
  /\ LET b == Head(idequeue) IN
       /\ data' = IF ~flags[b].dirty /\ ok
                    THEN [data EXCEPT ![b] = disk[ide.sector]] ELSE data
       /\ flags' = [flags EXCEPT ![b].valid = TRUE, ![b].dirty = FALSE]
       /\ pc' = wakeup(b)
  /\ idequeue' = Tail(idequeue)
  /\ ide' = IF Tail(idequeue) = <<>> THEN Idle ELSE idestart(Head(Tail(idequeue)))
  /\ UNCHANGED <<lru, sector, disk, want, cur, held, panic>>

\* kill makes a sleeping process RUNNABLE; neither bget nor iderw looks at
\* p->killed, so both go on where they slept.
kill(p) ==
  /\ pc[p] \in {"bsleep", "iosleep"}
  /\ pc' = [pc EXCEPT ![p] = IF @ = "bsleep" THEN "bget" ELSE "iocheck"]
  /\ UNCHANGED <<lru, sector, flags, data, diskvars, want, cur, held, panic>>

-----------------------------------------------------------------------------
Bget(p) == \/ \E b \in Bufs : BgetHit(p, b) \/ BgetSleep(p, b)
           \/ \E i \in Positions : BgetFresh(p, i)
           \/ BgetPanic(p)

\* the steps a process takes once it is inside a call
InCall(p) == Bget(p) \/ Bread(p) \/ Iderw(p) \/ IderwCheck(p)

Release(p, b) == \E i \in Positions : lru[i] = b /\ Brelse(p, i)

Caller(p) == \/ \E s \in Sectors : BreadCall(p, s)
             \/ \E b \in Bufs, v \in Data : Bwrite(p, b, v)
             \/ \E b \in Bufs : Release(p, b)

Interrupt == Ideintr(TRUE) \/ (ReadErrors /\ Ideintr(FALSE))

Next == \/ \E p \in Procs : InCall(p) \/ Caller(p) \/ kill(p)
        \/ DiskDone
        \/ Interrupt

Spec == Init /\ [][Next]_vars

\* Runnable processes are scheduled round robin, the disk answers, and its
\* interrupt is delivered; a caller gives back every buffer it holds,
\* after finitely many reads and writes.
Fairness == /\ \A p \in Procs : /\ WF_vars(InCall(p))
                                /\ \A b \in Bufs : SF_vars(Release(p, b))
            /\ WF_vars(DiskDone)
            /\ WF_vars(Interrupt)

LiveSpec == Spec /\ Fairness
-----------------------------------------------------------------------------
(* Properties *)

\* p is the process that set B_BUSY on b and has not cleared it
Holder(p, b) == \/ b \in held[p]
                \/ cur[p] = b /\ pc[p] \in {"got", "iderw", "iosleep", "iocheck"}

\* Every variable has its type; the LRU list links every buffer exactly once.
TypeOK ==
  /\ lru \in [Positions -> Bufs]
  /\ \A i, j \in Positions : i # j => lru[i] # lru[j]
  /\ sector \in [Bufs -> Sectors \cup {None}]
  /\ flags \in [Bufs -> Flags]
  /\ data \in [Bufs -> Data]
  /\ idequeue \in Seq(Bufs)
  /\ ide \in {Idle} \cup Requests
  /\ disk \in [Sectors -> Data]
  /\ pc \in [Procs -> PCs]
  /\ want \in [Procs -> Sectors \cup {None}]
  /\ cur \in [Procs -> Bufs \cup {None}]
  /\ held \in [Procs -> SUBSET Bufs]
  /\ panic \in BOOLEAN

\* The inductive invariant's auxiliary part: what a process inside a call has
\* in hand, and when its buffers are clean.
CallState ==
  /\ \A p \in Procs :
       /\ pc[p] \in {"got", "iderw", "iosleep", "iocheck"} => cur[p] \in Bufs
       /\ pc[p] \in {"bget", "bsleep"} => want[p] \in Sectors
       /\ pc[p] = "got" => ~flags[cur[p]].dirty
       /\ pc[p] \in {"iderw", "iosleep"} => ~Done(cur[p])
       /\ \A b \in held[p] :
            Done(b) \/ (cur[p] = b /\ pc[p] \in {"iderw", "iosleep", "iocheck"})
  /\ \A b \in Bufs : flags[b].busy \/ flags[b].valid => sector[b] \in Sectors
  /\ ide # Idle /\ ide.st = "irq" /\ ide.op = "write" => disk[ide.sector] = ide.data

\* bget never gives one sector two buffers, though it drops bcache.lock while
\* it sleeps and buffers are recycled under it.
OneBufferPerSector ==
  \A b, c \in Bufs : b # c /\ sector[b] # None => sector[b] # sector[c]

\* B_BUSY is a lock: a busy buffer has exactly one holder, a free one none.
BusyIsALock ==
  /\ \A b \in Bufs : flags[b].busy <=> \E p \in Procs : Holder(p, b)
  /\ \A b \in Bufs, p, q \in Procs : Holder(p, b) /\ Holder(q, b) => p = q

\* No buffer is free while it has something left to write, so recycling one
\* in bget (which looks only at B_BUSY) never drops a write.
FreeIsClean == \A b \in Bufs : flags[b].dirty => flags[b].busy

\* The driver's queue: the requests are different buffers whose holders wait
\* in iderw's loop for them, and the controller works on the first one, with the
\* direction and the sector of that buffer.
QueueSound ==
  /\ \A i, j \in DOMAIN idequeue : i # j => idequeue[i] # idequeue[j]
  /\ \A i \in DOMAIN idequeue :
       /\ ~Done(idequeue[i])
       /\ \E p \in Procs : cur[p] = idequeue[i] /\ pc[p] \in {"iosleep", "iocheck"}
  /\ IF idequeue = <<>> THEN ide = Idle
     ELSE LET b == idequeue[1] IN
            /\ ide # Idle
            /\ ide.sector = sector[b]
            /\ flags[b].dirty <=> ide.op = "write"
            /\ flags[b].dirty => ide.data = data[b]

\* A process asleep in iderw, or woken before its transfer is done and so about
\* to sleep again, is in the queue: nobody waits for an interrupt that has come
\* and gone.
SleepersQueued ==
  \A p \in Procs :
    pc[p] = "iosleep" \/ (pc[p] = "iocheck" /\ ~Done(cur[p]))
      => \E i \in DOMAIN idequeue : idequeue[i] = cur[p]

\* The conditions on which bwrite, brelse and iderw panic never hold: a held
\* buffer is busy, and iderw is only called with something to do.
NoMisuse ==
  \A p \in Procs : /\ \A b \in held[p] : flags[b].busy
                   /\ pc[p] = "iderw" => flags[cur[p]].busy /\ ~Done(cur[p])

\* A valid clean buffer holds what the disk holds, in use or not ("the contents
\* of the indicated disk sector").
CacheCoherent ==
  \A b \in Bufs : Done(b) => sector[b] # None /\ data[b] = disk[sector[b]]

\* bread and bwrite return buffers that agree with the disk, whatever the
\* other processes and the disk were doing.
ReturnsSectorContents ==
  \A p \in Procs : pc[p] = "run" =>
    \A b \in held[p] : data[b] = disk[sector[b]]

\* The cache agrees with the disk, for those who look at a buffer and for those
\* who hold one.
Coherence == CacheCoherent /\ ReturnsSectorContents

\* A buffer is with the driver exactly while it must be: free ones are clean, the
\* queue holds the requests of processes that wait in iderw, killed or not, and
\* the controller works on its head.
DriverSound == FreeIsClean /\ QueueSound /\ SleepersQueued

\* "bget: no buffers" is honest: when it strikes, some process is in each of
\* the NBUF buffers and the sector asked for is in none of them; no buffer is
\* lost, to a sleeper woken by a kill or to a transfer nobody waits for.
PanicOnlyWhenFull ==
  panic => /\ \A b \in Bufs : \E p \in Procs : Holder(p, b)
           /\ \E p \in Procs : pc[p] = "bget" /\ \A b \in Bufs : ~Cached(p, b)

\* Of the panics of bio.c and ide.c only that of bget happens, and only when the
\* callers need more than NBUF buffers at the same time.
PanicsExplained == NoMisuse /\ PanicOnlyWhenFull

\* A process waiting for a busy buffer is woken again, unless bget panics.
BgetSleeperWakes == \A p \in Procs : pc[p] = "bsleep" ~> pc[p] # "bsleep" \/ panic

\* Every transfer a process waits for finishes and the call returns, unless
\* bget panics.
IoCompletes == \A p \in Procs : pc[p] = "iderw" ~> pc[p] = "run" \/ panic

\* No call is left asleep, in bget or in iderw, which share their channel.
CallsReturn == BgetSleeperWakes /\ IoCompletes

\* The cache with its driver implements exclusive, write-through sectors.
Owner(s) == IF \E p \in Procs : \E b \in held[p] : sector[b] = s
              THEN CHOOSE p \in Procs : \E b \in held[p] : sector[b] = s
              ELSE None
View(s) == IF Owner(s) = None THEN disk[s]
           ELSE data[CHOOSE b \in held[Owner(s)] : sector[b] = s]
Store == INSTANCE SectorStore WITH
           owner <- [s \in Sectors |-> Owner(s)],
           view <- [s \in Sectors |-> View(s)],
           store <- disk, Free <- None
ImplementsSectorStore == Store!Spec
=============================================================================
