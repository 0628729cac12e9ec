----------------------------- MODULE BcacheProofs -----------------------------
(***************************************************************************)
(* Proofs about Bcache, for every set of processes, buffers and sectors.   *)
(***************************************************************************)
EXTENDS Bcache, FiniteSetTheorems, FunctionTheorems, SequenceTheorems, TLAPS

\* The inductive invariant.
Inv == /\ TypeOK /\ CallState
       /\ OneBufferPerSector /\ BusyIsALock /\ FreeIsClean
       /\ QueueSound /\ SleepersQueued

\* Next as one disjunction of actions, with the panic test dropped.
Step == \/ \E p \in Procs, s \in Sectors : BreadCall(p, s)
        \/ \E p \in Procs, b \in Bufs : BgetHit(p, b)
        \/ \E p \in Procs, b \in Bufs : BgetSleep(p, b)
        \/ \E p \in Procs, i \in Positions : BgetFresh(p, i)
        \/ \E p \in Procs : BgetPanic(p)
        \/ \E p \in Procs : Bread(p)
        \/ \E p \in Procs, b \in Bufs, v \in Data : Bwrite(p, b, v)
        \/ \E p \in Procs : Iderw(p)
        \/ \E p \in Procs : IderwCheck(p)
        \/ \E p \in Procs, i \in Positions : Brelse(p, i)
        \/ DiskDone
        \/ \E ok \in BOOLEAN : Ideintr(ok)
        \/ \E p \in Procs : kill(p)

\* Every step of the specification is one of the listed actions.
LEMMA NextIsStep == Next => Step
  BY DEF Next, Step, InCall, Bget, Caller, Release, Interrupt

\* NBUF is a natural number: 1..NBUF are the places of the LRU list.
LEMMA NBUFType == NBUF \in Nat
  BY BufsAssumption, FS_CardinalityType DEF NBUF

\* Moving a buffer to the front of a list without repetitions gives one.
LEMMA MoveToFrontKeeps ==
  ASSUME NEW s \in [Positions -> Bufs], NEW i \in Positions,
         \A k, l \in Positions : k # l => s[k] # s[l]
  PROVE  /\ MoveToFront(s, i) \in [Positions -> Bufs]
         /\ \A k, l \in Positions : k # l => MoveToFront(s, i)[k] # MoveToFront(s, i)[l]
  <1>1. \A k \in Positions : k # 1 => k - 1 \in Positions
    BY NBUFType DEF Positions
  <1>2. MoveToFront(s, i) \in [Positions -> Bufs]
    BY <1>1 DEF MoveToFront
  <1>3. ASSUME NEW k \in Positions, NEW l \in Positions, k < l
        PROVE  MoveToFront(s, i)[k] # MoveToFront(s, i)[l]
    BY <1>1, <1>3, NBUFType DEF MoveToFront, Positions
  <1>. QED  BY <1>2, <1>3, NBUFType DEF Positions

-----------------------------------------------------------------------------
\* The initial state satisfies the invariant.
LEMMA InitInv == Init => Inv
  <1>. SUFFICES ASSUME Init PROVE Inv
    OBVIOUS
  <1>1. TypeOK
    <2>1. flags \in [Bufs -> Flags]
      BY DEF Init, Flags
    <2>2. data \in [Bufs -> Data]
      BY DEF Init
    <2>3. pc \in [Procs -> PCs]
      BY DEF Init, PCs
    <2>4. want \in [Procs -> Sectors \cup {None}] /\ cur \in [Procs -> Bufs \cup {None}]
      BY DEF Init
    <2>5. held \in [Procs -> SUBSET Bufs] /\ panic \in BOOLEAN
      BY DEF Init
    <2>6. idequeue \in Seq(Bufs) /\ ide \in {Idle} \cup Requests
      BY DEF Init
    <2>7. sector \in [Bufs -> Sectors \cup {None}] /\ disk \in [Sectors -> Data]
      BY DEF Init
    <2>8. lru \in [Positions -> Bufs] /\ \A i, j \in Positions : i # j => lru[i] # lru[j]
      BY DEF Init
    <2>. QED  BY <2>1, <2>2, <2>3, <2>4, <2>5, <2>6, <2>7, <2>8 DEF TypeOK
  <1>2. CallState
    BY NoneAssumption DEF Init, CallState, Done
  <1>3. OneBufferPerSector /\ FreeIsClean
    BY DEF Init, OneBufferPerSector, FreeIsClean
  <1>4. BusyIsALock
    BY DEF Init, BusyIsALock, Holder
  <1>5. QueueSound /\ SleepersQueued
    BY DEF Init, QueueSound, SleepersQueued
  <1>. QED  BY <1>1, <1>2, <1>3, <1>4, <1>5 DEF Inv

\* The head of the driver's queue and the request after it, as the interrupt
\* handler sees them, and the sequences the driver builds.
LEMMA Queue ==
  ASSUME TypeOK
  PROVE  /\ DOMAIN idequeue = 1..Len(idequeue)
         /\ \A b \in Bufs : /\ Append(idequeue, b) \in Seq(Bufs)
                            /\ Len(Append(idequeue, b)) = Len(idequeue) + 1
                            /\ \A i \in 1..Len(idequeue) : Append(idequeue, b)[i] = idequeue[i]
                            /\ Append(idequeue, b)[Len(idequeue) + 1] = b
         /\ idequeue # <<>> =>
              /\ Head(idequeue) = idequeue[1] /\ Head(idequeue) \in Bufs
              /\ Tail(idequeue) \in Seq(Bufs)
              /\ Len(idequeue) \in Nat \ {0}
              /\ Len(Tail(idequeue)) = Len(idequeue) - 1
              /\ \A i \in 1..Len(idequeue) - 1 : Tail(idequeue)[i] = idequeue[i + 1]
              /\ Tail(idequeue) # <<>> => /\ Head(Tail(idequeue)) = idequeue[2]
                                          /\ 2 \in 1..Len(idequeue)
                                          /\ Head(Tail(idequeue)) \in Bufs
  BY DEF TypeOK

\* A record with one flag changed is a flag record.
LEMMA FlagRecords ==
  ASSUME NEW f \in [Bufs -> Flags], NEW b \in Bufs, NEW x \in BOOLEAN
  PROVE  /\ [f EXCEPT ![b].busy = x] \in [Bufs -> Flags]
         /\ [f EXCEPT ![b].dirty = x] \in [Bufs -> Flags]
         /\ [f EXCEPT ![b].valid = TRUE, ![b].dirty = FALSE] \in [Bufs -> Flags]
         /\ [busy |-> TRUE, valid |-> FALSE, dirty |-> FALSE] \in Flags
  BY DEF Flags

\* What the controller is given is a request for a real sector.
LEMMA IdestartType ==
  ASSUME TypeOK, NEW b \in Bufs, sector[b] \in Sectors
  PROVE  /\ idestart(b) \in Requests /\ idestart(b) # Idle
         /\ idestart(b).st = "busy"
         /\ idestart(b).sector = sector[b] /\ idestart(b).data = data[b]
         /\ idestart(b).op = "write" <=> flags[b].dirty
  BY DEF TypeOK, idestart, Requests, Idle

\* wakeup moves sleepers of b only, into the code after their sleep.
LEMMA WakeupType ==
  ASSUME TypeOK, NEW b \in Bufs
  PROVE  /\ wakeup(b) \in [Procs -> PCs]
         /\ \A p \in Procs :
              \/ wakeup(b)[p] = pc[p] /\ (cur[p] = b => pc[p] \notin {"bsleep", "iosleep"})
              \/ cur[p] = b /\ pc[p] = "bsleep" /\ wakeup(b)[p] = "bget"
              \/ cur[p] = b /\ pc[p] = "iosleep" /\ wakeup(b)[p] = "iocheck"
  BY DEF TypeOK, wakeup, PCs

\* Everything waiting in the driver's queue is busy and of a real sector.
LEMMA Queued ==
  ASSUME Inv, NEW i \in 1..Len(idequeue)
  PROVE  /\ idequeue[i] \in Bufs /\ flags[idequeue[i]].busy
         /\ sector[idequeue[i]] \in Sectors
  <1>1. idequeue[i] \in Bufs
    BY DEF Inv, TypeOK
  <1>2. \E p \in Procs : Holder(p, idequeue[i])
    BY Queue DEF Inv, QueueSound, Holder
  <1>. QED  BY <1>1, <1>2 DEF Inv, BusyIsALock, CallState

\* Every step keeps the types.
LEMMA TypeStep == Inv /\ Step => TypeOK'
  <1>. SUFFICES ASSUME Inv, Step PROVE TypeOK'
    OBVIOUS
  <1>. USE DEF Inv
  <1>1. ASSUME NEW p \in Procs, NEW s \in Sectors, BreadCall(p, s) PROVE TypeOK'
    BY <1>1 DEF BreadCall, TypeOK, PCs, diskvars
  <1>2. ASSUME NEW p \in Procs, NEW b \in Bufs, BgetHit(p, b) PROVE TypeOK'
    <2>1. flags' \in [Bufs -> Flags]
      BY <1>2, FlagRecords DEF BgetHit, TypeOK
    <2>. QED  BY <1>2, <2>1 DEF BgetHit, TypeOK, PCs, diskvars
  <1>3. ASSUME NEW p \in Procs, NEW b \in Bufs, BgetSleep(p, b) PROVE TypeOK'
    BY <1>3 DEF BgetSleep, TypeOK, PCs, diskvars
  <1>4. ASSUME NEW p \in Procs, NEW i \in Positions, BgetFresh(p, i) PROVE TypeOK'
    <2>1. lru[i] \in Bufs /\ want[p] \in Sectors
      BY <1>4 DEF TypeOK, BgetFresh, CallState
    <2>2. flags' \in [Bufs -> Flags]
      BY <1>4, <2>1, FlagRecords DEF BgetFresh, TypeOK
    <2>. QED  BY <1>4, <2>1, <2>2 DEF BgetFresh, TypeOK, PCs, diskvars
  <1>5. ASSUME NEW p \in Procs, BgetPanic(p) PROVE TypeOK'
    BY <1>5 DEF BgetPanic, TypeOK, diskvars, procvars
  <1>6. ASSUME NEW p \in Procs, Bread(p) PROVE TypeOK'
    <2>1. cur[p] \in Bufs
      BY <1>6 DEF Bread, CallState
    <2>2. held[p] \cup {cur[p]} \in SUBSET Bufs
      BY <2>1 DEF TypeOK
    <2>3. held' \in [Procs -> SUBSET Bufs]
      BY <1>6, <2>2 DEF Bread, TypeOK
    <2>4. pc' \in [Procs -> PCs]
      BY <1>6 DEF Bread, TypeOK, PCs
    <2>. QED  BY <1>6, <2>3, <2>4 DEF Bread, TypeOK, diskvars
  <1>7. ASSUME NEW p \in Procs, NEW b \in Bufs, NEW v \in Data, Bwrite(p, b, v) PROVE TypeOK'
    <2>1. flags' \in [Bufs -> Flags]
      BY <1>7, FlagRecords DEF Bwrite, TypeOK
    <2>. QED  BY <1>7, <2>1 DEF Bwrite, TypeOK, PCs, diskvars
  <1>8. ASSUME NEW p \in Procs, Iderw(p) PROVE TypeOK'
    <2>1. cur[p] \in Bufs /\ sector[cur[p]] \in Sectors
      BY <1>8 DEF Iderw, CallState, BusyIsALock, Holder
    <2>2. idestart(cur[p]) \in Requests
      BY <2>1, IdestartType
    <2>3. idequeue' \in Seq(Bufs)
      BY <1>8, <2>1, Queue DEF Iderw
    <2>. QED  BY <1>8, <2>2, <2>3 DEF Iderw, TypeOK, PCs
  <1>9. ASSUME NEW p \in Procs, IderwCheck(p) PROVE TypeOK'
    <2>1. cur[p] \in Bufs
      BY <1>9 DEF IderwCheck, CallState
    <2>2. held[p] \cup {cur[p]} \in SUBSET Bufs
      BY <2>1 DEF TypeOK
    <2>3. held' \in [Procs -> SUBSET Bufs]
      BY <1>9, <2>2 DEF IderwCheck, TypeOK
    <2>4. pc' \in [Procs -> PCs]
      BY <1>9 DEF IderwCheck, TypeOK, PCs
    <2>. QED  BY <1>9, <2>3, <2>4 DEF IderwCheck, TypeOK, diskvars
  <1>10. ASSUME NEW p \in Procs, NEW i \in Positions, Brelse(p, i) PROVE TypeOK'
    <2>1. lru[i] \in Bufs
      BY DEF TypeOK
    <2>2. flags' \in [Bufs -> Flags]
      BY <1>10, <2>1, FlagRecords DEF Brelse, TypeOK
    <2>3. pc' \in [Procs -> PCs]
      BY <1>10, <2>1, WakeupType DEF Brelse
    <2>4. /\ lru' \in [Positions -> Bufs]
          /\ \A k, l \in Positions : k # l => lru'[k] # lru'[l]
      BY <1>10, MoveToFrontKeeps DEF Brelse, TypeOK
    <2>5. held' \in [Procs -> SUBSET Bufs]
      BY <1>10 DEF Brelse, TypeOK
    <2>. QED  BY <1>10, <2>2, <2>3, <2>4, <2>5 DEF Brelse, TypeOK, diskvars, Positions, NBUF
  <1>11. CASE DiskDone
    <2>1. ide \in Requests
      BY <1>11 DEF DiskDone, TypeOK, Idle
    <2>2. ide' \in Requests /\ disk' \in [Sectors -> Data]
      BY <1>11, <2>1 DEF DiskDone, TypeOK, Requests
    <2>. QED  BY <1>11, <2>2 DEF DiskDone, TypeOK, procvars
  <1>12. ASSUME NEW ok \in BOOLEAN, Ideintr(ok) PROVE TypeOK'
    <2>1. idequeue # <<>> /\ ide \in Requests
      BY <1>12 DEF Ideintr, TypeOK, Idle
    <2>2. Head(idequeue) \in Bufs /\ Tail(idequeue) \in Seq(Bufs)
      BY <2>1, Queue
    <2>3. Tail(idequeue) # <<>> => idestart(Head(Tail(idequeue))) \in Requests
      BY <2>1, Queue, Queued, IdestartType
    <2>4. flags' \in [Bufs -> Flags]
      BY <1>12, <2>2, FlagRecords DEF Ideintr, TypeOK
    <2>5. pc' \in [Procs -> PCs]
      BY <1>12, <2>2, WakeupType DEF Ideintr
    <2>6. data' \in [Bufs -> Data]
      BY <1>12, <2>1, <2>2 DEF Ideintr, TypeOK, Requests
    <2>7. ide' \in {Idle} \cup Requests /\ idequeue' \in Seq(Bufs)
      BY <1>12, <2>2, <2>3 DEF Ideintr
    <2>. QED  BY <1>12, <2>4, <2>5, <2>6, <2>7 DEF Ideintr, TypeOK
  <1>13. ASSUME NEW p \in Procs, kill(p) PROVE TypeOK'
    BY <1>13 DEF kill, TypeOK, PCs, diskvars
  <1>. QED  BY <1>1, <1>2, <1>3, <1>4, <1>5, <1>6, <1>7, <1>8, <1>9, <1>10, <1>11, <1>12, <1>13 DEF Step

\* B_BUSY stays a lock: no step gives a buffer a second holder or none.
LEMMA LockStep == Inv /\ Step => BusyIsALock'
  <1>. SUFFICES ASSUME Inv, Step PROVE BusyIsALock'
    OBVIOUS
  <1>. USE DEF Inv
  <1>1. ASSUME NEW p \in Procs, NEW s \in Sectors, BreadCall(p, s) PROVE BusyIsALock'
    <2>1. \A q \in Procs, c \in Bufs : Holder(q, c)' <=> Holder(q, c)
      BY <1>1 DEF BreadCall, Holder, TypeOK, procvars
    <2>. QED  BY <1>1, <2>1 DEF BreadCall, BusyIsALock
  <1>2. ASSUME NEW p \in Procs, NEW b \in Bufs, BgetHit(p, b) PROVE BusyIsALock'
    <2>2. \A q \in Procs : ~Holder(q, b)
      BY <1>2 DEF BgetHit, BusyIsALock
    <2>3. \A q \in Procs, c \in Bufs : Holder(q, c)' <=> Holder(q, c) \/ (q = p /\ c = b)
      BY <1>2 DEF BgetHit, Holder, TypeOK
    <2>4. \A c \in Bufs : flags'[c].busy <=> flags[c].busy \/ c = b
      BY <1>2 DEF BgetHit, TypeOK, Flags
    <2>. QED  BY <2>2, <2>3, <2>4 DEF BusyIsALock
  <1>3. ASSUME NEW p \in Procs, NEW b \in Bufs, BgetSleep(p, b) PROVE BusyIsALock'
    <2>1. \A q \in Procs, c \in Bufs : Holder(q, c)' <=> Holder(q, c)
      BY <1>3 DEF BgetSleep, Holder, TypeOK, procvars
    <2>. QED  BY <1>3, <2>1 DEF BgetSleep, BusyIsALock
  <1>4. ASSUME NEW p \in Procs, NEW i \in Positions, BgetFresh(p, i) PROVE BusyIsALock'
    <2>1. lru[i] \in Bufs
      BY DEF TypeOK
    <2>2. \A q \in Procs : ~Holder(q, lru[i])
      BY <1>4, <2>1 DEF BgetFresh, BusyIsALock
    <2>3. \A q \in Procs, c \in Bufs : Holder(q, c)' <=> Holder(q, c) \/ (q = p /\ c = lru[i])
      BY <1>4, <2>1 DEF BgetFresh, Holder, TypeOK
    <2>4. \A c \in Bufs : flags'[c].busy <=> flags[c].busy \/ c = lru[i]
      BY <1>4, <2>1 DEF BgetFresh, TypeOK, Flags
    <2>. QED  BY <2>1, <2>2, <2>3, <2>4 DEF BusyIsALock
  <1>5. ASSUME NEW p \in Procs, BgetPanic(p) PROVE BusyIsALock'
    <2>1. \A q \in Procs, c \in Bufs : Holder(q, c)' <=> Holder(q, c)
      BY <1>5 DEF BgetPanic, Holder, TypeOK, procvars
    <2>. QED  BY <1>5, <2>1 DEF BgetPanic, BusyIsALock
  <1>6. ASSUME NEW p \in Procs, Bread(p) PROVE BusyIsALock'
    <2>1. \A q \in Procs, c \in Bufs : Holder(q, c)' <=> Holder(q, c)
      BY <1>6 DEF Bread, Holder, TypeOK, procvars
    <2>. QED  BY <1>6, <2>1 DEF Bread, BusyIsALock
  <1>7. ASSUME NEW p \in Procs, NEW b \in Bufs, NEW v \in Data, Bwrite(p, b, v) PROVE BusyIsALock'
    <2>2. \A q \in Procs, c \in Bufs : Holder(q, c)' <=> Holder(q, c)
      BY <1>7 DEF Bwrite, Holder, TypeOK
    <2>3. \A c \in Bufs : flags'[c].busy = flags[c].busy
      BY <1>7 DEF Bwrite, TypeOK, Flags
    <2>. QED  BY <2>2, <2>3 DEF BusyIsALock
  <1>8. ASSUME NEW p \in Procs, Iderw(p) PROVE BusyIsALock'
    <2>1. \A q \in Procs, c \in Bufs : Holder(q, c)' <=> Holder(q, c)
      BY <1>8 DEF Iderw, Holder, TypeOK, procvars
    <2>. QED  BY <1>8, <2>1 DEF Iderw, BusyIsALock
  <1>9. ASSUME NEW p \in Procs, IderwCheck(p) PROVE BusyIsALock'
    <2>1. \A q \in Procs, c \in Bufs : Holder(q, c)' <=> Holder(q, c)
      BY <1>9 DEF IderwCheck, Holder, TypeOK, procvars
    <2>. QED  BY <1>9, <2>1 DEF IderwCheck, BusyIsALock
  <1>10. ASSUME NEW p \in Procs, NEW i \in Positions, Brelse(p, i) PROVE BusyIsALock'
    <2>1. lru[i] \in Bufs /\ Holder(p, lru[i])
      BY <1>10 DEF TypeOK, Brelse, Holder
    <2>2. \A q \in Procs, c \in Bufs : Holder(q, c)' <=> Holder(q, c) /\ (q # p \/ c # lru[i])
      BY <1>10, <2>1, WakeupType DEF Brelse, Holder, TypeOK
    <2>3. \A q \in Procs : Holder(q, lru[i]) => q = p
      BY <2>1 DEF BusyIsALock
    <2>4. \A c \in Bufs : flags'[c].busy <=> flags[c].busy /\ c # lru[i]
      BY <1>10, <2>1 DEF Brelse, TypeOK, Flags
    <2>. QED  BY <2>1, <2>2, <2>3, <2>4 DEF BusyIsALock
  <1>11. CASE DiskDone
    <2>1. \A q \in Procs, c \in Bufs : Holder(q, c)' <=> Holder(q, c)
      BY <1>11 DEF DiskDone, Holder, TypeOK, procvars
    <2>. QED  BY <1>11, <2>1 DEF DiskDone, BusyIsALock
  <1>12. ASSUME NEW ok \in BOOLEAN, Ideintr(ok) PROVE BusyIsALock'
    <2>1. Head(idequeue) \in Bufs
      BY <1>12, Queue DEF Ideintr
    <2>2. \A q \in Procs, c \in Bufs : Holder(q, c)' <=> Holder(q, c)
      BY <1>12, <2>1, WakeupType DEF Ideintr, Holder, TypeOK
    <2>3. \A c \in Bufs : flags'[c].busy = flags[c].busy
      BY <1>12, <2>1 DEF Ideintr, TypeOK, Flags
    <2>. QED  BY <2>2, <2>3 DEF BusyIsALock
  <1>13. ASSUME NEW p \in Procs, kill(p) PROVE BusyIsALock'
    <2>1. \A q \in Procs, c \in Bufs : Holder(q, c)' <=> Holder(q, c)
      BY <1>13 DEF kill, Holder, TypeOK
    <2>. QED  BY <1>13, <2>1 DEF kill, BusyIsALock
  <1>. QED  BY <1>1, <1>2, <1>3, <1>4, <1>5, <1>6, <1>7, <1>8, <1>9, <1>10, <1>11, <1>12, <1>13 DEF Step

\* No step gives a sector a second buffer.
LEMMA OneBufferStep == Inv /\ Step => OneBufferPerSector'
  <1>. SUFFICES ASSUME Inv, Step PROVE OneBufferPerSector'
    OBVIOUS
  <1>. USE DEF Inv
  <1>1. ASSUME NEW p \in Procs, NEW s \in Sectors, BreadCall(p, s) PROVE OneBufferPerSector'
    BY <1>1 DEF BreadCall, OneBufferPerSector
  <1>2. ASSUME NEW p \in Procs, NEW b \in Bufs, BgetHit(p, b) PROVE OneBufferPerSector'
    BY <1>2 DEF BgetHit, OneBufferPerSector
  <1>3. ASSUME NEW p \in Procs, NEW b \in Bufs, BgetSleep(p, b) PROVE OneBufferPerSector'
    BY <1>3 DEF BgetSleep, OneBufferPerSector
  <1>4. ASSUME NEW p \in Procs, NEW i \in Positions, BgetFresh(p, i) PROVE OneBufferPerSector'
    <2>1. lru[i] \in Bufs /\ want[p] \in Sectors /\ None \notin Sectors
      BY <1>4, NoneAssumption DEF TypeOK, BgetFresh, CallState
    <2>. QED  BY <1>4, <2>1 DEF BgetFresh, OneBufferPerSector, Cached, TypeOK
  <1>5. ASSUME NEW p \in Procs, BgetPanic(p) PROVE OneBufferPerSector'
    BY <1>5 DEF BgetPanic, OneBufferPerSector
  <1>6. ASSUME NEW p \in Procs, Bread(p) PROVE OneBufferPerSector'
    BY <1>6 DEF Bread, OneBufferPerSector
  <1>7. ASSUME NEW p \in Procs, NEW b \in Bufs, NEW v \in Data, Bwrite(p, b, v) PROVE OneBufferPerSector'
    BY <1>7 DEF Bwrite, OneBufferPerSector
  <1>8. ASSUME NEW p \in Procs, Iderw(p) PROVE OneBufferPerSector'
    BY <1>8 DEF Iderw, OneBufferPerSector
  <1>9. ASSUME NEW p \in Procs, IderwCheck(p) PROVE OneBufferPerSector'
    BY <1>9 DEF IderwCheck, OneBufferPerSector
  <1>10. ASSUME NEW p \in Procs, NEW i \in Positions, Brelse(p, i) PROVE OneBufferPerSector'
    BY <1>10 DEF Brelse, OneBufferPerSector
  <1>11. CASE DiskDone
    BY <1>11 DEF DiskDone, OneBufferPerSector
  <1>12. ASSUME NEW ok \in BOOLEAN, Ideintr(ok) PROVE OneBufferPerSector'
    BY <1>12 DEF Ideintr, OneBufferPerSector
  <1>13. ASSUME NEW p \in Procs, kill(p) PROVE OneBufferPerSector'
    BY <1>13 DEF kill, OneBufferPerSector
  <1>. QED  BY <1>1, <1>2, <1>3, <1>4, <1>5, <1>6, <1>7, <1>8, <1>9, <1>10, <1>11, <1>12, <1>13 DEF Step

\* No step leaves a free buffer with something to write.
LEMMA CleanStep == Inv /\ Step => FreeIsClean'
  <1>. SUFFICES ASSUME Inv, Step PROVE FreeIsClean'
    OBVIOUS
  <1>. USE DEF Inv
  <1>1. ASSUME NEW p \in Procs, NEW s \in Sectors, BreadCall(p, s) PROVE FreeIsClean'
    BY <1>1 DEF BreadCall, FreeIsClean
  <1>2. ASSUME NEW p \in Procs, NEW b \in Bufs, BgetHit(p, b) PROVE FreeIsClean'
    BY <1>2 DEF BgetHit, FreeIsClean, TypeOK, Flags
  <1>3. ASSUME NEW p \in Procs, NEW b \in Bufs, BgetSleep(p, b) PROVE FreeIsClean'
    BY <1>3 DEF BgetSleep, FreeIsClean
  <1>4. ASSUME NEW p \in Procs, NEW i \in Positions, BgetFresh(p, i) PROVE FreeIsClean'
    <2>1. lru[i] \in Bufs
      BY DEF TypeOK
    <2>. QED  BY <1>4, <2>1 DEF BgetFresh, FreeIsClean, TypeOK, Flags
  <1>5. ASSUME NEW p \in Procs, BgetPanic(p) PROVE FreeIsClean'
    BY <1>5 DEF BgetPanic, FreeIsClean
  <1>6. ASSUME NEW p \in Procs, Bread(p) PROVE FreeIsClean'
    BY <1>6 DEF Bread, FreeIsClean
  <1>7. ASSUME NEW p \in Procs, NEW b \in Bufs, NEW v \in Data, Bwrite(p, b, v) PROVE FreeIsClean'
    <2>1. flags[b].busy
      BY <1>7 DEF Bwrite, BusyIsALock, Holder
    <2>. QED  BY <1>7, <2>1 DEF Bwrite, FreeIsClean, TypeOK, Flags
  <1>8. ASSUME NEW p \in Procs, Iderw(p) PROVE FreeIsClean'
    BY <1>8 DEF Iderw, FreeIsClean
  <1>9. ASSUME NEW p \in Procs, IderwCheck(p) PROVE FreeIsClean'
    BY <1>9 DEF IderwCheck, FreeIsClean
  <1>10. ASSUME NEW p \in Procs, NEW i \in Positions, Brelse(p, i) PROVE FreeIsClean'
    <2>1. lru[i] \in Bufs /\ ~flags[lru[i]].dirty
      BY <1>10 DEF Brelse, CallState, Done, TypeOK
    <2>. QED  BY <1>10, <2>1 DEF Brelse, FreeIsClean, TypeOK, Flags
  <1>11. CASE DiskDone
    BY <1>11 DEF DiskDone, FreeIsClean
  <1>12. ASSUME NEW ok \in BOOLEAN, Ideintr(ok) PROVE FreeIsClean'
    <2>1. Head(idequeue) \in Bufs
      BY <1>12, Queue DEF Ideintr
    <2>. QED  BY <1>12, <2>1 DEF Ideintr, FreeIsClean, TypeOK, Flags
  <1>13. ASSUME NEW p \in Procs, kill(p) PROVE FreeIsClean'
    BY <1>13 DEF kill, FreeIsClean
  <1>. QED  BY <1>1, <1>2, <1>3, <1>4, <1>5, <1>6, <1>7, <1>8, <1>9, <1>10, <1>11, <1>12, <1>13 DEF Step

\* What a process has in hand inside a call stays as CallState says.
LEMMA CallStep == Inv /\ Step => CallState'
  <1>. SUFFICES ASSUME Inv, Step PROVE CallState'
    OBVIOUS
  <1>. USE DEF Inv
  <1>1. ASSUME NEW p \in Procs, NEW s \in Sectors, BreadCall(p, s) PROVE CallState'
    BY <1>1 DEF BreadCall, CallState, Done, TypeOK, diskvars, procvars
  <1>2. ASSUME NEW p \in Procs, NEW b \in Bufs, BgetHit(p, b) PROVE CallState'
    <2>2. \A c \in Bufs : /\ flags'[c].valid = flags[c].valid /\ flags'[c].dirty = flags[c].dirty
                          /\ flags'[c].busy => flags[c].busy \/ c = b
      BY <1>2 DEF BgetHit, TypeOK, Flags
    <2>3. sector[b] \in Sectors /\ ~flags[b].dirty
      BY <1>2 DEF BgetHit, Cached, CallState, FreeIsClean
    <2>4. \A q \in Procs : \A c \in held[q] : c \in Bufs
      BY DEF TypeOK
    <2>. QED  BY <1>2, <2>2, <2>3, <2>4 DEF BgetHit, CallState, Done, TypeOK, diskvars
  <1>3. ASSUME NEW p \in Procs, NEW b \in Bufs, BgetSleep(p, b) PROVE CallState'
    BY <1>3 DEF BgetSleep, CallState, Done, TypeOK, diskvars, procvars
  <1>4. ASSUME NEW p \in Procs, NEW i \in Positions, BgetFresh(p, i) PROVE CallState'
    <2>1. lru[i] \in Bufs /\ want[p] \in Sectors
      BY <1>4 DEF TypeOK, BgetFresh, CallState
    <2>2. \A q \in Procs : ~Holder(q, lru[i])
      BY <1>4, <2>1 DEF BgetFresh, BusyIsALock
    <2>3. \A q \in Procs : \A c \in held[q] : c \in Bufs /\ c # lru[i]
      BY <2>2 DEF Holder, TypeOK
    <2>4. \A c \in Bufs : c # lru[i] => flags'[c] = flags[c] /\ sector'[c] = sector[c]
      BY <1>4, <2>1 DEF BgetFresh, TypeOK
    <2>5. flags'[lru[i]].dirty = FALSE /\ sector'[lru[i]] = want[p]
      BY <1>4, <2>1 DEF BgetFresh, TypeOK
    <2>. QED  BY <1>4, <2>1, <2>2, <2>3, <2>4, <2>5 DEF BgetFresh, CallState, Done, Holder, TypeOK, diskvars
  <1>5. ASSUME NEW p \in Procs, BgetPanic(p) PROVE CallState'
    BY <1>5 DEF BgetPanic, CallState, Done, TypeOK, diskvars, procvars
  <1>6. ASSUME NEW p \in Procs, Bread(p) PROVE CallState'
    <2>1. \A q \in Procs \ {p} : held'[q] = held[q] /\ pc'[q] = pc[q]
      BY <1>6 DEF Bread, TypeOK
    <2>2. cur[p] \in Bufs /\ ~flags[cur[p]].dirty
      BY <1>6 DEF Bread, CallState
    <2>3. flags[cur[p]].valid => pc'[p] = "run" /\ held'[p] = held[p] \cup {cur[p]}
      BY <1>6 DEF Bread, TypeOK
    <2>4. ~flags[cur[p]].valid => pc'[p] = "iderw" /\ held'[p] = held[p]
      BY <1>6 DEF Bread, TypeOK
    <2>. QED  BY <1>6, <2>1, <2>2, <2>3, <2>4 DEF Bread, CallState, Done, diskvars
  <1>7. ASSUME NEW p \in Procs, NEW b \in Bufs, NEW v \in Data, Bwrite(p, b, v) PROVE CallState'
    <2>1. \A c \in Bufs : /\ flags'[c].busy = flags[c].busy /\ flags'[c].valid = flags[c].valid
                          /\ c # b => flags'[c].dirty = flags[c].dirty
      BY <1>7 DEF Bwrite, TypeOK, Flags
    <2>2. flags'[b].dirty
      BY <1>7 DEF Bwrite, TypeOK, Flags
    <2>3. \A q \in Procs \ {p} : ~Holder(q, b)
      BY <1>7 DEF Bwrite, BusyIsALock, Holder
    <2>4. \A q \in Procs : \A c \in held[q] : c \in Bufs
      BY DEF TypeOK
    <2>. QED  BY <1>7, <2>1, <2>2, <2>3, <2>4 DEF Bwrite, CallState, Done, Holder, TypeOK, diskvars
  <1>8. ASSUME NEW p \in Procs, Iderw(p) PROVE CallState'
    <2>1. cur[p] \in Bufs /\ sector[cur[p]] \in Sectors
      BY <1>8 DEF Iderw, CallState, BusyIsALock, Holder
    <2>2. ide' = ide \/ ide'.st = "busy"
      BY <1>8, <2>1, IdestartType DEF Iderw
    <2>. QED  BY <1>8, <2>2 DEF Iderw, CallState, Done, TypeOK
  <1>9. ASSUME NEW p \in Procs, IderwCheck(p) PROVE CallState'
    <2>1. \A q \in Procs \ {p} : held'[q] = held[q] /\ pc'[q] = pc[q]
      BY <1>9 DEF IderwCheck, TypeOK
    <2>2. cur[p] \in Bufs
      BY <1>9 DEF IderwCheck, CallState
    <2>3. Done(cur[p]) => pc'[p] = "run" /\ held'[p] = held[p] \cup {cur[p]}
      BY <1>9 DEF IderwCheck, TypeOK
    <2>4. ~Done(cur[p]) => pc'[p] = "iosleep" /\ held'[p] = held[p]
      BY <1>9 DEF IderwCheck, TypeOK
    <2>. QED  BY <1>9, <2>1, <2>2, <2>3, <2>4 DEF IderwCheck, CallState, Done, diskvars
  <1>10. ASSUME NEW p \in Procs, NEW i \in Positions, Brelse(p, i) PROVE CallState'
    <2>1. lru[i] \in Bufs
      BY DEF TypeOK
    <2>2. \A c \in Bufs : /\ flags'[c].valid = flags[c].valid /\ flags'[c].dirty = flags[c].dirty
                          /\ flags'[c].busy => flags[c].busy
      BY <1>10, <2>1 DEF Brelse, TypeOK, Flags
    <2>3. \A q \in Procs : held'[q] \subseteq held[q]
      BY <1>10 DEF Brelse, TypeOK
    <2>4. \A q \in Procs : \A c \in held[q] : c \in Bufs
      BY DEF TypeOK
    <2>5. \A q \in Procs : \/ pc'[q] = pc[q]
                           \/ pc[q] = "bsleep" /\ pc'[q] = "bget"
                           \/ pc[q] = "iosleep" /\ pc'[q] = "iocheck"
      BY <1>10, <2>1, WakeupType DEF Brelse
    <2>6. \A q \in Procs : pc[q] = "bsleep" => want[q] \in Sectors
      BY DEF CallState
    <2>7. \A q \in Procs : pc[q] = "iosleep" => pc'[q] = "iosleep"
      <3>1. Holder(p, lru[i]) /\ pc[p] = "run"
        BY <1>10 DEF Brelse, Holder
      <3>2. \A q \in Procs : pc[q] = "iosleep" => cur[q] # lru[i]
        BY <2>1, <3>1 DEF BusyIsALock, Holder
      <3>. QED  BY <1>10, <2>1, <3>2, WakeupType DEF Brelse
    <2>. QED  BY <1>10, <2>2, <2>3, <2>4, <2>5, <2>6, <2>7 DEF Brelse, CallState, Done, diskvars
  <1>11. CASE DiskDone
    <2>1. ide \in Requests
      BY <1>11 DEF DiskDone, TypeOK, Idle
    <2>2. ide'.op = "write" => disk'[ide'.sector] = ide'.data
      BY <1>11, <2>1 DEF DiskDone, TypeOK, Requests
    <2>. QED  BY <1>11, <2>2 DEF DiskDone, CallState, Done, procvars
  <1>12. ASSUME NEW ok \in BOOLEAN, Ideintr(ok) PROVE CallState'
    <2>1. Head(idequeue) \in Bufs /\ idequeue # <<>>
      BY <1>12, Queue DEF Ideintr
    <2>2. \A c \in Bufs : c # Head(idequeue) => flags'[c] = flags[c]
      BY <1>12, <2>1 DEF Ideintr, TypeOK, Flags
    <2>3. /\ flags'[Head(idequeue)].valid /\ ~flags'[Head(idequeue)].dirty
          /\ flags'[Head(idequeue)].busy = flags[Head(idequeue)].busy
      BY <1>12, <2>1 DEF Ideintr, TypeOK, Flags
    <2>4. PICK r \in Procs : cur[r] = Head(idequeue) /\ pc[r] \in {"iosleep", "iocheck"}
      BY <2>1, Queue DEF QueueSound
    <2>5. \A q \in Procs : Holder(q, Head(idequeue)) => q = r
      BY <2>1, <2>4 DEF BusyIsALock, Holder
    <2>6. \A q \in Procs : pc'[q] \in {"iderw", "iosleep"} => cur[q] # Head(idequeue)
      BY <1>12, <2>1, <2>4, <2>5, WakeupType DEF Ideintr, Holder
    <2>7. \A q \in Procs : \/ pc'[q] = pc[q]
                           \/ pc[q] = "bsleep" /\ pc'[q] = "bget"
                           \/ pc[q] = "iosleep" /\ pc'[q] = "iocheck"
      BY <1>12, <2>1, WakeupType DEF Ideintr
    <2>8. \A q \in Procs : pc[q] = "bsleep" => want[q] \in Sectors
      BY DEF CallState
    <2>9. ide' = Idle \/ ide'.st = "busy"
      BY <1>12, <2>1, Queue, Queued, IdestartType DEF Ideintr
    <2>10. sector[Head(idequeue)] \in Sectors
      BY <2>1, Queue, Queued
    <2>11. \A q \in Procs : \A c \in held[q] : c \in Bufs
      BY DEF TypeOK
    <2>12. cur' = cur /\ held' = held /\ want' = want /\ sector' = sector
      BY <1>12 DEF Ideintr
    <2>13. ASSUME NEW q \in Procs
           PROVE  /\ pc'[q] \in {"got", "iderw", "iosleep", "iocheck"} => cur'[q] \in Bufs
                  /\ pc'[q] \in {"bget", "bsleep"} => want'[q] \in Sectors
                  /\ pc'[q] = "got" => ~flags'[cur'[q]].dirty
                  /\ pc'[q] \in {"iderw", "iosleep"} => ~Done(cur[q])'
      <3>1. pc'[q] \in {"got", "iderw", "iosleep"} => pc[q] = pc'[q]
        BY <2>7
      <3>2. pc'[q] \in {"got", "iderw", "iosleep", "iocheck"} => cur[q] \in Bufs
        BY <2>7 DEF CallState
      <3>3. pc'[q] = "got" => ~flags'[cur[q]].dirty
        BY <2>2, <2>3, <3>1, <3>2 DEF CallState
      <3>4. pc'[q] \in {"iderw", "iosleep"} => ~Done(cur[q])'
        BY <2>2, <2>6, <2>12, <3>1, <3>2 DEF CallState, Done
      <3>. QED  BY <2>7, <2>8, <2>12, <3>2, <3>3, <3>4 DEF CallState
    <2>14. ASSUME NEW q \in Procs, NEW c \in held[q]
           PROVE  Done(c)' \/ (cur[q] = c /\ pc'[q] \in {"iderw", "iosleep", "iocheck"})
      <3>1. c \in Bufs
        BY <2>11
      <3>2. CASE c = Head(idequeue)
        BY <2>3, <3>2 DEF Done
      <3>3. CASE c # Head(idequeue)
        BY <2>2, <2>7, <3>1, <3>3 DEF Done, CallState
      <3>. QED  BY <3>2, <3>3
    <2>15. \A c \in Bufs : flags'[c].busy \/ flags'[c].valid => sector[c] \in Sectors
      BY <2>2, <2>10 DEF CallState
    <2>. QED  BY <2>9, <2>12, <2>13, <2>14, <2>15 DEF CallState
  <1>13. ASSUME NEW p \in Procs, kill(p) PROVE CallState'
    BY <1>13 DEF kill, CallState, Done, TypeOK, diskvars
  <1>. QED  BY <1>1, <1>2, <1>3, <1>4, <1>5, <1>6, <1>7, <1>8, <1>9, <1>10, <1>11, <1>12, <1>13 DEF Step

\* QueueSound and SleepersQueued, in the form the proofs use: each waiting
\* request belongs to a process in iderw's loop, and the other way round.
QueueInv == QueueSound /\ SleepersQueued
InLoop(q) == pc[q] \in {"iosleep", "iocheck"}

\* A step that leaves the driver and the queued buffers alone, and lets no
\* process into iderw's loop and none out of it before its transfer is done,
\* keeps the queue sound.
LEMMA QueueKept ==
  ASSUME Inv, CallState', idequeue' = idequeue, ide' = ide,
         \A q \in Procs : InLoop(q) =>
           \/ InLoop(q)' /\ cur'[q] = cur[q]
           \/ Done(cur[q]) /\ ~InLoop(q)',
         \A q \in Procs : InLoop(q)' =>
           /\ InLoop(q) /\ cur'[q] = cur[q]
           /\ flags'[cur[q]].valid = flags[cur[q]].valid
           /\ flags'[cur[q]].dirty = flags[cur[q]].dirty,
         \A i \in 1..Len(idequeue) : LET b == idequeue[i] IN
                      /\ flags'[b].valid = flags[b].valid /\ flags'[b].dirty = flags[b].dirty
                      /\ sector'[b] = sector[b] /\ data'[b] = data[b]
  PROVE  QueueInv'
  <1>. USE DEF Inv
  <1>0. DOMAIN idequeue = 1..Len(idequeue) /\ (idequeue # <<>> => 1 \in 1..Len(idequeue))
    BY Queue
  <1>1. \A i \in DOMAIN idequeue : ~Done(idequeue[i])'
    BY <1>0 DEF QueueSound, Done
  <1>2. \A i \in DOMAIN idequeue : \E p \in Procs : cur'[p] = idequeue[i] /\ InLoop(p)'
    <2>. TAKE i \in DOMAIN idequeue
    <2>1. PICK p \in Procs : cur[p] = idequeue[i] /\ InLoop(p)
      BY DEF QueueSound, InLoop
    <2>2. ~Done(cur[p])
      BY <2>1 DEF QueueSound
    <2>. QED  BY <2>1, <2>2
  <1>3. idequeue # <<>> => LET b == idequeue[1] IN
            /\ ide # Idle /\ ide.sector = sector'[b]
            /\ flags'[b].dirty <=> ide.op = "write"
            /\ flags'[b].dirty => ide.data = data'[b]
    BY <1>0 DEF QueueSound
  <1>4. QueueSound'
    BY <1>1, <1>2, <1>3 DEF QueueSound, InLoop
  <1>5. SleepersQueued'
    <2>. SUFFICES ASSUME NEW q \in Procs, pc'[q] = "iosleep" \/ (pc'[q] = "iocheck" /\ ~Done(cur[q])')
                  PROVE  \E i \in DOMAIN idequeue : idequeue[i] = cur'[q]
      BY DEF SleepersQueued
    <2>1. InLoop(q)' /\ ~Done(cur[q])'
      BY DEF InLoop, CallState
    <2>2. InLoop(q) /\ cur'[q] = cur[q] /\ ~Done(cur[q])
      BY <2>1 DEF Done
    <2>. QED  BY <2>2 DEF SleepersQueued, InLoop
  <1>. QED  BY <1>4, <1>5 DEF QueueInv

\* Every step keeps the driver's queue sound.
LEMMA QueueStep == Inv /\ Step => QueueInv'
  <1>. SUFFICES ASSUME Inv, Step PROVE QueueInv'
    OBVIOUS
  <1>. USE DEF Inv
  <1>1. ASSUME NEW p \in Procs, NEW s \in Sectors, BreadCall(p, s) PROVE QueueInv'
    BY <1>1, QueueKept, CallStep DEF InLoop, BreadCall, TypeOK, diskvars, procvars
  <1>2. ASSUME NEW p \in Procs, NEW b \in Bufs, BgetHit(p, b) PROVE QueueInv'
    <2>1. \A c \in Bufs : flags'[c].valid = flags[c].valid /\ flags'[c].dirty = flags[c].dirty
      BY <1>2 DEF BgetHit, TypeOK, Flags
    <2>2. \A q \in Procs : InLoop(q) => cur[q] \in Bufs
      BY DEF InLoop, CallState
    <2>. QED  BY <1>2, <2>1, <2>2, QueueKept, Queued, CallStep DEF InLoop, BgetHit, TypeOK, diskvars
  <1>3. ASSUME NEW p \in Procs, NEW b \in Bufs, BgetSleep(p, b) PROVE QueueInv'
    BY <1>3, QueueKept, CallStep DEF InLoop, BgetSleep, TypeOK, diskvars, procvars
  <1>4. ASSUME NEW p \in Procs, NEW i \in Positions, BgetFresh(p, i) PROVE QueueInv'
    <2>1. \A c \in Bufs : flags[c].busy => flags'[c] = flags[c] /\ sector'[c] = sector[c]
      BY <1>4 DEF BgetFresh, TypeOK
    <2>2. \A q \in Procs : /\ q # p => pc'[q] = pc[q] /\ cur'[q] = cur[q]
                           /\ pc[p] = "bget" /\ pc'[p] = "got"
      BY <1>4 DEF BgetFresh, TypeOK
    <2>3. \A q \in Procs : InLoop(q) => flags'[cur[q]] = flags[cur[q]]
      BY <2>1 DEF InLoop, CallState, BusyIsALock, Holder
    <2>4. \A k \in 1..Len(idequeue) : /\ flags'[idequeue[k]] = flags[idequeue[k]]
                                       /\ sector'[idequeue[k]] = sector[idequeue[k]]
      BY <2>1, Queued
    <2>. QED  BY <1>4, <2>2, <2>3, <2>4, QueueKept, CallStep DEF InLoop, BgetFresh, diskvars
  <1>5. ASSUME NEW p \in Procs, BgetPanic(p) PROVE QueueInv'
    BY <1>5, QueueKept, CallStep DEF InLoop, BgetPanic, TypeOK, diskvars, procvars
  <1>6. ASSUME NEW p \in Procs, Bread(p) PROVE QueueInv'
    BY <1>6, QueueKept, CallStep DEF InLoop, Bread, TypeOK, diskvars, procvars
  <1>7. ASSUME NEW p \in Procs, NEW b \in Bufs, NEW v \in Data, Bwrite(p, b, v) PROVE QueueInv'
    <2>1. \A c \in Bufs : c # b => flags'[c] = flags[c] /\ data'[c] = data[c]
      BY <1>7 DEF Bwrite, TypeOK
    <2>2. \A k \in 1..Len(idequeue) : idequeue[k] # b
      <3>1. SUFFICES ASSUME NEW k \in 1..Len(idequeue), idequeue[k] = b PROVE FALSE
        OBVIOUS
      <3>2. PICK q \in Procs : cur[q] = b /\ pc[q] \in {"iosleep", "iocheck"}
        BY <3>1, Queue DEF QueueSound
      <3>3. Holder(q, b) /\ Holder(p, b) /\ q # p
        BY <1>7, <3>2 DEF Holder, Bwrite
      <3>. QED  BY <3>3 DEF BusyIsALock
    <2>3. \A q \in Procs : /\ q # p => pc'[q] = pc[q] /\ cur'[q] = cur[q]
                           /\ pc[p] = "run" /\ pc'[p] = "iderw"
      BY <1>7 DEF Bwrite, TypeOK
    <2>4. \A q \in Procs : InLoop(q) => flags'[cur[q]] = flags[cur[q]]
      <3>. SUFFICES ASSUME NEW q \in Procs, InLoop(q) PROVE flags'[cur[q]] = flags[cur[q]]
        OBVIOUS
      <3>1. cur[q] \in Bufs /\ Holder(q, cur[q]) /\ q # p /\ Holder(p, b)
        BY <1>7 DEF InLoop, CallState, Holder, Bwrite
      <3>2. cur[q] # b
        BY <3>1 DEF BusyIsALock
      <3>. QED  BY <2>1, <3>1, <3>2
    <2>5. \A k \in 1..Len(idequeue) : /\ flags'[idequeue[k]] = flags[idequeue[k]]
                                       /\ data'[idequeue[k]] = data[idequeue[k]]
      BY <2>1, <2>2, Queued
    <2>. QED  BY <1>7, <2>3, <2>4, <2>5, QueueKept, CallStep DEF InLoop, Bwrite, diskvars
  <1>8. ASSUME NEW p \in Procs, Iderw(p) PROVE QueueInv'
    <2>. DEFINE n == Len(idequeue)
    <2>1. cur[p] \in Bufs /\ sector[cur[p]] \in Sectors /\ Holder(p, cur[p]) /\ ~Done(cur[p])
      BY <1>8 DEF Iderw, CallState, BusyIsALock, Holder
    <2>2. /\ DOMAIN idequeue = 1..n /\ DOMAIN idequeue' = 1..n+1 /\ n \in Nat
          /\ \A i \in 1..n : idequeue'[i] = idequeue[i]
          /\ idequeue'[n+1] = cur[p]
          /\ idequeue' # <<>> /\ (n = 0 <=> idequeue = <<>>)
      BY <1>8, <2>1, Queue DEF Iderw, TypeOK
    <2>3. /\ \A q \in Procs : q # p => pc'[q] = pc[q]
          /\ pc'[p] = "iosleep" /\ cur' = cur /\ flags' = flags /\ data' = data /\ sector' = sector
      BY <1>8 DEF Iderw, TypeOK
    <2>4. \A i \in 1..n : idequeue[i] # cur[p]
      <3>1. SUFFICES ASSUME NEW k \in 1..n, idequeue[k] = cur[p] PROVE FALSE
        OBVIOUS
      <3>2. PICK q \in Procs : cur[q] = cur[p] /\ pc[q] \in {"iosleep", "iocheck"}
        BY <2>2, <3>1 DEF QueueSound
      <3>3. Holder(q, cur[p]) /\ q # p
        BY <1>8, <3>2 DEF Holder, Iderw
      <3>. QED  BY <2>1, <3>3 DEF BusyIsALock
    <2>5. \A i, j \in 1..n+1 : i # j => idequeue'[i] # idequeue'[j]
      BY <2>2, <2>4 DEF QueueSound
    <2>6. \A i \in 1..n+1 : /\ ~Done(idequeue'[i])
                            /\ \E q \in Procs : cur[q] = idequeue'[i] /\ pc'[q] \in {"iosleep", "iocheck"}
      <3>1. ASSUME NEW i \in 1..n PROVE /\ ~Done(idequeue'[i])
                                       /\ \E q \in Procs : cur[q] = idequeue'[i] /\ pc'[q] \in {"iosleep", "iocheck"}
        BY <2>2, <2>3 DEF QueueSound
      <3>. QED  BY <2>1, <2>2, <2>3, <3>1
    <2>7. LET b == idequeue'[1] IN
            /\ ide' # Idle /\ ide'.sector = sector[b]
            /\ flags[b].dirty <=> ide'.op = "write"
            /\ flags[b].dirty => ide'.data = data[b]
      <3>1. CASE n = 0
        <4>1. ide' = idestart(cur[p]) /\ idequeue'[1] = cur[p]
          BY <1>8, <2>2, <3>1 DEF Iderw
        <4>. QED  BY <2>1, <4>1, IdestartType
      <3>2. CASE n # 0
        <4>1. ide' = ide /\ idequeue'[1] = idequeue[1] /\ idequeue # <<>>
          BY <1>8, <2>2, <3>2 DEF Iderw
        <4>. QED  BY <4>1 DEF QueueSound
      <3>. QED  BY <3>1, <3>2
    <2>8. QueueSound'
      BY <2>2, <2>3, <2>5, <2>6, <2>7 DEF QueueSound, Done
    <2>9. SleepersQueued'
      BY <2>2, <2>3 DEF SleepersQueued, Done
    <2>. QED  BY <2>8, <2>9 DEF QueueInv
  <1>9. ASSUME NEW p \in Procs, IderwCheck(p) PROVE QueueInv'
    <2>1. /\ InLoop(p) /\ (Done(cur[p]) <=> ~InLoop(p)')
          /\ \A q \in Procs : q # p => (InLoop(q)' <=> InLoop(q))
      BY <1>9 DEF IderwCheck, InLoop, TypeOK
    <2>2. /\ cur' = cur /\ flags' = flags /\ data' = data /\ sector' = sector
          /\ idequeue' = idequeue /\ ide' = ide
      BY <1>9 DEF IderwCheck, diskvars
    <2>. QED  BY <2>1, <2>2, QueueKept, CallStep
  <1>10. ASSUME NEW p \in Procs, NEW i \in Positions, Brelse(p, i) PROVE QueueInv'
    <2>1. lru[i] \in Bufs /\ Holder(p, lru[i])
      BY <1>10 DEF Brelse, TypeOK, Holder
    <2>2. \A c \in Bufs : flags'[c].valid = flags[c].valid /\ flags'[c].dirty = flags[c].dirty
      BY <1>10, <2>1 DEF Brelse, TypeOK, Flags
    <2>3. \A q \in Procs : InLoop(q) => cur[q] \in Bufs
      BY DEF InLoop, CallState
    <2>4. \A q \in Procs : InLoop(q) <=> InLoop(q)'
      BY <1>10, <2>1, WakeupType DEF Brelse, InLoop
    <2>. QED  BY <1>10, <2>2, <2>3, <2>4, QueueKept, Queued, CallStep DEF Brelse, diskvars
  <1>11. CASE DiskDone
    <2>1. ide \in Requests
      BY <1>11 DEF DiskDone, TypeOK, Idle
    <2>2. /\ ide' # Idle /\ ide'.sector = ide.sector /\ ide'.op = ide.op /\ ide'.data = ide.data
      BY <1>11, <2>1 DEF DiskDone, Requests, Idle
    <2>3. idequeue # <<>>
      BY <1>11 DEF QueueSound, DiskDone, Idle
    <2>4. QueueSound'
      BY <1>11, <2>2, <2>3 DEF DiskDone, QueueSound, Done, procvars
    <2>. QED  BY <1>11, <2>4 DEF DiskDone, QueueInv, SleepersQueued, Done, procvars
  <1>12. ASSUME NEW ok \in BOOLEAN, Ideintr(ok) PROVE QueueInv'
    <2>. DEFINE n == Len(idequeue)
                h == Head(idequeue)
    <2>0. idequeue' = Tail(idequeue) /\ idequeue # <<>>
      BY <1>12 DEF Ideintr
    <2>a. /\ h \in Bufs /\ h = idequeue[1] /\ DOMAIN idequeue = 1..n /\ n \in Nat \ {0}
          /\ Len(Tail(idequeue)) = n - 1 /\ Tail(idequeue) \in Seq(Bufs)
          /\ \A i \in 1..n-1 : Tail(idequeue)[i] = idequeue[i+1]
      BY <2>0, Queue
    <2>b. DOMAIN idequeue' = 1..n-1 /\ (idequeue' = <<>> <=> n = 1)
      <3>1. \A s \in Seq(Bufs) : DOMAIN s = 1..Len(s) /\ (s = <<>> <=> Len(s) = 0)
        BY EmptySeq, LenProperties
      <3>2. idequeue' \in Seq(Bufs) /\ Len(idequeue') = n - 1
        BY <2>0, <2>a
      <3>3. DOMAIN idequeue' = 1..Len(idequeue') /\ (idequeue' = <<>> <=> Len(idequeue') = 0)
        BY <3>1, <3>2
      <3>. QED  BY <2>a, <3>2, <3>3
    <2>c. \A i \in 1..n-1 : idequeue'[i] = idequeue[i+1] /\ i+1 \in 1..n
      BY <2>0, <2>a
    <2>1. /\ h \in Bufs /\ idequeue # <<>> /\ h = idequeue[1]
          /\ DOMAIN idequeue = 1..n /\ DOMAIN idequeue' = 1..n-1 /\ n \in Nat \ {0}
          /\ \A i \in 1..n-1 : idequeue'[i] = idequeue[i+1] /\ i+1 \in 1..n
          /\ (idequeue' = <<>> <=> n = 1)
      BY <2>0, <2>a, <2>b, <2>c
    <2>2. \A c \in Bufs : c # h => flags'[c] = flags[c] /\ data'[c] = data[c]
      BY <1>12, <2>1 DEF Ideintr, TypeOK, Flags
    <2>3. cur' = cur /\ sector' = sector
      BY <1>12 DEF Ideintr
    <2>4. \A q \in Procs : pc'[q] = "iosleep" <=> pc[q] = "iosleep" /\ cur[q] # h
      BY <1>12, <2>1, WakeupType DEF Ideintr
    <2>5. \A i \in 1..n-1 : idequeue'[i] # h /\ idequeue'[i] \in Bufs
      BY <2>1, Queued DEF QueueSound
    <2>6. \A i, j \in 1..n-1 : i # j => idequeue'[i] # idequeue'[j]
      BY <2>1 DEF QueueSound
    <2>7. \A i \in 1..n-1 : ~(flags'[idequeue'[i]].valid /\ ~flags'[idequeue'[i]].dirty)
      BY <2>1, <2>2, <2>5 DEF QueueSound, Done
    <2>8. \A q \in Procs : InLoop(q)' <=> InLoop(q)
      BY <1>12, <2>1, WakeupType DEF Ideintr, InLoop
    <2>8a. \A i \in 1..n-1 : \E q \in Procs : cur[q] = idequeue'[i] /\ pc'[q] \in {"iosleep", "iocheck"}
      BY <2>1, <2>5, <2>8 DEF QueueSound, InLoop
    <2>9. IF idequeue' = <<>> THEN ide' = Idle
          ELSE LET b == idequeue'[1] IN
            /\ ide' # Idle /\ ide'.sector = sector'[b]
            /\ flags'[b].dirty <=> ide'.op = "write"
            /\ flags'[b].dirty => ide'.data = data'[b]
      <3>1. CASE idequeue' = <<>>
        BY <1>12, <3>1 DEF Ideintr
      <3>2. CASE idequeue' # <<>>
        <4>1. ide' = idestart(idequeue'[1]) /\ idequeue'[1] \in Bufs /\ idequeue'[1] # h
          <5>1. ide' = idestart(Head(Tail(idequeue))) /\ Tail(idequeue) # <<>>
            BY <1>12, <2>0, <3>2 DEF Ideintr
          <5>2. Head(Tail(idequeue)) = idequeue[2] /\ 1 \in 1..n-1
            BY <2>0, <2>1, <3>2, <5>1, Queue
          <5>3. idequeue'[1] = idequeue[2]
            BY <2>1, <5>2
          <5>. QED  BY <2>5, <5>1, <5>2, <5>3
        <4>2. sector[idequeue'[1]] \in Sectors
          BY <2>1, <3>2, Queued
        <4>. QED  BY <2>2, <2>3, <3>2, <4>1, <4>2, IdestartType
      <3>. QED  BY <3>1, <3>2
    <2>10. QueueSound'
      <3>1. \A i \in DOMAIN idequeue' : ~Done(idequeue[i])'
        BY <2>1, <2>7 DEF Done
      <3>2. \A i \in DOMAIN idequeue' : \E q \in Procs : cur'[q] = idequeue'[i] /\ pc'[q] \in {"iosleep", "iocheck"}
        BY <2>1, <2>3, <2>8a
      <3>. QED  BY <2>1, <2>3, <2>6, <2>9, <3>1, <3>2 DEF QueueSound
    <2>11. flags'[h].valid /\ ~flags'[h].dirty
      BY <1>12, <2>1 DEF Ideintr, TypeOK, Flags
    <2>12. SleepersQueued'
      <3>1. SUFFICES ASSUME NEW q \in Procs, pc'[q] = "iosleep" \/ (pc'[q] = "iocheck" /\ ~Done(cur[q])')
                     PROVE  \E i \in 1..n-1 : idequeue'[i] = cur[q]
        BY <2>1, <2>3 DEF SleepersQueued
      <3>2. cur[q] # h
        BY <2>4, <2>11, <3>1, <2>3 DEF Done
      <3>3. pc'[q] = pc[q] /\ (pc'[q] = "iocheck" => cur[q] \in Bufs)
        BY <1>12, <2>1, <3>2, WakeupType DEF Ideintr, CallState
      <3>4. PICK k \in 1..n : idequeue[k] = cur[q]
        BY <2>1, <2>2, <2>3, <3>1, <3>2, <3>3 DEF SleepersQueued, Done
      <3>5. k # 1 /\ k - 1 \in 1..n-1
        BY <2>1, <3>2, <3>4
      <3>6. idequeue'[k-1] = idequeue[(k-1)+1] /\ (k-1)+1 = k
        BY <2>1, <3>5
      <3>. QED  BY <3>4, <3>5, <3>6
    <2>. QED  BY <2>10, <2>12 DEF QueueInv
  <1>13. ASSUME NEW p \in Procs, kill(p) PROVE QueueInv'
    <2>1. \A q \in Procs : InLoop(q)' <=> InLoop(q)
      BY <1>13 DEF kill, InLoop, TypeOK
    <2>2. /\ cur' = cur /\ flags' = flags /\ data' = data /\ sector' = sector
          /\ idequeue' = idequeue /\ ide' = ide
      BY <1>13 DEF kill, diskvars
    <2>. QED  BY <2>1, <2>2, QueueKept, CallStep
  <1>. QED  BY <1>1, <1>2, <1>3, <1>4, <1>5, <1>6, <1>7, <1>8, <1>9, <1>10, <1>11, <1>12, <1>13 DEF Step

\* Stuttering keeps the invariant.
LEMMA StutterInv == Inv /\ UNCHANGED vars => Inv'
  <1>. SUFFICES ASSUME Inv, UNCHANGED vars PROVE Inv'
    OBVIOUS
  <1>. USE DEF Inv, vars
  <1>1. TypeOK'
    BY DEF TypeOK
  <1>2. CallState'
    BY DEF CallState, Done
  <1>3. OneBufferPerSector' /\ FreeIsClean'
    BY DEF OneBufferPerSector, FreeIsClean
  <1>4. BusyIsALock'
    BY DEF BusyIsALock, Holder
  <1>5. QueueSound' /\ SleepersQueued'
    BY DEF QueueSound, SleepersQueued, Done
  <1>. QED  BY <1>1, <1>2, <1>3, <1>4, <1>5

\* Inv is an inductive invariant of bio.c over ide.c: TypeOK, the buffer lock,
\* one buffer per sector, no dirty free buffer and a sound driver queue.
THEOREM InvHolds == Spec => []Inv
  <1>1. Inv /\ [Next]_vars => Inv'
    BY NextIsStep, TypeStep, CallStep, OneBufferStep, LockStep, CleanStep, QueueStep, StutterInv
       DEF Inv, QueueInv
  <1>. QED  BY <1>1, InitInv, PTL DEF Spec

\* The variables of the cache, the driver and the processes keep their types; the
\* LRU list of bio.c links every buffer once.
THEOREM TypeCorrect == Spec => []TypeOK
  BY InvHolds, PTL DEF Inv

\* The driver's queue of ide.c is sound: a free buffer is clean, a queued request
\* has an owner that waits for it in iderw's loop, killed or not, everyone who
\* waits there is queued, and the controller works on the first request.
THEOREM DriverOK == Spec => []DriverSound
  <1>1. Inv => DriverSound
    BY DEF Inv, DriverSound
  <1>. QED  BY <1>1, InvHolds, PTL

\* bget never gives a sector two buffers, for any number of processes.
THEOREM OneBuffer == Spec => []OneBufferPerSector
  BY InvHolds, PTL DEF Inv

\* B_BUSY is a lock with exactly one holder, for any number of processes.
THEOREM BusyLock == Spec => []BusyIsALock
  BY InvHolds, PTL DEF Inv

\* The panics of bwrite, brelse and iderw cannot happen.
THEOREM NoMisuseHolds == Spec => []NoMisuse
  <1>1. Inv => NoMisuse
    <2>. SUFFICES ASSUME Inv, NEW p \in Procs
                  PROVE  /\ \A b \in held[p] : flags[b].busy
                         /\ pc[p] = "iderw" => flags[cur[p]].busy /\ ~Done(cur[p])
      BY DEF NoMisuse
    <2>1. \A b \in held[p] : flags[b].busy
      BY DEF Inv, BusyIsALock, Holder, TypeOK
    <2>2. pc[p] = "iderw" => flags[cur[p]].busy /\ ~Done(cur[p])
      BY DEF Inv, BusyIsALock, Holder, CallState
    <2>. QED  BY <2>1, <2>2
  <1>. QED  BY <1>1, InvHolds, PTL

\* Without read errors every step keeps the cache equal to the disk.
LEMMA CoherentStep == ~ReadErrors /\ Inv /\ CacheCoherent /\ Next => CacheCoherent'
  <1>. SUFFICES ASSUME ~ReadErrors, Inv, CacheCoherent, Next PROVE CacheCoherent'
    OBVIOUS
  <1>. USE DEF Inv
  <1>1. ASSUME NEW p \in Procs, NEW s \in Sectors, BreadCall(p, s) PROVE CacheCoherent'
    BY <1>1 DEF BreadCall, CacheCoherent, Done, diskvars, procvars
  <1>2. ASSUME NEW p \in Procs, NEW b \in Bufs, BgetHit(p, b) PROVE CacheCoherent'
    <2>1. \A c \in Bufs : flags'[c].valid = flags[c].valid /\ flags'[c].dirty = flags[c].dirty
      BY <1>2 DEF BgetHit, TypeOK, Flags
    <2>. QED  BY <1>2, <2>1 DEF BgetHit, CacheCoherent, Done, diskvars
  <1>3. ASSUME NEW p \in Procs, NEW b \in Bufs, BgetSleep(p, b) PROVE CacheCoherent'
    BY <1>3 DEF BgetSleep, CacheCoherent, Done, diskvars, procvars
  <1>4. ASSUME NEW p \in Procs, NEW i \in Positions, BgetFresh(p, i) PROVE CacheCoherent'
    <2>1. lru[i] \in Bufs
      BY DEF TypeOK
    <2>. QED  BY <1>4, <2>1 DEF BgetFresh, CacheCoherent, Done, TypeOK, diskvars
  <1>5. ASSUME NEW p \in Procs, BgetPanic(p) PROVE CacheCoherent'
    BY <1>5 DEF BgetPanic, CacheCoherent, Done, diskvars, procvars
  <1>6. ASSUME NEW p \in Procs, Bread(p) PROVE CacheCoherent'
    BY <1>6 DEF Bread, CacheCoherent, Done, diskvars, procvars
  <1>7. ASSUME NEW p \in Procs, NEW b \in Bufs, NEW v \in Data, Bwrite(p, b, v) PROVE CacheCoherent'
    <2>1. flags'[b].dirty /\ \A c \in Bufs : c # b => flags'[c] = flags[c] /\ data'[c] = data[c]
      BY <1>7 DEF Bwrite, TypeOK, Flags
    <2>. QED  BY <1>7, <2>1 DEF Bwrite, CacheCoherent, Done, diskvars
  <1>8. ASSUME NEW p \in Procs, Iderw(p) PROVE CacheCoherent'
    BY <1>8 DEF Iderw, CacheCoherent, Done, diskvars, procvars
  <1>9. ASSUME NEW p \in Procs, IderwCheck(p) PROVE CacheCoherent'
    BY <1>9 DEF IderwCheck, CacheCoherent, Done, diskvars, procvars
  <1>10. ASSUME NEW p \in Procs, NEW i \in Positions, Brelse(p, i) PROVE CacheCoherent'
    <2>1. lru[i] \in Bufs
      BY DEF TypeOK
    <2>2. \A c \in Bufs : flags'[c].valid = flags[c].valid /\ flags'[c].dirty = flags[c].dirty
      BY <1>10, <2>1 DEF Brelse, TypeOK, Flags
    <2>. QED  BY <1>10, <2>2 DEF Brelse, CacheCoherent, Done, diskvars
  <1>11. CASE DiskDone
    <2>1. idequeue # <<>> /\ 1 \in DOMAIN idequeue /\ idequeue[1] \in Bufs
      BY <1>11, Queue DEF DiskDone, QueueSound, Idle
    <2>2. /\ ide.sector = sector[idequeue[1]]
          /\ ide.op = "write" <=> flags[idequeue[1]].dirty
          /\ sector[idequeue[1]] \in Sectors
      BY <2>1, Queue, Queued DEF QueueSound
    <2>3. ASSUME NEW c \in Bufs, Done(c)
          PROVE  sector[c] # None /\ data[c] = disk'[sector[c]]
      <3>1. sector[c] \in Sectors /\ sector[c] # None /\ data[c] = disk[sector[c]]
        BY <2>3, NoneAssumption DEF CacheCoherent, CallState, Done
      <3>2. CASE ide.op = "write"
        <4>1. c # idequeue[1] /\ sector[c] # ide.sector
          BY <2>1, <2>2, <2>3, <3>1, <3>2 DEF OneBufferPerSector, Done
        <4>. QED  BY <1>11, <3>1, <3>2, <4>1 DEF DiskDone, TypeOK
      <3>3. CASE ide.op # "write"
        BY <1>11, <3>1, <3>3 DEF DiskDone
      <3>. QED  BY <3>2, <3>3
    <2>. QED  BY <1>11, <2>3 DEF DiskDone, CacheCoherent, Done, procvars
  <1>12. ASSUME Ideintr(TRUE) PROVE CacheCoherent'
    <2>. DEFINE h == Head(idequeue)
    <2>1. /\ h \in Bufs /\ h = idequeue[1] /\ idequeue # <<>> /\ 1 \in 1..Len(idequeue)
      BY <1>12, Queue DEF Ideintr
    <2>2. /\ ide # Idle /\ ide.sector = sector[h] /\ sector[h] \in Sectors /\ sector[h] # None
          /\ flags[h].dirty <=> ide.op = "write"
          /\ flags[h].dirty => ide.data = data[h]
      BY <2>1, Queue, Queued, NoneAssumption DEF QueueSound
    <2>3. \A c \in Bufs : c # h => flags'[c] = flags[c] /\ data'[c] = data[c]
      BY <1>12, <2>1 DEF Ideintr, TypeOK, Flags
    <2>4. data'[h] = disk[sector[h]]
      <3>1. CASE flags[h].dirty
        BY <1>12, <2>1, <2>2, <3>1 DEF Ideintr, CallState
      <3>2. CASE ~flags[h].dirty
        BY <1>12, <2>1, <2>2, <3>2 DEF Ideintr, TypeOK
      <3>. QED  BY <3>1, <3>2
    <2>5. disk' = disk /\ sector' = sector
      BY <1>12 DEF Ideintr
    <2>. QED  BY <2>1, <2>2, <2>3, <2>4, <2>5 DEF CacheCoherent, Done
  <1>13. ASSUME NEW p \in Procs, kill(p) PROVE CacheCoherent'
    BY <1>13 DEF kill, CacheCoherent, Done, diskvars
  <1>. QED  BY <1>1, <1>2, <1>3, <1>4, <1>5, <1>6, <1>7, <1>8, <1>9, <1>10, <1>11, <1>12, <1>13 DEF Next, InCall, Bget, Caller, Release, Interrupt

\* When no read fails, a clean valid buffer always equals its disk sector.
THEOREM Coherent ==
  ASSUME ~ReadErrors PROVE Spec => []CacheCoherent
  <1>1. Init => CacheCoherent
    BY DEF Init, CacheCoherent, Done
  <1>2. Inv /\ CacheCoherent /\ [Next]_vars => CacheCoherent'
    BY CoherentStep DEF vars, CacheCoherent, Done
  <1>. QED  BY <1>1, <1>2, InvHolds, PTL DEF Spec

\* When no read fails, bread and bwrite return buffers equal to the disk.
THEOREM ReturnsContents ==
  ASSUME ~ReadErrors PROVE Spec => []ReturnsSectorContents
  <1>1. Inv /\ CacheCoherent => ReturnsSectorContents
    <2>. SUFFICES ASSUME Inv, CacheCoherent, NEW p \in Procs, pc[p] = "run", NEW b \in held[p]
                  PROVE  data[b] = disk[sector[b]]
      BY DEF ReturnsSectorContents
    <2>1. Done(b) /\ b \in Bufs
      BY DEF Inv, CallState, TypeOK
    <2>. QED  BY <2>1 DEF CacheCoherent
  <1>. QED  BY <1>1, InvHolds, Coherent, PTL

\* When no read fails, the cache agrees with the disk for everybody.
THEOREM CoherenceHolds ==
  ASSUME ~ReadErrors PROVE Spec => []Coherence
  <1>1. CacheCoherent /\ ReturnsSectorContents => Coherence
    BY DEF Coherence
  <1>. QED  BY <1>1, Coherent, ReturnsContents, PTL

-----------------------------------------------------------------------------
(* bget panics only when the buffers are really in use *)

\* Every step keeps PanicOnlyWhenFull: bget and brelse stop with the panic, the
\* driver goes on but takes no buffer from its holder.
LEMMA PanicStep == Inv /\ PanicOnlyWhenFull /\ Step => PanicOnlyWhenFull'
  <1>. SUFFICES ASSUME Inv, PanicOnlyWhenFull, Step, panic'
                PROVE  /\ \A b \in Bufs : (\E p \in Procs : Holder(p, b))'
                       /\ \E p \in Procs : pc'[p] = "bget" /\ \A b \in Bufs : Cached(p, b)' = FALSE
    BY DEF PanicOnlyWhenFull
  <1>. USE DEF Inv
  <1>1. ASSUME NEW p \in Procs, BgetPanic(p)
        PROVE  /\ \A b \in Bufs : \E q \in Procs : Holder(q, b)
               /\ pc[p] = "bget" /\ \A b \in Bufs : ~Cached(p, b)
               /\ UNCHANGED <<pc, cur, held, want, sector>>
    BY <1>1 DEF BgetPanic, BusyIsALock, procvars
  <1>2. CASE \E p \in Procs : BgetPanic(p)
    BY <1>1, <1>2 DEF Holder, Cached
  <1>3. CASE ~\E p \in Procs : BgetPanic(p)
    <2>1. panic
      BY <1>3 DEF Step, BreadCall, BgetHit, BgetSleep, BgetFresh, Bread, Bwrite, Iderw, IderwCheck,
         Brelse, DiskDone, Ideintr, kill
    <2>2. /\ sector' = sector
          /\ \A q \in Procs : pc[q] = "bget" => pc'[q] = "bget" /\ want'[q] = want[q]
      <3>1. CASE \E p \in Procs, s \in Sectors : BreadCall(p, s)
        BY <3>1 DEF BreadCall, TypeOK
      <3>2. CASE \E p \in Procs : Bread(p) \/ Iderw(p) \/ IderwCheck(p) \/ kill(p)
        BY <3>2 DEF Bread, Iderw, IderwCheck, kill, TypeOK
      <3>3. CASE \E p \in Procs, b \in Bufs, v \in Data : Bwrite(p, b, v)
        BY <3>3 DEF Bwrite, TypeOK
      <3>4. CASE DiskDone
        BY <3>4 DEF DiskDone, procvars
      <3>5. ASSUME NEW ok \in BOOLEAN, Ideintr(ok)
            PROVE  /\ sector' = sector
                   /\ \A q \in Procs : pc[q] = "bget" => pc'[q] = "bget" /\ want'[q] = want[q]
        <4>1. Head(idequeue) \in Bufs
          BY <3>5, Queue DEF Ideintr
        <4>. QED  BY <3>5, <4>1, WakeupType DEF Ideintr
      <3>. QED  BY <1>3, <2>1, <3>1, <3>2, <3>3, <3>4, <3>5
                DEF Step, BgetHit, BgetSleep, BgetFresh, Brelse
    <2>3. \A q \in Procs, b \in Bufs : Holder(q, b) => Holder(q, b)'
      <3>1. CASE \E p \in Procs, s \in Sectors : BreadCall(p, s)
        BY <3>1 DEF BreadCall, Holder, TypeOK
      <3>2. CASE \E p \in Procs : Bread(p) \/ Iderw(p) \/ IderwCheck(p) \/ kill(p)
        <4>1. ASSUME NEW p \in Procs, Bread(p) \/ IderwCheck(p)
              PROVE  \A q \in Procs, b \in Bufs : Holder(q, b) => Holder(q, b)'
          <5>1. /\ cur' = cur /\ \A q \in Procs : held[q] \subseteq held'[q]
                /\ \A q \in Procs : q # p => pc'[q] = pc[q]
            BY <4>1 DEF Bread, IderwCheck, TypeOK
          <5>2. cur[p] \in held'[p] \/ pc'[p] \in {"iderw", "iosleep"}
            BY <4>1 DEF Bread, IderwCheck, TypeOK
          <5>. QED  BY <5>1, <5>2 DEF Holder
        <4>2. ASSUME NEW p \in Procs, Iderw(p) \/ kill(p)
              PROVE  \A q \in Procs, b \in Bufs : Holder(q, b) => Holder(q, b)'
          BY <4>2 DEF Iderw, kill, Holder, TypeOK
        <4>. QED  BY <3>2, <4>1, <4>2
      <3>3. CASE \E p \in Procs, b \in Bufs, v \in Data : Bwrite(p, b, v)
        BY <3>3 DEF Bwrite, Holder, TypeOK
      <3>4. CASE DiskDone
        BY <3>4 DEF DiskDone, Holder, procvars
      <3>5. ASSUME NEW ok \in BOOLEAN, Ideintr(ok)
            PROVE  \A q \in Procs, b \in Bufs : Holder(q, b) => Holder(q, b)'
        <4>1. Head(idequeue) \in Bufs
          BY <3>5, Queue DEF Ideintr
        <4>. QED  BY <3>5, <4>1, WakeupType DEF Ideintr, Holder
      <3>. QED  BY <1>3, <2>1, <3>1, <3>2, <3>3, <3>4, <3>5
                DEF Step, BgetHit, BgetSleep, BgetFresh, Brelse
    <2>4. PICK p \in Procs : pc[p] = "bget" /\ \A b \in Bufs : ~Cached(p, b)
      BY <2>1 DEF PanicOnlyWhenFull
    <2>5. pc'[p] = "bget" /\ \A b \in Bufs : Cached(p, b)' = FALSE
      BY <2>2, <2>4 DEF Cached
    <2>. QED  BY <2>1, <2>3, <2>5 DEF PanicOnlyWhenFull
  <1>. QED  BY <1>2, <1>3

\* Of the panics of bio.c and ide.c only "bget: no buffers" happens, and only
\* while some process is in every buffer; for any number of processes and of
\* buffers, whatever each of them holds.
THEOREM PanicsAreExplained == Spec => []PanicsExplained
  <1>1. Init => PanicOnlyWhenFull
    BY DEF Init, PanicOnlyWhenFull
  <1>2. Inv /\ PanicOnlyWhenFull /\ [Next]_vars => PanicOnlyWhenFull'
    <2>1. Inv /\ PanicOnlyWhenFull /\ UNCHANGED vars => PanicOnlyWhenFull'
      BY DEF vars, PanicOnlyWhenFull, Holder, Cached
    <2>. QED  BY <2>1, PanicStep, NextIsStep
  <1>3. NoMisuse /\ PanicOnlyWhenFull => PanicsExplained
    BY DEF PanicsExplained
  <1>. QED  BY <1>1, <1>2, <1>3, InvHolds, NoMisuseHolds, PTL DEF Spec

-----------------------------------------------------------------------------
(* the cache implements exclusive sectors *)

\* Only a held buffer is written, and bread returns valid ones.
HeldState ==
  /\ \A b \in Bufs : flags[b].dirty => \E p \in Procs : b \in held[p]
  /\ \A p \in Procs : \A b \in held[p] : flags[b].valid

\* Every step keeps what is known of the buffers in hand.
LEMMA HeldStep == Inv /\ HeldState /\ Step => HeldState'
  <1>. SUFFICES ASSUME Inv, HeldState, Step PROVE HeldState'
    OBVIOUS
  <1>0. TypeOK
    BY DEF Inv
  <1>1. ASSUME UNCHANGED <<flags, held>> PROVE HeldState'
    BY <1>1 DEF HeldState
  <1>2. ASSUME NEW p \in Procs, NEW b \in Bufs, BgetHit(p, b) PROVE HeldState'
    <2>1. held' = held /\ \A c \in Bufs : flags'[c].valid = flags[c].valid /\ flags'[c].dirty = flags[c].dirty
      BY <1>0, <1>2 DEF BgetHit, TypeOK, Flags
    <2>. QED  BY <1>0, <2>1 DEF HeldState, TypeOK
  <1>3. ASSUME NEW p \in Procs, NEW i \in Positions, BgetFresh(p, i) PROVE HeldState'
    <2>1. lru[i] \in Bufs /\ \A q \in Procs : lru[i] \notin held[q]
      BY <1>0, <1>3 DEF BgetFresh, TypeOK, Inv, BusyIsALock, Holder
    <2>2. held' = held /\ ~flags'[lru[i]].dirty /\ \A c \in Bufs : c # lru[i] => flags'[c] = flags[c]
      BY <1>0, <1>3, <2>1 DEF BgetFresh, TypeOK
    <2>. QED  BY <1>0, <2>1, <2>2 DEF HeldState, TypeOK
  <1>4. ASSUME NEW p \in Procs, Bread(p) \/ IderwCheck(p) PROVE HeldState'
    <2>1. /\ flags' = flags
          /\ held' = held \/ (flags[cur[p]].valid /\ held' = [held EXCEPT ![p] = @ \cup {cur[p]}])
      BY <1>4 DEF Bread, IderwCheck, Done
    <2>2. /\ \A q \in Procs : held[q] \subseteq held'[q]
          /\ \A q \in Procs : \A b \in held'[q] : b \in held[q] \/ flags[b].valid
      <3>1. held \in [Procs -> SUBSET Bufs]
        BY <1>0 DEF TypeOK
      <3>. QED  BY <2>1, <3>1
    <2>. QED  BY <2>1, <2>2 DEF HeldState
  <1>5. ASSUME NEW p \in Procs, NEW b \in Bufs, NEW v \in Data, Bwrite(p, b, v) PROVE HeldState'
    <2>1. /\ held' = held /\ b \in held[p]
          /\ \A c \in Bufs : flags'[c].valid = flags[c].valid /\ (c # b => flags'[c] = flags[c])
      BY <1>0, <1>5 DEF Bwrite, TypeOK, Flags
    <2>. QED  BY <1>0, <2>1 DEF HeldState, TypeOK
  <1>6. ASSUME NEW p \in Procs, NEW i \in Positions, Brelse(p, i) PROVE HeldState'
    <2>1. lru[i] \in Bufs /\ Done(lru[i])
      BY <1>0, <1>6 DEF Brelse, TypeOK, Inv, CallState
    <2>2. \A c \in Bufs : flags'[c].valid = flags[c].valid /\ flags'[c].dirty = flags[c].dirty
      BY <1>0, <1>6, <2>1 DEF Brelse, TypeOK, Flags
    <2>3. \A q \in Procs : held'[q] \subseteq held[q] /\ \A c \in held[q] : c # lru[i] => c \in held'[q]
      BY <1>0, <1>6 DEF Brelse, TypeOK
    <2>. QED  BY <1>0, <2>1, <2>2, <2>3 DEF HeldState, TypeOK, Done
  <1>7. ASSUME NEW ok \in BOOLEAN, Ideintr(ok) PROVE HeldState'
    <2>1. Head(idequeue) \in Bufs
      BY <1>0, <1>7, Queue DEF Ideintr
    <2>2. /\ held' = held /\ flags'[Head(idequeue)].valid /\ ~flags'[Head(idequeue)].dirty
          /\ \A c \in Bufs : c # Head(idequeue) => flags'[c] = flags[c]
      BY <1>0, <1>7, <2>1 DEF Ideintr, TypeOK, Flags
    <2>. QED  BY <1>0, <2>1, <2>2 DEF HeldState, TypeOK
  <1>. QED  BY <1>1, <1>2, <1>3, <1>4, <1>5, <1>6, <1>7 DEF Step, BreadCall, BgetSleep, BgetPanic, Iderw, DiskDone, kill, procvars

\* Who owns a sector and sees what, without CHOOSE.
Mapping ==
  \A s \in Sectors :
    /\ \A p \in Procs : \A b \in held[p] : sector[b] = s => Owner(s) = p /\ View(s) = data[b]
    /\ (\A p \in Procs : \A b \in held[p] : sector[b] # s) => Owner(s) = None /\ View(s) = disk[s]

\* A sector is in one buffer and that in one process's hands.
LEMMA MappingIs == Inv => Mapping
  <1>. SUFFICES ASSUME Inv, NEW s \in Sectors
                PROVE  /\ \A p \in Procs : \A b \in held[p] : sector[b] = s => Owner(s) = p /\ View(s) = data[b]
                       /\ (\A p \in Procs : \A b \in held[p] : sector[b] # s) => Owner(s) = None /\ View(s) = disk[s]
    BY DEF Mapping
  <1>1. ASSUME NEW p \in Procs, NEW b \in held[p], sector[b] = s PROVE Owner(s) = p /\ View(s) = data[b]
    <2>1. ASSUME NEW q \in Procs, NEW c \in held[q], sector[c] = s PROVE c = b /\ q = p
      <3>1. b \in Bufs /\ c \in Bufs /\ s # None
        BY NoneAssumption DEF Inv, TypeOK
      <3>2. c = b
        BY <1>1, <2>1, <3>1 DEF Inv, OneBufferPerSector
      <3>. QED  BY <3>1, <3>2 DEF Inv, BusyIsALock, Holder
    <2>2. Owner(s) = p
      BY <1>1, <2>1 DEF Owner
    <2>3. p # None
      BY NoneAssumption
    <2>4. (CHOOSE c \in held[p] : sector[c] = s) = b
      BY <1>1, <2>1
    <2>. QED  BY <2>2, <2>3, <2>4 DEF View
  <1>2. ASSUME \A p \in Procs : \A b \in held[p] : sector[b] # s PROVE Owner(s) = None /\ View(s) = disk[s]
    BY <1>2 DEF Owner, View
  <1>. QED  BY <1>1, <1>2

\* A step that leaves the holder of a sector alone, and what it sees.
LEMMA SameSector ==
  ASSUME Mapping, Mapping', NEW s \in Sectors, disk'[s] = disk[s],
         \A p \in Procs : \A b \in held[p] : sector[b] = s => b \in held'[p] /\ sector'[b] = s /\ data'[b] = data[b],
         \A p \in Procs : \A b \in held'[p] : sector'[b] = s => b \in held[p] /\ sector[b] = s
  PROVE  Owner(s)' = Owner(s) /\ View(s)' = View(s)
  <1>1. CASE \E p \in Procs : \E b \in held[p] : sector[b] = s
    <2>0. PICK p \in Procs : \E b \in held[p] : sector[b] = s
      BY <1>1
    <2>1. PICK b \in held[p] : sector[b] = s
      BY <2>0
    <2>2. Owner(s) = p /\ View(s) = data[b]
      BY <2>1 DEF Mapping
    <2>3. b \in held'[p] /\ sector'[b] = s /\ data'[b] = data[b]
      BY <2>1
    <2>4. Owner(s)' = p /\ View(s)' = data'[b]
      BY <2>3 DEF Mapping
    <2>. QED  BY <2>2, <2>3, <2>4
  <1>2. CASE ~\E p \in Procs : \E b \in held[p] : sector[b] = s
    <2>1. Owner(s) = None /\ View(s) = disk[s]
      BY <1>2 DEF Mapping
    <2>2. \A p \in Procs : \A b \in held'[p] : sector'[b] # s
      BY <1>2
    <2>3. Owner(s)' = None /\ View(s)' = disk'[s]
      BY <2>2 DEF Mapping
    <2>. QED  BY <2>1, <2>3
  <1>. QED  BY <1>1, <1>2

\* A step that leaves the buffers in hand alone is not seen.
LEMMA SameHolders ==
  ASSUME Mapping, Mapping', held' = held, disk' = disk,
         \A p \in Procs : \A b \in held[p] : sector'[b] = sector[b] /\ data'[b] = data[b]
  PROVE  UNCHANGED Store!svars
  <1>1. ASSUME NEW s \in Sectors PROVE Owner(s)' = Owner(s) /\ View(s)' = View(s)
    BY SameSector
  <1>. QED  BY <1>1 DEF Store!svars

\* The process gets a buffer into its hands, which agrees with the disk.
LEMMA TakesBuffer ==
  ASSUME Inv, CacheCoherent, Mapping, Mapping', NEW p \in Procs, NEW b \in Bufs, Holder(p, b), Done(b),
         held' = [held EXCEPT ![p] = @ \cup {b}], UNCHANGED <<sector, data, disk>>
  PROVE  Store!Next \/ UNCHANGED Store!svars
  <1>1. CASE b \in held[p]
    <2>1. held' = held
      BY <1>1 DEF Inv, TypeOK
    <2>. QED  BY <2>1, SameHolders
  <1>2. CASE b \notin held[p]
    <2>1. PICK s \in Sectors : s = sector[b]
      BY DEF Inv, CallState, Done
    <2>2. ASSUME NEW q \in Procs, NEW c \in held[q], sector[c] = s PROVE FALSE
      <3>1. c \in Bufs /\ s # None
        BY NoneAssumption DEF Inv, TypeOK
      <3>2. c = b
        BY <2>1, <2>2, <3>1 DEF Inv, OneBufferPerSector
      <3>3. Holder(q, b)
        BY <3>2 DEF Holder
      <3>. QED  BY <1>2, <3>2, <3>3 DEF Inv, BusyIsALock
    <2>3. Owner(s) = None /\ View(s) = disk[s]
      BY <2>2 DEF Mapping
    <2>4. held'[p] = held[p] \cup {b} /\ \A q \in Procs : q # p => held'[q] = held[q]
      BY DEF Inv, TypeOK
    <2>5. Owner(s)' = p /\ View(s)' = data[b]
      BY <2>1, <2>4 DEF Mapping
    <2>6. data[b] = disk[s]
      BY <2>1 DEF CacheCoherent
    <2>7. ASSUME NEW x \in Sectors, x # s PROVE Owner(x)' = Owner(x) /\ View(x)' = View(x)
      BY <2>1, <2>4, <2>7, SameSector
    <2>8. Store!Hold(p, s)
      BY <2>3, <2>5, <2>6, <2>7 DEF Store!Hold
    <2>. QED  BY <2>8 DEF Store!Next
  <1>. QED  BY <1>1, <1>2

\* bwrite changes what the holder sees.
LEMMA WriteChanges ==
  ASSUME Inv, Mapping, Mapping', NEW p \in Procs, NEW b \in Bufs, NEW v \in Data, Bwrite(p, b, v)
  PROVE  Store!Next
  <1>1. /\ b \in held[p] /\ data' = [data EXCEPT ![b] = v]
        /\ UNCHANGED <<sector, held, disk>> /\ data'[b] = v
    BY DEF Bwrite, diskvars, Inv, TypeOK
  <1>2. flags[b].busy
    BY <1>1 DEF Inv, BusyIsALock, Holder
  <1>3. PICK s \in Sectors : s = sector[b]
    BY <1>2 DEF Inv, CallState
  <1>4. Owner(s) = p /\ Owner(s)' = p /\ View(s)' = v
    BY <1>1, <1>3 DEF Mapping
  <1>5. ASSUME NEW x \in Sectors, x # s PROVE Owner(x)' = Owner(x) /\ View(x)' = View(x)
    <2>1. \A c \in Bufs : c # b => data'[c] = data[c]
      BY <1>1 DEF Inv, TypeOK
    <2>2. \A q \in Procs : \A c \in held[q] : c \in Bufs
      BY DEF Inv, TypeOK
    <2>. QED  BY <1>1, <1>3, <1>5, <2>1, <2>2, SameSector
  <1>6. Store!Change(p, s, v)
    BY <1>1, <1>4, <1>5 DEF Store!Change
  <1>. QED  BY <1>6 DEF Store!Next

\* brelse lets a sector go that is on the disk.
LEMMA ReleaseLetsGo ==
  ASSUME Inv, CacheCoherent, Mapping, Mapping', NEW p \in Procs, NEW i \in Positions, Brelse(p, i)
  PROVE  Store!Next
  <1>1. PICK b \in Bufs : b = lru[i]
    BY DEF Inv, TypeOK
  <1>2. /\ b \in held[p] /\ Done(b) /\ flags[b].busy
        /\ UNCHANGED <<sector, data, disk>>
    BY <1>1 DEF Brelse, diskvars, Inv, CallState, BusyIsALock, Holder
  <1>3. /\ held'[p] = held[p] \ {b}
        /\ \A q \in Procs : q # p => held'[q] = held[q]
    BY <1>1 DEF Brelse, Inv, TypeOK
  <1>4. PICK s \in Sectors : s = sector[b]
    BY <1>2 DEF Inv, CallState
  <1>5. Owner(s) = p /\ View(s) = data[b] /\ data[b] = disk[s]
    BY <1>2, <1>4 DEF Mapping, CacheCoherent
  <1>6. ASSUME NEW q \in Procs, NEW c \in held'[q], sector'[c] = s PROVE FALSE
    <2>1. c \in Bufs /\ c \in held[q] /\ s # None
      BY <1>3, NoneAssumption DEF Inv, TypeOK
    <2>2. c = b
      BY <1>2, <1>4, <1>6, <2>1 DEF Inv, OneBufferPerSector
    <2>3. q = p
      BY <1>2, <2>1, <2>2 DEF Inv, BusyIsALock, Holder
    <2>. QED  BY <1>3, <1>6, <2>2, <2>3
  <1>7. Owner(s)' = None /\ View(s)' = disk[s]
    BY <1>2, <1>6 DEF Mapping
  <1>8. ASSUME NEW x \in Sectors, x # s PROVE Owner(x)' = Owner(x) /\ View(x)' = View(x)
    BY <1>2, <1>3, <1>4, <1>8, SameSector
  <1>9. Store!LetGo(p, s)
    BY <1>2, <1>5, <1>7, <1>8 DEF Store!LetGo
  <1>. QED  BY <1>9 DEF Store!Next

\* The disk takes what the holder of the sector sees.
LEMMA DiskCommits ==
  ASSUME Inv, HeldState, Mapping, Mapping', DiskDone
  PROVE  Store!Next \/ UNCHANGED Store!svars
  <1>1. UNCHANGED <<held, sector, data>>
    BY DEF DiskDone, procvars
  <1>2. idequeue # <<>> /\ 1 \in DOMAIN idequeue /\ idequeue[1] \in Bufs
    BY Queue DEF Inv, DiskDone, QueueSound, Idle
  <1>3. CASE ide.op = "write"
    <2>1. PICK b \in Bufs, s \in Sectors : /\ ide.sector = s /\ s = sector[b] /\ flags[b].dirty
                                           /\ ide.data = data[b]
      BY <1>2, <1>3, Queue, Queued DEF Inv, QueueSound
    <2>2. PICK p \in Procs : b \in held[p]
      BY <2>1 DEF HeldState
    <2>3. Owner(s) = p /\ View(s) = data[b] /\ Owner(s)' = p /\ View(s)' = data[b] /\ p # None
      BY <1>1, <2>1, <2>2, NoneAssumption DEF Mapping
    <2>4. disk' = [disk EXCEPT ![s] = data[b]]
      BY <1>3, <2>1 DEF DiskDone
    <2>5. ASSUME NEW x \in Sectors, x # s PROVE Owner(x)' = Owner(x) /\ View(x)' = View(x)
      <3>1. disk'[x] = disk[x]
        BY <2>4, <2>5 DEF Inv, TypeOK
      <3>. QED  BY <1>1, <3>1, SameSector
    <2>6. Store!Commit(s)
      BY <2>3, <2>4, <2>5 DEF Store!Commit
    <2>. QED  BY <2>6 DEF Store!Next
  <1>4. CASE ide.op # "write"
    <2>1. disk' = disk
      BY <1>4 DEF DiskDone
    <2>. QED  BY <1>1, <2>1, SameHolders
  <1>. QED  BY <1>3, <1>4

\* A read fills a buffer that nobody has in hand yet.
LEMMA ReadUnseen ==
  ASSUME Inv, HeldState, Mapping, Mapping', NEW ok \in BOOLEAN, Ideintr(ok)
  PROVE  UNCHANGED Store!svars
  <1>1. UNCHANGED <<held, sector, disk>>
    BY DEF Ideintr
  <1>2. Head(idequeue) \in Bufs /\ ~Done(Head(idequeue))
    BY Queue DEF Ideintr, Inv, QueueSound
  <1>3. ASSUME NEW p \in Procs, NEW b \in held[p] PROVE data'[b] = data[b]
    <2>1. b \in Bufs /\ flags[b].valid
      BY DEF Inv, TypeOK, HeldState
    <2>2. CASE b = Head(idequeue)
      BY <1>2, <2>1, <2>2 DEF Ideintr, Done
    <2>3. CASE b # Head(idequeue)
      BY <1>2, <2>1, <2>3 DEF Ideintr, Inv, TypeOK
    <2>. QED  BY <2>2, <2>3
  <1>. QED  BY <1>1, <1>3, SameHolders

\* Every step of the cache is a step of the sectors, or is not seen.
LEMMA StepStore ==
  ASSUME Inv, HeldState, CacheCoherent, Mapping, Mapping', [Next]_vars
  PROVE  Store!Next \/ UNCHANGED Store!svars
  <1>1. ASSUME UNCHANGED <<held, sector, data, disk>> PROVE UNCHANGED Store!svars
    BY <1>1, SameHolders
  <1>2. ASSUME NEW p \in Procs, NEW i \in Positions, BgetFresh(p, i) PROVE UNCHANGED Store!svars
    <2>1. lru[i] \in Bufs /\ \A q \in Procs : lru[i] \notin held[q]
      BY <1>2 DEF BgetFresh, Inv, TypeOK, BusyIsALock, Holder
    <2>2. UNCHANGED <<held, data, disk>>
      BY <1>2 DEF BgetFresh, diskvars
    <2>3. \A q \in Procs : \A b \in held[q] : sector'[b] = sector[b]
      BY <1>2, <2>1 DEF BgetFresh, Inv, TypeOK
    <2>. QED  BY <2>2, <2>3, SameHolders
  <1>3. ASSUME NEW p \in Procs, Bread(p) PROVE Store!Next \/ UNCHANGED Store!svars
    <2>1. UNCHANGED <<sector, data, disk>> /\ cur[p] \in Bufs /\ Holder(p, cur[p]) /\ ~flags[cur[p]].dirty
      BY <1>3 DEF Bread, diskvars, Inv, CallState, Holder
    <2>2. CASE flags[cur[p]].valid
      BY <1>3, <2>1, <2>2, TakesBuffer DEF Bread, Done
    <2>3. CASE ~flags[cur[p]].valid
      BY <1>3, <1>1, <2>1, <2>3 DEF Bread
    <2>. QED  BY <2>2, <2>3
  <1>4. ASSUME NEW p \in Procs, IderwCheck(p) PROVE Store!Next \/ UNCHANGED Store!svars
    <2>1. UNCHANGED <<sector, data, disk>> /\ cur[p] \in Bufs /\ Holder(p, cur[p])
      BY <1>4 DEF IderwCheck, diskvars, Inv, CallState, Holder
    <2>2. CASE Done(cur[p])
      BY <1>4, <2>1, <2>2, TakesBuffer DEF IderwCheck
    <2>3. CASE ~Done(cur[p])
      BY <1>4, <1>1, <2>1, <2>3 DEF IderwCheck
    <2>. QED  BY <2>2, <2>3
  <1>5. CASE UNCHANGED vars
    BY <1>1, <1>5 DEF vars
  <1>6. CASE Step
    BY <1>1, <1>2, <1>3, <1>4, <1>6, WriteChanges, ReleaseLetsGo, DiskCommits, ReadUnseen
       DEF Step, BreadCall, BgetHit, BgetSleep, BgetPanic, Iderw, kill, diskvars, procvars
  <1>. QED  BY <1>5, <1>6, NextIsStep

\* bio.c over ide.c gives its callers what SectorStore promises: a sector is in
\* one process's hands at a time, the holder sees what is on the disk and what
\* it wrote, and lets go only what the disk has.
THEOREM CacheIsSectorStore ==
  ASSUME ~ReadErrors
  PROVE  Spec => ImplementsSectorStore
  <1>1. Init => HeldState
    BY DEF Init, HeldState
  <1>2. Inv /\ HeldState /\ [Next]_vars => HeldState'
    BY NextIsStep, HeldStep DEF vars, HeldState
  <1>3. Init => Store!Init
    <2>. SUFFICES ASSUME Init PROVE Store!Init
      OBVIOUS
    <2>1. Mapping
      BY InitInv, MappingIs
    <2>2. \A s \in Sectors : Owner(s) = None /\ View(s) = disk[s]
      BY <2>1 DEF Init, Mapping
    <2>3. disk \in [Sectors -> Data]
      BY DEF Init
    <2>4. [s \in Sectors |-> View(s)] = disk
      BY <2>2, <2>3
    <2>. QED  BY <2>2, <2>3, <2>4 DEF Store!Init
  <1>4. Inv /\ HeldState /\ CacheCoherent /\ Mapping /\ Mapping' /\ [Next]_vars => [Store!Next]_Store!svars
    BY StepStore
  <1>. QED  BY <1>1, <1>2, <1>3, <1>4, MappingIs, Coherent, InvHolds, PTL DEF Spec, ImplementsSectorStore, Store!Spec
=============================================================================
