------------------------------ MODULE PipeProofs ------------------------------
(***************************************************************************)
(* Proofs about Pipe, for any number of processes and any size of the      *)
(* ring.                                                                   *)
(***************************************************************************)
EXTENDS Pipe, Lemmas

\* where a process is inside pipewrite, and inside piperead
Writing == {"w_acq", "w", "w_doze", "w_sleep"}
Reading == {"r_acq", "r", "r_doze", "r_sleep", "r_copy"}

LockState(p) == lock = p <=> pc[p] \in Holding

\* Nobody has an end it was not given.  The page is freed with the second end;
\* one process, which nobody can follow any more, closes an end.
Closing ==
  /\ \A p \in Procs : fds[p] \subseteq Ends[p]
  /\ freed <=> ~readopen /\ ~writeopen
  /\ \A p, q \in Procs : pc[p] = "cr_acq" => "r" \notin fds[q] /\ (pc[q] = "cr_acq" => q = p)
  /\ \A p, q \in Procs : pc[p] = "cw_acq" => "w" \notin fds[q] /\ (pc[q] = "cw_acq" => q = p)

\* A writer has the end open.  It goes to sleep on a full pipe, and as long as it
\* sleeps the pipe is full or a reader is about to call wakeup.
WriterState(p) ==
  /\ pc[p] \in Writing => "w" \in fds[p]
  /\ pc[p] = "w_doze" => Full
  /\ pc[p] \in {"w_doze", "w_sleep"} => readopen
  /\ pc[p] = "w_sleep" => Full \/ \E q \in Procs : pc[q] = "r_copy"

\* The same of a reader, except that a killed writer may forget it; and it
\* returns 0 only if it has found the write end closed.
ReaderState(p) ==
  /\ pc[p] \in Reading => "r" \in fds[p]
  /\ pc[p] = "r_doze" => Empty
  /\ pc[p] \in {"r_doze", "r_sleep"} => writeopen
  /\ pc[p] = "r_sleep" /\ ~WriterKilled => Empty \/ \E q \in Procs : pc[q] = "w"
  /\ pc[p] \in Reading /\ ~took[p] => left[p] > 0
  /\ took[p] => pc[p] = "r_copy"
  /\ pc[p] = "r_copy" /\ ~took[p] => ~(Empty /\ writeopen)

\* The ring holds at most PIPESIZE bytes, in the slots from nread on.
RingState ==
  /\ Count \in 0..PIPESIZE
  /\ \A k \in 0..Count-1 : data[(nread + k) % PIPESIZE] \in Byte

\* The inductive invariant.
Inv == /\ TypeOK /\ EndsCounted /\ Closing /\ RingState
       /\ \A p \in Procs : LockState(p) /\ WriterState(p) /\ ReaderState(p)

-----------------------------------------------------------------------------
(* the ring *)

\* The counters wrap around at W, which PIPESIZE divides: no slot is skipped.
LEMMA SlotWraps ==
  ASSUME NEW a \in Int
  PROVE  (a + W) % PIPESIZE = a % PIPESIZE
  BY Wraps, SizeAssumption, WAssumption

\* How many bytes the counters leave in the ring, and what the code's tests for a
\* full and for an empty ring say of it.
LEMMA CountIs ==
  ASSUME TypeOK
  PROVE  /\ Count = IF nwrite >= nread THEN nwrite - nread ELSE nwrite - nread + W
         /\ Count \in 0..W-1
         /\ Full <=> Count = PIPESIZE
         /\ Empty <=> Count = 0
  <1>1. nread \in 0..W-1 /\ nwrite \in 0..W-1 /\ W \in Nat \ {0} /\ PIPESIZE \in Nat /\ PIPESIZE < W
    BY SizeAssumption, WAssumption DEF TypeOK
  <1>2. Count = IF nwrite >= nread THEN nwrite - nread ELSE nwrite - nread + W
    BY <1>1 DEF Count
  <1>3. (nread + PIPESIZE) % W = IF nread + PIPESIZE < W THEN nread + PIPESIZE ELSE nread + PIPESIZE - W
    <2>1. PIPESIZE \in 0..W /\ nread \in 0..W-1 /\ W \in Nat \ {0}
      BY <1>1
    <2>. QED  BY <2>1, Plus, Zenon
  <1>. QED  BY <1>1, <1>2, <1>3 DEF Full, Empty

\* The slot a writer uses comes after the queued bytes.
LEMMA WriteSlot ==
  ASSUME TypeOK
  PROVE  nwrite % PIPESIZE = (nread + Count) % PIPESIZE
  <1>1. nread \in 0..W-1 /\ nwrite \in 0..W-1 /\ Count \in Int /\ W \in Int
    BY CountIs, WAssumption DEF TypeOK
  <1>2. nread + Count = nwrite \/ nread + Count = nwrite + W
    BY <1>1, CountIs
  <1>. QED  BY <1>1, <1>2, SlotWraps

\* One more byte written.
LEMMA PutCount ==
  ASSUME TypeOK, TypeOK', nread' = nread, nwrite' = (nwrite + 1) % W, Count < PIPESIZE
  PROVE  Count' = Count + 1
  <1>1. nread \in 0..W-1 /\ nwrite \in 0..W-1 /\ W \in Nat \ {0} /\ PIPESIZE \in Nat /\ PIPESIZE < W
    BY SizeAssumption, WAssumption DEF TypeOK
  <1>2. nwrite' = IF nwrite + 1 = W THEN 0 ELSE nwrite + 1
    BY <1>1
  <1>3. Count = IF nwrite >= nread THEN nwrite - nread ELSE nwrite - nread + W
    BY CountIs
  <1>4. Count' = IF nwrite' >= nread THEN nwrite' - nread ELSE nwrite' - nread + W
    BY <1>1, <1>2 DEF Count
  <1>. QED  BY <1>1, <1>2, <1>3, <1>4

\* One byte fewer, and the slots of the others keep their order.
LEMMA GetCount ==
  ASSUME TypeOK, TypeOK', nwrite' = nwrite, nread' = (nread + 1) % W, Count > 0
  PROVE  /\ Count' = Count - 1
         /\ \A k \in Nat : (nread' + k) % PIPESIZE = (nread + k + 1) % PIPESIZE
  <1>1. nread \in 0..W-1 /\ nwrite \in 0..W-1 /\ W \in Nat \ {0}
    BY WAssumption DEF TypeOK
  <1>2. nread' = IF nread + 1 = W THEN 0 ELSE nread + 1
    BY <1>1
  <1>3. Count = IF nwrite >= nread THEN nwrite - nread ELSE nwrite - nread + W
    BY CountIs
  <1>4. Count' = IF nwrite >= nread' THEN nwrite - nread' ELSE nwrite - nread' + W
    BY <1>1, <1>2 DEF Count
  <1>5. Count' = Count - 1
    BY <1>1, <1>2, <1>3, <1>4
  <1>6. ASSUME NEW k \in Nat PROVE (nread' + k) % PIPESIZE = (nread + k + 1) % PIPESIZE
    <2>1. CASE nread + 1 = W
      <3>1. nread' + k = k /\ nread + k + 1 = k + W
        BY <1>1, <1>2, <2>1
      <3>. QED  BY <3>1, SlotWraps
    <2>2. CASE nread + 1 # W
      <3>1. nread' + k = nread + k + 1
        BY <1>1, <1>2, <2>2
      <3>. QED  BY <3>1
    <2>. QED  BY <2>1, <2>2
  <1>. QED  BY <1>5, <1>6
-----------------------------------------------------------------------------
(* what a step of one process leaves alone *)

\* A sleeper of the pipe is where it was, or has been woken.
Stirred(q) ==
  \/ pc'[q] = pc[q]
  \/ pc[q] = "r_sleep" /\ pc'[q] = "r_acq"
  \/ pc[q] = "w_sleep" /\ pc'[q] = "w_acq"

\* A step of p moves no other process, except that it may wake it, and takes or
\* gives up the lock for itself only.
Own(p) ==
  /\ \A q \in Procs \ {p} : Stirred(q) /\ left'[q] = left[q] /\ took'[q] = took[q]
  /\ lock' = lock \/ {lock, lock'} = {None, p}

\* The others keep the lock, or do not have it.
LEMMA OtherLocks ==
  ASSUME Inv, NEW p \in Procs, Own(p), NEW q \in Procs \ {p}
  PROVE  LockState(q)'
  <1>1. lock' = q <=> lock = q
    BY NoneAssumption DEF Own
  <1>2. pc'[q] \in Holding <=> pc[q] \in Holding
    BY DEF Own, Stirred, Holding
  <1>. QED  BY <1>1, <1>2 DEF Inv, LockState

\* A reader or a writer of the pipe has its end open.
LEMMA EndOpen ==
  ASSUME Inv, NEW q \in Procs
  PROVE  /\ pc[q] \in Writing => writeopen /\ ~freed
         /\ pc[q] \in Reading => readopen /\ ~freed
         /\ pc[q] = "cr_acq" => readopen /\ ~freed
         /\ pc[q] = "cw_acq" => writeopen /\ ~freed
  BY DEF Inv, WriterState, ReaderState, EndsCounted, Closing

\* A step that leaves the ring and its ends alone keeps the invariant if it keeps
\* what concerns its process, and nobody sleeps on who forgets the wakeup.
LEMMA ControlStep ==
  ASSUME Inv, NEW p \in Procs, UNCHANGED <<pipe, freed, fds, killed>>, TypeOK', Own(p),
         {pc[p], pc'[p]} \cap {"cr_acq", "cw_acq"} = {},
         LockState(p)', WriterState(p)', ReaderState(p)',
         pc[p] = "r_copy" /\ pc'[p] # "r_copy" => \A q \in Procs : pc'[q] # "w_sleep",
         pc[p] = "w" /\ pc'[p] # "w" => \/ \A q \in Procs : pc'[q] # "r_sleep"
                                        \/ WriterKilled
  PROVE  Inv'
  <1>1. pc \in [Procs -> PCs] /\ pc' \in [Procs -> PCs]
    BY DEF Inv, TypeOK
  <1>2. \A q \in Procs : /\ pc'[q] = "cr_acq" <=> pc[q] = "cr_acq"
                         /\ pc'[q] = "cw_acq" <=> pc[q] = "cw_acq"
    BY DEF Own, Stirred
  <1>3. EndsCounted' /\ Closing'
    BY <1>2 DEF Inv, EndsCounted, Closing, pipe
  <1>4. RingState'
    BY DEF Inv, RingState, Count, pipe
  <1>5. Full' = Full /\ Empty' = Empty
    BY DEF Full, Empty, pipe
  <1>6. ASSUME NEW q \in Procs \ {p} PROVE WriterState(q)'
    <2>1. WriterState(q) /\ Stirred(q)
      BY DEF Inv, Own
    <2>2. pc'[q] = "w_sleep" => pc[q] = "w_sleep"
      BY <2>1 DEF Stirred
    <2>3. pc'[q] = "w_sleep" /\ ~Full' => \E r \in Procs : pc'[r] = "r_copy"
      <3>. SUFFICES ASSUME pc'[q] = "w_sleep", ~Full' PROVE \E r \in Procs : pc'[r] = "r_copy"
        OBVIOUS
      <3>1. PICK r \in Procs : pc[r] = "r_copy"
        BY <1>5, <2>1, <2>2 DEF WriterState
      <3>2. CASE r = p
        BY <3>1, <3>2
      <3>3. CASE r # p
        BY <3>1, <3>3 DEF Own, Stirred
      <3>. QED  BY <3>2, <3>3
    <2>. QED  BY <2>1, <2>2, <2>3, <1>5 DEF WriterState, Stirred, Writing, pipe
  <1>7. ASSUME NEW q \in Procs \ {p} PROVE ReaderState(q)'
    <2>1. ReaderState(q) /\ Stirred(q) /\ took'[q] = took[q] /\ left'[q] = left[q]
      BY DEF Inv, Own
    <2>2. pc'[q] = "r_sleep" => pc[q] = "r_sleep"
      BY <2>1 DEF Stirred
    <2>3. pc'[q] = "r_sleep" /\ ~WriterKilled /\ ~Empty' => \E r \in Procs : pc'[r] = "w"
      <3>. SUFFICES ASSUME pc'[q] = "r_sleep", ~WriterKilled, ~Empty'
                    PROVE  \E r \in Procs : pc'[r] = "w"
        OBVIOUS
      <3>1. PICK r \in Procs : pc[r] = "w"
        BY <1>5, <2>1, <2>2 DEF ReaderState
      <3>2. CASE r = p
        BY <3>1, <3>2
      <3>3. CASE r # p
        BY <3>1, <3>3 DEF Own, Stirred
      <3>. QED  BY <3>2, <3>3
    <2>4. pc'[q] = "r_doze" => pc[q] = "r_doze"
      BY <2>1 DEF Stirred
    <2>5. (pc'[q] \in Reading <=> pc[q] \in Reading) /\ (pc'[q] = "r_copy" <=> pc[q] = "r_copy")
      BY <2>1 DEF Stirred, Reading
    <2>6. WriterKilled' <=> WriterKilled
      BY DEF WriterKilled
    <2>. QED  BY <2>1, <2>2, <2>3, <2>4, <2>5, <2>6, <1>5 DEF ReaderState, pipe
  <1>8. \A q \in Procs : LockState(q)'
    BY OtherLocks
  <1>. QED  BY <1>3, <1>4, <1>6, <1>7, <1>8 DEF Inv

\* Who a wakeup wakes.
LEMMA WakeupStirs ==
  ASSUME Inv, NEW p \in Procs, NEW a, NEW b \in PCs, wakeup(p, a, b)
  PROVE  /\ pc' \in [Procs -> PCs] /\ pc'[p] = b
         /\ \A q \in Procs \ {p} : Stirred(q)
         /\ \A q \in Procs \ {p} : /\ a = "r" => pc'[q] # "r_sleep"
                                   /\ a = "w" => pc'[q] # "w_sleep"
  BY DEF Inv, TypeOK, wakeup, Woken, Stirred, PCs, Waiting, Holding, Sleeping

\* A process that goes to b by itself.
LEMMA GoMoves ==
  ASSUME Inv, NEW p \in Procs, NEW b \in PCs, Go(p, b)
  PROVE  /\ pc' \in [Procs -> PCs] /\ pc'[p] = b
         /\ \A q \in Procs \ {p} : pc'[q] = pc[q] /\ Stirred(q)
  BY DEF Inv, TypeOK, Go, Stirred

\* What is known of a process.
LEMMA Known ==
  ASSUME Inv, NEW p \in Procs
  PROVE  /\ LockState(p) /\ WriterState(p) /\ ReaderState(p)
         /\ left[p] \in Nat /\ took[p] \in BOOLEAN /\ pc[p] \in PCs
  BY DEF Inv, TypeOK

\* The lock is taken, from its free state.
LEMMA AcquireInv ==
  ASSUME Inv, NEW p \in Procs, Acquire(p)
  PROVE  Inv'
  <1>. USE DEF Acquire
  <1>. DEFINE b == IF pc[p] = "w_acq" THEN "w" ELSE "r"
  <1>1. /\ pc' \in [Procs -> PCs] /\ pc'[p] = b
        /\ \A q \in Procs \ {p} : Stirred(q)
    BY GoMoves DEF PCs, Holding
  <1>2. pc[p] \in {"w_acq", "r_acq"} /\ b \in {"w", "r"} /\ (b = "w" <=> pc[p] = "w_acq")
    BY DEF Waiting
  <1>. HIDE DEF b
  <1>3. TypeOK'
    BY <1>1 DEF Inv, TypeOK, pipe
  <1>4. Own(p)
    BY <1>1 DEF Own
  <1>5. LockState(p)'
    BY <1>1, <1>2 DEF LockState, Holding
  <1>6. WriterState(p)'
    BY <1>1, <1>2, Known DEF WriterState, Writing
  <1>7. ReaderState(p)'
    BY <1>1, <1>2, Known DEF ReaderState, Reading
  <1>. QED  BY <1>1, <1>2, <1>3, <1>4, <1>5, <1>6, <1>7, ControlStep

\* A process enters pipewrite.
LEMMA WriteCallInv ==
  ASSUME Inv, NEW p \in Procs, NEW k \in Reqs, WriteCall(p, k)
  PROVE  Inv'
  <1>. USE DEF WriteCall, At
  <1>1. /\ pc' \in [Procs -> PCs] /\ pc'[p] = "w_acq"
        /\ \A q \in Procs \ {p} : Stirred(q)
    BY GoMoves DEF PCs, Waiting
  <1>2. k \in Nat /\ k > 0
    BY ReqsAssumption
  <1>3. TypeOK'
    BY <1>1, <1>2 DEF Inv, TypeOK, pipe
  <1>4. Own(p)
    BY <1>1 DEF Own, Inv, TypeOK
  <1>5. LockState(p)'
    BY <1>1, Known DEF LockState, Holding
  <1>6. WriterState(p)'
    BY <1>1 DEF WriterState, Writing
  <1>7. ReaderState(p)'
    BY <1>1, Known DEF ReaderState, Reading
  <1>. QED  BY <1>1, <1>3, <1>4, <1>5, <1>6, <1>7, ControlStep

\* A process enters piperead.
LEMMA ReadCallInv ==
  ASSUME Inv, NEW p \in Procs, NEW k \in Reqs, ReadCall(p, k)
  PROVE  Inv'
  <1>. USE DEF ReadCall, At
  <1>1. /\ pc' \in [Procs -> PCs] /\ pc'[p] = "r_acq"
        /\ \A q \in Procs \ {p} : Stirred(q)
    BY GoMoves DEF PCs, Waiting
  <1>2. k \in Nat /\ k > 0
    BY ReqsAssumption
  <1>3. TypeOK' /\ left'[p] = k
    BY <1>1, <1>2 DEF Inv, TypeOK, pipe
  <1>4. Own(p)
    BY <1>1 DEF Own, Inv, TypeOK
  <1>5. LockState(p)'
    BY <1>1, Known DEF LockState, Holding
  <1>6. WriterState(p)'
    BY <1>1 DEF WriterState, Writing
  <1>7. ReaderState(p)'
    BY <1>1, <1>2, <1>3, Known DEF ReaderState, Reading
  <1>. QED  BY <1>1, <1>3, <1>4, <1>5, <1>6, <1>7, ControlStep

\* pipewrite returns -1 on a full pipe without a wakeup: its caller is killed, or
\* there is no reader to be forgotten.
LEMMA WriteFailInv ==
  ASSUME Inv, NEW p \in Procs, WriteFail(p)
  PROVE  Inv'
  <1>. USE DEF WriteFail, At
  <1>1. /\ pc' \in [Procs -> PCs] /\ pc'[p] = "idle"
        /\ \A q \in Procs \ {p} : Stirred(q)
    BY GoMoves DEF PCs
  <1>2. lock = p
    BY Known DEF LockState, Holding
  <1>3. TypeOK'
    BY <1>1 DEF Inv, TypeOK, pipe
  <1>4. Own(p)
    BY <1>1, <1>2 DEF Own, Inv, TypeOK
  <1>5. LockState(p)'
    BY <1>1, NoneAssumption DEF LockState, Holding
  <1>6. WriterState(p)'
    BY <1>1 DEF WriterState, Writing
  <1>7. ReaderState(p)'
    BY <1>1, Known DEF ReaderState, Reading
  <1>8. ~readopen => \A q \in Procs : pc'[q] # "r_sleep"
    BY <1>1, EndOpen DEF Reading, Stirred
  <1>9. killed[p] => WriterKilled
    BY Known DEF WriterKilled, WriterState, Writing, Inv, Closing
  <1>. QED  BY <1>1, <1>3, <1>4, <1>5, <1>6, <1>7, <1>8, <1>9, ControlStep

\* A writer that finds the pipe full wakes the readers and will sleep.
LEMMA WriteBlockInv ==
  ASSUME Inv, NEW p \in Procs, WriteBlock(p)
  PROVE  Inv'
  <1>. USE DEF WriteBlock, At
  <1>1. /\ pc' \in [Procs -> PCs] /\ pc'[p] = "w_doze"
        /\ \A q \in Procs \ {p} : Stirred(q)
        /\ \A q \in Procs : pc'[q] # "r_sleep"
    BY WakeupStirs DEF PCs, Holding
  <1>2. TypeOK'
    BY <1>1 DEF Inv, TypeOK, pipe
  <1>3. Own(p)
    BY <1>1 DEF Own
  <1>4. LockState(p)'
    BY <1>1, Known DEF LockState, Holding
  <1>5. WriterState(p)'
    <2>1. Full' = Full
      BY DEF Full, pipe
    <2>. QED  BY <1>1, <2>1, Known DEF WriterState, Writing, pipe
  <1>6. ReaderState(p)'
    BY <1>1, Known DEF ReaderState, Reading
  <1>. QED  BY <1>1, <1>2, <1>3, <1>4, <1>5, <1>6, ControlStep

\* sleep gives up the lock.
LEMMA SleepInv ==
  ASSUME Inv, NEW p \in Procs, Sleep(p)
  PROVE  Inv'
  <1>. USE DEF Sleep
  <1>. DEFINE b == IF pc[p] = "w_doze" THEN "w_sleep" ELSE "r_sleep"
  <1>1. /\ pc' \in [Procs -> PCs] /\ pc'[p] = b
        /\ \A q \in Procs \ {p} : Stirred(q)
    BY GoMoves DEF PCs, Sleeping
  <1>2. pc[p] \in {"w_doze", "r_doze"} /\ b \in {"w_sleep", "r_sleep"} /\ (b = "w_sleep" <=> pc[p] = "w_doze")
    OBVIOUS
  <1>. HIDE DEF b
  <1>3. lock = p
    BY <1>2, Known DEF LockState, Holding
  <1>4. TypeOK'
    BY <1>1 DEF Inv, TypeOK, pipe
  <1>5. Own(p)
    BY <1>1, <1>3 DEF Own
  <1>6. LockState(p)'
    BY <1>1, <1>2, NoneAssumption DEF LockState, Holding
  <1>7. Full' = Full /\ Empty' = Empty
    BY DEF Full, Empty, pipe
  <1>8. WriterState(p)'
    BY <1>1, <1>2, <1>7, Known DEF WriterState, Writing, pipe
  <1>9. ReaderState(p)'
    BY <1>1, <1>2, <1>7, Known DEF ReaderState, Reading, pipe
  <1>. QED  BY <1>1, <1>2, <1>4, <1>5, <1>6, <1>8, <1>9, ControlStep

\* pipewrite has written everything and wakes the readers.
LEMMA WriteDoneInv ==
  ASSUME Inv, NEW p \in Procs, WriteDone(p)
  PROVE  Inv'
  <1>. USE DEF WriteDone, At
  <1>1. /\ pc' \in [Procs -> PCs] /\ pc'[p] = "idle"
        /\ \A q \in Procs \ {p} : Stirred(q)
        /\ \A q \in Procs : pc'[q] # "r_sleep"
    BY WakeupStirs DEF PCs
  <1>2. lock = p
    BY Known DEF LockState, Holding
  <1>3. TypeOK'
    BY <1>1 DEF Inv, TypeOK, pipe
  <1>4. Own(p)
    BY <1>1, <1>2 DEF Own
  <1>5. LockState(p)'
    BY <1>1, NoneAssumption DEF LockState, Holding
  <1>6. WriterState(p)'
    BY <1>1 DEF WriterState, Writing
  <1>7. ReaderState(p)'
    BY <1>1, Known DEF ReaderState, Reading
  <1>. QED  BY <1>1, <1>3, <1>4, <1>5, <1>6, <1>7, ControlStep

\* piperead returns -1: its caller is killed.
LEMMA ReadFailInv ==
  ASSUME Inv, NEW p \in Procs, ReadFail(p)
  PROVE  Inv'
  <1>. USE DEF ReadFail, At
  <1>1. /\ pc' \in [Procs -> PCs] /\ pc'[p] = "idle"
        /\ \A q \in Procs \ {p} : Stirred(q)
    BY GoMoves DEF PCs
  <1>2. lock = p
    BY Known DEF LockState, Holding
  <1>3. TypeOK'
    BY <1>1 DEF Inv, TypeOK, pipe
  <1>4. Own(p)
    BY <1>1, <1>2 DEF Own, Inv, TypeOK
  <1>5. LockState(p)'
    BY <1>1, NoneAssumption DEF LockState, Holding
  <1>6. WriterState(p)'
    BY <1>1 DEF WriterState, Writing
  <1>7. ReaderState(p)'
    BY <1>1, Known DEF ReaderState, Reading
  <1>. QED  BY <1>1, <1>3, <1>4, <1>5, <1>6, <1>7, ControlStep

\* A reader that finds the pipe empty will sleep.
LEMMA ReadBlockInv ==
  ASSUME Inv, NEW p \in Procs, ReadBlock(p)
  PROVE  Inv'
  <1>. USE DEF ReadBlock, At
  <1>1. /\ pc' \in [Procs -> PCs] /\ pc'[p] = "r_doze"
        /\ \A q \in Procs \ {p} : Stirred(q)
    BY GoMoves DEF PCs, Holding
  <1>2. TypeOK'
    BY <1>1 DEF Inv, TypeOK, pipe
  <1>3. Own(p)
    BY <1>1 DEF Own
  <1>4. LockState(p)'
    BY <1>1, Known DEF LockState, Holding
  <1>5. WriterState(p)'
    BY <1>1 DEF WriterState, Writing
  <1>6. ReaderState(p)'
    <2>1. Empty' = Empty
      BY DEF Empty, pipe
    <2>. QED  BY <1>1, <2>1, Known DEF ReaderState, Reading, pipe
  <1>. QED  BY <1>1, <1>2, <1>3, <1>4, <1>5, <1>6, ControlStep

\* A reader goes on to copy what is there, or to report the end of file.
LEMMA ReadStartInv ==
  ASSUME Inv, NEW p \in Procs, ReadStart(p)
  PROVE  Inv'
  <1>. USE DEF ReadStart, At
  <1>1. /\ pc' \in [Procs -> PCs] /\ pc'[p] = "r_copy"
        /\ \A q \in Procs \ {p} : Stirred(q)
    BY GoMoves DEF PCs, Holding
  <1>2. TypeOK'
    BY <1>1 DEF Inv, TypeOK, pipe
  <1>3. Own(p)
    BY <1>1 DEF Own
  <1>4. LockState(p)'
    BY <1>1, Known DEF LockState, Holding
  <1>5. WriterState(p)'
    BY <1>1 DEF WriterState, Writing
  <1>6. ReaderState(p)'
    <2>1. Empty' = Empty
      BY DEF Empty, pipe
    <2>. QED  BY <1>1, <2>1, Known DEF ReaderState, Reading, pipe
  <1>. QED  BY <1>1, <1>2, <1>3, <1>4, <1>5, <1>6, ControlStep

\* piperead wakes the writers and returns.
LEMMA ReadDoneInv ==
  ASSUME Inv, NEW p \in Procs, ReadDone(p)
  PROVE  Inv'
  <1>. USE DEF ReadDone, At
  <1>1. /\ pc' \in [Procs -> PCs] /\ pc'[p] = "idle"
        /\ \A q \in Procs \ {p} : Stirred(q)
        /\ \A q \in Procs : pc'[q] # "w_sleep"
    BY WakeupStirs DEF PCs
  <1>2. lock = p
    BY Known DEF LockState, Holding
  <1>3. TypeOK' /\ took'[p] = FALSE
    BY <1>1 DEF Inv, TypeOK, pipe
  <1>4. Own(p)
    BY <1>1, <1>2 DEF Own, Inv, TypeOK
  <1>5. LockState(p)'
    BY <1>1, NoneAssumption DEF LockState, Holding
  <1>6. WriterState(p)'
    BY <1>1 DEF WriterState, Writing
  <1>7. ReaderState(p)'
    BY <1>1, <1>3 DEF ReaderState, Reading
  <1>. QED  BY <1>1, <1>3, <1>4, <1>5, <1>6, <1>7, ControlStep

-----------------------------------------------------------------------------
(* the steps that change the ring, its ends or killed *)

\* Only one process is inside the critical section.
LEMMA Alone ==
  ASSUME Inv, NEW p \in Procs, pc[p] \in Holding, NEW q \in Procs, pc[q] \in Holding
  PROVE  q = p
  BY DEF Inv, LockState

\* A writer finds room, and its byte is queued behind the others.
LEMMA WriteByteRing ==
  ASSUME Inv, NEW p \in Procs, NEW b \in Byte, WriteByte(p, b)
  PROVE  /\ TypeOK' /\ Count \in 0..PIPESIZE-1 /\ Count' = Count + 1
         /\ data'[(nread + Count) % PIPESIZE] = b
         /\ \A k \in 0..Count-1 : data'[(nread + k) % PIPESIZE] = data[(nread + k) % PIPESIZE]
  <1>. DEFINE s == nwrite % PIPESIZE
  <1>1. TypeOK /\ RingState /\ nread \in Nat /\ nwrite \in Nat
    BY WAssumption DEF Inv, TypeOK
  <1>2. Count \in 0..PIPESIZE-1
    BY <1>1, CountIs, SizeAssumption DEF WriteByte, RingState
  <1>3. s \in 0..PIPESIZE-1
    BY <1>1, SizeAssumption
  <1>4. data' = [data EXCEPT ![s] = b] /\ nread' = nread /\ nwrite' = (nwrite + 1) % W
    BY DEF WriteByte
  <1>5. s = (nread + Count) % PIPESIZE
    BY <1>1, WriteSlot
  <1>. HIDE DEF s
  <1>6. TypeOK'
    <2>1. data' \in [0..PIPESIZE-1 -> Byte \cup {None}]
      BY <1>1, <1>3, <1>4 DEF TypeOK
    <2>2. nwrite' \in 0..W-1
      BY <1>1, <1>4, WAssumption, SizeAssumption
    <2>3. left' \in [Procs -> Nat]
      BY <1>1 DEF WriteByte, TypeOK
    <2>. QED  BY <1>1, <2>1, <2>2, <2>3 DEF WriteByte, TypeOK
  <1>7. Count' = Count + 1
    <2>1. Count < PIPESIZE
      BY <1>2, SizeAssumption
    <2>. QED  BY <1>1, <1>4, <1>6, <2>1, PutCount
  <1>8. data'[s] = b
    BY <1>1, <1>3, <1>4 DEF TypeOK
  <1>9. ASSUME NEW k \in 0..Count-1 PROVE data'[(nread + k) % PIPESIZE] = data[(nread + k) % PIPESIZE]
    <2>1. (nread + Count) - (nread + k) \in 0..PIPESIZE-1 /\ nread + Count # nread + k
      BY <1>1, <1>2, SizeAssumption
    <2>2. (nread + k) % PIPESIZE # s
      <3>1. nread + Count \in Int /\ nread + k \in Int /\ PIPESIZE \in Nat \ {0}
        BY <1>1, <1>2, SizeAssumption
      <3>. QED  BY <1>5, <2>1, <3>1, Window, Zenon
    <2>3. (nread + k) % PIPESIZE \in 0..PIPESIZE-1
      BY <1>1, <1>2, SizeAssumption
    <2>. QED  BY <1>1, <1>4, <2>2, <2>3 DEF TypeOK
  <1>. QED  BY <1>2, <1>5, <1>6, <1>7, <1>8, <1>9

\* The reader takes the oldest byte; the others keep their order.
LEMMA ReadByteRing ==
  ASSUME Inv, NEW p \in Procs, ReadByte(p)
  PROVE  /\ TypeOK' /\ Count \in 1..PIPESIZE /\ Count' = Count - 1
         /\ got' = data[nread % PIPESIZE] /\ got' \in Byte
         /\ \A k \in Nat : (nread' + k) % PIPESIZE = (nread + k + 1) % PIPESIZE
  <1>1. TypeOK /\ RingState /\ nread \in Nat /\ nwrite \in Nat
    BY WAssumption DEF Inv, TypeOK
  <1>2. Count \in 1..PIPESIZE
    BY <1>1, CountIs, SizeAssumption DEF ReadByte, RingState
  <1>3. got' = data[nread % PIPESIZE] /\ nwrite' = nwrite /\ nread' = (nread + 1) % W /\ data' = data
    BY DEF ReadByte
  <1>4. got' \in Byte
    <2>1. 0 \in 0..Count-1 /\ nread + 0 = nread
      BY <1>1, <1>2, SizeAssumption
    <2>. QED  BY <1>1, <1>3, <2>1 DEF RingState
  <1>5. TypeOK'
    <2>1. nread' \in 0..W-1
      BY <1>1, <1>3, WAssumption, SizeAssumption
    <2>2. left' \in [Procs -> Nat] /\ took' \in [Procs -> BOOLEAN]
      BY <1>1 DEF ReadByte, TypeOK
    <2>. QED  BY <1>1, <1>3, <1>4, <2>1, <2>2 DEF ReadByte, TypeOK
  <1>6. Count > 0
    BY <1>2, SizeAssumption
  <1>7. /\ Count' = Count - 1
        /\ \A k \in Nat : (nread' + k) % PIPESIZE = (nread + k + 1) % PIPESIZE
    BY <1>1, <1>3, <1>5, <1>6, GetCount
  <1>. QED  BY <1>2, <1>3, <1>4, <1>5, <1>7

\* A byte goes into the ring.
LEMMA WriteByteInv ==
  ASSUME Inv, NEW p \in Procs, NEW b \in Byte, WriteByte(p, b)
  PROVE  Inv'
  <1>1. /\ pc[p] = "w" /\ ~Full /\ left'[p] \in Nat /\ (\A q \in Procs \ {p} : left'[q] = left[q])
        /\ UNCHANGED <<nread, readopen, writeopen, lock, freed, fds, pc, took, killed, got>>
    BY DEF WriteByte, At, Inv, TypeOK
  <1>2. TypeOK' /\ EndsCounted' /\ Closing'
    BY <1>1, WriteByteRing DEF Inv, EndsCounted, Closing
  <1>3. RingState'
    <2>1. Count \in Nat /\ Count' = Count + 1 /\ Count' \in 0..PIPESIZE
      BY WriteByteRing, SizeAssumption
    <2>2. ASSUME NEW k \in 0..Count'-1 PROVE data'[(nread + k) % PIPESIZE] \in Byte
      <3>1. CASE k = Count
        BY <3>1, WriteByteRing
      <3>2. CASE k # Count
        <4>1. k \in 0..Count-1
          BY <3>2, <2>1
        <4>. QED  BY <4>1, WriteByteRing DEF Inv, RingState
      <3>. QED  BY <3>1, <3>2
    <2>. QED  BY <1>1, <2>1, <2>2 DEF RingState
  <1>4. ASSUME NEW q \in Procs PROVE pc[q] \in Holding => q = p
    BY <1>1, Alone DEF Holding
  <1>5. ASSUME NEW q \in Procs PROVE LockState(q)' /\ WriterState(q)'
    <2>1. pc[q] \notin {"w_doze", "w_sleep"}
      BY <1>1, <1>4, Known DEF WriterState, Holding
    <2>. QED  BY <1>1, <2>1, Known DEF LockState, WriterState
  <1>6. ASSUME NEW q \in Procs PROVE ReaderState(q)'
    <2>1. pc[q] \notin {"r_doze", "r_copy"}
      BY <1>1, <1>4 DEF Holding
    <2>2. pc[q] \in Reading => q # p
      BY <1>1 DEF Reading
    <2>3. WriterKilled' <=> WriterKilled
      BY <1>1 DEF WriterKilled
    <2>. QED  BY <1>1, <2>1, <2>2, <2>3, Known DEF ReaderState
  <1>. QED  BY <1>2, <1>3, <1>5, <1>6 DEF Inv

\* A byte comes out of the ring: the writers asleep have a wakeup due.
LEMMA ReadByteInv ==
  ASSUME Inv, NEW p \in Procs, ReadByte(p)
  PROVE  Inv'
  <1>1. /\ pc[p] = "r_copy" /\ ~Empty /\ took'[p] = TRUE
        /\ \A q \in Procs \ {p} : left'[q] = left[q] /\ took'[q] = took[q]
        /\ UNCHANGED <<data, nwrite, readopen, writeopen, lock, freed, fds, pc, killed>>
    BY DEF ReadByte, At, Inv, TypeOK
  <1>2. TypeOK' /\ EndsCounted' /\ Closing'
    BY <1>1, ReadByteRing DEF Inv, EndsCounted, Closing
  <1>3. RingState'
    <2>1. Count \in Nat /\ Count' = Count - 1 /\ Count' \in 0..PIPESIZE
      BY ReadByteRing, SizeAssumption
    <2>2. ASSUME NEW k \in 0..Count'-1 PROVE data[(nread' + k) % PIPESIZE] \in Byte
      <3>1. k \in Nat /\ k + 1 \in 0..Count-1 /\ nread + (k + 1) = nread + k + 1
        BY <2>1, WAssumption DEF Inv, TypeOK
      <3>2. data[(nread + (k + 1)) % PIPESIZE] \in Byte
        BY <3>1 DEF Inv, RingState
      <3>. QED  BY <3>1, <3>2, ReadByteRing
    <2>. QED  BY <1>1, <2>1, <2>2 DEF RingState
  <1>4. ASSUME NEW q \in Procs PROVE pc[q] \in Holding => q = p
    BY <1>1, Alone DEF Holding
  <1>5. ASSUME NEW q \in Procs PROVE LockState(q)' /\ WriterState(q)'
    <2>1. pc[q] # "w_doze"
      BY <1>1, <1>4 DEF Holding
    <2>. QED  BY <1>1, <2>1, Known DEF LockState, WriterState
  <1>6. ASSUME NEW q \in Procs PROVE ReaderState(q)'
    <2>1. CASE q = p
      BY <1>1, <2>1, Known DEF ReaderState
    <2>2. CASE q # p
      <3>1. pc[q] \notin {"r_doze", "r_copy"}
        BY <1>4, <2>2 DEF Holding
      <3>2. \A r \in Procs : pc[r] # "w"
        BY <1>1, <1>4 DEF Holding
      <3>3. pc[q] = "r_sleep" => WriterKilled'
        BY <1>1, <3>2, Known DEF ReaderState, WriterKilled
      <3>. QED  BY <1>1, <2>2, <3>1, <3>3, Known DEF ReaderState
    <2>. QED  BY <2>1, <2>2
  <1>. QED  BY <1>2, <1>3, <1>5, <1>6 DEF Inv

\* A descriptor is closed; the last one of its end is followed by pipeclose.
LEMMA CloseInv ==
  ASSUME Inv, NEW p \in Procs, NEW e \in {"r", "w"}, Close(p, e)
  PROVE  Inv'
  <1>. DEFINE last == ~\E q \in Procs \ {p} : e \in fds[q]
              b == IF ~last THEN "idle" ELSE IF e = "r" THEN "cr_acq" ELSE "cw_acq"
  <1>1. /\ pc[p] = "idle" /\ e \in fds[p]
        /\ fds' = [fds EXCEPT ![p] = @ \ {e}] /\ Go(p, b)
        /\ UNCHANGED <<pipe, lock, freed, left, took, killed, got>>
    BY DEF Close, At
  <1>2. b \in {"idle", "cr_acq", "cw_acq"}
    OBVIOUS
  <1>3. /\ b = "cr_acq" <=> last /\ e = "r"
        /\ b = "cw_acq" <=> last /\ e = "w"
    OBVIOUS
  <1>4. last <=> \A q \in Procs \ {p} : e \notin fds[q]
    OBVIOUS
  <1>. HIDE DEF b, last
  <1>5. /\ pc' \in [Procs -> PCs] /\ pc'[p] = b
        /\ \A q \in Procs \ {p} : pc'[q] = pc[q] /\ Stirred(q)
    BY <1>1, <1>2, GoMoves DEF PCs
  <1>6. /\ fds'[p] = fds[p] \ {e} /\ fds[p] \subseteq {"r", "w"}
        /\ \A q \in Procs \ {p} : fds'[q] = fds[q]
    BY <1>1 DEF Inv, TypeOK
  <1>7. TypeOK'
    <2>1. fds' \in [Procs -> SUBSET {"r", "w"}]
      BY <1>1 DEF Inv, TypeOK
    <2>. QED  BY <1>1, <1>5, <2>1 DEF Inv, TypeOK, pipe
  <1>8. EndsCounted'
    <2>1. (\E q \in Procs : "r" \in fds'[q] \/ pc'[q] = "cr_acq") <=> readopen
      <3>1. CASE e = "r"
        <4>1. readopen
          BY <1>1, <3>1 DEF Inv, EndsCounted
        <4>2. CASE last
          BY <1>3, <1>5, <3>1, <4>1, <4>2
        <4>3. CASE ~last
          BY <1>4, <1>6, <3>1, <4>1, <4>3
        <4>. QED  BY <4>2, <4>3
      <3>2. CASE e # "r"
        <4>1. \A q \in Procs : "r" \in fds'[q] <=> "r" \in fds[q]
          BY <1>6, <3>2
        <4>2. \A q \in Procs : pc'[q] = "cr_acq" <=> pc[q] = "cr_acq"
          BY <1>1, <1>3, <1>5, <3>2
        <4>. QED  BY <4>1, <4>2 DEF Inv, EndsCounted
      <3>. QED  BY <3>1, <3>2
    <2>2. (\E q \in Procs : "w" \in fds'[q] \/ pc'[q] = "cw_acq") <=> writeopen
      <3>1. CASE e = "w"
        <4>1. writeopen
          BY <1>1, <3>1 DEF Inv, EndsCounted
        <4>2. CASE last
          BY <1>3, <1>5, <3>1, <4>1, <4>2
        <4>3. CASE ~last
          BY <1>4, <1>6, <3>1, <4>1, <4>3
        <4>. QED  BY <4>2, <4>3
      <3>2. CASE e # "w"
        <4>1. \A q \in Procs : "w" \in fds'[q] <=> "w" \in fds[q]
          BY <1>6, <3>2
        <4>2. \A q \in Procs : pc'[q] = "cw_acq" <=> pc[q] = "cw_acq"
          BY <1>1, <1>3, <1>5, <3>2
        <4>. QED  BY <4>1, <4>2 DEF Inv, EndsCounted
      <3>. QED  BY <3>1, <3>2
    <2>. QED  BY <1>1, <2>1, <2>2 DEF EndsCounted, pipe
  <1>9. Closing'
    <2>1. \A q \in Procs : fds'[q] \subseteq fds[q]
      BY <1>6
    <2>2. ASSUME NEW q \in Procs, NEW r \in Procs, pc'[q] = "cr_acq"
          PROVE  "r" \notin fds'[r] /\ (pc'[r] = "cr_acq" => r = q)
      <3>1. CASE q = p
        <4>1. last /\ e = "r" /\ "r" \in fds[p]
          BY <1>1, <1>3, <1>5, <2>2, <3>1
        <4>2. \A s \in Procs : pc[s] # "cr_acq"
          BY <4>1 DEF Inv, Closing
        <4>3. "r" \notin fds'[r]
          BY <1>4, <1>6, <4>1
        <4>. QED  BY <1>5, <3>1, <4>2, <4>3
      <3>2. CASE q # p
        <4>1. pc[q] = "cr_acq" /\ "r" \notin fds[p]
          BY <1>5, <2>2, <3>2 DEF Inv, Closing
        <4>2. pc'[p] # "cr_acq"
          BY <1>1, <1>3, <1>5, <4>1
        <4>3. "r" \notin fds[r] /\ (pc[r] = "cr_acq" => r = q)
          BY <4>1 DEF Inv, Closing
        <4>. QED  BY <1>5, <2>1, <4>2, <4>3
      <3>. QED  BY <3>1, <3>2
    <2>3. ASSUME NEW q \in Procs, NEW r \in Procs, pc'[q] = "cw_acq"
          PROVE  "w" \notin fds'[r] /\ (pc'[r] = "cw_acq" => r = q)
      <3>1. CASE q = p
        <4>1. last /\ e = "w" /\ "w" \in fds[p]
          BY <1>1, <1>3, <1>5, <2>3, <3>1
        <4>2. \A s \in Procs : pc[s] # "cw_acq"
          BY <4>1 DEF Inv, Closing
        <4>3. "w" \notin fds'[r]
          BY <1>4, <1>6, <4>1
        <4>. QED  BY <1>5, <3>1, <4>2, <4>3
      <3>2. CASE q # p
        <4>1. pc[q] = "cw_acq" /\ "w" \notin fds[p]
          BY <1>5, <2>3, <3>2 DEF Inv, Closing
        <4>2. pc'[p] # "cw_acq"
          BY <1>1, <1>3, <1>5, <4>1
        <4>3. "w" \notin fds[r] /\ (pc[r] = "cw_acq" => r = q)
          BY <4>1 DEF Inv, Closing
        <4>. QED  BY <1>5, <2>1, <4>2, <4>3
      <3>. QED  BY <3>1, <3>2
    <2>4. freed' <=> ~readopen' /\ ~writeopen'
      BY <1>1 DEF Inv, Closing, pipe
    <2>5. \A q \in Procs : fds'[q] \subseteq Ends[q]
      BY <2>1 DEF Inv, Closing
    <2>. QED  BY <2>2, <2>3, <2>4, <2>5 DEF Closing
  <1>10. RingState' /\ Full' = Full /\ Empty' = Empty
    BY <1>1 DEF Inv, RingState, Count, Full, Empty, pipe
  <1>11. \A q \in Procs : /\ q # p => pc'[q] = pc[q] /\ fds'[q] = fds[q]
                          /\ pc'[q] \in {"w", "r_copy"} <=> pc[q] \in {"w", "r_copy"}
    BY <1>1, <1>2, <1>5, <1>6
  <1>12. ASSUME NEW q \in Procs PROVE LockState(q)' /\ WriterState(q)' /\ ReaderState(q)'
    <2>1. CASE q = p
      BY <1>1, <1>2, <1>5, <2>1, Known DEF LockState, WriterState, ReaderState, Holding, Writing, Reading
    <2>2. CASE q # p
      <3>1. LockState(q)'
        BY <1>1, <1>11, <2>2, Known DEF LockState
      <3>2. WriterState(q)'
        <4>1. (\E r \in Procs : pc[r] = "r_copy") => \E r \in Procs : pc'[r] = "r_copy"
          BY <1>1, <1>11
        <4>. QED  BY <1>1, <1>10, <1>11, <2>2, <4>1, Known DEF WriterState, pipe
      <3>3. ReaderState(q)'
        <4>1. (\E r \in Procs : pc[r] = "w") => \E r \in Procs : pc'[r] = "w"
          BY <1>1, <1>11
        <4>2. WriterKilled' <=> WriterKilled
          BY <1>1 DEF WriterKilled
        <4>. QED  BY <1>1, <1>10, <1>11, <2>2, <4>1, <4>2, Known DEF ReaderState, pipe
      <3>. QED  BY <3>1, <3>2, <3>3
    <2>. QED  BY <2>1, <2>2
  <1>. QED  BY <1>7, <1>8, <1>9, <1>10, <1>12 DEF Inv

\* pipeclose wakes who sleeps on the other end, and nobody is left on its own.
LEMMA PipecloseInv ==
  ASSUME Inv, NEW p \in Procs, pipeclose(p)
  PROVE  Inv'
  <1>1. /\ pc[p] \in {"cr_acq", "cw_acq"} /\ lock = None
        /\ writeopen' = (writeopen /\ pc[p] # "cw_acq")
        /\ readopen' = (readopen /\ pc[p] # "cr_acq")
        /\ freed' = (freed \/ ~(readopen' \/ writeopen'))
        /\ UNCHANGED <<data, nread, nwrite, lock, fds, left, took, killed, got>>
    BY DEF pipeclose, LastEnd
  <1>2. /\ pc' \in [Procs -> PCs] /\ pc'[p] = "idle"
        /\ \A q \in Procs \ {p} : Stirred(q)
        /\ \A q \in Procs \ {p} : /\ pc[p] = "cw_acq" => pc'[q] # "r_sleep"
                                  /\ pc[p] = "cr_acq" => pc'[q] # "w_sleep"
    BY WakeupStirs DEF pipeclose, PCs
  <1>3. \A q \in Procs : pc[q] \notin Holding
    BY <1>1, NoneAssumption, Known DEF LockState
  <1>4. \A q \in Procs : pc'[q] \notin Holding
    BY <1>2, <1>3 DEF Stirred, Holding
  <1>5. /\ pc[p] = "cr_acq" => \A q \in Procs : "r" \notin fds[q] /\ pc'[q] \notin Reading
        /\ pc[p] = "cw_acq" => \A q \in Procs : "w" \notin fds[q] /\ pc'[q] \notin Writing
    <2>1. /\ pc[p] = "cr_acq" => \A q \in Procs : "r" \notin fds[q]
          /\ pc[p] = "cw_acq" => \A q \in Procs : "w" \notin fds[q]
      BY DEF Inv, Closing
    <2>2. /\ pc[p] = "cr_acq" => \A q \in Procs : pc[q] \notin Reading
          /\ pc[p] = "cw_acq" => \A q \in Procs : pc[q] \notin Writing
      BY <2>1, Known DEF WriterState, ReaderState
    <2>. QED  BY <1>2, <2>1, <2>2 DEF Stirred, Reading, Writing
  <1>6. /\ \A q \in Procs \ {p} : /\ pc'[q] = "cr_acq" <=> pc[q] = "cr_acq"
                                  /\ pc'[q] = "cw_acq" <=> pc[q] = "cw_acq"
        /\ pc[p] = "cr_acq" => \A q \in Procs : pc'[q] # "cr_acq"
        /\ pc[p] = "cw_acq" => \A q \in Procs : pc'[q] # "cw_acq"
    BY <1>2 DEF Stirred, Inv, Closing
  <1>7. TypeOK'
    BY <1>1, <1>2 DEF Inv, TypeOK
  <1>8. EndsCounted'
    <2>1. CASE pc[p] = "cr_acq"
      <3>1. ~\E q \in Procs : "r" \in fds'[q] \/ pc'[q] = "cr_acq"
        BY <1>1, <1>5, <1>6, <2>1
      <3>2. \A q \in Procs : pc'[q] = "cw_acq" <=> pc[q] = "cw_acq"
        BY <1>2, <1>6, <2>1
      <3>3. writeopen' = writeopen /\ readopen' = FALSE
        BY <1>1, <2>1 DEF Inv, TypeOK
      <3>. QED  BY <1>1, <3>1, <3>2, <3>3 DEF Inv, EndsCounted
    <2>2. CASE pc[p] = "cw_acq"
      <3>1. ~\E q \in Procs : "w" \in fds'[q] \/ pc'[q] = "cw_acq"
        BY <1>1, <1>5, <1>6, <2>2
      <3>2. \A q \in Procs : pc'[q] = "cr_acq" <=> pc[q] = "cr_acq"
        BY <1>2, <1>6, <2>2
      <3>3. readopen' = readopen /\ writeopen' = FALSE
        BY <1>1, <2>2 DEF Inv, TypeOK
      <3>. QED  BY <1>1, <3>1, <3>2, <3>3 DEF Inv, EndsCounted
    <2>. QED  BY <1>1, <2>1, <2>2
  <1>9. Closing'
    <2>1. ~freed
      BY <1>1, EndOpen
    <2>2. freed' <=> ~readopen' /\ ~writeopen'
      BY <1>1, <2>1
    <2>3. \A q \in Procs : /\ pc'[q] = "cr_acq" => pc[q] = "cr_acq"
                           /\ pc'[q] = "cw_acq" => pc[q] = "cw_acq"
      BY <1>2, <1>6
    <2>. QED  BY <1>1, <2>2, <2>3 DEF Inv, Closing
  <1>10. RingState'
    BY <1>1 DEF Inv, RingState, Count
  <1>11. ASSUME NEW q \in Procs PROVE LockState(q)' /\ WriterState(q)' /\ ReaderState(q)'
    <2>1. LockState(q)'
      BY <1>1, <1>4, NoneAssumption DEF LockState
    <2>2. pc'[q] \notin {"w_doze", "w_sleep", "r_doze", "r_sleep", "r_copy"}
      BY <1>1, <1>2, <1>4, <1>5 DEF Holding, Reading, Writing
    <2>3. ~took[q]
      BY <1>3, Known DEF ReaderState, Holding
    <2>4. pc'[q] \in Writing => pc[q] \in Writing
      BY <1>2 DEF Stirred, Writing
    <2>5. pc'[q] \in Reading => pc[q] \in Reading
      BY <1>2 DEF Stirred, Reading
    <2>6. WriterState(q)'
      BY <1>1, <2>2, <2>4, Known DEF WriterState
    <2>7. ReaderState(q)'
      BY <1>1, <2>2, <2>3, <2>5, Known DEF ReaderState
    <2>. QED  BY <2>1, <2>6, <2>7
  <1>. QED  BY <1>7, <1>8, <1>9, <1>10, <1>11 DEF Inv

\* kill wakes its victim, which may then leave without a wakeup of its own.
LEMMA KillInv ==
  ASSUME Inv, NEW p \in Procs, kill(p)
  PROVE  Inv'
  <1>. DEFINE b == IF pc[p] = "r_sleep" THEN "r_acq" ELSE IF pc[p] = "w_sleep" THEN "w_acq" ELSE pc[p]
  <1>1. Go(p, b) /\ killed' = [killed EXCEPT ![p] = TRUE]
        /\ UNCHANGED <<pipe, lock, freed, fds, left, took, got>>
    BY DEF kill
  <1>2. b \in PCs
    BY Known DEF PCs, Waiting
  <1>3. /\ pc' \in [Procs -> PCs] /\ pc'[p] = b
        /\ \A q \in Procs \ {p} : pc'[q] = pc[q]
    <2>. HIDE DEF b
    <2>. QED  BY <1>1, <1>2, GoMoves
  <1>4. \A q \in Procs : Stirred(q)
    BY <1>3 DEF Stirred
  <1>5. TypeOK' /\ killed'[p] = TRUE
    BY <1>1, <1>3 DEF Inv, TypeOK, pipe
  <1>6. \A q \in Procs : /\ pc'[q] = "cr_acq" <=> pc[q] = "cr_acq"
                         /\ pc'[q] = "cw_acq" <=> pc[q] = "cw_acq"
                         /\ pc'[q] = "r_copy" <=> pc[q] = "r_copy"
                         /\ pc'[q] = "w" <=> pc[q] = "w"
                         /\ pc'[q] \in Holding <=> pc[q] \in Holding
                         /\ pc'[q] \in Writing <=> pc[q] \in Writing
                         /\ pc'[q] \in Reading <=> pc[q] \in Reading
    BY <1>4 DEF Stirred, Holding, Writing, Reading
  <1>7. EndsCounted' /\ Closing'
    BY <1>1, <1>6 DEF Inv, EndsCounted, Closing, pipe
  <1>8. RingState' /\ Full' = Full /\ Empty' = Empty
    BY <1>1 DEF Inv, RingState, Count, Full, Empty, pipe
  <1>9. ASSUME NEW q \in Procs PROVE LockState(q)' /\ WriterState(q)' /\ ReaderState(q)'
    <2>1. LockState(q)'
      BY <1>1, <1>6, Known DEF LockState
    <2>2. /\ pc'[q] = "w_doze" => pc[q] = "w_doze"
          /\ pc'[q] = "w_sleep" => pc[q] = "w_sleep"
          /\ pc'[q] = "r_doze" => pc[q] = "r_doze"
          /\ pc'[q] = "r_sleep" => pc[q] = "r_sleep"
      BY <1>4 DEF Stirred
    <2>3. WriterState(q)'
      BY <1>1, <1>6, <1>8, <2>2, Known DEF WriterState, pipe
    <2>4. ReaderState(q)'
      <3>1. WriterKilled => WriterKilled'
        BY <1>1 DEF WriterKilled, Inv, TypeOK
      <3>. QED  BY <1>1, <1>5, <1>6, <1>8, <2>2, <3>1, Known DEF ReaderState, pipe
    <2>. QED  BY <2>1, <2>3, <2>4
  <1>. QED  BY <1>5, <1>7, <1>8, <1>9 DEF Inv

-----------------------------------------------------------------------------
\* pipealloc makes an empty ring with both ends open.
LEMMA InitInv == Init => Inv
  <1>. SUFFICES ASSUME Init PROVE Inv
    OBVIOUS
  <1>. USE DEF Init
  <1>1. TypeOK
    <2>1. nread \in 0..W-1 /\ nwrite \in 0..W-1
      BY SizeAssumption, WAssumption
    <2>. QED  BY <2>1, EndsAssumption DEF TypeOK, PCs
  <1>2. EndsCounted /\ Closing
    BY EndsAssumption DEF EndsCounted, Closing
  <1>3. RingState
    <2>1. Count = 0
      BY <1>1, CountIs DEF Empty
    <2>. QED  BY <2>1, SizeAssumption DEF RingState
  <1>4. \A p \in Procs : LockState(p) /\ WriterState(p) /\ ReaderState(p)
    BY NoneAssumption DEF LockState, WriterState, ReaderState, Holding, Writing, Reading
  <1>. QED  BY <1>1, <1>2, <1>3, <1>4 DEF Inv

\* Every step keeps the invariant.
LEMMA StepInv == Inv /\ [Next]_vars => Inv'
  <1>. SUFFICES ASSUME Inv, [Next]_vars PROVE Inv'
    OBVIOUS
  <1>1. CASE UNCHANGED vars
    BY <1>1 DEF vars, pipe, Inv, TypeOK, EndsCounted, Closing, RingState, Count, LockState, WriterState,
                ReaderState, WriterKilled, Full, Empty
  <1>2. ASSUME NEW p \in Procs, InCall(p) PROVE Inv'
    BY <1>2, AcquireInv, SleepInv, WriteByteInv, WriteFailInv, WriteBlockInv, WriteDoneInv, ReadFailInv,
       ReadBlockInv, ReadStartInv, ReadByteInv, ReadDoneInv, PipecloseInv
       DEF InCall, Write, Read
  <1>3. ASSUME NEW p \in Procs, NEW k \in Reqs, WriteCall(p, k) \/ ReadCall(p, k) PROVE Inv'
    BY <1>3, WriteCallInv, ReadCallInv
  <1>4. ASSUME NEW p \in Procs, NEW e \in {"r", "w"}, Close(p, e) PROVE Inv'
    BY <1>4, CloseInv
  <1>5. ASSUME NEW p \in Killable, kill(p) PROVE Inv'
    BY <1>5, KillInv, KillableAssumption
  <1>. QED  BY <1>1, <1>2, <1>3, <1>4, <1>5 DEF Next

\* The invariant holds in every reachable state.
THEOREM InvHolds == Spec => []Inv
  BY InitInv, StepInv, PTL DEF Spec

\* The page outlives every operation on the pipe, and each end is open exactly as
\* long as a descriptor for it or its last close is.
THEOREM PageIsOwned == Spec => []PageOwned
  <1>1. Inv => PageOwned
    <2>. SUFFICES ASSUME Inv PROVE PageOwned
      OBVIOUS
    <2>1. ASSUME freed, NEW p \in Procs PROVE pc[p] = "idle"
      <3>1. pc[p] \notin Writing \cup Reading \cup {"cr_acq", "cw_acq"}
        BY <2>1, EndOpen
      <3>2. pc[p] \in PCs
        BY Known
      <3>. QED  BY <3>1, <3>2 DEF PCs, Waiting, Holding, Sleeping, Writing, Reading
    <2>. QED  BY <2>1 DEF PageOwned, NoUseAfterFree, Inv
  <1>. QED  BY <1>1, InvHolds, PTL

\* Nobody sleeps beside work: not a writer, and not a reader unless a process
\* that could write has been killed.
THEOREM SleepersAreBlocked == Spec => []SleepersBlocked
  <1>1. Inv => SleepersBlocked
    <2>. SUFFICES ASSUME Inv, lock = None, NEW p \in Procs
                  PROVE  /\ pc[p] = "w_sleep" => Full /\ readopen
                         /\ pc[p] = "r_sleep" => writeopen /\ (Empty \/ WriterKilled)
      BY DEF SleepersBlocked, WriterBlocked, ReaderBlocked
    <2>1. \A q \in Procs : pc[q] # "r_copy" /\ pc[q] # "w"
      BY NoneAssumption, Known DEF LockState, Holding
    <2>. QED  BY <2>1, Known DEF WriterState, ReaderState
  <1>. QED  BY <1>1, InvHolds, PTL

-----------------------------------------------------------------------------
(* the ring implements the queue *)

\* The queue the ring stands for.
LEMMA QueueIs ==
  ASSUME Inv
  PROVE  /\ Queue \in Seq(Byte) /\ Len(Queue) = Count
         /\ \A k \in 1..Count : Queue[k] = data[(nread + k - 1) % PIPESIZE]
  <1>1. Count \in Nat
    BY CountIs, WAssumption DEF Inv
  <1>2. ASSUME NEW k \in 1..Count PROVE data[(nread + k - 1) % PIPESIZE] \in Byte
    <2>1. k - 1 \in 0..Count-1 /\ nread + (k - 1) = nread + k - 1
      BY <1>1, WAssumption DEF Inv, TypeOK
    <2>2. data[(nread + (k - 1)) % PIPESIZE] \in Byte
      BY <2>1 DEF Inv, RingState
    <2>. QED  BY <2>1, <2>2
  <1>3. Queue \in [1..Count -> Byte]
    BY <1>2 DEF Queue
  <1>4. Queue \in Seq(Byte)
    BY <1>1, <1>3, SeqDef
  <1>5. Len(Queue) = Count
    BY <1>1, <1>3, <1>4, LenProperties
  <1>. QED  BY <1>3, <1>4, <1>5 DEF Queue

\* A byte written is appended to the queue.
LEMMA WritePuts ==
  ASSUME Inv, Inv', NEW p \in Procs, NEW b \in Byte, WriteByte(p, b)
  PROVE  Promise!Put
  <1>1. Queue \in Seq(Byte) /\ Len(Queue) = Count
    BY QueueIs
  <1>2. Count \in 0..PIPESIZE-1 /\ Count' = Count + 1 /\ Count \in Nat /\ nread' = nread /\ nread \in Nat
    <2>1. Count \in 0..PIPESIZE-1 /\ Count' = Count + 1
      BY WriteByteRing
    <2>2. nread' = nread
      BY DEF WriteByte
    <2>. QED  BY <2>1, <2>2, SizeAssumption, WAssumption DEF Inv, TypeOK
  <1>3. Queue' = [k \in 1..Count+1 |-> data'[(nread + k - 1) % PIPESIZE]]
    BY <1>2 DEF Queue
  <1>4. Queue' = Append(Queue, b)
    <2>1. Append(Queue, b) \in Seq(Byte) /\ Len(Append(Queue, b)) = Count + 1
      BY <1>1, AppendProperties
    <2>2. ASSUME NEW k \in 1..Count+1 PROVE data'[(nread + k - 1) % PIPESIZE] = Append(Queue, b)[k]
      <3>1. CASE k = Count + 1
        <4>1. nread + k - 1 = nread + Count
          BY <1>2, <3>1
        <4>2. Append(Queue, b)[k] = b
          BY <1>1, <3>1, AppendProperties
        <4>. QED  BY <4>1, <4>2, WriteByteRing
      <3>2. CASE k # Count + 1
        <4>1. k \in 1..Count /\ k - 1 \in 0..Count-1 /\ nread + (k - 1) = nread + k - 1
          BY <1>2, <3>2
        <4>2. Append(Queue, b)[k] = Queue[k]
          BY <1>1, <4>1, AppendProperties
        <4>3. Queue[k] = data[(nread + k - 1) % PIPESIZE]
          BY <4>1, QueueIs
        <4>4. data'[(nread + (k - 1)) % PIPESIZE] = data[(nread + (k - 1)) % PIPESIZE]
          BY <4>1, WriteByteRing
        <4>. QED  BY <4>1, <4>2, <4>3, <4>4
      <3>. QED  BY <3>1, <3>2
    <2>3. Append(Queue, b) = [k \in 1..Count+1 |-> Append(Queue, b)[k]]
      BY <2>1, LenProperties
    <2>. QED  BY <1>3, <2>2, <2>3
  <1>5. writeopen /\ Len(Queue) < PIPESIZE
    <2>1. writeopen
      BY EndOpen DEF WriteByte, At, Writing
    <2>. QED  BY <2>1, <1>1, <1>2, SizeAssumption
  <1>. QED  BY <1>4, <1>5 DEF Promise!Put, WriteByte

\* The byte read is the head of the queue.
LEMMA ReadGets ==
  ASSUME Inv, Inv', NEW p \in Procs, ReadByte(p)
  PROVE  Promise!Get
  <1>1. Queue \in Seq(Byte) /\ Len(Queue) = Count
    BY QueueIs
  <1>2. Count \in 1..PIPESIZE /\ Count' = Count - 1 /\ Count \in Nat /\ nread \in Nat /\ data' = data
    <2>1. Count \in 1..PIPESIZE /\ Count' = Count - 1
      BY ReadByteRing
    <2>2. data' = data
      BY DEF ReadByte
    <2>. QED  BY <2>1, <2>2, SizeAssumption, WAssumption DEF Inv, TypeOK
  <1>3. Queue # <<>>
    BY <1>1, <1>2, SizeAssumption
  <1>4. Head(Queue) = Queue[1] /\ Tail(Queue) \in Seq(Byte) /\ Len(Tail(Queue)) = Count - 1
        /\ \A k \in 1..Count-1 : Tail(Queue)[k] = Queue[k + 1]
    BY <1>1, <1>2, <1>3, HeadTailProperties
  <1>5. got' = Head(Queue)
    <2>1. 1 \in 1..Count /\ nread + 1 - 1 = nread
      BY <1>2, SizeAssumption
    <2>2. Queue[1] = data[(nread + 1 - 1) % PIPESIZE]
      BY <2>1, QueueIs
    <2>. QED  BY <1>4, <2>1, <2>2, ReadByteRing
  <1>6. Queue' = Tail(Queue)
    <2>1. Queue' = [k \in 1..Count-1 |-> data[(nread' + k - 1) % PIPESIZE]]
      BY <1>2 DEF Queue
    <2>2. ASSUME NEW k \in 1..Count-1 PROVE data[(nread' + k - 1) % PIPESIZE] = Tail(Queue)[k]
      <3>1. /\ k - 1 \in Nat /\ nread' + k - 1 = nread' + (k - 1) /\ k + 1 \in 1..Count
            /\ nread + (k - 1) + 1 = nread + (k + 1) - 1
        BY <1>2 DEF Inv, TypeOK
      <3>2. (nread' + (k - 1)) % PIPESIZE = (nread + (k - 1) + 1) % PIPESIZE
        BY <3>1, ReadByteRing
      <3>3. Queue[k + 1] = data[(nread + (k + 1) - 1) % PIPESIZE]
        BY <3>1, QueueIs
      <3>. QED  BY <1>4, <3>1, <3>2, <3>3
    <2>3. Tail(Queue) = [k \in 1..Count-1 |-> Tail(Queue)[k]]
      BY <1>4, LenProperties
    <2>. QED  BY <2>1, <2>2, <2>3
  <1>7. readopen
    BY EndOpen DEF ReadByte, At, Reading
  <1>. QED  BY <1>3, <1>5, <1>6, <1>7 DEF Promise!Get, ReadByte

\* piperead returns 0 only at the end of the file.
LEMMA ReadReturns ==
  ASSUME Inv, NEW p \in Procs, ReadDone(p)
  PROVE  Promise!ReadEOF \/ UNCHANGED Promise!vars
  <1>1. UNCHANGED <<Queue, readopen, writeopen>>
    BY DEF ReadDone, pipe, Queue, Count
  <1>2. CASE took[p]
    BY <1>1, <1>2 DEF ReadDone, Promise!vars
  <1>3. CASE ~took[p]
    <2>1. Empty /\ ~writeopen /\ readopen
      BY <1>3, Known, EndOpen DEF ReaderState, Reading, ReadDone, At
    <2>2. Queue = <<>>
      <3>1. Queue \in Seq(Byte) /\ Len(Queue) = 0
        BY <2>1, QueueIs, CountIs DEF Inv
      <3>. QED  BY <3>1, EmptySeq
    <2>. QED  BY <1>1, <1>3, <2>1, <2>2 DEF ReadDone, Promise!ReadEOF
  <1>. QED  BY <1>2, <1>3

\* A step that leaves the ring, the ends and got alone is not seen.
LEMMA Unseen ==
  ASSUME UNCHANGED <<pipe, got>>
  PROVE  UNCHANGED Promise!vars
  BY DEF pipe, Queue, Count, Promise!vars

\* pipeclose closes one end.
LEMMA CloseCloses ==
  ASSUME Inv, NEW p \in Procs, pipeclose(p)
  PROVE  Promise!CloseRead \/ Promise!CloseWrite
  <1>1. UNCHANGED <<Queue, got>>
    BY DEF pipeclose, Queue, Count
  <1>2. readopen \in BOOLEAN /\ writeopen \in BOOLEAN
    BY DEF Inv, TypeOK
  <1>3. CASE pc[p] = "cr_acq"
    BY <1>1, <1>2, <1>3, EndOpen DEF pipeclose, Promise!CloseRead
  <1>4. CASE pc[p] = "cw_acq"
    BY <1>1, <1>2, <1>4, EndOpen DEF pipeclose, Promise!CloseWrite
  <1>. QED  BY <1>3, <1>4 DEF pipeclose

\* The ring starts as the empty queue.
LEMMA InitFifo == Init => Promise!Init
  <1>. SUFFICES ASSUME Init PROVE Promise!Init
    OBVIOUS
  <1>1. Inv
    BY InitInv
  <1>2. Count = 0
    BY <1>1, CountIs DEF Inv, Init, Empty
  <1>3. Queue \in Seq(Byte) /\ Len(Queue) = 0
    BY <1>1, <1>2, QueueIs
  <1>4. Queue = <<>>
    BY <1>3, EmptySeq
  <1>. QED  BY <1>4 DEF Init, Promise!Init

\* Every step of the pipe is a step of the queue, or is not seen.
LEMMA StepFifo == Inv /\ Inv' /\ [Next]_vars => [Promise!Next]_Promise!vars
  <1>. SUFFICES ASSUME Inv, Inv', [Next]_vars PROVE Promise!Next \/ UNCHANGED Promise!vars
    OBVIOUS
  <1>1. CASE UNCHANGED vars
    BY <1>1, Unseen DEF vars
  <1>2. ASSUME NEW p \in Procs, Write(p) PROVE Promise!Next \/ UNCHANGED Promise!vars
    BY <1>2, WritePuts, Unseen DEF Write, WriteFail, WriteBlock, WriteDone, Promise!Next
  <1>3. ASSUME NEW p \in Procs, Read(p) PROVE Promise!Next \/ UNCHANGED Promise!vars
    BY <1>3, ReadGets, ReadReturns, Unseen DEF Read, ReadFail, ReadBlock, ReadStart, Promise!Next
  <1>4. ASSUME NEW p \in Procs, InCall(p) PROVE Promise!Next \/ UNCHANGED Promise!vars
    BY <1>2, <1>3, <1>4, CloseCloses, Unseen DEF InCall, Acquire, Sleep, Promise!Next
  <1>5. ASSUME NEW p \in Procs, NEW k \in Reqs, WriteCall(p, k) \/ ReadCall(p, k)
        PROVE  UNCHANGED Promise!vars
    BY <1>5, Unseen DEF WriteCall, ReadCall
  <1>6. ASSUME NEW p \in Procs, NEW e \in {"r", "w"}, Close(p, e) PROVE UNCHANGED Promise!vars
    BY <1>6, Unseen DEF Close
  <1>7. ASSUME NEW p \in Killable, kill(p) PROVE UNCHANGED Promise!vars
    BY <1>7, Unseen DEF kill
  <1>. QED  BY <1>1, <1>4, <1>5, <1>6, <1>7 DEF Next

\* The ring with its wrapping counters, filled and drained by any number of
\* processes, is a FIFO queue of at most PIPESIZE bytes, and end of file is
\* reported only when it is true.
THEOREM PipeIsFifo == Spec => ImplementsFifo
  BY InitFifo, StepFifo, InvHolds, PTL DEF Spec, ImplementsFifo, Promise!Spec
=============================================================================
