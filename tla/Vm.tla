---------------------------------- MODULE Vm ----------------------------------
(***************************************************************************)
(* User memory in "memory model and xv6 kernel modify /xv6": page 0 is     *)
(* never mapped, the heap is PGSIZE..sz, the stack sz2..USERTOP and grows  *)
(* downwards on page faults.  Modelled are growproc, exec, fork, the page  *)
(* fault handler and the check of system call arguments over the page      *)
(* allocator.                                                              *)
(*                                                                         *)
(* Physical pages are interchangeable, so the free list is their number    *)
(* and a page table the set of user pages it maps together with the number *)
(* of pages setupkvm took for it; a page lost or freed twice shows in the  *)
(* sum.  Every kalloc is a step of its own, since others allocate in       *)
(* between; freeing a whole table is one step, nobody can tell.  The page  *)
(* table that maps user memory is made by setupkvm (it also maps the I/O   *)
(* hole below 1 MB), so mappages never has to allocate one here.           *)
(***************************************************************************)
EXTENDS Integers, FiniteSets, Functions

CONSTANTS
  NPROC,       \* process slots; slot 1 is init
  PGSIZE, Word,   \* bytes of a page and of an int
  USERTOP,     \* end of user memory, a whole number of pages
  AddrSpace,   \* addresses and sizes are unsigned ints modulo AddrSpace
  Memory,      \* physical pages kinit puts on the free list
  KvmPages,    \* pages setupkvm takes: the directory and the kernel's tables
  Increments,  \* arguments of sbrk
  Segments,    \* the segments of programs: ph.va, ph.memsz and ph.filesz
  MaxSegments  \* bound on the loaded segments of a program

ASSUME SlotsAssumption == NPROC \in Nat \ {0} /\ MaxSegments \in Nat
ASSUME PageAssumption == PGSIZE \in Nat \ {0} /\ Word \in 1..PGSIZE
ASSUME TopAssumption == USERTOP \in Nat /\ USERTOP % PGSIZE = 0 /\ USERTOP >= 3 * PGSIZE
ASSUME SpaceAssumption == AddrSpace \in Nat /\ AddrSpace > USERTOP
ASSUME MemoryAssumption == KvmPages \in Nat \ {0} /\ Memory \in Nat /\ Memory > KvmPages + 2

Addresses == 0..AddrSpace-1
Headers == [va : Addresses, memsz : Addresses, filesz : Addresses]
ASSUME ArgumentsAssumption == Increments \subseteq Int /\ Segments \subseteq Headers

Slots == 1..NPROC
\* no segment is waiting for its contents
Nothing == [va |-> 0, memsz |-> 0, filesz |-> 0]

PGROUNDUP(x) == ((x + PGSIZE - 1) \div PGSIZE) * PGSIZE

Pages(from, to) == {a \in 0..USERTOP-1 : a % PGSIZE = 0 /\ from <= a /\ a < to}

NoTable == [kvm |-> 0, map |-> {}]
TableSize(t) == t.kvm + Cardinality(t.map)

VARIABLES
  free,     \* length of kmem.freelist
  state, sz, sz2, pgdir,   \* struct proc
  kstack,   \* 1 when the slot has a kernel stack
  pc, a, old, end,  \* per process: place in the call, loop address, oldsz, newsz
  new,      \* the table exec or fork builds
  nseg, seg, np, \* segments so far, the one exec is at; the child's slot
  panic,    \* the kernel has stopped, or writes where it must not
  lost,     \* history: pages of tables setupkvm gave up
  tidy      \* history: this image never ran into the cases named at Untidy

call == <<pc, a, old, end, nseg, seg, np>>
memory == <<state, sz, sz2, pgdir, kstack>>
vars == <<free, memory, call, new, panic, lost, tidy>>

\* userinit: initcode in page 0, and no stack
Init ==
  /\ free = Memory - KvmPages - 2
  /\ state = [p \in Slots |-> IF p = 1 THEN "RUNNABLE" ELSE "UNUSED"]
  /\ sz = [p \in Slots |-> IF p = 1 THEN PGSIZE ELSE 0] /\ sz2 = [p \in Slots |-> 0]
  /\ pgdir = [p \in Slots |-> IF p = 1 THEN [kvm |-> KvmPages, map |-> {0}] ELSE NoTable]
  /\ kstack = [p \in Slots |-> IF p = 1 THEN 1 ELSE 0]
  /\ pc = [p \in Slots |-> "user"] /\ np = [p \in Slots |-> 0]
  /\ a = [p \in Slots |-> 0] /\ old = [p \in Slots |-> 0] /\ end = [p \in Slots |-> 0]
  /\ nseg = [p \in Slots |-> 0] /\ seg = [p \in Slots |-> Nothing]
  /\ new = [p \in Slots |-> NoTable]
  /\ panic = FALSE /\ lost = 0 /\ tidy = [p \in Slots |-> p # 1]

kalloc == free > 0 /\ free' = free - 1
kfree(pages) == free' = free + pages

At(p, where) == ~panic /\ state[p] = "RUNNABLE" /\ pc[p] = where
\* a program exec has loaded; initcode itself only calls exec
User(p) == At(p, "user") /\ sz2[p] # 0
Goto(p, where) == pc' = [pc EXCEPT ![p] = where]
Return(p) ==
  /\ pc' = [pc EXCEPT ![p] = "user"] /\ np' = [np EXCEPT ![p] = 0]
  /\ a' = [a EXCEPT ![p] = 0] /\ old' = [old EXCEPT ![p] = 0]
  /\ end' = [end EXCEPT ![p] = 0] /\ nseg' = [nseg EXCEPT ![p] = 0]
  /\ seg' = [seg EXCEPT ![p] = Nothing]

\* the loop of allocuvm is to go from oldsz to newsz
StartAlloc(p, from, to) ==
  /\ a' = [a EXCEPT ![p] = PGROUNDUP(from)]
  /\ old' = [old EXCEPT ![p] = from] /\ end' = [end EXCEPT ![p] = to]

\* Faulty: allocuvm leaves what it has mapped so far.
Undone_Not(map, from, to) == map
\* deallocuvm
Undone(map, from, to) == map \ Pages(PGROUNDUP(from), to)

-----------------------------------------------------------------------------
(* growproc *)

\* The image is not what sz and sz2 say after the heap was grown into the
\* stack, was shrunk to nothing, or an exec failed after it had set sz2.
Untidy(p, case) == tidy' = [tidy EXCEPT ![p] = @ /\ ~case]

Grow(p, n) ==
  /\ User(p) /\ p # 1 /\ n > 0
  /\ sz[p] + n <= USERTOP - 2 * PGSIZE
  /\ Goto(p, "grow") /\ StartAlloc(p, sz[p], sz[p] + n)
  /\ Untidy(p, sz[p] + n > sz2[p])
  /\ UNCHANGED <<free, memory, nseg, seg, np, new, panic, lost>>

\* a size below zero wraps around and changes nothing
Shrink(p, n) ==
  /\ User(p) /\ p # 1 /\ n < 0
  /\ LET newsz == sz[p] + n
         kept == Undone(pgdir[p].map, newsz, sz[p])
     IN  /\ newsz >= 0
         /\ pgdir' = [pgdir EXCEPT ![p].map = kept]
         /\ kfree(Cardinality(pgdir[p].map) - Cardinality(kept))
         /\ sz' = [sz EXCEPT ![p] = IF newsz = 0 THEN @ ELSE newsz]
         /\ Untidy(p, newsz = 0)
  /\ UNCHANGED <<state, sz2, kstack, call, new, panic, lost>>

GrowDone(p) ==
  /\ At(p, "grow") /\ a[p] >= end[p]
  /\ sz' = [sz EXCEPT ![p] = end[p]]
  /\ Return(p)
  /\ UNCHANGED <<free, state, sz2, pgdir, kstack, new, panic, lost, tidy>>

\* out of memory: what was mapped is taken back
GrowFail(p) ==
  /\ At(p, "grow") /\ a[p] < end[p] /\ free = 0
  /\ LET kept == Undone(pgdir[p].map, old[p], end[p])
     IN  /\ pgdir' = [pgdir EXCEPT ![p].map = kept]
         /\ kfree(Cardinality(pgdir[p].map) - Cardinality(kept))
  /\ Return(p)
  /\ UNCHANGED <<state, sz, sz2, kstack, new, panic, lost, tidy>>

GrowPage(p) ==
  /\ At(p, "grow") /\ a[p] < end[p] /\ kalloc
  /\ IF a[p] \in pgdir[p].map
       THEN panic' = TRUE /\ UNCHANGED <<pgdir, a>>
       ELSE /\ pgdir' = [pgdir EXCEPT ![p].map = @ \cup {a[p]}]
            /\ a' = [a EXCEPT ![p] = @ + PGSIZE]
            /\ UNCHANGED panic
  /\ UNCHANGED <<state, sz, sz2, kstack, pc, old, end, nseg, seg, np, new, lost, tidy>>

-----------------------------------------------------------------------------
(* the page fault handler, which does not look at the address *)

\* the test that keeps stack and heap apart
Apart(top, bottom) == top > bottom + 2 * PGSIZE

exit(p) ==
  /\ User(p) /\ p # 1
  /\ state' = [state EXCEPT ![p] = "ZOMBIE"]
  /\ UNCHANGED <<free, sz, sz2, pgdir, kstack, call, new, panic, lost, tidy>>

FaultGrow(p) ==
  /\ User(p) /\ p # 1 /\ Apart(sz2[p], sz[p]) /\ kalloc
  /\ LET page == sz2[p] - PGSIZE
     IN  IF page \in pgdir[p].map
           THEN panic' = TRUE /\ UNCHANGED <<pgdir, sz2>>
           ELSE /\ pgdir' = [pgdir EXCEPT ![p].map = @ \cup {page}]
                /\ sz2' = [sz2 EXCEPT ![p] = page]
                /\ UNCHANGED panic
  /\ UNCHANGED <<state, sz, kstack, call, new, lost, tidy>>

\* killed, and with the return to user mode gone
FaultKill(p) ==
  /\ User(p) /\ p # 1
  /\ ~Apart(sz2[p], sz[p]) \/ free = 0
  /\ LET kept == IF Apart(sz2[p], sz[p])
                   THEN Undone(pgdir[p].map, sz2[p] - PGSIZE, sz2[p]) ELSE pgdir[p].map
     IN  /\ pgdir' = [pgdir EXCEPT ![p].map = kept]
         /\ kfree(Cardinality(pgdir[p].map) - Cardinality(kept))
  /\ state' = [state EXCEPT ![p] = "ZOMBIE"]
  /\ UNCHANGED <<sz, sz2, kstack, call, new, panic, lost, tidy>>

-----------------------------------------------------------------------------
(* setupkvm, for exec and for copyuvm *)

SetupPage(p) ==
  /\ \E kind \in {"exec", "copy"} : At(p, kind)
  /\ new[p].kvm < KvmPages /\ kalloc
  /\ new' = [new EXCEPT ![p].kvm = @ + 1]
  /\ UNCHANGED <<memory, call, panic, lost, tidy>>

\* returns 0 and keeps nothing of the half-made table
SetupFail(p) ==
  /\ \E kind \in {"exec", "copy"} : At(p, kind)
  /\ new[p].kvm < KvmPages /\ free = 0
  /\ lost' = lost + new[p].kvm
  /\ new' = [new EXCEPT ![p] = NoTable]
  /\ IF pc[p] = "copy"
       THEN /\ kfree(1)
            /\ kstack' = [kstack EXCEPT ![np[p]] = 0]
            /\ state' = [state EXCEPT ![np[p]] = "UNUSED"]
       ELSE UNCHANGED <<free, kstack, state>>
  /\ Return(p)
  /\ UNCHANGED <<sz, sz2, pgdir, panic, tidy>>

-----------------------------------------------------------------------------
(* exec *)

\* initcode execs init, which stays; other processes exec what they like
exec(p) ==
  /\ At(p, "user") /\ (p = 1 => sz2[p] = 0)
  /\ Goto(p, "exec") /\ StartAlloc(p, PGSIZE, PGSIZE)
  /\ UNCHANGED <<free, memory, nseg, seg, np, new, panic, lost, tidy>>

Loading(p) == At(p, "exec") /\ new[p].kvm = KvmPages

\* The next segment: its address and its length are added to the size so far.
\* A sum that wraps around below the size so far leaves it as it is.
Segment(p, s) ==
  /\ Loading(p) /\ a[p] >= end[p] /\ seg[p] = Nothing
  /\ nseg[p] < MaxSegments /\ s.filesz <= s.memsz
  /\ LET newsz == (end[p] + s.va + s.memsz) % AddrSpace
     IN  /\ newsz <= USERTOP
         /\ StartAlloc(p, end[p], IF newsz < end[p] THEN end[p] ELSE newsz)
  /\ nseg' = [nseg EXCEPT ![p] = @ + 1] /\ seg' = [seg EXCEPT ![p] = s]
  /\ UNCHANGED <<free, memory, pc, np, new, panic, lost, tidy>>

\* the pages loaduvm fills from the file
Loaded(s) == {(s.va + i) % AddrSpace : i \in {k \in 0..s.filesz-1 : k % PGSIZE = 0}}

\* loaduvm does not check that a page is mapped: one below USERTOP that is not
\* stands for physical page 0, which the kernel reaches through page 0 of the
\* running image; only initcode has one.  From USERTOP on there is the kernel
\* itself, or nothing.
Loadable(p, s) ==
  /\ s.va % PGSIZE = 0
  /\ \A x \in Loaded(s) : x \in new[p].map \/ (x < USERTOP /\ 0 \in pgdir[p].map)

Load(p) ==
  /\ Loading(p) /\ a[p] >= end[p] /\ seg[p] # Nothing
  /\ IF Loadable(p, seg[p])
       THEN seg' = [seg EXCEPT ![p] = Nothing] /\ UNCHANGED panic
       ELSE panic' = TRUE /\ UNCHANGED seg
  /\ UNCHANGED <<free, memory, pc, a, old, end, nseg, np, new, lost, tidy>>

\* the stack page; old keeps the size of the program
ExecStack(p) ==
  /\ Loading(p) /\ a[p] >= end[p] /\ seg[p] = Nothing
  /\ a' = [a EXCEPT ![p] = USERTOP - PGSIZE] /\ end' = [end EXCEPT ![p] = USERTOP]
  /\ old' = [old EXCEPT ![p] = PGROUNDUP(end[p])]
  /\ Goto(p, "stack")
  /\ UNCHANGED <<free, memory, nseg, seg, np, new, panic, lost, tidy>>

ExecPage(p) ==
  /\ Loading(p) \/ At(p, "stack")
  /\ a[p] < end[p] /\ kalloc
  /\ IF a[p] \in new[p].map
       THEN panic' = TRUE /\ UNCHANGED <<new, a>>
       ELSE /\ new' = [new EXCEPT ![p].map = @ \cup {a[p]}]
            /\ a' = [a EXCEPT ![p] = @ + PGSIZE]
            /\ UNCHANGED panic
  /\ UNCHANGED <<memory, pc, old, end, nseg, seg, np, lost, tidy>>

\* sz2 of the running image is set before the arguments are copied
ExecArgs(p) ==
  /\ At(p, "stack") /\ a[p] >= end[p]
  /\ sz2' = [sz2 EXCEPT ![p] = USERTOP - PGSIZE]
  /\ Goto(p, "args")
  /\ Untidy(p, sz2[p] # USERTOP - PGSIZE)
  /\ UNCHANGED <<free, state, sz, pgdir, kstack, a, old, end, nseg, seg, np, new, panic, lost>>

\* Faulty: the new table is forgotten.
Freed_Not(t) == 0
\* freevm
Freed(t) == TableSize(t)

\* bad: out of memory, a program that is too large, cannot be read or has too
\* many arguments.  An allocuvm that fails has undone its part before.
ExecBad(p) ==
  /\ \/ Loading(p) /\ a[p] >= end[p] /\ seg[p].va % PGSIZE = 0
     \/ Loading(p) /\ a[p] < end[p] /\ free = 0
     \/ At(p, "stack") /\ a[p] < end[p] /\ free = 0
     \/ At(p, "args")
  /\ kfree(Freed(new[p]))
  /\ new' = [new EXCEPT ![p] = NoTable]
  /\ Return(p)
  /\ UNCHANGED <<memory, panic, lost, tidy>>

ExecCommit(p) ==
  /\ At(p, "args")
  /\ pgdir' = [pgdir EXCEPT ![p] = new[p]]
  /\ sz' = [sz EXCEPT ![p] = old[p]]
  /\ kfree(Freed(pgdir[p]))
  /\ new' = [new EXCEPT ![p] = NoTable]
  /\ tidy' = [tidy EXCEPT ![p] = TRUE]
  /\ Return(p)
  /\ UNCHANGED <<state, sz2, kstack, panic, lost>>

-----------------------------------------------------------------------------
(* fork, exit and wait *)

\* allocproc; without a slot or a page for the stack fork returns at once
fork(p) ==
  /\ User(p) /\ kalloc
  /\ \E s \in Slots :
       /\ state[s] = "UNUSED" /\ \A r \in 1..s-1 : state[r] # "UNUSED"
       /\ state' = [state EXCEPT ![s] = "EMBRYO"]
       /\ kstack' = [kstack EXCEPT ![s] = 1]
       /\ np' = [np EXCEPT ![p] = s]
  /\ Goto(p, "copy") /\ a' = [a EXCEPT ![p] = PGSIZE]
  /\ UNCHANGED <<sz, sz2, pgdir, old, end, nseg, seg, new, panic, lost, tidy>>

\* the two loops of copyuvm, first up to sz, then from sz2 to USERTOP
CopyingHeap(p) == At(p, "copy") /\ new[p].kvm = KvmPages /\ a[p] < sz[p]
CopyingStack(p) == At(p, "copystack") /\ a[p] < USERTOP

CopyPage(p) ==
  /\ CopyingHeap(p) \/ CopyingStack(p)
  /\ IF a[p] \notin pgdir[p].map \/ a[p] \in new[p].map
       THEN panic' = TRUE /\ UNCHANGED <<free, new, a>>
       ELSE /\ kalloc
            /\ new' = [new EXCEPT ![p].map = @ \cup {a[p]}]
            /\ a' = [a EXCEPT ![p] = @ + PGSIZE]
            /\ UNCHANGED panic
  /\ UNCHANGED <<memory, pc, old, end, nseg, seg, np, lost, tidy>>

CopyHeapDone(p) ==
  /\ At(p, "copy") /\ new[p].kvm = KvmPages /\ ~CopyingHeap(p)
  /\ a' = [a EXCEPT ![p] = sz2[p]]
  /\ Goto(p, "copystack")
  /\ UNCHANGED <<free, memory, old, end, nseg, seg, np, new, panic, lost, tidy>>

CopyFail(p) ==
  /\ CopyingHeap(p) \/ CopyingStack(p)
  /\ a[p] \in pgdir[p].map /\ free = 0
  /\ kfree(Freed(new[p]) + 1)
  /\ new' = [new EXCEPT ![p] = NoTable]
  /\ kstack' = [kstack EXCEPT ![np[p]] = 0]
  /\ state' = [state EXCEPT ![np[p]] = "UNUSED"]
  /\ Return(p)
  /\ UNCHANGED <<sz, sz2, pgdir, panic, lost, tidy>>

ForkDone(p) ==
  /\ At(p, "copystack") /\ ~CopyingStack(p)
  /\ LET c == np[p]
     IN  /\ pgdir' = [pgdir EXCEPT ![c] = new[p]]
         /\ sz' = [sz EXCEPT ![c] = sz[p]] /\ sz2' = [sz2 EXCEPT ![c] = sz2[p]]
         /\ state' = [state EXCEPT ![c] = "RUNNABLE"]
         /\ tidy' = [tidy EXCEPT ![c] = TRUE]
  /\ new' = [new EXCEPT ![p] = NoTable]
  /\ Return(p)
  /\ UNCHANGED <<free, kstack, panic, lost>>

\* sz and sz2 stay in the slot
wait(p) ==
  /\ User(p)
  /\ \E z \in Slots :
       /\ state[z] = "ZOMBIE"
       /\ kfree(kstack[z] + Freed(pgdir[z]))
       /\ kstack' = [kstack EXCEPT ![z] = 0]
       /\ pgdir' = [pgdir EXCEPT ![z] = NoTable]
       /\ state' = [state EXCEPT ![z] = "UNUSED"]
       /\ tidy' = [tidy EXCEPT ![z] = TRUE]
  /\ UNCHANGED <<sz, sz2, call, new, panic, lost>>

-----------------------------------------------------------------------------
(* system call arguments *)

\* The block of size bytes at i is accepted; a negative size is a large one.
argptr(p, i, size) ==
  LET top == (i + size) % AddrSpace
  IN  /\ ~(i >= sz[p] /\ i < sz2[p])
      /\ ~(top > sz[p] /\ i < sz2[p])
      /\ i >= PGSIZE
      /\ top <= USERTOP

\* The int at addr is read.
fetchint(p, addr) ==
  LET top == (addr + Word) % AddrSpace
  IN  /\ ~(addr >= sz[p] /\ addr < sz2[p])
      /\ ~(top > sz[p] /\ top < sz2[p])

-----------------------------------------------------------------------------
Next ==
  \/ \E p \in Slots : \E n \in Increments : Grow(p, n) \/ Shrink(p, n)
  \/ \E p \in Slots : GrowDone(p) \/ GrowFail(p) \/ GrowPage(p)
  \/ \E p \in Slots : FaultGrow(p) \/ FaultKill(p)
  \/ \E p \in Slots : SetupPage(p) \/ SetupFail(p)
  \/ \E p \in Slots : \E s \in Segments : Segment(p, s)
  \/ \E p \in Slots : exec(p) \/ Load(p) \/ ExecStack(p) \/ ExecPage(p) \/ ExecArgs(p)
  \/ \E p \in Slots : ExecBad(p) \/ ExecCommit(p)
  \/ \E p \in Slots : fork(p) \/ CopyPage(p) \/ CopyHeapDone(p) \/ CopyFail(p) \/ ForkDone(p)
  \/ \E p \in Slots : exit(p) \/ wait(p)

Spec == Init /\ [][Next]_vars
-----------------------------------------------------------------------------
(* Properties *)

Tables == [kvm : 0..KvmPages, map : SUBSET Pages(0, USERTOP)]

TypeOK ==
  /\ free \in 0..Memory /\ lost \in 0..Memory /\ panic \in BOOLEAN
  /\ state \in [Slots -> {"UNUSED", "EMBRYO", "RUNNABLE", "ZOMBIE"}]
  /\ sz \in [Slots -> 0..USERTOP] /\ sz2 \in [Slots -> Pages(0, USERTOP)]
  /\ pgdir \in [Slots -> Tables] /\ new \in [Slots -> Tables]
  /\ kstack \in [Slots -> 0..1]
  /\ pc \in [Slots -> {"user", "grow", "exec", "stack", "args", "copy", "copystack"}]
  /\ np \in [Slots -> Slots \cup {0}] /\ nseg \in [Slots -> 0..MaxSegments]
  /\ seg \in [Slots -> Segments \cup {Nothing}]
  /\ a \in [Slots -> 0..USERTOP] /\ old \in [Slots -> 0..USERTOP] /\ end \in [Slots -> 0..USERTOP]
  /\ tidy \in [Slots -> BOOLEAN]

Held(p) == kstack[p] + TableSize(pgdir[p]) + TableSize(new[p])

\* Types, and the conservation of memory: a physical page is on the free list,
\* held once by a process, or was given up by setupkvm, on every path including
\* the ones that run out of memory half way.
MemoryKept ==
  /\ TypeOK
  /\ ~panic => free + lost + SumFunction([p \in Slots |-> Held(p)]) = Memory

Settled(p) == state[p] = "RUNNABLE" /\ pc[p] # "grow" /\ tidy[p]

\* The pages of a process are those of its heap and its stack and no other, and
\* the two do not meet.
ImageExact ==
  \A p \in Slots : Settled(p) =>
    /\ pgdir[p].map = Pages(PGSIZE, sz[p]) \cup Pages(sz2[p], USERTOP)
    /\ sz[p] <= sz2[p]

Mapped(p, i, size) == \A x \in i..i+size-1 : (x \div PGSIZE) * PGSIZE \in pgdir[p].map

\* Of all blocks a program may pass to a system call, those argptr accepts lie
\* in memory the process has, unless the end of the block wraps around: argptr
\* does not reject such a block.  The int fetchint reads is in memory the
\* process has if it lies between the first page and USERTOP; of what lies
\* outside, fetchint rejects neither page 0, which is never mapped, nor the
\* kernel.
ArgumentsMapped ==
  \A p \in Slots : Settled(p) /\ pc[p] = "user" =>
    \A i \in Addresses :
      /\ \A size \in Addresses :
           argptr(p, i, size) => Mapped(p, i, size) \/ i + size >= AddrSpace
      /\ fetchint(p, i) => Mapped(p, i, Word) \/ i < PGSIZE \/ i + Word > USERTOP

\* A segment that is not page-aligned, that wants its bytes in page 0, or whose
\* end wraps around: nothing in exec rejects it.
Misfit(p) ==
  LET s == seg[p]
  IN  \/ s.va % PGSIZE # 0
      \/ s.filesz > 0 /\ (s.va < PGSIZE \/ old[p] + s.va + s.memsz >= AddrSpace)

\* A panic in vm.c has one of the known causes: an image that is no longer what
\* sz and sz2 say, a segment for which loaduvm has no pages, or a program that
\* reaches into the page of its own stack.
PanicExplained ==
  panic => \E p \in Slots : \/ ~tidy[p] \/ Misfit(p)
                            \/ pc[p] = "stack" /\ old[p] > USERTOP - PGSIZE

\* As long as nothing of what Untidy names has happened to it, a process has
\* the memory sz and sz2 promise and its arguments are checked against that
\* memory as far as ArgumentsMapped says; and vm.c panics for no other cause
\* than those PanicExplained names.
SpaceKept == ImageExact /\ ArgumentsMapped /\ PanicExplained
=============================================================================
