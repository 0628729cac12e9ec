------------------------------- MODULE VmProofs -------------------------------
(***************************************************************************)
(* Proofs about Vm, for any number of processes, any page size, any amount *)
(* of memory and any programs.  The invariant says of each slot which      *)
(* pages its tables map at every point of the loops of allocuvm, exec and  *)
(* copyuvm; a step changes one slot or a parent and its child, and the sum *)
(* of what the slots hold changes by what those do.                        *)
(***************************************************************************)
EXTENDS Vm, Lemmas

-----------------------------------------------------------------------------
(* addresses of pages *)

Aligned(x) == x \in Nat /\ x % PGSIZE = 0

\* Page addresses are the multiples of PGSIZE.
LEMMA AlignedIs ==
  ASSUME NEW x \in Nat
  PROVE  /\ Aligned(x) => x = PGSIZE * (x \div PGSIZE) /\ x \div PGSIZE \in Int
         /\ \A k \in Int : x = PGSIZE * k => Aligned(x)
  <1>1. PGSIZE \in Nat \ {0}
    BY PageAssumption
  <1>2. Aligned(x) => x = PGSIZE * (x \div PGSIZE) /\ x \div PGSIZE \in Int
    BY <1>1, DivMod DEF Aligned
  <1>3. ASSUME NEW k \in Int, x = PGSIZE * k PROVE Aligned(x)
    <2>1. x - 0 = PGSIZE * k /\ 0 \in Int /\ x \in Int
      BY <1>1, <1>3
    <2>2. x % PGSIZE = 0 % PGSIZE
      BY <1>1, <2>1, SameResidue, Zenon
    <2>3. 0 % PGSIZE = 0
      BY <1>1
    <2>. QED  BY <2>2, <2>3 DEF Aligned
  <1>. QED  BY <1>2, <1>3

\* The page after a page, and the one before it.
LEMMA AlignedNext ==
  ASSUME NEW x, Aligned(x)
  PROVE  Aligned(x + PGSIZE) /\ (x >= PGSIZE => Aligned(x - PGSIZE))
  <1>. DEFINE k == x \div PGSIZE
  <1>0. PGSIZE \in Nat \ {0} /\ x \in Nat
    BY PageAssumption DEF Aligned
  <1>1. x = PGSIZE * k /\ k \in Int
    BY <1>0, AlignedIs
  <1>. HIDE DEF k
  <1>2. x + PGSIZE = PGSIZE * (k + 1) /\ k + 1 \in Int /\ x + PGSIZE \in Nat
    BY <1>0, <1>1
  <1>3. x - PGSIZE = PGSIZE * (k - 1) /\ k - 1 \in Int
    BY <1>0, <1>1
  <1>4. Aligned(x + PGSIZE)
    BY <1>2, AlignedIs, Zenon
  <1>5. ASSUME x >= PGSIZE PROVE Aligned(x - PGSIZE)
    <2>1. x - PGSIZE \in Nat
      BY <1>0, <1>5
    <2>. QED  BY <2>1, <1>3, AlignedIs, Zenon
  <1>. QED  BY <1>4, <1>5

\* Two page addresses are a page apart.
LEMMA AlignedGap ==
  ASSUME NEW x, NEW y, Aligned(x), Aligned(y), x < y
  PROVE  x + PGSIZE <= y
  <1>. DEFINE k == x \div PGSIZE
              m == y \div PGSIZE
  <1>0. PGSIZE \in Nat \ {0} /\ x \in Nat /\ y \in Nat
    BY PageAssumption DEF Aligned
  <1>1. x = PGSIZE * k /\ k \in Int
    BY <1>0, AlignedIs
  <1>2. y = PGSIZE * m /\ m \in Int
    BY <1>0, AlignedIs
  <1>. HIDE DEF k, m
  <1>3. y - x = PGSIZE * (m - k) /\ m - k \in Int
    BY <1>0, <1>1, <1>2
  <1>4. ASSUME m - k <= 0 PROVE FALSE
    BY <1>0, <1>3, <1>4
  <1>5. PGSIZE * (m - k) >= PGSIZE
    BY <1>0, <1>3, <1>4
  <1>. QED  BY <1>0, <1>3, <1>5

\* The corners of user memory are page addresses.
LEMMA AlignedEnds ==
  /\ Aligned(0) /\ Aligned(PGSIZE) /\ Aligned(USERTOP) /\ Aligned(USERTOP - PGSIZE)
  /\ PGSIZE \in Nat /\ PGSIZE > 0 /\ USERTOP \in Nat /\ USERTOP >= 3 * PGSIZE
  <1>0. PGSIZE \in Nat /\ PGSIZE > 0 /\ USERTOP \in Nat /\ USERTOP >= 3 * PGSIZE
    BY PageAssumption, TopAssumption
  <1>1. Aligned(0)
    BY <1>0 DEF Aligned
  <1>2. Aligned(0 + PGSIZE) /\ 0 + PGSIZE = PGSIZE
    BY <1>0, <1>1, AlignedNext
  <1>3. Aligned(USERTOP)
    BY TopAssumption DEF Aligned
  <1>4. Aligned(USERTOP - PGSIZE)
    <2>1. USERTOP >= PGSIZE
      BY <1>0
    <2>. QED  BY <2>1, <1>3, AlignedNext, Zenon
  <1>. QED  BY <1>0, <1>1, <1>2, <1>3, <1>4

\* Page 0 is followed by the one at PGSIZE.
LEMMA FirstPage ==
  ASSUME NEW x, Aligned(x), 0 < x
  PROVE  PGSIZE <= x
  <1>1. Aligned(0) /\ PGSIZE \in Nat /\ x \in Nat
    BY AlignedEnds DEF Aligned
  <1>2. 0 + PGSIZE <= x
    BY <1>1, AlignedGap
  <1>. QED  BY <1>1, <1>2

\* PGROUNDUP is the first page address from x on.
LEMMA RoundUp ==
  ASSUME NEW x \in Nat
  PROVE  /\ Aligned(PGROUNDUP(x)) /\ PGROUNDUP(x) \in Nat
         /\ x <= PGROUNDUP(x) /\ PGROUNDUP(x) < x + PGSIZE
         /\ \A y : Aligned(y) /\ x <= y => PGROUNDUP(x) <= y
         /\ \A y : Aligned(y) /\ x <= y /\ y < x + PGSIZE => PGROUNDUP(x) = y
  <1>. DEFINE z == x + PGSIZE - 1
              k == z \div PGSIZE
              r == z % PGSIZE
  <1>0. PGSIZE \in Nat \ {0}
    BY PageAssumption
  <1>1. z = (PGSIZE * k) + r /\ k \in Int /\ r \in 0..PGSIZE-1
    <2>1. z \in Int
      BY <1>0
    <2>. HIDE DEF z
    <2>. QED  BY <1>0, <2>1, DivMod
  <1>2. PGROUNDUP(x) = k * PGSIZE
    BY DEF PGROUNDUP
  <1>. HIDE DEF k, r
  <1>3. k * PGSIZE = PGSIZE * k
    BY <1>0, <1>1
  <1>4. PGROUNDUP(x) = z - r /\ PGROUNDUP(x) \in Int
    BY <1>0, <1>1, <1>2, <1>3
  <1>5. x <= PGROUNDUP(x) /\ PGROUNDUP(x) < x + PGSIZE /\ PGROUNDUP(x) \in Nat
    BY <1>0, <1>1, <1>4
  <1>6. Aligned(PGROUNDUP(x))
    BY <1>1, <1>2, <1>3, <1>5, AlignedIs
  <1>7. ASSUME NEW y, Aligned(y), x <= y PROVE PGROUNDUP(x) <= y
    <2>1. y \in Nat
      BY <1>7 DEF Aligned
    <2>2. ASSUME y < PGROUNDUP(x) PROVE FALSE
      <3>1. y + PGSIZE <= PGROUNDUP(x)
        BY <1>6, <1>7, <2>2, AlignedGap
      <3>. QED  BY <1>0, <1>5, <1>7, <2>1, <3>1
    <2>. QED  BY <1>5, <2>1, <2>2
  <1>8. ASSUME NEW y, Aligned(y), x <= y, y < x + PGSIZE PROVE PGROUNDUP(x) = y
    <2>1. y \in Nat /\ PGROUNDUP(x) <= y
      BY <1>7, <1>8 DEF Aligned
    <2>2. ASSUME PGROUNDUP(x) < y PROVE FALSE
      <3>1. PGROUNDUP(x) + PGSIZE <= y
        BY <1>6, <1>8, <2>2, AlignedGap
      <3>. QED  BY <1>0, <1>5, <1>8, <2>1, <3>1
    <2>. QED  BY <1>5, <2>1, <2>2
  <1>. QED  BY <1>5, <1>6, <1>7, <1>8

\* The pages between two addresses.
LEMMA InPages ==
  ASSUME NEW from, NEW to, NEW x
  PROVE  x \in Pages(from, to) <=> Aligned(x) /\ x < USERTOP /\ from <= x /\ x < to
  BY AlignedEnds DEF Pages, Aligned

\* Sets of pages are finite.
LEMMA PagesFinite ==
  ASSUME NEW m \in SUBSET Pages(0, USERTOP)
  PROVE  IsFiniteSet(m) /\ Cardinality(m) \in Nat
  <1>1. IsFiniteSet(0..USERTOP-1)
    BY AlignedEnds, FS_Interval
  <1>2. m \subseteq 0..USERTOP-1
    BY DEF Pages
  <1>. QED  BY <1>1, <1>2, FS_Subset, FS_CardinalityType

\* Every set of pages is one of user pages.
LEMMA PagesAll ==
  ASSUME NEW from, NEW to
  PROVE  Pages(from, to) \in SUBSET Pages(0, USERTOP)
  <1>1. ASSUME NEW x \in Pages(from, to) PROVE x \in Pages(0, USERTOP)
    BY AlignedEnds DEF Pages
  <1>. QED  BY <1>1

\* There is nothing between an address and itself.
LEMMA PagesNone ==
  ASSUME NEW from \in Nat, NEW to \in Nat, to <= from
  PROVE  Pages(from, to) = {}
  BY AlignedEnds DEF Pages

\* One page more at the end of a range ...
LEMMA PagesUp ==
  ASSUME NEW from \in Nat, NEW x, Aligned(x), from <= x, x < USERTOP
  PROVE  Pages(from, x + PGSIZE) = Pages(from, x) \cup {x} /\ x \notin Pages(from, x)
  <1>0. x \in Nat /\ PGSIZE \in Nat /\ PGSIZE > 0
    BY AlignedEnds DEF Aligned
  <1>1. ASSUME NEW y PROVE y \in Pages(from, x + PGSIZE) <=> y \in Pages(from, x) \cup {x}
    <2>1. CASE Aligned(y)
      <3>1. y \in Nat
        BY <2>1 DEF Aligned
      <3>2. x < y => x + PGSIZE <= y
        BY <2>1, AlignedGap
      <3>. QED  BY <1>0, <2>1, <3>1, <3>2, InPages
    <2>2. CASE ~Aligned(y)
      BY <2>2, InPages
    <2>. QED  BY <2>1, <2>2
  <1>2. x \notin Pages(from, x)
    BY <1>0, InPages
  <1>. QED  BY <1>1, <1>2

\* ... and at its beginning.
LEMMA PagesDown ==
  ASSUME NEW to \in Nat, NEW x, Aligned(x), PGSIZE <= x, x <= USERTOP, x <= to
  PROVE  Pages(x - PGSIZE, to) = Pages(x, to) \cup {x - PGSIZE} /\ x - PGSIZE \notin Pages(x, to)
  <1>. DEFINE b == x - PGSIZE
  <1>0. x \in Nat /\ PGSIZE \in Nat /\ PGSIZE > 0 /\ Aligned(b) /\ b \in Nat /\ b + PGSIZE = x
        /\ b < USERTOP /\ b < to
    <2>1. Aligned(b)
      BY AlignedNext, Zenon
    <2>. QED  BY <2>1, AlignedEnds DEF Aligned
  <1>. HIDE DEF b
  <1>1. ASSUME NEW y PROVE y \in Pages(b, to) <=> y \in Pages(x, to) \cup {b}
    <2>1. CASE Aligned(y)
      <3>1. y \in Nat
        BY <2>1 DEF Aligned
      <3>2. b < y => b + PGSIZE <= y
        BY <1>0, <2>1, AlignedGap
      <3>. QED  BY <1>0, <2>1, <3>1, <3>2, InPages
    <2>2. CASE ~Aligned(y)
      BY <2>2, <1>0, InPages
    <2>. QED  BY <2>1, <2>2
  <1>2. b \notin Pages(x, to)
    BY <1>0, InPages
  <1>. QED  BY <1>1, <1>2 DEF b

\* The rest of a page holds no further page.
LEMMA PagesRound ==
  ASSUME NEW from \in Nat, NEW x \in Nat, NEW y, Aligned(y), x <= y, y < x + PGSIZE
  PROVE  Pages(from, x) = Pages(from, y)
  <1>0. y \in Nat /\ PGSIZE \in Nat /\ PGSIZE > 0
    BY AlignedEnds DEF Aligned
  <1>1. ASSUME NEW z PROVE z \in Pages(from, x) <=> z \in Pages(from, y)
    <2>1. CASE Aligned(z)
      <3>1. z \in Nat
        BY <2>1 DEF Aligned
      <3>2. z < y => z + PGSIZE <= y
        BY <2>1, AlignedGap
      <3>. QED  BY <1>0, <2>1, <3>1, <3>2, InPages
    <2>2. CASE ~Aligned(z)
      BY <2>2, InPages
    <2>. QED  BY <2>1, <2>2
  <1>. QED  BY <1>1

\* Taking back the heap from an address on leaves the heap up to there and the stack.
LEMMA PagesCut ==
  ASSUME NEW x, NEW from, NEW to \in Nat, NEW bottom \in Nat,
         Aligned(x), Aligned(from), PGSIZE <= from, from <= x, x < to + PGSIZE, to <= bottom
  PROVE  (Pages(PGSIZE, x) \cup Pages(bottom, USERTOP)) \ Pages(from, to)
           = Pages(PGSIZE, from) \cup Pages(bottom, USERTOP)
  <1>0. x \in Nat /\ from \in Nat /\ PGSIZE \in Nat /\ PGSIZE > 0 /\ USERTOP \in Nat
    BY AlignedEnds DEF Aligned
  <1>1. ASSUME NEW z
        PROVE  z \in (Pages(PGSIZE, x) \cup Pages(bottom, USERTOP)) \ Pages(from, to)
                 <=> z \in Pages(PGSIZE, from) \cup Pages(bottom, USERTOP)
    <2>1. CASE Aligned(z)
      <3>1. z \in Nat
        BY <2>1 DEF Aligned
      <3>2. z < x => z + PGSIZE <= x
        BY <2>1, AlignedGap
      <3>. QED  BY <1>0, <2>1, <3>1, <3>2, InPages
    <2>2. CASE ~Aligned(z)
      BY <2>2, InPages
    <2>. QED  BY <2>1, <2>2
  <1>. QED  BY <1>1

-----------------------------------------------------------------------------
(* page tables *)

\* What a page table holds is a number of pages.
LEMMA TableSizes ==
  /\ NoTable \in Tables /\ TableSize(NoTable) = 0
  /\ \A t \in Tables : TableSize(t) \in Nat /\ TableSize(t) = t.kvm + Cardinality(t.map)
                        /\ t.kvm \in 0..KvmPages /\ Cardinality(t.map) \in Nat
  <1>1. KvmPages \in Nat /\ KvmPages > 0
    BY MemoryAssumption
  <1>2. NoTable \in Tables
    BY <1>1 DEF NoTable, Tables
  <1>3. TableSize(NoTable) = 0
    BY FS_EmptySet DEF NoTable, TableSize
  <1>4. ASSUME NEW t \in Tables
        PROVE  /\ TableSize(t) \in Nat /\ TableSize(t) = t.kvm + Cardinality(t.map)
               /\ t.kvm \in 0..KvmPages /\ Cardinality(t.map) \in Nat
    <2>1. t.kvm \in 0..KvmPages /\ t.map \in SUBSET Pages(0, USERTOP)
      BY DEF Tables
    <2>2. Cardinality(t.map) \in Nat
      BY <2>1, PagesFinite
    <2>. QED  BY <1>1, <2>1, <2>2 DEF TableSize
  <1>. QED  BY <1>2, <1>3, <1>4

\* A table with other user pages.
LEMMA TableMap ==
  ASSUME NEW t \in Tables, NEW m \in SUBSET Pages(0, USERTOP)
  PROVE  /\ [t EXCEPT !.map = m] \in Tables
         /\ [t EXCEPT !.map = m].kvm = t.kvm /\ [t EXCEPT !.map = m].map = m
  BY DEF Tables

\* A table that maps one page more is a page larger.
LEMMA TableMore ==
  ASSUME NEW t \in Tables, NEW u \in Tables, NEW x \in Pages(0, USERTOP),
         x \notin t.map, u.kvm = t.kvm, u.map = t.map \cup {x}
  PROVE  TableSize(u) = TableSize(t) + 1
  <1>1. t.map \in SUBSET Pages(0, USERTOP)
    BY DEF Tables
  <1>2. IsFiniteSet(t.map) /\ Cardinality(t.map) \in Nat
    BY <1>1, PagesFinite
  <1>3. Cardinality(u.map) = Cardinality(t.map) + 1
    BY <1>2, FS_AddElement
  <1>4. TableSize(t) = t.kvm + Cardinality(t.map) /\ t.kvm \in Nat
    BY TableSizes
  <1>5. TableSize(u) = u.kvm + Cardinality(u.map)
    BY TableSizes
  <1>. QED  BY <1>2, <1>3, <1>4, <1>5

\* Taking pages out of a table makes it smaller by their number.
LEMMA TableLess ==
  ASSUME NEW t \in Tables, NEW u \in Tables, u.kvm = t.kvm, u.map \subseteq t.map
  PROVE  /\ Cardinality(t.map) - Cardinality(u.map) \in Nat
         /\ TableSize(u) + (Cardinality(t.map) - Cardinality(u.map)) = TableSize(t)
  <1>1. t.map \in SUBSET Pages(0, USERTOP)
    BY DEF Tables
  <1>2. IsFiniteSet(t.map)
    BY <1>1, PagesFinite
  <1>3. Cardinality(u.map) <= Cardinality(t.map)
    BY <1>2, FS_Subset
  <1>4. TableSize(t) = t.kvm + Cardinality(t.map) /\ t.kvm \in Nat /\ Cardinality(t.map) \in Nat
    BY TableSizes
  <1>5. TableSize(u) = u.kvm + Cardinality(u.map) /\ Cardinality(u.map) \in Nat
    BY TableSizes
  <1>. QED  BY <1>3, <1>4, <1>5

-----------------------------------------------------------------------------
(* the inductive invariant *)

\* the types of one slot
Typed(p) ==
  /\ state[p] \in {"UNUSED", "EMBRYO", "RUNNABLE", "ZOMBIE"}
  /\ sz[p] \in 0..USERTOP /\ sz2[p] \in Pages(0, USERTOP)
  /\ pgdir[p] \in Tables /\ new[p] \in Tables /\ kstack[p] \in 0..1
  /\ pc[p] \in {"user", "grow", "exec", "stack", "args", "copy", "copystack"}
  /\ np[p] \in Slots \cup {0} /\ nseg[p] \in 0..MaxSegments /\ seg[p] \in Segments \cup {Nothing}
  /\ a[p] \in 0..USERTOP /\ old[p] \in 0..USERTOP /\ end[p] \in 0..USERTOP
  /\ tidy[p] \in BOOLEAN

\* every variable with a value per process is a function on the slots
Shape ==
  /\ state = [p \in Slots |-> state[p]] /\ sz = [p \in Slots |-> sz[p]]
  /\ sz2 = [p \in Slots |-> sz2[p]] /\ pgdir = [p \in Slots |-> pgdir[p]]
  /\ new = [p \in Slots |-> new[p]] /\ kstack = [p \in Slots |-> kstack[p]]
  /\ pc = [p \in Slots |-> pc[p]] /\ np = [p \in Slots |-> np[p]]
  /\ nseg = [p \in Slots |-> nseg[p]] /\ seg = [p \in Slots |-> seg[p]]
  /\ a = [p \in Slots |-> a[p]]
  /\ old = [p \in Slots |-> old[p]] /\ end = [p \in Slots |-> end[p]]
  /\ tidy = [p \in Slots |-> tidy[p]]

\* what one slot says of its place in the table
Slot(p) ==
  /\ state[p] # "RUNNABLE" => pc[p] = "user"
  /\ state[p] = "UNUSED" => kstack[p] = 0 /\ pgdir[p] = NoTable
  /\ state[p] = "EMBRYO" => kstack[p] = 1 /\ pgdir[p] = NoTable
  /\ state[p] = "RUNNABLE" => sz[p] > 0
  /\ pc[p] \in {"user", "grow"} => new[p] = NoTable
  /\ np[p] # 0 <=> pc[p] \in {"copy", "copystack"}
  /\ pc[p] # "exec" => seg[p] = Nothing
  /\ Aligned(a[p])

Growing(p) ==
  pc[p] = "grow" =>
    /\ old[p] = sz[p] /\ sz[p] <= a[p] /\ sz[p] <= end[p] /\ a[p] < end[p] + PGSIZE
    /\ tidy[p] => /\ end[p] <= sz2[p]
                  /\ pgdir[p].map = Pages(PGSIZE, a[p]) \cup Pages(sz2[p], USERTOP)

InExec(p) ==
  pc[p] = "exec" =>
    /\ PGSIZE <= a[p] /\ a[p] < end[p] + PGSIZE
    /\ new[p].kvm < KvmPages => a[p] = PGSIZE
    /\ new[p].map = Pages(PGSIZE, a[p])
    /\ seg[p].filesz <= seg[p].memsz
    /\ seg[p] # Nothing /\ old[p] + seg[p].va + seg[p].memsz < AddrSpace =>
         end[p] = old[p] + seg[p].va + seg[p].memsz

InStack(p) ==
  pc[p] \in {"stack", "args"} =>
    /\ a[p] \in {USERTOP - PGSIZE, USERTOP} /\ end[p] = USERTOP
    /\ Aligned(old[p]) /\ PGSIZE <= old[p]
    /\ a[p] = USERTOP => old[p] <= USERTOP - PGSIZE
    /\ new[p].map = Pages(PGSIZE, old[p]) \cup Pages(USERTOP - PGSIZE, a[p])
    /\ pc[p] = "args" => a[p] = USERTOP /\ sz2[p] = USERTOP - PGSIZE

InCopy(p) ==
  pc[p] = "copy" =>
    /\ sz2[p] # 0 /\ PGSIZE <= a[p]
    /\ a[p] = PGSIZE \/ a[p] < sz[p] + PGSIZE
    /\ new[p].kvm < KvmPages => a[p] = PGSIZE
    /\ new[p].map = Pages(PGSIZE, a[p])

InCopyStack(p) ==
  pc[p] = "copystack" =>
    /\ sz2[p] # 0 /\ sz2[p] <= a[p]
    /\ sz2[p] < a[p] => sz[p] <= sz2[p]
    /\ new[p].map = Pages(PGSIZE, sz[p]) \cup Pages(sz2[p], a[p])

Children ==
  /\ \A p \in Slots : np[p] # 0 => state[np[p]] = "EMBRYO"
  /\ \A p, q \in Slots : np[p] # 0 /\ np[p] = np[q] => p = q

Image(p) ==
  Settled(p) =>
    /\ pgdir[p].map = Pages(PGSIZE, sz[p]) \cup Pages(sz2[p], USERTOP)
    /\ sz[p] <= sz2[p]

Local(p) ==
  Slot(p) /\ Growing(p) /\ InExec(p) /\ InStack(p) /\ InCopy(p) /\ InCopyStack(p) /\ Image(p)

Balance == ~panic => free + lost + SumFunction([p \in Slots |-> Held(p)]) = Memory

Explained(p) == ~tidy[p] \/ Misfit(p) \/ (pc[p] = "stack" /\ old[p] > USERTOP - PGSIZE)

Inv ==
  /\ TypeOK /\ Balance /\ Children
  /\ panic => \E p \in Slots : Explained(p)
  /\ \A p \in Slots : Local(p)

\* The types, slot by slot.
LEMMA TypesAre ==
  TypeOK <=> /\ free \in 0..Memory /\ lost \in 0..Memory /\ panic \in BOOLEAN
             /\ Shape /\ \A p \in Slots : Typed(p)
  <1>1. ASSUME TypeOK PROVE Shape
    BY <1>1 DEF TypeOK, Shape
  <1>2. ASSUME TypeOK, NEW p \in Slots PROVE Typed(p)
    BY <1>2 DEF TypeOK, Typed
  <1>3. ASSUME free \in 0..Memory, lost \in 0..Memory, panic \in BOOLEAN, Shape,
               \A p \in Slots : Typed(p)
        PROVE  TypeOK
    <2>1. /\ state \in [Slots -> {"UNUSED", "EMBRYO", "RUNNABLE", "ZOMBIE"}]
          /\ sz \in [Slots -> 0..USERTOP] /\ sz2 \in [Slots -> Pages(0, USERTOP)]
      BY <1>3 DEF Shape, Typed
    <2>2. pgdir \in [Slots -> Tables] /\ new \in [Slots -> Tables] /\ kstack \in [Slots -> 0..1]
      BY <1>3 DEF Shape, Typed
    <2>3. pc \in [Slots -> {"user", "grow", "exec", "stack", "args", "copy", "copystack"}]
      BY <1>3 DEF Shape, Typed
    <2>4. /\ np \in [Slots -> Slots \cup {0}] /\ nseg \in [Slots -> 0..MaxSegments]
          /\ seg \in [Slots -> Segments \cup {Nothing}]
      BY <1>3 DEF Shape, Typed
    <2>5. a \in [Slots -> 0..USERTOP] /\ old \in [Slots -> 0..USERTOP] /\ end \in [Slots -> 0..USERTOP]
      BY <1>3 DEF Shape, Typed
    <2>6. tidy \in [Slots -> BOOLEAN]
      BY <1>3 DEF Shape, Typed
    <2>. QED  BY <1>3, <2>1, <2>2, <2>3, <2>4, <2>5, <2>6 DEF TypeOK
  <1>4. TypeOK => free \in 0..Memory /\ lost \in 0..Memory /\ panic \in BOOLEAN
    BY DEF TypeOK
  <1>. QED  BY <1>1, <1>2, <1>3, <1>4

-----------------------------------------------------------------------------
(* steps that change one slot, and steps that change two *)

Same(q) ==
  /\ state'[q] = state[q] /\ sz'[q] = sz[q] /\ sz2'[q] = sz2[q] /\ pgdir'[q] = pgdir[q]
  /\ new'[q] = new[q] /\ kstack'[q] = kstack[q] /\ pc'[q] = pc[q] /\ np'[q] = np[q]
  /\ nseg'[q] = nseg[q] /\ seg'[q] = seg[q] /\ a'[q] = a[q] /\ old'[q] = old[q] /\ end'[q] = end[q]
  /\ tidy'[q] = tidy[q]

\* A slot that a step leaves alone keeps what is known of it.
LEMMA SameSlot ==
  ASSUME NEW q \in Slots, Typed(q), Local(q), Same(q)
  PROVE  Typed(q)' /\ Local(q)' /\ Held(q)' = Held(q)
  <1>1. Typed(q)'
    BY DEF Same, Typed
  <1>2. Slot(q)' /\ Growing(q)' /\ Image(q)'
    BY DEF Same, Local, Slot, Growing, Image, Settled
  <1>3. InExec(q)' /\ InStack(q)'
    BY DEF Same, Local, InExec, InStack
  <1>4. InCopy(q)' /\ InCopyStack(q)'
    BY DEF Same, Local, InCopy, InCopyStack
  <1>5. Held(q)' = Held(q)
    BY DEF Same, Held
  <1>. QED  BY <1>1, <1>2, <1>3, <1>4, <1>5 DEF Local

\* What a slot holds is a number of pages.
LEMMA HeldNat ==
  ASSUME NEW p \in Slots, Typed(p)
  PROVE  Held(p) \in Nat
  <1>1. TableSize(pgdir[p]) \in Nat /\ TableSize(new[p]) \in Nat /\ kstack[p] \in Nat
    BY TableSizes DEF Typed
  <1>. QED  BY <1>1 DEF Held

Total == SumFunction([p \in Slots |-> Held(p)])

\* The slots are finitely many.
LEMMA SlotsFinite == IsFiniteSet(Slots)
  BY SlotsAssumption, FS_Interval DEF Slots

\* What all slots hold is a number of pages.
LEMMA TotalNat == (\A p \in Slots : Typed(p)) => Total \in Nat
  <1>. SUFFICES ASSUME \A p \in Slots : Typed(p) PROVE Total \in Nat
    OBVIOUS
  <1>. DEFINE f == [p \in Slots |-> Held(p)]
  <1>1. f \in [Slots -> Nat] /\ DOMAIN f = Slots
    BY HeldNat
  <1>2. Total = SumFunctionOnSet(f, Slots)
    BY DEF Total, SumFunction
  <1>. HIDE DEF f
  <1>. QED  BY <1>1, <1>2, SumNat, SlotsFinite

\* When one slot changes, the total changes by as much.
LEMMA TotalOne ==
  ASSUME \A p \in Slots : Typed(p), \A p \in Slots : Typed(p)', NEW x \in Slots,
         \A q \in Slots : q # x => Held(q)' = Held(q)
  PROVE  Total' = (Total - Held(x)) + Held(x)'
  <1>. DEFINE f == [p \in Slots |-> Held(p)]
              e == [p \in Slots |-> Held(p)']
  <1>1. f \in [Slots -> Nat] /\ DOMAIN f = Slots
    BY HeldNat
  <1>2. ASSUME NEW p \in Slots PROVE Held(p)' \in Nat
    <2>1. TableSize(pgdir'[p]) \in Nat /\ TableSize(new'[p]) \in Nat /\ kstack'[p] \in Nat
      BY TableSizes DEF Typed
    <2>. QED  BY <2>1 DEF Held
  <1>3. e \in [Slots -> Nat] /\ DOMAIN e = Slots
    BY <1>2
  <1>4. Total = SumFunctionOnSet(f, Slots) /\ Total' = SumFunctionOnSet(e, Slots)
    BY DEF Total, SumFunction
  <1>5. f[x] = Held(x) /\ e[x] = Held(x)' /\ \A y \in Slots : y # x => e[y] = f[y]
    OBVIOUS
  <1>. HIDE DEF f, e
  <1>. QED  BY <1>1, <1>3, <1>4, <1>5, SumChange, SlotsFinite

\* The same for two slots.
LEMMA TotalTwo ==
  ASSUME \A p \in Slots : Typed(p), \A p \in Slots : Typed(p)', NEW x \in Slots, NEW z \in Slots, x # z,
         \A q \in Slots : q # x /\ q # z => Held(q)' = Held(q)
  PROVE  Total' = (((Total - Held(x)) + Held(x)') - Held(z)) + Held(z)'
  <1>. DEFINE f == [p \in Slots |-> Held(p)]
              e == [p \in Slots |-> Held(p)']
              d == [p \in Slots |-> IF p = x THEN Held(p)' ELSE Held(p)]
  <1>1. f \in [Slots -> Nat] /\ DOMAIN f = Slots
    BY HeldNat
  <1>2. ASSUME NEW p \in Slots PROVE Held(p)' \in Nat
    <2>1. TableSize(pgdir'[p]) \in Nat /\ TableSize(new'[p]) \in Nat /\ kstack'[p] \in Nat
      BY TableSizes DEF Typed
    <2>. QED  BY <2>1 DEF Held
  <1>3. e \in [Slots -> Nat] /\ DOMAIN e = Slots
    BY <1>2
  <1>4. d \in [Slots -> Nat]
    BY <1>2, HeldNat
  <1>5. Total = SumFunctionOnSet(f, Slots) /\ Total' = SumFunctionOnSet(e, Slots)
    BY DEF Total, SumFunction
  <1>6. /\ f[x] = Held(x) /\ d[x] = Held(x)' /\ d[z] = Held(z) /\ e[z] = Held(z)'
        /\ \A y \in Slots : y # x => d[y] = f[y]
        /\ \A y \in Slots : y # z => e[y] = d[y]
    OBVIOUS
  <1>. HIDE DEF f, e, d
  <1>7. SumFunctionOnSet(d, Slots) = (SumFunctionOnSet(f, Slots) - f[x]) + d[x]
    BY <1>1, <1>4, <1>6, SumChange, SlotsFinite
  <1>8. SumFunctionOnSet(e, Slots) = (SumFunctionOnSet(d, Slots) - d[z]) + e[z]
    BY <1>3, <1>4, <1>6, SumChange, SlotsFinite
  <1>. QED  BY <1>5, <1>6, <1>7, <1>8

\* A part of a sum is at most the sum.
LEMMA Part ==
  ASSUME NEW x \in Nat, NEW y \in Nat, NEW z \in Nat, x + y + z = Memory
  PROVE  x \in 0..Memory /\ y \in 0..Memory
  BY MemoryAssumption

\* Pages move between the slots named, the free list and what is lost, and when
\* the kernel panics there is a reason.
Paid(here, there) ==
  /\ free' \in Nat /\ lost' \in Nat /\ panic' \in BOOLEAN
  /\ ~panic' => free' + lost' + there = free + lost + here
  /\ panic' => free' <= free /\ lost' <= lost

\* A step that changes one slot preserves the invariant when it does so there.
LEMMA OneSlot ==
  ASSUME Inv, ~panic, NEW x \in Slots, Shape', \A q \in Slots : q # x => Same(q),
         Typed(x)', Local(x)', np'[x] = np[x], state'[x] = "EMBRYO" <=> state[x] = "EMBRYO",
         Paid(Held(x), Held(x)'), panic' => Explained(x)'
  PROVE  Inv'
  <1>0. TypeOK /\ Shape /\ \A p \in Slots : Typed(p) /\ Local(p)
    BY TypesAre DEF Inv
  <1>1. ASSUME NEW q \in Slots, q # x PROVE Typed(q)' /\ Local(q)' /\ Held(q)' = Held(q)
    BY <1>0, <1>1, SameSlot
  <1>2. \A q \in Slots : Typed(q)' /\ Local(q)'
    BY <1>1
  <1>3. Total' = (Total - Held(x)) + Held(x)'
    BY <1>0, <1>1, <1>2, TotalOne
  <1>4. Total \in Nat /\ Total' \in Nat /\ Held(x) \in Nat /\ Held(x)' \in Nat
    <2>1. (\A p \in Slots : Typed(p)) => Total \in Nat
      BY TotalNat
    <2>2. (\A p \in Slots : Typed(p))' => (Total \in Nat)'
      BY TotalNat, PTL
    <2>3. TableSize(pgdir'[x]) \in Nat /\ TableSize(new'[x]) \in Nat /\ kstack'[x] \in Nat
      BY TableSizes DEF Typed
    <2>. QED  BY <1>0, <1>2, <2>1, <2>2, <2>3, HeldNat DEF Held
  <1>5. free + lost + Total = Memory /\ free \in Nat /\ lost \in Nat /\ Memory \in Nat
    BY <1>0, MemoryAssumption DEF Inv, Balance, Total, TypeOK
  <1>6. ~panic' => free' + lost' + Total' = Memory
    BY <1>3, <1>4, <1>5 DEF Paid
  <1>7. free' \in 0..Memory /\ lost' \in 0..Memory /\ panic' \in BOOLEAN
    <2>1. free <= Memory /\ lost <= Memory
      BY <1>4, <1>5
    <2>2. free' \in Nat /\ lost' \in Nat /\ panic' \in BOOLEAN /\ (panic' => free' <= free /\ lost' <= lost)
      BY DEF Paid
    <2>3. CASE panic'
      BY <1>5, <2>1, <2>2, <2>3
    <2>4. CASE ~panic'
      <3>1. free' + lost' + Total' = Memory
        BY <1>6, <2>4
      <3>2. free' \in Nat /\ lost' \in Nat
        BY <2>2
      <3>3. free' \in 0..Memory /\ lost' \in 0..Memory
        BY <1>4, <3>1, <3>2, Part
      <3>. QED  BY <2>2, <3>3
    <2>. QED  BY <2>3, <2>4
  <1>8. TypeOK'
    <2>1. (/\ free \in 0..Memory /\ lost \in 0..Memory /\ panic \in BOOLEAN
           /\ Shape /\ \A p \in Slots : Typed(p))' => TypeOK'
      BY TypesAre, PTL
    <2>. QED  BY <1>2, <1>7, <2>1
  <1>9. Balance'
    BY <1>6 DEF Balance, Total
  <1>10. Children'
    <2>1. \A q \in Slots : np'[q] = np[q] /\ (state'[q] = "EMBRYO" <=> state[q] = "EMBRYO")
      BY DEF Same
    <2>2. \A q \in Slots : np[q] # 0 => np[q] \in Slots
      BY <1>0 DEF Typed
    <2>. QED  BY <2>1, <2>2 DEF Children, Inv
  <1>. QED  BY <1>2, <1>8, <1>9, <1>10 DEF Inv

\* A step that changes two slots preserves the invariant when it does so there;
\* z is a free slot or a child that is being made.
LEMMA TwoSlots ==
  ASSUME Inv, ~panic, NEW x \in Slots, NEW z \in Slots, x # z, Shape',
         \A q \in Slots : q # x /\ q # z => Same(q),
         Typed(x)', Local(x)', Typed(z)', Local(z)', Children',
         Paid(Held(x) + Held(z), Held(x)' + Held(z)'), ~panic'
  PROVE  Inv'
  <1>0. TypeOK /\ Shape /\ \A p \in Slots : Typed(p) /\ Local(p)
    BY TypesAre DEF Inv
  <1>1. ASSUME NEW q \in Slots, q # x, q # z PROVE Typed(q)' /\ Local(q)' /\ Held(q)' = Held(q)
    BY <1>0, <1>1, SameSlot
  <1>2. \A q \in Slots : Typed(q)' /\ Local(q)'
    BY <1>1
  <1>3. Total' = (((Total - Held(x)) + Held(x)') - Held(z)) + Held(z)'
    BY <1>0, <1>1, <1>2, TotalTwo
  <1>4. /\ Total \in Nat /\ Total' \in Nat
        /\ Held(x) \in Nat /\ Held(x)' \in Nat /\ Held(z) \in Nat /\ Held(z)' \in Nat
    <2>1. (\A p \in Slots : Typed(p)) => Total \in Nat
      BY TotalNat
    <2>2. (\A p \in Slots : Typed(p))' => (Total \in Nat)'
      BY TotalNat, PTL
    <2>3. ASSUME NEW q \in Slots PROVE Held(q)' \in Nat
      <3>1. TableSize(pgdir'[q]) \in Nat /\ TableSize(new'[q]) \in Nat /\ kstack'[q] \in Nat
        BY <1>2, TableSizes DEF Typed
      <3>. QED  BY <3>1 DEF Held
    <2>. QED  BY <1>0, <1>2, <2>1, <2>2, <2>3, HeldNat
  <1>5. free + lost + Total = Memory /\ free \in Nat /\ lost \in Nat /\ Memory \in Nat
    BY <1>0, MemoryAssumption DEF Inv, Balance, Total, TypeOK
  <1>6. free' + lost' + (Held(x)' + Held(z)') = free + lost + (Held(x) + Held(z))
        /\ free' \in Nat /\ lost' \in Nat /\ panic' \in BOOLEAN
    BY DEF Paid
  <1>7. free' + lost' + Total' = Memory
    BY <1>3, <1>4, <1>5, <1>6
  <1>8. TypeOK'
    <2>1. (/\ free \in 0..Memory /\ lost \in 0..Memory /\ panic \in BOOLEAN
           /\ Shape /\ \A p \in Slots : Typed(p))' => TypeOK'
      BY TypesAre, PTL
    <2>2. free' \in 0..Memory /\ lost' \in 0..Memory
      BY <1>4, <1>6, <1>7, Part
    <2>. QED  BY <1>2, <1>6, <2>1, <2>2
  <1>9. Balance'
    BY <1>7 DEF Balance, Total
  <1>. QED  BY <1>2, <1>8, <1>9 DEF Inv

\* What is known of a slot.
LEMMA Known ==
  ASSUME Inv, NEW p \in Slots
  PROVE  /\ Shape /\ Typed(p) /\ Local(p) /\ free \in Nat /\ lost \in Nat /\ panic \in BOOLEAN
         /\ sz[p] \in Nat /\ sz2[p] \in Nat /\ Aligned(sz2[p]) /\ sz2[p] < USERTOP
         /\ a[p] \in Nat /\ old[p] \in Nat /\ end[p] \in Nat /\ Aligned(a[p])
         /\ a[p] <= USERTOP /\ end[p] <= USERTOP /\ sz[p] <= USERTOP /\ old[p] <= USERTOP
         /\ pgdir[p] \in Tables /\ new[p] \in Tables
         /\ pgdir[p].map \in SUBSET Pages(0, USERTOP) /\ new[p].map \in SUBSET Pages(0, USERTOP)
  <1>1. Shape /\ Typed(p) /\ Local(p) /\ free \in Nat /\ lost \in Nat /\ panic \in BOOLEAN
    BY TypesAre, MemoryAssumption DEF Inv
  <1>2. Aligned(a[p])
    BY <1>1 DEF Local, Slot
  <1>3. sz2[p] \in Pages(0, USERTOP)
    BY <1>1 DEF Typed
  <1>4. Aligned(sz2[p]) /\ sz2[p] < USERTOP /\ sz2[p] \in Nat
    BY <1>3, InPages DEF Aligned
  <1>5. pgdir[p] \in Tables /\ new[p] \in Tables
    BY <1>1 DEF Typed
  <1>6. pgdir[p].map \in SUBSET Pages(0, USERTOP) /\ new[p].map \in SUBSET Pages(0, USERTOP)
    BY <1>5 DEF Tables
  <1>7. /\ sz[p] \in Nat /\ a[p] \in Nat /\ old[p] \in Nat /\ end[p] \in Nat
        /\ a[p] <= USERTOP /\ end[p] <= USERTOP /\ sz[p] <= USERTOP /\ old[p] <= USERTOP
    BY <1>1, AlignedEnds DEF Typed
  <1>. QED  BY <1>1, <1>2, <1>4, <1>5, <1>6, <1>7

\* Taking pages out of a process's table puts them on the free list.
LEMMA TakeBack ==
  ASSUME Inv, ~panic, NEW p \in Slots, NEW kept \in SUBSET pgdir[p].map,
         pgdir'[p] = [pgdir[p] EXCEPT !.map = kept],
         free' = free + (Cardinality(pgdir[p].map) - Cardinality(kept)),
         kstack'[p] = kstack[p], new'[p] = new[p], lost' = lost, panic' = panic
  PROVE  /\ pgdir'[p] \in Tables /\ pgdir'[p].kvm = pgdir[p].kvm /\ pgdir'[p].map = kept
         /\ Paid(Held(p), Held(p)')
  <1>1. /\ pgdir[p] \in Tables /\ new[p] \in Tables /\ kept \in SUBSET Pages(0, USERTOP)
        /\ free \in Nat /\ lost \in Nat /\ panic \in BOOLEAN /\ kstack[p] \in Nat
    BY Known DEF Typed
  <1>2. pgdir'[p] \in Tables /\ pgdir'[p].kvm = pgdir[p].kvm /\ pgdir'[p].map = kept
    BY <1>1, TableMap
  <1>. DEFINE c == Cardinality(pgdir[p].map) - Cardinality(kept)
  <1>3. c \in Nat /\ TableSize(pgdir'[p]) + c = TableSize(pgdir[p])
    BY <1>1, <1>2, TableLess
  <1>4. TableSize(pgdir'[p]) \in Nat /\ TableSize(new[p]) \in Nat
    BY <1>1, <1>2, TableSizes
  <1>5. free' = free + c
    OBVIOUS
  <1>. HIDE DEF c
  <1>6. free' \in Nat /\ free' + lost' + Held(p)' = free + lost + Held(p)
    BY <1>1, <1>3, <1>4, <1>5 DEF Held
  <1>. QED  BY <1>1, <1>2, <1>6 DEF Paid

\* Mapping a page takes one from the free list.
LEMMA MapOne ==
  ASSUME Inv, ~panic, NEW p \in Slots, NEW x \in Pages(0, USERTOP), x \notin pgdir[p].map,
         pgdir'[p] = [pgdir[p] EXCEPT !.map = pgdir[p].map \cup {x}],
         kalloc, kstack'[p] = kstack[p], new'[p] = new[p], lost' = lost, panic' = panic
  PROVE  /\ pgdir'[p] \in Tables /\ pgdir'[p].map = pgdir[p].map \cup {x}
         /\ Paid(Held(p), Held(p)')
  <1>1. /\ pgdir[p] \in Tables /\ new[p] \in Tables /\ pgdir[p].map \cup {x} \in SUBSET Pages(0, USERTOP)
        /\ free \in Nat /\ lost \in Nat /\ panic \in BOOLEAN /\ kstack[p] \in Nat
    BY Known DEF Typed
  <1>2. pgdir'[p] \in Tables /\ pgdir'[p].kvm = pgdir[p].kvm /\ pgdir'[p].map = pgdir[p].map \cup {x}
    BY <1>1, TableMap
  <1>3. TableSize(pgdir'[p]) = TableSize(pgdir[p]) + 1
    BY <1>1, <1>2, TableMore
  <1>4. TableSize(pgdir[p]) \in Nat /\ TableSize(new[p]) \in Nat
    BY <1>1, TableSizes
  <1>5. free' \in Nat /\ free' + lost' + Held(p)' = free + lost + Held(p)
    BY <1>1, <1>3, <1>4 DEF Held, kalloc
  <1>. QED  BY <1>1, <1>2, <1>5 DEF Paid

\* The same for the table that exec or fork builds.
LEMMA NewOne ==
  ASSUME Inv, ~panic, NEW p \in Slots, NEW x \in Pages(0, USERTOP), x \notin new[p].map,
         new'[p] = [new[p] EXCEPT !.map = new[p].map \cup {x}],
         kalloc, kstack'[p] = kstack[p], pgdir'[p] = pgdir[p], lost' = lost, panic' = panic
  PROVE  /\ new'[p] \in Tables /\ new'[p].kvm = new[p].kvm /\ new'[p].map = new[p].map \cup {x}
         /\ Paid(Held(p), Held(p)')
  <1>1. /\ new[p] \in Tables /\ pgdir[p] \in Tables /\ new[p].map \cup {x} \in SUBSET Pages(0, USERTOP)
        /\ free \in Nat /\ lost \in Nat /\ panic \in BOOLEAN /\ kstack[p] \in Nat
    BY Known DEF Typed
  <1>2. new'[p] \in Tables /\ new'[p].kvm = new[p].kvm /\ new'[p].map = new[p].map \cup {x}
    BY <1>1, TableMap
  <1>3. TableSize(new'[p]) = TableSize(new[p]) + 1
    BY <1>1, <1>2, TableMore
  <1>4. TableSize(new[p]) \in Nat /\ TableSize(pgdir[p]) \in Nat
    BY <1>1, TableSizes
  <1>5. free' \in Nat /\ free' + lost' + Held(p)' = free + lost + Held(p)
    BY <1>1, <1>3, <1>4 DEF Held, kalloc
  <1>. QED  BY <1>1, <1>2, <1>5 DEF Paid

\* A step in the middle of a mapping loop that panics changes nothing else.
LEMMA PanicStep ==
  ASSUME Inv, ~panic, NEW p \in Slots, Explained(p), panic' = TRUE,
         free' = free \/ kalloc, UNCHANGED <<memory, call, new, lost, tidy>>
  PROVE  Inv'
  <1>1. Shape /\ Typed(p) /\ Local(p) /\ free \in Nat /\ lost \in Nat
    BY Known
  <1>2. Shape' /\ \A q \in Slots : Same(q)
    BY <1>1 DEF Shape, Same, memory, call
  <1>3. Typed(p)' /\ Local(p)' /\ Held(p)' = Held(p)
    BY <1>1, <1>2, SameSlot
  <1>4. Paid(Held(p), Held(p)')
    <2>1. free' \in Nat /\ free' <= free
      BY <1>1 DEF kalloc
    <2>. QED  BY <1>1, <2>1 DEF Paid
  <1>5. Explained(p)'
    BY DEF Explained, Misfit, call
  <1>6. np'[p] = np[p] /\ state'[p] = state[p]
    BY <1>2 DEF Same
  <1>. QED  BY <1>2, <1>3, <1>4, <1>5, <1>6, OneSlot

-----------------------------------------------------------------------------
(* growproc *)

\* Starting to grow the heap.
LEMMA GrowStep ==
  ASSUME Inv, NEW p \in Slots, NEW n \in Increments, Grow(p, n)
  PROVE  Inv'
  <1>0. /\ Shape /\ ~panic /\ state[p] = "RUNNABLE" /\ pc[p] = "user" /\ n \in Nat
        /\ sz[p] + n <= USERTOP - 2 * PGSIZE
    BY Known, ArgumentsAssumption DEF Grow, User, At
  <1>1. Shape' /\ \A q \in Slots : q # p => Same(q)
    BY <1>0 DEF Shape, Same, Grow, Goto, StartAlloc, Untidy, memory
  <1>2. /\ pc'[p] = "grow" /\ a'[p] = PGROUNDUP(sz[p]) /\ old'[p] = sz[p] /\ end'[p] = sz[p] + n
        /\ tidy'[p] = (tidy[p] /\ ~(sz[p] + n > sz2[p]))
        /\ UNCHANGED <<state, sz, sz2, pgdir, new, kstack, np, nseg, seg, free, lost, panic>>
    BY <1>0 DEF Shape, Grow, Goto, StartAlloc, Untidy, memory
  <1>3. /\ Aligned(a'[p]) /\ sz[p] <= a'[p] /\ a'[p] < sz[p] + PGSIZE /\ a'[p] <= USERTOP
        /\ Pages(PGSIZE, sz[p]) = Pages(PGSIZE, a'[p])
    <2>1. sz[p] \in Nat /\ sz[p] <= USERTOP /\ PGSIZE \in Nat /\ Aligned(USERTOP)
      BY Known, AlignedEnds
    <2>2. /\ Aligned(a'[p]) /\ sz[p] <= a'[p] /\ a'[p] < sz[p] + PGSIZE
          /\ \A y : Aligned(y) /\ sz[p] <= y => a'[p] <= y
      BY <1>2, <2>1, RoundUp
    <2>. QED  BY <2>1, <2>2, PagesRound
  <1>4. Typed(p)'
    <2>1. Typed(p) /\ a'[p] \in 0..USERTOP /\ end'[p] \in 0..USERTOP /\ tidy'[p] \in BOOLEAN
      BY <1>0, <1>2, <1>3, Known, AlignedEnds DEF Aligned, Typed
    <2>. QED  BY <1>2, <2>1 DEF Typed
  <1>5. Local(p)
    BY Known
  <1>6. Slot(p)'
    BY <1>0, <1>2, <1>3, <1>5 DEF Local, Slot
  <1>7. Growing(p)'
    <2>1. tidy'[p] => tidy[p] /\ end'[p] <= sz2[p]
      BY <1>0, <1>2, Known
    <2>2. tidy'[p] => pgdir[p].map = Pages(PGSIZE, a'[p]) \cup Pages(sz2[p], USERTOP)
      BY <1>0, <1>3, <1>5, <2>1 DEF Local, Image, Settled
    <2>3. sz[p] \in Nat /\ PGSIZE \in Nat /\ a'[p] \in Nat
      BY Known, AlignedEnds, <1>3 DEF Aligned
    <2>4. a'[p] < end'[p] + PGSIZE /\ sz[p] <= end'[p]
      BY <1>0, <1>2, <1>3, <2>3
    <2>. QED  BY <1>2, <1>3, <2>1, <2>2, <2>4 DEF Growing
  <1>8. InExec(p)' /\ InStack(p)' /\ InCopy(p)' /\ InCopyStack(p)' /\ Image(p)'
    BY <1>2 DEF InExec, InStack, InCopy, InCopyStack, Image, Settled
  <1>9. Held(p)' = Held(p) /\ Paid(Held(p), Held(p)')
    <2>1. Held(p)' = Held(p)
      BY <1>2 DEF Held
    <2>. QED  BY <1>0, <1>2, <2>1, Known DEF Paid
  <1>10. Local(p)'
    BY <1>6, <1>7, <1>8 DEF Local
  <1>. QED  BY <1>0, <1>1, <1>2, <1>4, <1>9, <1>10, OneSlot

\* Giving heap back.
LEMMA ShrinkStep ==
  ASSUME Inv, NEW p \in Slots, NEW n \in Increments, Shrink(p, n)
  PROVE  Inv'
  <1>. DEFINE newsz == sz[p] + n
              kept == Undone(pgdir[p].map, newsz, sz[p])
  <1>0. /\ Shape /\ Typed(p) /\ Local(p) /\ ~panic /\ state[p] = "RUNNABLE" /\ pc[p] = "user"
        /\ newsz \in Nat /\ newsz < sz[p] /\ sz[p] \in Nat /\ sz[p] <= USERTOP /\ sz2[p] \in Nat
    BY Known, ArgumentsAssumption DEF Shrink, User, At
  <1>1. Shape' /\ \A q \in Slots : q # p => Same(q)
    BY <1>0 DEF Shape, Same, Shrink, Untidy, call
  <1>2. /\ pgdir'[p] = [pgdir[p] EXCEPT !.map = kept]
        /\ free' = free + (Cardinality(pgdir[p].map) - Cardinality(kept))
        /\ sz'[p] = IF newsz = 0 THEN sz[p] ELSE newsz
        /\ tidy'[p] = (tidy[p] /\ ~(newsz = 0))
        /\ UNCHANGED <<state, sz2, kstack, pc, a, old, end, nseg, seg, np, new, panic, lost>>
    BY <1>0 DEF Shape, Shrink, Untidy, kfree, call
  <1>3. kept \in SUBSET pgdir[p].map
    BY DEF Undone
  <1>. HIDE DEF newsz, kept
  <1>4. pgdir'[p] \in Tables /\ pgdir'[p].map = kept /\ Paid(Held(p), Held(p)')
    BY <1>0, <1>2, <1>3, TakeBack
  <1>5. Typed(p)'
    <2>1. sz'[p] \in 0..USERTOP /\ tidy'[p] \in BOOLEAN
      BY <1>0, <1>2, AlignedEnds
    <2>. QED  BY <1>0, <1>2, <1>4, <2>1 DEF Typed
  <1>6. Slot(p)'
    BY <1>0, <1>2 DEF Local, Slot
  <1>7. Image(p)'
    <2>. SUFFICES ASSUME tidy'[p]
                  PROVE  kept = Pages(PGSIZE, newsz) \cup Pages(sz2[p], USERTOP) /\ sz'[p] = newsz /\ newsz <= sz2[p]
      BY <1>2, <1>4 DEF Image, Settled
    <2>1. tidy[p] /\ newsz > 0 /\ sz'[p] = newsz
      <3>1. tidy[p] /\ newsz # 0
        BY <1>2, Zenon
      <3>. QED  BY <1>0, <1>2, <3>1
    <2>2. pgdir[p].map = Pages(PGSIZE, sz[p]) \cup Pages(sz2[p], USERTOP) /\ sz[p] <= sz2[p]
      BY <1>0, <2>1 DEF Local, Image, Settled
    <2>. DEFINE r == PGROUNDUP(newsz)
                s == PGROUNDUP(sz[p])
    <2>3. /\ Aligned(r) /\ r \in Nat /\ newsz <= r /\ r < newsz + PGSIZE
          /\ \A y : Aligned(y) /\ newsz <= y => r <= y
      BY <1>0, RoundUp
    <2>4. Aligned(s) /\ s \in Nat /\ sz[p] <= s /\ s < sz[p] + PGSIZE
      BY <1>0, RoundUp
    <2>5. kept = pgdir[p].map \ Pages(r, sz[p])
      BY DEF kept, Undone
    <2>. HIDE DEF r, s
    <2>6. r <= s /\ PGSIZE <= r
      <3>1. newsz <= s
        BY <1>0, <2>4
      <3>2. 0 < r
        BY <1>0, <2>1, <2>3
      <3>. QED  BY <2>3, <2>4, <3>1, <3>2, FirstPage
    <2>7. Pages(PGSIZE, sz[p]) = Pages(PGSIZE, s) /\ Pages(PGSIZE, newsz) = Pages(PGSIZE, r)
      BY <1>0, <2>3, <2>4, PagesRound, AlignedEnds
    <2>8. (Pages(PGSIZE, s) \cup Pages(sz2[p], USERTOP)) \ Pages(r, sz[p]) = Pages(PGSIZE, r) \cup Pages(sz2[p], USERTOP)
      BY <1>0, <2>2, <2>3, <2>4, <2>6, PagesCut
    <2>9. newsz <= sz2[p]
      BY <1>0, <2>2
    <2>. QED  BY <2>1, <2>2, <2>5, <2>7, <2>8, <2>9
  <1>8. Growing(p)' /\ InExec(p)' /\ InStack(p)' /\ InCopy(p)' /\ InCopyStack(p)'
    BY <1>0, <1>2 DEF Growing, InExec, InStack, InCopy, InCopyStack
  <1>9. Local(p)'
    BY <1>6, <1>7, <1>8 DEF Local
  <1>. QED  BY <1>0, <1>1, <1>2, <1>4, <1>5, <1>9, OneSlot

\* The heap has grown.
LEMMA GrowDoneStep ==
  ASSUME Inv, NEW p \in Slots, GrowDone(p)
  PROVE  Inv'
  <1>0. /\ Shape /\ Typed(p) /\ Local(p) /\ ~panic /\ state[p] = "RUNNABLE" /\ pc[p] = "grow"
        /\ a[p] >= end[p] /\ a[p] \in Nat /\ end[p] \in Nat /\ sz[p] \in Nat /\ Aligned(a[p]) /\ np[p] = 0
    BY Known DEF GrowDone, At, Local, Slot
  <1>1. Shape' /\ \A q \in Slots : q # p => Same(q)
    BY <1>0 DEF Shape, Same, GrowDone, Return
  <1>2. /\ sz'[p] = end[p] /\ pc'[p] = "user" /\ np'[p] = np[p]
        /\ a'[p] = 0 /\ old'[p] = 0 /\ end'[p] = 0 /\ nseg'[p] = 0 /\ seg'[p] = Nothing
        /\ UNCHANGED <<free, state, sz2, pgdir, kstack, new, panic, lost, tidy>>
    BY <1>0 DEF Shape, GrowDone, Return
  <1>3. Typed(p)'
    BY <1>0, <1>2, SlotsAssumption, AlignedEnds DEF Typed
  <1>4. Growing(p)
    BY <1>0 DEF Local
  <1>5. Slot(p)'
    <2>1. end[p] > 0
      BY <1>0, <1>4 DEF Growing, Local, Slot
    <2>. QED  BY <1>0, <1>2, <2>1, AlignedEnds DEF Local, Slot
  <1>6. Image(p)'
    <2>1. Pages(PGSIZE, end[p]) = Pages(PGSIZE, a[p])
      BY <1>0, <1>4, PagesRound, AlignedEnds DEF Growing
    <2>. QED  BY <1>0, <1>2, <1>4, <2>1 DEF Growing, Image, Settled
  <1>7. Growing(p)' /\ InExec(p)' /\ InStack(p)' /\ InCopy(p)' /\ InCopyStack(p)'
    BY <1>2 DEF Growing, InExec, InStack, InCopy, InCopyStack
  <1>8. Held(p)' = Held(p) /\ Paid(Held(p), Held(p)')
    <2>1. Held(p)' = Held(p)
      BY <1>2 DEF Held
    <2>. QED  BY <1>0, <1>2, <2>1, Known DEF Paid
  <1>9. Local(p)'
    BY <1>5, <1>6, <1>7 DEF Local
  <1>. QED  BY <1>0, <1>1, <1>2, <1>3, <1>8, <1>9, OneSlot

\* There was no memory to grow into, and the pages mapped so far go back.
LEMMA GrowFailStep ==
  ASSUME Inv, NEW p \in Slots, GrowFail(p)
  PROVE  Inv'
  <1>. DEFINE kept == Undone(pgdir[p].map, old[p], end[p])
  <1>0. /\ Shape /\ Typed(p) /\ Local(p) /\ ~panic /\ state[p] = "RUNNABLE" /\ pc[p] = "grow"
        /\ a[p] < end[p] /\ a[p] \in Nat /\ end[p] \in Nat /\ sz[p] \in Nat /\ sz2[p] \in Nat
        /\ Aligned(a[p]) /\ np[p] = 0 /\ sz[p] > 0
    BY Known DEF GrowFail, At, Local, Slot
  <1>1. Shape' /\ \A q \in Slots : q # p => Same(q)
    BY <1>0 DEF Shape, Same, GrowFail, Return
  <1>2. /\ pgdir'[p] = [pgdir[p] EXCEPT !.map = kept]
        /\ free' = free + (Cardinality(pgdir[p].map) - Cardinality(kept))
        /\ pc'[p] = "user" /\ np'[p] = np[p]
        /\ a'[p] = 0 /\ old'[p] = 0 /\ end'[p] = 0 /\ nseg'[p] = 0 /\ seg'[p] = Nothing
        /\ UNCHANGED <<state, sz, sz2, kstack, new, panic, lost, tidy>>
    BY <1>0 DEF Shape, GrowFail, Return, kfree
  <1>3. kept \in SUBSET pgdir[p].map
    BY DEF Undone
  <1>. HIDE DEF kept
  <1>4. pgdir'[p] \in Tables /\ pgdir'[p].map = kept /\ Paid(Held(p), Held(p)')
    BY <1>0, <1>2, <1>3, TakeBack
  <1>5. Typed(p)'
    BY <1>0, <1>2, <1>4, SlotsAssumption, AlignedEnds DEF Typed
  <1>6. Growing(p)
    BY <1>0 DEF Local
  <1>7. Slot(p)'
    BY <1>0, <1>2, AlignedEnds DEF Local, Slot
  <1>8. Image(p)'
    <2>. SUFFICES ASSUME tidy[p]
                  PROVE  kept = Pages(PGSIZE, sz[p]) \cup Pages(sz2[p], USERTOP) /\ sz[p] <= sz2[p]
      BY <1>2, <1>4 DEF Image, Settled
    <2>. DEFINE r == PGROUNDUP(sz[p])
    <2>1. /\ Aligned(r) /\ r \in Nat /\ sz[p] <= r /\ r < sz[p] + PGSIZE
          /\ \A y : Aligned(y) /\ sz[p] <= y => r <= y
      BY <1>0, RoundUp
    <2>2. kept = pgdir[p].map \ Pages(r, end[p])
      BY <1>0, <1>6 DEF kept, Undone, Growing
    <2>. HIDE DEF r
    <2>3. r <= a[p]
      BY <1>0, <1>6, <2>1 DEF Growing
    <2>4. PGSIZE <= r
      <3>1. 0 < r
        BY <1>0, <2>1
      <3>. QED  BY <2>1, <3>1, FirstPage
    <2>5. pgdir[p].map = Pages(PGSIZE, a[p]) \cup Pages(sz2[p], USERTOP) /\ end[p] <= sz2[p] /\ sz[p] <= end[p]
          /\ a[p] < end[p] + PGSIZE
      BY <1>0, <1>6 DEF Growing
    <2>6. Pages(PGSIZE, sz[p]) = Pages(PGSIZE, r)
      BY <1>0, <2>1, PagesRound, AlignedEnds
    <2>7. (Pages(PGSIZE, a[p]) \cup Pages(sz2[p], USERTOP)) \ Pages(r, end[p]) = Pages(PGSIZE, r) \cup Pages(sz2[p], USERTOP)
      <3>1. Aligned(a[p]) /\ Aligned(r) /\ end[p] \in Nat /\ sz2[p] \in Nat
        BY <1>0, <2>1
      <3>. QED  BY <2>3, <2>4, <2>5, <3>1, PagesCut
    <2>8. sz[p] <= sz2[p]
      BY <1>0, <2>5
    <2>. QED  BY <2>2, <2>5, <2>6, <2>7, <2>8
  <1>9. Growing(p)' /\ InExec(p)' /\ InStack(p)' /\ InCopy(p)' /\ InCopyStack(p)'
    BY <1>2 DEF Growing, InExec, InStack, InCopy, InCopyStack
  <1>10. Local(p)'
    BY <1>7, <1>8, <1>9 DEF Local
  <1>. QED  BY <1>0, <1>1, <1>2, <1>4, <1>5, <1>10, OneSlot

\* The heap grows by a page.
LEMMA GrowPageStep ==
  ASSUME Inv, NEW p \in Slots, GrowPage(p)
  PROVE  Inv'
  <1>0. /\ Shape /\ Typed(p) /\ Local(p) /\ ~panic /\ state[p] = "RUNNABLE" /\ pc[p] = "grow"
        /\ a[p] < end[p] /\ a[p] \in Nat /\ end[p] \in Nat /\ end[p] <= USERTOP /\ sz[p] \in Nat /\ sz2[p] \in Nat
        /\ Aligned(a[p]) /\ kalloc /\ sz[p] > 0 /\ Growing(p)
        /\ PGSIZE \in Nat /\ PGSIZE > 0 /\ USERTOP \in Nat
    BY Known, AlignedEnds DEF GrowPage, At, Local, Slot
  <1>1. PGSIZE <= a[p]
    <2>1. 0 < a[p]
      BY <1>0 DEF Growing
    <2>. QED  BY <1>0, <2>1, FirstPage
  <1>2. a[p] \notin Pages(PGSIZE, a[p]) /\ Pages(PGSIZE, a[p] + PGSIZE) = Pages(PGSIZE, a[p]) \cup {a[p]}
    BY <1>0, <1>1, PagesUp
  <1>3. CASE a[p] \in pgdir[p].map
    <2>1. Explained(p)
      <3>1. tidy[p] => a[p] \in Pages(PGSIZE, a[p]) \/ a[p] \in Pages(sz2[p], USERTOP)
        BY <1>0, <1>3 DEF Growing
      <3>2. tidy[p] => a[p] \notin Pages(sz2[p], USERTOP)
        BY <1>0, InPages DEF Growing
      <3>. QED  BY <1>2, <3>1, <3>2 DEF Explained
    <2>2. panic' = TRUE /\ UNCHANGED <<memory, call, new, lost, tidy>>
      BY <1>3 DEF GrowPage, memory, call
    <2>. QED  BY <1>0, <2>1, <2>2, PanicStep
  <1>4. CASE a[p] \notin pgdir[p].map
    <2>1. Shape' /\ \A q \in Slots : q # p => Same(q)
      BY <1>0, <1>4 DEF Shape, Same, GrowPage
    <2>2. /\ pgdir'[p] = [pgdir[p] EXCEPT !.map = pgdir[p].map \cup {a[p]}]
          /\ a'[p] = a[p] + PGSIZE
          /\ UNCHANGED <<state, sz, sz2, kstack, pc, old, end, nseg, seg, np, new, panic, lost, tidy>>
      BY <1>0, <1>4 DEF Shape, GrowPage
    <2>3. a[p] \in Pages(0, USERTOP)
      BY <1>0, InPages
    <2>4. pgdir'[p] \in Tables /\ pgdir'[p].map = pgdir[p].map \cup {a[p]} /\ Paid(Held(p), Held(p)')
      BY <1>0, <1>4, <2>2, <2>3, MapOne
    <2>5. Aligned(a'[p]) /\ a'[p] <= USERTOP /\ a'[p] \in Nat
      BY <1>0, <2>2, AlignedNext, AlignedGap, AlignedEnds
    <2>6. Typed(p)'
      BY <1>0, <2>2, <2>4, <2>5 DEF Typed
    <2>7. Slot(p)'
      BY <1>0, <2>2, <2>5 DEF Local, Slot
    <2>8. Growing(p)'
      <3>1. sz[p] <= a'[p] /\ a'[p] < end[p] + PGSIZE
        BY <1>0, <2>2 DEF Growing
      <3>2. tidy[p] => pgdir'[p].map = Pages(PGSIZE, a'[p]) \cup Pages(sz2[p], USERTOP)
        BY <1>0, <1>2, <2>2, <2>4 DEF Growing
      <3>. QED  BY <1>0, <2>2, <3>1, <3>2 DEF Growing
    <2>9. InExec(p)' /\ InStack(p)' /\ InCopy(p)' /\ InCopyStack(p)' /\ Image(p)'
      BY <1>0, <2>2 DEF InExec, InStack, InCopy, InCopyStack, Image, Settled
    <2>10. Local(p)'
      BY <2>7, <2>8, <2>9 DEF Local
    <2>. QED  BY <1>0, <2>1, <2>2, <2>4, <2>6, <2>10, OneSlot
  <1>. QED  BY <1>3, <1>4

-----------------------------------------------------------------------------
(* page faults and exit *)

\* The end of a process.
LEMMA ExitStep ==
  ASSUME Inv, NEW p \in Slots, exit(p)
  PROVE  Inv'
  <1>0. Shape /\ Typed(p) /\ Local(p) /\ ~panic /\ state[p] = "RUNNABLE" /\ pc[p] = "user"
    BY Known DEF exit, User, At
  <1>1. Shape' /\ \A q \in Slots : q # p => Same(q)
    BY <1>0 DEF Shape, Same, exit, call
  <1>2. /\ state'[p] = "ZOMBIE"
        /\ UNCHANGED <<free, sz, sz2, pgdir, kstack, pc, a, old, end, nseg, seg, np, new, panic, lost, tidy>>
    BY <1>0 DEF Shape, exit, call
  <1>3. Typed(p)'
    BY <1>0, <1>2 DEF Typed
  <1>4. Slot(p)'
    BY <1>0, <1>2 DEF Local, Slot
  <1>5. Growing(p)' /\ InExec(p)' /\ InStack(p)' /\ InCopy(p)' /\ InCopyStack(p)' /\ Image(p)'
    BY <1>0, <1>2 DEF Growing, InExec, InStack, InCopy, InCopyStack, Image, Settled
  <1>6. Paid(Held(p), Held(p)')
    <2>1. Held(p)' = Held(p)
      BY <1>2 DEF Held
    <2>. QED  BY <1>0, <1>2, <2>1, Known DEF Paid
  <1>7. Local(p)'
    BY <1>4, <1>5 DEF Local
  <1>. QED  BY <1>0, <1>1, <1>2, <1>3, <1>6, <1>7, OneSlot

\* The stack grows by a page.
LEMMA FaultGrowStep ==
  ASSUME Inv, NEW p \in Slots, FaultGrow(p)
  PROVE  Inv'
  <1>. DEFINE page == sz2[p] - PGSIZE
  <1>0. /\ Shape /\ Typed(p) /\ Local(p) /\ ~panic /\ state[p] = "RUNNABLE" /\ pc[p] = "user" /\ kalloc
        /\ sz[p] \in Nat /\ sz2[p] \in Nat /\ Aligned(sz2[p]) /\ sz2[p] < USERTOP
        /\ sz2[p] > sz[p] + 2 * PGSIZE /\ PGSIZE \in Nat /\ PGSIZE > 0 /\ USERTOP \in Nat
    BY Known, AlignedEnds DEF FaultGrow, User, At, Apart
  <1>1. page \in Nat /\ PGSIZE <= sz2[p] /\ page > sz[p] /\ page < sz2[p] /\ page < USERTOP
    BY <1>0
  <1>2. Aligned(page)
    BY <1>0, <1>1, AlignedNext
  <1>3. Pages(page, USERTOP) = Pages(sz2[p], USERTOP) \cup {page} /\ page \notin Pages(sz2[p], USERTOP)
    BY <1>0, <1>1, PagesDown
  <1>4. page \in Pages(0, USERTOP) /\ page \notin Pages(PGSIZE, sz[p])
    <2>. HIDE DEF page
    <2>. QED  BY <1>0, <1>1, <1>2, InPages
  <1>5. CASE page \in pgdir[p].map
    <2>1. Explained(p)
      BY <1>0, <1>3, <1>4, <1>5 DEF Explained, Local, Image, Settled
    <2>2. panic' = TRUE /\ UNCHANGED <<memory, call, new, lost, tidy>>
      BY <1>5 DEF FaultGrow, memory, call
    <2>. QED  BY <1>0, <2>1, <2>2, PanicStep
  <1>6. CASE page \notin pgdir[p].map
    <2>1. Shape' /\ \A q \in Slots : q # p => Same(q)
      BY <1>0, <1>6 DEF Shape, Same, FaultGrow, call
    <2>2. /\ pgdir'[p] = [pgdir[p] EXCEPT !.map = pgdir[p].map \cup {page}]
          /\ sz2'[p] = page
          /\ UNCHANGED <<state, sz, kstack, pc, a, old, end, nseg, seg, np, new, panic, lost, tidy>>
      BY <1>0, <1>6 DEF Shape, FaultGrow, call
    <2>. HIDE DEF page
    <2>3. pgdir'[p] \in Tables /\ pgdir'[p].map = pgdir[p].map \cup {page} /\ Paid(Held(p), Held(p)')
      BY <1>0, <1>4, <1>6, <2>2, MapOne
    <2>4. Typed(p)'
      BY <1>0, <1>4, <2>2, <2>3 DEF Typed
    <2>5. Slot(p)'
      BY <1>0, <2>2 DEF Local, Slot
    <2>6. Image(p)'
      <3>1. tidy[p] => pgdir'[p].map = Pages(PGSIZE, sz[p]) \cup Pages(page, USERTOP)
        BY <1>0, <1>3, <2>3 DEF Local, Image, Settled
      <3>2. sz[p] <= page
        BY <1>0, <1>1
      <3>. QED  BY <2>2, <3>1, <3>2 DEF Image, Settled
    <2>7. Growing(p)' /\ InExec(p)' /\ InStack(p)' /\ InCopy(p)' /\ InCopyStack(p)'
      BY <1>0, <2>2 DEF Growing, InExec, InStack, InCopy, InCopyStack
    <2>8. Local(p)'
      BY <2>5, <2>6, <2>7 DEF Local
    <2>. QED  BY <1>0, <2>1, <2>2, <2>3, <2>4, <2>8, OneSlot
  <1>. QED  BY <1>5, <1>6

\* A fault that cannot be served ends the process.
LEMMA FaultKillStep ==
  ASSUME Inv, NEW p \in Slots, FaultKill(p)
  PROVE  Inv'
  <1>. DEFINE kept == IF Apart(sz2[p], sz[p])
                        THEN Undone(pgdir[p].map, sz2[p] - PGSIZE, sz2[p]) ELSE pgdir[p].map
  <1>0. Shape /\ Typed(p) /\ Local(p) /\ ~panic /\ state[p] = "RUNNABLE" /\ pc[p] = "user"
    BY Known DEF FaultKill, User, At
  <1>1. Shape' /\ \A q \in Slots : q # p => Same(q)
    BY <1>0 DEF Shape, Same, FaultKill, call
  <1>2. /\ pgdir'[p] = [pgdir[p] EXCEPT !.map = kept] /\ state'[p] = "ZOMBIE"
        /\ free' = free + (Cardinality(pgdir[p].map) - Cardinality(kept))
        /\ UNCHANGED <<sz, sz2, kstack, pc, a, old, end, nseg, seg, np, new, panic, lost, tidy>>
    BY <1>0 DEF Shape, FaultKill, kfree, call
  <1>3. kept \in SUBSET pgdir[p].map
    BY DEF Undone
  <1>. HIDE DEF kept
  <1>4. pgdir'[p] \in Tables /\ Paid(Held(p), Held(p)')
    BY <1>0, <1>2, <1>3, TakeBack
  <1>5. Typed(p)'
    BY <1>0, <1>2, <1>4 DEF Typed
  <1>6. Slot(p)'
    BY <1>0, <1>2 DEF Local, Slot
  <1>7. Growing(p)' /\ InExec(p)' /\ InStack(p)' /\ InCopy(p)' /\ InCopyStack(p)' /\ Image(p)'
    BY <1>0, <1>2 DEF Growing, InExec, InStack, InCopy, InCopyStack, Image, Settled
  <1>8. Local(p)'
    BY <1>6, <1>7 DEF Local
  <1>. QED  BY <1>0, <1>1, <1>2, <1>4, <1>5, <1>8, OneSlot

-----------------------------------------------------------------------------
(* setupkvm *)

\* A page for the kernel's part of a new table.
LEMMA SetupPageStep ==
  ASSUME Inv, NEW p \in Slots, SetupPage(p)
  PROVE  Inv'
  <1>0. /\ Shape /\ Typed(p) /\ Local(p) /\ ~panic /\ state[p] = "RUNNABLE" /\ pc[p] \in {"exec", "copy"}
        /\ kalloc /\ new[p].kvm < KvmPages /\ new[p] \in Tables /\ pgdir[p] \in Tables
        /\ free \in Nat /\ lost \in Nat /\ panic \in BOOLEAN /\ kstack[p] \in Nat
    BY Known DEF SetupPage, At, Typed
  <1>1. Shape' /\ \A q \in Slots : q # p => Same(q)
    BY <1>0 DEF Shape, Same, SetupPage, call, memory
  <1>2. /\ new'[p] = [new[p] EXCEPT !.kvm = new[p].kvm + 1]
        /\ UNCHANGED <<state, sz, sz2, pgdir, kstack, pc, a, old, end, nseg, seg, np, panic, lost, tidy>>
    BY <1>0 DEF Shape, SetupPage, call, memory
  <1>3. new'[p] \in Tables /\ new'[p].kvm = new[p].kvm + 1 /\ new'[p].map = new[p].map
    <2>1. new[p].kvm + 1 \in 0..KvmPages
      BY <1>0, TableSizes, MemoryAssumption
    <2>. QED  BY <1>0, <1>2, <2>1 DEF Tables
  <1>4. Paid(Held(p), Held(p)')
    <2>1. TableSize(new[p]) = new[p].kvm + Cardinality(new[p].map) /\ new[p].kvm \in Nat
          /\ Cardinality(new[p].map) \in Nat /\ TableSize(pgdir[p]) \in Nat
      BY <1>0, TableSizes
    <2>2. TableSize(new'[p]) = new'[p].kvm + Cardinality(new'[p].map)
      BY <1>3, TableSizes
    <2>3. free' \in Nat /\ free' + lost' + Held(p)' = free + lost + Held(p)
      BY <1>0, <1>2, <1>3, <2>1, <2>2 DEF Held, kalloc
    <2>. QED  BY <1>0, <1>2, <2>3 DEF Paid
  <1>5. Typed(p)'
    BY <1>0, <1>2, <1>3 DEF Typed
  <1>6. Slot(p)'
    BY <1>0, <1>2 DEF Local, Slot
  <1>7. InExec(p)' /\ InCopy(p)'
    BY <1>0, <1>2, <1>3 DEF Local, InExec, InCopy
  <1>8. Growing(p)' /\ InStack(p)' /\ InCopyStack(p)' /\ Image(p)'
    BY <1>0, <1>2 DEF Local, Growing, InStack, InCopyStack, Image, Settled
  <1>9. Local(p)'
    BY <1>6, <1>7, <1>8 DEF Local
  <1>. QED  BY <1>0, <1>1, <1>2, <1>4, <1>5, <1>9, OneSlot

-----------------------------------------------------------------------------
(* exec *)

\* A step that leaves the tables alone moves no page.
LEMMA NothingMoves ==
  ASSUME Inv, NEW p \in Slots, UNCHANGED <<free, lost, panic, pgdir, new, kstack>>
  PROVE  Paid(Held(p), Held(p)')
  <1>1. Held(p)' = Held(p)
    BY DEF Held
  <1>. QED  BY <1>1, Known DEF Paid

\* The start of exec.
LEMMA ExecStep ==
  ASSUME Inv, NEW p \in Slots, exec(p)
  PROVE  Inv'
  <1>0. Shape /\ Typed(p) /\ Local(p) /\ ~panic /\ state[p] = "RUNNABLE" /\ pc[p] = "user"
    BY Known DEF exec, At
  <1>1. Shape' /\ \A q \in Slots : q # p => Same(q)
    BY <1>0 DEF Shape, Same, exec, Goto, StartAlloc, memory
  <1>2. PGROUNDUP(PGSIZE) = PGSIZE
    <2>1. PGSIZE \in Nat /\ Aligned(PGSIZE) /\ PGSIZE <= PGSIZE /\ PGSIZE < PGSIZE + PGSIZE
      BY AlignedEnds
    <2>. QED  BY <2>1, RoundUp
  <1>3. /\ pc'[p] = "exec" /\ a'[p] = PGSIZE /\ old'[p] = PGSIZE /\ end'[p] = PGSIZE
        /\ UNCHANGED <<free, state, sz, sz2, pgdir, kstack, nseg, seg, np, new, panic, lost, tidy>>
    BY <1>0, <1>2 DEF Shape, exec, Goto, StartAlloc, memory
  <1>4. Typed(p)'
    BY <1>0, <1>3, AlignedEnds DEF Typed
  <1>5. Slot(p)'
    BY <1>0, <1>3, AlignedEnds DEF Local, Slot
  <1>6. InExec(p)'
    <2>1. new[p].map = {}
      BY <1>0 DEF Local, Slot, NoTable
    <2>2. Pages(PGSIZE, PGSIZE) = {}
      BY PagesNone, AlignedEnds
    <2>3. seg'[p] = Nothing
      BY <1>0, <1>3 DEF Local, Slot
    <2>. QED  BY <1>3, <2>1, <2>2, <2>3, AlignedEnds DEF InExec, Nothing
  <1>7. Growing(p)' /\ InStack(p)' /\ InCopy(p)' /\ InCopyStack(p)' /\ Image(p)'
    BY <1>0, <1>3 DEF Local, Growing, InStack, InCopy, InCopyStack, Image, Settled
  <1>8. Paid(Held(p), Held(p)')
    BY <1>3, NothingMoves
  <1>9. Local(p)'
    BY <1>5, <1>6, <1>7 DEF Local
  <1>. QED  BY <1>0, <1>1, <1>3, <1>4, <1>8, <1>9, OneSlot

\* Where exec has loaded all of a segment, it stands at the end of it, rounded up.
LEMMA SegmentEnd ==
  ASSUME Inv, NEW p \in Slots, pc[p] = "exec", a[p] >= end[p]
  PROVE  a[p] = PGROUNDUP(end[p])
  <1>1. end[p] \in Nat /\ a[p] \in Nat /\ Aligned(a[p]) /\ InExec(p)
    BY Known DEF Local
  <1>2. end[p] <= a[p] /\ a[p] < end[p] + PGSIZE
    BY <1>1 DEF InExec
  <1>. QED  BY <1>1, <1>2, RoundUp

\* The next segment.
LEMMA SegmentStep ==
  ASSUME Inv, NEW p \in Slots, NEW s \in Segments, Segment(p, s)
  PROVE  Inv'
  <1>0. /\ Shape /\ Typed(p) /\ Local(p) /\ ~panic /\ state[p] = "RUNNABLE" /\ pc[p] = "exec"
        /\ a[p] >= end[p] /\ end[p] \in Nat /\ a[p] \in Nat /\ s \in Headers /\ s.filesz <= s.memsz
        /\ nseg[p] < MaxSegments /\ PGSIZE \in Nat /\ USERTOP \in Nat /\ AddrSpace \in Nat /\ AddrSpace > USERTOP
    BY Known, ArgumentsAssumption, AlignedEnds, SpaceAssumption DEF Segment, Loading, At
  <1>. DEFINE newsz == (end[p] + s.va + s.memsz) % AddrSpace
              to == IF newsz < end[p] THEN end[p] ELSE newsz
  <1>a. s.va \in Nat /\ s.memsz \in Nat /\ end[p] <= USERTOP
    BY <1>0, Known DEF Headers, Addresses
  <1>b. newsz \in Nat /\ newsz <= USERTOP
    BY <1>0, <1>a DEF Segment
  <1>c. end[p] + s.va + s.memsz < AddrSpace => newsz = end[p] + s.va + s.memsz
    BY <1>0, <1>a
  <1>. HIDE DEF newsz
  <1>d. /\ to \in 0..USERTOP /\ end[p] <= to
        /\ end[p] + s.va + s.memsz < AddrSpace => to = end[p] + s.va + s.memsz
    BY <1>0, <1>a, <1>b, <1>c
  <1>1. a[p] = PGROUNDUP(end[p])
    BY <1>0, SegmentEnd
  <1>2. Shape' /\ \A q \in Slots : q # p => Same(q)
    BY <1>0 DEF Shape, Same, Segment, StartAlloc, memory
  <1>3. /\ a'[p] = a[p] /\ old'[p] = end[p] /\ end'[p] = to /\ nseg'[p] = nseg[p] + 1 /\ seg'[p] = s
        /\ UNCHANGED <<free, state, sz, sz2, pgdir, kstack, pc, np, new, panic, lost, tidy>>
    BY <1>0, <1>1 DEF Shape, Segment, StartAlloc, memory, newsz
  <1>. HIDE DEF to
  <1>4. Typed(p)'
    <2>1. nseg'[p] \in 0..MaxSegments /\ end'[p] \in 0..USERTOP
      BY <1>0, <1>3, <1>d, SlotsAssumption DEF Typed
    <2>. QED  BY <1>0, <1>3, <2>1 DEF Typed
  <1>5. Slot(p)'
    BY <1>0, <1>3 DEF Local, Slot
  <1>6. InExec(p)'
    <2>1. a[p] < end'[p] + PGSIZE
      BY <1>0, <1>3, <1>d DEF Local, InExec
    <2>. QED  BY <1>0, <1>3, <1>d, <2>1 DEF Local, InExec
  <1>7. Growing(p)' /\ InStack(p)' /\ InCopy(p)' /\ InCopyStack(p)' /\ Image(p)'
    BY <1>0, <1>3 DEF Local, Growing, InStack, InCopy, InCopyStack, Image, Settled
  <1>8. Paid(Held(p), Held(p)')
    BY <1>3, NothingMoves
  <1>9. Local(p)'
    BY <1>5, <1>6, <1>7 DEF Local
  <1>. QED  BY <1>0, <1>2, <1>3, <1>4, <1>8, <1>9, OneSlot

\* The pages a segment is loaded into are mapped, unless it is a misfit.
LEMMA FitLoads ==
  ASSUME Inv, NEW p \in Slots, pc[p] = "exec", a[p] >= end[p], seg[p] # Nothing, ~Misfit(p)
  PROVE  Loadable(p, seg[p])
  <1>. DEFINE s == seg[p]
  <1>0. /\ Typed(p) /\ InExec(p) /\ a[p] \in Nat /\ end[p] \in Nat /\ old[p] \in Nat /\ a[p] <= USERTOP
        /\ PGSIZE \in Nat /\ PGSIZE > 0 /\ USERTOP \in Nat /\ AddrSpace \in Nat
    BY Known, AlignedEnds, SpaceAssumption DEF Local
  <1>1. s \in Headers
    BY <1>0, ArgumentsAssumption DEF Typed
  <1>2. s.va \in Nat /\ s.memsz \in Nat /\ s.filesz \in Nat /\ s.filesz <= s.memsz
    BY <1>0, <1>1 DEF InExec, Headers, Addresses
  <1>3. s.va % PGSIZE = 0
    BY DEF Misfit
  <1>4. ASSUME NEW x \in Loaded(s) PROVE x \in new[p].map
    <2>1. PICK i \in 0..s.filesz-1 : i % PGSIZE = 0 /\ x = (s.va + i) % AddrSpace
      BY <1>4 DEF Loaded
    <2>2. s.filesz > 0 /\ PGSIZE <= s.va /\ old[p] + s.va + s.memsz < AddrSpace
      BY <1>0, <1>2, <2>1 DEF Misfit
    <2>3. end[p] = old[p] + s.va + s.memsz
      BY <1>0, <2>2 DEF InExec
    <2>. HIDE DEF s
    <2>4. x = s.va + i /\ i \in Nat /\ x \in Nat
      BY <1>0, <1>2, <2>1, <2>2
    <2>5. PGSIZE <= x /\ x < a[p] /\ x < USERTOP
      BY <1>0, <1>2, <2>1, <2>2, <2>3, <2>4
    <2>6. Aligned(x)
      <3>. DEFINE k == s.va \div PGSIZE
                  m == i \div PGSIZE
      <3>1. Aligned(s.va) /\ Aligned(i)
        BY <1>2, <1>3, <2>1, <2>4 DEF Aligned
      <3>2. s.va = PGSIZE * k /\ k \in Int /\ i = PGSIZE * m /\ m \in Int
        BY <1>2, <2>4, <3>1, AlignedIs
      <3>. HIDE DEF k, m
      <3>3. x = PGSIZE * (k + m) /\ k + m \in Int
        BY <1>0, <2>4, <3>2
      <3>. QED  BY <2>4, <3>3, AlignedIs, Zenon
    <2>. QED  BY <1>0, <2>5, <2>6, InPages DEF InExec
  <1>. QED  BY <1>3, <1>4 DEF Loadable

\* The contents of a segment are read in, or loaduvm stops on a misfit.
LEMMA LoadStep ==
  ASSUME Inv, NEW p \in Slots, Load(p)
  PROVE  Inv'
  <1>0. /\ Shape /\ Typed(p) /\ Local(p) /\ ~panic /\ state[p] = "RUNNABLE" /\ pc[p] = "exec"
        /\ a[p] >= end[p] /\ seg[p] # Nothing
    BY Known DEF Load, Loading, At
  <1>1. CASE ~Loadable(p, seg[p])
    <2>1. Explained(p)
      BY <1>0, <1>1, FitLoads DEF Explained
    <2>2. panic' = TRUE /\ free' = free /\ UNCHANGED <<memory, call, new, lost, tidy>>
      BY <1>1 DEF Load, memory, call
    <2>. QED  BY <1>0, <2>1, <2>2, PanicStep
  <1>2. CASE Loadable(p, seg[p])
    <2>1. Shape' /\ \A q \in Slots : q # p => Same(q)
      BY <1>0, <1>2 DEF Shape, Same, Load, memory
    <2>2. /\ seg'[p] = Nothing
          /\ UNCHANGED <<free, state, sz, sz2, pgdir, kstack, pc, a, old, end, nseg, np, new, panic, lost, tidy>>
      BY <1>0, <1>2 DEF Shape, Load, memory
    <2>3. Typed(p)'
      BY <1>0, <2>2 DEF Typed
    <2>4. Slot(p)' /\ Growing(p)' /\ InStack(p)' /\ InCopy(p)' /\ InCopyStack(p)' /\ Image(p)'
      BY <1>0, <2>2 DEF Local, Slot, Growing, InStack, InCopy, InCopyStack, Image, Settled
    <2>5. InExec(p)'
      BY <1>0, <2>2 DEF Local, InExec, Nothing
    <2>6. Paid(Held(p), Held(p)')
      BY <2>2, NothingMoves
    <2>7. Local(p)'
      BY <2>4, <2>5 DEF Local
    <2>. QED  BY <1>0, <2>1, <2>2, <2>3, <2>6, <2>7, OneSlot
  <1>. QED  BY <1>1, <1>2

\* The program is loaded, the stack page comes next.
LEMMA ExecStackStep ==
  ASSUME Inv, NEW p \in Slots, ExecStack(p)
  PROVE  Inv'
  <1>0. /\ Shape /\ Typed(p) /\ Local(p) /\ ~panic /\ state[p] = "RUNNABLE" /\ pc[p] = "exec"
        /\ a[p] >= end[p] /\ end[p] \in Nat /\ a[p] \in Nat /\ a[p] <= USERTOP /\ Aligned(a[p])
        /\ seg[p] = Nothing
    BY Known DEF ExecStack, Loading, At
  <1>1. a[p] = PGROUNDUP(end[p])
    BY <1>0, SegmentEnd
  <1>2. Shape' /\ \A q \in Slots : q # p => Same(q)
    BY <1>0 DEF Shape, Same, ExecStack, Goto, memory
  <1>3. /\ a'[p] = USERTOP - PGSIZE /\ old'[p] = a[p] /\ end'[p] = USERTOP /\ pc'[p] = "stack"
        /\ UNCHANGED <<free, state, sz, sz2, pgdir, kstack, nseg, seg, np, new, panic, lost, tidy>>
    BY <1>0, <1>1 DEF Shape, ExecStack, Goto, memory
  <1>4. Typed(p)'
    <2>1. a'[p] \in 0..USERTOP /\ end'[p] \in 0..USERTOP
      BY <1>3, AlignedEnds
    <2>. QED  BY <1>0, <1>3, <2>1 DEF Typed
  <1>5. Slot(p)'
    BY <1>0, <1>3, AlignedEnds DEF Local, Slot
  <1>6. InStack(p)'
    <2>1. new[p].map = Pages(PGSIZE, a[p]) /\ PGSIZE <= a[p]
      BY <1>0 DEF Local, InExec
    <2>2. Pages(USERTOP - PGSIZE, USERTOP - PGSIZE) = {} /\ USERTOP - PGSIZE # USERTOP
      BY PagesNone, AlignedEnds DEF Aligned
    <2>. QED  BY <1>0, <1>3, <2>1, <2>2 DEF InStack
  <1>7. Growing(p)' /\ InExec(p)' /\ InCopy(p)' /\ InCopyStack(p)' /\ Image(p)'
    BY <1>0, <1>3 DEF Local, Growing, InExec, InCopy, InCopyStack, Image, Settled
  <1>8. Paid(Held(p), Held(p)')
    BY <1>3, NothingMoves
  <1>9. Local(p)'
    BY <1>5, <1>6, <1>7 DEF Local
  <1>. QED  BY <1>0, <1>2, <1>3, <1>4, <1>8, <1>9, OneSlot

\* A page of the program or of its stack.
LEMMA ExecPageStep ==
  ASSUME Inv, NEW p \in Slots, ExecPage(p)
  PROVE  Inv'
  <1>0. /\ Shape /\ Typed(p) /\ Local(p) /\ ~panic /\ state[p] = "RUNNABLE" /\ pc[p] \in {"exec", "stack"}
        /\ a[p] < end[p] /\ a[p] \in Nat /\ end[p] \in Nat /\ end[p] <= USERTOP
        /\ Aligned(a[p]) /\ kalloc /\ old[p] \in Nat
        /\ PGSIZE \in Nat /\ PGSIZE > 0 /\ USERTOP \in Nat /\ USERTOP >= 3 * PGSIZE
    BY Known, AlignedEnds DEF ExecPage, Loading, At
  <1>1. pc[p] = "exec" => new[p].kvm = KvmPages
    BY <1>0 DEF ExecPage, Loading, At
  <1>2. a[p] \notin Pages(PGSIZE, a[p])
    BY <1>0, InPages
  <1>3. pc[p] = "stack" => a[p] = USERTOP - PGSIZE /\ new[p].map = Pages(PGSIZE, old[p])
    <2>1. Pages(USERTOP - PGSIZE, USERTOP - PGSIZE) = {}
      BY <1>0, PagesNone
    <2>2. pc[p] = "stack" => a[p] = USERTOP - PGSIZE
      BY <1>0 DEF Local, InStack
    <2>. QED  BY <1>0, <2>1, <2>2 DEF Local, InStack
  <1>4. CASE a[p] \in new[p].map
    <2>1. Explained(p)
      <3>1. pc[p] = "stack"
        BY <1>0, <1>2, <1>4 DEF Local, InExec
      <3>2. a[p] < old[p]
        BY <1>3, <1>4, <3>1, InPages
      <3>. QED  BY <1>0, <1>3, <3>1, <3>2 DEF Explained
    <2>2. panic' = TRUE /\ UNCHANGED <<memory, call, new, lost, tidy>>
      BY <1>4 DEF ExecPage, memory, call
    <2>. QED  BY <1>0, <2>1, <2>2, PanicStep
  <1>5. CASE a[p] \notin new[p].map
    <2>1. Shape' /\ \A q \in Slots : q # p => Same(q)
      BY <1>0, <1>5 DEF Shape, Same, ExecPage, memory
    <2>2. /\ new'[p] = [new[p] EXCEPT !.map = new[p].map \cup {a[p]}]
          /\ a'[p] = a[p] + PGSIZE
          /\ UNCHANGED <<state, sz, sz2, pgdir, kstack, pc, old, end, nseg, seg, np, panic, lost, tidy>>
      BY <1>0, <1>5 DEF Shape, ExecPage, memory
    <2>3. a[p] \in Pages(0, USERTOP)
      BY <1>0, InPages
    <2>4. /\ new'[p] \in Tables /\ new'[p].kvm = new[p].kvm /\ new'[p].map = new[p].map \cup {a[p]}
          /\ Paid(Held(p), Held(p)')
      BY <1>0, <1>5, <2>2, <2>3, NewOne
    <2>5. Aligned(a'[p]) /\ a'[p] <= USERTOP /\ a'[p] \in Nat
      BY <1>0, <2>2, AlignedNext, AlignedGap, AlignedEnds
    <2>6. Typed(p)'
      BY <1>0, <2>2, <2>4, <2>5 DEF Typed
    <2>7. Slot(p)'
      BY <1>0, <2>2, <2>5 DEF Local, Slot
    <2>8. InExec(p)'
      <3>. SUFFICES ASSUME pc[p] = "exec" PROVE InExec(p)'
        BY <2>2 DEF InExec
      <3>1. InExec(p) /\ PGSIZE <= a[p] /\ new[p].map = Pages(PGSIZE, a[p])
        BY <1>0 DEF Local, InExec
      <3>2. Pages(PGSIZE, a[p] + PGSIZE) = Pages(PGSIZE, a[p]) \cup {a[p]}
        BY <1>0, <3>1, PagesUp
      <3>3. PGSIZE <= a'[p] /\ a'[p] < end[p] + PGSIZE
        BY <1>0, <2>2, <3>1
      <3>4. ~(new'[p].kvm < KvmPages)
        BY <1>1, <2>4, MemoryAssumption
      <3>. QED  BY <2>2, <2>4, <3>1, <3>2, <3>3, <3>4 DEF InExec
    <2>9. InStack(p)'
      <3>. SUFFICES ASSUME pc[p] = "stack" PROVE InStack(p)'
        BY <1>0, <2>2 DEF InStack
      <3>1. a'[p] = USERTOP /\ InStack(p)
        BY <1>0, <1>3, <2>2 DEF Local
      <3>2. PGSIZE <= old[p] /\ Aligned(old[p]) /\ end[p] = USERTOP
        BY <3>1 DEF InStack
      <3>3. old[p] <= USERTOP - PGSIZE
        <4>1. ASSUME a[p] < old[p] PROVE FALSE
          <5>1. a[p] \in Pages(PGSIZE, old[p])
            BY <1>0, <1>3, <4>1, InPages
          <5>. QED  BY <5>1, <1>3, <1>5
        <4>. QED  BY <1>0, <1>3, <4>1
      <3>4. Pages(a[p], a[p] + PGSIZE) = Pages(a[p], a[p]) \cup {a[p]} /\ Pages(a[p], a[p]) = {}
        BY <1>0, PagesUp, PagesNone
      <3>5. new'[p].map = Pages(PGSIZE, old[p]) \cup Pages(USERTOP - PGSIZE, a'[p])
        BY <1>3, <2>2, <2>4, <3>4
      <3>. QED  BY <2>2, <3>1, <3>2, <3>3, <3>5 DEF InStack
    <2>10. Growing(p)' /\ InCopy(p)' /\ InCopyStack(p)' /\ Image(p)'
      BY <1>0, <2>2 DEF Local, Growing, InCopy, InCopyStack, Image, Settled
    <2>11. Local(p)'
      BY <2>7, <2>8, <2>9, <2>10 DEF Local
    <2>. QED  BY <1>0, <2>1, <2>2, <2>4, <2>6, <2>11, OneSlot
  <1>. QED  BY <1>4, <1>5

\* sz2 is set for the image to come.
LEMMA ExecArgsStep ==
  ASSUME Inv, NEW p \in Slots, ExecArgs(p)
  PROVE  Inv'
  <1>0. /\ Shape /\ Typed(p) /\ Local(p) /\ ~panic /\ state[p] = "RUNNABLE" /\ pc[p] = "stack"
        /\ a[p] >= end[p] /\ a[p] \in Nat
        /\ PGSIZE \in Nat /\ PGSIZE > 0 /\ USERTOP \in Nat /\ USERTOP >= 3 * PGSIZE
    BY Known, AlignedEnds DEF ExecArgs, At
  <1>1. a[p] = USERTOP /\ InStack(p)
    BY <1>0 DEF Local, InStack
  <1>2. Shape' /\ \A q \in Slots : q # p => Same(q)
    BY <1>0 DEF Shape, Same, ExecArgs, Goto, Untidy
  <1>3. /\ sz2'[p] = USERTOP - PGSIZE /\ pc'[p] = "args"
        /\ tidy'[p] = (tidy[p] /\ ~(sz2[p] # USERTOP - PGSIZE))
        /\ UNCHANGED <<free, state, sz, pgdir, kstack, a, old, end, nseg, seg, np, new, panic, lost>>
    BY <1>0 DEF Shape, ExecArgs, Goto, Untidy
  <1>4. Typed(p)'
    <2>1. sz2'[p] \in Pages(0, USERTOP)
      BY <1>0, <1>3, InPages, AlignedEnds
    <2>2. tidy'[p] \in BOOLEAN
      BY <1>0, <1>3
    <2>. QED  BY <1>0, <1>3, <2>1, <2>2 DEF Typed
  <1>5. Slot(p)'
    BY <1>0, <1>3 DEF Local, Slot
  <1>6. InStack(p)'
    BY <1>0, <1>1, <1>3 DEF InStack
  <1>7. Image(p)'
    <2>1. tidy'[p] => tidy[p] /\ sz2'[p] = sz2[p]
      BY <1>3
    <2>. QED  BY <1>0, <1>3, <2>1 DEF Local, Image, Settled
  <1>8. Growing(p)' /\ InExec(p)' /\ InCopy(p)' /\ InCopyStack(p)'
    BY <1>3 DEF Growing, InExec, InCopy, InCopyStack
  <1>9. Paid(Held(p), Held(p)')
    BY <1>3, NothingMoves
  <1>10. Local(p)'
    BY <1>5, <1>6, <1>7, <1>8 DEF Local
  <1>. QED  BY <1>0, <1>2, <1>3, <1>4, <1>9, <1>10, OneSlot

\* A failed exec frees the table it was building.
LEMMA ExecBadStep ==
  ASSUME Inv, NEW p \in Slots, ExecBad(p)
  PROVE  Inv'
  <1>0. /\ Shape /\ Typed(p) /\ Local(p) /\ ~panic /\ state[p] = "RUNNABLE"
        /\ pc[p] \in {"exec", "stack", "args"} /\ np[p] = 0
    BY Known DEF ExecBad, Loading, At, Local, Slot
  <1>1. Shape' /\ \A q \in Slots : q # p => Same(q)
    BY <1>0 DEF Shape, Same, ExecBad, Return, memory
  <1>2. /\ free' = free + TableSize(new[p]) /\ new'[p] = NoTable /\ pc'[p] = "user" /\ np'[p] = np[p]
        /\ a'[p] = 0 /\ old'[p] = 0 /\ end'[p] = 0 /\ nseg'[p] = 0 /\ seg'[p] = Nothing
        /\ UNCHANGED <<state, sz, sz2, pgdir, kstack, panic, lost, tidy>>
    BY <1>0 DEF Shape, ExecBad, Return, memory, kfree, Freed
  <1>3. Typed(p)'
    BY <1>0, <1>2, SlotsAssumption, AlignedEnds, TableSizes DEF Typed
  <1>4. Slot(p)'
    BY <1>0, <1>2, AlignedEnds DEF Local, Slot
  <1>5. Growing(p)' /\ InExec(p)' /\ InStack(p)' /\ InCopy(p)' /\ InCopyStack(p)' /\ Image(p)'
    BY <1>0, <1>2 DEF Local, Growing, InExec, InStack, InCopy, InCopyStack, Image, Settled
  <1>6. Paid(Held(p), Held(p)')
    <2>1. TableSize(new[p]) \in Nat /\ TableSize(pgdir[p]) \in Nat /\ TableSize(new'[p]) = 0
          /\ kstack[p] \in Nat /\ free \in Nat /\ lost \in Nat /\ panic \in BOOLEAN
      BY <1>0, <1>2, TableSizes, Known DEF Typed
    <2>2. free' \in Nat /\ free' + lost' + Held(p)' = free + lost + Held(p)
      BY <1>2, <2>1 DEF Held
    <2>. QED  BY <1>0, <1>2, <2>1, <2>2 DEF Paid
  <1>7. Local(p)'
    BY <1>4, <1>5 DEF Local
  <1>. QED  BY <1>0, <1>1, <1>2, <1>3, <1>6, <1>7, OneSlot

\* The new image takes the place of the old one.
LEMMA ExecCommitStep ==
  ASSUME Inv, NEW p \in Slots, ExecCommit(p)
  PROVE  Inv'
  <1>0. /\ Shape /\ Typed(p) /\ Local(p) /\ ~panic /\ state[p] = "RUNNABLE"
        /\ pc[p] = "args" /\ np[p] = 0 /\ InStack(p) /\ old[p] \in Nat
    BY Known DEF ExecCommit, At, Local, Slot
  <1>1. Shape' /\ \A q \in Slots : q # p => Same(q)
    BY <1>0 DEF Shape, Same, ExecCommit, Return
  <1>2. /\ free' = free + TableSize(pgdir[p]) /\ pgdir'[p] = new[p] /\ new'[p] = NoTable
        /\ pc'[p] = "user" /\ np'[p] = np[p] /\ sz'[p] = old[p] /\ tidy'[p] = TRUE
        /\ a'[p] = 0 /\ old'[p] = 0 /\ end'[p] = 0 /\ nseg'[p] = 0 /\ seg'[p] = Nothing
        /\ UNCHANGED <<state, sz2, kstack, panic, lost>>
    BY <1>0 DEF Shape, ExecCommit, Return, kfree, Freed
  <1>3. Typed(p)'
    <2>1. pgdir'[p] \in Tables /\ new'[p] \in Tables /\ sz'[p] \in 0..USERTOP /\ tidy'[p] \in BOOLEAN
      BY <1>0, <1>2, TableSizes DEF Typed
    <2>2. 0 \in 0..USERTOP /\ 0 \in 0..MaxSegments
      BY SlotsAssumption, AlignedEnds
    <2>. QED  BY <1>0, <1>2, <2>1, <2>2 DEF Typed
  <1>4. Slot(p)'
    <2>1. old[p] > 0
      BY <1>0, AlignedEnds DEF InStack
    <2>. QED  BY <1>0, <1>2, <2>1, AlignedEnds DEF Local, Slot
  <1>5. Image(p)'
    BY <1>0, <1>2 DEF InStack, Image, Settled
  <1>6. Growing(p)' /\ InExec(p)' /\ InStack(p)' /\ InCopy(p)' /\ InCopyStack(p)'
    BY <1>2 DEF Growing, InExec, InStack, InCopy, InCopyStack
  <1>7. Paid(Held(p), Held(p)')
    <2>1. TableSize(new[p]) \in Nat /\ TableSize(pgdir[p]) \in Nat /\ TableSize(new'[p]) = 0
          /\ kstack[p] \in Nat /\ free \in Nat /\ lost \in Nat /\ panic \in BOOLEAN
      BY <1>0, <1>2, TableSizes, Known DEF Typed
    <2>2. free' \in Nat /\ free' + lost' + Held(p)' = free + lost + Held(p)
      BY <1>2, <2>1 DEF Held
    <2>. QED  BY <1>0, <1>2, <2>1, <2>2 DEF Paid
  <1>8. Local(p)'
    BY <1>4, <1>5, <1>6 DEF Local
  <1>. QED  BY <1>0, <1>1, <1>2, <1>3, <1>7, <1>8, OneSlot

-----------------------------------------------------------------------------
(* fork and wait *)

\* The child a fork is making.
LEMMA Child ==
  ASSUME Inv, NEW p \in Slots, pc[p] \in {"copy", "copystack"}
  PROVE  /\ np[p] \in Slots /\ np[p] # 0 /\ state[np[p]] = "EMBRYO" /\ state[p] = "RUNNABLE" /\ np[p] # p
         /\ kstack[np[p]] = 1 /\ pgdir[np[p]] = NoTable /\ new[np[p]] = NoTable /\ pc[np[p]] = "user"
         /\ np[np[p]] = 0 /\ \A q \in Slots : np[q] = np[p] => q = p
  <1>1. Typed(p) /\ Local(p)
    BY Known
  <1>2. np[p] # 0 /\ np[p] \in Slots /\ state[p] = "RUNNABLE"
    BY <1>1 DEF Typed, Local, Slot
  <1>3. state[np[p]] = "EMBRYO" /\ \A q \in Slots : np[q] = np[p] => q = p
    BY <1>2 DEF Inv, Children
  <1>4. Local(np[p])
    BY <1>2, Known
  <1>. QED  BY <1>2, <1>3, <1>4 DEF Local, Slot

\* The end of a fork: the parent returns and the child's slot is in use or free.
LEMMA ForkEnds ==
  ASSUME Inv, ~panic, NEW p \in Slots, pc[p] \in {"copy", "copystack"}, NEW c \in Slots, c = np[p],
         Shape', \A q \in Slots : q # p /\ q # c => Same(q),
         Typed(p)', Local(p)', Typed(c)', Local(c)',
         np'[p] = 0, np'[c] = 0, state'[p] = "RUNNABLE",
         Paid(Held(p) + Held(c), Held(p)' + Held(c)'), ~panic'
  PROVE  Inv'
  <1>0. c # p /\ \A q \in Slots : np[q] = c => q = p
    BY Child
  <1>1. Children'
    <2>1. ASSUME NEW q \in Slots, np'[q] # 0 PROVE q # p /\ q # c /\ np'[q] = np[q] /\ np[q] # c /\ np[q] # p
      <3>1. q # p /\ q # c /\ np'[q] = np[q]
        BY <2>1 DEF Same
      <3>2. state[np[q]] = "EMBRYO" /\ state[p] = "RUNNABLE"
        BY <2>1, <3>1, Child DEF Inv, Children
      <3>. QED  BY <1>0, <3>1, <3>2
    <2>2. ASSUME NEW q \in Slots, np'[q] # 0 PROVE state'[np'[q]] = "EMBRYO"
      <3>1. Typed(q)
        BY Known
      <3>2. np[q] \in Slots /\ state[np[q]] = "EMBRYO"
        BY <2>1, <2>2, <3>1 DEF Typed, Inv, Children
      <3>. QED  BY <2>1, <2>2, <3>2 DEF Same
    <2>3. ASSUME NEW q \in Slots, NEW r \in Slots, np'[q] # 0, np'[q] = np'[r] PROVE q = r
      BY <2>1, <2>3 DEF Inv, Children
    <2>. QED  BY <2>2, <2>3 DEF Children
  <1>. QED  BY <1>0, <1>1, TwoSlots

\* allocproc for the child.
LEMMA ForkStep ==
  ASSUME Inv, NEW p \in Slots, fork(p)
  PROVE  Inv'
  <1>0. /\ Shape /\ Typed(p) /\ Local(p) /\ ~panic /\ state[p] = "RUNNABLE" /\ pc[p] = "user" /\ sz2[p] # 0
        /\ free \in Nat /\ lost \in Nat /\ panic \in BOOLEAN /\ kalloc
    BY Known DEF fork, User, At
  <1>1. PICK s \in Slots : /\ state[s] = "UNUSED" /\ state' = [state EXCEPT ![s] = "EMBRYO"]
                           /\ kstack' = [kstack EXCEPT ![s] = 1] /\ np' = [np EXCEPT ![p] = s]
    BY DEF fork
  <1>2. s # p /\ Typed(s) /\ Local(s) /\ s # 0
    BY <1>0, <1>1, Known, SlotsAssumption DEF Slots
  <1>3. Shape' /\ \A q \in Slots : q # p /\ q # s => Same(q)
    BY <1>0, <1>1 DEF Shape, Same, fork, Goto
  <1>4. /\ pc'[p] = "copy" /\ a'[p] = PGSIZE /\ np'[p] = s /\ state'[p] = state[p] /\ kstack'[p] = kstack[p]
        /\ pc'[s] = pc[s] /\ a'[s] = a[s] /\ np'[s] = np[s] /\ state'[s] = "EMBRYO" /\ kstack'[s] = 1
        /\ UNCHANGED <<sz, sz2, pgdir, old, end, nseg, seg, new, panic, lost, tidy>>
    BY <1>0, <1>1, <1>2 DEF Shape, fork, Goto
  <1>5. Typed(p)' /\ Typed(s)'
    BY <1>0, <1>2, <1>4, AlignedEnds DEF Typed
  <1>6. Slot(p)' /\ Slot(s)'
    BY <1>0, <1>1, <1>2, <1>4, AlignedEnds DEF Local, Slot
  <1>7. InCopy(p)'
    <2>1. new[p].map = {}
      BY <1>0 DEF Local, Slot, NoTable
    <2>2. Pages(PGSIZE, PGSIZE) = {}
      BY PagesNone, AlignedEnds
    <2>. QED  BY <1>0, <1>4, <2>1, <2>2, AlignedEnds DEF InCopy
  <1>8. Growing(p)' /\ InExec(p)' /\ InStack(p)' /\ InCopyStack(p)' /\ Image(p)'
    BY <1>0, <1>4 DEF Local, Growing, InExec, InStack, InCopyStack, Image, Settled
  <1>9. pc[s] = "user"
    BY <1>1, <1>2 DEF Local, Slot
  <1>10. Growing(s)' /\ InExec(s)' /\ InStack(s)' /\ InCopy(s)' /\ InCopyStack(s)' /\ Image(s)'
    BY <1>4, <1>9 DEF Growing, InExec, InStack, InCopy, InCopyStack, Image, Settled
  <1>11. Local(p)' /\ Local(s)'
    BY <1>6, <1>7, <1>8, <1>10 DEF Local
  <1>12. Children'
    <2>1. ASSUME NEW q \in Slots, q # p, np'[q] # 0
          PROVE  np'[q] = np[q] /\ np[q] \in Slots /\ state[np[q]] = "EMBRYO" /\ np[q] # s
      <3>1. np'[q] = np[q] /\ Typed(q)
        BY <1>3, <1>4, <2>1, Known DEF Same
      <3>2. state[np[q]] = "EMBRYO" /\ np[q] \in Slots
        BY <2>1, <3>1 DEF Inv, Children, Typed
      <3>. QED  BY <1>1, <3>1, <3>2
    <2>2. ASSUME NEW q \in Slots, np'[q] # 0 PROVE state'[np'[q]] = "EMBRYO"
      <3>1. CASE q = p
        BY <1>4, <3>1
      <3>2. CASE q # p
        <4>1. np[q] \in Slots /\ state[np[q]] = "EMBRYO" /\ np[q] # s /\ np[q] # p /\ np'[q] = np[q]
          BY <1>0, <2>1, <2>2, <3>2
        <4>. QED  BY <4>1, <1>3 DEF Same
      <3>. QED  BY <3>1, <3>2
    <2>3. ASSUME NEW q \in Slots, NEW r \in Slots, np'[q] # 0, np'[q] = np'[r] PROVE q = r
      BY <1>4, <2>1, <2>3 DEF Inv, Children
    <2>. QED  BY <2>2, <2>3 DEF Children
  <1>13. Paid(Held(p) + Held(s), Held(p)' + Held(s)')
    <2>1. Held(p)' = Held(p) /\ Held(p) \in Nat
      BY <1>0, <1>4, HeldNat DEF Held
    <2>2. kstack[s] = 0 /\ TableSize(pgdir[s]) \in Nat /\ TableSize(new[s]) \in Nat
      BY <1>1, <1>2, TableSizes DEF Typed, Local, Slot
    <2>3. Held(s)' = Held(s) + 1 /\ Held(s) \in Nat
      BY <1>4, <2>2 DEF Held
    <2>4. free' \in Nat /\ free' = free - 1
      BY <1>0 DEF kalloc
    <2>5. free' + lost' + (Held(p)' + Held(s)') = free + lost + (Held(p) + Held(s))
      BY <1>0, <1>4, <2>1, <2>3, <2>4
    <2>. QED  BY <1>0, <1>4, <2>4, <2>5 DEF Paid
  <1>14. ~panic'
    BY <1>0, <1>4
  <1>. QED  BY <1>0, <1>2, <1>3, <1>5, <1>11, <1>12, <1>13, <1>14, TwoSlots

\* A page of the parent is copied.
LEMMA CopyPageStep ==
  ASSUME Inv, NEW p \in Slots, CopyPage(p)
  PROVE  Inv'
  <1>0. /\ Shape /\ Typed(p) /\ Local(p) /\ ~panic /\ state[p] = "RUNNABLE" /\ pc[p] \in {"copy", "copystack"}
        /\ a[p] \in Nat /\ Aligned(a[p]) /\ sz[p] \in Nat /\ sz2[p] \in Nat /\ sz[p] <= USERTOP
        /\ Aligned(sz2[p]) /\ PGSIZE \in Nat /\ PGSIZE > 0 /\ USERTOP \in Nat
    BY Known, AlignedEnds DEF CopyPage, CopyingHeap, CopyingStack, At
  <1>1. /\ pc[p] = "copy" => a[p] < sz[p] /\ new[p].kvm = KvmPages
        /\ pc[p] = "copystack" => a[p] < USERTOP
        /\ a[p] < USERTOP
    BY <1>0 DEF CopyPage, CopyingHeap, CopyingStack, At
  <1>2. pc[p] = "copy" => PGSIZE <= a[p] /\ new[p].map = Pages(PGSIZE, a[p])
    BY <1>0 DEF Local, InCopy
  <1>3. pc[p] = "copystack" => /\ sz2[p] <= a[p] /\ sz2[p] # 0
                               /\ new[p].map = Pages(PGSIZE, sz[p]) \cup Pages(sz2[p], a[p])
                               /\ (sz2[p] < a[p] => sz[p] <= sz2[p])
    BY <1>0 DEF Local, InCopyStack
  <1>4. a[p] \notin Pages(PGSIZE, a[p]) /\ a[p] \notin Pages(sz2[p], a[p])
    BY <1>0, InPages
  <1>5. CASE a[p] \notin pgdir[p].map \/ a[p] \in new[p].map
    <2>1. Explained(p)
      <3>. SUFFICES ASSUME tidy[p] PROVE FALSE
        BY DEF Explained
      <3>1. pgdir[p].map = Pages(PGSIZE, sz[p]) \cup Pages(sz2[p], USERTOP) /\ sz[p] <= sz2[p]
        BY <1>0 DEF Local, Image, Settled
      <3>2. CASE pc[p] = "copy"
        <4>1. a[p] \in Pages(PGSIZE, sz[p])
          BY <1>0, <1>1, <1>2, <3>2, InPages
        <4>. QED  BY <1>2, <1>4, <1>5, <3>1, <3>2, <4>1
      <3>3. CASE pc[p] = "copystack"
        <4>1. a[p] \in Pages(sz2[p], USERTOP)
          BY <1>0, <1>1, <1>3, <3>3, InPages
        <4>2. a[p] \notin Pages(PGSIZE, sz[p])
          BY <1>0, <1>3, <3>1, <3>3, InPages
        <4>. QED  BY <1>3, <1>4, <1>5, <3>1, <3>3, <4>1, <4>2
      <3>. QED  BY <1>0, <3>2, <3>3
    <2>2. panic' = TRUE /\ UNCHANGED <<memory, call, new, lost, tidy>> /\ free' = free
      BY <1>5 DEF CopyPage, memory, call
    <2>. QED  BY <1>0, <2>1, <2>2, PanicStep
  <1>6. CASE ~(a[p] \notin pgdir[p].map \/ a[p] \in new[p].map)
    <2>0. a[p] \notin new[p].map /\ kalloc
      BY <1>6 DEF CopyPage
    <2>1. Shape' /\ \A q \in Slots : q # p => Same(q)
      BY <1>0, <1>6 DEF Shape, Same, CopyPage, memory
    <2>2. /\ new'[p] = [new[p] EXCEPT !.map = new[p].map \cup {a[p]}]
          /\ a'[p] = a[p] + PGSIZE
          /\ UNCHANGED <<state, sz, sz2, pgdir, kstack, pc, old, end, nseg, seg, np, panic, lost, tidy>>
      BY <1>0, <1>6 DEF Shape, CopyPage, memory
    <2>3. a[p] \in Pages(0, USERTOP)
      BY <1>0, <1>1, InPages
    <2>4. /\ new'[p] \in Tables /\ new'[p].kvm = new[p].kvm /\ new'[p].map = new[p].map \cup {a[p]}
          /\ Paid(Held(p), Held(p)')
      BY <1>0, <2>0, <2>2, <2>3, NewOne
    <2>5. Aligned(a'[p]) /\ a'[p] <= USERTOP /\ a'[p] \in Nat
      BY <1>0, <1>1, <2>2, AlignedNext, AlignedGap, AlignedEnds
    <2>6. Typed(p)'
      BY <1>0, <2>2, <2>4, <2>5 DEF Typed
    <2>7. Slot(p)'
      BY <1>0, <2>2, <2>5 DEF Local, Slot
    <2>8. InCopy(p)'
      <3>. SUFFICES ASSUME pc[p] = "copy" PROVE InCopy(p)'
        BY <2>2 DEF InCopy
      <3>1. Pages(PGSIZE, a[p] + PGSIZE) = Pages(PGSIZE, a[p]) \cup {a[p]}
        BY <1>0, <1>1, <1>2, PagesUp
      <3>2. PGSIZE <= a'[p] /\ a'[p] < sz[p] + PGSIZE
        BY <1>0, <1>1, <1>2, <2>2
      <3>3. ~(new'[p].kvm < KvmPages)
        BY <1>1, <2>4, MemoryAssumption
      <3>. QED  BY <1>0, <1>2, <2>2, <2>4, <3>1, <3>2, <3>3 DEF Local, InCopy
    <2>9. InCopyStack(p)'
      <3>. SUFFICES ASSUME pc[p] = "copystack" PROVE InCopyStack(p)'
        BY <2>2 DEF InCopyStack
      <3>1. Pages(sz2[p], a[p] + PGSIZE) = Pages(sz2[p], a[p]) \cup {a[p]}
        BY <1>0, <1>1, <1>3, PagesUp
      <3>2. sz2[p] <= a'[p]
        BY <1>0, <1>3, <2>2
      <3>3. sz[p] <= sz2[p]
        <4>1. ASSUME sz[p] > sz2[p] PROVE FALSE
          <5>1. sz2[p] = a[p]
            BY <1>0, <1>3, <4>1
          <5>2. PGSIZE <= a[p]
            BY <1>0, <1>3, <5>1, FirstPage
          <5>3. a[p] \in Pages(PGSIZE, sz[p])
            BY <1>0, <1>1, <4>1, <5>1, <5>2, InPages
          <5>. QED  BY <1>3, <2>0, <5>3
        <4>. QED  BY <1>0, <4>1
      <3>4. new'[p].map = Pages(PGSIZE, sz[p]) \cup Pages(sz2[p], a'[p])
        BY <1>3, <2>2, <2>4, <3>1
      <3>. QED  BY <1>3, <2>2, <3>2, <3>3, <3>4 DEF InCopyStack
    <2>10. Growing(p)' /\ InExec(p)' /\ InStack(p)' /\ Image(p)'
      BY <1>0, <2>2 DEF Local, Growing, InExec, InStack, Image, Settled
    <2>11. Local(p)'
      BY <2>7, <2>8, <2>9, <2>10 DEF Local
    <2>. QED  BY <1>0, <2>1, <2>2, <2>4, <2>6, <2>11, OneSlot
  <1>. QED  BY <1>5, <1>6

\* The heap is copied, the stack is next.
LEMMA CopyHeapDoneStep ==
  ASSUME Inv, NEW p \in Slots, CopyHeapDone(p)
  PROVE  Inv'
  <1>0. /\ Shape /\ Typed(p) /\ Local(p) /\ ~panic /\ state[p] = "RUNNABLE" /\ pc[p] = "copy"
        /\ a[p] \in Nat /\ Aligned(a[p]) /\ sz[p] \in Nat /\ sz2[p] \in Nat /\ sz2[p] < USERTOP
        /\ Aligned(sz2[p]) /\ PGSIZE \in Nat /\ PGSIZE > 0 /\ USERTOP \in Nat /\ InCopy(p)
    BY Known, AlignedEnds DEF CopyHeapDone, At, Local
  <1>1. a[p] >= sz[p]
    BY <1>0 DEF CopyHeapDone, CopyingHeap, At
  <1>2. Shape' /\ \A q \in Slots : q # p => Same(q)
    BY <1>0 DEF Shape, Same, CopyHeapDone, Goto, memory
  <1>3. /\ a'[p] = sz2[p] /\ pc'[p] = "copystack"
        /\ UNCHANGED <<free, state, sz, sz2, pgdir, kstack, old, end, nseg, seg, np, new, panic, lost, tidy>>
    BY <1>0 DEF Shape, CopyHeapDone, Goto, memory
  <1>4. Typed(p)'
    BY <1>0, <1>3 DEF Typed
  <1>5. Slot(p)'
    BY <1>0, <1>3 DEF Local, Slot
  <1>6. InCopyStack(p)'
    <2>1. Pages(PGSIZE, sz[p]) = Pages(PGSIZE, a[p])
      <3>1. CASE a[p] = PGSIZE
        BY <1>0, <1>1, <3>1, PagesNone
      <3>2. CASE a[p] < sz[p] + PGSIZE
        BY <1>0, <1>1, <3>2, PagesRound
      <3>. QED  BY <1>0, <3>1, <3>2 DEF InCopy
    <2>2. Pages(sz2[p], sz2[p]) = {}
      BY <1>0, PagesNone
    <2>. QED  BY <1>0, <1>3, <2>1, <2>2 DEF InCopy, InCopyStack
  <1>7. Growing(p)' /\ InExec(p)' /\ InStack(p)' /\ InCopy(p)' /\ Image(p)'
    BY <1>0, <1>3 DEF Local, Growing, InExec, InStack, InCopy, Image, Settled
  <1>8. Paid(Held(p), Held(p)')
    BY <1>3, NothingMoves
  <1>9. Local(p)'
    BY <1>5, <1>6, <1>7 DEF Local
  <1>. QED  BY <1>0, <1>2, <1>3, <1>4, <1>8, <1>9, OneSlot

\* What a fork that fails leaves of the child: a free slot.
LEMMA ChildGone ==
  ASSUME Inv, NEW p \in Slots, pc[p] \in {"copy", "copystack"}, NEW c \in Slots, c = np[p],
         kstack'[c] = 0, state'[c] = "UNUSED", new'[c] = new[c],
         pc'[c] = pc[c], np'[c] = np[c], nseg'[c] = nseg[c], seg'[c] = seg[c],
         a'[c] = a[c], old'[c] = old[c], end'[c] = end[c],
         UNCHANGED <<sz, sz2, pgdir, tidy>>
  PROVE  Typed(c)' /\ Local(c)' /\ Held(c) = 1 /\ Held(c)' = 0
  <1>0. kstack[c] = 1 /\ pgdir[c] = NoTable /\ new[c] = NoTable /\ pc[c] = "user" /\ np[c] = 0
    BY Child
  <1>1. Typed(c) /\ Local(c)
    BY <1>0, Known
  <1>3. Typed(c)'
    BY <1>1 DEF Typed
  <1>4. Slot(c)'
    BY <1>0, <1>1 DEF Local, Slot
  <1>5. Growing(c)' /\ InExec(c)' /\ InStack(c)' /\ InCopy(c)' /\ InCopyStack(c)' /\ Image(c)'
    BY <1>0 DEF Growing, InExec, InStack, InCopy, InCopyStack, Image, Settled
  <1>6. Held(c) = 1 /\ Held(c)' = 0
    BY <1>0, TableSizes DEF Held
  <1>7. Local(c)'
    BY <1>4, <1>5 DEF Local
  <1>. QED  BY <1>3, <1>6, <1>7

\* What a call that fails leaves of the caller: the image it had.
LEMMA CallerReturns ==
  ASSUME Inv, NEW p \in Slots, state[p] = "RUNNABLE", pc[p] # "grow", state'[p] = state[p], kstack'[p] = kstack[p],
         new'[p] = NoTable, pc'[p] = "user", np'[p] = 0,
         a'[p] = 0, old'[p] = 0, end'[p] = 0, nseg'[p] = 0, seg'[p] = Nothing, UNCHANGED <<sz, sz2, pgdir, tidy>>
  PROVE  Typed(p)' /\ Local(p)' /\ Held(p) = Held(p)' + TableSize(new[p]) /\ Held(p)' \in Nat
  <1>1. Typed(p) /\ Local(p)
    BY Known
  <1>2. Typed(p)'
    BY <1>1, SlotsAssumption, AlignedEnds, TableSizes DEF Typed
  <1>3. Slot(p)'
    BY <1>1, AlignedEnds DEF Local, Slot
  <1>4. Growing(p)' /\ InExec(p)' /\ InStack(p)' /\ InCopy(p)' /\ InCopyStack(p)' /\ Image(p)'
    BY <1>1 DEF Local, Growing, InExec, InStack, InCopy, InCopyStack, Image, Settled
  <1>5. TableSize(pgdir[p]) \in Nat /\ TableSize(new[p]) \in Nat /\ TableSize(NoTable) = 0 /\ kstack[p] \in Nat
    BY <1>1, TableSizes DEF Typed
  <1>6. Held(p) = Held(p)' + TableSize(new[p]) /\ Held(p)' \in Nat
    BY <1>5 DEF Held
  <1>. QED  BY <1>2, <1>3, <1>4, <1>6 DEF Local

\* setupkvm runs out of memory, for exec or for fork.
LEMMA SetupFailStep ==
  ASSUME Inv, NEW p \in Slots, SetupFail(p)
  PROVE  Inv'
  <1>0. /\ Shape /\ Typed(p) /\ Local(p) /\ ~panic /\ state[p] = "RUNNABLE" /\ pc[p] \in {"exec", "copy"}
        /\ new[p].kvm < KvmPages /\ free = 0 /\ lost \in Nat /\ panic \in BOOLEAN
    BY Known DEF SetupFail, At
  <1>1. TableSize(new[p]) = new[p].kvm /\ new[p].kvm \in Nat
    <2>1. new[p].map = {}
      <3>1. Pages(PGSIZE, PGSIZE) = {}
        BY PagesNone, AlignedEnds
      <3>. QED  BY <1>0, <3>1 DEF Local, InExec, InCopy
    <2>2. TableSize(new[p]) = new[p].kvm + Cardinality(new[p].map) /\ new[p].kvm \in Nat
      BY <1>0, TableSizes DEF Typed
    <2>. QED  BY <2>1, <2>2, FS_EmptySet
  <1>2. /\ new'[p] = NoTable /\ pc'[p] = "user" /\ np'[p] = 0 /\ lost' = lost + new[p].kvm
        /\ a'[p] = 0 /\ old'[p] = 0 /\ end'[p] = 0 /\ nseg'[p] = 0 /\ seg'[p] = Nothing
        /\ UNCHANGED <<sz, sz2, pgdir, panic, tidy>>
    BY <1>0 DEF Shape, SetupFail, Return
  <1>3. CASE pc[p] = "exec"
    <2>1. Shape' /\ (\A q \in Slots : q # p => Same(q)) /\ UNCHANGED <<free, kstack, state>>
      BY <1>0, <1>3 DEF Shape, Same, SetupFail, Return
    <2>2. Typed(p)' /\ Local(p)' /\ Held(p) = Held(p)' + TableSize(new[p]) /\ Held(p)' \in Nat
      BY <1>0, <1>2, <1>3, <2>1, CallerReturns
    <2>3. Paid(Held(p), Held(p)')
      <3>1. lost' \in Nat /\ free' \in Nat /\ free' + lost' + Held(p)' = free + lost + Held(p)
        BY <1>0, <1>1, <1>2, <2>1, <2>2
      <3>. QED  BY <1>0, <1>2, <3>1 DEF Paid
    <2>4. np'[p] = np[p]
      BY <1>0, <1>2, <1>3 DEF Local, Slot
    <2>. QED  BY <1>0, <1>2, <2>1, <2>2, <2>3, <2>4, OneSlot
  <1>4. CASE pc[p] = "copy"
    <2>0. PICK c \in Slots : c = np[p] /\ c # p /\ np[c] = 0
      BY <1>4, Child
    <2>1. /\ free' = free + 1 /\ kstack' = [kstack EXCEPT ![c] = 0] /\ state' = [state EXCEPT ![c] = "UNUSED"]
      BY <1>4, <2>0 DEF SetupFail, kfree
    <2>2. Shape' /\ \A q \in Slots : q # p /\ q # c => Same(q)
      BY <1>0, <2>0, <2>1 DEF Shape, Same, SetupFail, Return
    <2>3. /\ kstack'[c] = 0 /\ state'[c] = "UNUSED" /\ new'[c] = new[c] /\ pc'[c] = pc[c] /\ np'[c] = np[c]
          /\ nseg'[c] = nseg[c] /\ seg'[c] = seg[c] /\ a'[c] = a[c] /\ old'[c] = old[c] /\ end'[c] = end[c]
          /\ kstack'[p] = kstack[p] /\ state'[p] = state[p]
      BY <1>0, <2>0, <2>1 DEF Shape, SetupFail, Return
    <2>4. Typed(p)' /\ Local(p)' /\ Held(p) = Held(p)' + TableSize(new[p]) /\ Held(p)' \in Nat
      BY <1>0, <1>2, <1>4, <2>3, CallerReturns
    <2>5. Typed(c)' /\ Local(c)' /\ Held(c) = 1 /\ Held(c)' = 0
      BY <1>2, <1>4, <2>0, <2>3, ChildGone
    <2>6. Paid(Held(p) + Held(c), Held(p)' + Held(c)')
      <3>1. /\ lost' \in Nat /\ free' \in Nat
            /\ free' + lost' + (Held(p)' + Held(c)') = free + lost + (Held(p) + Held(c))
        BY <1>0, <1>1, <1>2, <2>1, <2>4, <2>5
      <3>. QED  BY <1>0, <1>2, <3>1 DEF Paid
    <2>7. ~panic' /\ state'[p] = "RUNNABLE" /\ np'[c] = 0 /\ np'[p] = 0
      BY <1>0, <1>2, <2>0, <2>3
    <2>. QED  BY <1>0, <1>4, <2>0, <2>2, <2>4, <2>5, <2>6, <2>7, ForkEnds
  <1>. QED  BY <1>0, <1>3, <1>4

\* There is no memory for a copy, and all of it goes back.
LEMMA CopyFailStep ==
  ASSUME Inv, NEW p \in Slots, CopyFail(p)
  PROVE  Inv'
  <1>0. /\ Shape /\ Typed(p) /\ Local(p) /\ ~panic /\ state[p] = "RUNNABLE" /\ pc[p] \in {"copy", "copystack"}
        /\ free \in Nat /\ lost \in Nat /\ panic \in BOOLEAN /\ TableSize(new[p]) \in Nat
    BY Known, TableSizes DEF CopyFail, CopyingHeap, CopyingStack, At
  <1>1. PICK c \in Slots : c = np[p] /\ c # p /\ np[c] = 0
    BY <1>0, Child
  <1>2. kstack' = [kstack EXCEPT ![c] = 0] /\ state' = [state EXCEPT ![c] = "UNUSED"]
    BY <1>1 DEF CopyFail
  <1>3. Shape' /\ \A q \in Slots : q # p /\ q # c => Same(q)
    BY <1>0, <1>1, <1>2 DEF Shape, Same, CopyFail, Return
  <1>4. /\ kstack'[c] = 0 /\ state'[c] = "UNUSED" /\ new'[c] = new[c] /\ pc'[c] = pc[c] /\ np'[c] = np[c]
        /\ nseg'[c] = nseg[c] /\ seg'[c] = seg[c] /\ a'[c] = a[c] /\ old'[c] = old[c] /\ end'[c] = end[c]
        /\ kstack'[p] = kstack[p] /\ state'[p] = state[p]
    BY <1>0, <1>1, <1>2 DEF Shape, CopyFail, Return
  <1>5. /\ new'[p] = NoTable /\ pc'[p] = "user" /\ np'[p] = 0 /\ free' = free + (TableSize(new[p]) + 1)
        /\ a'[p] = 0 /\ old'[p] = 0 /\ end'[p] = 0 /\ nseg'[p] = 0 /\ seg'[p] = Nothing
        /\ UNCHANGED <<sz, sz2, pgdir, panic, lost, tidy>>
    BY <1>0 DEF Shape, CopyFail, Return, kfree, Freed
  <1>6. Typed(p)' /\ Local(p)' /\ Held(p) = Held(p)' + TableSize(new[p]) /\ Held(p)' \in Nat
    BY <1>0, <1>4, <1>5, CallerReturns
  <1>7. Typed(c)' /\ Local(c)' /\ Held(c) = 1 /\ Held(c)' = 0
    BY <1>0, <1>1, <1>4, <1>5, ChildGone
  <1>8. Paid(Held(p) + Held(c), Held(p)' + Held(c)')
    <2>1. free' \in Nat /\ free' + lost' + (Held(p)' + Held(c)') = free + lost + (Held(p) + Held(c))
      BY <1>0, <1>5, <1>6, <1>7
    <2>. QED  BY <1>0, <1>5, <2>1 DEF Paid
  <1>9. ~panic' /\ state'[p] = "RUNNABLE" /\ np'[c] = 0 /\ np'[p] = 0
    BY <1>0, <1>1, <1>4, <1>5
  <1>. QED  BY <1>0, <1>1, <1>3, <1>6, <1>7, <1>8, <1>9, ForkEnds

\* The child is ready and has the image of its parent.
LEMMA ForkDoneStep ==
  ASSUME Inv, NEW p \in Slots, ForkDone(p)
  PROVE  Inv'
  <1>0. /\ Shape /\ Typed(p) /\ Local(p) /\ ~panic /\ state[p] = "RUNNABLE" /\ pc[p] = "copystack"
        /\ free \in Nat /\ lost \in Nat /\ panic \in BOOLEAN
        /\ sz2[p] \in Nat /\ sz2[p] < USERTOP /\ sz[p] \in Nat
    BY Known DEF ForkDone, At
  <1>1. PICK c \in Slots : /\ c = np[p] /\ c # p /\ np[c] = 0 /\ kstack[c] = 1 /\ pgdir[c] = NoTable
                           /\ new[c] = NoTable /\ pc[c] = "user" /\ Typed(c) /\ Local(c)
    BY <1>0, Child, Known
  <1>2. a[p] = USERTOP
    BY <1>0, Known, AlignedEnds DEF ForkDone, CopyingStack, At
  <1>3. /\ pgdir' = [pgdir EXCEPT ![c] = new[p]]
        /\ sz' = [sz EXCEPT ![c] = sz[p]] /\ sz2' = [sz2 EXCEPT ![c] = sz2[p]]
        /\ state' = [state EXCEPT ![c] = "RUNNABLE"] /\ tidy' = [tidy EXCEPT ![c] = TRUE]
    BY <1>1 DEF ForkDone
  <1>4. Shape' /\ \A q \in Slots : q # p /\ q # c => Same(q)
    BY <1>0, <1>1, <1>3 DEF Shape, Same, ForkDone, Return
  <1>5. /\ pgdir'[c] = new[p] /\ sz'[c] = sz[p] /\ sz2'[c] = sz2[p] /\ state'[c] = "RUNNABLE" /\ tidy'[c] = TRUE
        /\ new'[c] = new[c] /\ pc'[c] = pc[c] /\ np'[c] = np[c] /\ kstack'[c] = kstack[c]
        /\ nseg'[c] = nseg[c] /\ seg'[c] = seg[c] /\ a'[c] = a[c] /\ old'[c] = old[c] /\ end'[c] = end[c]
    BY <1>0, <1>1, <1>3 DEF Shape, ForkDone, Return
  <1>6. /\ pgdir'[p] = pgdir[p] /\ sz'[p] = sz[p] /\ sz2'[p] = sz2[p] /\ state'[p] = state[p]
        /\ tidy'[p] = tidy[p] /\ kstack'[p] = kstack[p] /\ new'[p] = NoTable /\ pc'[p] = "user" /\ np'[p] = 0
        /\ a'[p] = 0 /\ old'[p] = 0 /\ end'[p] = 0 /\ nseg'[p] = 0 /\ seg'[p] = Nothing /\ UNCHANGED <<free, panic, lost>>
    BY <1>0, <1>1, <1>3 DEF Shape, ForkDone, Return
  <1>7. Typed(p)'
    BY <1>0, <1>6, SlotsAssumption, AlignedEnds, TableSizes DEF Typed
  <1>8. Slot(p)'
    BY <1>0, <1>6, AlignedEnds DEF Local, Slot
  <1>9. Growing(p)' /\ InExec(p)' /\ InStack(p)' /\ InCopy(p)' /\ InCopyStack(p)' /\ Image(p)'
    BY <1>0, <1>6 DEF Local, Growing, InExec, InStack, InCopy, InCopyStack, Image, Settled
  <1>10. Typed(c)'
    <2>1. /\ pgdir'[c] \in Tables /\ sz'[c] \in 0..USERTOP /\ sz2'[c] \in Pages(0, USERTOP)
          /\ tidy'[c] \in BOOLEAN
      BY <1>0, <1>5 DEF Typed
    <2>. QED  BY <1>1, <1>5, <2>1 DEF Typed
  <1>11. Slot(c)'
    BY <1>0, <1>1, <1>5 DEF Local, Slot
  <1>12. Image(c)'
    BY <1>0, <1>2, <1>5 DEF Local, InCopyStack, Image, Settled
  <1>13. Growing(c)' /\ InExec(c)' /\ InStack(c)' /\ InCopy(c)' /\ InCopyStack(c)'
    BY <1>1, <1>5 DEF Growing, InExec, InStack, InCopy, InCopyStack
  <1>14. Local(p)' /\ Local(c)'
    BY <1>8, <1>9, <1>11, <1>12, <1>13 DEF Local
  <1>15. Paid(Held(p) + Held(c), Held(p)' + Held(c)')
    <2>1. /\ TableSize(pgdir[p]) \in Nat /\ TableSize(new[p]) \in Nat /\ TableSize(NoTable) = 0
          /\ kstack[p] \in Nat
      BY <1>0, TableSizes DEF Typed
    <2>2. free' + lost' + (Held(p)' + Held(c)') = free + lost + (Held(p) + Held(c))
      BY <1>0, <1>1, <1>5, <1>6, <2>1 DEF Held
    <2>. QED  BY <1>0, <1>6, <2>2 DEF Paid
  <1>16. ~panic' /\ state'[p] = "RUNNABLE" /\ np'[c] = 0 /\ np'[p] = 0
    BY <1>0, <1>1, <1>5, <1>6
  <1>. QED  BY <1>0, <1>1, <1>4, <1>7, <1>10, <1>14, <1>15, <1>16, ForkEnds

\* A parent takes up a zombie.
LEMMA WaitStep ==
  ASSUME Inv, NEW p \in Slots, wait(p)
  PROVE  Inv'
  <1>1. PICK z \in Slots : /\ state[z] = "ZOMBIE" /\ kfree(kstack[z] + Freed(pgdir[z]))
                           /\ kstack' = [kstack EXCEPT ![z] = 0] /\ pgdir' = [pgdir EXCEPT ![z] = NoTable]
                           /\ state' = [state EXCEPT ![z] = "UNUSED"] /\ tidy' = [tidy EXCEPT ![z] = TRUE]
    BY DEF wait
  <1>0. /\ Shape /\ Typed(z) /\ Local(z) /\ ~panic /\ free \in Nat /\ lost \in Nat /\ panic \in BOOLEAN
        /\ pc[z] = "user" /\ new[z] = NoTable
    BY <1>1, Known DEF wait, User, At, Local, Slot
  <1>2. Shape' /\ \A q \in Slots : q # z => Same(q)
    BY <1>0, <1>1 DEF Shape, Same, wait, call
  <1>3. /\ state'[z] = "UNUSED" /\ kstack'[z] = 0 /\ pgdir'[z] = NoTable /\ tidy'[z] = TRUE
        /\ free' = free + (kstack[z] + TableSize(pgdir[z]))
        /\ UNCHANGED <<sz, sz2, pc, a, old, end, nseg, seg, np, new, panic, lost>>
    BY <1>0, <1>1 DEF Shape, wait, call, kfree, Freed
  <1>4. Typed(z)'
    <2>1. pgdir'[z] \in Tables /\ tidy'[z] \in BOOLEAN
      BY <1>3, TableSizes
    <2>. QED  BY <1>0, <1>3, <2>1 DEF Typed
  <1>5. Slot(z)'
    BY <1>0, <1>1, <1>3 DEF Local, Slot
  <1>6. Growing(z)' /\ InExec(z)' /\ InStack(z)' /\ InCopy(z)' /\ InCopyStack(z)' /\ Image(z)'
    BY <1>0, <1>3 DEF Growing, InExec, InStack, InCopy, InCopyStack, Image, Settled
  <1>7. Paid(Held(z), Held(z)')
    <2>1. TableSize(pgdir[z]) \in Nat /\ TableSize(new[z]) = 0 /\ TableSize(NoTable) = 0 /\ kstack[z] \in Nat
      BY <1>0, TableSizes DEF Typed
    <2>2. free' \in Nat /\ free' + lost' + Held(z)' = free + lost + Held(z)
      BY <1>0, <1>3, <2>1 DEF Held
    <2>. QED  BY <1>0, <1>3, <2>2 DEF Paid
  <1>8. Local(z)'
    BY <1>5, <1>6 DEF Local
  <1>9. np'[z] = np[z] /\ (state'[z] = "EMBRYO" <=> state[z] = "EMBRYO") /\ (panic' => Explained(z)')
    BY <1>0, <1>1, <1>3
  <1>. QED  BY <1>0, <1>2, <1>4, <1>7, <1>8, <1>9, OneSlot

-----------------------------------------------------------------------------
(* the invariant holds *)

\* The state userinit makes.
LEMMA InitInv == Init => Inv
  <1>. SUFFICES ASSUME Init PROVE Inv
    OBVIOUS
  <1>0. /\ 1 \in Slots /\ PGSIZE \in Nat /\ PGSIZE > 0 /\ USERTOP \in Nat /\ USERTOP >= 3 * PGSIZE
        /\ KvmPages \in Nat /\ Memory \in Nat /\ Memory > KvmPages + 2
    BY SlotsAssumption, AlignedEnds, MemoryAssumption DEF Slots
  <1>1. 0 \in Pages(0, USERTOP)
    BY <1>0, InPages, AlignedEnds
  <1>. DEFINE t == [kvm |-> KvmPages, map |-> {0}]
  <1>2. t \in Tables /\ NoTable \in Tables /\ TableSize(t) = KvmPages + 1 /\ TableSize(NoTable) = 0
    <2>1. t \in Tables
      BY <1>0, <1>1 DEF Tables
    <2>2. Cardinality({0}) = 1
      BY FS_Singleton
    <2>3. TableSize(t) = KvmPages + 1
      BY <2>2 DEF TableSize
    <2>. QED  BY <2>1, <2>3, TableSizes
  <1>3. ASSUME NEW p \in Slots
        PROVE  /\ state[p] = IF p = 1 THEN "RUNNABLE" ELSE "UNUSED"
               /\ sz[p] = IF p = 1 THEN PGSIZE ELSE 0
               /\ sz2[p] = 0 /\ pgdir[p] = (IF p = 1 THEN t ELSE NoTable) /\ new[p] = NoTable
               /\ kstack[p] = (IF p = 1 THEN 1 ELSE 0) /\ pc[p] = "user" /\ np[p] = 0
               /\ a[p] = 0 /\ old[p] = 0 /\ end[p] = 0 /\ nseg[p] = 0 /\ seg[p] = Nothing /\ tidy[p] = (p # 1)
    BY DEF Init
  <1>4. Shape /\ panic = FALSE /\ lost = 0 /\ free = Memory - KvmPages - 2
    BY DEF Init, Shape
  <1>. HIDE DEF t
  <1>5. ASSUME NEW p \in Slots PROVE Typed(p)
    <2>1. tidy[p] \in BOOLEAN /\ pgdir[p] \in Tables /\ new[p] \in Tables
      <3>1. tidy[p] = (p # 1) /\ new[p] = NoTable /\ pgdir[p] = IF p = 1 THEN t ELSE NoTable
        BY <1>3
      <3>2. pgdir[p] \in Tables /\ new[p] \in Tables
        BY <1>2, <3>1
      <3>3. tidy[p] \in BOOLEAN
        BY <3>1
      <3>. QED  BY <3>2, <3>3
    <2>2. sz[p] \in 0..USERTOP /\ kstack[p] \in 0..1 /\ nseg[p] \in 0..MaxSegments
      BY <1>0, <1>3, SlotsAssumption
    <2>. QED  BY <1>0, <1>1, <1>3, <2>1, <2>2 DEF Typed
  <1>6. ASSUME NEW p \in Slots PROVE Local(p)
    <2>1. Slot(p)
      BY <1>0, <1>3, AlignedEnds DEF Slot
    <2>2. Growing(p) /\ InExec(p) /\ InStack(p) /\ InCopy(p) /\ InCopyStack(p)
      BY <1>3 DEF Growing, InExec, InStack, InCopy, InCopyStack
    <2>3. Image(p)
      BY <1>3 DEF Image, Settled
    <2>. QED  BY <2>1, <2>2, <2>3 DEF Local
  <1>7. TypeOK
    <2>1. free \in 0..Memory /\ lost \in 0..Memory /\ panic \in BOOLEAN
      <3>1. free \in 0..Memory /\ lost \in 0..Memory
        BY <1>0, <1>4
      <3>. QED  BY <1>4, <3>1
    <2>. QED  BY <1>4, <1>5, <2>1, TypesAre
  <1>8. Total = KvmPages + 2
    <2>. DEFINE f == [p \in Slots |-> 0]
                e == [p \in Slots |-> Held(p)]
    <2>1. f \in [Slots -> Nat] /\ \A p \in Slots : f[p] = 0
      OBVIOUS
    <2>2. e \in [Slots -> Nat] /\ DOMAIN e = Slots
      BY <1>5, HeldNat
    <2>3. /\ \A p \in Slots : p # 1 => e[p] = 0
          /\ e[1] = KvmPages + 2
      BY <1>0, <1>2, <1>3 DEF Held
    <2>4. Total = SumFunctionOnSet(e, Slots)
      BY DEF Total, SumFunction
    <2>. HIDE DEF f, e
    <2>5. SumFunctionOnSet(f, Slots) = 0
      BY <2>1, SumNat, SlotsFinite
    <2>6. SumFunctionOnSet(e, Slots) = (SumFunctionOnSet(f, Slots) - f[1]) + e[1]
      BY <1>0, <2>1, <2>2, <2>3, SumChange, SlotsFinite
    <2>. QED  BY <1>0, <2>1, <2>3, <2>4, <2>5, <2>6
  <1>9. Balance
    BY <1>0, <1>4, <1>8 DEF Balance, Total
  <1>10. Children
    BY <1>3 DEF Children
  <1>. QED  BY <1>4, <1>6, <1>7, <1>9, <1>10 DEF Inv

\* Every step preserves the invariant.
LEMMA NextInv == Inv /\ [Next]_vars => Inv'
  <1>. SUFFICES ASSUME Inv, [Next]_vars PROVE Inv'
    OBVIOUS
  <1>1. CASE UNCHANGED vars
    <2>1. Shape' /\ \A p \in Slots : Same(p)
      BY <1>1, TypesAre DEF Inv, Shape, Same, vars, memory, call
    <2>2. \A p \in Slots : Typed(p)' /\ Local(p)' /\ Held(p)' = Held(p)
      BY <2>1, Known, SameSlot
    <2>3. UNCHANGED <<free, lost, panic, state, np, tidy, pc, old, seg>>
      BY <1>1 DEF vars, memory, call
    <2>4. TypeOK'
      <3>1. (/\ free \in 0..Memory /\ lost \in 0..Memory /\ panic \in BOOLEAN
             /\ Shape /\ \A p \in Slots : Typed(p))' => TypeOK'
        BY TypesAre, PTL
      <3>2. free \in 0..Memory /\ lost \in 0..Memory /\ panic \in BOOLEAN
        BY DEF Inv, TypeOK
      <3>. QED  BY <2>1, <2>2, <2>3, <3>1, <3>2
    <2>5. Balance'
      BY <1>1 DEF Inv, Balance, Held, vars, memory
    <2>6. Children' /\ (panic => \E p \in Slots : Explained(p))'
      BY <2>3 DEF Inv, Children, Explained, Misfit
    <2>. QED  BY <2>2, <2>4, <2>5, <2>6 DEF Inv
  <1>2. CASE \E p \in Slots : \E n \in Increments : Grow(p, n) \/ Shrink(p, n)
    BY <1>2, GrowStep, ShrinkStep
  <1>3. CASE \E p \in Slots : GrowDone(p) \/ GrowFail(p) \/ GrowPage(p)
    BY <1>3, GrowDoneStep, GrowFailStep, GrowPageStep
  <1>4. CASE \E p \in Slots : FaultGrow(p) \/ FaultKill(p)
    BY <1>4, FaultGrowStep, FaultKillStep
  <1>5. CASE \E p \in Slots : SetupPage(p) \/ SetupFail(p)
    BY <1>5, SetupPageStep, SetupFailStep
  <1>6. CASE \E p \in Slots : \E s \in Segments : Segment(p, s)
    BY <1>6, SegmentStep
  <1>7. CASE \E p \in Slots : exec(p) \/ Load(p) \/ ExecStack(p) \/ ExecPage(p) \/ ExecArgs(p)
    BY <1>7, ExecStep, LoadStep, ExecStackStep, ExecPageStep, ExecArgsStep
  <1>8. CASE \E p \in Slots : ExecBad(p) \/ ExecCommit(p)
    BY <1>8, ExecBadStep, ExecCommitStep
  <1>9. CASE \E p \in Slots : fork(p) \/ CopyPage(p) \/ CopyHeapDone(p) \/ CopyFail(p) \/ ForkDone(p)
    BY <1>9, ForkStep, CopyPageStep, CopyHeapDoneStep, CopyFailStep, ForkDoneStep
  <1>10. CASE \E p \in Slots : exit(p) \/ wait(p)
    BY <1>10, ExitStep, WaitStep
  <1>. QED  BY <1>1, <1>2, <1>3, <1>4, <1>5, <1>6, <1>7, <1>8, <1>9, <1>10 DEF Next

\* The inductive invariant of user memory.
THEOREM InvHolds == Spec => []Inv
  BY InitInv, NextInv, PTL DEF Spec

\* Conservation of memory, for any number of processes and any amount of memory:
\* no path of growproc, exec, fork, the page fault handler and wait loses a page
\* that setupkvm did not give up, or frees one twice.
THEOREM MemoryIsKept == Spec => []MemoryKept
  <1>1. Inv => MemoryKept
    BY DEF Inv, Balance, MemoryKept
  <1>. QED  BY <1>1, InvHolds, PTL

-----------------------------------------------------------------------------
(* arguments of system calls *)

\* The page an address is on.
LEMMA RoundDown ==
  ASSUME NEW x \in Nat
  PROVE  /\ Aligned((x \div PGSIZE) * PGSIZE) /\ (x \div PGSIZE) * PGSIZE <= x
         /\ x < ((x \div PGSIZE) * PGSIZE) + PGSIZE
         /\ \A y : Aligned(y) /\ y <= x => y <= (x \div PGSIZE) * PGSIZE
  <1>. DEFINE k == x \div PGSIZE
              d == k * PGSIZE
  <1>0. PGSIZE \in Nat \ {0}
    BY PageAssumption
  <1>1. x = (PGSIZE * k) + (x % PGSIZE) /\ k \in Int /\ (x % PGSIZE) \in 0..PGSIZE-1
    BY <1>0, DivMod
  <1>. HIDE DEF k
  <1>2. d = PGSIZE * k
    BY <1>0, <1>1
  <1>. HIDE DEF d
  <1>3. d <= x /\ x < d + PGSIZE /\ d \in Int
    BY <1>0, <1>1, <1>2
  <1>4. d \in Nat
    <2>1. ASSUME k < 0 PROVE FALSE
      <3>1. PGSIZE * k <= -PGSIZE
        BY <1>0, <1>1, <2>1
      <3>. QED  BY <1>0, <1>1, <3>1
    <2>. QED  BY <1>0, <1>1, <1>2, <2>1
  <1>5. Aligned(d)
    BY <1>1, <1>2, <1>4, AlignedIs
  <1>6. ASSUME NEW y, Aligned(y), y <= x PROVE y <= d
    <2>1. y \in Nat
      BY <1>6 DEF Aligned
    <2>2. ASSUME d < y PROVE FALSE
      <3>1. d + PGSIZE <= y
        BY <1>5, <1>6, <2>2, AlignedGap
      <3>. QED  BY <1>0, <1>3, <1>4, <1>6, <2>1, <3>1
    <2>. QED  BY <1>4, <2>1, <2>2
  <1>7. /\ Aligned(d) /\ d <= x /\ x < d + PGSIZE /\ \A y : Aligned(y) /\ y <= x => y <= d
    BY <1>3, <1>5, <1>6
  <1>. QED  BY <1>7 DEF d, k

\* In the image of a settled process every address of the heap and of the stack
\* is on a mapped page.
LEMMA ImageMapped ==
  ASSUME Inv, NEW p \in Slots, Settled(p), NEW x \in Nat, PGSIZE <= x, x < USERTOP,
         x < sz[p] \/ sz2[p] <= x
  PROVE  (x \div PGSIZE) * PGSIZE \in pgdir[p].map
  <1>. DEFINE d == (x \div PGSIZE) * PGSIZE
  <1>1. Aligned(d) /\ d <= x /\ \A y : Aligned(y) /\ y <= x => y <= d
    BY RoundDown
  <1>2. d \in Nat /\ sz[p] \in Nat /\ sz2[p] \in Nat /\ Aligned(sz2[p]) /\ Aligned(PGSIZE)
        /\ PGSIZE \in Nat /\ USERTOP \in Nat
    BY <1>1, Known, AlignedEnds DEF Aligned
  <1>. HIDE DEF d
  <1>3. PGSIZE <= d /\ (sz2[p] <= x => sz2[p] <= d) /\ d < USERTOP
    BY <1>1, <1>2
  <1>4. pgdir[p].map = Pages(PGSIZE, sz[p]) \cup Pages(sz2[p], USERTOP)
    BY Known DEF Local, Image
  <1>5. d \in Pages(PGSIZE, sz[p]) \/ d \in Pages(sz2[p], USERTOP)
    BY <1>1, <1>2, <1>3, InPages
  <1>. QED  BY <1>4, <1>5 DEF d

\* The arguments that are accepted are mapped, with the exceptions stated.
LEMMA ArgumentsAre == Inv => ArgumentsMapped
  <1>. SUFFICES ASSUME Inv, NEW p \in Slots, Settled(p), NEW i \in Addresses
                PROVE  /\ \A size \in Addresses :
                            argptr(p, i, size) => Mapped(p, i, size) \/ i + size >= AddrSpace
                       /\ fetchint(p, i) => Mapped(p, i, Word) \/ i < PGSIZE \/ i + Word > USERTOP
    BY DEF ArgumentsMapped
  <1>0. /\ AddrSpace \in Nat /\ AddrSpace > USERTOP
        /\ PGSIZE \in Nat /\ PGSIZE > 0 /\ USERTOP \in Nat /\ Word \in Nat /\ Word <= PGSIZE
        /\ sz[p] \in Nat /\ sz2[p] \in Nat /\ Aligned(sz2[p]) /\ i \in Nat
    BY Known, AlignedEnds, PageAssumption, SpaceAssumption DEF Addresses
  <1>1. ASSUME NEW size \in Addresses, argptr(p, i, size), i + size < AddrSpace PROVE Mapped(p, i, size)
    <2>. SUFFICES ASSUME NEW x \in i..i+size-1 PROVE (x \div PGSIZE) * PGSIZE \in pgdir[p].map
      BY DEF Mapped
    <2>0. (i + size) % AddrSpace = i + size /\ size \in Nat
      BY <1>0, <1>1 DEF Addresses
    <2>1. x \in Nat /\ PGSIZE <= x /\ x < USERTOP /\ (x < sz[p] \/ sz2[p] <= x)
      BY <1>0, <1>1, <2>0 DEF argptr
    <2>. QED  BY <2>1, ImageMapped
  <1>2. ASSUME PGSIZE <= i, i + Word <= USERTOP, fetchint(p, i) PROVE Mapped(p, i, Word)
    <2>0. (i + Word) % AddrSpace = i + Word
      BY <1>0, <1>2
    <2>. SUFFICES ASSUME NEW x \in i..i+Word-1 PROVE (x \div PGSIZE) * PGSIZE \in pgdir[p].map
      BY DEF Mapped
    <2>1. x \in Nat /\ PGSIZE <= x /\ x < USERTOP /\ PGSIZE <= i /\ i < USERTOP /\ i <= x /\ x < i + Word
      BY <1>0, <1>2
    <2>2. CASE x < sz[p] \/ sz2[p] <= x
      BY <2>1, <2>2, ImageMapped
    <2>3. CASE ~(x < sz[p] \/ sz2[p] <= x)
      <3>1. i < sz[p] /\ sz2[p] <= i + Word
        BY <1>0, <1>2, <2>0, <2>1, <2>3 DEF fetchint
      <3>2. (i \div PGSIZE) * PGSIZE \in pgdir[p].map
        BY <1>0, <2>1, <3>1, ImageMapped
      <3>. DEFINE c == (i \div PGSIZE) * PGSIZE
                  d == (x \div PGSIZE) * PGSIZE
      <3>3. Aligned(c) /\ c <= i /\ i < c + PGSIZE /\ \A y : Aligned(y) /\ y <= i => y <= c
        BY <1>0, RoundDown
      <3>4. Aligned(d) /\ d <= x /\ x < d + PGSIZE /\ \A y : Aligned(y) /\ y <= x => y <= d
        BY <2>1, RoundDown
      <3>5. c \in Nat /\ d \in Nat
        BY <3>3, <3>4 DEF Aligned
      <3>. HIDE DEF c, d
      <3>6. c <= d
        BY <1>0, <2>1, <3>3, <3>4, <3>5
      <3>7. ASSUME c < d PROVE FALSE
        <4>1. d < sz2[p]
          BY <1>0, <2>1, <2>3, <3>4, <3>5
        <4>2. c + PGSIZE <= d /\ d + PGSIZE <= sz2[p]
          BY <1>0, <3>3, <3>4, <3>7, <4>1, AlignedGap
        <4>. QED  BY <1>0, <2>1, <3>1, <3>3, <3>5, <4>2
      <3>8. c = d
        BY <3>5, <3>6, <3>7
      <3>. QED  BY <3>2, <3>8 DEF c, d
    <2>. QED  BY <2>2, <2>3
  <1>3. ASSUME NEW size \in Addresses, argptr(p, i, size) PROVE Mapped(p, i, size) \/ i + size >= AddrSpace
    BY <1>0, <1>1, <1>3 DEF Addresses
  <1>4. ASSUME fetchint(p, i) PROVE Mapped(p, i, Word) \/ i < PGSIZE \/ i + Word > USERTOP
    BY <1>0, <1>2, <1>4
  <1>. QED  BY <1>3, <1>4

\* A process whose image was never torn has exactly the pages of its heap and its
\* stack; of all addresses, argptr and fetchint accept those in its memory and the
\* ones ArgumentsMapped names; and vm.c panics only for the causes named in
\* PanicExplained.
THEOREM SpaceIsKept == Spec => []SpaceKept
  <1>1. Inv => ImageExact
    BY DEF Inv, Local, Image, ImageExact
  <1>2. Inv => PanicExplained
    BY DEF Inv, Explained, PanicExplained
  <1>3. Inv => SpaceKept
    BY <1>1, <1>2, ArgumentsAre DEF SpaceKept
  <1>. QED  BY <1>3, InvHolds, PTL
=============================================================================
