----------------------------- MODULE ConsoleProofs -----------------------------
(***************************************************************************)
(* Proofs about module Console, for any number of readers, any size of the *)
(* ring and any modulus of its indices: no reader sleeps beside input, and *)
(* the ring implements module Terminal.                                    *)
(***************************************************************************)
EXTENDS Console, Lemmas

\* The indices lie in the order r, w, e, at most a ring apart, and a full ring
\* has been handed over.
RingState ==
  /\ Minus(w, r) + Minus(e, w) = Minus(e, r)
  /\ Minus(e, r) <= INPUT_BUF
  /\ Minus(e, r) = INPUT_BUF => w = e

\* A reader has the lock where consoleread has it, and what it saw before it
\* lay down to sleep is still so.
ReaderState(p) ==
  /\ lock = p <=> pc[p] \in {"loop", "doze"}
  /\ pc[p] \in {"doze", "sleep"} => Empty
  /\ n[p] <= target[p]

Inv == TypeOK /\ RingState /\ \A p \in Readers : ReaderState(p)

-----------------------------------------------------------------------------
(* index arithmetic *)

\* What the assumptions say of the two sizes.
LEMMA Sizes == INPUT_BUF \in Nat \ {0} /\ W \in Nat \ {0} /\ W > INPUT_BUF /\ W > 1 /\ W % INPUT_BUF = 0
  BY SizeAssumption, WAssumption

\* Unsigned subtraction.
LEMMA MinusIs ==
  ASSUME NEW x \in 0..W-1, NEW y \in 0..W-1
  PROVE  Minus(x, y) = (IF x >= y THEN x - y ELSE x - y + W) /\ Minus(x, y) \in 0..W-1
  <1>1. (x - y) % W = IF x >= y THEN x - y ELSE x - y + W
    BY Sizes, Difference, Zenon
  <1>. QED  BY <1>1, Sizes DEF Minus

\* Two indices are equal when nothing lies between them.
LEMMA MinusZero ==
  ASSUME NEW x \in 0..W-1, NEW y \in 0..W-1
  PROVE  Minus(x, y) = 0 <=> x = y
  <1>1. Minus(x, y) = IF x >= y THEN x - y ELSE x - y + W
    BY MinusIs
  <1>. QED  BY <1>1, Sizes

\* The next index.
LEMMA NextIs ==
  ASSUME NEW x \in 0..W-1
  PROVE  (x + 1) % W = (IF x + 1 = W THEN 0 ELSE x + 1) /\ (x + 1) % W \in 0..W-1
  <1>1. 1 \in 0..W
    BY Sizes
  <1>2. (x + 1) % W = IF x + 1 < W THEN x + 1 ELSE x + 1 - W
    BY <1>1, Sizes, Plus, Zenon
  <1>. QED  BY <1>2, Sizes

\* One step of the front index, ...
LEMMA Advance ==
  ASSUME NEW x \in 0..W-1, NEW y \in 0..W-1, Minus(x, y) < INPUT_BUF
  PROVE  Minus((x + 1) % W, y) = Minus(x, y) + 1
  <1>. DEFINE z == (x + 1) % W
  <1>1. z = (IF x + 1 = W THEN 0 ELSE x + 1) /\ z \in 0..W-1
    BY NextIs
  <1>. HIDE DEF z
  <1>2. Minus(z, y) = IF z >= y THEN z - y ELSE z - y + W
    BY <1>1, MinusIs
  <1>3. Minus(x, y) = IF x >= y THEN x - y ELSE x - y + W
    BY MinusIs
  <1>4. Minus(z, y) = Minus(x, y) + 1
    BY <1>1, <1>2, <1>3, Sizes
  <1>. QED  BY <1>4 DEF z

\* ... one of the rear index ...
LEMMA Consume ==
  ASSUME NEW x \in 0..W-1, NEW y \in 0..W-1, x # y
  PROVE  Minus(x, (y + 1) % W) = Minus(x, y) - 1
  <1>. DEFINE z == (y + 1) % W
  <1>1. z = (IF y + 1 = W THEN 0 ELSE y + 1) /\ z \in 0..W-1
    BY NextIs
  <1>. HIDE DEF z
  <1>2. Minus(x, z) = IF x >= z THEN x - z ELSE x - z + W
    BY <1>1, MinusIs
  <1>3. Minus(x, y) = IF x >= y THEN x - y ELSE x - y + W
    BY MinusIs
  <1>4. Minus(x, z) = Minus(x, y) - 1
    BY <1>1, <1>2, <1>3, Sizes
  <1>. QED  BY <1>4 DEF z

\* ... and k steps back of the front index.
LEMMA Retreat ==
  ASSUME NEW x \in 0..W-1, NEW y \in 0..W-1, NEW k \in 0..Minus(x, y)
  PROVE  Minus(x, k) \in 0..W-1 /\ Minus(Minus(x, k), y) = Minus(x, y) - k
  <1>1. Minus(x, y) = (IF x >= y THEN x - y ELSE x - y + W) /\ Minus(x, y) \in 0..W-1
    BY MinusIs
  <1>2. k \in 0..W-1
    BY <1>1, Sizes
  <1>. DEFINE z == Minus(x, k)
  <1>3. z = (IF x >= k THEN x - k ELSE x - k + W) /\ z \in 0..W-1
    BY <1>2, MinusIs
  <1>. HIDE DEF z
  <1>4. Minus(z, y) = IF z >= y THEN z - y ELSE z - y + W
    BY <1>3, MinusIs
  <1>5. z \in 0..W-1 /\ Minus(z, y) = Minus(x, y) - k
    BY <1>1, <1>2, <1>3, <1>4, Sizes
  <1>. QED  BY <1>5 DEF z

\* The test of consoleintr for a ring that is full with the next character.
LEMMA FullTest ==
  ASSUME NEW x \in 0..W-1, NEW y \in 0..W-1, Minus(x, y) < INPUT_BUF
  PROVE  (x + 1) % W = (y + INPUT_BUF) % W <=> Minus(x, y) + 1 = INPUT_BUF
  <1>1. (x + 1) % W = IF x + 1 = W THEN 0 ELSE x + 1
    BY NextIs
  <1>2. INPUT_BUF \in 0..W
    BY Sizes
  <1>3. (y + INPUT_BUF) % W = IF y + INPUT_BUF < W THEN y + INPUT_BUF ELSE y + INPUT_BUF - W
    BY <1>2, Sizes, Plus, Zenon
  <1>4. Minus(x, y) = IF x >= y THEN x - y ELSE x - y + W
    BY MinusIs
  <1>. QED  BY <1>1, <1>3, <1>4, Sizes

\* The cell after the characters between two indices is that of the front index, ...
LEMMA FrontCell ==
  ASSUME NEW x \in 0..W-1, NEW y \in 0..W-1
  PROVE  (y + Minus(x, y)) % INPUT_BUF = Cell(x)
  <1>1. y + Minus(x, y) = x \/ y + Minus(x, y) = x + W
    <2>1. Minus(x, y) = IF x >= y THEN x - y ELSE x - y + W
      BY MinusIs
    <2>. QED  BY <2>1, Sizes
  <1>2. x \in Int /\ W \in Nat
    BY Sizes
  <1>3. (x + W) % INPUT_BUF = x % INPUT_BUF
    BY <1>2, Sizes, Wraps, Zenon
  <1>. QED  BY <1>1, <1>3, Zenon DEF Cell

\* A turn of the indices changes no span.
LEMMA Turn ==
  ASSUME NEW b, NEW i \in Int, NEW m \in Nat
  PROVE  Span(INPUT_BUF, b, i + W, m) = Span(INPUT_BUF, b, i, m)
  <1>1. Fits(INPUT_BUF, W)
    BY Sizes DEF Fits
  <1>. QED  BY <1>1, SpanShift, Zenon

\* ... and the characters that follow are those from that index on.
LEMMA SpanFrom ==
  ASSUME NEW b, NEW x \in 0..W-1, NEW y \in 0..W-1, NEW m \in Nat
  PROVE  Span(INPUT_BUF, b, y + Minus(x, y), m) = Span(INPUT_BUF, b, x, m)
  <1>1. y + Minus(x, y) = x \/ y + Minus(x, y) = x + W
    <2>1. Minus(x, y) = IF x >= y THEN x - y ELSE x - y + W
      BY MinusIs
    <2>. QED  BY <2>1, Sizes
  <1>2. x \in Int /\ W \in Nat
    BY Sizes
  <1>3. Span(INPUT_BUF, b, x + W, m) = Span(INPUT_BUF, b, x, m)
    BY <1>2, Turn, Zenon
  <1>. QED  BY <1>1, <1>3, Zenon

\* The same for the next index.
LEMMA SpanNext ==
  ASSUME NEW b, NEW x \in 0..W-1, NEW m \in Nat
  PROVE  Span(INPUT_BUF, b, x + 1, m) = Span(INPUT_BUF, b, (x + 1) % W, m)
  <1>1. x + 1 = (x + 1) % W \/ x + 1 = ((x + 1) % W) + W
    BY NextIs, Sizes
  <1>2. (x + 1) % W \in Int /\ W \in Nat
    BY NextIs, Sizes
  <1>3. Span(INPUT_BUF, b, ((x + 1) % W) + W, m) = Span(INPUT_BUF, b, (x + 1) % W, m)
    BY <1>2, Turn, Zenon
  <1>. QED  BY <1>1, <1>3, Zenon

-----------------------------------------------------------------------------
(* the invariant *)

\* The distances between the indices are counters.
LEMMA Distances ==
  ASSUME TypeOK
  PROVE  Minus(w, r) \in 0..W-1 /\ Minus(e, w) \in 0..W-1 /\ Minus(e, r) \in 0..W-1
  BY MinusIs DEF TypeOK

\* The initial state.
LEMMA InvInit == Init => Inv
  <1>. SUFFICES ASSUME Init PROVE Inv
    OBVIOUS
  <1>1. TypeOK
    BY Sizes DEF Init, TypeOK, Chars, PCs
  <1>2. RingState
    <2>1. Minus(0, 0) = 0
      BY MinusIs, Sizes
    <2>. QED  BY <2>1, Sizes DEF Init, RingState
  <1>3. ASSUME NEW p \in Readers PROVE ReaderState(p)
    BY NoneAssumption DEF Init, ReaderState, Empty
  <1>. QED  BY <1>1, <1>2, <1>3 DEF Inv

\* A character goes into the ring; with the last free cell the line is handed over.
LEMMA TypedInv ==
  ASSUME Inv, NEW c \in Chars, Typed(c)
  PROVE  Inv'
  <1>. DEFINE z == (e + 1) % W
  <1>1. TypeOK /\ RingState
    BY DEF Inv
  <1>2. r \in 0..W-1 /\ w \in 0..W-1 /\ e \in 0..W-1 /\ z \in 0..W-1
    BY <1>1, NextIs DEF TypeOK
  <1>3. e' = z /\ r' = r /\ (w' = w \/ w' = z)
    BY DEF Typed
  <1>4. Minus(e, r) < INPUT_BUF /\ Minus(e, w) < INPUT_BUF
    BY <1>1, Distances, Sizes DEF Typed, Room, RingState
  <1>5. Minus(z, r) = Minus(e, r) + 1 /\ Minus(z, w) = Minus(e, w) + 1
    BY <1>2, <1>4, Advance
  <1>6. Minus(z, z) = 0
    BY <1>2, MinusZero
  <1>7. z = (r + INPUT_BUF) % W <=> Minus(e, r) + 1 = INPUT_BUF
    BY <1>2, <1>4, FullTest
  <1>8. w' = w => ~Commits(c) \/ w = z
    BY <1>3 DEF Typed
  <1>. HIDE DEF z
  <1>9. TypeOK'
    <2>1. buf' \in [Cells -> Chars]
      BY <1>1 DEF Typed, TypeOK
    <2>2. pc' \in [Readers -> PCs]
      BY <1>1 DEF Typed, TypeOK, Woken, PCs
    <2>. QED  BY <2>1, <2>2, <1>1, <1>2, <1>3 DEF Typed, TypeOK
  <1>10. RingState'
    <2>1. CASE w' = z
      <3>1. Minus(w', r') + Minus(e', w') = Minus(e', r')
        BY <2>1, <1>1, <1>3, <1>5, <1>6, Distances, Sizes
      <3>2. Minus(e', r') <= INPUT_BUF
        BY <1>1, <1>3, <1>4, <1>5, Distances, Sizes
      <3>. QED  BY <2>1, <1>3, <3>1, <3>2 DEF RingState, Minus
    <2>2. CASE w' = w /\ w # z
      <3>1. Minus(w', r') + Minus(e', w') = Minus(e', r')
        BY <2>2, <1>1, <1>3, <1>5, Distances, Sizes DEF RingState
      <3>2. Minus(e', r') <= INPUT_BUF
        BY <1>1, <1>3, <1>4, <1>5, Distances, Sizes
      <3>3. Minus(e', r') # INPUT_BUF
        BY <2>2, <1>3, <1>5, <1>7, <1>8 DEF Commits, z
      <3>. QED  BY <3>1, <3>2, <3>3 DEF RingState, Minus
    <2>. QED  BY <2>1, <2>2, <1>3
  <1>11. ASSUME NEW p \in Readers PROVE ReaderState(p)'
    <2>1. ReaderState(p) /\ pc[p] \in PCs /\ lock = None /\ n' = n /\ target' = target /\ lock' = lock
      BY <1>1 DEF Inv, TypeOK, Typed
    <2>2. CASE w' = w
      <3>1. Empty' = Empty
        BY <1>3, <2>2 DEF Empty
      <3>2. pc'[p] = pc[p] \/ pc'[p] = "acq"
        BY DEF Typed, Woken
      <3>. QED  BY <2>1, <3>1, <3>2, NoneAssumption DEF ReaderState, Typed, Woken
    <2>3. CASE w' # w
      <3>1. pc' = Woken
        BY <2>3 DEF Typed
      <3>2. pc'[p] = IF pc[p] = "sleep" THEN "acq" ELSE pc[p]
        BY <3>1 DEF Woken
      <3>. QED  BY <2>1, <3>2, NoneAssumption DEF ReaderState, PCs
    <2>. QED  BY <2>2, <2>3
  <1>. QED  BY <1>9, <1>10, <1>11 DEF Inv

\* Taking characters back.
LEMMA EraseInv ==
  ASSUME Inv, lock = None, e # w, NEW k \in 0..Minus(e, w), e' = Minus(e, k),
         UNCHANGED <<buf, r, w, lock, pc, n, target, killed, got>>
  PROVE  Inv'
  <1>1. TypeOK /\ RingState
    BY DEF Inv
  <1>2. r \in 0..W-1 /\ w \in 0..W-1 /\ e \in 0..W-1
    BY <1>1 DEF TypeOK
  <1>3. Minus(e, w) <= Minus(e, r) /\ k \in 0..Minus(e, r)
    BY <1>1, Distances, Sizes DEF RingState
  <1>4. e' \in 0..W-1 /\ Minus(e', w) = Minus(e, w) - k
    BY <1>2, Retreat
  <1>5. Minus(e', r) = Minus(e, r) - k
    BY <1>2, <1>3, Retreat
  <1>6. TypeOK'
    BY <1>1, <1>4 DEF TypeOK
  <1>7. RingState'
    <2>1. Minus(w, r) + Minus(e', w) = Minus(e', r)
      BY <1>1, <1>4, <1>5, Distances, Sizes DEF RingState
    <2>2. Minus(e', r) < INPUT_BUF
      BY <1>1, <1>5, Distances, Sizes DEF RingState
    <2>. QED  BY <2>1, <2>2, Sizes, <1>5, <1>1, Distances DEF RingState, Minus
  <1>8. \A p \in Readers : ReaderState(p)'
    BY DEF Inv, ReaderState, Empty
  <1>. QED  BY <1>6, <1>7, <1>8 DEF Inv

\* A reader that holds the lock: the others are kept out.
LEMMA HolderInv ==
  ASSUME Inv, NEW p \in Readers, pc[p] \in {"loop", "doze"},
         UNCHANGED <<buf, w, e, killed>>, r' \in {r, (r + 1) % W}, r' # r => ~Empty,
         got' \in Chars, lock' \in {p, None}, NEW l \in PCs, pc' = [pc EXCEPT ![p] = l],
         NEW i \in Nat, NEW j \in Nat, i <= j,
         n' = [n EXCEPT ![p] = i], target' = [target EXCEPT ![p] = j],
         lock' = p <=> l \in {"loop", "doze"}, l \in {"doze", "sleep"} => Empty'
  PROVE  Inv'
  <1>1. TypeOK /\ RingState /\ lock = p
    BY DEF Inv, ReaderState
  <1>2. r \in 0..W-1 /\ w \in 0..W-1 /\ e \in 0..W-1 /\ (r + 1) % W \in 0..W-1
    BY <1>1, NextIs DEF TypeOK
  <1>3. TypeOK'
    BY <1>1, <1>2 DEF TypeOK
  <1>4. RingState'
    <2>1. CASE r' = r
      BY <1>1, <2>1 DEF RingState, Minus
    <2>2. CASE r' # r
      <3>. DEFINE z == (r + 1) % W
      <3>1. r' = z /\ w # r
        BY <2>2 DEF Empty
      <3>2. Minus(w, r) # 0
        BY <1>2, <3>1, MinusZero
      <3>3. e # r
        <4>1. Minus(e, r) # 0
          BY <3>2, <1>1, Distances, Sizes DEF RingState
        <4>. QED  BY <4>1, <1>2, MinusZero
      <3>4. Minus(w, z) = Minus(w, r) - 1 /\ Minus(e, z) = Minus(e, r) - 1
        BY <1>2, <3>1, <3>3, Consume
      <3>. HIDE DEF z
      <3>5. Minus(w, r') + Minus(e, w) = Minus(e, r') /\ Minus(e, r') < INPUT_BUF
        BY <3>1, <3>4, <1>1, Distances, Sizes DEF RingState
      <3>. QED  BY <3>1, <3>4, <3>5, <1>1, Distances, Sizes DEF RingState, Minus
    <2>. QED  BY <2>1, <2>2
  <1>5. ASSUME NEW q \in Readers PROVE ReaderState(q)'
    <2>1. CASE q = p
      <3>1. pc'[p] = l /\ n'[p] = i /\ target'[p] = j
        BY <1>1 DEF TypeOK
      <3>. QED  BY <2>1, <3>1, NoneAssumption DEF ReaderState
    <2>2. CASE q # p
      <3>1. pc'[q] = pc[q] /\ n'[q] = n[q] /\ target'[q] = target[q]
        BY <2>2, <1>1 DEF TypeOK
      <3>2. ReaderState(q) /\ lock # q /\ lock' # q
        BY <2>2, <1>1, NoneAssumption DEF Inv
      <3>3. Empty => Empty'
        BY DEF Empty
      <3>. QED  BY <3>1, <3>2, <3>3 DEF ReaderState
    <2>. QED  BY <2>1, <2>2
  <1>. QED  BY <1>3, <1>4, <1>5 DEF Inv

\* The steps of a reader that does not hold the lock.
LEMMA OutsideInv ==
  ASSUME Inv, NEW p \in Readers, UNCHANGED <<input, got>>, killed' \in [Readers -> BOOLEAN],
         NEW l \in PCs, pc' = [pc EXCEPT ![p] = l], lock' \in {lock, p},
         lock' # lock => lock = None,
         lock' = p <=> l \in {"loop", "doze"}, l \in {"doze", "sleep"} => Empty,
         NEW i \in Nat, NEW j \in Nat, i <= j,
         n' = [n EXCEPT ![p] = i], target' = [target EXCEPT ![p] = j]
  PROVE  Inv'
  <1>1. TypeOK /\ RingState
    BY DEF Inv
  <1>2. TypeOK'
    BY <1>1 DEF TypeOK, input
  <1>3. RingState'
    BY <1>1 DEF RingState, Minus, input
  <1>4. Empty' = Empty
    BY DEF Empty, input
  <1>5. ASSUME NEW q \in Readers PROVE ReaderState(q)'
    <2>1. CASE q = p
      <3>1. pc'[p] = l /\ n'[p] = i /\ target'[p] = j
        BY <1>1 DEF TypeOK
      <3>. QED  BY <2>1, <3>1, <1>4 DEF ReaderState
    <2>2. CASE q # p
      <3>1. pc'[q] = pc[q] /\ n'[q] = n[q] /\ target'[q] = target[q]
        BY <2>2, <1>1 DEF TypeOK
      <3>2. ReaderState(q) /\ (lock' = q <=> lock = q)
        BY <2>2, NoneAssumption DEF Inv
      <3>. QED  BY <3>1, <3>2, <1>4 DEF ReaderState
    <2>. QED  BY <2>1, <2>2
  <1>. QED  BY <1>2, <1>3, <1>5 DEF Inv

\* Every step keeps the invariant.
LEMMA InvStep == Inv /\ [Next]_vars => Inv'
  <1>. SUFFICES ASSUME Inv, [Next]_vars PROVE Inv'
    OBVIOUS
  <1>0. TypeOK
    BY DEF Inv
  <1>1. CASE \E p \in Readers : InCall(p)
    <2>1. PICK p \in Readers : InCall(p)
      BY <1>1
    <2>2. /\ pc[p] \in PCs /\ n[p] \in Nat /\ target[p] \in Nat /\ got \in Chars
          /\ n[p] <= target[p] /\ (lock = p <=> pc[p] \in {"loop", "doze"})
          /\ n = [n EXCEPT ![p] = n[p]] /\ target = [target EXCEPT ![p] = target[p]]
          /\ pc = [pc EXCEPT ![p] = pc[p]] /\ p # None /\ killed \in [Readers -> BOOLEAN]
      BY <1>0, NoneAssumption DEF TypeOK, Inv, ReaderState
    <2>3. CASE Acquire(p)
      <3>1. /\ lock = None /\ lock' = p /\ pc' = [pc EXCEPT ![p] = "loop"]
            /\ UNCHANGED <<input, n, target, killed, got>> /\ "loop" \in PCs
        BY <2>3 DEF Acquire, Go, PCs
      <3>2. n' = [n EXCEPT ![p] = n[p]] /\ target' = [target EXCEPT ![p] = target[p]]
        BY <2>2, <3>1
      <3>. QED  BY <2>2, <3>1, <3>2, OutsideInv
    <2>4. CASE ReadBlock(p)
      <3>1. /\ pc[p] = "loop" /\ lock' = lock /\ pc' = [pc EXCEPT ![p] = "doze"] /\ Empty'
            /\ UNCHANGED <<buf, w, e, killed>> /\ r' = r /\ n' = n /\ target' = target
            /\ got' = got /\ "doze" \in PCs
        BY <2>4 DEF ReadBlock, Go, PCs, input, Empty
      <3>2. n' = [n EXCEPT ![p] = n[p]] /\ target' = [target EXCEPT ![p] = target[p]]
        BY <2>2, <3>1
      <3>. QED  BY <2>2, <3>1, <3>2, HolderInv
    <2>5. CASE Sleep(p)
      <3>1. /\ pc[p] = "doze" /\ lock' = None /\ pc' = [pc EXCEPT ![p] = "sleep"] /\ Empty'
            /\ UNCHANGED <<buf, w, e, killed>> /\ r' = r /\ n' = n /\ target' = target
            /\ got' = got /\ "sleep" \in PCs
        BY <2>5 DEF Sleep, Go, PCs, input, Empty, Inv, ReaderState
      <3>2. n' = [n EXCEPT ![p] = n[p]] /\ target' = [target EXCEPT ![p] = target[p]]
        BY <2>2, <3>1
      <3>. QED  BY <2>2, <3>1, <3>2, HolderInv
    <2>6. CASE ReadChar(p)
      <3>1. /\ pc[p] = "loop" /\ lock' = lock /\ pc' = pc /\ ~Empty
            /\ UNCHANGED <<buf, w, e, killed>> /\ r' = (r + 1) % W /\ target' = target
            /\ n' = [n EXCEPT ![p] = n[p] - 1] /\ n[p] - 1 \in Nat /\ n[p] - 1 <= target[p]
        BY <2>2, <2>6 DEF ReadChar
      <3>2. pc' = [pc EXCEPT ![p] = "loop"] /\ target' = [target EXCEPT ![p] = target[p]]
        BY <2>2, <3>1
      <3>3. got' \in Chars
        <4>1. Cell(r) \in Cells
          BY <1>0, Sizes DEF TypeOK, Cell, Cells
        <4>. QED  BY <4>1, <1>0, <2>6 DEF ReadChar, TypeOK
      <3>. QED  BY <2>2, <3>1, <3>2, <3>3, HolderInv DEF PCs
    <2>7. CASE ReadKilled(p) \/ ReadLine(p) \/ ReadEof(p) \/ ReadFull(p)
      <3>1. pc[p] = "loop" /\ Leave(p) /\ UNCHANGED <<buf, w, e, killed>>
        BY <2>7 DEF ReadKilled, ReadLine, ReadEof, ReadFull, input
      <3>2. r' \in {r, (r + 1) % W} /\ (r' # r => ~Empty) /\ got' \in Chars
        BY <2>2, <2>7 DEF ReadKilled, ReadLine, ReadEof, ReadFull, input, Chars
      <3>3. /\ lock' = None /\ pc' = [pc EXCEPT ![p] = "idle"] /\ n' = [n EXCEPT ![p] = 0]
            /\ target' = [target EXCEPT ![p] = 0] /\ "idle" \in PCs /\ 0 \in Nat /\ 0 <= 0
        BY <3>1 DEF Leave, Go, PCs
      <3>. QED  BY <2>2, <3>1, <3>2, <3>3, HolderInv
    <2>. QED  BY <2>1, <2>3, <2>4, <2>5, <2>6, <2>7 DEF InCall
  <1>2. CASE \E p \in Readers : \E k \in Reqs : ReadCall(p, k)
    <2>1. PICK p \in Readers : \E k \in Reqs : ReadCall(p, k)
      BY <1>2
    <2>2. PICK k \in Reqs : ReadCall(p, k)
      BY <2>1
    <2>3. /\ k \in Nat /\ k <= k /\ lock' = lock /\ pc' = [pc EXCEPT ![p] = "acq"] /\ "acq" \in PCs
          /\ n' = [n EXCEPT ![p] = k] /\ target' = [target EXCEPT ![p] = k]
          /\ UNCHANGED <<input, got>> /\ killed' \in [Readers -> BOOLEAN] /\ lock # p
      BY <1>0, <2>2, ReqsAssumption DEF ReadCall, Go, PCs, TypeOK, Inv, ReaderState
    <2>. QED  BY <2>3, OutsideInv
  <1>3. CASE \E p \in Readers : kill(p) \/ Replaced(p)
    <2>1. PICK p \in Readers : kill(p) \/ Replaced(p)
      BY <1>3
    <2>. DEFINE l == IF kill(p) /\ pc[p] = "sleep" THEN "acq" ELSE pc[p]
    <2>2. /\ pc[p] \in PCs /\ n[p] \in Nat /\ target[p] \in Nat /\ n[p] <= target[p]
          /\ (lock = p <=> pc[p] \in {"loop", "doze"}) /\ (pc[p] \in {"doze", "sleep"} => Empty)
          /\ n = [n EXCEPT ![p] = n[p]] /\ target = [target EXCEPT ![p] = target[p]]
          /\ pc = [pc EXCEPT ![p] = pc[p]]
      BY <1>0 DEF TypeOK, Inv, ReaderState
    <2>3. /\ lock' = lock /\ UNCHANGED <<input, got>> /\ killed' \in [Readers -> BOOLEAN]
          /\ n' = n /\ target' = target /\ pc' = [pc EXCEPT ![p] = l]
      BY <1>0, <2>1, <2>2 DEF kill, Replaced, Go, TypeOK
    <2>4. l \in PCs /\ (l = pc[p] \/ (l = "acq" /\ pc[p] = "sleep"))
      BY <2>2 DEF PCs
    <2>5. n' = [n EXCEPT ![p] = n[p]] /\ target' = [target EXCEPT ![p] = target[p]]
      BY <2>2, <2>3
    <2>. HIDE DEF l
    <2>6. (lock' = p <=> l \in {"loop", "doze"}) /\ (l \in {"doze", "sleep"} => Empty)
      BY <2>2, <2>3, <2>4
    <2>. QED  BY <2>2, <2>3, <2>4, <2>5, <2>6, OutsideInv
  <1>4. CASE \E c \in Chars : Typed(c)
    BY <1>4, TypedInv
  <1>5. CASE Backspace
    <2>1. 1 \in 0..Minus(e, w)
      <3>1. Minus(e, w) # 0
        BY <1>0, <1>5, MinusZero DEF Backspace, TypeOK
      <3>. QED  BY <3>1, <1>0, Distances, Sizes
    <2>. QED  BY <1>5, <2>1, EraseInv DEF Backspace
  <1>6. CASE KillLine
    BY <1>6, EraseInv DEF KillLine
  <1>7. CASE UNCHANGED vars
    BY <1>7 DEF vars, input, Inv, TypeOK, RingState, ReaderState, Minus, Empty
  <1>. QED  BY <1>1, <1>2, <1>3, <1>4, <1>5, <1>6, <1>7 DEF Next, Keyboard

\* The console's indices stay in order and its readers where they should be, in
\* every state of the console.
THEOREM InvHolds == Spec => []Inv
  BY InvInit, InvStep, PTL DEF Spec

\* In no state of the console does a reader sleep beside input, and a full ring
\* has always been handed over.
THEOREM ReadersStayAwake == Spec => []ReadersAwake
  <1>1. Inv => ReadersAwake
    BY DEF Inv, ReaderState, RingState, ReadersAwake
  <1>. QED  BY <1>1, InvHolds, PTL

-----------------------------------------------------------------------------
(* the ring as a terminal *)

\* What lies between two indices is a span of the ring.
LEMMA BetweenIs ==
  ASSUME TypeOK
  PROVE  /\ IsRing(Chars, INPUT_BUF, buf)
         /\ Between(r, w) = Span(INPUT_BUF, buf, r, Minus(w, r))
         /\ Between(w, e) = Span(INPUT_BUF, buf, w, Minus(e, w))
         /\ Between(r, w) \in Seq(Chars) /\ Len(Between(r, w)) = Minus(w, r)
         /\ Between(w, e) \in Seq(Chars) /\ Len(Between(w, e)) = Minus(e, w)
  <1>1. IsRing(Chars, INPUT_BUF, buf)
    BY Sizes DEF IsRing, TypeOK, Cells
  <1>2. /\ Between(r, w) = Span(INPUT_BUF, buf, r, Minus(w, r))
        /\ Between(w, e) = Span(INPUT_BUF, buf, w, Minus(e, w))
    BY DEF Between, Span, Cell
  <1>3. Minus(w, r) \in Nat /\ Minus(e, w) \in Nat /\ r \in Int /\ w \in Int
    BY Distances, Sizes DEF TypeOK
  <1>. QED  BY <1>1, <1>2, <1>3, SpanSeq

\* The committed characters and the line together are what is in the ring.
LEMMA Contents ==
  ASSUME Inv
  PROVE  Between(r, w) \o Between(w, e) = Span(INPUT_BUF, buf, r, Minus(e, r))
  <1>1. TypeOK /\ Minus(w, r) + Minus(e, w) = Minus(e, r)
    BY DEF Inv, RingState
  <1>2. Minus(w, r) \in Nat /\ Minus(e, w) \in Nat /\ r \in Int /\ r \in 0..W-1 /\ w \in 0..W-1
    BY <1>1, Distances, Sizes DEF TypeOK
  <1>3. Span(INPUT_BUF, buf, r + Minus(w, r), Minus(e, w)) = Span(INPUT_BUF, buf, w, Minus(e, w))
    BY <1>2, SpanFrom
  <1>4. /\ IsRing(Chars, INPUT_BUF, buf)
        /\ Between(r, w) = Span(INPUT_BUF, buf, r, Minus(w, r))
        /\ Between(w, e) = Span(INPUT_BUF, buf, w, Minus(e, w))
    BY <1>1, BetweenIs
  <1>5. Span(INPUT_BUF, buf, r, Minus(w, r)) \o Span(INPUT_BUF, buf, r + Minus(w, r), Minus(e, w))
          = Span(INPUT_BUF, buf, r, Minus(e, r))
    <2>1. Adjacent(r, Minus(w, r), r + Minus(w, r), Minus(e, w), Minus(e, r))
      BY <1>1, <1>2 DEF Adjacent
    <2>. QED  BY <2>1, <1>4, SpanConcat
  <1>. QED  BY <1>1, <1>3, <1>4, <1>5

\* A typed character joins the line, and commits it where the terminal says.
LEMMA TypedTypes ==
  ASSUME Inv, Inv', NEW c \in Chars, Typed(c)
  PROVE  Promise!Type(c)
  <1>. DEFINE ready == Between(r, w)
              line == Between(w, e)
              z == (e + 1) % W
  <1>1. TypeOK /\ TypeOK' /\ Minus(w, r) + Minus(e, w) = Minus(e, r)
    BY DEF Inv, RingState
  <1>2. r \in 0..W-1 /\ w \in 0..W-1 /\ e \in 0..W-1 /\ z \in 0..W-1 /\ r \in Int /\ w \in Int
    BY <1>1, NextIs DEF TypeOK
  <1>3. /\ Minus(e, r) \in 0..INPUT_BUF-1 /\ Minus(e, w) \in 0..INPUT_BUF-1
        /\ Minus(w, r) \in 0..Minus(e, r)
        /\ Minus(e, r) \in Nat /\ Minus(e, w) \in Nat /\ Minus(w, r) \in Nat
    BY <1>1, Distances, Sizes DEF Typed, Room
  <1>4. /\ IsRing(Chars, INPUT_BUF, buf) /\ IsRing(Chars, INPUT_BUF, buf')
        /\ ready \in Seq(Chars) /\ Len(ready) = Minus(w, r)
        /\ line \in Seq(Chars) /\ Len(line) = Minus(e, w)
        /\ ready = Span(INPUT_BUF, buf, r, Minus(w, r))
        /\ line = Span(INPUT_BUF, buf, w, Minus(e, w))
    BY <1>1, BetweenIs, Sizes DEF IsRing, TypeOK, Cells
  <1>5. buf' = [buf EXCEPT ![Cell(e)] = c] /\ e' = z /\ r' = r
    BY DEF Typed
  <1>6. /\ Minus(z, r) = Minus(e, r) + 1 /\ Minus(z, w) = Minus(e, w) + 1 /\ Minus(z, z) = 0
        /\ (z = (r + INPUT_BUF) % W <=> Minus(e, r) + 1 = INPUT_BUF)
    <2>1. Minus(e, r) < INPUT_BUF /\ Minus(e, w) < INPUT_BUF
      BY <1>3, Sizes
    <2>. QED  BY <1>2, <2>1, Advance, MinusZero, FullTest
  <1>7. /\ (r + Minus(e, r)) % INPUT_BUF = Cell(e)
        /\ (w + Minus(e, w)) % INPUT_BUF = Cell(e)
    BY <1>2, FrontCell
  <1>. HIDE DEF ready, line, z
  <1>8. Span(INPUT_BUF, buf', w, Minus(e, w) + 1) = Append(line, c)
    <2>1. Puts(Chars, INPUT_BUF, buf, w, Minus(e, w), c, buf')
      BY <1>2, <1>3, <1>4, <1>5, <1>7 DEF Puts
    <2>2. Span(INPUT_BUF, buf', w, Minus(e, w) + 1) = Append(Span(INPUT_BUF, buf, w, Minus(e, w)), c)
      BY <2>1, SpanAppend
    <2>. QED  BY <1>4, <2>2
  <1>put. Puts(Chars, INPUT_BUF, buf, r, Minus(e, r), c, buf')
    BY <1>2, <1>3, <1>4, <1>5, <1>7 DEF Puts
  <1>9. Span(INPUT_BUF, buf', r, Minus(e, r) + 1) = ready \o Append(line, c)
    <2>1. Span(INPUT_BUF, buf', r, Minus(e, r) + 1) = Append(Span(INPUT_BUF, buf, r, Minus(e, r)), c)
      BY <1>put, SpanAppend
    <2>2. ready \o line = Span(INPUT_BUF, buf, r, Minus(e, r))
      BY Contents DEF ready, line
    <2>3. Append(ready \o line, c) = (ready \o line) \o <<c>> /\ Append(line, c) = line \o <<c>>
      BY <1>4, AppendIsConcat, ConcatProperties
    <2>4. (ready \o line) \o <<c>> = ready \o (line \o <<c>>)
      BY <1>4, ConcatAssociative
    <2>. QED  BY <2>1, <2>2, <2>3, <2>4
  <1>10. Span(INPUT_BUF, buf', r, Minus(w, r)) = ready
    <2>1. Span(INPUT_BUF, buf', r, Minus(e, r)) = Span(INPUT_BUF, buf, r, Minus(e, r))
      BY <1>put, SpanKept
    <2>2. /\ IsRing(Chars, INPUT_BUF, buf) /\ IsRing(Chars, INPUT_BUF, buf') /\ r \in Int
          /\ Minus(e, r) \in Nat /\ Minus(w, r) \in 0..Minus(e, r)
      BY <1>2, <1>3, <1>4
    <2>3. SubSeq(Span(INPUT_BUF, buf, r, Minus(e, r)), 1, Minus(w, r)) = Span(INPUT_BUF, buf, r, Minus(w, r))
      BY <2>2, SpanPrefix
    <2>4. SubSeq(Span(INPUT_BUF, buf', r, Minus(e, r)), 1, Minus(w, r)) = Span(INPUT_BUF, buf', r, Minus(w, r))
      BY <2>2, SpanPrefix
    <2>. QED  BY <1>4, <2>1, <2>3, <2>4
  <1>11. Len(ready) + Len(line) < INPUT_BUF
    BY <1>1, <1>3, <1>4, Sizes
  <1>12. Len(ready) + Len(Append(line, c)) = INPUT_BUF <=> z = (r + INPUT_BUF) % W
    BY <1>1, <1>3, <1>4, <1>6, AppendProperties
  <1>13. CASE Commits(c)
    <2>1. w' = z
      BY <1>5, <1>13 DEF Typed
    <2>2. Between(r, w)' = ready \o Append(line, c)
      <3>1. Between(r, w)' = Span(INPUT_BUF, buf', r, Minus(z, r))
        BY <1>5, <2>1 DEF Between, Span, Cell, Minus
      <3>. QED  BY <3>1, <1>6, <1>9
    <2>3. Between(w, e)' = <<>>
      <3>1. Between(w, e)' = Span(INPUT_BUF, buf', z, 0)
        <4>1. Between(w, e)' = Span(INPUT_BUF, buf', z, Minus(z, z))
          BY <1>5, <2>1 DEF Between, Span, Cell, Minus
        <4>. QED  BY <4>1, <1>6
      <3>2. Span(INPUT_BUF, buf', z, 0) \in Seq(Chars) /\ Len(Span(INPUT_BUF, buf', z, 0)) = 0
        BY <1>2, <1>4, SpanSeq
      <3>. QED  BY <3>1, <3>2, EmptySeq
    <2>4. c \in {NL, EOT} \/ Len(ready) + Len(Append(line, c)) = INPUT_BUF
      BY <1>12, <1>13 DEF Commits, z
    <2>. QED  BY <1>11, <2>2, <2>3, <2>4 DEF Promise!Type, ready, line, Typed
  <1>14. CASE ~Commits(c)
    <2>1. w' = w
      BY <1>14 DEF Typed
    <2>2. Between(r, w)' = ready
      <3>1. Between(r, w)' = Span(INPUT_BUF, buf', r, Minus(w, r))
        BY <1>5, <2>1 DEF Between, Span, Cell, Minus
      <3>. QED  BY <3>1, <1>10
    <2>3. Between(w, e)' = Append(line, c)
      <3>1. Between(w, e)' = Span(INPUT_BUF, buf', w, Minus(z, w))
        BY <1>5, <2>1 DEF Between, Span, Cell, Minus
      <3>. QED  BY <3>1, <1>6, <1>8
    <2>4. ~(c \in {NL, EOT} \/ Len(ready) + Len(Append(line, c)) = INPUT_BUF)
      BY <1>12, <1>14 DEF Commits, z
    <2>. QED  BY <1>11, <2>2, <2>3, <2>4 DEF Promise!Type, ready, line, Typed
  <1>. QED  BY <1>13, <1>14

\* Taking characters back shortens the line, and nothing else.
LEMMA EraseErases ==
  ASSUME Inv, NEW k \in 0..Minus(e, w), e' = Minus(e, k), UNCHANGED <<buf, r, w, got>>
  PROVE  Promise!Erase
  <1>1. TypeOK
    BY DEF Inv
  <1>2. /\ w \in 0..W-1 /\ e \in 0..W-1 /\ w \in Int
        /\ Minus(e, w) \in Nat /\ Minus(e, w) - k \in 0..Minus(e, w)
    BY <1>1, Distances, Sizes DEF TypeOK
  <1>3. Minus(e', w) = Minus(e, w) - k
    BY <1>2, Retreat
  <1>4. /\ IsRing(Chars, INPUT_BUF, buf) /\ Len(Between(w, e)) = Minus(e, w)
        /\ Between(w, e) = Span(INPUT_BUF, buf, w, Minus(e, w))
    BY <1>1, BetweenIs
  <1>5. Between(w, e)' = Span(INPUT_BUF, buf, w, Minus(e, w) - k)
    <2>1. Between(w, e)' = Span(INPUT_BUF, buf, w, Minus(e', w))
      BY DEF Between, Span, Cell, Minus
    <2>. QED  BY <2>1, <1>3
  <1>6. Between(w, e)' = SubSeq(Between(w, e), 1, Minus(e, w) - k)
    <2>1. w \in Int /\ Minus(e, w) \in Nat /\ Minus(e, w) - k \in 0..Minus(e, w)
      BY <1>2
    <2>2. SubSeq(Span(INPUT_BUF, buf, w, Minus(e, w)), 1, Minus(e, w) - k)
            = Span(INPUT_BUF, buf, w, Minus(e, w) - k)
      BY <1>4, <2>1, SpanPrefix
    <2>. QED  BY <1>4, <1>5, <2>2
  <1>7. UNCHANGED <<Between(r, w), got>>
    BY DEF Between, Cell, Minus
  <1>. QED  BY <1>2, <1>4, <1>6, <1>7 DEF Promise!Erase

\* A read character is the first of the committed ones.
LEMMA ReadTakes ==
  ASSUME Inv, ~Empty, r' = (r + 1) % W, got' = buf[Cell(r)], UNCHANGED <<buf, w, e>>
  PROVE  Promise!Take
  <1>1. TypeOK
    BY DEF Inv
  <1>2. r \in 0..W-1 /\ w \in 0..W-1 /\ r \in Int /\ w # r
    BY <1>1 DEF TypeOK, Empty
  <1>3. Minus(w, r) \in Nat \ {0} /\ Minus(w, r) - 1 \in Nat
    BY <1>1, <1>2, MinusZero, Distances, Sizes
  <1>4. Minus(w, r') = Minus(w, r) - 1
    BY <1>2, Consume
  <1>5. IsRing(Chars, INPUT_BUF, buf) /\ Between(r, w) = Span(INPUT_BUF, buf, r, Minus(w, r))
    BY <1>1, BetweenIs
  <1>6. Between(r, w)' = Span(INPUT_BUF, buf, (r + 1) % W, Minus(w, r) - 1)
    <2>1. Between(r, w)' = Span(INPUT_BUF, buf, (r + 1) % W, Minus(w, r'))
      BY DEF Between, Span, Cell, Minus
    <2>. QED  BY <2>1, <1>4
  <1>7. Span(INPUT_BUF, buf, r + 1, Minus(w, r) - 1) = Span(INPUT_BUF, buf, (r + 1) % W, Minus(w, r) - 1)
    BY <1>2, <1>3, SpanNext
  <1>8. /\ Between(r, w) # <<>> /\ Head(Between(r, w)) = buf[Cell(r)]
        /\ Tail(Between(r, w)) = Between(r, w)'
    BY <1>2, <1>3, <1>5, <1>6, <1>7, SpanTake DEF Cell
  <1>9. UNCHANGED Between(w, e)
    BY DEF Between, Cell, Minus
  <1>. QED  BY <1>8, <1>9 DEF Promise!Take

\* A step that leaves the ring and got alone is not seen.
LEMMA Unseen ==
  ASSUME UNCHANGED <<input, got>>
  PROVE  UNCHANGED Promise!vars
  BY DEF input, Between, Cell, Minus, Promise!vars

\* The ring starts as an empty terminal.
LEMMA InitTerminal == Init => Promise!Init
  <1>. SUFFICES ASSUME Init PROVE Promise!Init
    OBVIOUS
  <1>1. TypeOK /\ r = w /\ e = w /\ w \in 0..W-1
    BY InvInit DEF Inv, Init, TypeOK
  <1>2. Minus(w, r) = 0 /\ Minus(e, w) = 0
    BY <1>1, MinusZero
  <1>3. /\ Between(r, w) \in Seq(Chars) /\ Len(Between(r, w)) = 0
        /\ Between(w, e) \in Seq(Chars) /\ Len(Between(w, e)) = 0
    BY <1>1, <1>2, BetweenIs
  <1>4. Between(r, w) = <<>> /\ Between(w, e) = <<>>
    BY <1>3, EmptySeq
  <1>. QED  BY <1>4 DEF Init, Promise!Init

\* Every step of the console is a step of the terminal, or is not seen.
LEMMA StepTerminal == Inv /\ Inv' /\ [Next]_vars => [Promise!Next]_Promise!vars
  <1>. SUFFICES ASSUME Inv, Inv', [Next]_vars PROVE Promise!Next \/ UNCHANGED Promise!vars
    OBVIOUS
  <1>0. TypeOK
    BY DEF Inv
  <1>1. CASE UNCHANGED vars
    BY <1>1, Unseen DEF vars
  <1>2. ASSUME NEW p \in Readers, InCall(p) PROVE Promise!Next \/ UNCHANGED Promise!vars
    <2>1. CASE Acquire(p) \/ ReadKilled(p) \/ ReadBlock(p) \/ Sleep(p) \/ ReadFull(p)
      BY <2>1, Unseen DEF Acquire, ReadKilled, ReadBlock, Sleep, ReadFull
    <2>2. CASE ReadChar(p)
      BY <2>2, ReadTakes DEF ReadChar, Promise!Next
    <2>3. CASE ReadLine(p)
      BY <2>3, ReadTakes DEF ReadLine, Promise!Next
    <2>4. CASE ReadEof(p) /\ Kept(p)
      <3>1. r' = r /\ got' = got
        <4>1. n[p] # target[p]
          BY <2>4, <1>0 DEF Kept, TypeOK
        <4>. QED  BY <2>4, <4>1 DEF ReadEof
      <3>. QED  BY <2>4, <3>1, Unseen DEF ReadEof, input
    <2>5. CASE ReadEof(p) /\ ~Kept(p)
      <3>1. n[p] = target[p]
        BY <2>5, <1>0 DEF Kept, TypeOK, Inv, ReaderState
      <3>2. r' = (r + 1) % W /\ got' = buf[Cell(r)]
        BY <2>5, <3>1 DEF ReadEof
      <3>. QED  BY <2>5, <3>2, ReadTakes DEF ReadEof, Promise!Next
    <2>. QED  BY <1>2, <2>1, <2>2, <2>3, <2>4, <2>5 DEF InCall
  <1>3. ASSUME NEW p \in Readers, NEW k \in Reqs, ReadCall(p, k) PROVE UNCHANGED Promise!vars
    BY <1>3, Unseen DEF ReadCall
  <1>4. ASSUME NEW p \in Readers, kill(p) \/ Replaced(p) PROVE UNCHANGED Promise!vars
    BY <1>4, Unseen DEF kill, Replaced
  <1>5. CASE \E c \in Chars : Typed(c)
    BY <1>5, TypedTypes DEF Promise!Next
  <1>6. CASE Backspace
    <2>1. 1 \in 0..Minus(e, w)
      <3>1. Minus(e, w) # 0
        BY <1>0, <1>6, MinusZero DEF Backspace, TypeOK
      <3>. QED  BY <3>1, <1>0, Distances, Sizes
    <2>. QED  BY <1>6, <2>1, EraseErases DEF Backspace, Promise!Next
  <1>7. CASE KillLine
    BY <1>7, EraseErases DEF KillLine, Promise!Next
  <1>. QED  BY <1>1, <1>2, <1>3, <1>4, <1>5, <1>6, <1>7 DEF Next, Keyboard

\* The ring with its three wrapping indices is an editable line and a queue of
\* committed characters, whatever its readers, kill and the keyboard do.
THEOREM ConsoleIsTerminal == Spec => ImplementsTerminal
  BY InitTerminal, StepTerminal, InvHolds, PTL DEF Spec, ImplementsTerminal, Promise!Spec
=============================================================================
