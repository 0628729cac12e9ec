--------------------------- MODULE MirrorFsProofs ---------------------------
(***************************************************************************)
(* Proofs about MirrorFs, for any block size, number of pointers, length   *)
(* of the file and set of bytes.  The inode on disk covers the file        *)
(* whatever happens; that two of three copies agree, and that a read gets  *)
(* what was written, is proved for one mishap, a crash or a bad block,     *)
(* and for reads that compare no more than the two buffers.                *)
(***************************************************************************)
EXTENDS MirrorFs, Lemmas

-----------------------------------------------------------------------------
(* blocks and their copies *)

Blk(x) == x \div BSIZE
Pt(k, c) == k * 3 + c
Groups == {k \in Pos : Pt(k, 2) \in Pos}

-----------------------------------------------------------------------------
(* the invariant *)

\* the records of the calls in progress
Writing == {"map", "copy", "update", "size"}
WriteOps == [name : Writing, x : Nat, rest : Nat, v : Val, copy : Copies]
ReadOps(dst) == [name : {"read"}, off : Nat, x : Nat, rest : Nat, n : Nat, dst : {dst},
                 d12 : BOOLEAN, d13 : BOOLEAN, d23 : BOOLEAN, past : BOOLEAN]

\* a call in progress stays within the file and has something to do
OpState ==
  \/ op = Idle
  \/ /\ op \in WriteOps /\ op.x + op.rest <= MaxSize /\ res = NoRes
     /\ op.name \in {"map", "copy"} => op.rest > 0
  \/ /\ op \in ReadOps(op.dst) /\ op.x + op.rest <= size /\ op.rest > 0 /\ res = NoRes
     /\ op.off <= op.x /\ DOMAIN op.dst = op.off..op.x-1 /\ \E len \in Lens : op.n <= len

\* the positions an inode with pointers a can reach, and the bytes it covers
Have(a) == a \cup (IF IND \in a THEN inds ELSE {})
Covered(x, a) == InRange(x) /\ \A c \in Copies : mbmap(x, c) \in Have(a)

\* pointers are set for all copies of a block or for none
Closed(S) == \A k \in Groups : \A c, d \in Copies : Pt(k, c) \in S => Pt(k, d) \in S

\* The inode on disk lags behind by pointers only, and covers the file.
Pointers ==
  /\ daddrs \subseteq addrs /\ dsize = size
  /\ Closed(addrs) /\ Closed(daddrs) /\ Closed(inds)
  /\ \A x \in 0..size-1 : Covered(x, daddrs)
  /\ op.name \in Writing => \A x \in 0..op.x-1 : Covered(x, addrs)
  /\ op.name = "copy" => Covered(op.x, addrs)
  /\ op.name = "size" => daddrs = addrs

\* Copies that were not damaged have a byte the file may have.
Lawful(x) ==
  \A c \in Copies : mbmap(x, c) \notin bad =>
    disk[mbmap(x, c)][Off(x)] \in may[x] /\ mem[mbmap(x, c)][Off(x)] \in may[x]
Bytes ==
  /\ \A x \in 0..size-1 : Lawful(x)
  /\ op.name \in Writing => \A x \in 0..op.x-1 : Lawful(x)

\* the block being written, as it will be, and the copies that are so already
New(blk) == Patched(blk, op.x, op.rest, op.v)
Busy(k) == op.name = "copy" /\ k = Blk(op.x)
Done ==
  /\ op.name = "map" => op.copy = 0
  /\ op.name = "copy" => \A c \in Copies : c < op.copy =>
       /\ New(disk[Pt(Blk(op.x), c)]) = disk[Pt(Blk(op.x), c)]
       /\ New(mem[Pt(Blk(op.x), c)]) = mem[Pt(Blk(op.x), c)]

\* copies c and d of block k agree, as far as they can during a write
Agree(k, c, d) ==
  IF Busy(k)
    THEN /\ New(disk[Pt(k, c)]) = New(disk[Pt(k, d)])
         /\ (c < op.copy <=> d < op.copy) => disk[Pt(k, c)] = disk[Pt(k, d)]
    ELSE disk[Pt(k, c)] = disk[Pt(k, d)]

\* All copies but copy h of block g are on disk as in memory, and agree.
Mirrors(g, h) ==
  \A k \in Groups : \A c \in Copies : ~(k = g /\ c = h) =>
    /\ mem[Pt(k, c)] = disk[Pt(k, c)]
    /\ \A d \in Copies : ~(k = g /\ d = h) => Agree(k, c, d)

\* a read finds differences with copy h only, until it has compared past a buffer
Flags(h) ==
  op.name = "read" => op.past \/ ((op.d12 => h # 2) /\ (op.d13 => h # 1) /\ (op.d23 => h # 0))

NoMishap == bad = {} /\ crashes = 0

\* At most one copy of one block differs, and only after a mishap.
OneOdd ==
  \E g \in Groups \cup {-1}, h \in Copies :
    /\ NoMishap => g = -1
    /\ bad \subseteq {Pt(g, h)} /\ Mirrors(g, h) /\ Flags(h)

\* what was read is what the file may have, but for a damaged third copy
Told(dst) == \A y \in DOMAIN dst : dst[y] \in may[y] \/ mbmap(y, 2) \in bad
Answers ==
  /\ res = NoRes \/ (res.ret = "-1" /\ res.past) \/ (res.ret = "n" /\ Told(res.dst))
  /\ op.name = "read" => Told(op.dst)

Inv == TypeOK /\ OpState /\ Pointers
MirrorInv == Done /\ Bytes /\ OneOdd /\ Answers

-----------------------------------------------------------------------------
(* positions and bytes *)

\* The layout is one of natural numbers.
LEMMA Layout ==
  /\ BSIZE \in Nat \ {0} /\ MAXFILE \in Nat /\ NDIRECT \in Nat /\ Pos = 0..MAXFILE-1 /\ IND = MAXFILE
  /\ Pos \subseteq Nat /\ IND \notin Pos /\ IND \in Int
  /\ Copies = {0, 1, 2} /\ Offs = 0..BSIZE-1 /\ MaxSize \in Nat /\ Lens \subseteq Nat \ {0}
  BY LayoutAssumption, BSIZEAssumption, InputAssumption DEF MAXFILE, Pos, IND, Copies, Offs

\* Every byte has a block and a place in it, and is the only one there.
LEMMA Places ==
  /\ \A x \in Nat : Blk(x) \in Nat /\ Off(x) \in Offs /\ x = BSIZE * Blk(x) + Off(x)
  /\ \A x \in Nat : \A c : mbmap(x, c) = Pt(Blk(x), c)
  <1>1. ASSUME NEW x \in Nat PROVE Blk(x) \in Nat /\ Off(x) \in Offs /\ x = BSIZE * Blk(x) + Off(x)
    <2>1. Blk(x) \in Int /\ Off(x) \in 0..BSIZE-1 /\ x = (BSIZE * Blk(x)) + Off(x)
      BY Layout, DivMod DEF Blk, Off
    <2>2. Blk(x) >= 0
      BY Layout, <2>1
    <2>. QED  BY <2>1, <2>2, Layout
  <1>2. \A x \in Nat : \A c : mbmap(x, c) = Pt(Blk(x), c)
    BY DEF mbmap, Pt, Blk
  <1>. QED  BY <1>1, <1>2

\* Different copies have different positions.
LEMMA Apart ==
  ASSUME NEW k \in Int, NEW l \in Int, NEW c \in Copies, NEW d \in Copies, Pt(k, c) = Pt(l, d)
  PROVE  k = l /\ c = d
  BY Layout DEF Pt

\* The positions of a group are positions, none of them the indirect block's.
LEMMA InGroup ==
  /\ Groups \subseteq Nat
  /\ \A k \in Groups : \A c \in Copies : Pt(k, c) \in Pos /\ Pt(k, c) # IND
  /\ \A k \in Nat : (\A c \in Copies : Pt(k, c) \in Pos) => k \in Groups
  /\ \A x \in Nat : InRange(x) <=> Blk(x) \in Groups
  <1>1. Groups \subseteq Nat
    BY Layout DEF Groups
  <1>2. \A k \in Groups : \A c \in Copies : Pt(k, c) \in Pos /\ Pt(k, c) # IND
    BY Layout DEF Groups, Pt
  <1>3. \A k \in Nat : (\A c \in Copies : Pt(k, c) \in Pos) => k \in Groups
    BY Layout DEF Groups, Pt
  <1>4. ASSUME NEW x \in Nat PROVE InRange(x) <=> Blk(x) \in Groups
    <2>1. Blk(x) \in Nat /\ \A c \in Copies : mbmap(x, c) = Pt(Blk(x), c)
      BY Places
    <2>2. InRange(x) <=> \A c \in Copies : Pt(Blk(x), c) \in Pos
      BY <2>1 DEF InRange
    <2>. QED  BY <1>2, <1>3, <2>1, <2>2
  <1>. QED  BY <1>1, <1>2, <1>3, <1>4

\* A group lies on one side of the last direct pointer.
LEMMA OneSide ==
  ASSUME NEW k \in Nat, NEW c \in Copies, NEW d \in Copies
  PROVE  Pt(k, c) < NDIRECT <=> Pt(k, d) < NDIRECT
  <1>. DEFINE b == NDIRECT \div 3
  <1>1. NDIRECT = 3 * b /\ b \in Int
    BY LayoutAssumption
  <1>. HIDE DEF b
  <1>. QED  BY <1>1, Layout DEF Pt

\* A chunk is not empty, stays in its block, and ends there or ends the request.
LEMMA ChunkIs ==
  ASSUME NEW x \in Nat, NEW rest \in Nat \ {0}
  PROVE  /\ Chunk(x, rest) \in Nat \ {0} /\ Chunk(x, rest) <= rest /\ Off(x) + Chunk(x, rest) <= BSIZE
         /\ \A y \in Nat : Blk(y) = Blk(x) =>
              (Off(y) >= Off(x) /\ Off(y) < Off(x) + Chunk(x, rest) <=> y \in x..x+Chunk(x, rest)-1)
         /\ \A y \in x..x+Chunk(x, rest)-1 : y \in Nat /\ Blk(y) = Blk(x)
  <1>. DEFINE m == Chunk(x, rest)
  <1>1. Off(x) \in 0..BSIZE-1 /\ Blk(x) \in Nat /\ x = BSIZE * Blk(x) + Off(x) /\ BSIZE \in Nat \ {0}
    BY Places, Layout
  <1>2. m \in Nat \ {0} /\ m <= rest /\ Off(x) + m <= BSIZE
    BY <1>1 DEF Chunk, MinOf
  <1>. HIDE DEF m
  <1>. DEFINE b == BSIZE * Blk(x)
  <1>3. b \in Nat /\ x = b + Off(x)
    BY <1>1
  <1>4. ASSUME NEW y \in Nat, Blk(y) = Blk(x)
        PROVE  Off(y) >= Off(x) /\ Off(y) < Off(x) + m <=> y \in x..x+m-1
    <2>1. y = b + Off(y) /\ Off(y) \in 0..BSIZE-1
      BY <1>4, Places, Layout
    <2>. HIDE DEF b
    <2>. QED  BY <1>1, <1>2, <1>3, <2>1
  <1>5. ASSUME NEW y \in x..x+m-1 PROVE y \in Nat /\ Blk(y) = Blk(x)
    <2>1. y \in Nat /\ y = BSIZE * Blk(y) + Off(y) /\ Off(y) \in 0..BSIZE-1 /\ Blk(y) \in Nat
      <3>1. y \in Nat
        BY <1>2
      <3>. QED  BY <3>1, Places, Layout
    <2>2. (Off(x) + (y - x)) \in 0..BSIZE-1
      BY <1>1, <1>2
    <2>3. (Off(x) + (y - x)) - Off(y) = BSIZE * (Blk(y) - Blk(x))
      <3>. DEFINE a == Blk(y)
                  e == Blk(x)
      <3>1. y = BSIZE * a + Off(y) /\ x = BSIZE * e + Off(x) /\ a \in Int /\ e \in Int
        BY <1>1, <2>1
      <3>2. Off(x) \in Int /\ Off(y) \in Int /\ y \in Int
        BY <1>1, <2>1
      <3>. HIDE DEF a, e
      <3>. DEFINE A == BSIZE * a
                  E == BSIZE * e
      <3>3. BSIZE * (a - e) = A - E /\ A \in Int /\ E \in Int
        BY <1>1, <3>1
      <3>4. y = A + Off(y) /\ x = E + Off(x)
        BY <3>1
      <3>5. (Off(x) + (y - x)) - Off(y) = BSIZE * (a - e)
        <4>. DEFINE p == Off(x)
                    q == Off(y)
        <4>1. p \in Int /\ q \in Int /\ y = A + q /\ x = E + p
          BY <3>2, <3>4
        <4>. HIDE DEF A, E, p, q
        <4>2. (p + (y - x)) - q = A - E
          BY <3>3, <4>1
        <4>. QED  BY <3>3, <4>2 DEF p, q
      <3>. QED  BY <3>5 DEF a, e
    <2>4. Blk(y) - Blk(x) \in Int
      BY <1>1, <2>1
    <2>5. Blk(y) - Blk(x) = 0
      BY <1>1, <2>1, <2>2, <2>3, <2>4, Multiple
    <2>. QED  BY <1>1, <2>1, <2>5
  <1>. QED  BY <1>2, <1>4, <1>5 DEF m

\* A patched or merged block is a block, and patching it again changes nothing.
LEMMA Blocks ==
  ASSUME NEW b \in [Offs -> Byte], NEW s \in [Offs -> Byte], NEW v \in Val, NEW x, NEW rest
  PROVE  /\ Patched(b, x, rest, v) \in [Offs -> Byte] /\ Merged(b, s, x, rest) \in [Offs -> Byte]
         /\ Patched(Patched(b, x, rest, v), x, rest, v) = Patched(b, x, rest, v)
         /\ Merged(b, b, x, rest) = b
  <1>1. v \in Byte
    BY DEF Byte
  <1>2. \A j \in Offs : b[j] \in Byte /\ s[j] \in Byte
    OBVIOUS
  <1>3. Patched(b, x, rest, v) \in [Offs -> Byte]
    BY <1>1, <1>2 DEF Patched
  <1>4. Merged(b, s, x, rest) \in [Offs -> Byte]
    BY <1>2 DEF Merged
  <1>5. Patched(Patched(b, x, rest, v), x, rest, v) = Patched(b, x, rest, v)
    BY DEF Patched
  <1>6. Merged(b, b, x, rest) = b
    BY DEF Merged
  <1>. QED  BY <1>3, <1>4, <1>5, <1>6

-----------------------------------------------------------------------------
(* what the inode covers *)

\* The call in progress, by its name.
LEMMA OpIs ==
  ASSUME OpState
  PROVE  /\ op.name \in Writing => /\ op \in WriteOps /\ op.x \in Nat /\ op.rest \in Nat /\ op.v \in Val
                                   /\ op.copy \in Copies /\ op.x + op.rest <= MaxSize /\ res = NoRes
                                   /\ op.name \in {"map", "copy"} => op.rest \in Nat \ {0}
         /\ op.name = "read" => /\ op \in ReadOps(op.dst) /\ op.off \in Nat /\ op.x \in Nat
                                /\ op.rest \in Nat \ {0} /\ op.n \in Nat
                                /\ op.d12 \in BOOLEAN /\ op.d13 \in BOOLEAN /\ op.d23 \in BOOLEAN /\ op.past \in BOOLEAN
                                /\ op.x + op.rest <= size /\ res = NoRes /\ op.off <= op.x
                                /\ DOMAIN op.dst = op.off..op.x-1 /\ \E len \in Lens : op.n <= len
         /\ op.name \notin Writing \cup {"read"} => op = Idle
  BY DEF OpState, WriteOps, ReadOps, Writing, Idle

LEMMA CoveredMore ==
  ASSUME NEW x, daddrs \subseteq addrs, Covered(x, daddrs)
  PROVE  Covered(x, addrs)
  BY DEF Covered, Have

\* Where the inode is left alone and no write is in progress, it is as good as before.
LEMMA PointersKept ==
  ASSUME Pointers, UNCHANGED inode, op'.name \notin Writing
  PROVE  Pointers'
  BY DEF Pointers, inode, Covered, Have, Closed, Writing

LEMMA InitInv == Init => Inv
  <1>. SUFFICES ASSUME Init PROVE Inv
    OBVIOUS
  <1>1. TypeOK
    <2>1. Zero \in [Offs -> Byte]
      BY DEF Zero, Byte
    <2>2. size \in 0..MaxSize /\ dsize \in 0..MaxSize /\ crashes \in 0..MaxMishaps
      BY Layout, BoundAssumption DEF Init
    <2>3. disk \in [Pos -> [Offs -> Byte]] /\ mem \in [Pos -> [Offs -> Byte]]
      BY <2>1 DEF Init
    <2>4. may \in [0..MaxSize-1 -> SUBSET Val]
      BY DEF Init
    <2>5. op.name = "idle" /\ wild \in BOOLEAN /\ misled \in BOOLEAN
      BY DEF Init, Idle
    <2>6. addrs = {} /\ daddrs = {} /\ inds = {} /\ bad = {}
      BY DEF Init
    <2>. QED  BY <2>2, <2>3, <2>4, <2>5, <2>6 DEF TypeOK
  <1>2. OpState
    BY DEF Init, OpState
  <1>3. Pointers
    <2>1. \A x \in 0..0-1 : FALSE
      OBVIOUS
    <2>. QED  BY <2>1 DEF Init, Pointers, Closed, Idle, Writing
  <1>. QED  BY <1>1, <1>2, <1>3 DEF Inv

LEMMA WriteCallInv ==
  ASSUME Inv, NEW off \in 0..MaxSize-1, NEW len \in Lens, NEW v \in Val, WriteCall(off, len, v)
  PROVE  Inv'
  <1>. DEFINE n == IF off + len > MAXFILE * BSIZE THEN MAXFILE * BSIZE - off ELSE len
  <1>1. /\ op = Idle /\ off <= size /\ n > 0 /\ off + n <= MaxSize
        /\ op' = [name |-> "map", x |-> off, rest |-> n, v |-> v, copy |-> 0]
        /\ res' = NoRes /\ UNCHANGED <<inode, disk, mem, wild, may, bad, crashes, misled>>
    BY DEF WriteCall
  <1>2. n \in Nat /\ off \in Nat
    <2>1. MAXFILE * BSIZE \in Int /\ len \in Int /\ off \in Nat
      BY Layout
    <2>2. n \in Int
      BY <2>1
    <2>. HIDE DEF n
    <2>. QED  BY <1>1, <2>1, <2>2
  <1>. HIDE DEF n
  <1>3. op'.name = "map" /\ op'.x = off /\ op'.rest = n
    BY <1>1
  <1>4. TypeOK'
    BY <1>1, <1>3 DEF Inv, TypeOK, inode
  <1>5. OpState'
    <2>1. op' \in WriteOps
      BY <1>1, <1>2, Layout DEF WriteOps, Writing
    <2>. QED  BY <1>1, <1>2, <1>3, <2>1 DEF OpState
  <1>6. Pointers'
    <2>1. ASSUME NEW x \in 0..off-1 PROVE Covered(x, addrs)
      <3>1. x \in 0..size-1 /\ daddrs \subseteq addrs
        BY <1>1 DEF Inv, TypeOK, Pointers
      <3>. QED  BY <3>1, CoveredMore DEF Inv, Pointers
    <2>. QED  BY <1>1, <1>3, <2>1 DEF Inv, Pointers, inode, Covered, Have, Closed, Writing
  <1>. QED  BY <1>4, <1>5, <1>6 DEF Inv

\* the positions that WriteMap finds without a block
Want == {Pt(Blk(op.x), c) : c \in Copies}
Fresh == Want \ Have(addrs)

\* What WriteMap makes of the pointers and of the blocks: all copies get a fresh
\* block, or none.
LEMMA Allocated ==
  ASSUME Inv, op.name = "map", InRange(op.x), Allocate(op.x)
  PROVE  /\ addrs \subseteq addrs' /\ addrs' \subseteq Pos \cup {IND} /\ inds' \subseteq Pos
         /\ Want \subseteq Pos /\ Want \subseteq Have(addrs)'
         /\ Have(addrs) \subseteq Have(addrs)'
         /\ daddrs' = daddrs => Have(daddrs) \subseteq Have(daddrs)'
         /\ Closed(addrs)' /\ Closed(inds)'
         /\ mem' = [p \in Pos |-> IF p \in Fresh THEN Zero ELSE mem[p]]
         /\ disk' = [p \in Pos |-> IF p \in Fresh THEN Zero ELSE disk[p]]
         /\ Fresh = {} \/ Fresh = Want
  <1>. DEFINE k == Blk(op.x)
              direct == {p \in Want : p < NDIRECT}
              old == IF IND \in addrs THEN inds ELSE {}
  <1>0. op.x \in Nat
    BY OpIs DEF Inv, Writing
  <1>1. k \in Groups /\ k \in Nat
    BY <1>0, InGroup, Places
  <1>2. Want = {mbmap(op.x, c) : c \in Copies}
    BY <1>0, Places DEF Want
  <1>3. /\ addrs' = addrs \cup direct \cup (IF Want = direct THEN {} ELSE {IND})
        /\ inds' = IF Want = direct THEN inds ELSE old \cup (Want \ direct)
        /\ mem' = [p \in Pos |-> IF p \in Fresh THEN Zero ELSE mem[p]]
        /\ disk' = [p \in Pos |-> IF p \in Fresh THEN Zero ELSE disk[p]]
    BY <1>2 DEF Allocate, Fresh, Have
  <1>4. direct = Want \/ (direct = {} /\ Want # direct)
    <2>1. \A c, d \in Copies : Pt(k, c) < NDIRECT <=> Pt(k, d) < NDIRECT
      BY <1>1, OneSide
    <2>2. Pt(k, 0) \in Want
      BY Layout DEF Want
    <2>. QED  BY <2>1, <2>2 DEF Want
  <1>5. Want \subseteq Pos /\ IND \notin Want
    BY <1>1, InGroup DEF Want
  <1>6. /\ addrs \subseteq Pos \cup {IND} /\ inds \subseteq Pos /\ daddrs \subseteq addrs
        /\ Closed(addrs) /\ Closed(inds)
    BY DEF Inv, TypeOK, Pointers
  <1>7. Closed(Want) /\ \A l \in Groups : \A c \in Copies : Pt(l, c) # IND
    <2>1. ASSUME NEW l \in Groups, NEW c \in Copies, NEW d \in Copies, Pt(l, c) \in Want PROVE Pt(l, d) \in Want
      <3>1. PICK e \in Copies : Pt(l, c) = Pt(k, e)
        BY <2>1 DEF Want
      <3>2. l \in Int /\ k \in Int
        BY <1>1, InGroup
      <3>3. l = k
        BY <3>1, <3>2, Apart
      <3>. QED  BY <3>3 DEF Want
    <2>. QED  BY <2>1, InGroup DEF Closed
  <1>. HIDE DEF direct, k
  <1>8. Fresh = {} \/ Fresh = Want
    <2>1. Closed(Have(addrs))
      BY <1>6 DEF Closed, Have
    <2>2. \A c, d \in Copies : Pt(Blk(op.x), c) \in Have(addrs) => Pt(Blk(op.x), d) \in Have(addrs)
      BY <1>1, <2>1 DEF Closed, k
    <2>. QED  BY <2>2 DEF Fresh, Want
  <1>9. CASE direct = Want
    <2>1. addrs' = addrs \cup Want /\ inds' = inds
      BY <1>3, <1>9
    <2>2. Closed(addrs)' /\ Closed(inds)'
      BY <1>6, <1>7, <2>1 DEF Closed
    <2>3. /\ addrs \subseteq addrs' /\ addrs' \subseteq Pos \cup {IND} /\ inds' \subseteq Pos
          /\ Want \subseteq Have(addrs)' /\ Have(addrs) \subseteq Have(addrs)'
          /\ daddrs' = daddrs => Have(daddrs) \subseteq Have(daddrs)'
      BY <1>5, <1>6, <2>1 DEF Have
    <2>. QED  BY <1>3, <1>5, <1>8, <2>2, <2>3
  <1>10. CASE direct = {} /\ Want # direct
    <2>1. addrs' = addrs \cup {IND} /\ inds' = old \cup Want
      BY <1>3, <1>10
    <2>2. Closed(addrs)' /\ Closed(inds)'
      BY <1>6, <1>7, <2>1 DEF Closed
    <2>3. /\ addrs \subseteq addrs' /\ addrs' \subseteq Pos \cup {IND} /\ inds' \subseteq Pos
          /\ Want \subseteq Have(addrs)' /\ Have(addrs) \subseteq Have(addrs)'
          /\ daddrs' = daddrs => Have(daddrs) \subseteq Have(daddrs)'
      BY <1>5, <1>6, <2>1 DEF Have
    <2>. QED  BY <1>3, <1>5, <1>8, <2>2, <2>3
  <1>. QED  BY <1>4, <1>9, <1>10

LEMMA WriteMapInv ==
  ASSUME Inv, WriteMap
  PROVE  Inv'
  <1>0. /\ op.name = "map" /\ op.name \in Writing
        /\ UNCHANGED <<size, daddrs, dsize, res, may, bad, crashes, misled>>
    BY DEF WriteMap, Writing
  <1>1. /\ op \in WriteOps /\ op.x \in Nat /\ op.rest \in Nat \ {0} /\ op.x + op.rest <= MaxSize /\ res = NoRes
    BY <1>0, OpIs DEF Inv
  <1>2. CASE InRange(op.x)
    <2>1. Allocate(op.x) /\ op' = [op EXCEPT !.name = "copy"] /\ UNCHANGED wild
      BY <1>2 DEF WriteMap
    <2>2. op' \in WriteOps /\ op'.name = "copy" /\ op'.x = op.x /\ op'.rest = op.rest
      BY <1>1, <2>1 DEF WriteOps, Writing
    <2>3. TypeOK'
      <3>1. Zero \in [Offs -> Byte]
        BY DEF Zero, Byte
      <3>2. mem' \in [Pos -> [Offs -> Byte]] /\ disk' \in [Pos -> [Offs -> Byte]]
        BY <1>0, <1>2, <2>1, <3>1, Allocated DEF Inv, TypeOK
      <3>3. addrs' \subseteq Pos \cup {IND} /\ inds' \subseteq Pos
        BY <1>0, <1>2, <2>1, Allocated
      <3>. QED  BY <1>0, <2>1, <2>2, <3>2, <3>3 DEF Inv, TypeOK
    <2>4. OpState'
      BY <1>0, <1>1, <2>2 DEF OpState
    <2>5. Pointers'
      <3>1. /\ addrs \subseteq addrs' /\ Want \subseteq Have(addrs)'
            /\ Have(addrs) \subseteq Have(addrs)' /\ Have(daddrs) \subseteq Have(daddrs)'
            /\ Closed(addrs)' /\ Closed(inds)'
        BY <1>0, <1>2, <2>1, Allocated
      <3>2. Closed(daddrs)' /\ daddrs' \subseteq addrs' /\ dsize' = size' /\ size' = size
        BY <1>0, <3>1 DEF Inv, Pointers, Closed
      <3>3. \A x \in 0..size-1 : Covered(x, daddrs)'
        BY <3>1 DEF Inv, Pointers, Covered
      <3>4. \A x \in 0..op.x-1 : Covered(x, addrs)'
        BY <1>0, <3>1 DEF Inv, Pointers, Covered
      <3>5. Covered(op.x, addrs)'
        <4>1. \A c \in Copies : mbmap(op.x, c) \in Want
          BY <1>1, Places DEF Want
        <4>. QED  BY <1>2, <2>2, <3>1, <4>1 DEF Covered, InRange
      <3>6. op'.name # "size"
        BY <2>2
      <3>. QED  BY <2>2, <3>1, <3>2, <3>3, <3>4, <3>5, <3>6 DEF Pointers
    <2>. QED  BY <2>3, <2>4, <2>5 DEF Inv
  <1>3. CASE ~InRange(op.x)
    <2>1. wild' = TRUE /\ op' = Idle /\ UNCHANGED <<addrs, inds, disk, mem>>
      BY <1>3 DEF WriteMap
    <2>2. op'.name = "idle"
      BY <2>1 DEF Idle
    <2>3. TypeOK'
      BY <1>0, <2>1, <2>2 DEF Inv, TypeOK
    <2>4. OpState'
      BY <2>1 DEF OpState
    <2>5. Pointers'
      BY <1>0, <2>1, <2>2, PointersKept DEF Inv, inode, Writing
    <2>. QED  BY <2>3, <2>4, <2>5 DEF Inv
  <1>. QED  BY <1>2, <1>3

\* the copy that WriteCopy writes, and the bytes of the file it writes there
Here == Pt(Blk(op.x), op.copy)
Size == Chunk(op.x, op.rest)
Bytewise == op.x..op.x+Size-1

\* What WriteCopy does.
LEMMA WriteCopyIs ==
  ASSUME Inv, WriteCopy
  PROVE  /\ op.name = "copy" /\ op \in WriteOps /\ op.x \in Nat /\ op.rest \in Nat \ {0} /\ op.v \in Val
         /\ op.copy \in Copies /\ op.x + op.rest <= MaxSize /\ res = NoRes
         /\ Blk(op.x) \in Groups /\ Here \in Pos /\ mem[Here] \in [Offs -> Byte] /\ New(mem[Here]) \in [Offs -> Byte]
         /\ Size \in Nat \ {0} /\ Size <= op.rest
         /\ mem' = [mem EXCEPT ![Here] = New(mem[Here])] /\ disk' = [disk EXCEPT ![Here] = New(mem[Here])]
         /\ may' = [y \in DOMAIN may |-> IF y \notin Bytewise THEN may[y]
                                         ELSE IF op.copy = 2 THEN {op.v} ELSE may[y] \cup {op.v}]
         /\ op.copy < 2 => /\ op' \in WriteOps /\ op'.name = "copy" /\ op'.x = op.x /\ op'.rest = op.rest
                           /\ op'.v = op.v /\ op'.copy = op.copy + 1
         /\ ~(op.copy < 2) => /\ op' \in WriteOps /\ op'.name \in {"update", "map"}
                              /\ op'.x = op.x + Size /\ op'.rest = op.rest - Size /\ op'.copy = 0
                              /\ op'.name = "map" => op'.rest > 0
         /\ UNCHANGED <<inode, res, wild, bad, crashes, misled>>
  <1>0. op.name = "copy" /\ op.name \in Writing /\ UNCHANGED <<inode, res, wild, bad, crashes, misled>>
    BY DEF WriteCopy, Writing
  <1>1. /\ op \in WriteOps /\ op.x \in Nat /\ op.rest \in Nat \ {0} /\ op.v \in Val
        /\ op.copy \in Copies /\ op.x + op.rest <= MaxSize /\ res = NoRes
    BY <1>0, OpIs DEF Inv
  <1>2. Blk(op.x) \in Groups /\ Here \in Pos
    <2>1. InRange(op.x)
      BY <1>0 DEF Inv, Pointers, Covered
    <2>2. Blk(op.x) \in Groups
      BY <1>1, <2>1, InGroup
    <2>. QED  BY <1>1, <2>2, InGroup DEF Here
  <1>3. mem[Here] \in [Offs -> Byte] /\ New(mem[Here]) \in [Offs -> Byte]
    <2>1. mem[Here] \in [Offs -> Byte]
      BY <1>2 DEF Inv, TypeOK
    <2>. QED  BY <1>1, <2>1, Blocks DEF New
  <1>4. Size \in Nat \ {0} /\ Size <= op.rest
    BY <1>1, ChunkIs DEF Size
  <1>5. mbmap(op.x, op.copy) = Here
    BY <1>1, Places DEF Here
  <1>6. /\ mem' = [mem EXCEPT ![Here] = New(mem[Here])] /\ disk' = [disk EXCEPT ![Here] = New(mem[Here])]
        /\ may' = [y \in DOMAIN may |-> IF y \notin Bytewise THEN may[y]
                                        ELSE IF op.copy = 2 THEN {op.v} ELSE may[y] \cup {op.v}]
        /\ op' = IF op.copy < 2 THEN [op EXCEPT !.copy = @ + 1]
                 ELSE [op EXCEPT !.copy = 0, !.x = @ + Size, !.rest = @ - Size,
                                 !.name = IF op.rest = Size THEN "update" ELSE "map"]
    BY <1>5 DEF WriteCopy, Bytewise, Size, New
  <1>7. ASSUME op.copy < 2
        PROVE  /\ op' \in WriteOps /\ op'.name = "copy" /\ op'.x = op.x /\ op'.rest = op.rest
               /\ op'.v = op.v /\ op'.copy = op.copy + 1
    <2>1. op' = [op EXCEPT !.copy = op.copy + 1]
      BY <1>6, <1>7
    <2>2. op.copy + 1 \in Copies
      BY <1>1, <1>7, Layout
    <2>. QED  BY <1>0, <1>1, <2>1, <2>2 DEF WriteOps
  <1>8. ASSUME ~(op.copy < 2)
        PROVE  /\ op' \in WriteOps /\ op'.name \in {"update", "map"}
               /\ op'.x = op.x + Size /\ op'.rest = op.rest - Size /\ op'.copy = 0
               /\ op'.name = "map" => op'.rest > 0
    <2>. DEFINE nm == IF op.rest = Size THEN "update" ELSE "map"
    <2>1. op' = [op EXCEPT !.copy = 0, !.x = op.x + Size, !.rest = op.rest - Size, !.name = nm]
      BY <1>6, <1>8
    <2>2. /\ op.x + Size \in Nat /\ op.rest - Size \in Nat /\ 0 \in Copies /\ nm \in {"update", "map"}
          /\ nm = "map" => op.rest - Size > 0
      BY <1>1, <1>4, Layout
    <2>. HIDE DEF nm
    <2>3. op' \in WriteOps /\ op'.name = nm /\ op'.x = op.x + Size /\ op'.rest = op.rest - Size /\ op'.copy = 0
      BY <1>1, <2>1, <2>2 DEF WriteOps, Writing
    <2>. QED  BY <2>2, <2>3
  <1>. QED  BY <1>0, <1>1, <1>2, <1>3, <1>4, <1>6, <1>7, <1>8

LEMMA WriteCopyInv ==
  ASSUME Inv, WriteCopy
  PROVE  Inv'
  <1>0. UNCHANGED <<addrs, size, daddrs, dsize, inds, res, wild, bad, crashes, misled>> /\ op.name = "copy"
    BY WriteCopyIs DEF inode
  <1>1. TypeOK'
    <2>1. mem' \in [Pos -> [Offs -> Byte]] /\ disk' \in [Pos -> [Offs -> Byte]]
      BY WriteCopyIs DEF Inv, TypeOK
    <2>2. may' \in [0..MaxSize-1 -> SUBSET Val]
      <3>1. may \in [0..MaxSize-1 -> SUBSET Val] /\ DOMAIN may = 0..MaxSize-1
        BY DEF Inv, TypeOK
      <3>2. \A y \in DOMAIN may :
              (IF y \notin Bytewise THEN may[y] ELSE IF op.copy = 2 THEN {op.v} ELSE may[y] \cup {op.v}) \in SUBSET Val
        BY <3>1, WriteCopyIs
      <3>. QED  BY <3>1, <3>2, WriteCopyIs
    <2>3. op'.name \in {"copy", "update", "map"}
      BY WriteCopyIs DEF Copies
    <2>. QED  BY <1>0, <2>1, <2>2, <2>3 DEF Inv, TypeOK
  <1>2. OpState'
    <2>0. op.x \in Nat /\ op.rest \in Nat \ {0} /\ op.x + op.rest <= MaxSize /\ Size \in Nat \ {0} /\ res' = NoRes
      BY WriteCopyIs
    <2>1. CASE op.copy < 2
      BY <2>0, <2>1, WriteCopyIs DEF OpState
    <2>2. CASE ~(op.copy < 2)
      <3>1. op' \in WriteOps /\ op'.name \in {"update", "map"} /\ (op'.name = "map" => op'.rest > 0)
            /\ op'.x = op.x + Size /\ op'.rest = op.rest - Size
        BY <2>2, WriteCopyIs
      <3>2. op'.x + op'.rest <= MaxSize
        BY <2>0, <3>1, Layout
      <3>. QED  BY <2>0, <3>1, <3>2 DEF OpState
    <2>. QED  BY <2>1, <2>2
  <1>3. Pointers'
    <2>1. \A x \in 0..op.x-1 : Covered(x, addrs)
      BY <1>0 DEF Inv, Pointers, Writing
    <2>2. ASSUME NEW x \in Bytewise PROVE Covered(x, addrs)
      <3>0. op.x \in Nat /\ op.rest \in Nat \ {0}
        BY WriteCopyIs
      <3>1. x \in Nat /\ Blk(x) = Blk(op.x)
        BY <3>0, ChunkIs DEF Bytewise, Size
      <3>2. \A c \in Copies : mbmap(x, c) = mbmap(op.x, c)
        BY <3>0, <3>1, Places
      <3>3. Covered(op.x, addrs)
        BY <1>0 DEF Inv, Pointers
      <3>. QED  BY <3>2, <3>3 DEF Covered, InRange
    <2>3. ASSUME NEW x \in 0..op'.x-1 PROVE Covered(x, addrs)
      <3>1. x \in 0..op.x-1 \/ x \in Bytewise
        <4>1. op.x \in Nat /\ Size \in Nat /\ (op'.x = op.x \/ op'.x = op.x + Size)
          BY WriteCopyIs
        <4>. QED  BY <4>1 DEF Bytewise
      <3>. QED  BY <2>1, <2>2, <3>1
    <2>4. op'.name = "copy" => op'.x = op.x
      BY WriteCopyIs
    <2>5. op'.name # "size"
      BY WriteCopyIs
    <2>6. Covered(op.x, addrs)
      BY <1>0 DEF Inv, Pointers
    <2>. QED  BY <1>0, <2>3, <2>4, <2>5, <2>6 DEF Inv, Pointers, Covered, Have, Closed
  <1>. QED  BY <1>1, <1>2, <1>3 DEF Inv

LEMMA WriteUpdateInv ==
  ASSUME Inv, WriteUpdate
  PROVE  Inv'
  <1>0. /\ op.name = "update" /\ op.name \in Writing /\ daddrs' = addrs /\ dsize' = size
        /\ UNCHANGED <<addrs, size, inds, disk, mem, res, wild, may, bad, crashes, misled>>
    BY DEF WriteUpdate, iupdate, Writing
  <1>1. op \in WriteOps /\ op.x \in Nat /\ op.rest \in Nat /\ op.x + op.rest <= MaxSize /\ res = NoRes
    BY <1>0, OpIs DEF Inv
  <1>2. \/ op' = [op EXCEPT !.name = "size"] /\ op.x > size
        \/ op' = Idle
    BY DEF WriteUpdate
  <1>3. \/ op' \in WriteOps /\ op'.name = "size" /\ op'.x = op.x /\ op'.rest = op.rest
        \/ op' = Idle /\ op'.name = "idle"
    BY <1>1, <1>2 DEF WriteOps, Writing, Idle
  <1>4. TypeOK'
    <2>1. op'.name \in {"size", "idle"}
      BY <1>3
    <2>. QED  BY <1>0, <2>1 DEF Inv, TypeOK
  <1>5. OpState'
    BY <1>0, <1>1, <1>3 DEF OpState
  <1>6. Pointers'
    <2>1. \A x \in 0..size-1 : Covered(x, addrs)
      BY CoveredMore DEF Inv, Pointers
    <2>2. \A x \in 0..op.x-1 : Covered(x, addrs)
      BY <1>0 DEF Inv, Pointers
    <2>. QED  BY <1>0, <1>3, <2>1, <2>2 DEF Inv, Pointers, Covered, Have, Closed, Writing
  <1>. QED  BY <1>4, <1>5, <1>6 DEF Inv

LEMMA WriteSizeInv ==
  ASSUME Inv, WriteSize
  PROVE  Inv'
  <1>0. /\ op.name = "size" /\ op.name \in Writing /\ size' = op.x /\ daddrs' = addrs /\ dsize' = op.x
        /\ op' = Idle /\ op'.name = "idle"
        /\ UNCHANGED <<addrs, inds, disk, mem, res, wild, may, bad, crashes, misled>>
    BY DEF WriteSize, iupdate, Writing, Idle
  <1>1. op.x \in Nat /\ op.rest \in Nat /\ op.x + op.rest <= MaxSize
    BY <1>0, OpIs DEF Inv
  <1>2. TypeOK'
    <2>1. size' \in 0..MaxSize /\ dsize' \in 0..MaxSize
      BY <1>0, <1>1, Layout
    <2>. QED  BY <1>0, <2>1 DEF Inv, TypeOK
  <1>3. OpState'
    BY <1>0 DEF OpState
  <1>4. Pointers'
    <2>1. \A x \in 0..op.x-1 : Covered(x, addrs)
      BY <1>0 DEF Inv, Pointers
    <2>. QED  BY <1>0, <2>1 DEF Inv, Pointers, Covered, Have, Closed, Writing
  <1>. QED  BY <1>2, <1>3, <1>4 DEF Inv

LEMMA ReadCallInv ==
  ASSUME Inv, NEW off \in 0..MaxSize-1, NEW len \in Lens, ReadCall(off, len)
  PROVE  Inv'
  <1>. DEFINE n == MinOf(len, size - off)
  <1>1. /\ off < size
        /\ op' = [name |-> "read", off |-> off, x |-> off, rest |-> n, n |-> n, dst |-> [y \in {} |-> 0],
                  d12 |-> FALSE, d13 |-> FALSE, d23 |-> FALSE, past |-> FALSE]
        /\ res' = NoRes /\ UNCHANGED <<inode, disk, mem, wild, may, bad, crashes, misled>>
    BY DEF ReadCall
  <1>2. n \in Nat \ {0} /\ off \in Nat /\ off + n <= size /\ n <= len /\ size \in Nat
    <2>1. size \in Nat /\ len \in Nat \ {0} /\ off \in Nat /\ off < size
      BY <1>1, Layout DEF Inv, TypeOK
    <2>. QED  BY <2>1 DEF MinOf
  <1>. HIDE DEF n
  <1>3. /\ op'.name = "read" /\ op'.x = off /\ op'.rest = n /\ op'.off = off /\ op'.n = n
        /\ op'.dst = [y \in {} |-> 0]
    BY <1>1
  <1>4. TypeOK'
    BY <1>1, <1>2, <1>3 DEF Inv, TypeOK, inode
  <1>5. OpState'
    <2>1. op' \in ReadOps(op'.dst)
      BY <1>1, <1>2 DEF ReadOps
    <2>2. DOMAIN op'.dst = off..off-1
      BY <1>2, <1>3
    <2>. QED  BY <1>1, <1>2, <1>3, <2>1, <2>2 DEF OpState, inode
  <1>6. Pointers'
    BY <1>1, <1>3, PointersKept DEF Inv, Writing
  <1>. QED  BY <1>4, <1>5, <1>6 DEF Inv

\* what a read makes of the copies, with the differences it has found
Outcome(d12, d13, d23) ==
  LET P(c) == Pt(Blk(op.x), c)
      M(c, s) == Merged(mem[P(c)], mem[P(s)], op.x, op.rest)
  IN  \/ UNCHANGED <<mem, disk>>
      \/ /\ d12 /\ d23 /\ ~d13
         /\ mem' = [mem EXCEPT ![P(1)] = M(1, 2)] /\ disk' = [disk EXCEPT ![P(1)] = M(1, 2)]
      \/ /\ d12 /\ d13 /\ ~d23
         /\ mem' = [mem EXCEPT ![P(0)] = M(0, 2)] /\ disk' = [disk EXCEPT ![P(0)] = M(0, 2)]
      \/ /\ d13 /\ d23 /\ ~d12
         /\ mem' = [mem EXCEPT ![P(2)] = M(2, 1)] /\ disk' = [disk EXCEPT ![P(1)] = mem[P(1)]]

\* what the user has after it
Text == [y \in op.off..op.x+Size-1 |-> IF y < op.x THEN op.dst[y] ELSE mem[Pt(Blk(op.x), 2)][Off(y)]]

\* the read ends, or goes on with the differences it has found
Goes(d12, d13, d23, past) ==
  \/ d12 /\ d13 /\ d23 /\ op' = Idle /\ res' = Failed(past)
  \/ op' = Idle /\ res' = [ret |-> "n", off |-> op.off, dst |-> Text]
  \/ /\ Size # op.rest /\ UNCHANGED res
     /\ op' = [op EXCEPT !.x = @ + Size, !.rest = @ - Size, !.dst = Text,
                         !.d12 = d12, !.d13 = d13, !.d23 = d23, !.past = past]

\* Unless a comparison went past its buffers, d12, d13 and d23 are those of before
\* and what differs in this block; after it, a flag that is not set is right if the
\* read is not misled.
Finds(d12, d13, d23, past) ==
  LET B(c) == mem[Pt(Blk(op.x), c)]
  IN  /\ ~past => /\ ~op.past
                  /\ d12 => op.d12 \/ B(0) # B(1)
                  /\ d23 => op.d23 \/ B(1) # B(2)
                  /\ d13 => op.d13 \/ B(0) # B(2)
      /\ past /\ ~misled' => /\ d12 \/ B(0) = B(1)
                             /\ d23 \/ B(1) = B(2)
                             /\ d13 \/ B(0) = B(2)

\* What ReadBlock does.
LEMMA ReadBlockIs ==
  ASSUME Inv, ReadBlock
  PROVE  /\ op.name = "read" /\ op \in ReadOps(op.dst) /\ op.off \in Nat /\ op.x \in Nat /\ op.rest \in Nat \ {0}
         /\ op.n \in Nat /\ op.x + op.rest <= size /\ res = NoRes /\ op.off <= op.x
         /\ Blk(op.x) \in Groups /\ (\A c \in Copies : Pt(Blk(op.x), c) \in Pos)
         /\ Size \in Nat \ {0} /\ Size <= op.rest
         /\ UNCHANGED <<inode, wild, may, bad, crashes>>
         /\ misled' \in BOOLEAN /\ (misled => misled')
         /\ \E d12, d13, d23, past \in BOOLEAN :
              Outcome(d12, d13, d23) /\ Goes(d12, d13, d23, past) /\ Finds(d12, d13, d23, past)
  <1>0. op.name = "read" /\ UNCHANGED <<inode, wild, may, bad, crashes>>
    BY DEF ReadBlock
  <1>1. /\ op \in ReadOps(op.dst) /\ op.off \in Nat /\ op.x \in Nat /\ op.rest \in Nat \ {0}
        /\ op.n \in Nat /\ op.x + op.rest <= size /\ res = NoRes /\ op.off <= op.x
        /\ op.d12 \in BOOLEAN /\ op.d13 \in BOOLEAN /\ op.d23 \in BOOLEAN /\ op.past \in BOOLEAN
    BY <1>0, OpIs DEF Inv
  <1>2. Blk(op.x) \in Groups
    <2>1. op.x \in 0..size-1
      BY <1>1 DEF Inv, TypeOK
    <2>. QED  BY <1>1, <2>1, InGroup DEF Inv, Pointers, Covered
  <1>3. \A c \in Copies : Pt(Blk(op.x), c) \in Pos
    BY <1>2, InGroup
  <1>4. Size \in Nat \ {0} /\ Size <= op.rest
    BY <1>1, ChunkIs DEF Size
  <1>. DEFINE p == [c \in Copies |-> mbmap(op.x, c)]
              P(c) == Pt(Blk(op.x), c)
  <1>5. p[0] = P(0) /\ p[1] = P(1) /\ p[2] = P(2)
    BY <1>1, Places, Layout
  <1>6. PICK e12 \in strncmp(mem[p[0]], mem[p[1]], op.n),
             e23 \in strncmp(mem[p[1]], mem[p[2]], op.n),
             e13 \in strncmp(mem[p[0]], mem[p[2]], op.n) :
          LET d12 == op.d12 \/ e12
              d23 == op.d23 \/ e23
              d13 == op.d13 \/ e13
              wrong(f) == {e \in {<<0, 1, e12>>, <<0, 2, e13>>, <<1, 2, e23>>} :
                             e[3] = f /\ (mem[p[e[1]]] = mem[p[e[2]]]) = f}
              past == op.past \/ wrong(TRUE) # {}
          IN  /\ Repair(p, op.x, op.rest, d12, d13, d23)
              /\ IF Hopeless(d12, d13, d23) THEN op' = Idle /\ res' = Failed(past)
                 ELSE IF Size = op.rest THEN op' = Idle /\ res' = [ret |-> "n", off |-> op.off,
                        dst |-> [y \in op.off..op.x+Size-1 |-> IF y < op.x THEN op.dst[y] ELSE mem[p[2]][Off(y)]]]
                 ELSE /\ op' = [op EXCEPT !.x = @ + Size, !.rest = @ - Size,
                        !.dst = [y \in op.off..op.x+Size-1 |-> IF y < op.x THEN op.dst[y] ELSE mem[p[2]][Off(y)]],
                                          !.d12 = d12, !.d13 = d13, !.d23 = d23, !.past = past]
                      /\ UNCHANGED res
              /\ misled' = (misled \/ (past /\ wrong(FALSE) # {}))
    BY DEF ReadBlock, Size
  <1>. DEFINE d12 == op.d12 \/ e12
              d23 == op.d23 \/ e23
              d13 == op.d13 \/ e13
              wrong(f) == {e \in {<<0, 1, e12>>, <<0, 2, e13>>, <<1, 2, e23>>} :
                             e[3] = f /\ (mem[p[e[1]]] = mem[p[e[2]]]) = f}
              past == op.past \/ wrong(TRUE) # {}
  <1>7. e12 \in BOOLEAN /\ e23 \in BOOLEAN /\ e13 \in BOOLEAN
    <2>1. \A a, b, n : strncmp(a, b, n) \subseteq BOOLEAN
      BY InputAssumption DEF strncmp
    <2>. QED  BY <1>6, <2>1
  <1>8. d12 \in BOOLEAN /\ d13 \in BOOLEAN /\ d23 \in BOOLEAN /\ past \in BOOLEAN
    BY <1>1, <1>7
  <1>9. Finds(d12, d13, d23, past) /\ misled' \in BOOLEAN /\ (misled => misled')
    <2>1. misled' = (misled \/ (past /\ wrong(FALSE) # {}))
      BY <1>6
    <2>2. ASSUME wrong(TRUE) = {}
          PROVE  (e12 => mem[P(0)] # mem[P(1)]) /\ (e13 => mem[P(0)] # mem[P(2)]) /\ (e23 => mem[P(1)] # mem[P(2)])
      <3>1. <<0, 1, e12>> \notin wrong(TRUE) /\ <<0, 2, e13>> \notin wrong(TRUE) /\ <<1, 2, e23>> \notin wrong(TRUE)
        BY <2>2
      <3>. HIDE DEF p, P
      <3>. QED  BY <1>5, <1>7, <3>1
    <2>3. ASSUME wrong(FALSE) = {}
          PROVE  (e12 \/ mem[P(0)] = mem[P(1)]) /\ (e13 \/ mem[P(0)] = mem[P(2)]) /\ (e23 \/ mem[P(1)] = mem[P(2)])
      <3>1. <<0, 1, e12>> \notin wrong(FALSE) /\ <<0, 2, e13>> \notin wrong(FALSE) /\ <<1, 2, e23>> \notin wrong(FALSE)
        BY <2>3
      <3>. HIDE DEF p, P
      <3>. QED  BY <1>5, <1>7, <3>1
    <2>. HIDE DEF wrong, p
    <2>. QED  BY <1>1, <1>7, <2>1, <2>2, <2>3 DEF Finds, P
  <1>10. Goes(d12, d13, d23, past)
    <2>1. mem[p[2]] = mem[P(2)]
      BY <1>5
    <2>2. Text = [y \in op.off..op.x+Size-1 |-> IF y < op.x THEN op.dst[y] ELSE mem[p[2]][Off(y)]]
      BY <2>1 DEF Text
    <2>3. IF Hopeless(d12, d13, d23) THEN op' = Idle /\ res' = Failed(past)
          ELSE IF Size = op.rest THEN op' = Idle /\ res' = [ret |-> "n", off |-> op.off, dst |-> Text]
          ELSE /\ op' = [op EXCEPT !.x = @ + Size, !.rest = @ - Size, !.dst = Text,
                                   !.d12 = d12, !.d13 = d13, !.d23 = d23, !.past = past]
               /\ UNCHANGED res
      BY <1>6, <2>2
    <2>. HIDE DEF p, P, past, d12, d13, d23
    <2>. QED  BY <2>3 DEF Goes, Hopeless
  <1>11. Outcome(d12, d13, d23)
    <2>1. Repair(p, op.x, op.rest, d12, d13, d23)
      BY <1>6
    <2>. HIDE DEF p, d12, d13, d23
    <2>. QED  BY <1>5, <1>8, <2>1 DEF Repair, Heal, Overwrite, Outcome
  <1>. HIDE DEF d12, d13, d23, past
  <1>. QED  BY <1>0, <1>1, <1>2, <1>3, <1>4, <1>8, <1>9, <1>10, <1>11

\* The copies stay blocks, and those of other blocks stay what they are.
LEMMA OutcomeIs ==
  ASSUME TypeOK, Blk(op.x) \in Groups, NEW d12, NEW d13, NEW d23, Outcome(d12, d13, d23)
  PROVE  mem' \in [Pos -> [Offs -> Byte]] /\ disk' \in [Pos -> [Offs -> Byte]]
  <1>0. mem \in [Pos -> [Offs -> Byte]] /\ disk \in [Pos -> [Offs -> Byte]]
    BY DEF TypeOK
  <1>. DEFINE P(c) == Pt(Blk(op.x), c)
              M(c, s) == Merged(mem[P(c)], mem[P(s)], op.x, op.rest)
  <1>1. P(0) \in Pos /\ P(1) \in Pos /\ P(2) \in Pos
    BY InGroup, Layout
  <1>2. \A c, s \in Copies : M(c, s) \in [Offs -> Byte]
    <2>1. \A c \in Copies : mem[P(c)] \in [Offs -> Byte]
      BY <1>0, <1>1, Layout
    <2>2. \A b, s \in [Offs -> Byte] : Merged(b, s, op.x, op.rest) \in [Offs -> Byte]
      BY DEF Merged
    <2>. QED  BY <2>1, <2>2
  <1>3. M(1, 2) \in [Offs -> Byte] /\ M(0, 2) \in [Offs -> Byte] /\ M(2, 1) \in [Offs -> Byte] /\ mem[P(1)] \in [Offs -> Byte]
    BY <1>0, <1>1, <1>2, Layout
  <1>. HIDE DEF P, M
  <1>. QED  BY <1>0, <1>1, <1>3 DEF Outcome, P, M

LEMMA ReadBlockInv ==
  ASSUME Inv, ReadBlock
  PROVE  Inv'
  <1>0. /\ op.name = "read" /\ op \in ReadOps(op.dst) /\ op.off \in Nat /\ op.x \in Nat /\ op.rest \in Nat \ {0}
        /\ op.n \in Nat /\ op.x + op.rest <= size /\ res = NoRes /\ op.off <= op.x
        /\ Blk(op.x) \in Groups /\ Size \in Nat \ {0} /\ Size <= op.rest /\ misled' \in BOOLEAN
        /\ UNCHANGED <<inode, wild, may, bad, crashes>>
    BY ReadBlockIs
  <1>1. PICK d12, d13, d23, past \in BOOLEAN : Outcome(d12, d13, d23) /\ Goes(d12, d13, d23, past)
    BY ReadBlockIs
  <1>2. \/ op' = Idle /\ op'.name = "idle"
        \/ /\ op' \in ReadOps(Text) /\ op'.name = "read" /\ op'.x = op.x + Size /\ op'.rest = op.rest - Size
           /\ op'.rest > 0 /\ op'.off = op.off /\ op'.n = op.n /\ op'.dst = Text /\ res' = NoRes
    <2>1. CASE op' = Idle
      BY <2>1 DEF Idle
    <2>2. CASE /\ Size # op.rest /\ UNCHANGED res
               /\ op' = [op EXCEPT !.x = @ + Size, !.rest = @ - Size, !.dst = Text,
                                   !.d12 = d12, !.d13 = d13, !.d23 = d23, !.past = past]
      <3>1. op.x + Size \in Nat /\ op.rest - Size \in Nat /\ op.rest - Size > 0
        BY <1>0, <2>2
      <3>. QED  BY <1>0, <2>2, <3>1 DEF ReadOps
    <2>. QED  BY <1>1, <2>1, <2>2 DEF Goes
  <1>3. TypeOK'
    <2>1. mem' \in [Pos -> [Offs -> Byte]] /\ disk' \in [Pos -> [Offs -> Byte]]
      BY <1>0, <1>1, OutcomeIs DEF Inv
    <2>2. op'.name \in {"idle", "read"} /\ (op'.name = "read" => op'.x + op'.rest <= size')
      <3>1. size \in Nat /\ size' = size
        BY <1>0 DEF Inv, TypeOK, inode
      <3>2. (op.x + Size) + (op.rest - Size) <= size
        BY <1>0, <3>1
      <3>. QED  BY <1>2, <3>1, <3>2
    <2>. QED  BY <1>0, <2>1, <2>2 DEF Inv, TypeOK, inode
  <1>4. OpState'
    <2>1. CASE op' = Idle
      BY <2>1 DEF OpState
    <2>2. CASE op' # Idle
      <3>1. DOMAIN Text = op.off..op.x+Size-1
        BY DEF Text
      <3>2. op.off <= op.x + Size /\ (op.x + Size) + (op.rest - Size) <= size /\ size' = size
        <4>1. size \in Nat
          BY DEF Inv, TypeOK
        <4>. QED  BY <1>0, <4>1 DEF inode
      <3>3. \E len \in Lens : op.n <= len
        BY <1>0, OpIs DEF Inv
      <3>4. /\ op' \in ReadOps(op'.dst) /\ op'.x = op.x + Size /\ op'.rest = op.rest - Size /\ op'.rest > 0
            /\ op'.off = op.off /\ op'.n = op.n /\ op'.dst = Text /\ res' = NoRes
        BY <1>2, <2>2
      <3>5. op'.x + op'.rest <= size' /\ op'.off <= op'.x
        BY <3>2, <3>4
      <3>6. DOMAIN op'.dst = op'.off..op'.x-1
        <4>1. DOMAIN op'.dst = op.off..op.x+Size-1
          BY <3>1, <3>4
        <4>2. op'.x-1 = op.x+Size-1
          BY <1>0, <3>4
        <4>. QED  BY <3>4, <4>1, <4>2, Zenon
      <3>7. \E len \in Lens : op'.n <= len
        BY <3>3, <3>4
      <3>. QED  BY <3>4, <3>5, <3>6, <3>7 DEF OpState
    <2>. QED  BY <2>1, <2>2
  <1>5. Pointers'
    BY <1>0, <1>2, PointersKept DEF Inv, Writing
  <1>. QED  BY <1>3, <1>4, <1>5 DEF Inv

LEMMA EvictInv ==
  ASSUME Inv, NEW p \in Pos, Evict(p)
  PROVE  Inv'
  <1>1. mem' = [mem EXCEPT ![p] = disk[p]] /\ UNCHANGED <<inode, disk, op, res, wild, may, bad, crashes, misled>>
    BY DEF Evict
  <1>2. TypeOK'
    <2>1. mem' \in [Pos -> [Offs -> Byte]]
      BY <1>1 DEF Inv, TypeOK
    <2>. QED  BY <1>1, <2>1 DEF Inv, TypeOK, inode
  <1>3. OpState'
    BY <1>1 DEF Inv, OpState, inode
  <1>4. Pointers'
    BY <1>1 DEF Inv, Pointers, inode, Covered, Have, Closed
  <1>. QED  BY <1>2, <1>3, <1>4 DEF Inv

LEMMA CrashInv ==
  ASSUME Inv, Crash
  PROVE  Inv'
  <1>1. /\ crashes' = crashes + 1 /\ addrs' = daddrs /\ size' = dsize
        /\ inds' = (IF IND \in daddrs THEN inds ELSE {}) /\ mem' = disk
        /\ op' = Idle /\ res' = NoRes /\ wild' = FALSE
        /\ may' = [x \in DOMAIN may |-> IF x < dsize THEN may[x] ELSE {}]
        /\ UNCHANGED <<daddrs, dsize, disk, bad, misled>>
    BY DEF Crash
  <1>2. crashes' \in 0..MaxMishaps
    <2>1. bad \subseteq Pos /\ crashes \in 0..MaxMishaps /\ MaxMishaps \in Nat
      BY BoundAssumption DEF Inv, TypeOK
    <2>2. IsFiniteSet(Pos)
      <3>1. 0 \in Int /\ MAXFILE-1 \in Int /\ Pos = 0..MAXFILE-1
        BY Layout
      <3>. QED  BY <3>1, FS_Interval
    <2>3. Cardinality(bad) \in Nat
      BY <2>1, <2>2, FS_Subset, FS_CardinalityType
    <2>. QED  BY <1>1, <2>1, <2>3 DEF Crash
  <1>3. op'.name = "idle"
    BY <1>1 DEF Idle
  <1>4. TypeOK'
    <2>1. may' \in [0..MaxSize-1 -> SUBSET Val]
      <3>1. may \in [0..MaxSize-1 -> SUBSET Val]
        BY DEF Inv, TypeOK
      <3>. QED  BY <1>1, <3>1
    <2>2. addrs' \subseteq Pos \cup {IND} /\ inds' \subseteq Pos /\ size' \in 0..MaxSize
      BY <1>1 DEF Inv, TypeOK
    <2>. QED  BY <1>1, <1>2, <1>3, <2>1, <2>2 DEF Inv, TypeOK
  <1>5. OpState'
    BY <1>1 DEF OpState
  <1>6. Pointers'
    <2>1. Have(daddrs)' = Have(daddrs)
      BY <1>1 DEF Have
    <2>2. \A x : Covered(x, daddrs)' <=> Covered(x, daddrs)
      BY <2>1 DEF Covered
    <2>3. Closed(addrs)' /\ Closed(daddrs)' /\ Closed(inds)'
      BY <1>1 DEF Inv, Pointers, Closed
    <2>4. size' = size /\ dsize' = size
      BY <1>1 DEF Inv, Pointers
    <2>. QED  BY <1>1, <1>3, <2>2, <2>3, <2>4 DEF Inv, Pointers, Writing
  <1>. QED  BY <1>4, <1>5, <1>6 DEF Inv

LEMMA CorruptInv ==
  ASSUME Inv, NEW x \in 0..size-1, NEW c \in Copies, NEW blk \in [Offs -> Val \cup Junk], Corrupt(x, c, blk)
  PROVE  Inv' /\ x \in Nat /\ Blk(x) \in Groups /\ Pt(Blk(x), c) \in Pos /\ mbmap(x, c) = Pt(Blk(x), c)
  <1>0. x \in Nat /\ Blk(x) \in Groups
    <2>1. x \in Nat
      BY DEF Inv, TypeOK
    <2>. QED  BY <2>1, InGroup DEF Inv, Pointers, Covered
  <1>1. mbmap(x, c) \in Pos /\ mbmap(x, c) = Pt(Blk(x), c)
    BY <1>0, InGroup, Places
  <1>2. /\ op = Idle /\ bad' = bad \cup {mbmap(x, c)} /\ disk' = [disk EXCEPT ![mbmap(x, c)] = blk]
        /\ mem' = disk' /\ res' = NoRes /\ UNCHANGED <<inode, op, wild, may, crashes, misled>>
    BY DEF Corrupt
  <1>3. TypeOK'
    <2>1. blk \in [Offs -> Byte]
      BY DEF Byte
    <2>2. disk' \in [Pos -> [Offs -> Byte]]
      BY <1>1, <1>2, <2>1 DEF Inv, TypeOK
    <2>. QED  BY <1>1, <1>2, <2>2 DEF Inv, TypeOK, inode
  <1>4. OpState'
    BY <1>2 DEF OpState
  <1>5. Pointers'
    BY <1>2, PointersKept DEF Inv, Idle, Writing
  <1>. QED  BY <1>0, <1>1, <1>3, <1>4, <1>5 DEF Inv

LEMMA NextInv == Inv /\ [Next]_vars => Inv'
  <1>. SUFFICES ASSUME Inv, [Next]_vars PROVE Inv'
    OBVIOUS
  <1>1. CASE UNCHANGED vars
    BY <1>1 DEF Inv, TypeOK, OpState, Pointers, Covered, Have, Closed, vars, inode
  <1>2. ASSUME NEW off \in 0..MaxSize-1, NEW len \in Lens, NEW v \in Val, WriteCall(off, len, v) PROVE Inv'
    BY <1>2, WriteCallInv
  <1>3. ASSUME NEW off \in 0..MaxSize-1, NEW len \in Lens, ReadCall(off, len) PROVE Inv'
    BY <1>3, ReadCallInv
  <1>4. ASSUME NEW p \in Pos, Evict(p) PROVE Inv'
    BY <1>4, EvictInv
  <1>5. ASSUME NEW x \in 0..size-1, NEW c \in Copies, NEW blk \in [Offs -> Val \cup Junk], Corrupt(x, c, blk) PROVE Inv'
    BY <1>5, CorruptInv
  <1>. QED  BY <1>1, <1>2, <1>3, <1>4, <1>5, WriteMapInv, WriteCopyInv, WriteUpdateInv, WriteSizeInv,
               ReadBlockInv, CrashInv DEF Next

\* The inode on disk never promises bytes it has no pointers for, whatever calls,
\* crashes and bad blocks there are.
THEOREM SizeIsCovered == Spec => []SizeCovered
  <1>1. Inv => SizeCovered
    BY DEF Inv, Pointers, Covered, Have, SizeCovered
  <1>. QED  BY <1>1, InitInv, NextInv, PTL DEF Spec

-----------------------------------------------------------------------------
(* one mishap *)

LEMMA LawfulAt ==
  ASSUME NEW x \in Nat, NEW c \in Copies, Lawful(x), Pt(Blk(x), c) \notin bad
  PROVE  disk[Pt(Blk(x), c)][Off(x)] \in may[x] /\ mem[Pt(Blk(x), c)][Off(x)] \in may[x]
  <1>1. mbmap(x, c) = Pt(Blk(x), c)
    BY Places
  <1>. QED  BY <1>1 DEF Lawful

LEMMA LawfulFrom ==
  ASSUME NEW x \in Nat,
         \A c \in Copies : Pt(Blk(x), c) \notin bad =>
           disk[Pt(Blk(x), c)][Off(x)] \in may[x] /\ mem[Pt(Blk(x), c)][Off(x)] \in may[x]
  PROVE  Lawful(x)
  <1>1. \A c \in Copies : mbmap(x, c) = Pt(Blk(x), c)
    BY Places
  <1>. QED  BY <1>1 DEF Lawful

LEMMA InitMirror == Init => MirrorInv
  <1>. SUFFICES ASSUME Init PROVE MirrorInv
    OBVIOUS
  <1>1. Done
    BY DEF Init, Done, Idle
  <1>2. Bytes
    <2>1. \A x \in 0..0-1 : FALSE
      OBVIOUS
    <2>. QED  BY <2>1 DEF Init, Bytes, Idle, Writing
  <1>3. OneOdd
    <2>1. \A k \in Groups : \A c, d \in Copies : disk[Pt(k, c)] = disk[Pt(k, d)] /\ mem[Pt(k, c)] = disk[Pt(k, c)]
      BY InGroup DEF Init
    <2>2. Mirrors(-1, 0)
      BY <2>1 DEF Mirrors, Agree, Busy, Init, Idle
    <2>3. Flags(0) /\ bad = {}
      BY DEF Flags, Init, Idle
    <2>4. -1 \in Groups \cup {-1} /\ 0 \in Copies
      BY Layout
    <2>. QED  BY <2>2, <2>3, <2>4 DEF OneOdd
  <1>4. Answers
    BY DEF Init, Answers, NoRes, Idle
  <1>. QED  BY <1>1, <1>2, <1>3, <1>4 DEF MirrorInv

\* A step that touches no block and answers nothing.
LEMMA CalmMirror ==
  ASSUME Inv, MirrorInv, op.name # "copy", op'.name # "copy", op'.name = "map" => op'.copy = 0,
         UNCHANGED <<disk, mem, may, bad, crashes>>,
         \A x \in 0..size'-1 : Lawful(x),
         op'.name \in Writing => \A x \in 0..op'.x-1 : Lawful(x),
         op'.name = "read" => op'.d12 = FALSE /\ op'.d13 = FALSE /\ op'.d23 = FALSE /\ DOMAIN op'.dst = {},
         res' = NoRes \/ res' = res
  PROVE  MirrorInv'
  <1>0. \A x : Lawful(x)' <=> Lawful(x)
    BY DEF Lawful
  <1>1. Done'
    BY DEF Done
  <1>2. Bytes'
    BY <1>0 DEF Bytes
  <1>3. OneOdd'
    <2>1. PICK g \in Groups \cup {-1}, h \in Copies :
            (NoMishap => g = -1) /\ bad \subseteq {Pt(g, h)} /\ Mirrors(g, h) /\ Flags(h)
      BY DEF MirrorInv, OneOdd
    <2>2. \A k, c, d : Agree(k, c, d)' <=> Agree(k, c, d)
      BY DEF Agree, Busy
    <2>3. Mirrors(g, h)'
      BY <2>1, <2>2 DEF Mirrors
    <2>4. Flags(h)' /\ (NoMishap' => g = -1) /\ bad' \subseteq {Pt(g, h)}
      BY <2>1 DEF Flags, NoMishap
    <2>. QED  BY <2>1, <2>3, <2>4 DEF OneOdd
  <1>4. Answers'
    <2>0. may' = may /\ bad' = bad
      OBVIOUS
    <2>1. res' = res /\ Told(res.dst) => Told(res.dst)'
      BY <2>0 DEF Told
    <2>2. op'.name = "read" => Told(op.dst)'
      BY DEF Told
    <2>3. res = NoRes \/ (res.ret = "-1" /\ res.past) \/ (res.ret = "n" /\ Told(res.dst))
      BY DEF MirrorInv, Answers
    <2>4. res' = NoRes \/ (res'.ret = "-1" /\ res'.past) \/ (res'.ret = "n" /\ Told(res.dst)')
      BY <2>1, <2>3
    <2>. QED  BY <2>2, <2>4 DEF Answers
  <1>. QED  BY <1>1, <1>2, <1>3, <1>4 DEF MirrorInv

LEMMA WriteCallMirror ==
  ASSUME Inv, MirrorInv, NEW off \in 0..MaxSize-1, NEW len \in Lens, NEW v \in Val, WriteCall(off, len, v)
  PROVE  MirrorInv'
  <1>1. /\ op = Idle /\ off <= size /\ op'.name = "map" /\ op'.copy = 0 /\ op'.x = off
        /\ res' = NoRes /\ UNCHANGED <<disk, mem, may, bad, crashes, size>>
    BY DEF WriteCall, inode
  <1>2. op.name # "copy"
    BY <1>1 DEF Idle
  <1>3. \A x \in 0..off-1 : x \in 0..size-1
    BY <1>1 DEF Inv, TypeOK
  <1>4. (\A x \in 0..size-1 : Lawful(x)) /\ \A x \in 0..off-1 : Lawful(x)
    BY <1>3 DEF MirrorInv, Bytes
  <1>. QED  BY <1>1, <1>2, <1>4, CalmMirror

LEMMA ReadCallMirror ==
  ASSUME Inv, MirrorInv, NEW off \in 0..MaxSize-1, NEW len \in Lens, ReadCall(off, len)
  PROVE  MirrorInv'
  <1>1. /\ op = Idle /\ op'.name = "read" /\ op'.d12 = FALSE /\ op'.d13 = FALSE /\ op'.d23 = FALSE
        /\ op'.dst = [y \in {} |-> 0] /\ res' = NoRes /\ UNCHANGED <<disk, mem, may, bad, crashes, size>>
    BY DEF ReadCall, inode
  <1>2. op.name # "copy" /\ op'.name \notin Writing /\ DOMAIN op'.dst = {}
    BY <1>1 DEF Idle, Writing
  <1>3. \A x \in 0..size-1 : Lawful(x)
    BY DEF MirrorInv, Bytes
  <1>. QED  BY <1>1, <1>2, <1>3, CalmMirror

LEMMA WriteUpdateMirror ==
  ASSUME Inv, MirrorInv, WriteUpdate
  PROVE  MirrorInv'
  <1>1. /\ op.name = "update" /\ op.name \in Writing /\ UNCHANGED <<disk, mem, may, bad, crashes, size, res>>
    BY DEF WriteUpdate, Writing
  <1>2. op \in WriteOps
    BY <1>1, OpIs DEF Inv
  <1>3. (op'.name = "size" /\ op'.x = op.x) \/ op'.name = "idle"
    <2>1. op' = [op EXCEPT !.name = "size"] \/ op' = Idle
      BY DEF WriteUpdate
    <2>. QED  BY <1>2, <2>1 DEF WriteOps, Idle
  <1>4. (\A x \in 0..size-1 : Lawful(x)) /\ \A x \in 0..op.x-1 : Lawful(x)
    BY <1>1 DEF MirrorInv, Bytes
  <1>5. op'.name \in Writing => op'.x = op.x
    BY <1>3 DEF Writing
  <1>. QED  BY <1>1, <1>3, <1>4, <1>5, CalmMirror

LEMMA WriteSizeMirror ==
  ASSUME Inv, MirrorInv, WriteSize
  PROVE  MirrorInv'
  <1>1. /\ op.name = "size" /\ op.name \in Writing /\ size' = op.x /\ op' = Idle
        /\ UNCHANGED <<disk, mem, may, bad, crashes, res>>
    BY DEF WriteSize, Writing
  <1>2. op'.name = "idle" /\ op'.name \notin Writing
    BY <1>1 DEF Idle, Writing
  <1>3. \A x \in 0..op.x-1 : Lawful(x)
    BY <1>1 DEF MirrorInv, Bytes
  <1>. QED  BY <1>1, <1>2, <1>3, CalmMirror

\* Fresh blocks are the same in all copies, and no byte of the file is in them.
LEMMA WriteMapMirror ==
  ASSUME Inv, MirrorInv, WriteMap
  PROVE  MirrorInv'
  <1>0. op.name = "map" /\ op.name \in Writing /\ UNCHANGED <<size, daddrs, dsize, res, may, bad, crashes>>
    BY DEF WriteMap, Writing
  <1>1. op \in WriteOps /\ op.x \in Nat /\ res = NoRes
    BY <1>0, OpIs DEF Inv
  <1>2. (\A x \in 0..size-1 : Lawful(x)) /\ \A x \in 0..op.x-1 : Lawful(x)
    BY <1>0 DEF MirrorInv, Bytes
  <1>3. CASE ~InRange(op.x)
    <2>1. op' = Idle /\ UNCHANGED <<disk, mem>>
      BY <1>3 DEF WriteMap
    <2>2. op'.name = "idle" /\ op'.name \notin Writing
      BY <2>1 DEF Idle, Writing
    <2>. QED  BY <1>0, <1>2, <2>1, <2>2, CalmMirror
  <1>4. CASE InRange(op.x)
    <2>1. Allocate(op.x) /\ op' = [op EXCEPT !.name = "copy"]
      BY <1>4 DEF WriteMap
    <2>2. op'.name = "copy" /\ op'.x = op.x /\ op'.rest = op.rest /\ op'.v = op.v /\ op'.copy = op.copy /\ op.copy = 0
      BY <1>0, <1>1, <2>1 DEF WriteOps, MirrorInv, Done
    <2>3. /\ mem' = [p \in Pos |-> IF p \in Fresh THEN Zero ELSE mem[p]]
          /\ disk' = [p \in Pos |-> IF p \in Fresh THEN Zero ELSE disk[p]]
          /\ Fresh = {} \/ Fresh = Want
      BY <1>0, <1>4, <2>1, Allocated
    <2>4. Done'
      BY <2>2, Layout DEF Done
    <2>5. ASSUME NEW x, Covered(x, addrs), Lawful(x) PROVE Lawful(x)'
      <3>1. \A c \in Copies : mbmap(x, c) \in Pos /\ mbmap(x, c) \notin Fresh
        BY <2>5 DEF Covered, InRange, Fresh
      <3>2. \A c \in Copies : mem'[mbmap(x, c)] = mem[mbmap(x, c)] /\ disk'[mbmap(x, c)] = disk[mbmap(x, c)]
        BY <2>3, <3>1
      <3>. QED  BY <1>0, <2>5, <3>2 DEF Lawful
    <2>6. Bytes'
      <3>1. \A x \in 0..size-1 : Covered(x, addrs)
        BY CoveredMore DEF Inv, Pointers
      <3>2. \A x \in 0..op.x-1 : Covered(x, addrs)
        BY <1>0 DEF Inv, Pointers
      <3>. QED  BY <1>0, <1>2, <2>2, <2>5, <3>1, <3>2 DEF Bytes
    <2>7. OneOdd'
      <3>1. PICK g \in Groups \cup {-1}, h \in Copies :
              (NoMishap => g = -1) /\ bad \subseteq {Pt(g, h)} /\ Mirrors(g, h) /\ Flags(h)
        BY DEF MirrorInv, OneOdd
      <3>2. ASSUME NEW k \in Groups, NEW c \in Copies, ~(k = g /\ c = h)
            PROVE  mem'[Pt(k, c)] = disk'[Pt(k, c)]
        <4>1. Pt(k, c) \in Pos /\ mem[Pt(k, c)] = disk[Pt(k, c)]
          BY <3>1, <3>2, InGroup DEF Mirrors
        <4>. QED  BY <2>3, <4>1
      <3>3. ASSUME NEW k \in Groups, NEW c \in Copies, ~(k = g /\ c = h), NEW d \in Copies, ~(k = g /\ d = h)
            PROVE  disk'[Pt(k, c)] = disk'[Pt(k, d)]
        <4>1. Pt(k, c) \in Pos /\ Pt(k, d) \in Pos /\ disk[Pt(k, c)] = disk[Pt(k, d)]
          BY <1>0, <3>1, <3>3, InGroup DEF Mirrors, Agree, Busy
        <4>2. Pt(k, c) \in Want <=> Pt(k, d) \in Want
          <5>1. Blk(op.x) \in Int /\ k \in Int
            BY <1>1, Places, InGroup
          <5>2. \A e \in Copies : Pt(k, e) \in Want <=> k = Blk(op.x)
            BY <5>1, Apart DEF Want
          <5>. QED  BY <5>2
        <4>. QED  BY <2>3, <4>1, <4>2
      <3>4. Mirrors(g, h)'
        BY <3>2, <3>3 DEF Mirrors, Agree, New
      <3>5. Flags(h)' /\ (NoMishap' => g = -1) /\ bad' \subseteq {Pt(g, h)}
        BY <1>0, <2>2, <3>1 DEF Flags, NoMishap
      <3>. QED  BY <3>1, <3>4, <3>5 DEF OneOdd
    <2>8. Answers'
      BY <1>0, <1>1, <2>2 DEF Answers, NoRes
    <2>. QED  BY <2>4, <2>6, <2>7, <2>8 DEF MirrorInv
  <1>. QED  BY <1>3, <1>4

\* The bytes of a patched block.
LEMMA PatchedAt ==
  ASSUME NEW b, NEW x \in Nat, Blk(x) = Blk(op.x), op.x \in Nat, op.rest \in Nat \ {0}
  PROVE  New(b)[Off(x)] = IF x \in Bytewise THEN op.v ELSE b[Off(x)]
  <1>1. Off(x) \in Offs
    BY Places
  <1>2. Off(x) >= Off(op.x) /\ Off(x) < Off(op.x) + Size <=> x \in Bytewise
    BY ChunkIs DEF Size, Bytewise
  <1>. QED  BY <1>1, <1>2 DEF New, Patched, Size

\* One copy more is written.
LEMMA WriteCopyMirror ==
  ASSUME Inv, MirrorInv, WriteCopy
  PROVE  MirrorInv'
  <1>. DEFINE b == Blk(op.x)
              N == New(mem[Here])
  <1>0. /\ op.name = "copy" /\ op.x \in Nat /\ op.rest \in Nat \ {0} /\ op.v \in Val /\ op.copy \in Copies
        /\ op.x + op.rest <= MaxSize /\ res = NoRes /\ b \in Groups /\ b \in Int /\ Here \in Pos
        /\ mem[Here] \in [Offs -> Byte] /\ Size \in Nat \ {0} /\ Size <= op.rest
        /\ mem' = [mem EXCEPT ![Here] = N] /\ disk' = [disk EXCEPT ![Here] = N]
        /\ UNCHANGED <<size, res, bad, crashes>> /\ op.name \in Writing
    <2>1. /\ op.name = "copy" /\ op.x \in Nat /\ op.rest \in Nat \ {0} /\ op.v \in Val /\ op.copy \in Copies
          /\ op.x + op.rest <= MaxSize /\ res = NoRes /\ b \in Groups /\ Here \in Pos
          /\ mem[Here] \in [Offs -> Byte] /\ Size \in Nat \ {0} /\ Size <= op.rest
          /\ UNCHANGED <<inode, res, bad, crashes>>
      BY WriteCopyIs
    <2>2. mem' = [mem EXCEPT ![Here] = N] /\ disk' = [disk EXCEPT ![Here] = N]
      BY WriteCopyIs
    <2>3. op.name \in Writing
      BY <2>1 DEF Writing
    <2>4. b \in Int
      <3>1. b \in Groups
        BY <2>1
      <3>. HIDE DEF b
      <3>. QED  BY <3>1, InGroup
    <2>. QED  BY <2>1, <2>2, <2>3, <2>4 DEF inode
  <1>1. mem \in [Pos -> [Offs -> Byte]] /\ disk \in [Pos -> [Offs -> Byte]]
    BY DEF Inv, TypeOK
  <1>2. /\ mem'[Here] = N /\ disk'[Here] = N
        /\ \A p \in Pos : p # Here => mem'[p] = mem[p] /\ disk'[p] = disk[p]
    BY <1>0, <1>1
  <1>3. \A k \in Groups : \A c \in Copies :
          /\ Pt(k, c) \in Pos /\ disk[Pt(k, c)] \in [Offs -> Byte] /\ mem[Pt(k, c)] \in [Offs -> Byte]
          /\ Pt(k, c) = Here <=> k = b /\ c = op.copy
    <2>1. \A k \in Groups : \A c \in Copies : Pt(k, c) \in Pos /\ k \in Int
      BY InGroup
    <2>2. \A k \in Groups : \A c \in Copies : Pt(k, c) = Here <=> k = b /\ c = op.copy
      BY <1>0, <2>1, Apart DEF Here
    <2>. QED  BY <1>1, <2>1, <2>2
  <1>4. \A s \in [Offs -> Byte] : New(New(s)) = New(s)
    BY <1>0, Blocks DEF New
  <1>5. /\ op.copy < 2 => /\ op'.name = "copy" /\ op'.x = op.x /\ op'.rest = op.rest /\ op'.v = op.v
                          /\ op'.copy = op.copy + 1
        /\ ~(op.copy < 2) => op'.name \in {"update", "map"} /\ op'.x = op.x + Size /\ op'.copy = 0
    BY WriteCopyIs
  <1>6. \A c \in Copies : c < op.copy => New(disk[Pt(b, c)]) = disk[Pt(b, c)] /\ New(mem[Pt(b, c)]) = mem[Pt(b, c)]
    BY <1>0 DEF MirrorInv, Done
  <1>. HIDE DEF N
  <1>7. ASSUME op.copy < 2 PROVE (\A s : New(s)' = Patched(s', op.x, op.rest, op.v)) /\ \A k : Busy(k)' <=> k = b
    BY <1>5, <1>7 DEF New, Busy
  <1>8. Done'
    <2>1. CASE op.copy < 2
      <3>1. op'.name = "copy" /\ op'.x = op.x /\ op'.rest = op.rest /\ op'.v = op.v /\ op'.copy = op.copy + 1
        BY <1>5, <2>1
      <3>2. ASSUME NEW c \in Copies, c < op.copy + 1
            PROVE  New(disk'[Pt(b, c)]) = disk'[Pt(b, c)] /\ New(mem'[Pt(b, c)]) = mem'[Pt(b, c)]
        <4>1. CASE c = op.copy
          BY <1>0, <1>2, <1>3, <1>4, <4>1 DEF N
        <4>2. CASE c # op.copy
          <5>1. c < op.copy /\ Pt(b, c) # Here /\ Pt(b, c) \in Pos
            BY <1>0, <1>3, <3>2, <4>2, Layout
          <5>. QED  BY <1>2, <1>6, <5>1
        <4>. QED  BY <4>1, <4>2
      <3>. QED  BY <3>1, <3>2 DEF Done, New
    <2>2. CASE ~(op.copy < 2)
      BY <1>5, <2>2 DEF Done
    <2>. QED  BY <2>1, <2>2
  <1>9. Bytes'
    <2>0. /\ may \in [0..MaxSize-1 -> SUBSET Val]
          /\ may' = [y \in DOMAIN may |-> IF y \notin Bytewise THEN may[y]
                                          ELSE IF op.copy = 2 THEN {op.v} ELSE may[y] \cup {op.v}]
      BY WriteCopyIs DEF Inv, TypeOK
    <2>1. ASSUME NEW x \in 0..MaxSize-1, x \in Bytewise \/ Lawful(x), x \in Bytewise /\ op.copy < 2 => Lawful(x)
          PROVE  Lawful(x)'
      <3>0. x \in Nat /\ Off(x) \in Offs /\ Blk(x) \in Nat /\ Blk(x) \in Int
        <4>1. x \in Nat
          BY Layout
        <4>. QED  BY <4>1, Places
      <3>1. x \in Bytewise => Blk(x) = b
        BY <1>0, ChunkIs DEF Bytewise, Size
      <3>2. ASSUME NEW c \in Copies, Pt(Blk(x), c) \notin bad'
            PROVE  disk'[Pt(Blk(x), c)][Off(x)] \in may'[x] /\ mem'[Pt(Blk(x), c)][Off(x)] \in may'[x]
        <4>0. Pt(Blk(x), c) \notin bad
          BY <1>0, <3>2
        <4>1. CASE x \in Bytewise /\ c = op.copy
          <5>1. Pt(Blk(x), c) = Here
            BY <1>0, <1>3, <3>1, <4>1
          <5>2. N[Off(x)] = op.v
            BY <1>0, <3>0, <3>1, <4>1, PatchedAt DEF N
          <5>3. op.v \in may'[x]
            BY <2>0, <4>1
          <5>. QED  BY <1>2, <5>1, <5>2, <5>3
        <4>2. CASE x \in Bytewise /\ c # op.copy /\ op.copy < 2
          <5>1. Pt(Blk(x), c) # Here /\ Pt(Blk(x), c) \in Pos
            BY <1>0, <1>3, <3>1, <4>2
          <5>2. disk[Pt(Blk(x), c)][Off(x)] \in may[x] /\ mem[Pt(Blk(x), c)][Off(x)] \in may[x]
            BY <2>1, <3>0, <4>0, <4>2, LawfulAt
          <5>3. may[x] \subseteq may'[x]
            BY <2>0, <4>2
          <5>. QED  BY <1>2, <5>1, <5>2, <5>3
        <4>3. CASE x \in Bytewise /\ c # op.copy /\ ~(op.copy < 2)
          <5>1. Pt(Blk(x), c) # Here /\ Pt(Blk(x), c) \in Pos /\ Blk(x) = b
            BY <1>0, <1>3, <3>1, <4>3
          <5>2. op.copy = 2 /\ c < op.copy
            BY <1>0, <4>3, Layout
          <5>3. /\ disk[Pt(b, c)][Off(x)] = New(disk[Pt(b, c)])[Off(x)]
                /\ mem[Pt(b, c)][Off(x)] = New(mem[Pt(b, c)])[Off(x)]
            BY <1>6, <5>2
          <5>4. /\ New(disk[Pt(b, c)])[Off(x)] = op.v /\ New(mem[Pt(b, c)])[Off(x)] = op.v
            BY <1>0, <3>0, <3>1, <4>3, PatchedAt
          <5>5. op.v \in may'[x]
            BY <2>0, <4>3
          <5>. QED  BY <1>2, <5>1, <5>3, <5>4, <5>5
        <4>4. CASE x \notin Bytewise
          <5>1. disk[Pt(Blk(x), c)][Off(x)] \in may[x] /\ mem[Pt(Blk(x), c)][Off(x)] \in may[x]
            BY <2>1, <3>0, <4>0, <4>4, LawfulAt
          <5>2. may'[x] = may[x]
            BY <2>0, <4>4
          <5>3. CASE Pt(Blk(x), c) = Here
            <6>1. Blk(x) = b
              BY <1>0, <3>0, <5>3, Apart DEF Here
            <6>2. N[Off(x)] = mem[Here][Off(x)]
              BY <1>0, <3>0, <4>4, <6>1, PatchedAt DEF N
            <6>. QED  BY <1>2, <5>1, <5>2, <5>3, <6>2
          <5>4. CASE Pt(Blk(x), c) # Here
            <6>1. mem' = [p \in Pos |-> mem'[p]] /\ mem = [p \in Pos |-> mem[p]]
              BY <1>0, <1>1
            <6>2. mem'[Pt(Blk(x), c)] = mem[Pt(Blk(x), c)] /\ disk'[Pt(Blk(x), c)] = disk[Pt(Blk(x), c)]
              BY <1>0, <5>4
            <6>. QED  BY <5>1, <5>2, <6>2
          <5>. QED  BY <5>3, <5>4
        <4>. QED  BY <4>1, <4>2, <4>3, <4>4
      <3>3. \A c \in Copies : mbmap(x, c) = Pt(Blk(x), c)
        BY <3>0, Places
      <3>. QED  BY <3>2, <3>3 DEF Lawful
    <2>2. size \in 0..MaxSize /\ MaxSize \in Nat
      BY Layout DEF Inv, TypeOK
    <2>3. ASSUME NEW x \in 0..size-1 PROVE Lawful(x)'
      <3>1. x \in 0..MaxSize-1 /\ Lawful(x)
        BY <2>2 DEF MirrorInv, Bytes
      <3>. QED  BY <2>1, <3>1
    <2>4. ASSUME NEW x \in 0..op'.x-1 PROVE Lawful(x)'
      <3>1. CASE op.copy < 2
        <4>1. x \in 0..op.x-1 /\ x \in 0..MaxSize-1 /\ x \notin Bytewise
          BY <1>0, <1>5, <2>2, <3>1 DEF Bytewise
        <4>2. Lawful(x)
          BY <1>0, <4>1 DEF MirrorInv, Bytes
        <4>. QED  BY <2>1, <4>1, <4>2
      <3>2. CASE ~(op.copy < 2)
        <4>1. x \in 0..MaxSize-1 /\ (x \in Bytewise \/ x \in 0..op.x-1)
          BY <1>0, <1>5, <2>2, <3>2 DEF Bytewise
        <4>2. x \in Bytewise \/ Lawful(x)
          BY <1>0, <4>1 DEF MirrorInv, Bytes
        <4>. QED  BY <2>1, <3>2, <4>1, <4>2
      <3>. QED  BY <3>1, <3>2
    <2>. QED  BY <1>0, <2>3, <2>4 DEF Bytes
  <1>10. OneOdd'
    <2>1. PICK g \in Groups \cup {-1}, h \in Copies :
            (NoMishap => g = -1) /\ bad \subseteq {Pt(g, h)} /\ Mirrors(g, h) /\ Flags(h)
      BY DEF MirrorInv, OneOdd
    <2>2. ASSUME NEW k \in Groups, NEW c \in Copies, ~(k = g /\ c = h)
          PROVE  mem'[Pt(k, c)] = disk'[Pt(k, c)] /\ mem[Pt(k, c)] = disk[Pt(k, c)]
      <3>1. Pt(k, c) \in Pos /\ mem[Pt(k, c)] = disk[Pt(k, c)]
        BY <2>1, <2>2, <1>3 DEF Mirrors
      <3>. QED  BY <1>2, <3>1
    <2>3. ASSUME NEW k \in Groups, NEW c \in Copies, ~(k = g /\ c = h), NEW d \in Copies, ~(k = g /\ d = h)
          PROVE  Agree(k, c, d)'
      <3>0. Agree(k, c, d)
        BY <2>1, <2>3 DEF Mirrors
      <3>1. CASE k # b
        <4>1. ~Busy(k) /\ ~Busy(k)'
          BY <1>0, <1>5, <3>1 DEF Busy
        <4>2. disk'[Pt(k, c)] = disk[Pt(k, c)] /\ disk'[Pt(k, d)] = disk[Pt(k, d)]
          BY <1>2, <1>3, <3>1
        <4>. QED  BY <3>0, <4>1, <4>2 DEF Agree
      <3>2. CASE k = b
        <4>. DEFINE D(e) == disk[Pt(b, e)]
                    E(e) == disk'[Pt(b, e)]
        <4>1. New(D(c)) = New(D(d)) /\ ((c < op.copy <=> d < op.copy) => D(c) = D(d))
          BY <1>0, <3>0, <3>2 DEF Agree, Busy
        <4>2. ASSUME NEW e \in Copies, ~(k = g /\ e = h) PROVE E(e) = IF e <= op.copy THEN New(D(e)) ELSE D(e)
          <5>1. CASE e = op.copy
            <6>1. Pt(b, e) = Here /\ mem[Here] = D(e)
              BY <1>0, <1>3, <2>2, <3>2, <4>2, <5>1
            <6>. QED  BY <1>0, <1>2, <5>1, <6>1, Layout DEF N
          <5>2. CASE e # op.copy
            <6>1. E(e) = D(e)
              BY <1>0, <1>2, <1>3, <5>2
            <6>2. e <= op.copy => e < op.copy
              BY <1>0, <5>2, Layout
            <6>. QED  BY <1>6, <6>1, <6>2
          <5>. QED  BY <5>1, <5>2
        <4>3. New(E(c)) = New(E(d)) /\ ((c <= op.copy <=> d <= op.copy) => E(c) = E(d))
          <5>1. D(c) \in [Offs -> Byte] /\ D(d) \in [Offs -> Byte]
            BY <1>0, <1>3
          <5>2. E(c) = (IF c <= op.copy THEN New(D(c)) ELSE D(c)) /\ E(d) = (IF d <= op.copy THEN New(D(d)) ELSE D(d))
            BY <2>3, <4>2
          <5>3. New(New(D(c))) = New(D(c)) /\ New(New(D(d))) = New(D(d))
            BY <1>4, <5>1
          <5>4. ~(c <= op.copy) /\ ~(d <= op.copy) => ~(c < op.copy) /\ ~(d < op.copy)
            BY <1>0, Layout
          <5>. HIDE DEF D, E
          <5>. QED  BY <4>1, <5>2, <5>3, <5>4
        <4>4. CASE op.copy < 2
          <5>1. /\ op'.x = op.x /\ op'.rest = op.rest /\ op'.v = op.v /\ op'.copy = op.copy + 1
                /\ \A e \in Copies : e < op'.copy <=> e <= op.copy
            BY <1>0, <1>5, <4>4, Layout
          <5>2. Patched(E(c), op'.x, op'.rest, op'.v) = Patched(E(d), op'.x, op'.rest, op'.v)
            BY <4>3, <5>1 DEF New
          <5>3. (c < op'.copy <=> d < op'.copy) => E(c) = E(d)
            BY <4>3, <5>1
          <5>4. Busy(k)'
            BY <1>7, <3>2, <4>4
          <5>. QED  BY <3>2, <5>2, <5>3, <5>4 DEF Agree, New
        <4>5. CASE ~(op.copy < 2)
          <5>1. c <= op.copy /\ d <= op.copy
            BY <1>0, <4>5, Layout
          <5>2. E(c) = E(d)
            BY <4>3, <5>1
          <5>3. ~Busy(k)'
            BY <1>5, <4>5 DEF Busy
          <5>. QED  BY <3>2, <5>2, <5>3 DEF Agree
        <4>. QED  BY <4>4, <4>5
      <3>. QED  BY <3>1, <3>2
    <2>4. Mirrors(g, h)'
      BY <2>2, <2>3 DEF Mirrors
    <2>5. Flags(h)' /\ (NoMishap' => g = -1) /\ bad' \subseteq {Pt(g, h)}
      BY <1>0, <1>5, <2>1 DEF Flags, NoMishap
    <2>. QED  BY <2>1, <2>4, <2>5 DEF OneOdd
  <1>11. Answers'
    <2>1. op'.name # "read"
      BY <1>5
    <2>. QED  BY <1>0, <2>1 DEF Answers, NoRes
  <1>. QED  BY <1>8, <1>9, <1>10, <1>11 DEF MirrorInv

\* A read puts nothing into a block that was in none of its copies.
LEMMA OutcomeBytes ==
  ASSUME TypeOK, Blk(op.x) \in Groups, NEW d12, NEW d13, NEW d23, Outcome(d12, d13, d23),
         NEW k \in Groups, NEW c \in Copies, NEW j \in Offs
  PROVE  /\ \E s \in Copies : mem'[Pt(k, c)][j] = mem[Pt(k, s)][j]
         /\ \E s \in Copies : disk'[Pt(k, c)][j] \in {disk[Pt(k, s)][j], mem[Pt(k, s)][j]}
  <1>0. mem \in [Pos -> [Offs -> Byte]] /\ disk \in [Pos -> [Offs -> Byte]] /\ Pt(k, c) \in Pos
    BY InGroup DEF TypeOK
  <1>. DEFINE b == Blk(op.x)
              P(e) == Pt(b, e)
              M(e, s) == Merged(mem[P(e)], mem[P(s)], op.x, op.rest)
  <1>1. \A e \in Copies : P(e) \in Pos /\ (Pt(k, c) = P(e) => k = b /\ c = e)
    <2>1. b \in Int /\ k \in Int
      <3>1. b \in Groups
        OBVIOUS
      <3>. HIDE DEF b
      <3>. QED  BY <3>1, InGroup
    <2>. QED  BY <2>1, Apart, InGroup
  <1>2. \A e, s \in Copies : M(e, s)[j] = mem[P(e)][j] \/ M(e, s)[j] = mem[P(s)][j]
    BY DEF Merged
  <1>3. 0 \in Copies /\ 1 \in Copies /\ 2 \in Copies
    BY Layout
  <1>. HIDE DEF M, P, b
  <1>4. ASSUME NEW e \in Copies, NEW s \in Copies,
               mem' = [mem EXCEPT ![P(e)] = M(e, s)], disk' = [disk EXCEPT ![P(e)] = M(e, s)]
        PROVE  /\ \E t \in Copies : mem'[Pt(k, c)][j] = mem[Pt(k, t)][j]
               /\ \E t \in Copies : disk'[Pt(k, c)][j] \in {disk[Pt(k, t)][j], mem[Pt(k, t)][j]}
    <2>1. CASE Pt(k, c) = P(e)
      <3>1. k = b
        BY <1>1, <2>1
      <3>2. mem'[Pt(k, c)] = M(e, s) /\ disk'[Pt(k, c)] = M(e, s)
        BY <1>0, <1>4, <2>1
      <3>. QED  BY <1>2, <3>1, <3>2 DEF P
    <2>2. CASE Pt(k, c) # P(e)
      <3>1. mem'[Pt(k, c)] = mem[Pt(k, c)] /\ disk'[Pt(k, c)] = disk[Pt(k, c)]
        BY <1>0, <1>4, <2>2
      <3>. QED  BY <3>1
    <2>. QED  BY <2>1, <2>2
  <1>5. ASSUME mem' = [mem EXCEPT ![P(2)] = M(2, 1)], disk' = [disk EXCEPT ![P(1)] = mem[P(1)]]
        PROVE  /\ \E t \in Copies : mem'[Pt(k, c)][j] = mem[Pt(k, t)][j]
               /\ \E t \in Copies : disk'[Pt(k, c)][j] \in {disk[Pt(k, t)][j], mem[Pt(k, t)][j]}
    <2>1. \E t \in Copies : mem'[Pt(k, c)][j] = mem[Pt(k, t)][j]
      <3>1. CASE Pt(k, c) = P(2)
        BY <1>0, <1>1, <1>2, <1>3, <1>5, <3>1 DEF P
      <3>2. CASE Pt(k, c) # P(2)
        BY <1>0, <1>5, <3>2
      <3>. QED  BY <3>1, <3>2
    <2>2. \E t \in Copies : disk'[Pt(k, c)][j] \in {disk[Pt(k, t)][j], mem[Pt(k, t)][j]}
      <3>1. disk'[Pt(k, c)] = disk[Pt(k, c)] \/ disk'[Pt(k, c)] = mem[Pt(k, c)]
        BY <1>0, <1>5
      <3>. QED  BY <3>1
    <2>. QED  BY <2>1, <2>2
  <1>6. ASSUME UNCHANGED <<mem, disk>>
        PROVE  /\ \E t \in Copies : mem'[Pt(k, c)][j] = mem[Pt(k, t)][j]
               /\ \E t \in Copies : disk'[Pt(k, c)][j] \in {disk[Pt(k, t)][j], mem[Pt(k, t)][j]}
    BY <1>6
  <1>7. \/ UNCHANGED <<mem, disk>>
        \/ mem' = [mem EXCEPT ![P(1)] = M(1, 2)] /\ disk' = [disk EXCEPT ![P(1)] = M(1, 2)]
        \/ mem' = [mem EXCEPT ![P(0)] = M(0, 2)] /\ disk' = [disk EXCEPT ![P(0)] = M(0, 2)]
        \/ mem' = [mem EXCEPT ![P(2)] = M(2, 1)] /\ disk' = [disk EXCEPT ![P(1)] = mem[P(1)]]
    BY DEF Outcome, P, M, b
  <1>. QED  BY <1>3, <1>4, <1>5, <1>6, <1>7

\* A read that is not misled repairs the odd copy, and harms no other.
LEMMA ReadBlockMirror ==
  ASSUME Inv, MirrorInv, ReadBlock, ~misled'
  PROVE  MirrorInv'
  <1>. DEFINE b == Blk(op.x)
              B(c) == mem[Pt(b, c)]
  <1>0. /\ op.name = "read" /\ op \in ReadOps(op.dst) /\ op.off \in Nat /\ op.x \in Nat /\ op.rest \in Nat \ {0}
        /\ op.n \in Nat /\ op.x + op.rest <= size /\ res = NoRes /\ op.off <= op.x
        /\ b \in Groups /\ Size \in Nat \ {0} /\ Size <= op.rest
        /\ UNCHANGED <<inode, wild, may, bad, crashes>>
    BY ReadBlockIs
  <1>1. PICK d12, d13, d23, past \in BOOLEAN :
          Outcome(d12, d13, d23) /\ Goes(d12, d13, d23, past) /\ Finds(d12, d13, d23, past)
    BY ReadBlockIs
  <1>2. PICK g \in Groups \cup {-1}, h \in Copies :
          (NoMishap => g = -1) /\ bad \subseteq {Pt(g, h)} /\ Mirrors(g, h) /\ Flags(h)
    BY DEF MirrorInv, OneOdd
  <1>3. mem \in [Pos -> [Offs -> Byte]] /\ disk \in [Pos -> [Offs -> Byte]] /\ size \in 0..MaxSize
    BY DEF Inv, TypeOK
  <1>4. ASSUME NEW k \in Groups, NEW c \in Copies, ~(k = g /\ c = h)
        PROVE  /\ Pt(k, c) \in Pos /\ mem[Pt(k, c)] = disk[Pt(k, c)]
               /\ \A d \in Copies : ~(k = g /\ d = h) => disk[Pt(k, c)] = disk[Pt(k, d)] /\ mem[Pt(k, c)] = mem[Pt(k, d)]
    <2>1. ~Busy(k)
      BY <1>0 DEF Busy
    <2>. QED  BY <1>2, <1>4, <2>1, InGroup DEF Mirrors, Agree
  <1>5. op' = Idle \/ (op'.name = "read" /\ op'.d12 = d12 /\ op'.d13 = d13 /\ op'.d23 = d23 /\ op'.past = past /\ op'.dst = Text)
    BY <1>0, <1>1 DEF Goes, ReadOps
  <1>6. op'.name = "idle" \/ op'.name = "read"
    BY <1>5 DEF Idle
  <1>. DEFINE Safe(e, s) == (b = g /\ e = h) \/ B(e) = B(s)
  <1>6a. \A c, d \in Copies : ~(b = g /\ c = h) /\ ~(b = g /\ d = h) => B(c) = B(d)
    BY <1>0, <1>4
  <1>6b. 0 \in Copies /\ 1 \in Copies /\ 2 \in Copies /\ h \in {0, 1, 2}
    BY Layout
  <1>6c. /\ ~past => /\ ~op.past
                     /\ d12 => op.d12 \/ B(0) # B(1)
                     /\ d23 => op.d23 \/ B(1) # B(2)
                     /\ d13 => op.d13 \/ B(0) # B(2)
         /\ past => /\ d12 \/ B(0) = B(1)
                    /\ d23 \/ B(1) = B(2)
                    /\ d13 \/ B(0) = B(2)
    BY <1>1 DEF Finds
  <1>7. ~past => (d12 => h # 2) /\ (d13 => h # 1) /\ (d23 => h # 0)
    <2>1. ~op.past => (op.d12 => h # 2) /\ (op.d13 => h # 1) /\ (op.d23 => h # 0)
      BY <1>0, <1>2 DEF Flags
    <2>2. (h = 2 => B(0) = B(1)) /\ (h = 1 => B(0) = B(2)) /\ (h = 0 => B(1) = B(2))
      <3>. HIDE DEF B, b
      <3>. QED  BY <1>6a, <1>6b
    <2>. HIDE DEF B
    <2>3. ~past /\ d12 => h # 2
      BY <1>6c, <2>1, <2>2, Zenon
    <2>4. ~past /\ d13 => h # 1
      BY <1>6c, <2>1, <2>2, Zenon
    <2>5. ~past /\ d23 => h # 0
      BY <1>6c, <2>1, <2>2, Zenon
    <2>. QED  BY <2>3, <2>4, <2>5
  <1>8. d12 /\ d13 /\ d23 => past
    BY <1>6b, <1>7
  <1>8a. /\ d12 /\ d23 /\ ~d13 => Safe(1, 2)
         /\ d12 /\ d13 /\ ~d23 => Safe(0, 2)
         /\ d13 /\ d23 /\ ~d12 => Safe(2, 1)
    <2>. HIDE DEF B, b
    <2>1. CASE past
      <3>1. CASE b = g
        <4>1. (h # 0 /\ h # 1 => B(0) = B(1)) /\ (h # 0 /\ h # 2 => B(0) = B(2)) /\ (h # 1 /\ h # 2 => B(1) = B(2))
          BY <1>6a, <1>6b
        <4>2. (~d13 => B(0) = B(2)) /\ (~d23 => B(1) = B(2)) /\ (~d12 => B(0) = B(1))
          BY <1>6c, <2>1, Zenon
        <4>3. CASE h = 0
          BY <3>1, <4>1, <4>2, <4>3
        <4>4. CASE h = 1
          BY <3>1, <4>1, <4>2, <4>4
        <4>5. CASE h = 2
          BY <3>1, <4>1, <4>2, <4>5
        <4>. QED  BY <1>6b, <4>3, <4>4, <4>5
      <3>2. CASE b # g
        BY <1>6a, <1>6b, <3>2
      <3>. QED  BY <3>1, <3>2
    <2>2. CASE ~past
      <3>1. CASE b = g
        BY <1>6b, <1>7, <2>2, <3>1
      <3>2. CASE b # g
        BY <1>6a, <1>6b, <3>2
      <3>. QED  BY <3>1, <3>2
    <2>. QED  BY <2>1, <2>2
  <1>9. ASSUME NEW k \in Groups, NEW c \in Copies, ~(k = g /\ c = h)
        PROVE  mem'[Pt(k, c)] = mem[Pt(k, c)] /\ disk'[Pt(k, c)] = disk[Pt(k, c)]
    <2>. DEFINE P(e) == Pt(b, e)
                M(e, s) == Merged(mem[P(e)], mem[P(s)], op.x, op.rest)
    <2>1. \A e \in Copies : P(e) \in Pos /\ (Pt(k, c) = P(e) => k = b /\ c = e)
      <3>1. b \in Int /\ k \in Int
        <4>1. b \in Groups
          BY <1>0
        <4>. HIDE DEF b
        <4>. QED  BY <4>1, InGroup
      <3>. QED  BY <1>0, <3>1, Apart, InGroup
    <2>2. Pt(k, c) \in Pos /\ mem[Pt(k, c)] = disk[Pt(k, c)]
      BY <1>4, <1>9
    <2>3. \A e, s \in Copies : Safe(e, s) /\ Pt(k, c) = P(e) => M(e, s) = mem[Pt(k, c)]
      <3>. SUFFICES ASSUME NEW e \in Copies, NEW s \in Copies, Safe(e, s), Pt(k, c) = P(e) PROVE M(e, s) = mem[Pt(k, c)]
        OBVIOUS
      <3>1. k = b /\ c = e
        BY <2>1
      <3>2. mem[P(s)] = mem[P(e)] /\ mem[P(e)] \in [Offs -> Byte]
        <4>1. mem[P(s)] = mem[P(e)]
          BY <1>9, <3>1
        <4>2. P(e) \in Pos
          BY <2>1
        <4>. QED  BY <1>3, <4>1, <4>2
      <3>3. \A s1 \in [Offs -> Byte] : Merged(s1, s1, op.x, op.rest) = s1
        BY DEF Merged
      <3>. QED  BY <3>2, <3>3
    <2>5. \/ UNCHANGED <<mem, disk>>
          \/ Safe(1, 2) /\ mem' = [mem EXCEPT ![P(1)] = M(1, 2)] /\ disk' = [disk EXCEPT ![P(1)] = M(1, 2)]
          \/ Safe(0, 2) /\ mem' = [mem EXCEPT ![P(0)] = M(0, 2)] /\ disk' = [disk EXCEPT ![P(0)] = M(0, 2)]
          \/ Safe(2, 1) /\ mem' = [mem EXCEPT ![P(2)] = M(2, 1)] /\ disk' = [disk EXCEPT ![P(1)] = mem[P(1)]]
      <3>1. \/ UNCHANGED <<mem, disk>>
            \/ d12 /\ d23 /\ ~d13 /\ mem' = [mem EXCEPT ![P(1)] = M(1, 2)] /\ disk' = [disk EXCEPT ![P(1)] = M(1, 2)]
            \/ d12 /\ d13 /\ ~d23 /\ mem' = [mem EXCEPT ![P(0)] = M(0, 2)] /\ disk' = [disk EXCEPT ![P(0)] = M(0, 2)]
            \/ d13 /\ d23 /\ ~d12 /\ mem' = [mem EXCEPT ![P(2)] = M(2, 1)] /\ disk' = [disk EXCEPT ![P(1)] = mem[P(1)]]
        BY <1>1 DEF Outcome
      <3>. HIDE DEF Safe, P, M
      <3>. QED  BY <1>8a, <3>1
    <2>. HIDE DEF P, M, Safe
    <2>6. ASSUME NEW e \in Copies, NEW s \in Copies, Safe(e, s),
                 mem' = [mem EXCEPT ![P(e)] = M(e, s)], disk' = [disk EXCEPT ![P(e)] = M(e, s)]
          PROVE  mem'[Pt(k, c)] = mem[Pt(k, c)] /\ disk'[Pt(k, c)] = disk[Pt(k, c)]
      BY <1>3, <2>2, <2>3, <2>6
    <2>7. ASSUME Safe(2, 1), mem' = [mem EXCEPT ![P(2)] = M(2, 1)], disk' = [disk EXCEPT ![P(1)] = mem[P(1)]]
          PROVE  mem'[Pt(k, c)] = mem[Pt(k, c)] /\ disk'[Pt(k, c)] = disk[Pt(k, c)]
      <3>1. mem'[Pt(k, c)] = mem[Pt(k, c)]
        BY <1>3, <1>6b, <2>2, <2>3, <2>7
      <3>2. disk'[Pt(k, c)] = disk[Pt(k, c)]
        BY <1>3, <2>2, <2>7
      <3>. QED  BY <3>1, <3>2
    <2>8. CASE UNCHANGED <<mem, disk>>
      BY <2>8
    <2>. QED  BY <1>6b, <2>5, <2>6, <2>7, <2>8
  <1>10. Done'
    BY <1>6 DEF Done
  <1>11. Bytes'
    <2>1. ASSUME NEW x \in 0..size-1 PROVE Lawful(x)'
      <3>1. x \in Nat /\ Blk(x) \in Groups /\ Lawful(x) /\ Off(x) \in Offs
        <4>1. x \in Nat
          BY <1>3
        <4>2. Covered(x, daddrs) /\ Lawful(x)
          BY DEF Inv, Pointers, MirrorInv, Bytes
        <4>. QED  BY <4>1, <4>2, Places, InGroup DEF Covered
      <3>2. ASSUME NEW c \in Copies, Pt(Blk(x), c) \notin bad
            PROVE  disk'[Pt(Blk(x), c)][Off(x)] \in may[x] /\ mem'[Pt(Blk(x), c)][Off(x)] \in may[x]
        <4>1. CASE ~(Blk(x) = g /\ c = h)
          BY <1>9, <3>1, <3>2, <4>1, LawfulAt
        <4>2. CASE Blk(x) = g /\ c = h
          <5>1. bad = {}
            BY <1>2, <3>2, <4>2
          <5>2. \A s \in Copies : disk[Pt(Blk(x), s)][Off(x)] \in may[x] /\ mem[Pt(Blk(x), s)][Off(x)] \in may[x]
            BY <3>1, <5>1, LawfulAt
          <5>3. /\ \E s \in Copies : mem'[Pt(Blk(x), c)][Off(x)] = mem[Pt(Blk(x), s)][Off(x)]
                /\ \E s \in Copies : disk'[Pt(Blk(x), c)][Off(x)]
                                       \in {disk[Pt(Blk(x), s)][Off(x)], mem[Pt(Blk(x), s)][Off(x)]}
            BY <1>0, <1>1, <3>1, OutcomeBytes DEF Inv
          <5>. QED  BY <5>2, <5>3
        <4>. QED  BY <4>1, <4>2
      <3>3. \A c \in Copies : mbmap(x, c) = Pt(Blk(x), c)
        BY <3>1, Places
      <3>. QED  BY <1>0, <3>2, <3>3 DEF Lawful
    <2>2. size' = size /\ op'.name \notin Writing
      BY <1>0, <1>6 DEF inode, Writing
    <2>. QED  BY <2>1, <2>2 DEF Bytes
  <1>12. OneOdd'
    <2>1. \A k : ~Busy(k)'
      BY <1>6 DEF Busy
    <2>2. Mirrors(g, h)'
      BY <1>4, <1>9, <2>1 DEF Mirrors, Agree
    <2>3. Flags(h)'
      BY <1>5, <1>7 DEF Flags, Idle
    <2>4. (NoMishap' => g = -1) /\ bad' \subseteq {Pt(g, h)}
      BY <1>0, <1>2 DEF NoMishap
    <2>. QED  BY <2>2, <2>3, <2>4 DEF OneOdd
  <1>13. \A y \in DOMAIN Text : Text[y] \in may'[y] \/ mbmap(y, 2) \in bad'
    <2>1. ASSUME NEW y \in DOMAIN Text PROVE Text[y] \in may[y] \/ mbmap(y, 2) \in bad
      <3>1. y \in op.off..op.x+Size-1 /\ Text[y] = IF y < op.x THEN op.dst[y] ELSE mem[Pt(b, 2)][Off(y)]
        BY <2>1 DEF Text
      <3>2. CASE y < op.x
        <4>1. y \in DOMAIN op.dst
          <5>1. DOMAIN op.dst = op.off..op.x-1
            BY <1>0, OpIs DEF Inv
          <5>. QED  BY <1>0, <3>1, <3>2, <5>1
        <4>. QED  BY <1>0, <3>1, <3>2, <4>1 DEF MirrorInv, Answers, Told
      <3>3. CASE ~(y < op.x)
        <4>1. y \in op.x..op.x+Size-1 /\ y \in 0..size-1
          BY <1>0, <1>3, <3>1, <3>3
        <4>2. y \in Nat /\ Blk(y) = b
          BY <1>0, <4>1, ChunkIs DEF Size
        <4>3. Lawful(y) /\ 2 \in Copies
          BY <4>1, Layout DEF MirrorInv, Bytes
        <4>4. mbmap(y, 2) = Pt(Blk(y), 2)
          BY <4>2, Places
        <4>5. Pt(Blk(y), 2) \notin bad => mem[Pt(Blk(y), 2)][Off(y)] \in may[y]
          BY <4>2, <4>3, LawfulAt
        <4>. QED  BY <3>1, <3>3, <4>2, <4>4, <4>5
      <3>. QED  BY <3>2, <3>3
    <2>. QED  BY <1>0, <2>1
  <1>14. Answers'
    <2>1. res' = NoRes \/ (res'.ret = "-1" /\ res'.past) \/ (res'.ret = "n" /\ res'.dst = Text)
      BY <1>0, <1>1, <1>8 DEF Goes, Failed
    <2>2. op'.name = "read" => op'.dst = Text
      BY <1>5 DEF Idle
    <2>4. op'.name = "read" => Told(op.dst)'
      BY <1>13, <2>2 DEF Told
    <2>5. res' = NoRes \/ (res'.ret = "-1" /\ res'.past) \/ (res'.ret = "n" /\ Told(res.dst)')
      BY <1>13, <2>1 DEF Told
    <2>. QED  BY <2>4, <2>5 DEF Answers
  <1>. QED  BY <1>10, <1>11, <1>12, <1>14 DEF MirrorInv

\* The cache drops what was not written.
LEMMA EvictMirror ==
  ASSUME Inv, MirrorInv, NEW p \in Pos, Evict(p)
  PROVE  MirrorInv'
  <1>1. mem' = [mem EXCEPT ![p] = disk[p]] /\ UNCHANGED <<inode, disk, op, res, wild, may, bad, crashes>>
    BY DEF Evict
  <1>2. \A q \in Pos : mem'[q] = disk[q] \/ mem'[q] = mem[q]
    BY <1>1 DEF Inv, TypeOK
  <1>3. \A k \in Groups : \A c \in Copies : Pt(k, c) \in Pos
    BY InGroup
  <1>4. op.name = "copy" => Blk(op.x) \in Groups
    <2>1. op.name = "copy" => op.x \in Nat /\ InRange(op.x)
      BY OpIs DEF Inv, Pointers, Covered, Writing
    <2>. QED  BY <2>1, InGroup
  <1>5. Done'
    <2>1. \A s : New(s)' = New(s')
      BY <1>1 DEF New
    <2>2. ASSUME op.name = "copy", NEW c \in Copies, c < op.copy
          PROVE  /\ New(disk[Pt(Blk(op.x), c)]) = disk[Pt(Blk(op.x), c)]
                 /\ New(mem'[Pt(Blk(op.x), c)]) = mem'[Pt(Blk(op.x), c)]
      BY <1>2, <1>3, <1>4, <2>2 DEF MirrorInv, Done
    <2>. QED  BY <1>1, <2>2 DEF Done, New, MirrorInv
  <1>6. Bytes'
    <2>1. ASSUME NEW x \in Nat, InRange(x), Lawful(x) PROVE Lawful(x)'
      <3>1. \A c \in Copies : mbmap(x, c) \in Pos
        BY <2>1 DEF InRange
      <3>. QED  BY <1>1, <1>2, <2>1, <3>1 DEF Lawful
    <2>2. \A x \in 0..size-1 : x \in Nat /\ InRange(x) /\ Lawful(x)
      BY DEF Inv, TypeOK, Pointers, Covered, MirrorInv, Bytes
    <2>3. op.name \in Writing => \A x \in 0..op.x-1 : x \in Nat /\ InRange(x) /\ Lawful(x)
      BY OpIs DEF Inv, Pointers, Covered, MirrorInv, Bytes
    <2>. QED  BY <1>1, <2>1, <2>2, <2>3 DEF Bytes, inode
  <1>7. OneOdd'
    <2>1. PICK g \in Groups \cup {-1}, h \in Copies :
            (NoMishap => g = -1) /\ bad \subseteq {Pt(g, h)} /\ Mirrors(g, h) /\ Flags(h)
      BY DEF MirrorInv, OneOdd
    <2>2. \A k, c, d : Agree(k, c, d)' <=> Agree(k, c, d)
      BY <1>1 DEF Agree, Busy, New
    <2>3. Mirrors(g, h)'
      BY <1>1, <1>2, <1>3, <2>1, <2>2 DEF Mirrors
    <2>4. Flags(h)' /\ (NoMishap' => g = -1) /\ bad' \subseteq {Pt(g, h)}
      BY <1>1, <2>1 DEF Flags, NoMishap
    <2>. QED  BY <2>3, <2>4 DEF OneOdd
  <1>8. Answers'
    BY <1>1 DEF MirrorInv, Answers, Told
  <1>. QED  BY <1>5, <1>6, <1>7, <1>8 DEF MirrorInv

\* Before the only mishap there was none, and all copies agree as they should.
LEMMA BeforeMishap ==
  ASSUME Inv, MirrorInv, MaxMishaps <= 1, Cardinality(bad) + crashes < MaxMishaps
  PROVE  /\ bad = {} /\ crashes = 0 /\ Mirrors(-1, 0)
         /\ \A k \in Groups : \A c, d \in Copies : Agree(k, c, d)
  <1>1. bad \subseteq Pos /\ crashes \in 0..MaxMishaps /\ MaxMishaps \in Nat
    BY BoundAssumption DEF Inv, TypeOK
  <1>2. IsFiniteSet(bad)
    <2>1. 0 \in Int /\ MAXFILE-1 \in Int /\ Pos = 0..MAXFILE-1
      BY Layout
    <2>2. IsFiniteSet(Pos)
      BY <2>1, FS_Interval
    <2>. QED  BY <1>1, <2>2, FS_Subset
  <1>3. Cardinality(bad) \in Nat
    BY <1>2, FS_CardinalityType
  <1>4. Cardinality(bad) = 0 /\ crashes = 0
    BY <1>1, <1>3
  <1>5. bad = {}
    BY <1>2, <1>4, FS_EmptySet
  <1>6. PICK h \in Copies : Mirrors(-1, h)
    BY <1>4, <1>5 DEF MirrorInv, OneOdd, NoMishap
  <1>7. -1 \notin Groups
    BY InGroup
  <1>8. \A k \in Groups : \A c \in Copies :
          mem[Pt(k, c)] = disk[Pt(k, c)] /\ \A d \in Copies : Agree(k, c, d)
    BY <1>6, <1>7 DEF Mirrors
  <1>. QED  BY <1>4, <1>5, <1>8 DEF Mirrors

\* A crash in the middle of a write leaves one copy of one block behind.
LEMMA CrashMirror ==
  ASSUME Inv, MirrorInv, MaxMishaps <= 1, Crash
  PROVE  MirrorInv'
  <1>1. /\ crashes' = crashes + 1 /\ size' = dsize /\ mem' = disk /\ op' = Idle /\ res' = NoRes
        /\ may' = [x \in DOMAIN may |-> IF x < dsize THEN may[x] ELSE {}]
        /\ UNCHANGED <<dsize, disk, bad>>
    BY DEF Crash
  <1>2. /\ bad = {} /\ crashes = 0 /\ Mirrors(-1, 0)
        /\ \A k \in Groups : \A c, d \in Copies : Agree(k, c, d)
    BY BeforeMishap DEF Crash
  <1>3. op'.name = "idle"
    BY <1>1 DEF Idle
  <1>4. Done'
    BY <1>3 DEF Done
  <1>5. Bytes'
    <2>1. dsize = size /\ size \in 0..MaxSize /\ MaxSize \in Nat /\ may \in [0..MaxSize-1 -> SUBSET Val]
      BY Layout DEF Inv, Pointers, TypeOK
    <2>2. ASSUME NEW x \in 0..size-1 PROVE Lawful(x)'
      <3>1. x \in 0..MaxSize-1 /\ x < dsize /\ Lawful(x)
        BY <2>1 DEF MirrorInv, Bytes
      <3>2. may'[x] = may[x]
        BY <1>1, <2>1, <3>1
      <3>. QED  BY <1>1, <3>1, <3>2 DEF Lawful
    <2>. QED  BY <1>1, <1>3, <2>1, <2>2 DEF Bytes, Writing
  <1>6. OneOdd'
    <2>1. \A k : ~Busy(k)'
      BY <1>3 DEF Busy
    <2>2. crashes' # 0 /\ \A h : Flags(h)'
      BY <1>1, <1>2, <1>3 DEF Flags
    <2>3. CASE op.name # "copy"
      <3>1. \A k \in Groups : \A c, d \in Copies : disk[Pt(k, c)] = disk[Pt(k, d)]
        BY <1>2, <2>3 DEF Agree, Busy
      <3>2. Mirrors(-1, 0)'
        BY <1>1, <2>1, <3>1 DEF Mirrors, Agree
      <3>3. -1 \in Groups \cup {-1} /\ 0 \in Copies
        BY Layout
      <3>. QED  BY <1>1, <1>2, <2>2, <3>2, <3>3 DEF OneOdd
    <2>4. CASE op.name = "copy"
      <3>0. PICK h, g : h = (IF op.copy = 1 THEN 0 ELSE 2) /\ g = Blk(op.x)
        OBVIOUS
      <3>1. op.copy \in Copies /\ g \in Groups
        <4>1. op.x \in Nat /\ op.copy \in Copies /\ InRange(op.x)
          BY <2>4, OpIs DEF Inv, Pointers, Covered, Writing
        <4>. QED  BY <3>0, <4>1, InGroup
      <3>2. h \in Copies /\ \A c, d \in Copies : c # h /\ d # h => (c < op.copy <=> d < op.copy)
        BY <3>0, <3>1, Layout
      <3>3. ASSUME NEW k \in Groups, NEW c \in Copies, ~(k = g /\ c = h), NEW d \in Copies, ~(k = g /\ d = h)
            PROVE  disk[Pt(k, c)] = disk[Pt(k, d)]
        <4>1. Agree(k, c, d)
          BY <1>2
        <4>2. Busy(k) => (c < op.copy <=> d < op.copy)
          BY <3>0, <3>2, <3>3 DEF Busy
        <4>. QED  BY <4>1, <4>2 DEF Agree
      <3>4. Mirrors(g, h)'
        <4>1. \A k \in Groups : \A c \in Copies : ~(k = g /\ c = h) =>
                /\ mem'[Pt(k, c)] = disk'[Pt(k, c)]
                /\ \A d \in Copies : ~(k = g /\ d = h) => Agree(k, c, d)'
          BY <1>1, <2>1, <3>3 DEF Agree
        <4>. QED  BY <4>1 DEF Mirrors
      <3>. QED  BY <1>1, <1>2, <2>2, <3>1, <3>2, <3>4 DEF OneOdd, NoMishap
    <2>. QED  BY <2>3, <2>4
  <1>7. Answers'
    BY <1>1, <1>3 DEF Answers, NoRes
  <1>. QED  BY <1>4, <1>5, <1>6, <1>7 DEF MirrorInv

\* A copy goes bad.
LEMMA CorruptMirror ==
  ASSUME Inv, MirrorInv, MaxMishaps <= 1,
         NEW x \in 0..size-1, NEW c \in Copies, NEW blk \in [Offs -> Val \cup Junk], Corrupt(x, c, blk)
  PROVE  MirrorInv'
  <1>. DEFINE g == Blk(x)
  <1>0. x \in Nat /\ g \in Groups /\ Pt(g, c) \in Pos /\ mbmap(x, c) = Pt(g, c)
    BY CorruptInv
  <1>1. /\ op = Idle /\ bad' = bad \cup {Pt(g, c)} /\ disk' = [disk EXCEPT ![Pt(g, c)] = blk]
        /\ mem' = disk' /\ res' = NoRes /\ UNCHANGED <<inode, op, wild, may, crashes>>
    BY <1>0 DEF Corrupt
  <1>2. /\ bad = {} /\ crashes = 0
        /\ \A k \in Groups : \A d, e \in Copies : Agree(k, d, e)
    BY BeforeMishap DEF Corrupt
  <1>3. op.name = "idle" /\ op'.name = "idle"
    BY <1>1 DEF Idle
  <1>4. Done'
    BY <1>3 DEF Done
  <1>5. \A q \in Pos : q # Pt(g, c) => disk'[q] = disk[q]
    BY <1>1 DEF Inv, TypeOK
  <1>. HIDE DEF g
  <1>6. Bytes'
    <2>1. ASSUME NEW y \in 0..size-1 PROVE Lawful(y)'
      <3>1. Lawful(y) /\ \A d \in Copies : mbmap(y, d) \in Pos
        BY DEF MirrorInv, Bytes, Inv, Pointers, Covered, InRange
      <3>2. \A d \in Copies : mbmap(y, d) \notin bad' => mbmap(y, d) # Pt(g, c) /\ mbmap(y, d) \notin bad
        BY <1>1
      <3>. QED  BY <1>1, <1>5, <3>1, <3>2 DEF Lawful
    <2>. QED  BY <1>1, <1>3, <2>1 DEF Bytes, Writing, inode
  <1>7. OneOdd'
    <2>1. \A k : ~Busy(k)' /\ ~Busy(k)
      BY <1>3 DEF Busy
    <2>2. \A k \in Groups : \A d \in Copies : ~(k = g /\ d = c) => disk'[Pt(k, d)] = disk[Pt(k, d)]
      <3>1. \A k \in Groups : \A d \in Copies : Pt(k, d) \in Pos /\ k \in Int
        BY InGroup
      <3>2. g \in Int
        BY <1>0, InGroup
      <3>. QED  BY <1>5, <3>1, <3>2, Apart
    <2>3. \A k \in Groups : \A d, e \in Copies : disk[Pt(k, d)] = disk[Pt(k, e)]
      BY <1>2, <2>1 DEF Agree
    <2>4. Mirrors(g, c)'
      <3>1. \A k \in Groups : \A d \in Copies : ~(k = g /\ d = c) =>
              /\ mem'[Pt(k, d)] = disk'[Pt(k, d)]
              /\ \A e \in Copies : ~(k = g /\ e = c) => Agree(k, d, e)'
        BY <1>1, <2>1, <2>2, <2>3 DEF Agree
      <3>. QED  BY <3>1 DEF Mirrors
    <2>5. Flags(c)' /\ bad' = {Pt(g, c)}
      BY <1>1, <1>2, <1>3 DEF Flags
    <2>. QED  BY <1>0, <2>4, <2>5 DEF OneOdd, NoMishap
  <1>8. Answers'
    BY <1>1, <1>3 DEF Answers, NoRes
  <1>. QED  BY <1>4, <1>6, <1>7, <1>8 DEF MirrorInv

\* misled is never reset.
LEMMA MisledStays ==
  ASSUME Inv, [Next]_vars, misled
  PROVE  misled'
  <1>1. CASE UNCHANGED vars
    BY <1>1 DEF vars
  <1>2. CASE ReadBlock
    BY <1>2, ReadBlockIs
  <1>3. CASE Next /\ ~ReadBlock
    BY <1>3 DEF Next, WriteCall, WriteMap, WriteCopy, WriteUpdate, WriteSize, ReadCall, Evict, Crash, Corrupt
  <1>. QED  BY <1>1, <1>2, <1>3

LEMMA NextMirror ==
  ASSUME MaxMishaps <= 1
  PROVE  Inv /\ (misled \/ MirrorInv) /\ [Next]_vars => (misled \/ MirrorInv)'
  <1>. SUFFICES ASSUME Inv, MirrorInv, [Next]_vars, ~misled' PROVE MirrorInv'
    BY MisledStays
  <1>1. CASE UNCHANGED vars
    BY <1>1 DEF MirrorInv, Done, Bytes, Lawful, OneOdd, Mirrors, Agree, Busy, New, Flags, NoMishap, Answers, Told, vars, inode
  <1>2. ASSUME NEW off \in 0..MaxSize-1, NEW len \in Lens, NEW v \in Val, WriteCall(off, len, v) PROVE MirrorInv'
    BY <1>2, WriteCallMirror
  <1>3. ASSUME NEW off \in 0..MaxSize-1, NEW len \in Lens, ReadCall(off, len) PROVE MirrorInv'
    BY <1>3, ReadCallMirror
  <1>4. ASSUME NEW p \in Pos, Evict(p) PROVE MirrorInv'
    BY <1>4, EvictMirror
  <1>5. ASSUME NEW x \in 0..size-1, NEW c \in Copies, NEW blk \in [Offs -> Val \cup Junk], Corrupt(x, c, blk)
        PROVE  MirrorInv'
    BY <1>5, CorruptMirror
  <1>. QED  BY <1>1, <1>2, <1>3, <1>4, <1>5, WriteMapMirror, WriteCopyMirror, WriteUpdateMirror, WriteSizeMirror,
               ReadBlockMirror, CrashMirror DEF Next

-----------------------------------------------------------------------------
(* the theorems about one mishap *)

LEMMA Majority == Inv /\ (misled \/ MirrorInv) => MajorityKept
  <1>. SUFFICES ASSUME Inv, MirrorInv, NoMishap \/ op.name \in {"idle", "read"},
                       NEW x \in 0..dsize-1
                PROVE  \E b, c \in Copies :
                         /\ b # c
                         /\ disk[mbmap(x, b)][Off(x)] = disk[mbmap(x, c)][Off(x)]
                         /\ disk[mbmap(x, b)][Off(x)] \in may[x]
    BY DEF MajorityKept, TwoAgree, NoMishap
  <1>1. PICK g \in Groups \cup {-1}, h \in Copies :
          (NoMishap => g = -1) /\ bad \subseteq {Pt(g, h)} /\ Mirrors(g, h) /\ Flags(h)
    BY DEF MirrorInv, OneOdd
  <1>. DEFINE k == Blk(x)
  <1>2. x \in Nat /\ Lawful(x) /\ k \in Groups
    <2>1. x \in 0..size-1 /\ x \in Nat
      BY DEF Inv, TypeOK, Pointers
    <2>2. Covered(x, daddrs) /\ Lawful(x)
      BY <2>1 DEF Inv, Pointers, MirrorInv, Bytes
    <2>. QED  BY <2>1, <2>2, InGroup DEF Covered
  <1>3. \A c \in Copies : mbmap(x, c) = Pt(k, c)
    BY <1>2, Places
  <1>4. \A c \in Copies : Pt(k, c) \notin bad => disk[Pt(k, c)][Off(x)] \in may[x]
    BY <1>2, LawfulAt
  <1>5. k \in Int /\ -1 \notin Groups
    <2>1. k \in Groups
      BY <1>2
    <2>. HIDE DEF k
    <2>. QED  BY <2>1, InGroup
  <1>. HIDE DEF k
  <1>6. SUFFICES \E b, c \in Copies : b # c /\ disk[Pt(k, b)] = disk[Pt(k, c)] /\ Pt(k, b) \notin bad
    BY <1>3, <1>4
  <1>7. CASE Busy(k)
    <2>1. op.name = "copy" /\ op.copy \in Copies
      BY <1>7, OpIs DEF Busy, Inv, Writing
    <2>2. NoMishap /\ bad = {} /\ k # g
      BY <1>1, <1>2, <1>5, <2>1 DEF NoMishap
    <2>3. \A b, c \in Copies : (b < op.copy <=> c < op.copy) => disk[Pt(k, b)] = disk[Pt(k, c)]
      BY <1>1, <1>2, <1>7, <2>2 DEF Mirrors, Agree
    <2>4. 0 \in Copies /\ 1 \in Copies /\ 2 \in Copies
      BY Layout
    <2>5. CASE op.copy = 2
      <3>1. disk[Pt(k, 0)] = disk[Pt(k, 1)]
        BY <2>3, <2>4, <2>5
      <3>. QED  BY <2>2, <2>4, <3>1
    <2>6. CASE op.copy # 2
      <3>1. ~(1 < op.copy) /\ ~(2 < op.copy)
        BY <2>1, <2>6, Layout
      <3>2. disk[Pt(k, 1)] = disk[Pt(k, 2)]
        BY <2>3, <2>4, <3>1
      <3>. QED  BY <2>2, <2>4, <3>2
    <2>. QED  BY <2>5, <2>6
  <1>8. CASE ~Busy(k)
    <2>1. PICK b \in Copies, c \in Copies : b # c /\ b # h /\ c # h
      BY Layout
    <2>2. disk[Pt(k, b)] = disk[Pt(k, c)]
      BY <1>1, <1>2, <1>8, <2>1 DEF Mirrors, Agree
    <2>3. Pt(k, b) # Pt(g, h)
      <3>1. g \in Int
        BY InGroup
      <3>. QED  BY <1>5, <2>1, <3>1, Apart
    <2>. QED  BY <1>1, <2>1, <2>2, <2>3
  <1>. QED  BY <1>7, <1>8

\* Two of the three copies of every byte agree on a value it may have: at every
\* moment until the crash or the bad block, so also when writei is in the middle
\* of a block, and after it whenever no write is going on; unless a read was misled.
THEOREM MajorityIsKept ==
  ASSUME MaxMishaps <= 1
  PROVE  Spec => []MajorityKept
  BY InitInv, NextInv, InitMirror, NextMirror, Majority, PTL DEF Spec

\* After one crash, or with one bad copy, readi does not fail unless it compares past
\* its buffers, and returns what was written unless the bad copy is the third or a
\* read was misled.
THEOREM MishapIsSurvived ==
  ASSUME MaxMishaps <= 1
  PROVE  Spec => []MishapSurvived
  <1>1. misled \/ MirrorInv => MishapSurvived
    <2>. SUFFICES ASSUME MirrorInv PROVE ReadSucceeds /\ (ReadCorrect \/ \E y \in DOMAIN res.dst : mbmap(y, 2) \in bad)
      BY DEF MishapSurvived
    <2>1. res = NoRes \/ (res.ret = "-1" /\ res.past) \/ (res.ret = "n" /\ Told(res.dst))
      BY DEF MirrorInv, Answers
    <2>2. CASE res = NoRes \/ (res.ret = "-1" /\ res.past)
      BY <2>2 DEF ReadSucceeds, ReadCorrect, NoRes
    <2>3. CASE res.ret = "n" /\ Told(res.dst)
      BY <2>3 DEF ReadSucceeds, ReadCorrect, Told
    <2>. QED  BY <2>1, <2>2, <2>3
  <1>. QED  BY <1>1, InitInv, NextInv, InitMirror, NextMirror, PTL DEF Spec
=============================================================================
