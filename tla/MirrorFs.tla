------------------------------- MODULE MirrorFs -------------------------------
(***************************************************************************)
(* Mirrored files (type T_MIRRORED) of kernel/fs.c: writei stores each     *)
(* logical block in three disk blocks, readi compares the three and        *)
(* repairs the one that differs.                                           *)
(*                                                                         *)
(* One file; its inode is locked during readi and writei, so these exclude *)
(* each other, but the machine may crash between any two disk writes, the  *)
(* buffer cache may drop a buffer, and a disk block may go bad while the   *)
(* machine is off.  The buffer cache is what module Bcache shows it to be: *)
(* `mem` is what bread returns and differs from the disk only where the    *)
(* code changed a buffer and did not write it.  Pointers are positions: a  *)
(* block pointer of the inode or of the indirect block is set or not.      *)
(***************************************************************************)
EXTENDS Integers, FiniteSets

CONSTANTS
  NDIRECT, NINDIRECT, BSIZE,
  Val,          \* the bytes that are written; 0 is the byte of a fresh block
  Junk,         \* the bytes that appear in damaged blocks
  Lens,         \* the lengths of the reads and writes
  MaxSize,      \* bound on the file's size
  MaxMishaps,   \* bound on the number of crashes and of blocks that go bad
  Overrun       \* what strncmp may find past the end of a buffer

ASSUME LayoutAssumption == NDIRECT \in Nat /\ NDIRECT % 3 = 0 /\ NINDIRECT \in Nat
ASSUME BSIZEAssumption == BSIZE \in Nat \ {0}
ASSUME InputAssumption == Lens \subseteq Nat \ {0} /\ MaxSize \in Nat /\ Overrun \subseteq BOOLEAN
ASSUME BoundAssumption == MaxMishaps \in Nat

MAXFILE == NDIRECT + NINDIRECT
Pos == 0..MAXFILE-1          \* block pointers: the direct ones, then the indirect block's
IND == MAXFILE               \* the pointer to the indirect block
Copies == 0..2
Offs == 0..BSIZE-1
Byte == Val \cup Junk \cup {0}
Zero == [j \in Offs |-> 0]

Off(x) == x % BSIZE           \* off%BSIZE
MinOf(a, b) == IF a < b THEN a ELSE b

VARIABLES
  addrs, size,    \* ip->addrs and ip->logical_size in memory: the pointers that are set
  daddrs, dsize,  \* the same on disk
  inds,           \* the pointers set in the indirect block
  disk, mem,      \* contents of the block at each position, and what bread returns
  op,             \* the call in progress
  res,            \* the last read's result
  wild,           \* mbmap left the indirect block, or panicked
  may,            \* history: the bytes each byte of the file may have
  bad,            \* history: the positions that were damaged
  crashes,
  misled          \* history: a read found equal blocks to differ, and different ones equal

inode == <<addrs, size, daddrs, dsize, inds>>
vars == <<inode, disk, mem, op, res, wild, may, bad, crashes, misled>>

Idle == [name |-> "idle"]
NoRes == [ret |-> "none"]
Failed(past) == [ret |-> "-1", past |-> past]

Init ==
  /\ addrs = {} /\ size = 0 /\ daddrs = {} /\ dsize = 0 /\ inds = {}
  /\ disk = [p \in Pos |-> Zero] /\ mem = [p \in Pos |-> Zero]
  /\ op = Idle /\ res = NoRes /\ wild = FALSE
  /\ may = [x \in 0..MaxSize-1 |-> {}]
  /\ bad = {} /\ crashes = 0 /\ misled = FALSE

-----------------------------------------------------------------------------
(* mbmap and iupdate *)

\* the position of copy c of the block of byte x: bn + mbn, where bn = off/BSIZE*3
mbmap(x, c) == (x \div BSIZE) * 3 + c

\* mbmap stays inside the inode and the indirect block
InRange(x) == \A c \in Copies : mbmap(x, c) \in Pos

\* mbmap for the three copies: pointers that are 0 get fresh blocks
Allocate(x) ==
  LET want == {mbmap(x, c) : c \in Copies}
      direct == {p \in want : p < NDIRECT}
      have == addrs \cup (IF IND \in addrs THEN inds ELSE {})
      old == IF IND \in addrs THEN inds ELSE {}
      fresh == [p \in Pos |-> IF p \in want \ have THEN Zero ELSE mem[p]]
  IN  /\ addrs' = addrs \cup direct \cup (IF want = direct THEN {} ELSE {IND})
      /\ inds' = IF want = direct THEN inds ELSE old \cup (want \ direct)
      /\ mem' = fresh
      /\ disk' = [p \in Pos |-> IF p \in want \ have THEN Zero ELSE disk[p]]

\* Faulty: only the size is copied.
iupdate_SizeOnly(sz) == daddrs' = daddrs /\ dsize' = sz

iupdate(sz) == daddrs' = addrs /\ dsize' = sz

-----------------------------------------------------------------------------
(* writei *)

\* how much of the request at byte x falls into its block
Chunk(x, rest) == MinOf(rest, BSIZE - Off(x))

\* a write of len bytes v at off
WriteCall(off, len, v) ==
  /\ op = Idle /\ ~wild
  /\ off <= size
  /\ LET n == IF off + len > MAXFILE * BSIZE THEN MAXFILE * BSIZE - off ELSE len IN
       /\ n > 0 /\ off + n <= MaxSize
       /\ op' = [name |-> "map", x |-> off, rest |-> n, v |-> v, copy |-> 0]
  /\ res' = NoRes
  /\ UNCHANGED <<inode, disk, mem, wild, may, bad, crashes, misled>>

WriteMap ==
  /\ op.name = "map"
  /\ IF InRange(op.x)
       THEN /\ Allocate(op.x)
            /\ op' = [op EXCEPT !.name = "copy"]
            /\ UNCHANGED wild
       ELSE /\ wild' = TRUE /\ op' = Idle
            /\ UNCHANGED <<addrs, inds, disk, mem>>
  /\ UNCHANGED <<size, daddrs, dsize, res, may, bad, crashes, misled>>

\* the bytes of the request in its block, replaced by v
Patched(blk, x, rest, v) ==
  [j \in Offs |-> IF j >= Off(x) /\ j < Off(x) + Chunk(x, rest) THEN v ELSE blk[j]]

\* one copy: bread, memmove, bwrite, brelse; then the next copy or the next block
WriteCopy ==
  /\ op.name = "copy"
  /\ LET p == mbmap(op.x, op.copy)
         m == Chunk(op.x, op.rest)
         blk == Patched(mem[p], op.x, op.rest, op.v)
         span == op.x..op.x+m-1
     IN  /\ mem' = [mem EXCEPT ![p] = blk]
         /\ disk' = [disk EXCEPT ![p] = blk]
         /\ may' = [y \in DOMAIN may |-> IF y \notin span THEN may[y]
                                         ELSE IF op.copy = 2 THEN {op.v}
                                         ELSE may[y] \cup {op.v}]
         /\ op' = IF op.copy < 2 THEN [op EXCEPT !.copy = @ + 1]
                  ELSE [op EXCEPT !.copy = 0, !.x = @ + m, !.rest = @ - m,
                                  !.name = IF op.rest = m THEN "update" ELSE "map"]
  /\ UNCHANGED <<inode, res, wild, bad, crashes, misled>>

\* iupdate(ip) after the loop
WriteUpdate ==
  /\ op.name = "update"
  /\ iupdate(size)
  /\ op' = IF op.x > size THEN [op EXCEPT !.name = "size"] ELSE Idle
  /\ UNCHANGED <<addrs, size, inds, disk, mem, res, wild, may, bad, crashes, misled>>

\* ip->logical_size = off; iupdate(ip)
WriteSize ==
  /\ op.name = "size"
  /\ size' = op.x
  /\ iupdate(op.x)
  /\ op' = Idle
  /\ UNCHANGED <<addrs, inds, disk, mem, res, wild, may, bad, crashes, misled>>

-----------------------------------------------------------------------------
(* readi *)

ReadCall(off, len) ==
  /\ op = Idle /\ ~wild
  /\ off < size
  /\ op' = [name |-> "read", off |-> off, x |-> off, rest |-> MinOf(len, size - off),
            n |-> MinOf(len, size - off), dst |-> [y \in {} |-> 0],
            d12 |-> FALSE, d13 |-> FALSE, d23 |-> FALSE, past |-> FALSE]
  /\ res' = NoRes
  /\ UNCHANGED <<inode, disk, mem, wild, may, bad, crashes, misled>>

\* strncmp(a, b, n) from the start of two buffers: it stops at a NUL, and goes on
\* past the end of the buffers when n is larger than a block
strncmp(a, b, n) ==
  LET k == MinOf(n, BSIZE)
      same(j) == \A h \in 0..j-1 : a[h] = b[h] /\ a[h] # 0
  IN  IF \E j \in 0..k-1 : same(j) /\ a[j] # b[j] THEN {TRUE}
      ELSE IF n > BSIZE /\ same(BSIZE) THEN Overrun ELSE {FALSE}

\* copy the bytes of the request from src to dst
Merged(dst, src, x, rest) ==
  [j \in Offs |-> IF j >= Off(x) /\ j < Off(x) + Chunk(x, rest) THEN src[j] ELSE dst[j]]

\* memmove from copy s to copy c of the block, and bwrite
Overwrite(p, c, s, x, rest) ==
  LET blk == Merged(mem[p[c]], mem[p[s]], x, rest)
  IN  mem' = [mem EXCEPT ![p[c]] = blk] /\ disk' = [disk EXCEPT ![p[c]] = blk]

\* Faulty: the arguments of memmove are swapped.
Heal_Backwards(p, c, s, x, rest) == Overwrite(p, s, c, x, rest)
Heal(p, c, s, x, rest) == Overwrite(p, c, s, x, rest)

\* the repair of copies 2, 1 or 3; that of copy 3 calls bwrite(bp2)
Repair(p, x, rest, d12, d13, d23) ==
  CASE d12 /\ d23 /\ ~d13 -> Heal(p, 1, 2, x, rest)
    [] d12 /\ d13 /\ ~d23 -> Heal(p, 0, 2, x, rest)
    [] d13 /\ d23 /\ ~d12 ->
         /\ mem' = [mem EXCEPT ![p[2]] = Merged(mem[p[2]], mem[p[1]], x, rest)]
         /\ disk' = [disk EXCEPT ![p[1]] = mem[p[1]]]
    [] OTHER -> UNCHANGED <<mem, disk>>

\* Faulty: fails as soon as two copies differ.
Hopeless_AnyDiff(d12, d13, d23) == d12 \/ d13 \/ d23
Hopeless(d12, d13, d23) == d12 /\ d13 /\ d23

\* one block: dst ends up with copy 3; compare, repair, and go on or return
\* (wrong: the comparisons that came out TRUE of equal blocks, or FALSE of others)
ReadBlock ==
  /\ op.name = "read"
  /\ LET p == [c \in Copies |-> mbmap(op.x, c)]
         m == Chunk(op.x, op.rest)
         dst == [y \in op.off..op.x+m-1 |-> IF y < op.x THEN op.dst[y]
                                            ELSE mem[p[2]][Off(y)]]
     IN  \E e12 \in strncmp(mem[p[0]], mem[p[1]], op.n),
            e23 \in strncmp(mem[p[1]], mem[p[2]], op.n),
            e13 \in strncmp(mem[p[0]], mem[p[2]], op.n) :
           LET d12 == op.d12 \/ e12
               d23 == op.d23 \/ e23
               d13 == op.d13 \/ e13
               wrong(f) == {e \in {<<0, 1, e12>>, <<0, 2, e13>>, <<1, 2, e23>>} :
                              e[3] = f /\ (mem[p[e[1]]] = mem[p[e[2]]]) = f}
               past == op.past \/ wrong(TRUE) # {}
           IN  /\ Repair(p, op.x, op.rest, d12, d13, d23)
               /\ IF Hopeless(d12, d13, d23) THEN op' = Idle /\ res' = Failed(past)
                  ELSE IF m = op.rest THEN /\ op' = Idle
                                           /\ res' = [ret |-> "n", off |-> op.off, dst |-> dst]
                  ELSE /\ op' = [op EXCEPT !.x = @ + m, !.rest = @ - m, !.dst = dst,
                                           !.d12 = d12, !.d13 = d13, !.d23 = d23, !.past = past]
                       /\ UNCHANGED res
               /\ misled' = (misled \/ (past /\ wrong(FALSE) # {}))
  /\ UNCHANGED <<inode, wild, may, bad, crashes>>

-----------------------------------------------------------------------------
(* the buffer cache, crashes and damage *)

\* brelse'd buffers are recycled; the next bread reads the disk
Evict(p) ==
  /\ mem[p] # disk[p]
  /\ mem' = [mem EXCEPT ![p] = disk[p]]
  /\ UNCHANGED <<inode, disk, op, res, wild, may, bad, crashes, misled>>

Crash ==
  /\ Cardinality(bad) + crashes < MaxMishaps
  /\ crashes' = crashes + 1
  /\ addrs' = daddrs /\ size' = dsize
  /\ inds' = IF IND \in daddrs THEN inds ELSE {}
  /\ mem' = disk
  /\ op' = Idle /\ res' = NoRes /\ wild' = FALSE
  /\ may' = [x \in DOMAIN may |-> IF x < dsize THEN may[x] ELSE {}]
  /\ UNCHANGED <<daddrs, dsize, disk, bad, misled>>

Healthy(x) == \A c \in Copies : disk[mbmap(x, c)] = disk[mbmap(x, 0)]

\* between two runs one copy of a block whose copies agree goes bad
Corrupt(x, c, blk) ==
  /\ op = Idle /\ ~wild
  /\ Cardinality(bad) + crashes < MaxMishaps /\ Healthy(x)
  /\ bad' = bad \cup {mbmap(x, c)}
  /\ blk # disk[mbmap(x, c)]
  /\ disk' = [disk EXCEPT ![mbmap(x, c)] = blk]
  /\ mem' = disk'
  /\ res' = NoRes
  /\ UNCHANGED <<inode, op, wild, may, crashes, misled>>

-----------------------------------------------------------------------------
Next ==
  \/ \E off \in 0..MaxSize-1 : \E len \in Lens : \E v \in Val : WriteCall(off, len, v)
  \/ WriteMap \/ WriteCopy \/ WriteUpdate \/ WriteSize
  \/ \E off \in 0..MaxSize-1 : \E len \in Lens : ReadCall(off, len)
  \/ ReadBlock
  \/ \E p \in Pos : Evict(p)
  \/ Crash
  \/ \E x \in 0..size-1 : \E c \in Copies : \E blk \in [Offs -> Val \cup Junk] : Corrupt(x, c, blk)

Spec == Init /\ [][Next]_vars
-----------------------------------------------------------------------------
(* Properties *)

TypeOK ==
  /\ addrs \subseteq Pos \cup {IND} /\ daddrs \subseteq Pos \cup {IND} /\ inds \subseteq Pos
  /\ size \in 0..MaxSize /\ dsize \in 0..MaxSize
  /\ disk \in [Pos -> [Offs -> Byte]] /\ mem \in [Pos -> [Offs -> Byte]]
  /\ op.name \in {"idle", "map", "copy", "update", "size", "read"}
  /\ op.name = "read" => op.x + op.rest <= size
  /\ wild \in BOOLEAN
  /\ may \in [0..MaxSize-1 -> SUBSET Val]
  /\ bad \subseteq Pos /\ crashes \in 0..MaxMishaps /\ misled \in BOOLEAN

\* Two of the three copies of every byte of the file on disk agree on a value
\* that it may have.
TwoAgree ==
  \A x \in 0..dsize-1 : \E b, c \in Copies :
    /\ b # c
    /\ disk[mbmap(x, b)][Off(x)] = disk[mbmap(x, c)][Off(x)]
    /\ disk[mbmap(x, b)][Off(x)] \in may[x]

\* Until the first mishap a majority of the copies is the old or the new contents
\* at every moment, so after a crash between any two writes too.  After a mishap it
\* is so when no write is going on: a repair never harms the copies that are right.
\* There is one exception.  A read of more than a block compares past the buffers and
\* may find equal blocks to differ; it then repairs the next block from a copy that
\* may be the bad one, if that differs from the others only behind a NUL.
MajorityKept ==
  misled \/ ((bad = {} /\ crashes = 0) \/ op.name \in {"idle", "read"} => TwoAgree)

\* A read that succeeds returns what was written.
ReadCorrect ==
  res.ret = "n" => \A y \in DOMAIN res.dst : res.dst[y] \in may[y]

\* A read of a file in which every byte has two good copies succeeds, unless it
\* found two equal blocks to differ in what follows them in memory.
ReadSucceeds == res.ret = "-1" => res.past

\* A file that a crash left with copies that differ, or of which one copy was
\* damaged, is still read, unless a comparison of this read went past its buffers;
\* and it reads as the old or the new contents unless the damaged copy is the
\* third, the one that stays in dst.  After a misled repair nothing is promised.
MishapSurvived ==
  \/ misled
  \/ /\ ReadSucceeds
     /\ ReadCorrect \/ \E y \in DOMAIN res.dst : mbmap(y, 2) \in bad

\* Types, and the inode on disk never promises bytes it has no pointers for.
SizeCovered ==
  /\ TypeOK
  /\ \A x \in 0..dsize-1 : \A c \in Copies :
       mbmap(x, c) \in daddrs \cup (IF IND \in daddrs THEN inds ELSE {})
=============================================================================
