-------------------------------- MODULE Files --------------------------------
(***************************************************************************)
(* Files, inodes and directories of the kernel in "triple file system":    *)
(* the descriptor calls of kernel/sysfile.c, the file table of file.c, and *)
(* the inode cache, block allocation and directories of fs.c, on a disk    *)
(* that survives crashes.                                                  *)
(*                                                                         *)
(* A step ends at each wait for an inode lock and at each write of a       *)
(* block; what lies between commutes with the steps of others.  The cache  *)
(* has NINODE slots and is indexed by inode number, since iget finds or    *)
(* takes a slot in one critical section of icache.lock.  A file or         *)
(* directory has at most one block, which holds file data (Junk) or        *)
(* directory entries; "." is left out and ".." kept.  The size of a        *)
(* directory counts its entries, used or cleared, without these two.       *)
(* Sizes of files, offsets and permissions are left out.                   *)
(***************************************************************************)
EXTENDS Integers, FiniteSets, Sequences, SequencesExt, Functions

CONSTANTS
  Procs,
  NINODES,     \* inodes 1..NINODES, 1 is the root directory
  NINODE,      \* slots of the inode cache
  NBLOCKS,     \* data blocks 1..NBLOCKS
  Names,
  Calls,       \* the calls with paths: [op, path, to], paths [abs, elems]
  NFILE, NOFILE,
  MaxCalls, MaxCrashes,   \* bounds
  None

ASSUME SizesAssumption == {NINODES, NINODE, NBLOCKS, NFILE, NOFILE} \subseteq Nat \ {0}
ASSUME NamesAssumption == ".." \notin Names
ASSUME NoneAssumption == None \notin Procs \cup Names

Root == 1
Inodes == 1..NINODES
Blocks == 1..NBLOCKS
Entries == Names \cup {".."}
\* past: the name in the entry that follows the last one the size counts
Filled(i) == [entry |-> [n \in Entries |-> i], past |-> None]
Zero == Filled(0)
Junk == Filled(-1)

VARIABLES
  dinode, bitmap, data,  \* the disk: inodes, used blocks, contents
  icache,    \* per inode: ref, busy (the process), valid and the copy
  ftable,    \* per file: ref and ip, 0 for FD_NONE and pipes
  ofile, cwd,    \* per process; cwd 0 when the slot is unused
  call,      \* per process: the call it is in
  ncalls, ncrashes,
  panic,     \* "iget" when the inode cache is full, "fs" for the others
  stray      \* history: a name was entered in a directory already removed

disk == <<dinode, bitmap, data>>
tables == <<ftable, ofile, cwd>>
bounds == <<ncalls, ncrashes>>
vars == <<disk, icache, tables, call, bounds, panic, stray>>

\* an inode that is not in the cache
Absent == [ref |-> 0, busy |-> None, valid |-> FALSE, type |-> "none", nlink |-> 0, addr |-> 0, size |-> 0]
Idle == [pc |-> "user", op |-> "none", rest |-> <<>>, to |-> <<>>,
         ip |-> 0, dp |-> 0, lp |-> 0, puts |-> <<>>, free |-> "none"]
FreeInode == [type |-> "none", nlink |-> 0, addr |-> 0, size |-> 0]

\* memory after boot: one process p, in the root directory; init is left out
Booted(p) == [icache |-> [i \in Inodes |-> IF i = Root THEN [Absent EXCEPT !.ref = 1] ELSE Absent],
              ftable |-> [f \in 1..NFILE |-> [ref |-> 0, ip |-> 0]],
              ofile |-> [q \in Procs |-> [fd \in 1..NOFILE |-> 0]],
              cwd |-> [q \in Procs |-> IF q = p THEN Root ELSE 0],
              call |-> [q \in Procs |-> Idle]]

Init ==
  /\ dinode = [i \in Inodes |-> IF i = Root THEN [type |-> "dir", nlink |-> 1, addr |-> 1, size |-> 0] ELSE FreeInode]
  /\ bitmap = {1}
  /\ data = [b \in Blocks |-> IF b = 1 THEN [Zero EXCEPT !.entry[".."] = Root] ELSE Zero]
  /\ \E p \in Procs : LET m == Booted(p)
                      IN  /\ icache = m.icache /\ ftable = m.ftable /\ ofile = m.ofile
                          /\ cwd = m.cwd /\ call = m.call
  /\ ncalls = 0 /\ ncrashes = 0 /\ panic = "none" /\ stray = FALSE

-----------------------------------------------------------------------------
(* fs.c: the inode cache, as functions of the cache c *)

Referenced(c) == {i \in Inodes : c[i].ref > 0}
iget(c, i) == IF c[i].ref > 0 THEN [c EXCEPT ![i].ref = @ + 1] ELSE [c EXCEPT ![i] = [Absent EXCEPT !.ref = 1]]

\* iget finds neither the inode nor an empty slot
NoSlot(c, i) == c[i].ref = 0 /\ Cardinality(Referenced(c)) >= NINODE
Panics(bad, full) == panic' = CASE bad -> "fs" [] full -> "iget" [] OTHER -> panic

\* ilock without the waiting: the copy is read from disk when it is not valid
Loaded(c, i) ==
  IF c[i].valid THEN c
  ELSE [c EXCEPT ![i] = dinode[i] @@ [@ EXCEPT !.valid = TRUE]]

Free(i) == icache[i].busy = None
ilock(c, i, p) == [Loaded(c, i) EXCEPT ![i].busy = p]
\* Faulty: leaves the inode locked.
iunlock_Not(c, i) == c
iunlock(c, i) == [c EXCEPT ![i].busy = None]
\* iupdate writes the copy of inode i to disk
Copy(c, i) == Restrict(c[i], DOMAIN FreeInode)
iupdate(c, i) == dinode' = [dinode EXCEPT ![i] = Copy(c, i)]
balloc == CHOOSE b \in Blocks \ bitmap : \A x \in Blocks \ bitmap : b <= x

\* the entry of a name in a directory of the cache, 0 when there is none
\* in the whole block, beyond the size too
dirlookup(c, d, name) == IF c[d].addr = 0 THEN 0 ELSE data[c[d].addr].entry[name]

\* the entries below the size that are used
Used(c, d) == {n \in Names : dirlookup(c, d, n) # 0 /\ n # data[c[d].addr].past}
isdirempty(c, d) == Used(c, d) = {}

\* dirlink takes a cleared entry below the size or else the one behind it,
\* over what a crash has left there
Appends(c, d) == Cardinality(Used(c, d)) = c[d].size
EnterName(c, d, name, i) ==
  data' = [data EXCEPT ![c[d].addr] =
             IF Appends(c, d) THEN [entry |-> [n \in Entries |-> IF n = name THEN i
                                                                 ELSE IF n = @.past THEN 0 ELSE @.entry[n]],
                                    past |-> name]
                              ELSE [@ EXCEPT !.entry[name] = i]]
\* writei raises the size once the entry is written
Grown(c, d) == [c EXCEPT ![d].size = @ + 1]
Grow(d) ==
  /\ data' = [data EXCEPT ![icache[d].addr].past = None]
  /\ iupdate(Grown(icache, d), d)

\* Faulty: an inode without a block is not freed.
LastRef_Empty(i) == icache[i].ref = 1 /\ icache[i].addr # 0 /\ icache[i].nlink = 0
LastRef(i) == icache[i].ref = 1 /\ icache[i].valid /\ icache[i].nlink = 0

At(p, where) == panic = "none" /\ call[p].pc = where /\ call[p].puts = <<>> /\ cwd[p] # 0
Go(p, changes) == call' = [call EXCEPT ![p] = changes @@ @]
\* back to the user once the inodes in puts are given up
Return(p, puts) == call' = [call EXCEPT ![p] = [Idle EXCEPT !.puts = puts]]

\* iput of the first inode in puts; the last reference of an unlinked inode
\* frees it
iput(p) ==
  /\ panic = "none" /\ call[p].puts # <<>> /\ call[p].free = "none"
  /\ LET i == Head(call[p].puts)
     IN  IF LastRef(i)
           THEN /\ Panics(~Free(i), FALSE)
                /\ icache' = [icache EXCEPT ![i].busy = p]
                /\ Go(p, [free |-> IF icache[i].addr = 0 THEN "inode" ELSE "zero"])
           ELSE /\ icache' = [icache EXCEPT ![i] = IF @.ref = 1 THEN Absent ELSE [@ EXCEPT !.ref = @ - 1]]
                /\ Go(p, [puts |-> Tail(call[p].puts)])
                /\ UNCHANGED panic
  /\ UNCHANGED <<disk, tables, bounds, stray>>

Freeing(p, phase) == panic = "none" /\ call[p].free = phase

\* itrunc, bfree: the block is cleared, then marked free
FreeZero(p) ==
  /\ Freeing(p, "zero")
  /\ data' = [data EXCEPT ![icache[Head(call[p].puts)].addr] = Zero]
  /\ Go(p, [free |-> "block"])
  /\ UNCHANGED <<dinode, bitmap, icache, tables, bounds, panic, stray>>

FreeBlock(p) ==
  /\ Freeing(p, "block")
  /\ LET i == Head(call[p].puts)
     IN  /\ Panics(icache[i].addr \notin bitmap, FALSE)
         /\ bitmap' = bitmap \ {icache[i].addr}
         /\ icache' = [icache EXCEPT ![i].addr = 0, ![i].size = 0]
  /\ Go(p, [free |-> "inode"])
  /\ UNCHANGED <<dinode, data, tables, bounds, stray>>

\* the end of itrunc
FreeTrunc(p) ==
  /\ Freeing(p, "inode")
  /\ iupdate(icache, Head(call[p].puts))
  /\ Go(p, [free |-> "type"])
  /\ UNCHANGED <<bitmap, data, icache, tables, bounds, panic, stray>>

FreeType(p) ==
  /\ Freeing(p, "type")
  /\ LET i == Head(call[p].puts) IN
       /\ icache' = [icache EXCEPT ![i].type = "none"]
       /\ iupdate(icache', i)
  /\ Go(p, [free |-> "done"])
  /\ UNCHANGED <<bitmap, data, tables, bounds, panic, stray>>

\* flags = 0: whoever got the inode again has to read it
FreeDone(p) ==
  /\ Freeing(p, "done")
  /\ LET i == Head(call[p].puts)
     IN  icache' = [icache EXCEPT ![i] = [Absent EXCEPT !.ref = icache[i].ref - 1]]
  /\ Go(p, [free |-> "none", puts |-> Tail(call[p].puts)])
  /\ UNCHANGED <<disk, tables, bounds, panic, stray>>

-----------------------------------------------------------------------------
(* paths *)

Parent(p) == call[p].op \in {"create", "mirror", "mkdir", "mknod", "unlink"} \/ call[p].lp # 0
Start(p, path) == IF path.abs THEN Root ELSE cwd[p]

\* bound: inodes and blocks do not run out, which would panic
Room ==
  /\ Cardinality({i \in Inodes : dinode[i].type = "none"}) > Cardinality(Procs)
  /\ Cardinality(Blocks \ bitmap) > Cardinality(Procs)

Begin(p, c) ==
  /\ At(p, "user") /\ ncalls < MaxCalls /\ Room
  /\ ncalls' = ncalls + 1
  /\ icache' = iget(icache, Start(p, c.path))
  /\ Panics(FALSE, NoSlot(icache, Start(p, c.path)))
  /\ Go(p, [pc |-> "namex", op |-> c.op, ip |-> Start(p, c.path), rest |-> c.path.elems, to |-> c.to])
  /\ UNCHANGED <<disk, tables, ncrashes, stray>>

\* a path that leads nowhere; sys_link has a link to take back
Failed(p) ==
  IF call[p].lp # 0 THEN Go(p, [pc |-> "linkbad", ip |-> 0, puts |-> <<call[p].ip>>])
                    ELSE Return(p, <<call[p].ip>>)

\* one element of the path, under the lock of the directory
namex(p) ==
  /\ At(p, "namex") /\ Free(call[p].ip)
  /\ LET d == call[p].ip
         c == Loaded(icache, d)
         name == Head(call[p].rest)
         i == dirlookup(c, d, name)
         last == Parent(p) /\ Len(call[p].rest) = 1
     IN  /\ Panics(c[d].type = "none", c[d].type = "dir" /\ ~last /\ i # 0 /\ NoSlot(c, i))
         /\ \/ /\ c[d].type # "dir"
               /\ icache' = c /\ Failed(p)
            \/ /\ c[d].type = "dir" /\ last
               /\ icache' = c
               /\ Go(p, [pc |-> IF call[p].lp # 0 THEN "dirlink" ELSE call[p].op, dp |-> d, ip |-> 0])
            \/ /\ c[d].type = "dir" /\ ~last /\ i = 0
               /\ icache' = c /\ Failed(p)
            \/ /\ c[d].type = "dir" /\ ~last /\ i # 0
               /\ icache' = iget(c, i)
               /\ Go(p, [ip |-> i, rest |-> Tail(call[p].rest), puts |-> <<d>>,
                         pc |-> IF Len(call[p].rest) = 1 THEN call[p].op ELSE "namex"])
  /\ UNCHANGED <<disk, tables, bounds, stray>>

-----------------------------------------------------------------------------
(* descriptors *)

FreeFiles == {f \in 1..NFILE : ftable[f].ref = 0}
FreeFds(p) == {fd \in 1..NOFILE : ofile[p][fd] = 0}
First(S) == CHOOSE x \in S : \A y \in S : x <= y

\* the end of sys_open: a file and a descriptor, or the inode is given up
OpenFile(p, i) ==
  IF FreeFiles = {} \/ FreeFds(p) = {}
    THEN Return(p, <<i>>) /\ UNCHANGED <<ftable, ofile>>
    ELSE /\ ftable' = [ftable EXCEPT ![First(FreeFiles)] = [ref |-> 1, ip |-> i]]
         /\ ofile' = [ofile EXCEPT ![p][First(FreeFds(p))] = First(FreeFiles)]
         /\ Return(p, <<>>)

\* a directory can only be opened for reading
sys_open(p, rdonly) ==
  /\ At(p, "open") /\ Free(call[p].ip)
  /\ LET i == call[p].ip
         c == Loaded(icache, i)
     IN  /\ Panics(c[i].type = "none", FALSE)
         /\ icache' = c
         /\ IF c[i].type # "dir" \/ rdonly
              THEN OpenFile(p, i) ELSE Return(p, <<i>>) /\ UNCHANGED <<ftable, ofile>>
  /\ UNCHANGED <<disk, cwd, bounds, stray>>

\* what descriptor fd had open, when that was its last reference
Closed(f) == IF ftable[f].ref = 1 /\ ftable[f].ip # 0 THEN <<ftable[f].ip>> ELSE <<>>
fileclose(f) ==
  ftable' = [ftable EXCEPT ![f] = IF @.ref = 1 THEN [ref |-> 0, ip |-> 0] ELSE [@ EXCEPT !.ref = @ - 1]]

sys_close(p, fd) ==
  /\ At(p, "user") /\ ofile[p][fd] # 0 /\ ncalls < MaxCalls
  /\ ncalls' = ncalls + 1
  /\ fileclose(ofile[p][fd])
  /\ ofile' = [ofile EXCEPT ![p][fd] = 0]
  /\ Return(p, Closed(ofile[p][fd]))
  /\ UNCHANGED <<disk, icache, cwd, ncrashes, panic, stray>>

\* Faulty: the new descriptor is not counted.
filedup_Not(t, f) == t
filedup(t, f) == [t EXCEPT ![f].ref = @ + 1]

sys_dup(p, fd) ==
  /\ At(p, "user") /\ ofile[p][fd] # 0 /\ FreeFds(p) # {} /\ ncalls < MaxCalls
  /\ ncalls' = ncalls + 1
  /\ ofile' = [ofile EXCEPT ![p][First(FreeFds(p))] = ofile[p][fd]]
  /\ ftable' = filedup(ftable, ofile[p][fd])
  /\ UNCHANGED <<disk, icache, cwd, call, ncrashes, panic, stray>>

sys_chdir(p) ==
  /\ At(p, "chdir") /\ Free(call[p].ip)
  /\ LET i == call[p].ip
         c == Loaded(icache, i)
     IN  /\ Panics(c[i].type = "none", FALSE)
         /\ icache' = c
         /\ IF c[i].type = "dir"
              THEN cwd' = [cwd EXCEPT ![p] = i] /\ Return(p, <<cwd[p]>>)
              ELSE Return(p, <<i>>) /\ UNCHANGED cwd
  /\ UNCHANGED <<disk, ftable, ofile, bounds, stray>>

\* fork gives the child every descriptor and the directory
fork(p, q) ==
  /\ At(p, "user") /\ cwd[q] = 0 /\ call[q] = Idle /\ ncalls < MaxCalls
  /\ ncalls' = ncalls + 1
  /\ ofile' = [ofile EXCEPT ![q] = ofile[p]]
  /\ ftable' = FoldFunction(LAMBDA f, t : IF f = 0 THEN t ELSE filedup(t, f), ftable, ofile[p])
  /\ cwd' = [cwd EXCEPT ![q] = cwd[p]]
  /\ icache' = iget(icache, cwd[p])
  /\ UNCHANGED <<disk, call, ncrashes, panic, stray>>

\* exit closes the descriptors one after the other, then leaves the directory
exit(p) ==
  /\ At(p, "user") /\ \E q \in Procs \ {p} : cwd[q] # 0
  /\ Go(p, [pc |-> "exit"])
  /\ UNCHANGED <<disk, icache, tables, bounds, panic, stray>>

ExitClose(p) ==
  /\ At(p, "exit")
  /\ \E fd \in 1..NOFILE \ FreeFds(p) :
       /\ \A x \in 1..fd-1 : ofile[p][x] = 0
       /\ fileclose(ofile[p][fd])
       /\ ofile' = [ofile EXCEPT ![p][fd] = 0]
       /\ Go(p, [puts |-> Closed(ofile[p][fd])])
  /\ UNCHANGED <<disk, icache, cwd, bounds, panic, stray>>

ExitDir(p) ==
  /\ At(p, "exit") /\ FreeFds(p) = 1..NOFILE
  /\ Return(p, <<cwd[p]>>)
  /\ cwd' = [cwd EXCEPT ![p] = 0]
  /\ UNCHANGED <<disk, icache, ftable, ofile, bounds, panic, stray>>

-----------------------------------------------------------------------------
(* filewrite to a file that has no block yet *)

Write(p, fd) ==
  /\ At(p, "user") /\ ofile[p][fd] # 0 /\ ncalls < MaxCalls /\ Room
  /\ LET i == ftable[ofile[p][fd]].ip
         c == Loaded(icache, i)
     IN  /\ i # 0 /\ Free(i) /\ c[i].type = "file" /\ c[i].addr = 0
         /\ icache' = [ilock(c, i, p) EXCEPT ![i].addr = balloc]
         /\ Go(p, [pc |-> "writei", ip |-> i])
  /\ bitmap' = bitmap \cup {balloc}
  /\ ncalls' = ncalls + 1
  /\ UNCHANGED <<dinode, data, tables, ncrashes, panic, stray>>

WriteData(p) ==
  /\ At(p, "writei")
  /\ data' = [data EXCEPT ![icache[call[p].ip].addr] = Junk]
  /\ Go(p, [pc |-> "writesize"])
  /\ UNCHANGED <<dinode, bitmap, icache, tables, bounds, panic, stray>>

WriteSize(p) ==
  /\ At(p, "writesize")
  /\ iupdate(icache, call[p].ip)
  /\ icache' = iunlock(icache, call[p].ip)
  /\ Return(p, <<>>)
  /\ UNCHANGED <<bitmap, data, tables, bounds, panic, stray>>

-----------------------------------------------------------------------------
(* create, for sys_open, sys_mkdir and sys_mknod *)

Creators == {"create", "mirror", "mkdir", "mknod"}
TypeOf(op) == CASE op = "create" -> "file" [] op = "mirror" -> "mirrored" [] op = "mkdir" -> "dir" [] op = "mknod" -> "dev"
Name(p) == Head(call[p].rest)

create(p) ==
  /\ \E op \in Creators : At(p, op)
  /\ Free(call[p].dp)
  /\ LET d == call[p].dp
         c == Loaded(icache, d)
         i == dirlookup(c, d, Name(p))
     IN  IF i # 0
           THEN /\ icache' = iget(c, i)
                /\ Panics(FALSE, NoSlot(c, i))
                /\ Go(p, [pc |-> "exists", ip |-> i, dp |-> 0, puts |-> <<d>>])
           ELSE /\ icache' = ilock(c, d, p)
                /\ Go(p, [pc |-> "ialloc"])
                /\ UNCHANGED panic
  /\ UNCHANGED <<disk, tables, bounds, stray>>

\* a file of the type asked for is opened, anything else that exists refused
Opens(op) == op \in {"create", "mirror"}
CreateExists(p) ==
  /\ At(p, "exists") /\ Free(call[p].ip)
  /\ LET i == call[p].ip
         c == Loaded(icache, i)
     IN  /\ Panics(c[i].type = "none", FALSE)
         /\ icache' = c
         /\ IF Opens(call[p].op) /\ c[i].type = TypeOf(call[p].op)
              THEN OpenFile(p, i) ELSE Return(p, <<i>>) /\ UNCHANGED <<ftable, ofile>>
  /\ UNCHANGED <<disk, cwd, bounds, stray>>

ialloc(p) ==
  /\ At(p, "ialloc")
  /\ LET i == First({x \in Inodes : dinode[x].type = "none"})
     IN  /\ dinode' = [dinode EXCEPT ![i] = [FreeInode EXCEPT !.type = TypeOf(call[p].op)]]
         /\ icache' = iget(icache, i)
         /\ Panics(FALSE, NoSlot(icache, i))
         /\ Go(p, [pc |-> "newinode", ip |-> i])
  /\ UNCHANGED <<bitmap, data, tables, bounds, stray>>

\* nlink = 1; a directory also counts in its parent
CreateInode(p) ==
  /\ At(p, "newinode") /\ Free(call[p].ip)
  /\ LET i == call[p].ip
         c == [ilock(icache, i, p) EXCEPT ![i].nlink = 1]
     IN  /\ Panics(c[i].type = "none", FALSE)
         /\ icache' = c
         /\ iupdate(c, i)
  /\ Go(p, [pc |-> IF call[p].op = "mkdir" THEN "parent" ELSE "enter"])
  /\ UNCHANGED <<bitmap, data, tables, bounds, stray>>

CreateParent(p) ==
  /\ At(p, "parent")
  /\ icache' = [icache EXCEPT ![call[p].dp].nlink = @ + 1]
  /\ iupdate(icache', call[p].dp)
  /\ Go(p, [pc |-> "dotblock"])
  /\ UNCHANGED <<bitmap, data, tables, bounds, panic, stray>>

\* the block for "." and "..", the inode with "." in it, then ".."
CreateDotBlock(p) ==
  /\ At(p, "dotblock")
  /\ bitmap' = bitmap \cup {balloc}
  /\ icache' = [icache EXCEPT ![call[p].ip].addr = balloc]
  /\ Go(p, [pc |-> "dot"])
  /\ UNCHANGED <<dinode, data, tables, bounds, panic, stray>>

CreateDot(p) ==
  /\ At(p, "dot")
  /\ iupdate(icache, call[p].ip)
  /\ Go(p, [pc |-> "dotdot"])
  /\ UNCHANGED <<bitmap, data, icache, tables, bounds, panic, stray>>

CreateDotDot(p) ==
  /\ At(p, "dotdot")
  /\ data' = [data EXCEPT ![icache[call[p].ip].addr].entry[".."] = call[p].dp]
  /\ Go(p, [pc |-> "enter"])
  /\ UNCHANGED <<dinode, bitmap, icache, tables, bounds, panic, stray>>

\* dirlink in the directory that is still locked, which is then given up
Created(p, c) ==
  /\ icache' = iunlock(c, call[p].dp)
  /\ Go(p, [pc |-> "created", dp |-> 0, puts |-> <<call[p].dp>>])

CreateEnter(p) ==
  /\ At(p, "enter")
  /\ LET d == call[p].dp IN
       /\ Panics(dirlookup(icache, d, Name(p)) # 0, FALSE)
       /\ EnterName(icache, d, Name(p), call[p].ip)
       /\ IF Appends(icache, d) THEN Go(p, [pc |-> "createsize"]) /\ UNCHANGED icache
                                ELSE Created(p, icache)
       /\ stray' = (stray \/ icache[d].nlink = IF call[p].op = "mkdir" THEN 1 ELSE 0)
  /\ UNCHANGED <<dinode, bitmap, tables, bounds>>

CreateSize(p) ==
  /\ At(p, "createsize")
  /\ Grow(call[p].dp)
  /\ Created(p, Grown(icache, call[p].dp))
  /\ UNCHANGED <<bitmap, tables, bounds, panic, stray>>

CreateDone(p) ==
  /\ At(p, "created")
  /\ icache' = iunlock(icache, call[p].ip)
  /\ IF Opens(call[p].op) THEN OpenFile(p, call[p].ip)
                          ELSE Return(p, <<call[p].ip>>) /\ UNCHANGED <<ftable, ofile>>
  /\ UNCHANGED <<disk, cwd, bounds, panic, stray>>

-----------------------------------------------------------------------------
(* sys_unlink *)

sys_unlink(p) ==
  /\ At(p, "unlink") /\ Free(call[p].dp)
  /\ LET d == call[p].dp
         c == Loaded(icache, d)
         i == dirlookup(c, d, Name(p))
     IN  IF i = 0
           THEN icache' = c /\ Return(p, <<d>>) /\ UNCHANGED panic
           ELSE /\ icache' = iget(ilock(c, d, p), i)
                /\ Panics(FALSE, NoSlot(c, i))
                /\ Go(p, [pc |-> "unlinkentry", ip |-> i])
  /\ UNCHANGED <<disk, tables, bounds, stray>>

\* the directory loses a link to a subdirectory, or is given up
Cleared(p, c) ==
  IF c[call[p].ip].type = "dir"
    THEN icache' = c /\ Go(p, [pc |-> "unlinkparent"])
    ELSE icache' = iunlock(c, call[p].dp) /\ Go(p, [pc |-> "unlinkinode", dp |-> 0, puts |-> <<call[p].dp>>])

\* with both inodes locked the entry is cleared; writing one that a crash left
\* behind the size raises the size as well
UnlinkEntry(p) ==
  /\ At(p, "unlinkentry") /\ Free(call[p].ip)
  /\ LET d == call[p].dp
         i == call[p].ip
         c == ilock(icache, i, p)
     IN  /\ Panics(c[i].type = "none" \/ c[i].nlink < 1, FALSE)
         /\ IF c[i].type = "dir" /\ ~isdirempty(c, i)
              THEN /\ icache' = iunlock(iunlock(c, i), d)
                   /\ Return(p, <<i, d>>)
                   /\ UNCHANGED data
              ELSE /\ data' = [data EXCEPT ![c[d].addr].entry[Name(p)] = 0]
                   /\ IF data[c[d].addr].past = Name(p)
                        THEN icache' = c /\ Go(p, [pc |-> "unlinksize"])
                        ELSE Cleared(p, c)
  /\ UNCHANGED <<dinode, bitmap, tables, bounds, stray>>

UnlinkSize(p) ==
  /\ At(p, "unlinksize")
  /\ Grow(call[p].dp)
  /\ Cleared(p, Grown(icache, call[p].dp))
  /\ UNCHANGED <<bitmap, tables, bounds, panic, stray>>

UnlinkParent(p) ==
  /\ At(p, "unlinkparent")
  /\ LET d == call[p].dp
         c == [icache EXCEPT ![d].nlink = @ - 1]
     IN  /\ iupdate(c, d)
         /\ icache' = iunlock(c, d)
         /\ Go(p, [pc |-> "unlinkinode", dp |-> 0, puts |-> <<d>>])
  /\ UNCHANGED <<bitmap, data, tables, bounds, panic, stray>>

UnlinkInode(p) ==
  /\ At(p, "unlinkinode")
  /\ LET i == call[p].ip
         c == [icache EXCEPT ![i].nlink = @ - 1]
     IN  /\ iupdate(c, i)
         /\ icache' = iunlock(c, i)
         /\ Return(p, <<i>>)
  /\ UNCHANGED <<bitmap, data, tables, bounds, panic, stray>>

-----------------------------------------------------------------------------
(* sys_link *)

\* Faulty: the link is not counted before its entry is made.
Counted_Late(n) == n
\* the new link is counted before there is an entry for it
Counted(n) == n + 1

sys_link(p) ==
  /\ At(p, "link") /\ Free(call[p].ip)
  /\ LET i == call[p].ip
         c == Loaded(icache, i)
         c1 == [c EXCEPT ![i].nlink = Counted(@)]
         to == call[p].to
     IN  /\ Panics(c[i].type = "none", c[i].type # "dir" /\ NoSlot(c, Start(p, to)))
         /\ IF c[i].type = "dir"
              THEN icache' = c /\ Return(p, <<i>>) /\ UNCHANGED dinode
              ELSE /\ iupdate(c1, i)
                   /\ icache' = iget(c1, Start(p, to))
                   /\ Go(p, [pc |-> "namex", lp |-> i, ip |-> Start(p, to), rest |-> to.elems])
  /\ UNCHANGED <<bitmap, data, tables, bounds, stray>>

\* dirlink; an inode of that name is looked up and given up again
LinkEntry(p) ==
  /\ At(p, "dirlink") /\ Free(call[p].dp)
  /\ LET d == call[p].dp
         c == Loaded(icache, d)
         i == dirlookup(c, d, Name(p))
     IN  IF i # 0
           THEN /\ icache' = iget(c, i)
                /\ Panics(FALSE, NoSlot(c, i))
                /\ Go(p, [pc |-> "linkbad", dp |-> 0, puts |-> <<i, d>>])
                /\ UNCHANGED <<data, stray>>
           ELSE /\ EnterName(c, d, Name(p), call[p].lp)
                /\ IF Appends(c, d) THEN icache' = ilock(c, d, p) /\ Go(p, [pc |-> "linksize"])
                                    ELSE icache' = c /\ Return(p, <<d, call[p].lp>>)
                /\ stray' = (stray \/ c[d].nlink = 0)
                /\ UNCHANGED panic
  /\ UNCHANGED <<dinode, bitmap, tables, bounds>>

LinkSize(p) ==
  /\ At(p, "linksize")
  /\ LET d == call[p].dp IN
       /\ Grow(d)
       /\ icache' = iunlock(Grown(icache, d), d)
       /\ Return(p, <<d, call[p].lp>>)
  /\ UNCHANGED <<bitmap, tables, bounds, panic, stray>>

LinkBad(p) ==
  /\ At(p, "linkbad") /\ Free(call[p].lp)
  /\ LET i == call[p].lp
         c == [icache EXCEPT ![i].nlink = @ - 1]
     IN  iupdate(c, i) /\ icache' = c /\ Return(p, <<i>>)
  /\ UNCHANGED <<bitmap, data, tables, bounds, panic, stray>>

-----------------------------------------------------------------------------
\* memory is lost and the disk stays as it is
Crash ==
  /\ ncrashes < MaxCrashes /\ panic = "none"
  /\ \E p \in Procs : LET m == Booted(p)
                      IN  /\ icache' = m.icache /\ ftable' = m.ftable /\ ofile' = m.ofile
                          /\ cwd' = m.cwd /\ call' = m.call
  /\ ncrashes' = ncrashes + 1
  /\ UNCHANGED <<disk, ncalls, panic, stray>>

Next ==
  \/ \E p \in Procs : iput(p) \/ FreeZero(p) \/ FreeBlock(p) \/ FreeTrunc(p) \/ FreeType(p) \/ FreeDone(p)
  \/ \E p \in Procs : \E c \in Calls : Begin(p, c)
  \/ \E p \in Procs : namex(p) \/ sys_chdir(p) \/ \E rdonly \in BOOLEAN : sys_open(p, rdonly)
  \/ \E p \in Procs : \E fd \in 1..NOFILE : sys_close(p, fd) \/ sys_dup(p, fd) \/ Write(p, fd)
  \/ \E p \in Procs : WriteData(p) \/ WriteSize(p)
  \/ \E p, q \in Procs : fork(p, q)
  \/ \E p \in Procs : exit(p) \/ ExitClose(p) \/ ExitDir(p)
  \/ \E p \in Procs : create(p) \/ CreateExists(p) \/ ialloc(p) \/ CreateInode(p)
  \/ \E p \in Procs : CreateParent(p) \/ CreateDotBlock(p) \/ CreateDot(p) \/ CreateDotDot(p)
  \/ \E p \in Procs : CreateEnter(p) \/ CreateSize(p) \/ CreateDone(p)
  \/ \E p \in Procs : sys_unlink(p) \/ UnlinkEntry(p) \/ UnlinkSize(p) \/ UnlinkParent(p) \/ UnlinkInode(p)
  \/ \E p \in Procs : sys_link(p) \/ LinkEntry(p) \/ LinkSize(p) \/ LinkBad(p)
  \/ Crash

Spec == Init /\ [][Next]_vars
-----------------------------------------------------------------------------
(* Properties *)

Types == {"none", "dir", "file", "mirrored", "dev"}
Pcs == {"user", "namex", "open", "chdir", "exit", "exists", "ialloc", "newinode", "parent", "dotblock",
        "dot", "dotdot", "enter", "createsize", "created", "unlink", "unlinkentry", "unlinksize",
        "unlinkparent", "unlinkinode", "link", "dirlink", "linksize", "linkbad", "writei", "writesize"} \cup Creators

TypeOK ==
  /\ dinode \in [Inodes -> [type : Types, nlink : Nat, addr : Blocks \cup {0}, size : Nat]]
  /\ bitmap \subseteq Blocks
  /\ data \in [Blocks -> [entry : [Entries -> Inodes \cup {0, -1}], past : Names \cup {None}]]
  /\ icache \in [Inodes -> [ref : Nat, busy : Procs \cup {None}, valid : BOOLEAN,
                            type : Types, nlink : Nat, addr : Blocks \cup {0}, size : Nat]]
  /\ ftable \in [1..NFILE -> [ref : Nat, ip : Inodes \cup {0}]]
  /\ ofile \in [Procs -> [1..NOFILE -> 0..NFILE]] /\ cwd \in [Procs -> Inodes \cup {0}]
  /\ \A p \in Procs : /\ call[p].pc \in Pcs
                      /\ {call[p].ip, call[p].dp, call[p].lp} \subseteq Inodes \cup {0}
                      /\ call[p].puts \in Seq(Inodes)
  /\ panic \in {"none", "iget", "fs"} /\ stray \in BOOLEAN

\* the references process p holds inside a call
Locals(p, i) ==
  Len(SelectSeq(call[p].puts, LAMBDA j : j = i)) +
  Cardinality({v \in {"ip", "dp", "lp"} :
                 call[p][v] = i /\ ~(v = "ip" /\ call[p].pc \in {"writei", "writesize"})})

Refs(i) ==
  Cardinality({f \in 1..NFILE : ftable[f].ip = i}) + Cardinality({p \in Procs : cwd[p] = i}) +
  FoldSet(LAMBDA p, sum : sum + Locals(p, i), 0, Procs)

\* Types, and the counts that keep shared things alive: the reference count of
\* an inode is what files, directories in use and running calls hold, that of
\* a file is its descriptors in all processes, and a copy nobody has locked is
\* what the disk has.  iget panics ("iget: no inodes") when it would need one
\* slot more than the cache has, and only then.  The other panics of fs.c and
\* sysfile.c that the actions test are not reached; "balloc: out of blocks" and
\* "ialloc: no inodes", which a full disk causes, are not tested: see Room.
RefsCounted ==
  /\ TypeOK /\ panic # "fs"
  /\ panic = "iget" <=> Cardinality(Referenced(icache)) > NINODE
  /\ \A i \in Inodes :
       /\ icache[i].ref = Refs(i)
       /\ icache[i].valid /\ Free(i) => Copy(icache, i) = dinode[i]
  /\ \A f \in 1..NFILE :
       ftable[f].ref = Cardinality({x \in Procs \X (1..NOFILE) : ofile[x[1]][x[2]] = f})

IsDir(i) == dinode[i].type = "dir"
EntryOf(d, name) == IF dinode[d].addr = 0 THEN 0 ELSE data[dinode[d].addr].entry[name]

\* the inodes that can be reached from the root on disk
Reach ==
  LET R[k \in 0..NINODES] ==
        IF k = 0 THEN {Root}
        ELSE R[k-1] \cup ({EntryOf(x[1], x[2]) : x \in {d \in R[k-1] \cap Inodes : IsDir(d)} \X Names} \ {0})
  IN  R[NINODES]

\* the entries for inode i in the directories of R, ".." of subdirectories included
Links(R, i) ==
  Cardinality({x \in {d \in R : IsDir(d)} \X Names : EntryOf(x[1], x[2]) = i}) +
  Cardinality({d \in R : IsDir(d) /\ EntryOf(d, "..") = i})

\* What a restart would find on disk at any moment is a sound tree: its names
\* lead to allocated inodes that count at least their names, no two of them
\* share a block, none of their blocks is free, and free blocks are clear, as
\* balloc expects.
TreeSound ==
  LET R == Reach IN
  /\ R \subseteq Inodes
  /\ \A i \in R : /\ dinode[i].type # "none" /\ dinode[i].nlink >= Links(R, i)
                  /\ dinode[i].addr # 0 => dinode[i].addr \in bitmap
                  /\ IsDir(i) => dinode[i].addr # 0
  /\ \A i, j \in R : i # j /\ dinode[i].addr # 0 => dinode[i].addr # dinode[j].addr
  /\ \A b \in Blocks \ bitmap : data[b] = Zero

Quiet == \A p \in Procs : call[p] = Idle

\* Without a crash nothing is lost: when no call is running, an inode that is
\* allocated has exactly as many names as it counts, or none and is open, and
\* the blocks marked used are theirs.  A name entered in a directory that was
\* removed meanwhile is the exception: it goes with the directory and its inode
\* stays allocated, a flaw of sys_link and create that this leaves out.
NothingLeaks ==
  Quiet /\ ncrashes = 0 /\ ~stray =>
    LET R == Reach
        allocated == {i \in Inodes : dinode[i].type # "none"}
    IN  /\ \A i \in allocated : /\ dinode[i].nlink = Links(R, i)
                                /\ i \in R \/ icache[i].ref > 0
        /\ bitmap = {dinode[i].addr : i \in allocated} \ {0}

\* the inode a process has to lock next, 0 when there is none
Wanted(p) ==
  CASE call[p].puts # <<>> -> 0
    [] call[p].pc \in {"namex", "open", "chdir", "exists", "newinode", "unlinkentry", "link"} -> call[p].ip
    [] call[p].pc \in Creators \cup {"unlink", "dirlink"} -> call[p].dp
    [] call[p].pc = "linkbad" -> call[p].lp
    [] OTHER -> 0
Waiting(p) == Wanted(p) # 0 /\ ~Free(Wanted(p))

\* Nobody waits for ever: an inode is only locked by a process that is in a
\* call, and of the processes in a call one can go on.
NoInodeDeadlock ==
  /\ \A i \in Inodes : ~Free(i) => call[icache[i].busy] # Idle
  /\ Quiet \/ \E p \in Procs : call[p] # Idle /\ ~Waiting(p)
=============================================================================
