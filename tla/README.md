# A TLA+ verification of the operating-system course projects

The repository collects five projects: four modified copies of the xv6 kernel
(lottery scheduling, memory layout, a shell, a file system with mirrored files)
and a multi-threaded web server. This directory models the parts in which
processes, threads, interrupts or crashes interleave, checks them with TLC, and
proves the central invariants with TLAPS.

## 1. Inventory

Paths are relative to `src/`. `D` is `triple file system`, `B` is
`memory model and xv6 kernel modify /xv6`, `C` is `simple shell/xv6`, `A` is
`C practice and xv6 intro/xv6`, `W` is `sever_client_system`. A file that is the
same in the four xv6 trees is modelled once, from `D`.

| Component | State | Operations | Interacts with | What is hard | What makes it correct |
|---|---|---|---|---|---|
| Buffer cache, `D/kernel/bio.c` | LRU list, `flags`, `sector`, `data` of NBUF buffers | `bget`, `bread`, `bwrite`, `brelse` | IDE driver below, file system above, `sleep`/`wakeup` | `bget` sleeps with the lock dropped; recycling; all buffers busy | one buffer per sector, exclusive holders, no dirty buffer recycled, contents equal the disk |
| IDE driver, `D/kernel/ide.c` | request queue, controller | `iderw`, `idestart`, `ideintr` | buffer cache, interrupt | interrupt order, spurious wakeups, read errors | the interrupt completes the request the controller worked on; every request returns |
| Sleep and wakeup, `D/kernel/proc.c` | `proc.state`, `proc.chan`, `ptable.lock` | `sleep`, `wakeup`, `sched`, `yield`, `scheduler` | everything that blocks | wakeup between the test and the sleep; lock hand-over to the scheduler | no wakeup is lost; at most one CPU runs a process |
| Process life cycle, `D/kernel/proc.c` | process table, `parent`, `pid`, `killed` | `allocproc`, `fork`, `exit`, `wait`, `kill` | sleep/wakeup, trap return | orphans, zombies, exit racing wait, kill of a sleeper | children are reaped once by their parent or init; nobody waits for ever for a zombie |
| Spinlocks, `D/kernel/spinlock.c` | `locked`, `cpu`, `ncli`, `intena` | `acquire`, `release`, `pushcli`, `popcli` | every lock user, interrupt handlers | an interrupt on the CPU that holds the lock its handler takes | mutual exclusion; interrupts stay off while a lock is held |
| Pipes, `D/kernel/pipe.c` | ring buffer, `nread`, `nwrite`, `readopen`, `writeopen` | `pipealloc`, `pipewrite`, `piperead`, `pipeclose` | file table, sleep/wakeup, kill | blocking at full and empty, close while the other end sleeps, several readers and writers | bytes come out once and in order; end of file only after the last byte; no stuck sleeper |
| File table, `D/kernel/file.c`, fd calls of `D/kernel/sysfile.c` | `ftable`, `ofile[]`, reference counts | `filealloc`, `filedup`, `fileclose`, `sys_open`, `sys_dup`, `sys_close`, `sys_pipe`, fork and exit | pipes, inodes | half-built descriptors, failing half-way through `sys_pipe`/`sys_open` | `ref` equals the descriptors; a file is closed exactly once |
| Inode cache and blocks, `D/kernel/fs.c` 60-320 | `icache`, on-disk inodes, bitmap | `balloc`, `bfree`, `ialloc`, `iget`, `ilock`, `iunlock`, `iput`, `iupdate`, `itrunc` | buffer cache | last `iput` frees while another process looks the inode up; crash between block writes | reference counts, a freed inode is not in use, a block belongs to one file |
| Mirrored files, `D/kernel/fs.c` 330-692 | three block addresses per logical block | `mbmap`, `readi`, `writei`, `stati`, `itrunc` | buffer cache, bitmap | one copy corrupt, repair, flags kept across blocks, the limit of the indirect block | a read returns what was written while a majority of the copies is intact; repaired copies reach the disk |
| Directories and paths, `D/kernel/fs.c` 700-854, `D/kernel/sysfile.c` | directory blocks, link counts | `dirlookup`, `dirlink`, `namex`, `sys_link`, `sys_unlink`, `create` | inode cache | two inodes locked, name races, undo of a failed link | `nlink` equals the directory entries; no directory cycle |
| Lottery and spot scheduler, `C/kernel/proc.c`, `C/kernel/sysproc.c` (another version in `A`) | `rpercent`, `spotbid`, `charge`, `totalpercent` | `scheduler`, `sys_reserve`, `sys_spot`, `sys_getpinfo` | process table | admission before the check, stale fields of a recycled slot, starvation | admission control counts the live reservations |
| Virtual memory, exec and stack growth, `B/kernel/vm.c`, `exec.c`, `trap.c`, `proc.c` | `sz`, `sz2`, page tables | `allocuvm`, `deallocuvm`, `copyuvm`, `exec`, `growproc`, page fault | system calls | heap meets stack, exec failing after it changed `sz2` | heap and stack never overlap; fork copies what is mapped |
| System call arguments, `B/kernel/syscall.c` | - | `fetchint`, `fetchstr`, `argptr` | VM | wrap-around, ranges between heap and stack | an accepted range is mapped |
| Page allocator, `D/kernel/kalloc.c` | free list | `kalloc`, `kfree` | VM, pipes | lock | a page has one owner |
| Console, `D/kernel/console.c` | input ring `r`, `w`, `e` | `consoleintr`, `consoleread`, `consolewrite` | keyboard interrupt, sleep/wakeup | editing while a reader sleeps, a full ring | a reader sees whole lines, once, in order |
| Web server, `W/server.c`, `W/cs537.c`, `W/request.c` | request slots, request-line ring, condition variables | `producer`, `put`, `consumer`, `get`, `requestHandle` | clients, CGI children | slot full/empty, request line reused while it is served, `Wait` for another thread's child | each connection is served once with its own request; smallest file first |
| Shell, `simple shell/mysh.c` | children, pipe | main loop | kernel | waits for the writer before it reads the pipe | the pipeline ends |
| User programs, tools, boot code, `usertests.c`, `mkfs.c`, `paradox.c` | - | - | - | - | not modelled |

## 2. Plan

Written, in this order, and how the modules use each other:

| Module | Stands on | Abstract specification |
|---|---|---|
| `Bcache` | atomic `sleep`/`wakeup`, which `Sched` justifies | `SectorStore`: each sector is a register whose holder reads and writes it alone |
| `Sched` | nothing: hardware, locks and context switches | - |
| `Proc` | critical sections of `ptable.lock`, which `Sched` justifies | - |
| `Pipe` | `sleep`/`wakeup`; its lock is explicit because `kill` does not take it | `Fifo`: a byte queue with an end of file |
| `MirrorFs` | the buffer cache as a store with a volatile and a durable value | the history variable `may`, the bytes a correct read may return |
| `Server` | POSIX mutexes and condition variables, sockets, child processes (external) | - |
| `Console` | `sleep`/`wakeup`; `input.lock` explicit, as in `Pipe` | `Terminal`: a line that can be edited and a queue of finished lines |
| `Lottery` | critical sections of `ptable.lock` | a count of the numbers that choose each process |
| `Vm` | the page allocator as a counter | - |
| `Files` | the buffer cache as a store whose block writes are atomic and durable, which `Bcache` justifies | the tree a restart would find |

Proved: every safety property of `Bcache`, `Sched`, `Proc`, `Lottery`, `Pipe`,
`MirrorFs`, `Server`, `Console` and `Vm`, and the three refinements (section 6).
Left to prove: `RefsCounted`, `TreeSound`, `NothingLeaks` and `NoInodeDeadlock` of
`Files`. What is left to model is in section 8.

## 3. Modules and code

The comment above each definition names the code; `map` in `PROJECT.json` gives
the lines. An action covers what the code does between two points where another
process, CPU, thread or interrupt can intervene. Operators named `X_Something`
and commented "Faulty" are deliberately wrong variants of `X`: replacing `X`
by one makes a property fail, which shows what the property protects. The
proofs about `X` are in `XProofs`, which extends it; those about `Proc` and `Lottery`
are in `SchedProofs` too, which extends all three modules about the process table.
`Ptable` declares what the three have in common, the slots and `state`; each has its
own other fields of `struct proc`. `Lemmas` holds what several of the proofs need.

**Bcache** (`bio.c`, `ide.c`). `lru` is the linked list as a permutation of the
buffers, `flags`, `sector` and `data` are the fields of `struct buf`,
`idequeue` is the driver's queue and `ide` the controller: idle, busy with a
request it copied when `idestart` ran, or raising its interrupt. `disk` is the
platter. `bget` is four actions (hit, busy and sleep, recycle, panic), each one
critical section of `bcache.lock`; `iderw` queues and sleeps, and tests its
flags again when it is woken; `ideintr` completes the head of the queue, wakes
the sleepers of the buffer and starts the next request. `kill` wakes a sleeper of
either kind at any time, which is why `iderw` tests its flags in a loop. Callers
hold any number of buffers at once, in increasing sector order, as `namex`, `bmap`
and `itrunc` do: nothing in `bio.c` limits them, so `bget` can run out of buffers.
Sectors `None` are buffers that were never used.

**Sched** (`spinlock.c`, the bottom half of `proc.c`, `trap.c`). One step is
roughly one statement: `pushcli`, the `xchg` of `acquire`, `release` and
`popcli`, the assignments of `sleep`, `swtch`. `iflag` is the CPU's interrupt
flag, `ncli` and `intena` are fields of `struct cpu`, `saved` is the local
variable of `sched` that moves `intena` with the thread. `onticks` says whether
`proc->chan` is set: the only channel is `&ticks`. The timer interrupt
takes `tickslock` and `ptable.lock` (through `wakeup`) on CPU 0 wherever
interrupts are enabled. `sys_sleep` is the sleeper; its `killed` exit is left
to `Proc` and `Console`, where `kill` is.

**Proc** (`proc.c`, `trap.c`). A slot has the fields of `struct proc`; `mem`
says whether it owns a kernel stack and a page directory. `fork` is five steps
because only `allocproc`'s search holds the lock: `kalloc` and `copyuvm` may fail
after it. `exit` and each round of `wait` are one critical section. `kill`
compares pids only, as the code does.

**Pipe** (`pipe.c`). `nread` and `nwrite` count modulo `W` as unsigned ints
wrap; a byte is copied per step with the lock held. `left` is what remains of
the request. `pipeclose` runs when the last descriptor of an end goes.

**MirrorFs** (`fs.c`). One mirrored file. `mem` is what `bread` returns, `disk`
what survives; `addrs`/`inds` say which block pointers are set. `writei` writes
the three copies block by block and `readi` compares and repairs them in the
order of the code. `strncmp` stops at a zero byte, which is one of the values, and
with a length beyond the block it may find equal blocks different, by what follows
them in memory (`Overrun`). A crash forgets `mem` and the inode in memory; a fault
damages one block while the machine is off. `misled` is history: a read took equal
blocks for different ones and different ones for equal.

**Server** (`server.c`, `cs537.c`, `request.c`). Fields of `server_t` keep
their names. The mutex and the two condition variables are explicit, with
spurious wakeups; a consumer parses its line after it released the mutex.
`Fork` and `Wait(NULL)` act on the process-wide sets of running and ended
children. A failing system call in one of the wrappers ends the process (`up`
becomes false). `Sends` says what the client of each connection may send: a
request line, or nothing before it closes. `server.c:65-67` takes the mutex and the
condition variables from `malloc` and never initialises them; the model assumes that
`malloc` returned zeroed memory and that zero is a valid initial value, neither of
which the code ensures.

**Console** (`console.c`). `r`, `w` and `e` are the indices of the input ring,
counting modulo `W` as unsigned ints wrap. `consoleintr` is one action per kind
of character; `consoleread` takes `input.lock`, tests `killed`, sleeps, and takes
a character per step. `kill` does not take `input.lock`. Once a killed reader has
left, its slot goes to a new process (`Replaced`).

**Lottery** (`C/kernel/proc.c`, `sysproc.c`). One round of `scheduler` is one
critical section: `Pick(rand)` is its second scan of the table, for the number
drawn; `Schedulers` are the loops, one per CPU. `ForkClaim` and `ForkEnd` are the two
halves of `fork`, between which the slot is an embryo, or `fork` fails and gives it
back; `wait` and `wake` are what `wait` and `wakeup` do to `state`. `Stop` is the rest
of the round, after the process gave the CPU back: a turn costs `Fee`, or the bid
divided by `Scale` (100), rounded towards zero, although bids are compared undivided.
`sys_reserve` holds no lock, so its read, write and test of `totalpercent` are
three steps. A slot keeps its reservation and charges when its process ends, as
`allocproc` and `wait` leave them alone. `due` and `raced` are history.

**Vm** (`B/kernel/vm.c`, `exec.c`, `trap.c`, `proc.c`, `syscall.c`, `kalloc.c`).
A page table is the set of user pages it maps and the number of pages
`setupkvm` took for it; `free` is the length of the free list. Every `kalloc` is
a step, so any process can run out of memory at any point. `pgdir`, `sz`, `sz2`
are fields of `struct proc`, `new` is the table `exec` or `copyuvm` builds. Addresses
and sizes wrap at `AddrSpace`, as `uint` does. `exec` takes segments one at a time,
`allocuvm` first and then `Load`, which is `loaduvm` with its panics: it wants a
page-aligned address and pages that are there, and `exec` checks neither. `tidy`
is history: false once an image is no longer what `sz` and `sz2` say (section 7).
`argptr` and `fetchint` are operators over all addresses and sizes, with the wrap of
`i + size`, compared with what is mapped.

**Files** (`D/kernel/sysfile.c`, `file.c`, `fs.c`). `dinode`, `bitmap` and `data`
are the disk; `icache`, `ftable`, `ofile`, `cwd` and the calls in progress are
memory, which a crash wipes. A step ends where an inode lock is awaited or a
block is written. The inode cache has `NINODE` slots, and `iget` panics when it needs
one more. `puts` lists the inodes a call has still to give up, so that
`iput`, with the five steps in which it frees an inode, is written once. The
block of a directory holds its entries and `..`. `size` counts the entries below the
directory's size; `past` is the name in the entry behind it, which `dirlink` writes
before it raises the size. A crash in between leaves it there: `dirlookup` searches
the whole block and finds it, `isdirempty` stops at the size and does not, the next
`dirlink` may write over it. `open` with `O_CREATE | O_MIRRORED` is the call
`mirror`. `stray` is history: a name was entered in a directory that had been removed.

## 4. Runs and bounds

| Run | What it shows | Bounds, and why they suffice |
|---|---|---|
| `bcache` | `OneBufferPerSector`, `BusyIsALock`, `DriverSound`, `Coherence`, `PanicsExplained` (of the panics of `bio.c` and `ide.c` only that of `bget` happens, and only with every buffer in use and the sector in none), refinement of `SectorStore` | 2 processes, 2 buffers, 3 sectors, and a process may hold both buffers: more sectors than buffers, so recycling, waiting for a busy buffer, queueing two requests and running out of buffers all happen; sleepers are woken by `kill` at any moment |
| `bcache_live` | `CallsReturn`: `bget` sleepers wake and I/O ends, unless the kernel panicked | 2 buffers, 3 sectors, read errors: the panic is reachable and the property says so |
| `sched` | locks and the preconditions of `sched` (`LockDiscipline`), one CPU per process, no lost wakeup, interrupts restored, `SleepersWoken` | 2 CPUs, 2 processes: two CPUs compete for one process, a process migrates |
| `proc` | `TableSound` (slots, pids and memory agree on every path of `fork`), `ParentAlive`, `WaiterHasWork`, `ZombiesReaped` | 4 slots: `exit`'s wakeup of `initproc` matters only for a zombie whose dying parent is not a child of init, which takes init and three generations. pids to 4, kills of pid 0 and 3 |
| `pipe` | `PageOwned`, `SleepersBlocked`, refinement of `Fifo`, `TransfersEnd` | a writer and two readers, 2 bytes of space, requests of 1 and 3, counters modulo 4, so that requests exceed the buffer and counters wrap; writer and one reader can be killed |
| `mirror` | until the first mishap (a crash between any two writes, or a damaged block) a majority of the copies is good at every moment, and after it whenever no write is going on; then a read succeeds and returns the old or the new bytes, unless copy 3 is the damaged one, or a comparison went past its buffers; the inode on disk never promises bytes it has no pointers for | block of 2 bytes, files of up to 4 bytes: one direct and one indirect group; reads of up to 3 bytes, so that `strncmp` does go past a block; 3 values, one of them the zero byte, because with 2 a write that follows a mishap always finds two copies that agree |
| `mirror_copy3` | counterexample, section 7 | one write, one damaged block, one read |
| `server` | connections are neither lost nor served twice, nobody is stuck, a request keeps its line, smallest file first, every connection is served | 2 consumers, 2 slots, 4 request lines and 5 connections, so that the fifth overwrites the line of the first; clients that hang up, CGI requests, a missing file, one spurious wakeup |
| `console` | `ReadersAwake`, refinement of `Terminal`, `KilledReaderLeaves` | 2 readers, a ring of 3 characters, indices modulo 6: the ring fills with and without a finished line, indices wrap |
| `lottery` | `DrawsHonest`, `AccountsKept` | 3 slots, 5 numbers, shares of 2, bids of 1 and 3 with 2 for the code's 100, one CPU that preempts: two reservations fit and a third does not, a bid is rounded down to nothing, a charge is carried over, slots are reused. Totals are bounded by `MaxTotal` and `MaxBill` |
| `vm` | `MemoryKept`, `SpaceKept` | init and 2 processes, 6 user pages of 2 bytes in an address space of 16, 13 physical pages: two images fit but not always a third table, sizes and segments need not be aligned, sums wrap, the stack grows twice and the heap can reach it |
| `files` | `RefsCounted`, `TreeSound`, `NothingLeaks`, `NoInodeDeadlock` | 2 processes, names `a` and `b`, 5 calls, 1 crash, 2 files and 2 descriptors: enough for a directory that is removed under another process, a freed inode that is allocated again before `iput` is done, a full table, an entry behind the size of a directory after a crash. The inode cache has 3 slots, which do run out; inodes and blocks on disk do not (`Room`), which would panic too ("ialloc: no inodes", "balloc: out of blocks") |

Symmetry is used in safety runs only. `CHECK_DEADLOCK FALSE` stands where the
system may stop: in `bcache`, `bcache_live`, `vm` and `files` after a panic, in `pipe` with all ends
closed, in `server` with all clients served, in `lottery` and `files` at the
bounds. For `files`, `NoInodeDeadlock` says what deadlock checking would.

## 5. Fairness

- `Bcache`: a process inside a call goes on (weak), the controller finishes and
  its interrupt is taken (weak), and a caller gives each buffer back: strong,
  because it may take and wait for others in between. Calls are not forced.
- `Sched`: strong fairness of the steps of a CPU, since locks are free again and
  again and the hardware lets some CPU win each time; strong fairness of the
  timer on CPU 0, an interrupt waits until it is enabled.
- `Proc`: a process in the kernel goes on; init calls `wait` for ever (`init.c`
  does). User processes are not forced to do anything.
- `Pipe`: strong fairness of a process in a call, which competes for the lock;
  readers keep reading (a writer cannot return from a full pipe otherwise),
  killed processes exit.
- `Console`: strong fairness of a reader in a call; somebody keeps typing
  newlines as long as the ring takes them, without which no reader returns.
- `Server`: weak fairness of main and of each thread, and CGI children end.
  Spurious wakeups are bounded by `MaxSpurious` and connections by `MaxConns`:
  smallest-file-first has no aging, so an endless stream of small files starves a
  large one, and no fairness would repair that.
- `Lottery`, `Vm` and `Files` are checked for safety only. A draw is a chance, so
  that a process with a share runs in the end is a statement of probability;
  `DrawsHonest` counts the numbers instead.

## 6. Proofs

The theorems hold for every value of the constants that satisfies the `ASSUME`s
of the modules, all of which TLC evaluates in the runs. In each proof module
`Inv` is the inductive invariant, `InvHolds` the theorem `Spec => []Inv`, and the
properties of the runs follow from it; for `Proc` and `Lottery` they are `ProcInv` and
`LotteryInv`, with `ProcSpec` and `LotterySpec`. There is one lemma per action (in `Bcache`
one per conjunct, with one step per action).

| Module | Theorems about the runs' properties |
|---|---|
| `BcacheProofs` | `OneBuffer`, `BusyLock`, `DriverOK`; without read errors `CoherenceHolds` and `CacheIsSectorStore`; `PanicsAreExplained` |
| `SchedProofs` | of `Sched`: `LocksAreDisciplined`, `OneCpuEach`, `WakeupsArrive`, `FlagsAreRestored`; of `Proc`: `TableIsSound`, `ParentIsAlive`, `WaiterIsRight`; of `Lottery`: `DrawsAreHonest`, `AccountsAreKept` |
| `PipeProofs` | `PageIsOwned`, `SleepersAreBlocked`, `PipeIsFifo` |
| `ServerProofs` | `NothingIsLost`, `NobodyIsStuck`, `OwnRequestAnswered`, `SmallestIsFirst` (an action property) |
| `ConsoleProofs` | `ReadersStayAwake`, `ConsoleIsTerminal` |
| `VmProofs` | `MemoryIsKept`, `SpaceIsKept` |
| `MirrorFsProofs` | `SizeIsCovered`; with at most one mishap `MajorityIsKept` and `MishapIsSurvived` |

**Assumptions worth naming.** Some are hypotheses of theorems. `~ReadErrors`,
because a failed read leaves a buffer valid with its old contents (section 7).
`Fee < Cap` and bids that cost less than `Cap` for the accounts: `scheduler` carries
over one `Cap` per turn (in the code a turn with a reservation costs 10 and `Cap` is
1000; bids are the user's). `MaxMishaps <= 1` for the copies of a mirrored file: three copies
outvote one, and a second mishap can hit the same block. `Pipe`
assumes that each end is opened by somebody, as `pipealloc` does, and `Pipe` and `Console` that the width `W` of the counters is a multiple of the ring's
size, as 2^32 is of 512 and of 128. `MaxPid`, `MaxConns`, `MaxSpurious` and the like
are arbitrary naturals in the theorems: the bounds matter to TLC only.

**Bcache.** The inductive invariant is

    Inv == TypeOK /\ CallState /\ OneBufferPerSector /\ BusyIsALock
           /\ FreeIsClean /\ QueueSound /\ SleepersQueued

`OneBufferPerSector` is not inductive alone: recycling picks a buffer that is
neither busy nor dirty and gives it a sector no buffer has, so a request in
flight for the old sector must be impossible. `BusyIsALock` says a process
inside a call or holding a buffer is its only owner, `FreeIsClean` that nobody
left a dirty buffer behind, and `QueueSound` that whatever is queued is busy.
`QueueSound` in turn needs `CallState`, which says what each program counter
knows (the flags of `cur`, that `want` is its sector), and `SleepersQueued`,
that a process in `iderw`, asleep or woken by a kill, has its buffer in the queue
until the transfer is done. `Coherence` is
inductive relative to `Inv`: `ideintr` completes the request of the head of the
queue, and the controller holds that buffer's sector and data. For `PanicsExplained`,
a buffer that is dirty is busy (`FreeIsClean`) and one that is busy has an owner, so
when `bget` finds no buffer it can take, each has an owner. For the refinement, `MappingIs` says which process owns
a sector and what it sees in it; then each action takes, changes, releases or
commits a sector, or is not seen at all.

**Sched.** `CpuState` says, for each place the thread on a CPU can be at, which
locks the CPU holds, what `ncli` is and whether interrupts are off; this is what
makes the preconditions of `sched` and `release` true. `IntenaState` does the same
for `intena`, following the thread through `swtch`. `ProcState` ties a process's
state to its place, and `SleepState` says a sleeper still has ticks to wait for,
unless the handler that wakes it is on its way. A step of one CPU leaves all that
alone for the others (`LocalStep`), which reduces each action to the CPU that takes
it.

**Proc.** `ForkState` says what each place inside `fork` has made of the slot it
claimed, since the lock is dropped after `allocproc`'s search; `SlotState` that
sleepers are in `wait`, on their own channel, that a free slot has no parent, and
that init is there. `ParentAlive` and `WaiterHasWork` are shown together: `exit`
moves children to init and wakes the parents in one critical section.

**Lottery.** `DrawsHonest` is a statement about a count of numbers in one state, so
the work is in what the scan computes. `Visit` is one round of its loop, and
`PickScans` shows that the recursive function in `Pick` is a run of such rounds.
`Stands` is the loop's invariant: the tickets so far are the sum of the shares in
front (`Sold`), and nobody is chosen yet unless the number is below that. So the
numbers that choose a reserve process are an interval of the length of its share
(`PickReserved`), and those that choose a spot process are the interval above all
tickets (`PickSpot`). For the accounts `Shares` says that what is promised never
exceeds `totalpercent`, counting calls that have added their part and not yet tested
it, and `Bills` that a charge stays within `Cap`, which is why it is carried over in
time.

**MirrorFs.** `Inv` is about pointers: they are set for the three copies of a block
together, the inode on disk has no pointer that the one in memory lacks, covers the
file, and is up to date before the size is written. That gives `SizeCovered` for any
number of mishaps. `MirrorInv` is about contents. `OneOdd` says that there is one
block `g` and one copy `h` of it such that all other copies are on disk as in memory
and agree, as far as they can while a block is being written (`Agree`: they agree once
patched, and those on the same side of the copy that is written next agree now).
`Flags` says that a read that goes on has found differences with `h` only; it is
needed because the flags are kept from one block to the next, where the repair would
otherwise overwrite a good copy. `Bytes` says that copies that were not damaged have
a byte the file may have, and `Done` that the copies behind the one being written are
patched. A crash makes the copy `h` whichever one the write had not reached or, alone,
had reached; a repair changes no copy but `h`, unless the read was misled by what
follows the buffers, after which the two properties promise nothing.

**Pipe** and **Console.** `RingState` relates the wrapping counters to a distance
that never exceeds the size of the ring; `WriterState` and `ReaderState` say what
each place in a call knows (that the ring is not full, that a byte is there), and
`EndsCounted` and `Closing` when an end is still open, so that the page cannot be
freed under a call. The refinements read the ring as a sequence (`Span` in
`Lemmas`): putting at one end, taking from the other and erasing are `Append`,
`Tail` and a shorter prefix, also when a counter wraps.

**Server.** `Places` says where each connection is (at main, in a slot, at a
thread, closed), `CountMatches` that `buff_count` counts the filled slots, `Turns` that
connections take the lines of the ring in turn, and `Kept` that a line holds what
its connection sent until its next turn. `NobodyStuck` is part of the invariant: after each step either a waiting thread
has nothing to do or somebody who is awake will signal. That `get` takes the
smallest file (`SmallestIsFirst`) is an induction over the rounds of its loop
(`ScanIs`, `ChosenIs`).

**Vm.** `Balance` says that free pages, lost pages and what the slots hold add up
to the memory; `Local(p)` says of each slot how far `growproc`, `exec` or `copyuvm`
has come and what its tables map then; `Children` that
the slot a `fork` fills is an embryo, and that no two fill the same. A step changes one slot (`OneSlot`) or a parent and its
child (`TwoSlots`), and the sum over the slots changes by what these change
(`SumChange`). `Image` says that a tidy process maps exactly its heap and its stack,
from which `SpaceKept` follows: an address range that `argptr` or `fetchint` accepts
is mapped unless it wraps, starts in page 0 or ends above `USERTOP` (section 7), and a
panic has one of the explained causes. `FitLoads` shows that `loaduvm` finds its pages
for every segment that is not a misfit.

**Lemmas.** Remainders and wrapping counters, `Span`, sums over a function and over
the parts of a set, loops with a fixed number of rounds (`LoopRuns`), and `LeastNat`: a set of naturals that is not empty has a least member. The last one
stands in for induction, which the library states with an operator parameter
that the provers cannot instantiate; by it the loops of `get` and of
`scheduler` and the recursive definition of the sum (`SumIs`) are proved to be what they
should.

**Model-checked only**: liveness (`CallsReturn`, `SleepersWoken`, `ZombiesReaped`,
`TransfersEnd`, `KilledReaderLeaves` and the server's), because fairness and
`ENABLED` are out of the prover's reach; and the four invariants of `Files`. None of
these is inductive without the others: that the panics of `iput`, `create` and `unlink` cannot
happen rests on the tree, the tree on the link counts, and these on what each call has
in hand at each of its steps, failing calls and crashes included.

## 7. Findings and observations

One run ends in a counterexample to what the repository says of itself:
`mirror_copy3`. `readi` moves copy 1, 2 and 3 to the caller in turn and does not
move the repaired contents again, so a damaged copy 3 is returned
(`D/kernel/fs.c:532`).

Seen while modelling; the models contain them, and the properties say what holds
in spite of them:

- A read error leaves the buffer marked valid with its old contents
  (`D/kernel/ide.c:105`; `bread` in `bio.c:95` does not look). `Coherence` is for a
  disk without read errors.
- `bget` panics when every buffer is busy (`D/kernel/bio.c:92`). There are 10 buffers
  for 64 processes, and a read of a mirrored block holds three.
- `kill` compares pids and not states (`D/kernel/proc.c:397`): pid 0 finds an
  unused slot, and a failed fork leaves its pid behind. `killed` set there is
  found by the next process of that slot, since `allocproc` does not clear it.
- `consoleread` tests `killed` under `input.lock`, `kill` takes `ptable.lock`
  (`D/kernel/console.c:232-237`). A kill in between leaves the process asleep,
  although `kill` means to wake it (`D/kernel/proc.c:399`, "Wake process from
  sleep if necessary"); `KilledReaderLeaves` says it leaves with the next line.
- A killed writer returns from a full pipe without waking the readers
  (`D/kernel/pipe.c:83`). `SleepersBlocked` makes that exception for readers, when a
  process that had the writing end was killed.
- The repair of copy 3 writes through `bp2` (`D/kernel/fs.c:583`); the flags that
  say which copies differ are set once per call, not per block (`fs.c:496`);
  `strncmp` stops at a zero byte and gets the length of the whole request, so a read
  longer than a block compares what follows the buffers (`fs.c:534`, `Overrun`). A
  read of intact copies can fail that way, and when one copy is damaged the repair
  can pick the wrong one; `MajorityKept` and `MishapSurvived` say where.
- `mbmap` leaves the indirect block well below the size `writei` admits
  (`D/kernel/fs.c:404`, `fs.c:634`); `mirror` stays below that size.
- main overwrites a request line that a queued or a running request still points
  to, `buffer_sz + 2` connections later (`W/server.c:98`); `OwnRequest` makes that
  exception.
- `README.md:13` speaks of three scheduling policies of the server; the code has
  smallest-file-first only.
- `sys_reserve` counts a request before it tests the limit and takes nothing back,
  neither after a refusal nor at exit (`C/kernel/sysproc.c:66`): the limit is kept
  by refusing more and more. Two calls that overlap can pass it together. Of the
  numbers drawn, the one equal to the sum of the tickets chooses nobody.
- The spot market is not what the documents say of it. A spot process in front of
  the last runnable reserve process never runs, whatever it bids, although
  `C/kernel/proc.c:350` says "run spot process with highest bid"; of several highest
  bidders the first in the table takes every spot turn, although
  `C/user/tester.c:363-365` tests exactly that and says "Expect ~same number of times
  chosen"; and numbers are drawn from 0 to 199, where the comment at `proc.c:318`
  says 0-99. `DrawsHonest` promises no spot process a turn: only that no lower bidder
  gets one, and none out of a reservation.
- `sys_spot` takes any bid (`C/kernel/sysproc.c:80`); one of 100000 or more costs more
  per turn than `scheduler` carries over. `AccountsKept` is about smaller ones.
- `setupkvm` gives up its directory and tables when it runs out of memory
  (`B/kernel/vm.c:145`); `MemoryKept` counts them as lost.
- An image stops being what `sz` and `sz2` say in three ways (`Untidy`): `growproc`
  compares the heap with `USERTOP - 2*PGSIZE` and not with `sz2`
  (`B/kernel/proc.c:113`), so it may grow into the stack; `sbrk` of exactly `-sz`
  frees everything and reports a failure (`proc.c:118`); and `exec` sets `sz2`
  before it can still fail (`exec.c:60`). `fork`, `sbrk` or a page fault of such a
  process can stop the kernel with "remap" or "page not present". So does `exec`
  of a program that reaches into its own stack page.
- `exec` does not look at the alignment of a segment's address, nor whether the sum
  `sz + ph.va + ph.memsz` wraps, nor for page 0, which is never mapped
  (`B/kernel/exec.c:47`). `loaduvm` then panics (`B/kernel/vm.c:211`, `214`), or finds
  an empty page table entry and writes to physical page 0 (`Misfit`). `SpaceKept` says
  that nothing but this and the point above makes `vm.c` panic.
- `fetchint` (`B/kernel/syscall.c:20`) rejects only what lies between heap and stack:
  an int in page 0 or above `USERTOP` is accepted, and the kernel faults or reads its
  own memory. `argptr` (`syscall.c:67`) adds pointer and size in 32 bits and accepts a
  block whose end wraps. `SpaceKept` states these exceptions.
- A name entered in a directory that another process removed after the path was
  looked up goes with the directory, and its inode is never freed
  (`D/kernel/sysfile.c:129`, `220`). `mkdir` there also gives the removed directory
  a link, so that it stays too. `NothingLeaks` makes that exception.
- The inode cache has 50 slots; 100 open files and 64 working directories can refer
  to more inodes, and `iget` panics then (`D/kernel/fs.c:225`). `RefsCounted` says that
  it does so only when the slots are all in use.
- After a crash between `dirlink`'s write of an entry and that of the size
  (`D/kernel/fs.c:681`, `689`), the entry is found by name, but the directory counts as
  empty and the next `dirlink` may write over it. What had that name is lost;
  `TreeSound` holds all the same.
- An unlinked file that is open when the machine stops keeps its inode and blocks,
  as do inodes and blocks that were marked used and not yet entered; there is
  nothing that collects them. `TreeSound` is about what can be reached.

## 8. Not modelled

The share of the repository's lines that the models stand for is small, mainly
because the repository holds four copies of one kernel and each component is
modelled in one of them, and because a third of it is `usertests.c`, user
programs and tools, four times over. What the models do stand for is nearly
all of the kernel code that has shared state: `bio.c`, `ide.c`, `spinlock.c`,
`proc.c`, `pipe.c`, `console.c` (input), `file.c`, `fs.c`, `sysfile.c`, `vm.c`, `exec.c`.

Left out of modelled components: offsets and permissions of files, `sys_read`,
`sys_fstat`, the failure paths of `sys_pipe` and `pipealloc`, files of more than
one block outside `MirrorFs`, `.` and paths through `..` in `Files`; `itrunc` of
mirrored files; memory contents, and with them `fetchstr` and `argstr`, in `Vm`;
console output, `^P` and the scan codes of `kbd.c`; the older lottery scheduler of
tree A, `numofused`, `runningtime` and `sys_getpinfo`.

Left out for good: boot code, interrupt controllers and device registers, user
programs, tests and tools, the text of HTTP messages, `getcallerpcs` and
`procdump`. The shell `simple shell/mysh.c` is sequential; the one thing it shares
with its children is a pipe. It waits for the writer before the reader of the
pipeline is started (`mysh.c:232`), so a writer that fills the pipe never
ends. The four kernels differ in `proc.c`, `fs.c`, `vm.c`, `trap.c` and
`sysproc.c`; where they do, the models follow tree D, except `Lottery` (C) and
`Vm` (B), and the code of `Bcache`, `Console`, `Pipe` and of `Sched`'s
spinlocks is the same everywhere.
