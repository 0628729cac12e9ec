------------------------------- MODULE Lottery -------------------------------
(***************************************************************************)
(* The lottery and spot-market scheduler of "simple shell/xv6": processes  *)
(* reserve a share of the CPU (sys_reserve) or bid for what is left        *)
(* (sys_spot); scheduler of kernel/proc.c draws a number and walks the     *)
(* process table.                                                          *)
(*                                                                         *)
(* The draw is a critical section of ptable.lock; a process that stops     *)
(* running hands the lock back to the scheduler loop that charges it, so   *)
(* that is one step too.  sys_reserve takes no lock: its read, its write   *)
(* and its test of totalpercent are separate steps.  The number drawn,     *)
(* random() % 200, is any number below Full.                               *)
(***************************************************************************)
EXTENDS Ptable, FiniteSets, Functions

CONSTANTS
  Schedulers,  \* the loops of scheduler, one per CPU
  Full,        \* 200: the numbers that are drawn, and the limit of totalpercent
  Percents,    \* the legal arguments of sys_reserve, 0..100
  Bids,        \* the arguments of sys_spot: any int
  Scale,       \* 100: a spot turn costs the bid divided by it
  Fee,         \* 10: what a turn costs with a reservation
  Cap,         \* 1000: a charge above it is carried over to tcharge
  MaxTotal,    \* bound on totalpercent
  MaxBill,     \* bound on what all turns together cost
  NoProc

ASSUME RangeAssumption == Full \in Nat \ {0} /\ MaxTotal \in Nat /\ MaxBill \in Nat
ASSUME PercentsAssumption == Percents \subseteq Nat
ASSUME BidsAssumption == Bids \subseteq Int
ASSUME CapAssumption == Cap \in Nat \ {0} /\ Fee \in Nat /\ Scale \in Nat \ {0}
ASSUME NoProcAssumption == NoProc \notin 1..NPROC

VARIABLES
  rpercent, spotbid, charge, tcharge,  \* struct proc
  totalpercent,
  run,     \* per CPU: the process it runs, and in which branch it was chosen
  np,      \* per process: the slot its fork is filling, or 0
  rpc, n, t,    \* per process: where it is in sys_reserve, its n, the total it read
  raced,   \* history: two calls of sys_reserve have overlapped
  due      \* history: what the turns of a slot have cost

market == <<rpercent, spotbid>>
bill == <<charge, tcharge, due>>
reserve == <<totalpercent, rpc, n, t, raced>>
lotteryvars == <<state, market, bill, run, np, reserve>>

\* The table is static, so zero; userinit makes slot 1 the first process.
LotteryInit ==
  /\ state = [p \in Slots |-> IF p = 1 THEN "RUNNABLE" ELSE "UNUSED"]
  /\ rpercent = [p \in Slots |-> 0] /\ spotbid = [p \in Slots |-> 0]
  /\ charge = [p \in Slots |-> 0] /\ tcharge = [p \in Slots |-> 0]
  /\ due = [p \in Slots |-> 0]
  /\ totalpercent = 0
  /\ run = [c \in Schedulers |-> NoProc] /\ np = [p \in Slots |-> 0]
  /\ rpc = [p \in Slots |-> "user"] /\ n = [p \in Slots |-> 0] /\ t = [p \in Slots |-> 0]
  /\ raced = FALSE

-----------------------------------------------------------------------------
(* scheduler *)

Reserved == {p \in Slots : state[p] = "RUNNABLE" /\ rpercent[p] > 0}
Spots == {p \in Slots : state[p] = "RUNNABLE" /\ rpercent[p] = 0}

\* the first scan's highest bid, which starts at 0
higherbid == CHOOSE b \in {0} \cup {spotbid[p] : p \in Spots} :
               \A p \in Spots : spotbid[p] <= b

\* Faulty: the ticket next to the number wins as well.
Wins_Late(ticket, rand) == ticket >= rand
Wins(ticket, rand) == ticket > rand

\* The second scan after slot i: reserve processes still to come, tickets so
\* far, and the process that was chosen.
Pick(rand) ==
  LET scan[i \in 0..NPROC] ==
        IF i = 0 THEN [numofrp |-> Cardinality(Reserved), ticket |-> 0, pick |-> NoProc]
        ELSE LET s == scan[i-1]
                 ticket == s.ticket + rpercent[i]
             IN  IF s.pick # NoProc \/ state[i] # "RUNNABLE" THEN s
                 ELSE IF rpercent[i] > 0
                 THEN [numofrp |-> s.numofrp - 1, ticket |-> ticket,
                       pick |-> IF Wins(ticket, rand) THEN i ELSE NoProc]
                 ELSE IF /\ s.numofrp = 0 /\ Spots # {} /\ s.ticket < rand
                         /\ spotbid[i] = higherbid
                 THEN [s EXCEPT !.pick = i]
                 ELSE s
  IN  scan[NPROC].pick

\* one round of the scheduler loop; with no process chosen nothing changes
Draw(c, rand) ==
  /\ run[c] = NoProc
  /\ \E p \in {Pick(rand)} \ {NoProc} :
       /\ state' = [state EXCEPT ![p] = "RUNNING"]
       /\ run' = [run EXCEPT ![c] = [proc |-> p, share |-> rpercent[p] > 0]]
  /\ UNCHANGED <<market, bill, np, reserve>>

\* charge % 1000
Carried(x) == x % Cap

\* spotbid / 100: C's division drops the fraction, of a negative bid too
Cost(b) == IF b >= 0 THEN b \div Scale ELSE -((-b) \div Scale)

\* back in the scheduler: the process is charged, at the bid it has now
Stop(c, st) ==
  /\ run[c] # NoProc
  /\ LET p == run[c].proc
         fee == IF run[c].share THEN Fee ELSE Cost(spotbid[p])
         x == charge[p] + fee
     IN  /\ SumFunction(due) + fee <= MaxBill
         /\ rpc[p] # "user" \/ np[p] # 0 => st = "RUNNABLE"
         /\ st = "ZOMBIE" => p # 1
         /\ state' = [state EXCEPT ![p] = st]
         /\ due' = [due EXCEPT ![p] = @ + fee]
         /\ tcharge' = [tcharge EXCEPT ![p] = IF x > Cap THEN @ + 1 ELSE @]
         /\ charge' = [charge EXCEPT ![p] = IF x > Cap THEN Carried(x) ELSE x]
  /\ run' = [run EXCEPT ![c] = NoProc]
  /\ UNCHANGED <<market, np, reserve>>

-----------------------------------------------------------------------------
(* what processes do *)

Running(p) == state[p] = "RUNNING"
InUser(p) == Running(p) /\ rpc[p] = "user" /\ np[p] = 0

\* fork claims the first UNUSED slot, whose rpercent, spotbid and charges stay
ForkClaim(p) ==
  /\ InUser(p)
  /\ \E s \in Slots : /\ state[s] = "UNUSED" /\ \A r \in 1..s-1 : state[r] # "UNUSED"
                      /\ state' = [state EXCEPT ![s] = "EMBRYO"]
                      /\ np' = [np EXCEPT ![p] = s]
  /\ UNCHANGED <<market, bill, run, reserve>>

\* the copy is made (RUNNABLE), or there is no memory for it (UNUSED)
ForkEnd(p, st) ==
  /\ Running(p) /\ np[p] # 0
  /\ state' = [state EXCEPT ![np[p]] = st]
  /\ np' = [np EXCEPT ![p] = 0]
  /\ UNCHANGED <<market, bill, run, reserve>>

\* wait frees a zombie (whose parent is who is not told apart here)
wait(p) ==
  /\ InUser(p)
  /\ \E z \in Slots : state[z] = "ZOMBIE" /\ state' = [state EXCEPT ![z] = "UNUSED"]
  /\ UNCHANGED <<market, bill, run, np, reserve>>

wake(p) ==
  /\ state[p] = "SLEEPING"
  /\ state' = [state EXCEPT ![p] = "RUNNABLE"]
  /\ UNCHANGED <<market, bill, run, np, reserve>>

sys_spot(p, b) ==
  /\ InUser(p)
  /\ rpercent' = [rpercent EXCEPT ![p] = 0]
  /\ spotbid' = [spotbid EXCEPT ![p] = b]
  /\ UNCHANGED <<state, bill, run, np, reserve>>

\* sys_reserve reads totalpercent
ReserveLoad(p, k) ==
  /\ InUser(p)
  /\ totalpercent + k <= MaxTotal
  /\ n' = [n EXCEPT ![p] = k] /\ t' = [t EXCEPT ![p] = totalpercent]
  /\ rpc' = [rpc EXCEPT ![p] = "store"]
  /\ raced' = (raced \/ \E q \in Slots : rpc[q] # "user")
  /\ UNCHANGED <<state, market, bill, run, np, totalpercent>>

\* totalpercent = n + totalpercent
ReserveStore(p) ==
  /\ Running(p) /\ rpc[p] = "store"
  /\ totalpercent' = t[p] + n[p]
  /\ rpc' = [rpc EXCEPT ![p] = "test"]
  /\ UNCHANGED <<state, market, bill, run, np, n, t, raced>>

\* Faulty: looks at the total before the addition.
Allowed_Before(p, total) == t[p] <= Full
Allowed(p, total) == total <= Full

\* the test, of the variable or of the value still in a register
ReserveTest(p) ==
  /\ Running(p) /\ rpc[p] = "test"
  /\ \E total \in {totalpercent, t[p] + n[p]} :
       IF Allowed(p, total)
         THEN /\ rpercent' = [rpercent EXCEPT ![p] = n[p]]
              /\ spotbid' = [spotbid EXCEPT ![p] = 0]
         ELSE UNCHANGED market
  /\ rpc' = [rpc EXCEPT ![p] = "user"]
  /\ n' = [n EXCEPT ![p] = 0] /\ t' = [t EXCEPT ![p] = 0]
  /\ UNCHANGED <<state, bill, run, np, totalpercent, raced>>

-----------------------------------------------------------------------------
LotteryNext ==
  \/ \E c \in Schedulers : \E rand \in 0..Full-1 : Draw(c, rand)
  \/ \E c \in Schedulers : \E st \in {"RUNNABLE", "SLEEPING", "ZOMBIE"} : Stop(c, st)
  \/ \E p \in Slots : ForkClaim(p) \/ wait(p) \/ wake(p)
  \/ \E p \in Slots : \E st \in {"RUNNABLE", "UNUSED"} : ForkEnd(p, st)
  \/ \E p \in Slots : \E b \in Bids : sys_spot(p, b)
  \/ \E p \in Slots : \E k \in Percents : ReserveLoad(p, k)
  \/ \E p \in Slots : ReserveStore(p) \/ ReserveTest(p)

LotterySpec == LotteryInit /\ [][LotteryNext]_lotteryvars
-----------------------------------------------------------------------------
(* Properties *)

LotteryTypeOK ==
  /\ state \in [Slots -> {"UNUSED", "EMBRYO", "RUNNABLE", "RUNNING", "SLEEPING", "ZOMBIE"}]
  /\ rpercent \in [Slots -> Percents \cup {0}] /\ spotbid \in [Slots -> Bids \cup {0}]
  /\ charge \in [Slots -> Int] /\ tcharge \in [Slots -> Nat] /\ due \in [Slots -> Int]
  /\ totalpercent \in 0..MaxTotal
  /\ run \in [Schedulers -> [proc : Slots, share : BOOLEAN] \cup {NoProc}]
  /\ np \in [Slots -> Slots \cup {0}]
  /\ rpc \in [Slots -> {"user", "store", "test"}]
  /\ n \in [Slots -> Nat] /\ t \in [Slots -> Nat] /\ raced \in BOOLEAN

Tickets == SumFunctionOnSet(rpercent, Reserved)
Picks == [rand \in 0..Full-1 |-> Pick(rand)]
Draws(picks, p) == Cardinality({rand \in 0..Full-1 : picks[rand] = p})

\* those whose bid nobody beats
TopBidders == {p \in Spots : \A q \in Spots : spotbid[q] <= spotbid[p]}

\* Of the numbers that can be drawn, exactly rpercent choose a reserve process,
\* whoever else is runnable; and a spot process is chosen only if no runnable
\* one bids more, and only by a number that is not part of a reservation.
DrawsHonest ==
  LET picks == Picks IN
  /\ Tickets <= Full => \A p \in Reserved : Draws(picks, p) = rpercent[p]
  /\ \A rand \in 0..Full-1 : picks[rand] \notin Reserved \cup {NoProc} =>
       picks[rand] \in TopBidders /\ rand >= Tickets

\* Reservations are kept within the limit although exited processes leave theirs
\* in the slot for the next one, as long as no two calls of sys_reserve overlap.
NoOvercommit == raced \/ SumFunction(rpercent) <= Full

\* What a slot was charged is what its turns cost: nothing is lost when a charge
\* is carried over, as long as no turn costs Cap or more (sys_spot takes any bid;
\* at Cap * Scale or above, tcharge gains 1 for a turn worth more).
BillKept == \A p \in Slots : tcharge[p] * Cap + charge[p] = due[p]

\* Types and the two accounts: shares promised, and money charged.
AccountsKept == LotteryTypeOK /\ NoOvercommit /\ BillKept
=============================================================================
