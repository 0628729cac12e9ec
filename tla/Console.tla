------------------------------- MODULE Console -------------------------------
(***************************************************************************)
(* kernel/console.c: the ring of typed characters between consoleintr, the *)
(* keyboard's interrupt handler, and the processes in consoleread, which   *)
(* may be killed while they wait.  input.lock is a variable, for kill does *)
(* not take it: a process between its look at proc->killed and its sleep   *)
(* holds the lock and can be killed.  sleep and wakeup are atomic, as      *)
(* module Sched shows them to be.                                          *)
(*                                                                         *)
(* Echo (consputc), ^P and the inode lock, which consoleread gives up while*)
(* it waits, are left out.                                                 *)
(***************************************************************************)
EXTENDS Integers, FiniteSets

CONSTANTS
  Readers,     \* processes that read the console
  INPUT_BUF,
  W,           \* r, w and e are unsigned ints modulo W
  Text,        \* ordinary characters
  Reqs,        \* the arguments n of consoleread
  None

ASSUME SizeAssumption == INPUT_BUF \in Nat \ {0}
ASSUME WAssumption == W \in Nat /\ W % INPUT_BUF = 0 /\ W > INPUT_BUF
ASSUME ReqsAssumption == Reqs \subseteq Nat \ {0}
ASSUME NoneAssumption == None \notin Readers

VARIABLES
  buf, r, w, e,  \* struct input
  lock,          \* the reader that holds input.lock
  pc,            \* where each process is
  n, target,     \* the variables of consoleread
  killed,
  got            \* the last character a reader was given; ^D: it was told end of file

input == <<buf, r, w, e>>
vars == <<input, lock, pc, n, target, killed, got>>

NL == "\n"
EOT == "^D"
Chars == Text \cup {NL, EOT}
Cells == 0..INPUT_BUF-1
PCs == {"idle", "acq", "loop", "doze", "sleep"}

Init ==
  /\ buf = [k \in Cells |-> NL]
  /\ r = 0 /\ w = 0 /\ e = 0
  /\ lock = None
  /\ pc = [p \in Readers |-> "idle"]
  /\ n = [p \in Readers |-> 0] /\ target = [p \in Readers |-> 0]
  /\ killed = [p \in Readers |-> FALSE]
  /\ got = EOT

Go(p, b) == pc' = [pc EXCEPT ![p] = b]

\* unsigned subtraction
Minus(a, b) == (a - b) % W
Cell(i) == i % INPUT_BUF

-----------------------------------------------------------------------------
(* consoleintr; a reader that holds the lock keeps the handler out *)

\* Faulty: nobody is woken.
Woken_Not == pc

\* wakeup(&input.r)
Woken == [p \in Readers |-> IF pc[p] = "sleep" THEN "acq" ELSE pc[p]]

Room == Minus(e, r) < INPUT_BUF

\* Faulty: a full ring is not handed over.
Commits_LineOnly(c) == c \in {NL, EOT}
Commits(c) == c \in {NL, EOT} \/ (e + 1) % W = (r + INPUT_BUF) % W

Typed(c) ==
  /\ lock = None
  /\ Room
  /\ buf' = [buf EXCEPT ![Cell(e)] = c]
  /\ e' = (e + 1) % W
  /\ IF Commits(c) THEN w' = e' /\ pc' = Woken ELSE UNCHANGED <<w, pc>>
  /\ UNCHANGED <<r, lock, n, target, killed, got>>

Backspace ==
  /\ lock = None
  /\ e # w
  /\ e' = Minus(e, 1)
  /\ UNCHANGED <<buf, r, w, lock, pc, n, target, killed, got>>

\* ^U: back to w, or to a newline
KillLine ==
  /\ lock = None
  /\ e # w
  /\ \E k \in 0..Minus(e, w) :
       /\ \A j \in 0..k-1 : buf[Cell(Minus(e, j + 1))] # NL
       /\ k = Minus(e, w) \/ buf[Cell(Minus(e, k + 1))] = NL
       /\ e' = Minus(e, k)
  /\ UNCHANGED <<buf, r, w, lock, pc, n, target, killed, got>>

-----------------------------------------------------------------------------
(* consoleread *)

ReadCall(p, k) ==
  /\ pc[p] = "idle" /\ ~killed[p]
  /\ n' = [n EXCEPT ![p] = k] /\ target' = [target EXCEPT ![p] = k]
  /\ Go(p, "acq")
  /\ UNCHANGED <<input, lock, killed, got>>

\* acquire(&input.lock), at the start or at the end of sleep
Acquire(p) ==
  /\ pc[p] = "acq" /\ lock = None
  /\ lock' = p
  /\ Go(p, "loop")
  /\ UNCHANGED <<input, n, target, killed, got>>

\* release(&input.lock); return
Leave(p) ==
  /\ lock' = None
  /\ Go(p, "idle")
  /\ n' = [n EXCEPT ![p] = 0] /\ target' = [target EXCEPT ![p] = 0]

Empty == r = w

ReadKilled(p) ==
  /\ pc[p] = "loop" /\ n[p] > 0 /\ Empty /\ killed[p]
  /\ Leave(p)
  /\ UNCHANGED <<input, killed, got>>

\* proc->killed was not set; from here on the process will sleep
ReadBlock(p) ==
  /\ pc[p] = "loop" /\ n[p] > 0 /\ Empty /\ ~killed[p]
  /\ Go(p, "doze")
  /\ UNCHANGED <<input, lock, n, target, killed, got>>

\* sleep(&input.r, &input.lock)
Sleep(p) ==
  /\ pc[p] = "doze"
  /\ lock' = None
  /\ Go(p, "sleep")
  /\ UNCHANGED <<input, n, target, killed, got>>

ReadChar(p) ==
  /\ pc[p] = "loop" /\ n[p] > 0 /\ ~Empty
  /\ buf[Cell(r)] \notin {NL, EOT}
  /\ got' = buf[Cell(r)]
  /\ r' = (r + 1) % W
  /\ n' = [n EXCEPT ![p] = @ - 1]
  /\ UNCHANGED <<buf, w, e, lock, pc, target, killed>>

\* a newline ends the read
ReadLine(p) ==
  /\ pc[p] = "loop" /\ n[p] > 0 /\ ~Empty
  /\ buf[Cell(r)] = NL
  /\ got' = NL
  /\ r' = (r + 1) % W
  /\ Leave(p)
  /\ UNCHANGED <<buf, w, e, killed>>

\* Faulty: ^D is dropped also when something was read before it.
Kept_Not(p) == FALSE

\* "Save ^D for next time"
Kept(p) == n[p] < target[p]

\* ^D ends the read, which returns 0 if it comes first
ReadEof(p) ==
  /\ pc[p] = "loop" /\ n[p] > 0 /\ ~Empty
  /\ buf[Cell(r)] = EOT
  /\ r' = IF Kept(p) THEN r ELSE (r + 1) % W
  /\ got' = IF n[p] = target[p] THEN EOT ELSE got
  /\ Leave(p)
  /\ UNCHANGED <<buf, w, e, killed>>

\* n bytes have been read
ReadFull(p) ==
  /\ pc[p] = "loop" /\ n[p] = 0
  /\ Leave(p)
  /\ UNCHANGED <<input, killed, got>>

\* kill of proc.c, under ptable.lock
kill(p) ==
  /\ ~killed[p]
  /\ killed' = [killed EXCEPT ![p] = TRUE]
  /\ Go(p, IF pc[p] = "sleep" THEN "acq" ELSE pc[p])
  /\ UNCHANGED <<input, lock, n, target, got>>

\* a killed process leaves the kernel by exit; another one takes its place
Replaced(p) ==
  /\ pc[p] = "idle" /\ killed[p]
  /\ killed' = [killed EXCEPT ![p] = FALSE]
  /\ UNCHANGED <<input, lock, pc, n, target, got>>

-----------------------------------------------------------------------------
InCall(p) == \/ Acquire(p) \/ ReadKilled(p) \/ ReadBlock(p) \/ Sleep(p)
             \/ ReadChar(p) \/ ReadLine(p) \/ ReadEof(p) \/ ReadFull(p)

Keyboard == (\E c \in Chars : Typed(c)) \/ Backspace \/ KillLine

Next == \/ \E p \in Readers : InCall(p)
        \/ \E p \in Readers : \E k \in Reqs : ReadCall(p, k)
        \/ \E p \in Readers : kill(p) \/ Replaced(p)
        \/ Keyboard

Spec == Init /\ [][Next]_vars

\* A process in the kernel goes on and gets a lock that is free again and again;
\* somebody keeps typing newlines, as long as the ring takes them.
Fairness == /\ \A p \in Readers : SF_vars(InCall(p))
            /\ SF_vars(Typed(NL))

LiveSpec == Spec /\ Fairness
-----------------------------------------------------------------------------
(* Properties *)

TypeOK ==
  /\ buf \in [Cells -> Chars]
  /\ r \in 0..W-1 /\ w \in 0..W-1 /\ e \in 0..W-1
  /\ lock \in Readers \cup {None}
  /\ pc \in [Readers -> PCs]
  /\ n \in [Readers -> Nat] /\ target \in [Readers -> Nat]
  /\ killed \in [Readers -> BOOLEAN]
  /\ got \in Chars

\* Nobody sleeps beside input, and nobody is kept waiting by a ring that is full:
\* a full ring has been handed over, without a newline too.
ReadersAwake ==
  /\ TypeOK
  /\ lock = None /\ (\E p \in Readers : pc[p] = "sleep") => Empty
  /\ Minus(e, r) = INPUT_BUF => w = e

\* the characters in the ring from index i to index j
Between(i, j) == [k \in 1..Minus(j, i) |-> buf[Cell(i + k - 1)]]

Promise == INSTANCE Terminal WITH Char <- Chars, Eol <- NL, Eof <- EOT, Size <- INPUT_BUF,
                                  ready <- Between(r, w), line <- Between(w, e)

\* The ring with its three wrapping indices is an editable line and a queue of
\* committed characters: nothing is lost, read twice or erased once committed,
\* and of a ^D that two reads meet only one is told.
ImplementsTerminal == Promise!Spec

\* A killed reader leaves: if not at once, because it was killed between its look
\* at proc->killed and its sleep, then with the next line that is typed.
KilledReaderLeaves == \A p \in Readers : killed[p] ~> pc[p] = "idle"
=============================================================================
