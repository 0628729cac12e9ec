------------------------------ MODULE Terminal ------------------------------
(***************************************************************************)
(* What the console promises its readers: a line can be edited until it is *)
(* committed; a committed character comes out once and in order; and every *)
(* end-of-file mark makes one read return nothing.                         *)
(***************************************************************************)
EXTENDS Naturals, Sequences

CONSTANTS Char, Eol, Eof,    \* Eol and Eof are two of the characters
          Size

VARIABLES ready,  \* committed and not yet read
          line,   \* typed and not yet committed
          got     \* what a reader got last

vars == <<ready, line, got>>

Init == ready = <<>> /\ line = <<>> /\ got = Eof

\* Eol, Eof or a full buffer commit the line
Type(c) ==
  LET new == Append(line, c)
      full == Len(ready) + Len(new) = Size
  IN  /\ Len(ready) + Len(line) < Size
      /\ IF c \in {Eol, Eof} \/ full
           THEN ready' = ready \o new /\ line' = <<>>
           ELSE ready' = ready /\ line' = new
      /\ UNCHANGED got

\* the end of the line is taken back, a committed character never
Erase ==
  /\ \E k \in 0..Len(line) : line' = SubSeq(line, 1, k)
  /\ UNCHANGED <<ready, got>>

Take ==
  /\ ready # <<>>
  /\ got' = Head(ready) /\ ready' = Tail(ready)
  /\ UNCHANGED line

Next == (\E c \in Char : Type(c)) \/ Erase \/ Take

Spec == Init /\ [][Next]_vars
=============================================================================
