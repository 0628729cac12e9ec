--------------------------------- MODULE Fifo ---------------------------------
(***************************************************************************)
(* What a pipe promises: a bounded queue of bytes with two ends.  A byte   *)
(* comes out once and in the order it went in, and end of file is only     *)
(* reported after the write end is closed and every byte has been read.    *)
(***************************************************************************)
EXTENDS Naturals, Sequences

CONSTANTS Byte, Size, EOF

VARIABLES q, ropen, wopen,
          got    \* what a reader got last

vars == <<q, ropen, wopen, got>>

Init == q = <<>> /\ ropen = TRUE /\ wopen = TRUE /\ got = EOF

Put == /\ wopen /\ Len(q) < Size
       /\ \E b \in Byte : q' = Append(q, b)
       /\ UNCHANGED <<ropen, wopen, got>>

Get == /\ ropen /\ q # <<>>
       /\ got' = Head(q) /\ q' = Tail(q)
       /\ UNCHANGED <<ropen, wopen>>

ReadEOF == /\ ropen /\ ~wopen /\ q = <<>>
           /\ got' = EOF
           /\ UNCHANGED <<q, ropen, wopen>>

CloseRead == ropen /\ ropen' = FALSE /\ UNCHANGED <<q, wopen, got>>
CloseWrite == wopen /\ wopen' = FALSE /\ UNCHANGED <<q, ropen, got>>

Next == Put \/ Get \/ ReadEOF \/ CloseRead \/ CloseWrite

Spec == Init /\ [][Next]_vars
=============================================================================
