------------------------------- MODULE MCPipe -------------------------------
(* TLC instance of Pipe. *)
EXTENDS Pipe, TLC

CONSTANTS p1, p2, p3, b1, b2

\* a writer and two readers
TwoReaders == p1 :> {"w"} @@ p2 :> {"r"} @@ p3 :> {"r"}
=============================================================================
