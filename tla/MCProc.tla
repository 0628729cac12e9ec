------------------------------- MODULE MCProc -------------------------------
(* TLC instance of Proc. *)
EXTENDS Proc
=============================================================================
