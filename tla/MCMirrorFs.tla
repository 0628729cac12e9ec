----------------------------- MODULE MCMirrorFs -----------------------------
(* TLC instances of MirrorFs. *)
EXTENDS MirrorFs
=============================================================================
