------------------------------ MODULE MCLottery ------------------------------
(* TLC instance of Lottery. *)
EXTENDS Lottery
=============================================================================
