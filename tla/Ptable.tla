-------------------------------- MODULE Ptable --------------------------------
(***************************************************************************)
(* The process table of kernel/proc.c as far as the modules about it, which *)
(* each model other fields of struct proc, have it in common.              *)
(***************************************************************************)
EXTENDS Integers

CONSTANT NPROC   \* slots 1..NPROC of ptable.proc

ASSUME NPROCAssumption == NPROC \in Nat \ {0}

Slots == 1..NPROC

VARIABLE state   \* proc->state of each slot
===============================================================================
