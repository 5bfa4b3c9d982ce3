---------------------------- MODULE MCVMInterrupts ----------------------------
(***************************************************************************)
(* A small machine for VMInterrupts: the timer's interrupt and one of      *)
(* lower priority that the host requests.                                  *)
(***************************************************************************)
EXTENDS VMInterrupts

MCHostIrqs == {NumIrqs - 1}
===============================================================================
