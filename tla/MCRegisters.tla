----------------------------- MODULE MCRegisters -----------------------------
(* Registers has no constants.  The stacks are deep enough for a system call *)
(* that is interrupted in its handler.                                       *)
EXTENDS Registers
=============================================================================
