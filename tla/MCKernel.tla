------------------------------ MODULE MCKernel -------------------------------
(* Model-checking instance of Kernel.  The constants are in the cfg files.   *)
EXTENDS Kernel
=============================================================================
