----------------------------- MODULE MCToolchain -----------------------------
(* Model-checking instance of Toolchain.  The constants are in the cfgs.     *)
EXTENDS Toolchain
=============================================================================
