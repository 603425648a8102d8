------------------------------- MODULE MCPipe --------------------------------
(* Two readers on a pipe of two slots, and enough characters for the slots  *)
(* to be reused twice.                                                      *)
EXTENDS Pipe
=============================================================================
