--------------------------- MODULE MCKernelTimers ---------------------------
(* Model-checking instance of KernelTimers.                                  *)
EXTENDS KernelTimers, TLC

CONSTANTS t
=============================================================================
