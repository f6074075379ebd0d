--------------------------- MODULE MCKernelQueues ---------------------------
(* Model-checking instance of KernelQueues.                                  *)
EXTENDS KernelQueues, TLC

CONSTANTS P, A, n1, n2

=============================================================================
