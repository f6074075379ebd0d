------------------------- MODULE MCKernelInterface --------------------------
(* Model-checking instance of KernelInterface.                               *)
EXTENDS KernelInterface

CONSTANTS k1, k2, a1, a2, t1, t2, o1, o2
=============================================================================
