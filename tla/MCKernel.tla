------------------------------ MODULE MCKernel ------------------------------
(* The timer, and one other device whose line is always asserted.          *)
EXTENDS Kernel
=============================================================================
