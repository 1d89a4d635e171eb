----------------------------- MODULE MCPageAlloc -----------------------------
(* Four pages; the stack cells keep what they last held, as in the code,   *)
(* so every order of frees is a state of its own.                          *)
EXTENDS PageAllocClient
=============================================================================
