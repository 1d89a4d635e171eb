--------------------------- MODULE PageAllocClient ---------------------------
(***************************************************************************)
(* The page allocator driven by callers that keep the contract of          *)
(* pageAlloc.h: they free only pages they were given.                      *)
(***************************************************************************)
EXTENDS PageAlloc

clientVars == <<pages, index, held, panic>>

Init ==
  /\ pageAlloc_init
  /\ panic = "none"

Alloc ==
  /\ panic = "none"
  /\ pageAlloc_alloc
  /\ UNCHANGED panic

AllocFails ==
  /\ panic = "none"
  /\ pageAlloc_allocFails

Free(p) ==
  /\ panic = "none"
  /\ p \in held
  /\ pageAlloc_free(p)

(* halt(): the kernel spins for ever.                                      *)
Halted ==
  /\ panic # "none"
  /\ UNCHANGED clientVars

Next ==
  \/ Alloc
  \/ AllocFails
  \/ \E p \in PPage : Free(p)
  \/ Halted

Spec == Init /\ [][Next]_clientVars

-----------------------------------------------------------------------------

TypeOK ==
  /\ PageAllocTypeOK
  /\ panic \in {"none", "noFreePages", "overFreed"}

(* A page handed out is never also on the free stack, so no second caller  *)
(* of pageAlloc_alloc() can be given it, and a page given back is there    *)
(* for the next caller.                                                    *)
OneOwner == NoDuplicates /\ Partition

(* Callers that free what they were given never reach the write past the   *)
(* end of the stack in pageAlloc_free, and the kernel gives up only when   *)
(* every page really is in use.                                            *)
PanicsOnlyWhenExhausted ==
  panic # "none" => panic = "noFreePages" /\ held = PPage

(* The stack implements the pool.                                          *)
Pool == INSTANCE PagePool WITH Page <- PPage, free <- FreePages, taken <- held

ImplementsPool == Pool!Spec
=============================================================================
