------------------------------ MODULE PageAlloc ------------------------------
(***************************************************************************)
(* The physical page allocator, src/src/pageAlloc.c: a stack of the free   *)
(* 4 KiB pages of the RAM the kernel manages.                              *)
(*                                                                         *)
(* This module holds the allocator's state and its operations.  The        *)
(* modules that call it (PageAllocClient, Kalloc, Vm) extend it and say    *)
(* when a call happens.                                                    *)
(*                                                                         *)
(* An address is counted in pages: the page at byte address a is the       *)
(* number a / PAGE_SIZE.  Every address this allocator handles is page     *)
(* aligned, so nothing is lost; NULL is 0, as in defs.h.                   *)
(***************************************************************************)
EXTENDS Integers, FiniteSets

CONSTANTS
  MaxPages,   \* MAX_ALLOCS of pageAlloc.c: the number of pages managed
  PRamStart   \* P_RAM_START / PAGE_SIZE, the first page managed

(* P_RAM_START is 0x40000000 and MAX_ALLOCS 16384: as a number, every page *)
(* address is above every index of the stack.                              *)
ASSUME PageAllocAssumption ==
  /\ MaxPages \in Nat \ {0}
  /\ PRamStart \in Nat
  /\ PRamStart >= MaxPages

VARIABLES
  pages,      \* stack.pages
  index,      \* stack.index, -1 when the stack is empty
  held,       \* history: the pages handed out and not given back
  panic       \* "none", or which assertion, panic or fault stopped the kernel

pageAllocVars == <<pages, index, held>>

NULL == 0

(* The pages managed: MAX_ALLOCS pages from P_RAM_START on.                *)
PPage == PRamStart .. PRamStart + MaxPages - 1

Cell == 0 .. MaxPages - 1

(* Mutant: the pointer is advanced before it is stored.                    *)
InitAdvancesFirst(taken) ==
  /\ pages = [i \in Cell |-> PRamStart + i + 1]
  /\ index = MaxPages - 1 - taken
  /\ held = PRamStart + MaxPages - taken .. PRamStart + MaxPages - 1

(* The state once `taken' pages have been allocated after                  *)
(* pageAlloc_init(): page i sits in cell i and the stack was full, so the  *)
(* pages taken are the topmost ones.                                       *)
pageAlloc_initThenTake(taken) ==
  /\ pages = [i \in Cell |-> PRamStart + i]
  /\ index = MaxPages - 1 - taken
  /\ held = PRamStart + MaxPages - taken .. PRamStart + MaxPages - 1

pageAlloc_init == pageAlloc_initThenTake(0)

(* Mutant: the index is decremented before the page is read.               *)
AllocDecrementsFirst ==
  /\ index # -1
  /\ index' = index - 1
  /\ held' = held \cup {pages[index - 1]}
  /\ UNCHANGED pages

(* pageAlloc_alloc() with a page left.                                     *)
pageAlloc_alloc ==
  /\ index # -1
  /\ index' = index - 1
  /\ held' = held \cup {pages[index]}
  /\ UNCHANGED pages

(* The page pageAlloc_alloc() returns.                                     *)
Top == pages[index]

(* Mutant: the stack counts as empty with one page left.                   *)
AllocFailsEarly ==
  /\ index = 0
  /\ panic' = "noFreePages"
  /\ UNCHANGED pageAllocVars

(* pageAlloc_alloc() on an empty stack: its assertion halts the kernel.    *)
pageAlloc_allocFails ==
  /\ index = -1
  /\ panic' = "noFreePages"
  /\ UNCHANGED pageAllocVars

(* Mutant: the page is not stored.                                         *)
FreeStoresNothing(ptr) ==
  /\ index' = index + 1
  /\ held' = held \ {ptr}
  /\ UNCHANGED <<pages, panic>>

(* pageAlloc_free(ptr) writes the cell before it checks the index.  When   *)
(* the stack is full the write goes to pages[MAX_ALLOCS], which in struct  *)
(* FreePagesStack is `index' itself: undefined behaviour, after which the  *)
(* assertion reads either the incremented index or ptr.                    *)
pageAlloc_free(ptr) ==
  /\ index' \in IF index + 1 < MaxPages THEN {index + 1} ELSE {index + 1, ptr}
  /\ pages' = [pages EXCEPT ![index + 1] = ptr]
  /\ held' = held \ {ptr}
  /\ panic' = IF index' < MaxPages THEN panic ELSE "overFreed"

-----------------------------------------------------------------------------

(* The pages on the free stack.                                            *)
FreePages == {pages[i] : i \in 0 .. index}

PageAllocTypeOK ==
  /\ pages \in [Cell -> PPage]
  /\ index \in -1 .. MaxPages - 1
  /\ held \subseteq PPage

(* No page is on the free stack twice, ...                                 *)
NoDuplicates ==
  \A i, j \in 0 .. index : pages[i] = pages[j] => i = j

(* ... and a managed page is either free or handed out, never both and     *)
(* never neither.                                                          *)
Partition ==
  \A p \in PPage : p \in held <=> p \notin FreePages

(* The stack is exactly as deep as there are pages not handed out.         *)
Counted ==
  /\ IsFiniteSet(held)
  /\ Cardinality(held) + index + 1 = MaxPages

PoolInv == PageAllocTypeOK /\ NoDuplicates /\ Partition /\ Counted
=============================================================================
