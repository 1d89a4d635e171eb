--------------------------- MODULE PageAllocProofs ---------------------------
(***************************************************************************)
(* Lemmas about the operations of the page allocator, for every number of  *)
(* pages.  They are cited by the proofs of the modules that call it.       *)
(***************************************************************************)
EXTENDS PageAlloc, FiniteSetTheorems, TLAPS

(* pageAlloc_init(), followed by any number of allocations that fits,      *)
(* leaves a sound stack.                                                   *)
LEMMA InitThenTakePool ==
  ASSUME NEW taken \in 0 .. MaxPages, pageAlloc_initThenTake(taken)
  PROVE  PoolInv
<1> USE PageAllocAssumption
<1>1. PageAllocTypeOK
  BY DEF pageAlloc_initThenTake, PageAllocTypeOK, PPage, Cell
<1>2. NoDuplicates
  BY DEF pageAlloc_initThenTake, NoDuplicates, Cell
<1>3. Partition
  <2> SUFFICES ASSUME NEW p \in PPage
               PROVE  p \in held <=> p \notin FreePages
    BY DEF Partition
  <2>1. \A i \in 0 .. index : pages[i] = PRamStart + i
    BY DEF pageAlloc_initThenTake, Cell
  <2>2. ASSUME p \notin held
        PROVE  p \in FreePages
    <3>1. p - PRamStart \in 0 .. index
      BY <2>2 DEF pageAlloc_initThenTake, PPage
    <3>2. pages[p - PRamStart] = p
      BY <2>1, <3>1 DEF PPage
    <3> QED
      BY <3>1, <3>2 DEF FreePages
  <2>3. ASSUME p \in FreePages
        PROVE  p \notin held
    <3>1. PICK i \in 0 .. index : p = pages[i]
      BY <2>3 DEF FreePages
    <3> QED
      BY <2>1, <3>1 DEF pageAlloc_initThenTake
  <2> QED
    BY <2>2, <2>3
<1>4. Counted
  <2>1. /\ IsFiniteSet(held)
        /\ Cardinality(held) =
             IF PRamStart + MaxPages - taken > PRamStart + MaxPages - 1 THEN 0
             ELSE PRamStart + MaxPages - 1 - (PRamStart + MaxPages - taken) + 1
    BY FS_Interval DEF pageAlloc_initThenTake
  <2> QED
    BY <2>1 DEF Counted, pageAlloc_initThenTake
<1> QED
  BY <1>1, <1>2, <1>3, <1>4 DEF PoolInv

(* On a sound stack the free pages are exactly those not handed out.      *)
LEMMA FreeIsNotHeld ==
  ASSUME PoolInv
  PROVE  FreePages = PPage \ held
<1>1. FreePages \subseteq PPage
  <2> SUFFICES ASSUME NEW i \in 0 .. index
               PROVE  pages[i] \in PPage
    BY DEF FreePages
  <2>1. i \in Cell
    BY PageAllocAssumption DEF PoolInv, PageAllocTypeOK, Cell
  <2> QED
    BY <2>1 DEF PoolInv, PageAllocTypeOK
<1> QED
  BY <1>1 DEF PoolInv, Partition

(* pageAlloc_alloc() returns a managed page that was free, and keeps the   *)
(* stack sound.                                                            *)
LEMMA AllocKeepsPool ==
  ASSUME PoolInv, pageAlloc_alloc
  PROVE  PoolInv' /\ Top \in PPage /\ Top \notin held /\ held' = held \cup {Top}
<1> USE PageAllocAssumption
<1>1. index \in 0 .. MaxPages - 1
  BY DEF PoolInv, PageAllocTypeOK, pageAlloc_alloc
<1>2. Top \in PPage /\ Top \in FreePages
  BY <1>1 DEF Top, FreePages, PoolInv, PageAllocTypeOK, Cell
<1>3. Top \notin held
  BY <1>2 DEF PoolInv, Partition
<1>4. PageAllocTypeOK'
  BY <1>1, <1>2 DEF pageAlloc_alloc, PoolInv, PageAllocTypeOK, Top
<1>5. NoDuplicates'
  BY <1>1 DEF pageAlloc_alloc, PoolInv, NoDuplicates
<1>6. Partition'
  <2> SUFFICES ASSUME NEW p \in PPage
               PROVE  p \in held' <=> p \notin FreePages'
    BY DEF Partition, PPage
  <2>1. p \in FreePages' => p \in FreePages /\ p # Top
    BY <1>1 DEF FreePages, Top, pageAlloc_alloc, PoolInv, NoDuplicates
  <2>2. p \in FreePages /\ p # Top => p \in FreePages'
    BY <1>1 DEF FreePages, Top, pageAlloc_alloc
  <2> QED
    BY <2>1, <2>2, <1>2 DEF PoolInv, Partition, pageAlloc_alloc, Top
<1>7. Counted'
  <2>1. /\ IsFiniteSet(held \cup {Top})
        /\ Cardinality(held \cup {Top}) = Cardinality(held) + 1
    BY <1>3, FS_AddElement DEF PoolInv, Counted
  <2>2. Cardinality(held) \in Nat
    BY FS_CardinalityType DEF PoolInv, Counted
  <2> QED
    BY <1>1, <2>1, <2>2 DEF pageAlloc_alloc, PoolInv, Counted, Top
<1> QED
  BY <1>2, <1>3, <1>4, <1>5, <1>6, <1>7 DEF PoolInv, pageAlloc_alloc, Top

(* Giving back a page that was handed out never overruns the stack, and    *)
(* keeps it sound.                                                         *)
LEMMA FreeKeepsPool ==
  ASSUME PoolInv, NEW ptr \in held, pageAlloc_free(ptr)
  PROVE  PoolInv' /\ panic' = panic /\ held' = held \ {ptr}
<1> USE PageAllocAssumption
<1>1. Cardinality(held) \in Nat /\ Cardinality(held) # 0
  BY FS_CardinalityType, FS_EmptySet DEF PoolInv, Counted
<1>2. index + 1 \in Cell
  BY <1>1 DEF PoolInv, Counted, PageAllocTypeOK, Cell
<1>3. /\ index' = index + 1
      /\ panic' = panic
  BY <1>2 DEF pageAlloc_free, Cell, PoolInv, PageAllocTypeOK
<1>4. ptr \in PPage /\ ptr \notin FreePages
  BY DEF PoolInv, PageAllocTypeOK, Partition
<1>5. /\ \A i \in 0 .. index : pages'[i] = pages[i] /\ pages[i] # ptr
      /\ pages'[index + 1] = ptr
  BY <1>2, <1>4 DEF pageAlloc_free, FreePages, PoolInv, PageAllocTypeOK, Cell
<1>6. PageAllocTypeOK'
  BY <1>2, <1>3, <1>4 DEF pageAlloc_free, PoolInv, PageAllocTypeOK, Cell
<1>7. NoDuplicates'
  BY <1>2, <1>3, <1>5 DEF PoolInv, NoDuplicates, PageAllocTypeOK, Cell
<1>8. Partition'
  <2> SUFFICES ASSUME NEW p \in PPage
               PROVE  p \in held' <=> p \notin FreePages'
    BY DEF Partition, PPage
  <2>1. index \in Int /\ index >= -1
    BY DEF PoolInv, PageAllocTypeOK
  <2>2. p \in FreePages' => p \in FreePages \/ p = ptr
    BY <1>3, <1>5, <2>1 DEF FreePages
  <2>3. p \in FreePages \/ p = ptr => p \in FreePages'
    BY <1>3, <1>5, <2>1 DEF FreePages
  <2> QED
    BY <2>2, <2>3, <1>4 DEF PoolInv, Partition, pageAlloc_free
<1>9. Counted'
  <2>1. /\ IsFiniteSet(held \ {ptr})
        /\ Cardinality(held \ {ptr}) = Cardinality(held) - 1
    BY FS_RemoveElement DEF PoolInv, Counted
  <2> QED
    BY <1>1, <1>3, <2>1 DEF pageAlloc_free, PoolInv, Counted, PageAllocTypeOK
<1> QED
  BY <1>3, <1>6, <1>7, <1>8, <1>9 DEF PoolInv, pageAlloc_free
=============================================================================
