------------------------ MODULE PageAllocClientProofs ------------------------
(***************************************************************************)
(* The page allocator keeps its promises to callers that keep theirs, and  *)
(* implements the pool of PagePool, for every number of pages.             *)
(***************************************************************************)
EXTENDS PageAllocClient, PageAllocProofs

(* PoolInv is inductive; with it comes that the only assertion that can    *)
(* fail is the one for an empty stack.                                     *)
ClientInv ==
  /\ PoolInv
  /\ panic \in {"none", "noFreePages"}
  /\ panic = "noFreePages" => index = -1

LEMMA ClientInvInductive == Spec => []ClientInv
<1>1. Init => ClientInv
  <2> SUFFICES ASSUME Init
               PROVE  ClientInv
    OBVIOUS
  <2>1. 0 \in 0 .. MaxPages /\ pageAlloc_initThenTake(0)
    BY PageAllocAssumption DEF Init, pageAlloc_init
  <2>2. PoolInv
    BY <2>1, InitThenTakePool
  <2> QED
    BY <2>2 DEF ClientInv, Init
<1>2. ClientInv /\ [Next]_clientVars => ClientInv'
  <2> SUFFICES ASSUME ClientInv, [Next]_clientVars
               PROVE  ClientInv'
    OBVIOUS
  <2>1. CASE Alloc
    BY <2>1, AllocKeepsPool DEF Alloc, ClientInv
  <2>2. CASE AllocFails
    BY <2>2 DEF AllocFails, pageAlloc_allocFails, pageAllocVars, ClientInv,
       PoolInv, PageAllocTypeOK, NoDuplicates, Partition, Counted, FreePages
  <2>3. ASSUME NEW p \in PPage, Free(p)
        PROVE  ClientInv'
    BY <2>3, FreeKeepsPool DEF Free, ClientInv
  <2>4. CASE Halted \/ UNCHANGED clientVars
    BY <2>4 DEF Halted, clientVars, ClientInv,
       PoolInv, PageAllocTypeOK, NoDuplicates, Partition, Counted, FreePages
  <2> QED
    BY <2>1, <2>2, <2>3, <2>4 DEF Next
<1> QED
  BY <1>1, <1>2, PTL DEF Spec

(* The state is always well typed.                                         *)
THEOREM ClientTypeOK == Spec => []TypeOK
<1>1. ClientInv => TypeOK
  BY DEF ClientInv, PoolInv, TypeOK
<1> QED
  BY <1>1, ClientInvInductive, PTL

(* No page has two owners and none is lost, whatever the order of calls.   *)
THEOREM ClientOneOwner == Spec => []OneOwner
<1>1. ClientInv => OneOwner
  BY DEF ClientInv, PoolInv, OneOwner
<1> QED
  BY <1>1, ClientInvInductive, PTL

(* The allocator stops the kernel only when every page is handed out.      *)
THEOREM ClientPanicsOnlyWhenExhausted == Spec => []PanicsOnlyWhenExhausted
<1>1. ClientInv => PanicsOnlyWhenExhausted
  <2> SUFFICES ASSUME ClientInv, panic # "none"
               PROVE  panic = "noFreePages" /\ held = PPage
    BY DEF PanicsOnlyWhenExhausted
  <2>1. panic = "noFreePages" /\ index = -1
    BY DEF ClientInv
  <2>2. FreePages = {}
    BY <2>1 DEF FreePages
  <2> QED
    BY <2>1, <2>2 DEF ClientInv, PoolInv, Partition, PageAllocTypeOK
<1> QED
  BY <1>1, ClientInvInductive, PTL

(* The stack implements the pool: pushing is giving and popping is taking. *)
THEOREM ClientImplementsPool == Spec => ImplementsPool
<1>1. Init => Pool!Init
  <2> SUFFICES ASSUME Init
               PROVE  FreePages = PPage /\ held = {}
    BY DEF Pool!Init
  <2>1. 0 \in 0 .. MaxPages /\ pageAlloc_initThenTake(0)
    BY PageAllocAssumption DEF Init, pageAlloc_init
  <2>2. PoolInv /\ held = {}
    BY <2>1, InitThenTakePool, PageAllocAssumption DEF pageAlloc_initThenTake
  <2> QED
    BY <2>2, FreeIsNotHeld
<1>2. ClientInv => FreePages = PPage \ held
  BY FreeIsNotHeld DEF ClientInv
<1>3. /\ ClientInv /\ [Next]_clientVars
      /\ FreePages = PPage \ held /\ (FreePages = PPage \ held)'
      => [Pool!Next]_<<FreePages, held>>
  <2> SUFFICES ASSUME ClientInv, [Next]_clientVars,
                      FreePages = PPage \ held, (FreePages = PPage \ held)'
               PROVE  [Pool!Next]_<<FreePages, held>>
    OBVIOUS
  <2>1. PPage' = PPage
    BY DEF PPage
  <2>2. CASE Alloc
    <3>1. Top \in PPage /\ Top \notin held /\ held' = held \cup {Top}
      BY <2>2, AllocKeepsPool DEF Alloc, ClientInv
    <3>2. Pool!Take(Top)
      BY <2>1, <3>1 DEF Pool!Take
    <3> QED
      BY <3>1, <3>2 DEF Pool!Next
  <2>3. ASSUME NEW p \in PPage, Free(p)
        PROVE  Pool!Next
    <3>1. p \in held /\ held' = held \ {p}
      BY <2>3, FreeKeepsPool DEF Free, ClientInv
    <3>2. Pool!Give(p)
      BY <2>1, <3>1 DEF Pool!Give
    <3> QED
      BY <3>2 DEF Pool!Next
  <2>4. CASE AllocFails \/ Halted \/ UNCHANGED clientVars
    BY <2>4 DEF AllocFails, pageAlloc_allocFails, pageAllocVars, Halted,
       clientVars, FreePages
  <2> QED
    BY <2>2, <2>3, <2>4 DEF Next
<1> QED
  BY <1>1, <1>2, <1>3, ClientInvInductive, PTL DEF Spec, ImplementsPool, Pool!Spec
=============================================================================
