---------------------------- MODULE KallocProofs ----------------------------
(***************************************************************************)
(* The kernel allocator is right for every size of the RAM and of V_RAM,   *)
(* every number of records and every set of requests: what TLC checks on   *)
(* small instances, as theorems.                                           *)
(***************************************************************************)
EXTENDS Kalloc, PageAllocProofs

-----------------------------------------------------------------------------
(* The inductive invariant, part by part.                                  *)

Kallocing == pc \in {"alloc", "map", "mapSync"}
Kfreeing == pc \in {"free", "unmap", "clear"}

(* The range of the call in progress.                                      *)
InRange(v) == base <= v /\ v < base + size

(* kalloc() has mapped v; ...                                              *)
Building(v) ==
  Kallocing /\ base <= v /\ (v < va \/ (pc = "mapSync" /\ v = va))

(* ... kfree() has given the page at v back; ...                           *)
Released(v) ==
  /\ base <= v
  /\ \/ pc = "free" /\ v < va
     \/ pc \in {"unmap", "clear"} /\ v < base + size

(* ... and has removed the entry of v.                                     *)
Cleared(v) ==
  /\ base <= v
  /\ \/ pc = "unmap" /\ v < va
     \/ pc = "clear" /\ v < base + size

(* The loop variables stay in their ranges, and info is the record of the  *)
(* range being freed.                                                      *)
LocalsOK ==
  /\ pc # "scan" => count = 0
  /\ pc = "scan" => VRamStart <= va - count /\ va <= VRamEnd
  /\ Kallocing =>
       /\ base \in VPage /\ size >= 1 /\ base + size <= VRamEnd
       /\ base <= va /\ va <= base + size
       /\ pc # "alloc" => va < base + size
  /\ Kfreeing =>
       /\ allocs[info].virtualAddr = base /\ allocs[info].size = size
       /\ base <= va /\ va <= base + size

(* The records are disjoint ranges of V_RAM, and the one being built is    *)
(* disjoint from all of them.                                              *)
RecordsOK ==
  /\ \A i \in Slot :
       IF allocs[i].virtualAddr = NULL THEN allocs[i].size = 0
       ELSE allocs[i].size >= 1 /\ allocs[i].virtualAddr + allocs[i].size <= VRamEnd
  /\ \A i, j \in Slot, v \in VPage : InAlloc(i, v) /\ InAlloc(j, v) => i = j
  /\ Kallocing => \A i \in Slot, v \in VPage : InRange(v) => ~InAlloc(i, v)

(* A page is mapped exactly if kalloc() has just mapped it, or a record    *)
(* covers it and kfree() has not yet removed its entry.                    *)
MappedOK ==
  \A v \in VPage :
    Mapped(v) <=> Building(v) \/ (~Cleared(v) /\ \E i \in Slot : InAlloc(i, v))

(* The count pages before va are free.                                     *)
ScanOK ==
  pc = "scan" => \A v \in VPage : va - count <= v /\ v < va => ~Mapped(v)

(* No page is mapped twice, and no page of the tables is mapped.           *)
PteOK ==
  /\ \A v, w \in VPage : v # w /\ Mapped(v) => pte[v] # pte[w]
  /\ \A v \in VPage : pte[v] \notin Reserved

(* A walk reads what was stored, except for the entry kalloc() has just    *)
(* written and the entries kfree() is removing, whose pages are free.      *)
SeenOK ==
  \A v \in VPage :
    \/ seen[v] = pte[v]
    \/ pc = "mapSync" /\ v = va /\ seen[v] = NULL
    \/ pc = "unmap" /\ base <= v /\ v < va /\ seen[v] \notin held

(* The TLB has a translation for v that the tables do not have.            *)
Stale(v) == tlb[v] \notin {NULL, pte[v]}

(* What kfree() leaves in the TLB leads to free pages, from addresses      *)
(* nobody owns.  kalloc() may take such a page, but by the time it has     *)
(* mapped it, or any other, the TLB is clean.                              *)
StaleOK ==
  /\ \A v \in VPage : Stale(v) =>
       /\ ~Mapped(v) \/ (pc = "mapSync" /\ v = va)
       /\ tlb[v] \notin held \/ (pc \in {"map", "mapSync"} /\ tlb[v] = pa)
  /\ pc = "alloc" /\ va > base => \A v \in VPage : ~Stale(v)

(* The pages of the tables are in use; a page that is mapped is in use     *)
(* unless kfree() has given it back; a page in use is mapped, or kalloc()  *)
(* is about to map it.                                                     *)
HeldOK ==
  /\ Reserved \subseteq held
  /\ \A v \in VPage : Mapped(v) => (pte[v] \in held <=> ~Released(v))
  /\ \A p \in held \ Reserved : (pc = "map" /\ p = pa) \/ (\E v \in VPage : pte[v] = p)

(* The page kalloc() is about to map is not mapped yet; then it is.        *)
NewPageOK ==
  /\ pc = "map" => pa \in held \ Reserved /\ \A v \in VPage : pte[v] # pa
  /\ pc = "mapSync" => pte[va] = pa

KallocInv ==
  /\ TypeOK /\ PoolInv
  /\ LocalsOK /\ RecordsOK /\ MappedOK /\ ScanOK
  /\ PteOK /\ SeenOK /\ StaleOK /\ HeldOK /\ NewPageOK /\ AssertsNeverFire

-----------------------------------------------------------------------------
(* What the provers need to know of the types.                             *)
Typed ==
  /\ VPage \subseteq Nat /\ NULL \in Nat /\ NULL \notin VPage /\ NULL \notin PPage
  /\ base \in VPage \cup {NULL} /\ base \in Nat /\ va \in Nat
  /\ size \in Nat /\ count \in Nat /\ request \in Nat
  /\ info \in Slot /\ pa \in PPage \cup {NULL}
  /\ pte \in [VPage -> PPage \cup {NULL}] /\ seen \in [VPage -> PPage \cup {NULL}]
  /\ tlb \in [VPage -> PPage \cup {NULL}] /\ window \in SUBSET VPage
  /\ allocs \in [Slot -> [virtualAddr : VPage \cup {NULL}, size : Nat]]
  /\ \A i \in Slot : allocs[i].virtualAddr \in Nat /\ allocs[i].size \in Nat

(* The type part of the invariant, expanded once for the leaves.           *)
LEMMA KallocTyped == KallocInv => Typed
  BY KallocAssumption, PageAllocAssumption DEF KallocInv, TypeOK, Typed, VPage, PPage, NULL

(* An invalid entry holds the address of no page.                          *)
LEMMA NullNotReserved == NULL \notin Reserved
  BY KallocAssumption, PageAllocAssumption DEF Reserved, NULL

(* PAGE_ROUND_UP yields a number of pages, ...                             *)
LEMMA PageRoundUpType ==
  ASSUME NEW bytes \in Requests
  PROVE  bytes \in Nat /\ PageRoundUp(bytes) \in Nat
<1>1. bytes \in Nat /\ UintMod \in Nat \ {0} /\ PageSize \in Nat \ {0}
  BY KallocAssumption
<1>2. (bytes + PageSize - 1) % UintMod \in Nat
  BY <1>1
<1> QED
  BY <1>1, <1>2 DEF PageRoundUp

(* What follows from a frame: the stack, the tables and the records stay   *)
(* sound when a step leaves them alone.                                    *)
LEMMA StackStays ==
  ASSUME PoolInv, UNCHANGED pageAllocVars
  PROVE  PoolInv'
  BY DEF PoolInv, PageAllocTypeOK, NoDuplicates, Partition, Counted, FreePages, pageAllocVars

(* A step that leaves the tables alone keeps what the invariant says of    *)
(* them.                                                                   *)
LEMMA TablesStay ==
  ASSUME PteOK, UNCHANGED pte
  PROVE  PteOK'
  BY DEF PteOK, Mapped, Reserved

(* The records, tables, TLB and stack do not change ...                    *)
MemoryStays == UNCHANGED <<pageAllocVars, allocs, tables, tlb>>

(* ... and no page is being built, given back or cleared before or after.  *)
Quiet == \A v \in VPage : ~Building(v) /\ ~Released(v) /\ ~Cleared(v)

(* A step that changes locals only keeps every part that does not read     *)
(* them.                                                                   *)
LEMMA QuietStep ==
  ASSUME KallocInv, MemoryStays, Quiet, Quiet',
         pc \notin {"map", "mapSync", "unmap"}, ~Kallocing'
  PROVE  /\ PoolInv' /\ RecordsOK' /\ MappedOK'
         /\ PteOK' /\ SeenOK' /\ StaleOK' /\ HeldOK' /\ NewPageOK'
<1>1. PoolInv'
  BY StackStays DEF MemoryStays, KallocInv
<1>2. RecordsOK'
  BY DEF MemoryStays, KallocInv, RecordsOK, InAlloc
<1>3. MappedOK'
  BY DEF MemoryStays, tables, Quiet, KallocInv, MappedOK, Mapped, InAlloc
<1>4. SeenOK' /\ StaleOK'
  BY DEF MemoryStays, tables, KallocInv, SeenOK, StaleOK, Stale, Mapped, Kallocing, pageAllocVars
<1>5. HeldOK'
  BY DEF MemoryStays, tables, Quiet, KallocInv, HeldOK, Mapped, Reserved, pageAllocVars
<1>6. NewPageOK'
  BY DEF NewPageOK, Kallocing
<1>7. PteOK'
  BY TablesStay DEF MemoryStays, tables, KallocInv
<1> QED
  BY <1>1, <1>2, <1>3, <1>4, <1>5, <1>6, <1>7

-----------------------------------------------------------------------------
(* kalloc(): the search.                                                   *)

(* kalloc() reads its argument and allocs[]; it writes locals only.        *)
LEMMA KallocStep ==
  ASSUME KallocInv, NEW bytes \in Requests, kalloc(bytes)
  PROVE  KallocInv'
<1> USE DEF tables, kalloc, At
<1>1. Typed
  BY KallocTyped
<1>2. TypeOK'
  BY PageRoundUpType, KallocAssumption
  DEF KallocInv, TypeOK, PageAllocTypeOK, pageAllocVars, VPage
<1>3. LocalsOK' /\ ScanOK' /\ AssertsNeverFire'
  BY <1>1, KallocAssumption
  DEF KallocInv, LocalsOK, ScanOK, AssertsNeverFire, Typed, VPage, Kallocing, Kfreeing
<1>4. Quiet /\ Quiet'
  BY DEF Quiet, Building, Released, Cleared, Kallocing
<1> QED
  BY <1>2, <1>3, <1>4, QuietStep DEF MemoryStays, KallocInv, Kallocing

(* vm_getVaRange() restarts its count behind a valid entry.                *)
LEMMA ScanMappedStep ==
  ASSUME KallocInv, ScanMapped
  PROVE  KallocInv'
<1> USE DEF tables, ScanMapped, Scanning, At
<1>1. Typed
  BY KallocTyped
<1>2. TypeOK'
  BY <1>1 DEF Typed, KallocInv, TypeOK, PageAllocTypeOK, pageAllocVars
<1>3. LocalsOK' /\ ScanOK' /\ AssertsNeverFire'
  BY <1>1, KallocAssumption
  DEF KallocInv, LocalsOK, ScanOK, AssertsNeverFire, Typed, VPage, Kallocing, Kfreeing
<1>4. Quiet /\ Quiet'
  BY DEF Quiet, Building, Released, Cleared, Kallocing
<1> QED
  BY <1>2, <1>3, <1>4, QuietStep DEF MemoryStays, KallocInv, Kallocing

(* vm_getVaRange() counts an entry that is not valid.                      *)
LEMMA ScanFreeStep ==
  ASSUME KallocInv, ScanFree
  PROVE  KallocInv'
<1> USE DEF tables, ScanFree, Scanning, At
<1>1. Typed
  BY KallocTyped
<1>2. TypeOK'
  BY <1>1 DEF Typed, KallocInv, TypeOK, PageAllocTypeOK, pageAllocVars
<1>3. LocalsOK' /\ AssertsNeverFire'
  BY <1>1, KallocAssumption
  DEF KallocInv, LocalsOK, AssertsNeverFire, Typed, VPage, Kallocing, Kfreeing
<1>4. ScanOK'
  BY <1>1 DEF KallocInv, ScanOK, Typed, Mapped
<1>5. Quiet /\ Quiet'
  BY DEF Quiet, Building, Released, Cleared, Kallocing
<1> QED
  BY <1>2, <1>3, <1>4, <1>5, QuietStep DEF MemoryStays, KallocInv, Kallocing

(* The range found lies in V_RAM and is free.                              *)
LEMMA ScanFoundStep ==
  ASSUME KallocInv, ScanFound
  PROVE  KallocInv'
<1> USE DEF tables, ScanFound, Scanning, At
<1>1. Typed
  BY KallocTyped
<1>2. /\ base' \in VPage /\ base' = va - count /\ va' = base'
      /\ size >= 1 /\ base' + size = va + 1 /\ va \in VPage
  BY <1>1, KallocAssumption DEF KallocInv, LocalsOK, Typed, VPage
<1>3. TypeOK'
  BY <1>1, <1>2 DEF Typed, KallocInv, TypeOK, PageAllocTypeOK, pageAllocVars
<1>4. LocalsOK'
  BY <1>1, <1>2, KallocAssumption DEF LocalsOK, Typed, VPage, Kallocing, Kfreeing
<1>5. Quiet /\ Quiet'
  BY <1>1, <1>2 DEF Typed, Quiet, Building, Released, Cleared, Kallocing
<1>6. RecordsOK'
  <2>1. ASSUME NEW i \in Slot, NEW v \in VPage, InRange(v)'
        PROVE  ~InAlloc(i, v)
    <3>1. ~Mapped(v)
      BY <1>1, <1>2, <2>1 DEF Typed, KallocInv, ScanOK, InRange
    <3> QED
      BY <1>5, <3>1 DEF KallocInv, MappedOK, Quiet
  <2> QED
    BY <2>1 DEF KallocInv, RecordsOK, InAlloc, InRange
<1>7. MappedOK' /\ ScanOK' /\ NewPageOK' /\ AssertsNeverFire'
  BY <1>5 DEF KallocInv, Quiet, MappedOK, Mapped, InAlloc, ScanOK, NewPageOK, AssertsNeverFire
<1>8. SeenOK' /\ StaleOK'
  BY <1>1, <1>2 DEF Typed, KallocInv, SeenOK, StaleOK, Stale, Mapped, pageAllocVars
<1>9. HeldOK'
  BY <1>5 DEF KallocInv, Quiet, HeldOK, Mapped, Reserved, pageAllocVars
<1>10. PoolInv' /\ PteOK'
  BY StackStays, TablesStay DEF KallocInv
<1> QED
  BY <1>3, <1>4, <1>6, <1>7, <1>8, <1>9, <1>10 DEF KallocInv

-----------------------------------------------------------------------------
(* kalloc(): the pages.                                                    *)

(* The page the stack returns was free, so nothing can reach it.           *)
LEMMA AllocPageStep ==
  ASSUME KallocInv, AllocPage
  PROVE  KallocInv'
<1> USE DEF tables, AllocPage, At
<1>1. Typed
  BY KallocTyped
<1>2. PoolInv' /\ Top \in PPage /\ Top \notin held /\ held' = held \cup {Top} /\ pa' = Top
  BY AllocKeepsPool DEF KallocInv
<1>3. TypeOK'
  BY <1>1, <1>2 DEF Typed, KallocInv, TypeOK, PoolInv
<1>4. LocalsOK' /\ RecordsOK' /\ ScanOK' /\ AssertsNeverFire'
  BY <1>1 DEF Typed, KallocInv, LocalsOK, RecordsOK, ScanOK, AssertsNeverFire,
     Kallocing, Kfreeing, InAlloc, InRange
<1>5. MappedOK'
  BY <1>1 DEF Typed, KallocInv, MappedOK, Mapped, InAlloc, Building, Cleared, Kallocing
<1>6. /\ Top \notin Reserved
      /\ \A v \in VPage : pte[v] # Top /\ ~Released(v) /\ ~Released(v)'
  <2>1. \A v \in VPage : ~Released(v) /\ ~Released(v)'
    BY DEF Released
  <2>2. ASSUME NEW v \in VPage, pte[v] = Top
        PROVE  FALSE
    BY <1>1, <1>2, <2>1, <2>2 DEF Typed, KallocInv, HeldOK, Mapped
  <2> QED
    BY <1>2, <2>1, <2>2 DEF KallocInv, HeldOK
<1>7. HeldOK'
  BY <1>2, <1>6 DEF KallocInv, HeldOK, Mapped, Reserved
<1>8. NewPageOK'
  BY <1>2, <1>6 DEF NewPageOK, Reserved
<1>9. PteOK'
  BY TablesStay DEF KallocInv
<1>10. SeenOK' /\ StaleOK'
  BY <1>1, <1>2 DEF Typed, KallocInv, SeenOK, StaleOK, Stale, Mapped
<1> QED
  BY <1>2, <1>3, <1>4, <1>5, <1>7, <1>8, <1>9, <1>10 DEF KallocInv

(* vm_map() finds the entry invalid.                                       *)
LEMMA MapPageStep ==
  ASSUME KallocInv, MapPage
  PROVE  KallocInv'
<1> USE DEF MapPage, At, locals
<1>1. Typed
  BY KallocTyped
<1>2. va \in VPage /\ base <= va /\ InRange(va)
  BY <1>1, KallocAssumption DEF Typed, KallocInv, LocalsOK, Kallocing, InRange, VPage
<1>3. ~Mapped(va)
  BY <1>1, <1>2 DEF Typed, KallocInv, RecordsOK, MappedOK, Building, Kallocing
<1>4. /\ panic' = panic /\ pc' = "mapSync"
      /\ pte' = [pte EXCEPT ![va] = pa]
  BY <1>3
<1>5. pte[va] = NULL /\ \A v \in VPage : seen[v] = pte[v]
  BY <1>1, <1>2, <1>3 DEF Typed, Mapped, KallocInv, SeenOK
<1>6. /\ pa # NULL /\ pa \in held /\ pa \notin Reserved
      /\ \A v \in VPage : pte[v] # pa
  BY <1>1 DEF Typed, KallocInv, NewPageOK, TypeOK, PageAllocTypeOK
<1>7. pte'[va] = pa /\ \A v \in VPage \ {va} : pte'[v] = pte[v]
  BY <1>1, <1>2, <1>4 DEF Typed
<1>8. TypeOK' /\ PoolInv'
  BY <1>4, StackStays DEF KallocInv, TypeOK, PageAllocTypeOK, pageAllocVars
<1>9. LocalsOK' /\ RecordsOK' /\ ScanOK' /\ NewPageOK' /\ AssertsNeverFire'
  BY <1>4, <1>7 DEF KallocInv, LocalsOK, RecordsOK, ScanOK, NewPageOK, AssertsNeverFire,
     Kallocing, Kfreeing, InAlloc, InRange
<1>10. MappedOK'
  <2>1. \A v \in VPage : Building(v)' <=> Building(v) \/ v = va
    BY <1>1, <1>2, <1>4 DEF Typed, Building, Kallocing
  <2>2. \A v \in VPage : ~Cleared(v) /\ ~Cleared(v)'
    BY <1>4 DEF Cleared
  <2>3. \A v \in VPage : Mapped(v)' <=> Mapped(v) \/ v = va
    BY <1>1, <1>2, <1>4, <1>6 DEF Typed, Mapped
  <2> QED
    BY <2>1, <2>2, <2>3 DEF KallocInv, MappedOK, InAlloc
<1>11. SeenOK' /\ StaleOK'
  <2>1. SeenOK'
    BY <1>4, <1>5, <1>7 DEF SeenOK
  <2>2. ASSUME NEW v \in VPage, Stale(v)'
        PROVE  /\ pte'[v] = NULL \/ v = va
               /\ tlb[v] \notin held \/ tlb[v] = pa
    BY <1>5, <1>7, <2>2 DEF KallocInv, StaleOK, Stale, Mapped
  <2> QED
    BY <1>4, <2>1, <2>2 DEF StaleOK, Mapped, pageAllocVars
<1>12. HeldOK'
  <2>1. \A v \in VPage : ~Released(v) /\ ~Released(v)'
    BY <1>4 DEF Released
  <2>2. \A p \in held \ Reserved : \E v \in VPage : pte'[v] = p
    BY <1>1, <1>2, <1>4, <1>5 DEF Typed, KallocInv, HeldOK, TypeOK, PageAllocTypeOK
  <2> QED
    BY <1>6, <1>7, <2>1, <2>2 DEF KallocInv, HeldOK, Mapped, Reserved, pageAllocVars
<1>13. PteOK'
  BY <1>2, <1>6, <1>7 DEF KallocInv, PteOK, Mapped, Reserved
<1> QED
  BY <1>8, <1>9, <1>10, <1>11, <1>12, <1>13 DEF KallocInv

(* The barrier ends vm_map(); the next page is asked for, or the range is  *)
(* complete.                                                               *)
LEMMA MapSyncStep ==
  ASSUME KallocInv, MapSync
  PROVE  KallocInv'
<1> USE DEF MapSync, At
<1>1. Typed
  BY KallocTyped
<1>2. TypeOK' /\ PoolInv'
  BY <1>1, StackStays DEF Typed, KallocInv, TypeOK, PageAllocTypeOK, pageAllocVars, InvalidateTLB
<1>3. LocalsOK' /\ RecordsOK' /\ ScanOK' /\ NewPageOK' /\ AssertsNeverFire'
  BY <1>1 DEF Typed, KallocInv, LocalsOK, RecordsOK, ScanOK, NewPageOK, AssertsNeverFire,
     Kallocing, Kfreeing, InAlloc, InRange
<1>4. MappedOK'
  BY <1>1 DEF Typed, KallocInv, MappedOK, Mapped, InAlloc, Building, Cleared, Kallocing
<1>5. /\ seen' = pte
      /\ \A v \in VPage : tlb'[v] \in {NULL, pte[v]}
  <2>1. \A v \in VPage : tlb'[v] \in {NULL, seen[v]}
    BY DEF InvalidateTLB
  <2> QED
    BY <2>1 DEF InvalidateTLB, KallocInv, SeenOK
<1>6. HeldOK'
  BY DEF KallocInv, HeldOK, Mapped, Released, Reserved, pageAllocVars
<1>7. SeenOK' /\ StaleOK'
  BY <1>5 DEF SeenOK, StaleOK, Stale, Mapped, VPage
<1>8. PteOK'
  BY TablesStay DEF KallocInv
<1> QED
  BY <1>2, <1>3, <1>4, <1>6, <1>7, <1>8 DEF KallocInv

(* The new record covers exactly the pages just mapped.                    *)
LEMMA RecordStep ==
  ASSUME KallocInv, Record
  PROVE  KallocInv'
<1> USE DEF tables, Record, At, Return
<1>1. Typed
  BY KallocTyped
<1>2. PICK k \in Slot :
        /\ allocs[k].virtualAddr = NULL
        /\ allocs' = [allocs EXCEPT ![k] = [virtualAddr |-> base, size |-> size]]
  BY DEF FirstSlot
<1>3. base \in VPage /\ size >= 1 /\ base + size <= VRamEnd /\ va = base + size /\ base # NULL
  BY <1>1 DEF Typed, KallocInv, LocalsOK, Kallocing
<1>4. /\ allocs'[k].virtualAddr = base /\ allocs'[k].size = size
      /\ \A i \in Slot \ {k} : allocs'[i] = allocs[i]
  BY <1>1, <1>2 DEF Typed
<1>5. \A v \in VPage :
        /\ ~InAlloc(k, v)
        /\ InAlloc(k, v)' <=> InRange(v)
        /\ \A i \in Slot \ {k} : InAlloc(i, v)' <=> InAlloc(i, v)
  BY <1>2, <1>3, <1>4 DEF InAlloc, InRange
<1>6. TypeOK' /\ PoolInv'
  BY <1>1, <1>2, <1>3, StackStays, KallocAssumption
  DEF Typed, KallocInv, TypeOK, PageAllocTypeOK, pageAllocVars, Slot
<1>7. LocalsOK' /\ ScanOK' /\ NewPageOK' /\ AssertsNeverFire'
  BY DEF KallocInv, LocalsOK, ScanOK, NewPageOK, AssertsNeverFire, Kallocing, Kfreeing
<1>8. RecordsOK'
  <2>1. \A i \in Slot :
          IF allocs'[i].virtualAddr = NULL THEN allocs'[i].size = 0
          ELSE allocs'[i].size >= 1 /\ allocs'[i].virtualAddr + allocs'[i].size <= VRamEnd
    BY <1>3, <1>4 DEF KallocInv, RecordsOK
  <2>2. \A i, j \in Slot, v \in VPage : InAlloc(i, v)' /\ InAlloc(j, v)' => i = j
    BY <1>5 DEF KallocInv, RecordsOK, Kallocing
  <2> QED
    BY <2>1, <2>2 DEF RecordsOK, Kallocing
<1>9. MappedOK'
  <2>1. \A v \in VPage : /\ Building(v) <=> InRange(v)
                         /\ ~Building(v)' /\ ~Cleared(v) /\ ~Cleared(v)'
    BY <1>3 DEF Building, InRange, Cleared, Kallocing
  <2> QED
    BY <1>5, <2>1 DEF KallocInv, MappedOK, Mapped
<1>10. HeldOK' /\ PteOK'
  BY TablesStay DEF KallocInv, HeldOK, Mapped, Released, Reserved, pageAllocVars
<1>11. SeenOK' /\ StaleOK'
  BY DEF KallocInv, SeenOK, StaleOK, Stale, Mapped, pageAllocVars
<1> QED
  BY <1>6, <1>7, <1>8, <1>9, <1>10, <1>11 DEF KallocInv

-----------------------------------------------------------------------------
(* kfree().                                                                *)

(* kfree() finds the record of the address; it writes locals only.         *)
LEMMA KfreeStep ==
  ASSUME KallocInv, NEW v \in VPage \cup {NULL}, kfree(v)
  PROVE  KallocInv'
<1> USE DEF tables, kfree, At
<1>1. Typed
  BY KallocTyped
<1>2. PICK k \in Slot :
        /\ allocs[k].virtualAddr = v
        /\ info' = k /\ size' = allocs[k].size
  BY DEF FirstSlot
<1>3. TypeOK'
  BY <1>1, <1>2 DEF Typed, KallocInv, TypeOK, PageAllocTypeOK, pageAllocVars
<1>4. LocalsOK' /\ ScanOK' /\ AssertsNeverFire'
  BY <1>1, <1>2 DEF Typed, KallocInv, LocalsOK, ScanOK, AssertsNeverFire, Kallocing, Kfreeing
<1>5. Quiet /\ Quiet'
  BY <1>1, <1>2 DEF Typed, Quiet, Building, Released, Cleared, Kallocing
<1> QED
  BY <1>3, <1>4, <1>5, QuietStep DEF MemoryStays, KallocInv, Kallocing

(* While kfree() works on it, its record covers the range, and no other    *)
(* record does.                                                            *)
LEMMA RangeIsRecord ==
  ASSUME KallocInv, Kfreeing, NEW v \in VPage, InRange(v)
  PROVE  InAlloc(info, v) /\ \A i \in Slot : InAlloc(i, v) => i = info
<1>1. Typed
  BY KallocTyped
<1>2. base # NULL
  BY <1>1 DEF Typed, KallocInv, LocalsOK, RecordsOK, InRange
<1>3. InAlloc(info, v)
  BY <1>2 DEF KallocInv, LocalsOK, InAlloc, InRange
<1> QED
  BY <1>1, <1>3 DEF Typed, KallocInv, RecordsOK

(* The page given back is in use, so the stack has room for it; from then  *)
(* on it is free, and mapped by v alone.                                   *)
LEMMA FreePageStep ==
  ASSUME KallocInv, FreePage
  PROVE  KallocInv'
<1> USE DEF tables, FreePage, At, vm_va2pa
<1>1. Typed
  BY KallocTyped
<1>2. va \in VPage /\ InRange(va) /\ base <= va
  BY <1>1, KallocAssumption DEF Typed, KallocInv, LocalsOK, RecordsOK, Kfreeing, InRange, VPage
<1>3. Mapped(va)
  BY <1>1, <1>2, RangeIsRecord DEF Typed, KallocInv, MappedOK, Cleared, Kfreeing
<1>4. \A v \in VPage \ {va} : pte[v] # pte[va]
  BY <1>2, <1>3 DEF KallocInv, PteOK
<1>5. pte[va] \in held /\ pte[va] \notin Reserved
  BY <1>1, <1>2, <1>3 DEF Typed, KallocInv, HeldOK, PteOK, Released
<1>6. PoolInv' /\ panic' = panic /\ held' = held \ {pte[va]}
  BY <1>5, FreeKeepsPool DEF KallocInv
<1>7. TypeOK'
  BY <1>1, <1>6 DEF Typed, KallocInv, TypeOK, PoolInv
<1>8. LocalsOK' /\ RecordsOK' /\ ScanOK' /\ NewPageOK' /\ AssertsNeverFire'
  BY <1>1, <1>6 DEF Typed, KallocInv, LocalsOK, RecordsOK, ScanOK, NewPageOK,
     AssertsNeverFire, Kallocing, Kfreeing, InAlloc, InRange
<1>9. MappedOK'
  BY DEF KallocInv, MappedOK, Mapped, InAlloc, Building, Cleared, Kallocing
<1>10. HeldOK'
  <2>1. \A v \in VPage : Released(v)' <=> Released(v) \/ v = va
    BY <1>1, <1>2 DEF Typed, Released
  <2>2. ASSUME NEW v \in VPage, Mapped(v)
        PROVE  pte[v] \in held' <=> ~Released(v)'
    <3>1. CASE v = va
      BY <1>6, <2>1, <3>1
    <3>2. CASE v # va
      BY <1>4, <1>6, <2>1, <2>2, <3>2 DEF KallocInv, HeldOK
    <3> QED
      BY <3>1, <3>2
  <2>3. Reserved' \subseteq held'
    BY <1>5, <1>6 DEF KallocInv, HeldOK, Reserved
  <2>4. \A p \in held' \ Reserved : \E v \in VPage : pte'[v] = p
    BY <1>6 DEF KallocInv, HeldOK
  <2> QED
    BY <2>2, <2>3, <2>4 DEF HeldOK, Mapped, Reserved
<1>11. PteOK'
  BY TablesStay DEF KallocInv
<1>12. SeenOK' /\ StaleOK'
  BY <1>6 DEF KallocInv, SeenOK, StaleOK, Stale, Mapped
<1> QED
  BY <1>6, <1>7, <1>8, <1>9, <1>10, <1>11, <1>12 DEF KallocInv

(* Every page of the range is back on the stack, none of them unmapped     *)
(* yet.                                                                    *)
LEMMA FreeDoneStep ==
  ASSUME KallocInv, FreeDone
  PROVE  KallocInv'
<1> USE DEF tables, FreeDone, At
<1>1. Typed
  BY KallocTyped
<1>2. TypeOK' /\ PoolInv' /\ PteOK'
  BY <1>1, StackStays, TablesStay
  DEF Typed, KallocInv, TypeOK, PageAllocTypeOK, pageAllocVars
<1>3. LocalsOK' /\ RecordsOK' /\ ScanOK' /\ NewPageOK' /\ AssertsNeverFire'
  BY <1>1 DEF Typed, KallocInv, LocalsOK, RecordsOK, ScanOK, NewPageOK,
     AssertsNeverFire, Kallocing, Kfreeing, InAlloc, InRange
<1>4. MappedOK'
  BY <1>1 DEF Typed, KallocInv, MappedOK, Mapped, InAlloc, Building, Cleared, Kallocing
<1>5. HeldOK'
  BY <1>1 DEF Typed, KallocInv, HeldOK, Mapped, Released, Reserved, pageAllocVars
<1>6. SeenOK' /\ StaleOK'
  BY DEF KallocInv, SeenOK, StaleOK, Stale, Mapped, pageAllocVars
<1> QED
  BY <1>2, <1>3, <1>4, <1>5, <1>6 DEF KallocInv

(* The entry goes; a walk may still see it and the TLB may keep it, but    *)
(* nothing else comes to reach that page.                                  *)
LEMMA UnmapPageStep ==
  ASSUME KallocInv, UnmapPage
  PROVE  KallocInv'
<1> USE DEF UnmapPage, At
<1>1. Typed
  BY KallocTyped
<1>2. va \in VPage /\ InRange(va) /\ base <= va
  BY <1>1, KallocAssumption DEF Typed, KallocInv, LocalsOK, RecordsOK, Kfreeing, InRange, VPage
<1>3. /\ pte'[va] = NULL
      /\ \A v \in VPage \ {va} : pte'[v] = pte[v]
  BY <1>1, <1>2 DEF Typed
<1>4. TypeOK' /\ PoolInv'
  BY <1>1, <1>2, StackStays DEF Typed, KallocInv, TypeOK, PageAllocTypeOK, pageAllocVars
<1>5. LocalsOK' /\ RecordsOK' /\ ScanOK' /\ NewPageOK' /\ AssertsNeverFire'
  BY <1>1 DEF Typed, KallocInv, LocalsOK, RecordsOK, ScanOK, NewPageOK,
     AssertsNeverFire, Kallocing, Kfreeing, InAlloc, InRange
<1>6. MappedOK'
  <2>1. \A v \in VPage : Cleared(v)' <=> Cleared(v) \/ v = va
    BY <1>1, <1>2 DEF Typed, Cleared
  <2>2. \A v \in VPage : ~Building(v) /\ ~Building(v)'
    BY DEF Building, Kallocing
  <2> QED
    BY <1>3, <2>1, <2>2 DEF KallocInv, MappedOK, Mapped, InAlloc
<1>7. SeenOK' /\ StaleOK'
  <2>1. Mapped(va) => pte[va] \notin held
    BY <1>1, <1>2 DEF Typed, KallocInv, HeldOK, Released, InRange
  <2>2. NULL \notin held
    BY <1>1 DEF Typed, KallocInv, TypeOK, PageAllocTypeOK
  <2>3. pte[va] \notin held
    BY <2>1, <2>2 DEF Mapped
  <2>4. ASSUME NEW v \in VPage
        PROVE  seen[v] = pte'[v] \/ (base <= v /\ v < va + 1 /\ seen[v] \notin held)
    BY <1>1, <1>2, <1>3, <2>3 DEF Typed, KallocInv, SeenOK
  <2>5. ASSUME NEW v \in VPage, Stale(v)'
        PROVE  pte'[v] = NULL /\ tlb[v] \notin held
    <3>1. CASE v = va
      <4>1. tlb[va] # NULL
        BY <2>5, <3>1 DEF Stale
      <4>2. CASE tlb[va] = pte[va]
        BY <1>3, <2>3, <3>1, <4>2
      <4>3. CASE tlb[va] # pte[va]
        BY <1>2, <1>3, <3>1, <4>1, <4>3 DEF KallocInv, StaleOK, Stale
      <4> QED
        BY <4>2, <4>3
    <3>2. CASE v # va
      BY <1>3, <2>5, <3>2 DEF KallocInv, StaleOK, Stale, Mapped
    <3> QED
      BY <3>1, <3>2
  <2>6. SeenOK'
    BY <2>4 DEF SeenOK, pageAllocVars
  <2> QED
    BY <2>5, <2>6 DEF StaleOK, Mapped, pageAllocVars
<1>8. HeldOK'
  <2>1. \A v \in VPage : Released(v)' <=> Released(v)
    BY DEF Released
  <2>2. ASSUME NEW p \in held \ Reserved
        PROVE  \E v \in VPage : pte'[v] = p
    <3>1. PICK v \in VPage : pte[v] = p
      BY DEF KallocInv, HeldOK
    <3>2. Mapped(v)
      BY <1>1, <3>1 DEF Typed, KallocInv, TypeOK, PageAllocTypeOK, Mapped
    <3>3. v # va
      BY <1>2, <3>1, <3>2 DEF KallocInv, HeldOK, Released, InRange
    <3> QED
      BY <1>3, <3>1, <3>3
  <2> QED
    BY <1>3, <2>1, <2>2 DEF KallocInv, HeldOK, Mapped, Reserved, pageAllocVars
<1>9. PteOK'
  BY <1>3, NullNotReserved DEF KallocInv, PteOK, Mapped, Reserved
<1> QED
  BY <1>4, <1>5, <1>6, <1>7, <1>8, <1>9 DEF KallocInv

(* Of what the TLB held the invalidation leaves at most entries of the     *)
(* range that a walk could still see.                                      *)
LEMMA UnmapSyncStep ==
  ASSUME KallocInv, UnmapSync
  PROVE  KallocInv'
<1> USE DEF UnmapSync, At, locals
<1>1. Typed
  BY KallocTyped
<1>2. TypeOK' /\ PoolInv'
  BY <1>1, StackStays DEF Typed, KallocInv, TypeOK, PageAllocTypeOK, pageAllocVars, InvalidateTLB
<1>3. LocalsOK' /\ RecordsOK' /\ ScanOK' /\ NewPageOK' /\ AssertsNeverFire'
  BY <1>1 DEF Typed, KallocInv, LocalsOK, RecordsOK, ScanOK, NewPageOK, AssertsNeverFire,
     Kallocing, Kfreeing, InAlloc, InRange
<1>4. MappedOK'
  BY <1>1 DEF Typed, KallocInv, MappedOK, Mapped, InAlloc, Building, Cleared, Kallocing
<1>5. ASSUME NEW v \in VPage, Stale(v)'
      PROVE  ~Mapped(v) /\ tlb'[v] \notin held
  <2>1. tlb'[v] \in {NULL, seen[v]} /\ tlb'[v] \notin {NULL, pte[v]}
    BY <1>5 DEF InvalidateTLB, Stale
  <2>2. base <= v /\ v < va /\ seen[v] \notin held
    BY <2>1 DEF KallocInv, SeenOK
  <2>3. ~Mapped(v)
    BY <2>2 DEF KallocInv, MappedOK, Cleared, Building, Kallocing
  <2> QED
    BY <2>1, <2>2, <2>3
<1>6. HeldOK'
  BY <1>1 DEF Typed, KallocInv, LocalsOK, Kfreeing, HeldOK, Mapped, Released, Reserved, pageAllocVars
<1>7. SeenOK' /\ StaleOK'
  BY <1>5 DEF SeenOK, StaleOK, Mapped, InvalidateTLB, pageAllocVars
<1>8. PteOK'
  BY TablesStay DEF KallocInv
<1> QED
  BY <1>2, <1>3, <1>4, <1>6, <1>7, <1>8 DEF KallocInv

(* When the record is cleared, nothing of its range is mapped.             *)
LEMMA ClearStep ==
  ASSUME KallocInv, Clear
  PROVE  KallocInv'
<1> USE DEF tables, Clear, At, Return
<1>1. Typed
  BY KallocTyped
<1>2. PICK k \in Slot :
        /\ k = info
        /\ allocs'[k].virtualAddr = NULL /\ allocs'[k].size = 0
        /\ \A i \in Slot \ {k} : allocs'[i] = allocs[i]
  BY <1>1 DEF Typed
<1>3. \A v \in VPage :
        /\ ~InAlloc(k, v)'
        /\ \A i \in Slot \ {k} : InAlloc(i, v)' <=> InAlloc(i, v)
  BY <1>2 DEF InAlloc
<1>4. \A v \in VPage : InRange(v) <=> InAlloc(k, v)
  BY <1>1, <1>2, RangeIsRecord DEF Typed, KallocInv, LocalsOK, InAlloc, InRange, Kfreeing
<1>5. \A v \in VPage : /\ Cleared(v) <=> InRange(v)
                       /\ Released(v) <=> InRange(v)
                       /\ ~Building(v)
                       /\ ~Cleared(v)' /\ ~Released(v)' /\ ~Building(v)'
  BY DEF Cleared, Released, InRange, Building, Kallocing
<1>6. \A v \in VPage : InRange(v) => ~Mapped(v)
  BY <1>5 DEF KallocInv, MappedOK
<1>7. TypeOK' /\ PoolInv'
  BY <1>1, <1>2, StackStays, KallocAssumption
  DEF Typed, KallocInv, TypeOK, PageAllocTypeOK, pageAllocVars, Slot
<1>8. LocalsOK' /\ ScanOK' /\ NewPageOK' /\ AssertsNeverFire'
  BY DEF KallocInv, LocalsOK, ScanOK, NewPageOK, AssertsNeverFire, Kallocing, Kfreeing
<1>9. RecordsOK'
  <2>1. \A i \in Slot :
          IF allocs'[i].virtualAddr = NULL THEN allocs'[i].size = 0
          ELSE allocs'[i].size >= 1 /\ allocs'[i].virtualAddr + allocs'[i].size <= VRamEnd
    BY <1>2 DEF KallocInv, RecordsOK
  <2>2. \A i, j \in Slot, v \in VPage : InAlloc(i, v)' /\ InAlloc(j, v)' => i = j
    BY <1>3 DEF KallocInv, RecordsOK
  <2> QED
    BY <2>1, <2>2 DEF RecordsOK, Kallocing
<1>10. MappedOK'
  <2> SUFFICES ASSUME NEW v \in VPage
               PROVE  Mapped(v) <=> \E i \in Slot : InAlloc(i, v)'
    BY <1>5 DEF MappedOK, Mapped
  <2>1. CASE InRange(v)
    BY <1>1, <1>3, <1>4, <1>5, <2>1 DEF Typed, KallocInv, MappedOK, RecordsOK
  <2>2. CASE ~InRange(v)
    BY <1>3, <1>4, <1>5, <2>2 DEF KallocInv, MappedOK
  <2> QED
    BY <2>1, <2>2
<1>11. HeldOK'
  BY <1>5, <1>6 DEF KallocInv, HeldOK, Mapped, Reserved, pageAllocVars
<1>12. PteOK'
  BY TablesStay DEF KallocInv
<1>13. SeenOK' /\ StaleOK'
  BY DEF KallocInv, SeenOK, StaleOK, Stale, Mapped, pageAllocVars
<1> QED
  BY <1>7, <1>8, <1>9, <1>10, <1>11, <1>12, <1>13 DEF KallocInv

-----------------------------------------------------------------------------
(* The steps that touch neither records nor tables.                        *)

(* The MMU caches an entry of the tables, or one kfree() has just removed  *)
(* and a walk still sees; the page of that one is free.                    *)
LEMMA TlbFillStep ==
  ASSUME KallocInv, NEW v \in VPage, TlbFill(v)
  PROVE  KallocInv'
<1> USE DEF tables, TlbFill, kernelVars, locals
<1>1. Typed
  BY KallocTyped
<1>2. PICK p \in {pte[v], seen[v]} \ {NULL} : tlb' = [tlb EXCEPT ![v] = p]
  OBVIOUS
<1>3. /\ tlb'[v] = p /\ p \in PPage
      /\ \A w \in VPage \ {v} : tlb'[w] = tlb[w]
  BY <1>1, <1>2 DEF Typed
<1>4. TypeOK' /\ PoolInv'
  BY <1>1, <1>2, <1>3, StackStays DEF Typed, KallocInv, TypeOK, PageAllocTypeOK, pageAllocVars
<1>5. LocalsOK' /\ RecordsOK' /\ ScanOK' /\ AssertsNeverFire'
  BY DEF KallocInv, LocalsOK, RecordsOK, ScanOK, Mapped, AssertsNeverFire,
     Kallocing, Kfreeing, InAlloc, InRange
<1>6. MappedOK'
  BY DEF KallocInv, MappedOK, Mapped, InAlloc, Building, Cleared, Kallocing
<1>7. SeenOK'
  BY DEF KallocInv, SeenOK, pageAllocVars
<1>8. StaleOK'
  <2>1. ASSUME p # pte[v]
        PROVE  pc = "unmap" /\ p \notin held /\ ~Mapped(v)
    <3>1. seen[v] = p /\ p # NULL
      BY <1>2, <2>1
    <3>2. pc = "unmap" /\ base <= v /\ v < va /\ seen[v] \notin held
      BY <2>1, <3>1 DEF KallocInv, SeenOK
    <3> QED
      BY <3>1, <3>2 DEF KallocInv, MappedOK, Cleared, Building, Kallocing
  <2>2. ASSUME NEW w \in VPage, Stale(w)'
        PROVE  Stale(w) \/ (w = v /\ p # pte[v])
    BY <1>3, <2>2 DEF Stale
  <2> QED
    BY <1>3, <2>1, <2>2 DEF KallocInv, StaleOK, Stale, Mapped, pageAllocVars
<1>9. HeldOK' /\ NewPageOK'
  BY DEF KallocInv, HeldOK, Mapped, NewPageOK, Released, Reserved, pageAllocVars
<1>10. PteOK'
  BY TablesStay DEF KallocInv
<1> QED
  BY <1>4, <1>5, <1>6, <1>7, <1>8, <1>9, <1>10 DEF KallocInv

(* A panic other than the two assertions, a write of a caller, a stutter.  *)
LEMMA OtherStep ==
  ASSUME KallocInv, UNCHANGED <<pageAllocVars, allocs, pc, locals, tables, tlb>>,
         ram' \in [PPage -> Value],
         panic' \in {panic, "noFreePages", "noVaRange", "noSlot", "notFound", "misaligned",
                     "pteFault"}
  PROVE  KallocInv'
<1> USE DEF locals, tables
<1>1. TypeOK' /\ PoolInv'
  BY StackStays DEF KallocInv, TypeOK, PageAllocTypeOK, pageAllocVars
<1>2. LocalsOK' /\ RecordsOK' /\ ScanOK' /\ AssertsNeverFire'
  BY DEF KallocInv, LocalsOK, RecordsOK, ScanOK, Mapped, AssertsNeverFire,
     Kallocing, Kfreeing, InAlloc, InRange
<1>3. MappedOK' /\ SeenOK' /\ StaleOK'
  BY DEF KallocInv, MappedOK, Mapped, InAlloc, Building, Cleared, Kallocing, SeenOK, StaleOK,
     Stale, pageAllocVars
<1>4. HeldOK' /\ NewPageOK' /\ PteOK'
  BY TablesStay DEF KallocInv, HeldOK, Mapped, NewPageOK, Released, Reserved, pageAllocVars
<1> QED
  BY <1>1, <1>2, <1>3, <1>4 DEF KallocInv

-----------------------------------------------------------------------------
(* The invariant holds at the start and is kept by every step.             *)

(* After kalloc_init() nothing is mapped, recorded or cached.              *)
LEMMA KallocInit == Init => KallocInv
<1> SUFFICES ASSUME Init
             PROVE  KallocInv
  OBVIOUS
<1> USE DEF Init
<1>1. PoolInv /\ held = Reserved
  BY InitThenTakePool, KallocAssumption DEF pageAlloc_initThenTake, Reserved
<1>2. TypeOK
  BY <1>1, KallocAssumption DEF TypeOK, PoolInv, Slot, VPage, NULL
<1>3. LocalsOK /\ RecordsOK /\ ScanOK /\ NewPageOK /\ AssertsNeverFire
  BY DEF LocalsOK, RecordsOK, ScanOK, NewPageOK, AssertsNeverFire,
     Kallocing, Kfreeing, InAlloc
<1>4. MappedOK
  BY DEF MappedOK, Mapped, InAlloc, Building, Kallocing
<1>5. SeenOK /\ StaleOK
  BY DEF SeenOK, StaleOK, Stale
<1>6. HeldOK
  BY <1>1 DEF HeldOK, Mapped
<1>7. PteOK
  BY NullNotReserved DEF PteOK, Mapped
<1> QED
  BY <1>1, <1>2, <1>3, <1>4, <1>5, <1>6, <1>7 DEF KallocInv

(* Every step preserves the invariant.                                     *)
LEMMA KallocNext == KallocInv /\ [Next]_vars => KallocInv'
<1> SUFFICES ASSUME KallocInv, [Next]_vars
             PROVE  KallocInv'
  OBVIOUS
<1>1. ram \in [PPage -> Value]
  BY DEF KallocInv, TypeOK
<1>2. CASE \E bytes \in Requests : kalloc(bytes)
  BY <1>2, KallocStep
<1>3. CASE \E v \in VPage \cup {NULL} : kfree(v)
  BY <1>3, KfreeStep
<1>4. CASE \E v \in VPage \cup {NULL}, offset \in 0 .. PageSize - 1 : kfreeFails(v, offset)
  BY <1>1, <1>4, OtherStep DEF kfreeFails
<1>5. CASE ScanMapped \/ ScanFree \/ ScanFound
  BY <1>5, ScanMappedStep, ScanFreeStep, ScanFoundStep
<1>6. CASE ScanFails \/ RecordFails \/ PteFault
  BY <1>1, <1>6, OtherStep DEF ScanFails, RecordFails, PteFault
<1>7. CASE AllocPageFails
  BY <1>1, <1>7, OtherStep DEF AllocPageFails, pageAlloc_allocFails
<1>8. CASE AllocPage \/ MapPage \/ MapSync \/ Record
  BY <1>8, AllocPageStep, MapPageStep, MapSyncStep, RecordStep
<1>9. CASE FreePage \/ FreeDone \/ UnmapPage \/ UnmapSync \/ Clear
  BY <1>9, FreePageStep, FreeDoneStep, UnmapPageStep, UnmapSyncStep, ClearStep
<1>10. CASE \E v \in VPage : TlbFill(v)
  BY <1>10, TlbFillStep
<1>11. CASE \E v \in VPage, x \in Stores : Write(v, x)
  BY <1>1, <1>11, OtherStep, KallocAssumption DEF Write, kernelVars
<1>12. CASE Halted \/ UNCHANGED vars
  BY <1>1, <1>12, OtherStep DEF Halted, vars, kernelVars
<1> QED
  BY <1>2, <1>3, <1>4, <1>5, <1>6, <1>7, <1>8, <1>9, <1>10, <1>11, <1>12
  DEF Next, Call, Step, Environment

(* The invariant holds always.                                             *)
LEMMA KallocInvariant == Spec => []KallocInv
  BY KallocInit, KallocNext, PTL DEF Spec

-----------------------------------------------------------------------------

(* The state is always well typed.                                         *)
THEOREM KallocTypeOK == Spec => []TypeOK
<1>1. KallocInv => TypeOK
  BY DEF KallocInv
<1> QED
  BY <1>1, KallocInvariant, PTL

(* The assertions of vm_map() and pageAlloc_free() never fail.             *)
THEOREM KallocAssertsNeverFire == Spec => []AssertsNeverFire
<1>1. KallocInv => AssertsNeverFire
  BY DEF KallocInv
<1> QED
  BY <1>1, KallocInvariant, PTL

(* Between calls records, tables and stack agree.                          *)
THEOREM KallocAccounted == Spec => []Accounted
<1>1. KallocInv => Accounted
  <2> SUFFICES ASSUME KallocInv, pc = "idle"
               PROVE  /\ \A v \in VPage : Mapped(v) <=> Owned(v)
                      /\ \A i, j \in Slot, v \in VPage : InAlloc(i, v) /\ InAlloc(j, v) => i = j
                      /\ held = Reserved \cup {pte[v] : v \in {w \in VPage : Mapped(w)}}
    BY DEF Accounted
  <2>1. Typed
    BY KallocTyped
  <2>2. \A v \in VPage : ~Building(v) /\ ~Cleared(v) /\ ~Released(v)
    BY DEF Building, Kallocing, Cleared, Released
  <2>3. \A v \in VPage : Mapped(v) <=> Owned(v)
    BY <2>2 DEF KallocInv, MappedOK, Owned, Owns, Freeing
  <2>4. ASSUME NEW p \in held \ Reserved
        PROVE  \E v \in VPage : Mapped(v) /\ pte[v] = p
    <3>1. p # NULL
      BY <2>1 DEF Typed, KallocInv, TypeOK, PageAllocTypeOK
    <3> QED
      BY <3>1 DEF KallocInv, HeldOK, Mapped
  <2>5. ASSUME NEW v \in VPage, Mapped(v)
        PROVE  pte[v] \in held
    BY <2>2, <2>5 DEF KallocInv, HeldOK
  <2>6. Reserved \subseteq held
    BY DEF KallocInv, HeldOK
  <2>7. held = Reserved \cup {pte[v] : v \in {w \in VPage : Mapped(w)}}
    BY <2>4, <2>5, <2>6
  <2> QED
    BY <2>3, <2>7 DEF KallocInv, RecordsOK
<1> QED
  BY <1>1, KallocInvariant, PTL

(* A walk and the TLB show an owner the entry the tables hold, away from   *)
(* the range of the call in progress; its page is in use.                  *)
LEMMA OwnerTranslation ==
  ASSUME KallocInv, NEW v \in VPage, Owned(v)
  PROVE  /\ Mapped(v) /\ seen[v] = pte[v] /\ tlb[v] \in {NULL, pte[v]}
         /\ Translate(v) = pte[v] /\ pte[v] \in held
         /\ Kallocing \/ Kfreeing => ~InRange(v)
<1>1. Typed
  BY KallocTyped
<1>2. PICK i \in Slot : InAlloc(i, v) /\ ~Freeing(i)
  BY DEF Owned, Owns
<1>3. Kfreeing => ~InRange(v)
  BY <1>2, RangeIsRecord DEF Kfreeing, Freeing
<1>4. Kallocing => ~InRange(v)
  BY <1>2 DEF KallocInv, RecordsOK
<1>5. ~Cleared(v) /\ ~Released(v) /\ (pc = "unmap" => ~(base <= v /\ v < va))
  BY <1>1, <1>3 DEF Typed, Cleared, Released, InRange, Kfreeing, KallocInv, LocalsOK
<1>6. ~(pc = "mapSync" /\ v = va)
  BY <1>1, <1>4 DEF Typed, InRange, Kallocing, KallocInv, LocalsOK
<1>7. Mapped(v)
  BY <1>2, <1>5 DEF KallocInv, MappedOK
<1>8. seen[v] = pte[v]
  BY <1>5, <1>6 DEF KallocInv, SeenOK
<1>9. tlb[v] \in {NULL, pte[v]}
  BY <1>6, <1>7 DEF KallocInv, StaleOK, Stale
<1>10. pte[v] \in held
  BY <1>5, <1>7 DEF KallocInv, HeldOK
<1> QED
  BY <1>3, <1>4, <1>7, <1>8, <1>9, <1>10 DEF Translate

(* No step makes a page an owner uses reachable from elsewhere: another    *)
(* entry, a walk that reads an entry kfree() has removed, or a translation *)
(* kfree() left in the TLB.                                                *)
THEOREM KallocNoAliasing == Spec => []NoAliasing
<1>1. ASSUME KallocInv, NEW v \in VPage, NEW w \in VPage, v # w, Owned(v)
      PROVE  Reach(v) \cap Reach(w) = {}
  <2>1. Mapped(v) /\ pte[v] \in held /\ Reach(v) = {pte[v]} /\ (Kallocing => ~InRange(v))
    BY <1>1, OwnerTranslation DEF Reach, Mapped
  <2>2. pte[w] # pte[v]
    BY <1>1, <2>1 DEF KallocInv, PteOK
  <2>3. pc \in {"map", "mapSync"} => pa # pte[v]
    <3>1. CASE pc = "map"
      BY <1>1, <3>1 DEF KallocInv, NewPageOK
    <3>2. CASE pc = "mapSync"
      <4>1. Typed /\ va \in VPage /\ va # v
        BY <1>1, <2>1, <3>2, KallocTyped, KallocAssumption
        DEF Typed, KallocInv, LocalsOK, Kallocing, InRange, VPage
      <4>2. pte[va] = pa
        BY <1>1, <3>2 DEF KallocInv, NewPageOK
      <4> QED
        BY <1>1, <2>1, <4>1, <4>2 DEF KallocInv, PteOK
    <3> QED
      BY <3>1, <3>2
  <2>4. tlb[w] # pte[v]
    BY <1>1, <2>1, <2>2, <2>3 DEF KallocInv, StaleOK, Stale, Mapped
  <2>5. seen[w] # pte[v]
    BY <1>1, <2>1, <2>2 DEF KallocInv, SeenOK, Mapped
  <2> QED
    BY <2>1, <2>2, <2>4, <2>5 DEF Reach
<1>2. ASSUME KallocInv, NEW v \in VPage
      PROVE  Reach(v) \cap Reserved = {}
  <2>1. Reserved \subseteq held /\ pte[v] \notin Reserved
    BY <1>2 DEF KallocInv, HeldOK, PteOK
  <2>2. seen[v] = NULL \/ seen[v] \notin Reserved
    BY <1>2, <2>1 DEF KallocInv, SeenOK
  <2>3. tlb[v] = NULL \/ tlb[v] \notin Reserved
    <3>1. pc \in {"map", "mapSync"} => pa \notin Reserved
      <4>1. pc = "mapSync" => va \in VPage
        BY <1>2, KallocTyped, KallocAssumption DEF Typed, KallocInv, LocalsOK, Kallocing, VPage
      <4> QED
        BY <1>2, <4>1 DEF KallocInv, NewPageOK, PteOK
    <3> QED
      BY <1>2, <2>1, <3>1 DEF KallocInv, StaleOK, Stale
  <2> QED
    BY <2>1, <2>2, <2>3 DEF Reach
<1>3. KallocInv => NoAliasing
  BY <1>1, <1>2 DEF NoAliasing, KallocInv, PteOK
<1> QED
  BY <1>3, KallocInvariant, PTL

(* A free page is mapped only in the range being freed, never reached by   *)
(* an owner, and out of reach of everyone once kalloc() has mapped a page. *)
THEOREM KallocFreePagesUnreachable == Spec => []FreePagesUnreachable
<1>1. ASSUME KallocInv
      PROVE  \A p \in FreePages : p \notin held /\ p # NULL
  BY <1>1, FreeIsNotHeld, KallocTyped DEF KallocInv, Typed
<1>2. ASSUME KallocInv, NEW v \in VPage, pte[v] \in FreePages
      PROVE  pc \in {"free", "unmap"} /\ InAlloc(info, v)
  <2>1. Typed
    BY <1>2, KallocTyped
  <2>2. Mapped(v) /\ Released(v)
    BY <1>1, <1>2 DEF KallocInv, HeldOK, Mapped
  <2>3. InRange(v) /\ Kfreeing
    BY <1>2, <2>1, <2>2 DEF Typed, Released, InRange, KallocInv, LocalsOK, Kfreeing
  <2>4. pc # "clear"
    BY <1>2, <2>2, <2>3 DEF KallocInv, MappedOK, Building, Kallocing, Cleared, InRange
  <2> QED
    BY <1>2, <2>3, <2>4, RangeIsRecord DEF Kfreeing
<1>3. ASSUME KallocInv, NEW v \in VPage, Owned(v)
      PROVE  Reach(v) \cap FreePages = {}
  BY <1>1, <1>3, OwnerTranslation DEF Reach
<1>4. ASSUME KallocInv, NEW v \in VPage, pc = "alloc", va > base
      PROVE  Reach(v) \cap FreePages = {}
  <2>1. Reach(v) \subseteq {pte[v]}
    BY <1>4 DEF Reach, KallocInv, SeenOK, StaleOK, Stale
  <2>2. Mapped(v) => pte[v] \in held
    BY <1>4 DEF KallocInv, HeldOK, Released
  <2> QED
    BY <1>1, <1>4, <2>1, <2>2 DEF Mapped
<1>5. KallocInv => FreePagesUnreachable
  BY <1>2, <1>3, <1>4 DEF FreePagesUnreachable
<1> QED
  BY <1>5, KallocInvariant, PTL

(* No step changes what physical page an owner's accesses go to.           *)
THEOREM KallocOwnedPagesStay == Spec => OwnedPagesStay
<1> DEFINE Steady == \A v \in VPage : Owned(v) => Translate(v) = pte[v]
<1>1. KallocInv => Steady
  BY OwnerTranslation
<1>2. KallocInv /\ Steady /\ Steady' /\ [Next]_vars
      => [\A v \in VPage : Owned(v) /\ Owned(v)' => Translate(v)' = Translate(v)]_vars
  <2> SUFFICES ASSUME KallocInv, Steady, Steady', Next,
                      NEW v \in VPage, Owned(v), Owned(v)'
               PROVE  Translate(v)' = Translate(v)
    BY DEF VPage
  <2>1. Typed
    BY KallocTyped
  <2>2. Translate(v) = pte[v] /\ (Kallocing \/ Kfreeing => ~InRange(v))
    BY OwnerTranslation
  <2>3. Translate(v)' = pte'[v]
    BY DEF VPage
  <2>4. pte'[v] = pte[v]
    <3>1. CASE MapPage
      <4>1. va # v
        BY <2>2, <3>1 DEF MapPage, At, KallocInv, LocalsOK, Kallocing, InRange
      <4> QED
        BY <2>1, <3>1, <4>1 DEF MapPage, Typed
    <3>2. CASE UnmapPage
      <4>1. va # v
        BY <2>2, <3>2 DEF UnmapPage, At, KallocInv, LocalsOK, Kfreeing, InRange
      <4> QED
        BY <2>1, <3>2, <4>1 DEF UnmapPage, Typed
    <3>3. CASE ~MapPage /\ ~UnmapPage
      BY <3>3 DEF Next, Call, Step, Environment, Halted, vars, tables,
         kalloc, kfree, kfreeFails, ScanMapped, ScanFree, ScanFound, ScanFails,
         AllocPage, AllocPageFails, MapSync, Record, RecordFails, FreePage, FreeDone,
         UnmapSync, Clear, PteFault, TlbFill, Write
    <3> QED
      BY <3>1, <3>2, <3>3
  <2> QED
    BY <2>2, <2>3, <2>4
<1> QED
  BY <1>1, <1>2, KallocInvariant, PTL DEF Spec, OwnedPagesStay

-----------------------------------------------------------------------------
(* kalloc() serves every request it can: it refuses one only for lack of   *)
(* room, gives no less than was asked for, and what it found it can map    *)
(* and free.                                                               *)

(* The pages before va are mapped where the run of count free pages ends,  *)
(* and contain no run that would have been long enough.                    *)
SearchOK ==
  pc = "scan" /\ size > 0 =>
    /\ count < size
    /\ va - count > VRamStart => Mapped(va - count - 1)
    /\ \A start \in VPage : start + size <= va =>
         \E v \in VPage : start <= v /\ v < start + size /\ Mapped(v)

(* A range that was searched, or that is recorded, can be accessed.        *)
WindowOK ==
  /\ pc = "scan" => \A v \in VPage : va - count <= v /\ v < va => v \in window
  /\ Kallocing => \A v \in VPage : InRange(v) => v \in window
  /\ \A i \in Slot, v \in VPage : InAlloc(i, v) => v \in window

(* size is what PAGE_ROUND_UP made of the request.                         *)
RequestOK == pc = "scan" \/ Kallocing => request \in Requests /\ size = PageRoundUp(request)

PanicOK ==
  /\ panic = "noVaRange" => pc = "scan" /\ va = VRamEnd
  /\ panic = "pteFault" => pc = "scan"

ServiceInv == SearchOK /\ WindowOK /\ RequestOK /\ PanicOK

-----------------------------------------------------------------------------

(* No call is in progress at first.                                        *)
LEMMA ServiceInit == Init => ServiceInv
  BY DEF Init, ServiceInv, SearchOK, WindowOK, RequestOK, PanicOK, Kallocing, InAlloc

(* The search has found no run of free entries it did not stop at.         *)
LEMMA SearchNext == KallocInv /\ SearchOK /\ [Next]_vars => SearchOK'
<1> SUFFICES ASSUME KallocInv, SearchOK, [Next]_vars, pc' = "scan", size' > 0
             PROVE  SearchOK'
  BY DEF SearchOK
<1>1. Typed
  BY KallocTyped
<1>2. CASE \E bytes \in Requests : kalloc(bytes)
  <2>1. PICK bytes \in Requests : kalloc(bytes)
    BY <1>2
  <2>2. PICK n \in Nat : n > 0 /\ size' = n
    BY <2>1, PageRoundUpType DEF kalloc
  <2>3. count' = 0 /\ va' = VRamStart
    BY <2>1 DEF kalloc, At, KallocInv, LocalsOK
  <2>4. \A start \in VPage : ~(start + n <= VRamStart)
    BY <2>2, KallocAssumption DEF VPage
  <2> QED
    BY <2>2, <2>3, <2>4, KallocAssumption DEF SearchOK
<1>3. CASE ScanMapped
  <2> USE DEF ScanMapped, tables, Scanning, At
  <2>1. va \in VPage /\ Mapped(va)
    BY <1>1, <1>3, KallocAssumption DEF KallocInv, LocalsOK, Typed, VPage
  <2>2. ASSUME NEW start \in VPage, start + size <= va + 1
        PROVE  \E v \in VPage : start <= v /\ v < start + size /\ Mapped(v)
    <3>1. CASE start + size <= va
      BY <1>3, <3>1 DEF SearchOK
    <3>2. CASE start + size = va + 1
      BY <1>1, <1>3, <2>1, <3>2 DEF Typed
    <3> QED
      BY <1>1, <2>2, <3>1, <3>2 DEF Typed
  <2> QED
    BY <1>1, <1>3, <2>1, <2>2 DEF SearchOK, Typed, Mapped
<1>4. CASE ScanFree
  <2> USE DEF ScanFree, tables, Scanning, At
  <2>1. va \in VPage /\ count < size /\ count + 1 < size /\ VRamStart <= va - count
    BY <1>1, <1>4, KallocAssumption DEF KallocInv, LocalsOK, Typed, VPage, SearchOK
  <2>2. ASSUME NEW start \in VPage, start + size <= va + 1
        PROVE  \E v \in VPage : start <= v /\ v < start + size /\ Mapped(v)
    <3>1. CASE start + size <= va
      BY <1>4, <3>1 DEF SearchOK
    <3>2. CASE start + size = va + 1
      <4>1. start <= va - count - 1 /\ va - count - 1 \in VPage
        BY <1>1, <2>1, <3>2, KallocAssumption DEF Typed, VPage
      <4>2. Mapped(va - count - 1)
        BY <1>1, <1>4, <4>1, KallocAssumption DEF Typed, SearchOK, VPage
      <4>3. va - count - 1 < start + size
        BY <1>1, <3>2 DEF Typed
      <4> QED
        BY <4>1, <4>2, <4>3
    <3> QED
      BY <1>1, <2>2, <3>1, <3>2 DEF Typed
  <2> QED
    BY <1>1, <1>4, <2>1, <2>2 DEF SearchOK, Typed, Mapped
<1>5. CASE UNCHANGED <<pc, size, count, va, pte>>
  BY <1>5 DEF SearchOK, Mapped
<1> QED
  BY <1>2, <1>3, <1>4, <1>5
  DEF Next, Call, Step, Environment, Halted, vars, tables, kernelVars, locals, At, Return,
      kfree, kfreeFails, ScanFound, ScanFails, AllocPage, AllocPageFails, MapPage, MapSync,
      Record, RecordFails, FreePage, FreeDone, UnmapPage, UnmapSync, Clear, PteFault,
      TlbFill, Write

(* The tables of V_RAM are made once, before kalloc() is used.             *)
LEMMA WindowStays == [Next]_vars => UNCHANGED window
  BY DEF Next, Call, Step, Environment, Halted, vars, tables, InvalidateTLB,
     kalloc, kfree, kfreeFails, ScanMapped, ScanFree, ScanFound, ScanFails,
     AllocPage, AllocPageFails, MapPage, MapSync, Record, RecordFails, FreePage, FreeDone,
     UnmapPage, UnmapSync, Clear, PteFault, TlbFill, Write

(* What is mapped or about to be lies where the tables can be accessed.    *)
LEMMA WindowNext == KallocInv /\ WindowOK /\ [Next]_vars => WindowOK'
<1> SUFFICES ASSUME KallocInv, WindowOK, [Next]_vars
             PROVE  WindowOK'
  OBVIOUS
<1>1. Typed
  BY KallocTyped
<1>8. window' = window
  BY WindowStays
<1>2. CASE \E bytes \in Requests : kalloc(bytes)
  <2>1. count' = 0 /\ va' = VRamStart /\ pc' = "scan" /\ UNCHANGED allocs
    BY <1>2 DEF kalloc, At, KallocInv, LocalsOK
  <2> QED
    BY <1>8, <2>1, KallocAssumption DEF WindowOK, Kallocing, InAlloc, VPage
<1>3. CASE ScanMapped \/ ScanFree
  BY <1>1, <1>3, <1>8 DEF Typed, WindowOK, ScanMapped, ScanFree, Scanning, At, Kallocing, InAlloc
<1>4. CASE ScanFound
  <2>1. /\ base' = va - count /\ size' = size /\ size = count + 1 /\ va \in window
        /\ pc = "scan" /\ pc' = "alloc" /\ UNCHANGED allocs
    BY <1>1, <1>4 DEF Typed, ScanFound, Scanning, At
  <2>2. ASSUME NEW v \in VPage, InRange(v)'
        PROVE  v \in window
    BY <1>1, <2>1, <2>2 DEF Typed, WindowOK, InRange
  <2>3. \A i \in Slot, v \in VPage : InAlloc(i, v)' => v \in window
    BY <2>1 DEF WindowOK, InAlloc
  <2> QED
    BY <1>8, <2>1, <2>2, <2>3 DEF WindowOK
<1>5. CASE Record
  <2>1. PICK k \in Slot : allocs' = [allocs EXCEPT ![k] = [virtualAddr |-> base, size |-> size]]
    BY <1>5 DEF Record
  <2>2. \A i \in Slot, v \in VPage : InAlloc(i, v)' => InAlloc(i, v) \/ InRange(v)
    BY <1>1, <2>1 DEF Typed, InAlloc, InRange
  <2> QED
    BY <1>5, <1>8, <2>2 DEF Record, At, Return, WindowOK, Kallocing
<1>6. CASE Clear
  <2>1. \A i \in Slot, v \in VPage : InAlloc(i, v)' => InAlloc(i, v)
    BY <1>1, <1>6 DEF Typed, Clear, InAlloc
  <2> QED
    BY <1>6, <1>8, <2>1 DEF Clear, Return, WindowOK, Kallocing
<1>7. CASE /\ UNCHANGED allocs
           /\ pc' # "scan" \/ UNCHANGED <<pc, va, count>>
           /\ ~Kallocing' \/ (Kallocing /\ UNCHANGED <<base, size>>)
  BY <1>7, <1>8 DEF WindowOK, InAlloc, InRange
<1> QED
  BY <1>2, <1>3, <1>4, <1>5, <1>6, <1>7
  DEF Next, Call, Step, Environment, Halted, vars, tables, kernelVars, locals, At, Kallocing,
      kfree, kfreeFails, ScanFails, AllocPage, AllocPageFails, MapPage, MapSync,
      RecordFails, FreePage, FreeDone, UnmapPage, UnmapSync, PteFault,
      TlbFill, Write

(* The size in progress stays the one PAGE_ROUND_UP gave.                  *)
LEMMA RequestNext == RequestOK /\ [Next]_vars => RequestOK'
<1> SUFFICES ASSUME RequestOK, [Next]_vars
             PROVE  RequestOK'
  OBVIOUS
<1> USE DEF At
<1>1. CASE \E bytes \in Requests : kalloc(bytes)
  BY <1>1 DEF kalloc, RequestOK, PageRoundUp
<1>2. CASE ScanMapped \/ ScanFree \/ ScanFound \/ AllocPage \/ MapPage \/ MapSync
  BY <1>2 DEF ScanMapped, ScanFree, ScanFound, Scanning, AllocPage, MapPage, MapSync,
     locals, RequestOK, Kallocing, PageRoundUp
<1>3. CASE Record \/ Clear
  BY <1>3 DEF Record, Clear, Return, RequestOK, Kallocing
<1>4. CASE \/ \E v \in VPage \cup {NULL} : kfree(v)
           \/ FreePage \/ FreeDone \/ UnmapPage \/ UnmapSync
  BY <1>4 DEF kfree, FreePage, FreeDone, UnmapPage, UnmapSync, RequestOK, Kallocing
<1>5. CASE UNCHANGED <<pc, request, size>>
  BY <1>5 DEF RequestOK, Kallocing, PageRoundUp
<1> QED
  BY <1>1, <1>2, <1>3, <1>4, <1>5
  DEF Next, Call, Step, Environment, Halted, vars, tables, kernelVars, locals, kfreeFails,
      ScanFails, AllocPageFails, RecordFails, PteFault, TlbFill, Write

(* Only the search runs into an entry that cannot be accessed.             *)
LEMMA FaultInSearch ==
  ASSUME KallocInv, WindowOK, PteFault
  PROVE  pc = "scan"
<1> SUFFICES ASSUME pc # "scan"
             PROVE  FALSE
  OBVIOUS
<1>1. Typed
  BY KallocTyped
<1>2. va \in VPage /\ InRange(va)
  BY <1>1, KallocAssumption
  DEF PteFault, At, Typed, KallocInv, LocalsOK, RecordsOK, Kallocing, Kfreeing, InRange, VPage
<1>3. CASE Kallocing
  BY <1>2, <1>3 DEF PteFault, WindowOK
<1>4. CASE Kfreeing
  BY <1>1, <1>2, <1>4, RangeIsRecord DEF PteFault, WindowOK, Typed
<1> QED
  BY <1>3, <1>4 DEF PteFault, At, Kallocing, Kfreeing

(* A panic keeps the reason for which it was raised.                       *)
LEMMA PanicNext == KallocInv /\ WindowOK /\ PanicOK /\ [Next]_vars => PanicOK'
<1> SUFFICES ASSUME KallocInv, WindowOK, PanicOK, [Next]_vars
             PROVE  PanicOK'
  OBVIOUS
<1>1. CASE PteFault
  BY <1>1, FaultInSearch DEF PteFault, PanicOK, locals
<1>2. CASE ScanFails
  BY <1>2 DEF ScanFails, At, PanicOK, locals
<1>3. CASE panic' \notin {"noVaRange", "pteFault"} \/ UNCHANGED <<panic, pc, va>>
  BY <1>3 DEF PanicOK
<1> QED
  BY <1>1, <1>2, <1>3
  DEF Next, Call, Step, Environment, Halted, vars, tables, kernelVars, locals, At, Scanning,
      pageAlloc_allocFails, pageAlloc_free,
      kalloc, kfree, kfreeFails, ScanMapped, ScanFree, ScanFound, AllocPage,
      AllocPageFails, MapPage, MapSync, Record, RecordFails, FreePage, FreeDone,
      UnmapPage, UnmapSync, Clear, TlbFill, Write

(* The four parts hold always.                                             *)
LEMMA ServiceInvariant == Spec => []ServiceInv
<1>1. KallocInv /\ ServiceInv /\ [Next]_vars => ServiceInv'
  BY SearchNext, WindowNext, RequestNext, PanicNext DEF ServiceInv
<1> QED
  BY <1>1, ServiceInit, KallocInvariant, PTL DEF Spec

-----------------------------------------------------------------------------

(* A request is refused only if no run of free pages was long enough.      *)
THEOREM KallocRefusesOnlyWhenFragmented == Spec => []RefusesOnlyWhenFragmented
<1>1. KallocInv /\ ServiceInv => RefusesOnlyWhenFragmented
  <2> SUFFICES ASSUME KallocInv, ServiceInv, panic = "noVaRange", size > 0,
                      NEW start \in VRamStart .. VRamEnd - size
               PROVE  \E v \in start .. start + size - 1 : Mapped(v)
    BY DEF RefusesOnlyWhenFragmented
  <2>1. Typed
    BY KallocTyped
  <2>2. pc = "scan" /\ va = VRamEnd /\ start \in VPage /\ start + size <= va
    BY <2>1, KallocAssumption DEF Typed, ServiceInv, PanicOK, VPage
  <2>3. PICK v \in VPage : start <= v /\ v < start + size /\ Mapped(v)
    BY <2>2 DEF ServiceInv, SearchOK
  <2> QED
    BY <2>1, <2>2, <2>3, KallocAssumption DEF Typed, VPage
<1> QED
  BY <1>1, KallocInvariant, ServiceInvariant, PTL

(* Only the search runs into a hole in the page tables of V_RAM.           *)
THEOREM KallocOnlyTheSearchFaults == Spec => []OnlyTheSearchFaults
<1>1. ServiceInv => OnlyTheSearchFaults
  BY DEF ServiceInv, PanicOK, OnlyTheSearchFaults
<1> QED
  BY <1>1, ServiceInvariant, PTL

(* Rounding up never makes a request smaller, unless the sum wraps; then   *)
(* nothing is left of it.                                                  *)
LEMMA PageRoundUpCovers ==
  ASSUME NEW bytes \in Requests
  PROVE  PageRoundUp(bytes) = 0 \/ PageRoundUp(bytes) * PageSize >= bytes
<1> DEFINE sum == bytes + PageSize - 1
<1>1. /\ PageSize \in Nat \ {0} /\ UintMod \in Nat \ {0} /\ PageSize <= UintMod
      /\ bytes \in Nat /\ bytes < UintMod
  BY KallocAssumption
<1>2. CASE sum < UintMod
  <2>1. sum \in Nat /\ sum % UintMod = sum
    BY <1>1, <1>2
  <2>2. sum < (sum \div PageSize) * PageSize + PageSize
    BY <1>1, <2>1
  <2>3. PageRoundUp(bytes) = sum \div PageSize
    BY <2>1 DEF PageRoundUp
  <2> HIDE DEF sum
  <2>4. bytes = sum - PageSize + 1 /\ (sum \div PageSize) * PageSize \in Int
    BY <1>1, <2>1 DEF sum
  <2> QED
    BY <1>1, <2>1, <2>2, <2>3, <2>4
<1>3. CASE sum >= UintMod
  <2>1. sum % UintMod = sum - UintMod /\ sum - UintMod \in Nat /\ sum - UintMod < PageSize
    BY <1>1, <1>3
  <2>2. (sum - UintMod) \div PageSize = 0
    BY <1>1, <2>1
  <2> QED
    BY <2>1, <2>2 DEF PageRoundUp
<1> QED
  BY <1>1, <1>2, <1>3

(* A call that is served gets the bytes it asked for.                      *)
THEOREM KallocGrantCoversRequest == Spec => []GrantCoversRequest
<1>1. KallocInv /\ ServiceInv => GrantCoversRequest
  <2> SUFFICES ASSUME KallocInv, ServiceInv, Kallocing
               PROVE  size * PageSize >= request
    BY DEF GrantCoversRequest, Kallocing
  <2>1. request \in Requests /\ size = PageRoundUp(request) /\ size >= 1
    BY DEF KallocInv, LocalsOK, ServiceInv, RequestOK
  <2> QED
    BY <2>1, PageRoundUpCovers
<1> QED
  BY <1>1, KallocInvariant, ServiceInvariant, PTL

-----------------------------------------------------------------------------
(* kalloc() and kfree(), with page tables, TLB and free stack, implement   *)
(* the heap of Heap.tla.                                                   *)

(* The heap as the records show it: a page belongs to the one record that  *)
(* covers it, and its contents are those of the page it is mapped to.      *)
HeapView ==
  /\ heapRegion = [v \in VPage |-> heapRegion[v]]
  /\ heapMem = [v \in VPage |-> heapMem[v]]
  /\ \A i \in Slot, v \in VPage : Owns(i, v) =>
       heapRegion[v] = allocs[i].virtualAddr /\ heapMem[v] = ram[pte[v]]
  /\ \A v \in VPage : ~Owned(v) => heapRegion[v] = NULL /\ heapMem[v] = NULL

(* The mapping of the refinement, spelled out from the invariant.          *)
LEMMA HeapViewHolds == KallocInv => HeapView
<1> SUFFICES ASSUME KallocInv
             PROVE  HeapView
  OBVIOUS
<1>1. ASSUME NEW i \in Slot, NEW v \in VPage, Owns(i, v)
      PROVE  heapRegion[v] = allocs[i].virtualAddr /\ heapMem[v] = ram[pte[v]]
  <2>1. Owned(v) /\ Translate(v) = pte[v]
    BY <1>1, OwnerTranslation DEF Owned
  <2>2. \A j \in Slot : Owns(j, v) => j = i
    BY <1>1 DEF Owns, KallocInv, RecordsOK
  <2>3. (CHOOSE j \in Slot : Owns(j, v)) = i
    BY <1>1, <2>2
  <2> QED
    BY <2>1, <2>3 DEF heapRegion, heapMem
<1>2. /\ heapRegion = [v \in VPage |-> heapRegion[v]]
      /\ heapMem = [v \in VPage |-> heapMem[v]]
      /\ \A v \in VPage : ~Owned(v) => heapRegion[v] = NULL /\ heapMem[v] = NULL
  BY DEF heapRegion, heapMem
<1> QED
  BY <1>1, <1>2 DEF HeapView

-----------------------------------------------------------------------------

(* Nobody's memory changes hands ...                                       *)
SameOwners ==
  \A i \in Slot, v \in VPage :
    /\ Owns(i, v)' <=> Owns(i, v)
    /\ Owns(i, v) => allocs'[i].virtualAddr = allocs[i].virtualAddr /\ pte'[v] = pte[v]

(* ... and then the heap does not change.                                  *)
LEMMA HeapStutters ==
  ASSUME HeapView, HeapView', SameOwners, UNCHANGED ram
  PROVE  UNCHANGED <<heapRegion, heapMem>>
<1>1. \A v \in VPage : Owned(v)' <=> Owned(v)
  BY DEF SameOwners, Owned, Slot
<1>2. ASSUME NEW v \in VPage
      PROVE  heapRegion'[v] = heapRegion[v] /\ heapMem'[v] = heapMem[v]
  <2>1. CASE Owned(v)
    <3>1. PICK i \in Slot : Owns(i, v)
      BY <2>1 DEF Owned
    <3>2. Owns(i, v)' /\ allocs'[i].virtualAddr = allocs[i].virtualAddr /\ pte'[v] = pte[v]
      BY <3>1 DEF SameOwners
    <3> QED
      BY <3>1, <3>2 DEF HeapView, Slot, VPage
  <2>2. CASE ~Owned(v)
    BY <1>1, <2>2 DEF HeapView, VPage
  <2> QED
    BY <2>1, <2>2
<1>3. VPage' = VPage
  BY DEF VPage
<1> QED
  BY <1>2, <1>3 DEF HeapView

(* Every step but four leaves the heap alone.                              *)
LEMMA QuietHeapStep ==
  ASSUME KallocInv, Next,
         ~Record, \A v \in VPage : ~kfree(v), \A v \in VPage, x \in Stores : ~Write(v, x)
  PROVE  SameOwners /\ UNCHANGED ram
<1>1. Typed
  BY KallocTyped
<1>2. CASE kfree(NULL)
  <2>1. PICK k \in Slot : allocs[k].virtualAddr = NULL /\ info' = k
    BY <1>2 DEF kfree, FirstSlot
  <2>2. \A i \in Slot, v \in VPage : Owns(i, v)' <=> Owns(i, v)
    BY <1>2, <2>1 DEF kfree, At, Owns, InAlloc, Freeing
  <2> QED
    BY <1>2, <2>2 DEF kfree, tables, SameOwners
<1>3. CASE Clear
  <2>1. PICK k \in Slot :
          /\ k = info /\ allocs'[k].virtualAddr = NULL
          /\ \A i \in Slot \ {k} : allocs'[i] = allocs[i]
    BY <1>1, <1>3 DEF Typed, Clear
  <2>2. \A v \in VPage : ~Owns(k, v) /\ ~Owns(k, v)'
    BY <1>3, <2>1 DEF Clear, At, Owns, InAlloc, Freeing
  <2>3. \A i \in Slot \ {k}, v \in VPage : Owns(i, v)' <=> Owns(i, v)
    BY <1>3, <2>1 DEF Clear, At, Return, Owns, InAlloc, Freeing
  <2> QED
    BY <1>3, <2>1, <2>2, <2>3 DEF Clear, tables, SameOwners
<1>4. CASE MapPage \/ UnmapPage
  <2>1. \A i \in Slot, v \in VPage : Owns(i, v)' <=> Owns(i, v)
    BY <1>4 DEF MapPage, UnmapPage, At, locals, Owns, InAlloc, Freeing
  <2>2. ASSUME NEW i \in Slot, NEW v \in VPage, Owns(i, v)
        PROVE  pte'[v] = pte[v]
    <3>1. ~InRange(v)
      BY <1>4, <2>2, OwnerTranslation
      DEF MapPage, UnmapPage, At, Owned, Kallocing, Kfreeing
    <3>2. v # va
      BY <1>4, <3>1 DEF MapPage, UnmapPage, At, KallocInv, LocalsOK, Kallocing, Kfreeing, InRange
    <3> QED
      BY <1>1, <1>4, <3>2 DEF MapPage, UnmapPage, Typed
  <2> QED
    BY <1>4, <2>1, <2>2 DEF MapPage, UnmapPage, SameOwners
<1>5. CASE /\ UNCHANGED <<allocs, pte, ram, info>>
           /\ pc \in {"free", "unmap", "clear"} <=> pc' \in {"free", "unmap", "clear"}
  BY <1>5 DEF SameOwners, Owns, InAlloc, Freeing
<1> QED
  BY <1>2, <1>3, <1>4, <1>5
  DEF Next, Call, Step, Environment, Halted, vars, tables, kernelVars, locals, At, Scanning,
      kalloc, kfreeFails, ScanMapped, ScanFree, ScanFound, ScanFails,
      AllocPage, AllocPageFails, MapSync, RecordFails, FreePage, FreeDone,
      UnmapSync, PteFault, TlbFill

(* Recording a range is what allocates it: its pages were nobody's.        *)
LEMMA RecordAllocates ==
  ASSUME KallocInv, HeapView, HeapView', Record
  PROVE  TheHeap!Next
<1> USE DEF tables, Record, At, Return
<1>1. Typed
  BY KallocTyped
<1>2. PICK k \in Slot :
        /\ allocs[k].virtualAddr = NULL
        /\ allocs' = [allocs EXCEPT ![k] = [virtualAddr |-> base, size |-> size]]
  BY DEF FirstSlot
<1>3. base \in VPage /\ size >= 1 /\ base + size <= VRamEnd /\ va = base + size /\ base # NULL
  BY <1>1 DEF Typed, KallocInv, LocalsOK, Kallocing
<1> DEFINE new == base .. base + size - 1
<1>4. new \subseteq VPage /\ new # {} /\ \A v \in VPage : v \in new <=> InRange(v)
  <2>1. base \in Nat /\ size \in Nat /\ base >= VRamStart /\ VRamStart \in Nat /\ VRamEnd \in Nat
    BY <1>1, <1>3, KallocAssumption DEF Typed, VPage
  <2>2. base \in new
    BY <1>3, <2>1
  <2>3. new \subseteq VPage
    BY <1>3, <2>1 DEF VPage
  <2>4. \A v \in VPage : v \in new <=> InRange(v)
    BY <2>1 DEF VPage, InRange
  <2> QED
    BY <2>2, <2>3, <2>4
<1>5. /\ allocs'[k].virtualAddr = base /\ allocs'[k].size = size
      /\ \A i \in Slot \ {k} : allocs'[i] = allocs[i]
  BY <1>1, <1>2 DEF Typed
<1>6. \A v \in VPage :
        /\ ~Owns(k, v)
        /\ Owns(k, v)' <=> InRange(v)
        /\ \A i \in Slot \ {k} : Owns(i, v)' <=> Owns(i, v)
  BY <1>2, <1>3, <1>5 DEF Owns, InAlloc, InRange, Freeing
<1>7. ASSUME NEW v \in VPage, v \in new
      PROVE  /\ heapRegion[v] = NULL
             /\ heapRegion'[v] = base
             /\ heapMem'[v] \in Value
  <2>1. ~Owned(v) /\ Owns(k, v)'
    BY <1>4, <1>6, <1>7 DEF Owned, Owns, KallocInv, RecordsOK, Kallocing
  <2>2. Mapped(v)
    BY <1>1, <1>3, <1>4, <1>7 DEF Typed, KallocInv, MappedOK, Building, Kallocing, InRange
  <2>3. ram[pte[v]] \in Value
    BY <1>1, <2>2 DEF Typed, Mapped, KallocInv, TypeOK
  <2> QED
    BY <1>5, <2>1, <2>3 DEF HeapView, VPage, Slot
<1>8. ASSUME NEW v \in VPage, v \notin new
      PROVE  heapRegion'[v] = heapRegion[v] /\ heapMem'[v] = heapMem[v]
  <2>1. \A i \in Slot : Owns(i, v)' <=> Owns(i, v)
    BY <1>4, <1>6, <1>8
  <2>2. CASE Owned(v)
    <3>1. PICK i \in Slot : Owns(i, v)
      BY <2>2 DEF Owned
    <3>2. i # k /\ Owns(i, v)'
      BY <1>6, <2>1, <3>1
    <3>3. allocs'[i] = allocs[i]
      BY <1>5, <3>2
    <3> QED
      BY <3>1, <3>2, <3>3 DEF HeapView, VPage, Slot
  <2>3. CASE ~Owned(v)
    BY <2>1, <2>3 DEF Owned, HeapView, VPage, Slot
  <2> QED
    BY <2>2, <2>3
<1>9. /\ heapRegion' = [v \in VPage |-> IF v \in new THEN base ELSE heapRegion[v]]
      /\ heapMem' = [v \in VPage |-> heapMem'[v]]
  BY <1>7, <1>8 DEF HeapView, VPage
<1>10. heapMem' \in [VPage -> Value \cup {NULL}]
  <2>1. \A v \in VPage : heapMem[v] \in Value \cup {NULL}
    <3> SUFFICES ASSUME NEW v \in VPage
                 PROVE  heapMem[v] \in Value \cup {NULL}
      OBVIOUS
    <3>1. CASE Owned(v)
      <4>1. PICK i \in Slot : Owns(i, v)
        BY <3>1 DEF Owned
      <4>2. ram[pte[v]] \in Value
        BY <1>1, <3>1, OwnerTranslation DEF Typed, Mapped, KallocInv, TypeOK
      <4> QED
        BY <4>1, <4>2 DEF HeapView
    <3>2. CASE ~Owned(v)
      BY <3>2 DEF HeapView
    <3> QED
      BY <3>1, <3>2
  <2> QED
    BY <1>7, <1>8, <1>9, <2>1
<1>11. \A v \in VPage : IF v \in new THEN heapMem'[v] \in Value ELSE heapMem'[v] = heapMem[v]
  BY <1>7, <1>8
<1>12. TheHeap!Alloc(base, size)
  BY <1>4, <1>7, <1>9, <1>10, <1>11 DEF TheHeap!Alloc
<1>13. base + size - 1 \in VPage /\ (base + size - 1) - base + 1 = size
  BY <1>1, <1>3, KallocAssumption DEF Typed, VPage
<1> QED
  BY <1>3, <1>12, <1>13 DEF TheHeap!Next

(* Finding the record is what frees the range: all of it, and no more.     *)
LEMMA KfreeFrees ==
  ASSUME KallocInv, HeapView, HeapView', NEW v \in VPage, kfree(v)
  PROVE  TheHeap!Next
<1> USE DEF tables, kfree, At
<1>1. Typed
  BY KallocTyped
<1>2. PICK k \in Slot : allocs[k].virtualAddr = v /\ info' = k
  BY DEF FirstSlot
<1>3. v # NULL /\ InAlloc(k, v)
  BY <1>1, <1>2 DEF Typed, KallocInv, RecordsOK, InAlloc
<1>4. \A i \in Slot, w \in VPage :
        /\ Owns(i, w) <=> InAlloc(i, w)
        /\ Owns(i, w)' <=> InAlloc(i, w) /\ i # k
  BY <1>2 DEF Owns, InAlloc, Freeing
<1>5. \A i \in Slot : allocs[i].virtualAddr = v => i = k
  BY <1>1, <1>2, <1>3 DEF Typed, KallocInv, RecordsOK, InAlloc
<1>6. ASSUME NEW w \in VPage
      PROVE  /\ heapRegion'[w] = IF heapRegion[w] = v THEN NULL ELSE heapRegion[w]
             /\ heapMem'[w] = IF heapRegion[w] = v THEN NULL ELSE heapMem[w]
  <2>1. CASE InAlloc(k, w)
    <3>1. heapRegion[w] = v
      BY <1>2, <1>4, <2>1 DEF HeapView
    <3>2. ~Owned(w)'
      BY <1>4, <2>1 DEF Owned, Slot, KallocInv, RecordsOK
    <3> QED
      BY <3>1, <3>2 DEF HeapView, VPage
  <2>2. ASSUME NEW i \in Slot, i # k, InAlloc(i, w)
        PROVE  heapRegion[w] # v /\ heapRegion'[w] = heapRegion[w] /\ heapMem'[w] = heapMem[w]
    <3>1. Owns(i, w) /\ Owns(i, w)'
      BY <1>4, <2>2
    <3> QED
      BY <1>5, <2>2, <3>1 DEF HeapView, VPage, Slot
  <2>3. CASE \A i \in Slot : ~InAlloc(i, w)
    <3>1. ~Owned(w) /\ ~Owned(w)'
      BY <1>4, <2>3 DEF Owned, Slot
    <3> QED
      BY <3>1 DEF HeapView, VPage
  <2> QED
    BY <2>1, <2>2, <2>3
<1>7. heapRegion[v] = v
  BY <1>2, <1>3, <1>4 DEF HeapView
<1>8. TheHeap!Free(v)
  BY <1>6, <1>7 DEF TheHeap!Free, HeapView, VPage
<1> QED
  BY <1>8 DEF TheHeap!Next

(* A write of an owner reaches no page of another one.                     *)
LEMMA WriteWrites ==
  ASSUME KallocInv, HeapView, HeapView', NEW v \in VPage, NEW x \in Value, Write(v, x)
  PROVE  TheHeap!Next
<1> USE DEF Write, tables, kernelVars, locals
<1>1. Typed
  BY KallocTyped
<1>2. \A i \in Slot, w \in VPage : Owns(i, w)' <=> Owns(i, w)
  BY DEF Owns, InAlloc, Freeing
<1>3. /\ pte[v] \in PPage /\ ram' = [ram EXCEPT ![pte[v]] = x]
  BY <1>1, OwnerTranslation DEF Typed, Mapped
<1>4. ASSUME NEW w \in VPage
      PROVE  /\ heapRegion'[w] = heapRegion[w]
             /\ heapMem'[w] = IF w = v THEN x ELSE heapMem[w]
  <2>1. CASE Owned(w)
    <3>1. PICK i \in Slot : Owns(i, w) /\ Owns(i, w)'
      BY <1>2, <2>1 DEF Owned
    <3>2. ram'[pte[w]] = IF w = v THEN x ELSE ram[pte[w]]
      <4>1. w # v => pte[w] # pte[v]
        BY <1>1, <2>1, OwnerTranslation DEF Typed, KallocInv, PteOK
      <4>2. pte[w] \in PPage
        BY <1>1, <2>1, OwnerTranslation DEF Typed, Mapped
      <4> QED
        BY <1>3, <4>1, <4>2 DEF KallocInv, TypeOK
    <3> QED
      BY <3>1, <3>2 DEF HeapView, VPage, Slot
  <2>2. CASE ~Owned(w)
    <3>1. ~Owned(w)' /\ w # v
      BY <1>2, <2>2 DEF Owned, Slot
    <3> QED
      BY <2>2, <3>1 DEF HeapView, VPage
  <2> QED
    BY <2>1, <2>2
<1>5. heapRegion[v] # NULL
  <2>1. PICK i \in Slot : Owns(i, v)
    BY DEF Owned
  <2> QED
    BY <2>1 DEF HeapView, Owns, InAlloc
<1>6. TheHeap!Write(v, x)
  BY <1>4, <1>5 DEF TheHeap!Write, HeapView, VPage
<1> QED
  BY <1>6 DEF TheHeap!Next

(* Memory of a caller keeps what was written to it and belongs to nobody   *)
(* else until it is freed, whatever the TLB holds.                         *)
THEOREM KallocImplementsHeap == Spec => ImplementsHeap
<1>1. Init => TheHeap!Init
  <2> SUFFICES ASSUME Init
               PROVE  TheHeap!Init
    OBVIOUS
  <2>1. \A v \in VPage : ~Owned(v)
    BY DEF Init, Owned, Owns, InAlloc
  <2> QED
    BY <2>1 DEF TheHeap!Init, heapRegion, heapMem
<1>2. KallocInv => HeapView
  BY HeapViewHolds
<1>3. KallocInv /\ HeapView /\ HeapView' /\ [Next]_vars
      => [TheHeap!Next]_<<heapRegion, heapMem>>
  <2> SUFFICES ASSUME KallocInv, HeapView, HeapView', [Next]_vars
               PROVE  TheHeap!Next \/ UNCHANGED <<heapRegion, heapMem>>
    OBVIOUS
  <2>1. CASE Record
    BY <2>1, RecordAllocates
  <2>2. CASE \E v \in VPage : kfree(v)
    BY <2>2, KfreeFrees
  <2>3. CASE \E v \in VPage, x \in Stores : Write(v, x)
    BY <2>3, WriteWrites, KallocAssumption
  <2>4. CASE UNCHANGED vars
    BY <2>4, HeapStutters
    DEF vars, tables, kernelVars, locals, SameOwners, Owns, InAlloc, Freeing
  <2>5. CASE /\ Next /\ ~Record /\ \A v \in VPage : ~kfree(v)
             /\ \A v \in VPage, x \in Stores : ~Write(v, x)
    BY <2>5, QuietHeapStep, HeapStutters
  <2> QED
    BY <2>1, <2>2, <2>3, <2>4, <2>5
<1> QED
  BY <1>1, <1>2, <1>3, KallocInvariant, PTL DEF Spec, ImplementsHeap, TheHeap!Spec
=============================================================================
