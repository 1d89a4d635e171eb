-------------------------------- MODULE Kalloc --------------------------------
(***************************************************************************)
(* The kernel allocator, src/src/kalloc.c, with the parts of vm.c and      *)
(* pageAlloc.c it is made of: kalloc() searches V_RAM for a free range of  *)
(* virtual pages, takes a physical page for each and maps it, and records  *)
(* the range in allocs[]; kfree() gives the pages back, unmaps the range   *)
(* and clears the record.                                                  *)
(*                                                                         *)
(* One step of the kernel is one page table access, one call of the page   *)
(* allocator or one access to allocs[]: between two of them the hardware   *)
(* may fill its TLB and other code (an interrupt handler) may use memory   *)
(* it was given before.                                                    *)
(*                                                                         *)
(* Addresses are counted in pages, as in PageAlloc; NULL is 0.             *)
(***************************************************************************)
EXTENDS PageAlloc

CONSTANTS
  VRamStart,   \* V_RAM_START / PAGE_SIZE
  VRamEnd,     \* V_RAM_END / PAGE_SIZE
  MaxAllocs,   \* MAX_ALLOCS of kalloc.c: the entries of allocs[]
  NumTables,   \* the pages vm_init() took for the page tables
  PageSize,    \* PAGE_SIZE
  UintMod,     \* 2^32: a uint counts modulo this
  Requests,    \* the sizes in bytes callers ask for
  Value,       \* what a page of memory can hold
  Stores,      \* what callers store in their memory
  Junk,        \* what the managed pages may contain to begin with
  Windows      \* the windows to consider; see window below

ASSUME KallocAssumption ==
  /\ VRamStart \in Nat \ {0} /\ VRamEnd \in Nat /\ VRamStart < VRamEnd
  /\ MaxAllocs \in Nat \ {0}
  /\ NumTables \in 0 .. MaxPages
  /\ PageSize \in Nat \ {0}
  /\ UintMod \in Nat \ {0} /\ PageSize <= UintMod
  /\ Requests \subseteq 0 .. UintMod - 1
  /\ Windows \subseteq SUBSET (VRamStart .. VRamEnd - 1)
  /\ Stores \subseteq Value /\ Junk \subseteq [PPage -> Value]

(* window is the contract of vm_getPTE(): the comment at vm.c:198 has the  *)
(* last entry of kernelPagetable point back at kernelPagetable, and the    *)
(* tables for V_RAM must exist.  An access to any other entry faults.      *)
VARIABLES
  window,      \* the pages of V_RAM whose page table entry can be accessed
  pte,         \* the level 3 entry of each page of V_RAM: a page, or NULL
  seen,        \* each entry as a table walk may still read it
  tlb,         \* the translations the CPU has cached
  ram,         \* the contents of the managed pages
  allocs,      \* allocs[]
  pc,          \* what the kernel thread does next
  request,     \* kalloc: the size asked for, in bytes
  size,        \* kalloc: the size in pages; kfree: info->size
  base,        \* kalloc, kfree: virtualAddr
  va,          \* the loop variable of vm_getVaRange, kalloc, kfree, vm_unmap
  count,       \* vm_getVaRange: the free pages in a row before va
  pa,          \* kalloc: the page pageAlloc_alloc returned
  info         \* kfree: the index of info in allocs[]

locals == <<request, size, base, va, count, pa, info>>
kernelVars == <<pageAllocVars, panic, allocs, pc, locals>>
tables == <<window, pte, seen>>
vars == <<kernelVars, tables, tlb, ram>>

VPage == VRamStart .. VRamEnd - 1
Slot == 0 .. MaxAllocs - 1

(* A page table entry holds the address of its page; 0 is invalid.         *)
Mapped(v) == pte[v] # NULL

(* Mutant: the size is rounded down.                                       *)
PageRoundDown(bytes) == bytes \div PageSize

(* PAGE_ROUND_UP(size), a uint, in pages: the addition can wrap.           *)
PageRoundUp(bytes) == ((bytes + PageSize - 1) % UintMod) \div PageSize

(* vm_va2pa(): the page mapped at v, or NULL.                              *)
vm_va2pa(v) == pte[v]

(* cpu_invalidateTLB() is tlbi, dsb, isb.  There is no dsb before the      *)
(* tlbi: a walk made after it may still read an entry as it was before the *)
(* last stores, and cache that.  Only after the dsb does every walk see    *)
(* what was stored.                                                        *)
InvalidateTLB ==
  /\ \E walked \in SUBSET VPage :
       tlb' = [v \in VPage |-> IF v \in walked THEN seen[v] ELSE NULL]
  /\ seen' = pte

(* The page the hardware uses for an access to v.                          *)
Translate(v) == IF tlb[v] # NULL THEN tlb[v] ELSE seen[v]

(* The locals of a call are dead once it returns.                          *)
Return ==
  /\ pc' = "idle"
  /\ request' = 0 /\ size' = 0 /\ base' = NULL /\ va' = NULL
  /\ count' = 0 /\ pa' = NULL /\ info' = 0

(* The state when main() has called kalloc_init().                         *)
Init ==
  /\ pageAlloc_initThenTake(NumTables)
  /\ panic = "none"
  /\ window \in Windows
  /\ pte = [v \in VPage |-> NULL]
  /\ seen = [v \in VPage |-> NULL]
  /\ tlb = [v \in VPage |-> NULL]
  /\ ram \in Junk
  /\ allocs = [i \in Slot |-> [virtualAddr |-> NULL, size |-> 0]]
  /\ pc = "idle"
  /\ request = 0 /\ size = 0 /\ base = NULL /\ va = NULL
  /\ count = 0 /\ pa = NULL /\ info = 0

At(label) == panic = "none" /\ pc = label

-----------------------------------------------------------------------------
(* kalloc(size): round up, then vm_getVaRange() scans V_RAM.               *)

kalloc(bytes) ==
  /\ At("idle")
  /\ request' = bytes
  /\ size' = PageRoundUp(bytes)
  /\ va' = VRamStart
  /\ pc' = "scan"
  /\ UNCHANGED <<pageAllocVars, panic, allocs, tables, tlb, ram, base, count, pa, info>>

(* The entry at va can be read.                                            *)
Scanning == At("scan") /\ va < VRamEnd /\ va \in window

(* Mutant: a mapped page does not end the run of free ones.                *)
ScanMappedKeepsCount ==
  /\ Scanning /\ Mapped(va)
  /\ va' = va + 1
  /\ UNCHANGED <<pageAllocVars, panic, allocs, tables, tlb, ram, pc, request, size,
                 base, count, pa, info>>

(* Mutant: `continue' skips the increment.                                 *)
ScanMappedStays ==
  /\ Scanning /\ Mapped(va)
  /\ count' = 0
  /\ UNCHANGED <<pageAllocVars, panic, allocs, tables, tlb, ram, pc, request, size,
                 base, va, pa, info>>

ScanMapped ==
  /\ Scanning /\ Mapped(va)
  /\ count' = 0
  /\ va' = va + 1
  /\ UNCHANGED <<pageAllocVars, panic, allocs, tables, tlb, ram, pc, request, size, base, pa, info>>

ScanFree ==
  /\ Scanning /\ ~Mapped(va)
  /\ count + 1 # size
  /\ count' = count + 1
  /\ va' = va + 1
  /\ UNCHANGED <<pageAllocVars, panic, allocs, tables, tlb, ram, pc, request, size, base, pa, info>>

(* Mutant: the range starts a page too early.                              *)
ScanFoundOffByOne ==
  /\ Scanning /\ ~Mapped(va)
  /\ count + 1 = size
  /\ base' = va - size
  /\ va' = base'
  /\ count' = 0
  /\ pc' = "alloc"
  /\ UNCHANGED <<pageAllocVars, panic, allocs, tables, tlb, ram, request, size, pa, info>>

ScanFound ==
  /\ Scanning /\ ~Mapped(va)
  /\ count + 1 = size
  /\ base' = va - (size - 1)
  /\ va' = base'
  /\ count' = 0
  /\ pc' = "alloc"
  /\ UNCHANGED <<pageAllocVars, panic, allocs, tables, tlb, ram, request, size, pa, info>>

(* Mutant: the search gives up before the last page.                       *)
ScanFailsEarly ==
  /\ At("scan") /\ va = VRamEnd - 1
  /\ panic' = "noVaRange"
  /\ UNCHANGED <<pageAllocVars, allocs, tables, tlb, ram, pc, locals>>

ScanFails ==
  /\ At("scan") /\ va = VRamEnd
  /\ panic' = "noVaRange"
  /\ UNCHANGED <<pageAllocVars, allocs, tables, tlb, ram, pc, locals>>

(* For each page of the range: pageAlloc_alloc(), vm_map() of one page.    *)

AllocPage ==
  /\ At("alloc") /\ va < base + size
  /\ pageAlloc_alloc
  /\ pa' = Top
  /\ pc' = "map"
  /\ UNCHANGED <<panic, allocs, tables, tlb, ram, request, size, base, va, count, info>>

AllocPageFails ==
  /\ At("alloc") /\ va < base + size
  /\ pageAlloc_allocFails
  /\ UNCHANGED <<allocs, tables, tlb, ram, pc, locals>>

(* vm_map(replace = false) asserts that the entry is invalid.              *)
MapPage ==
  /\ At("map") /\ va \in window
  /\ IF Mapped(va)
       THEN panic' = "entryExists" /\ UNCHANGED <<pte, pc>>
       ELSE pte' = [pte EXCEPT ![va] = pa] /\ pc' = "mapSync" /\ UNCHANGED panic
  /\ UNCHANGED <<pageAllocVars, allocs, window, seen, tlb, ram, locals>>

MapSync ==
  /\ At("mapSync")
  /\ InvalidateTLB
  /\ va' = va + 1
  /\ pa' = NULL
  /\ pc' = "alloc"
  /\ UNCHANGED <<pageAllocVars, panic, allocs, window, pte, ram, request, size, base, count, info>>

(* The first entry of allocs[] whose virtualAddr is v.                     *)
FirstSlot(i, v) ==
  /\ i \in Slot
  /\ allocs[i].virtualAddr = v
  /\ \A j \in 0 .. i - 1 : allocs[j].virtualAddr # v

NoSlot(v) == \A i \in Slot : allocs[i].virtualAddr # v

(* Mutant: the size asked for is recorded, not the size rounded up.        *)
RecordRequest ==
  /\ At("alloc") /\ va = base + size
  /\ \E i \in Slot :
       /\ FirstSlot(i, NULL)
       /\ allocs' = [allocs EXCEPT ![i] = [virtualAddr |-> base, size |-> request]]
  /\ Return
  /\ UNCHANGED <<pageAllocVars, panic, tables, tlb, ram>>

Record ==
  /\ At("alloc") /\ va = base + size
  /\ \E i \in Slot :
       /\ FirstSlot(i, NULL)
       /\ allocs' = [allocs EXCEPT ![i] = [virtualAddr |-> base, size |-> size]]
  /\ Return
  /\ UNCHANGED <<pageAllocVars, panic, tables, tlb, ram>>

RecordFails ==
  /\ At("alloc") /\ va = base + size
  /\ NoSlot(NULL)
  /\ panic' = "noSlot"
  /\ UNCHANGED <<pageAllocVars, allocs, tables, tlb, ram, pc, locals>>

-----------------------------------------------------------------------------
(* kfree(virtualAddr), where virtualAddr is `offset' bytes into page v.    *)

kfree(v) ==
  /\ At("idle")
  /\ \E i \in Slot :
       /\ FirstSlot(i, v)
       /\ info' = i
       /\ size' = allocs[i].size
  /\ base' = v
  /\ va' = v
  /\ pc' = "free"
  /\ UNCHANGED <<pageAllocVars, panic, allocs, tables, tlb, ram, request, count, pa>>

kfreeFails(v, offset) ==
  /\ At("idle")
  /\ \/ offset # 0 /\ panic' = "misaligned"
     \/ offset = 0 /\ NoSlot(v) /\ panic' = "notFound"
  /\ UNCHANGED <<pageAllocVars, allocs, tables, tlb, ram, pc, locals>>

(* Mutant: the first page is given back for every page of the range.       *)
FreeFirstPage ==
  /\ At("free") /\ va < base + size /\ va \in window
  /\ pageAlloc_free(vm_va2pa(base))
  /\ va' = va + 1
  /\ UNCHANGED <<allocs, tables, tlb, ram, pc, request, size, base, count, pa, info>>

(* Every page of the range is given back, ...                              *)
FreePage ==
  /\ At("free") /\ va < base + size /\ va \in window
  /\ pageAlloc_free(vm_va2pa(va))
  /\ va' = va + 1
  /\ UNCHANGED <<allocs, tables, tlb, ram, pc, request, size, base, count, pa, info>>

FreeDone ==
  /\ At("free") /\ va = base + size
  /\ va' = base
  /\ pc' = "unmap"
  /\ UNCHANGED <<pageAllocVars, panic, allocs, tables, tlb, ram, request, size, base, count, pa, info>>

(* Mutant: va is advanced before its entry is looked up.                   *)
UnmapNextPage ==
  /\ At("unmap") /\ va < base + size /\ va \in window
  /\ pte' = [pte EXCEPT ![va + 1] = NULL]
  /\ va' = va + 1
  /\ UNCHANGED <<pageAllocVars, panic, allocs, window, seen, tlb, ram, pc, request, size, base, count, pa, info>>

(* ... then vm_unmap() clears the entries ...                              *)
UnmapPage ==
  /\ At("unmap") /\ va < base + size /\ va \in window
  /\ pte' = [pte EXCEPT ![va] = NULL]
  /\ va' = va + 1
  /\ UNCHANGED <<pageAllocVars, panic, allocs, window, seen, tlb, ram, pc, request, size, base, count, pa, info>>

(* Mutant: the TLB is not invalidated.                                     *)
UnmapWithoutSync ==
  /\ At("unmap") /\ va = base + size
  /\ pc' = "clear"
  /\ UNCHANGED <<pageAllocVars, panic, allocs, tables, tlb, ram, locals>>

UnmapSync ==
  /\ At("unmap") /\ va = base + size
  /\ InvalidateTLB
  /\ pc' = "clear"
  /\ UNCHANGED <<pageAllocVars, panic, allocs, window, pte, ram, locals>>

(* ... and the entry of allocs[] is cleared.                               *)
Clear ==
  /\ At("clear")
  /\ allocs' = [allocs EXCEPT ![info] = [virtualAddr |-> NULL, size |-> 0]]
  /\ Return
  /\ UNCHANGED <<pageAllocVars, panic, tables, tlb, ram>>

(* An access to a page table entry outside the window is a translation     *)
(* fault; exceptions_sync() halts the kernel.                              *)
PteFault ==
  /\ \/ At("scan") /\ va < VRamEnd
     \/ At("map")
     \/ At("free") /\ va < base + size
     \/ At("unmap") /\ va < base + size
  /\ va \notin window
  /\ panic' = "pteFault"
  /\ UNCHANGED <<pageAllocVars, allocs, tables, tlb, ram, pc, locals>>

-----------------------------------------------------------------------------
(* What a caller owns: the recorded ranges, except the one being freed.    *)

InAlloc(i, v) ==
  /\ allocs[i].virtualAddr # NULL
  /\ allocs[i].virtualAddr <= v /\ v < allocs[i].virtualAddr + allocs[i].size

Freeing(i) == pc \in {"free", "unmap", "clear"} /\ info = i

Owns(i, v) == InAlloc(i, v) /\ ~Freeing(i)

Owned(v) == \E i \in Slot : Owns(i, v)

(* The hardware walks the tables and caches an entry, whenever it likes.   *)
TlbFill(v) ==
  /\ panic = "none"
  /\ tlb[v] = NULL
  /\ \E p \in {pte[v], seen[v]} \ {NULL} : tlb' = [tlb EXCEPT ![v] = p]
  /\ UNCHANGED <<kernelVars, tables, ram>>

(* A caller writes to a page it owns.                                      *)
Write(v, x) ==
  /\ panic = "none"
  /\ Owned(v)
  /\ ram' = [ram EXCEPT ![Translate(v)] = x]
  /\ UNCHANGED <<kernelVars, tables, tlb>>

(* halt(): the kernel spins for ever.                                      *)
Halted == panic # "none" /\ UNCHANGED vars

Call ==
  \/ \E bytes \in Requests : kalloc(bytes)
  \/ \E v \in VPage \cup {NULL} : kfree(v)
  \/ \E v \in VPage \cup {NULL}, offset \in 0 .. PageSize - 1 : kfreeFails(v, offset)

(* The steps of a call in progress.                                        *)
Step ==
  \/ ScanMapped \/ ScanFree \/ ScanFound \/ ScanFails
  \/ AllocPage \/ AllocPageFails \/ MapPage \/ MapSync \/ Record \/ RecordFails
  \/ FreePage \/ FreeDone \/ UnmapPage \/ UnmapSync \/ Clear
  \/ PteFault

Environment ==
  \/ \E v \in VPage : TlbFill(v)
  \/ \E v \in VPage, x \in Stores : Write(v, x)

Next == Call \/ Step \/ Environment \/ Halted

Spec == Init /\ [][Next]_vars

(* The CPU executes the instructions of a call in progress; nobody has to  *)
(* call the allocator, and the TLB has to cache nothing.                   *)
FairSpec == Spec /\ WF_vars(Step)

-----------------------------------------------------------------------------
(* What must be true.                                                      *)

TypeOK ==
  /\ PageAllocTypeOK
  /\ panic \in {"none", "noFreePages", "overFreed", "entryExists", "noVaRange",
               "noSlot", "notFound", "misaligned", "pteFault"}
  /\ pte \in [VPage -> PPage \cup {NULL}]
  /\ window \in SUBSET VPage
  /\ seen \in [VPage -> PPage \cup {NULL}]
  /\ tlb \in [VPage -> PPage \cup {NULL}]
  /\ ram \in [PPage -> Value]
  /\ allocs \in [Slot -> [virtualAddr : VPage \cup {NULL}, size : Nat]]
  /\ pc \in {"idle", "scan", "alloc", "map", "mapSync", "free", "unmap", "clear"}
  /\ request \in Nat /\ size \in Nat /\ count \in Nat
  /\ base \in VPage \cup {NULL} /\ va \in Nat
  /\ pa \in PPage \cup {NULL} /\ info \in Slot

(* The pages vm_init() took for the page tables; nobody gives them back.   *)
Reserved == PRamStart + MaxPages - NumTables .. PRamStart + MaxPages - 1

(* The pages an access to v may reach: the one mapped now, the one a walk  *)
(* may still read in the tables, the one the TLB has.                      *)
Reach(v) == {pte[v], seen[v], tlb[v]} \ {NULL}

(* What a caller owns is out of reach of every other address: no other     *)
(* entry, no walk and no cached translation left over from an earlier      *)
(* owner leads to it.  No page is ever mapped twice, and no access reaches *)
(* a page table.                                                           *)
NoAliasing ==
  /\ \A v, w \in VPage : v # w /\ Owned(v) => Reach(v) \cap Reach(w) = {}
  /\ \A v, w \in VPage : v # w /\ Mapped(v) => pte[v] # pte[w]
  /\ \A v \in VPage : Reach(v) \cap Reserved = {}

(* kfree() gives a page back before it unmaps it, and a walk may still     *)
(* find it, or have cached it, after kfree() has returned.  But a page on  *)
(* the free stack is mapped only while its range is being freed, no owned  *)
(* address ever leads to one, and the first page kalloc() maps removes the *)
(* last translation an earlier kfree() left behind.                        *)
FreePagesUnreachable ==
  \A v \in VPage :
    /\ pte[v] \in FreePages => pc \in {"free", "unmap"} /\ InAlloc(info, v)
    /\ Owned(v) => Reach(v) \cap FreePages = {}
    /\ pc = "alloc" /\ va > base => Reach(v) \cap FreePages = {}

(* Between calls allocs[], the page tables and the free stack agree: a     *)
(* page of V_RAM is mapped exactly if one record covers it, and a physical *)
(* page is in use exactly if it is mapped or holds a page table.           *)
Accounted ==
  pc = "idle" =>
    /\ \A v \in VPage : Mapped(v) <=> Owned(v)
    /\ \A i, j \in Slot, v \in VPage : InAlloc(i, v) /\ InAlloc(j, v) => i = j
    /\ held = Reserved \cup {pte[v] : v \in {w \in VPage : Mapped(w)}}

(* The assertion of vm_map() on the entry it writes and the one of         *)
(* pageAlloc_free() on the stack never fail: only callers that ask for too *)
(* much or free what is not theirs stop the kernel.                        *)
AssertsNeverFire == panic \notin {"overFreed", "entryExists"}

(* kalloc() refuses a request for address space only when no run of free   *)
(* pages is long enough, wherever in V_RAM it starts.                      *)
RefusesOnlyWhenFragmented ==
  panic = "noVaRange" /\ size > 0 =>
    ~ \E start \in VRamStart .. VRamEnd - size :
        \A v \in start .. start + size - 1 : ~Mapped(v)

(* A call that is served gets the bytes it asked for: the rounding, in     *)
(* 32-bit arithmetic, must not make a huge request a small one.            *)
GrantCoversRequest ==
  pc \in {"alloc", "map", "mapSync"} => size * PageSize >= request

(* A range kalloc() could search can also be mapped, freed and unmapped:   *)
(* only the search may run into a hole in the page tables of V_RAM.        *)
OnlyTheSearchFaults == panic = "pteFault" => pc = "scan"

(* While a caller owns a page, no step of the allocator changes what       *)
(* physical page its accesses go to.                                       *)
OwnedPagesStay ==
  [][\A v \in VPage : Owned(v) /\ Owned(v)' => Translate(v)' = Translate(v)]_vars

(* Every call comes back, or stops the kernel.                             *)
CallsReturn == pc # "idle" ~> (pc = "idle" \/ panic # "none")

(* The allocator implements the heap of Heap.tla: a region appears when    *)
(* kalloc() records it and disappears when kfree() finds it, and memory is *)
(* what the MMU, with whatever is in the TLB, gives to its owner.          *)
heapRegion ==
  [v \in VPage |-> IF Owned(v) THEN allocs[CHOOSE i \in Slot : Owns(i, v)].virtualAddr
                              ELSE NULL]
heapMem == [v \in VPage |-> IF Owned(v) THEN ram[Translate(v)] ELSE NULL]

TheHeap == INSTANCE Heap WITH None <- NULL, region <- heapRegion, mem <- heapMem

ImplementsHeap == TheHeap!Spec

(* vm.c:301 says what becomes of a request for nothing in vm_getVaRange(). *)
ZeroSizeIsServed == ~(panic = "noVaRange" /\ size = 0)
=============================================================================
