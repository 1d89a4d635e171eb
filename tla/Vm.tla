--------------------------------- MODULE Vm ---------------------------------
(***************************************************************************)
(* The page tables, src/src/vm.c: vm_init() builds a tree of four levels   *)
(* that maps the kernel and its devices to themselves, hands it to the MMU *)
(* and turns the MMU on.  kernelPagetable and every other table is a page  *)
(* of pageAlloc.c, which contains whatever the RAM held before.            *)
(*                                                                         *)
(* Addresses are counted in pages.  A table has Fanout entries instead of  *)
(* 512; the sizes of the kernel's sections, which the linker decides, are  *)
(* chosen when the machine starts.                                         *)
(***************************************************************************)
EXTENDS PageAlloc, Sequences

CONSTANTS
  Fanout,                        \* the entries of a table
  PageSize,                      \* PAGE_SIZE
  StackBottom, StackTop,         \* _stack_bottom, _stack_top
  TextStart,                     \* _text_start
  TextSizes, DataSizes,          \* in bytes, what the linker may come up with
  PeripheralBase, PeripheralEnd,
  GicBase, GicEnd,
  Junk                           \* what RAM may hold when the kernel starts

Index == 0 .. Fanout - 1

(* The pages that one entry covers in the tables of level 0 to 3.          *)
Span == <<Fanout * Fanout * Fanout, Fanout * Fanout, Fanout, 1>>

VPage == 0 .. Fanout * Span[1] - 1

EntryType ==
  [valid : BOOLEAN, address : VPage, attrIndx : 0 .. 7, ap : 0 .. 3,
   pxn : BOOLEAN, af : BOOLEAN]

(* Mutant: the size is rounded down.                                       *)
PageRoundDown(bytes) == bytes \div PageSize

(* PAGE_ROUND_UP, as a number of pages.                                    *)
PageRoundUp(bytes) == (bytes + PageSize - 1) \div PageSize

(* The first page after the kernel, if its sections have these sizes.      *)
KernelEnd(text, data) ==
  PageRoundUp(TextStart * PageSize + text + 1) + PageRoundUp(data)

ASSUME VmAssumption ==
  /\ Fanout \in Nat \ {0, 1}
  /\ PageSize \in Nat \ {0}
  /\ TextSizes \subseteq Nat \ {0} /\ DataSizes \subseteq Nat
  /\ PPage \subseteq VPage
  /\ Junk \subseteq [PPage -> [Index -> EntryType]]

(* link.ld and mem.h: the stack lies below the code, the kernel ends below *)
(* the peripherals, and those lie below the GIC.                           *)
ASSUME LayoutAssumption ==
  /\ {StackBottom, StackTop, TextStart} \subseteq Nat
  /\ {PeripheralBase, PeripheralEnd, GicBase, GicEnd} \subseteq Nat
  /\ StackBottom <= StackTop /\ StackTop <= TextStart
  /\ \A text \in TextSizes, data \in DataSizes : KernelEnd(text, data) <= PeripheralBase
  /\ PeripheralBase <= PeripheralEnd /\ PeripheralEnd <= GicBase
  /\ GicBase <= GicEnd /\ GicEnd <= Fanout * Span[1]

VARIABLES
  ram,               \* the entries in each managed page
  kernelPagetable,
  textSize, dataSize,
  pc,                \* what vm_init() does next
  region,            \* which of the regions is being mapped
  va,                \* vm_mapAllocating: va, and pa as all regions are identity mapped
  level, table,      \* vm_getPTEAllocating
  tcr, mair, ttbr0, ttbr1, mmu   \* the system registers; mmu is SCTLR_EL1.M

walkVars == <<region, va, level, table>>
sysVars == <<tcr, mair, ttbr0, ttbr1, mmu>>
vars == <<pageAllocVars, panic, ram, kernelPagetable, textSize, dataSize, pc,
          walkVars, sysVars>>

-----------------------------------------------------------------------------
(* Page table entries.                                                     *)

(* MairIdxs and AccessPerms of vm.h, as far as vm.c uses them.              *)
IDX_NORMAL == 0
IDX_NORMAL_NO_CACHE == 1
IDX_DEVICE == 2
PRIV_RW == 0
PRIV_R == 2

Invalid == [valid |-> FALSE, address |-> NULL, attrIndx |-> 0, ap |-> 0,
            pxn |-> FALSE, af |-> FALSE]

PageDescriptor(mairIdx, pxn, ap, address) ==
  [valid |-> TRUE, address |-> address, attrIndx |-> mairIdx, ap |-> ap,
   pxn |-> pxn, af |-> TRUE]

TableDescriptor(address) ==
  [Invalid EXCEPT !.valid = TRUE, !.address = address]

ZeroPage == [i \in Index |-> Invalid]

(* Bits [47..39], [38..30], [29..21] or [20..12] of an address.            *)
IndexAt(v, l) == (v \div Span[l + 1]) % Fanout

-----------------------------------------------------------------------------
(* The regions of vm_init(), in its order.                                 *)

(* Mutant: the data follows the code without alignment.                    *)
DataUnaligned == (TextStart * PageSize + textSize) \div PageSize

(* link.ld: `. += 1; . = ALIGN(4096)' after _text_end.                     *)
DataStart == PageRoundUp(TextStart * PageSize + textSize + 1)

Region == <<
  [start |-> TextStart, pages |-> PageRoundUp(textSize),
   mairIdx |-> IDX_NORMAL, pxn |-> FALSE, ap |-> PRIV_R],
  [start |-> DataStart, pages |-> PageRoundUp(dataSize),
   mairIdx |-> IDX_NORMAL, pxn |-> TRUE, ap |-> PRIV_RW],
  [start |-> StackBottom, pages |-> StackTop - StackBottom,
   mairIdx |-> IDX_NORMAL, pxn |-> TRUE, ap |-> PRIV_RW],
  [start |-> PeripheralBase, pages |-> PeripheralEnd - PeripheralBase,
   mairIdx |-> IDX_DEVICE, pxn |-> TRUE, ap |-> PRIV_RW],
  [start |-> GicBase, pages |-> GicEnd - GicBase,
   mairIdx |-> IDX_DEVICE, pxn |-> TRUE, ap |-> PRIV_RW] >>

Here == Region[region]
LastPage == Here.start + Here.pages

-----------------------------------------------------------------------------

Init ==
  /\ pageAlloc_init
  /\ panic = "none"
  /\ ram \in Junk
  /\ kernelPagetable = NULL
  /\ textSize \in TextSizes /\ dataSize \in DataSizes
  /\ pc = "root"
  /\ region = 1 /\ va = TextStart /\ level = 0 /\ table = NULL
  /\ tcr = [epd0 |-> FALSE, epd1 |-> FALSE]
  /\ mair = <<>> /\ ttbr0 = NULL /\ ttbr1 = NULL /\ mmu = FALSE

At(label) == panic = "none" /\ pc = label

(* The root table.                                                         *)
AllocRoot ==
  /\ At("root")
  /\ pageAlloc_alloc
  /\ kernelPagetable' = Top
  /\ ram' = [ram EXCEPT ![Top] = ZeroPage]
  /\ table' = Top
  /\ pc' = "map"
  /\ UNCHANGED <<panic, textSize, dataSize, region, va, level, sysVars>>

(* vm_mapAllocating() asks vm_getPTEAllocating() for the entry of va; one  *)
(* step is one level of its walk.                                          *)
Walking == At("map") /\ va < LastPage

Entry == ram[table][IndexAt(va, level)]

Descend ==
  /\ Walking /\ level < 3 /\ Entry.valid
  /\ table' = Entry.address
  /\ level' = level + 1
  /\ UNCHANGED <<pageAllocVars, panic, ram, kernelPagetable, textSize, dataSize,
                 pc, region, va, sysVars>>

(* Mutant: the new table keeps what the RAM held.                          *)
AllocDirtyTable ==
  /\ Walking /\ level < 3 /\ ~Entry.valid
  /\ pageAlloc_alloc
  /\ ram' = [ram EXCEPT ![table][IndexAt(va, level)] = TableDescriptor(Top)]
  /\ table' = Top
  /\ level' = level + 1
  /\ UNCHANGED <<panic, kernelPagetable, textSize, dataSize, pc, region, va, sysVars>>

(* Mutant: the new table is entered at the index of the next level.        *)
AllocTableAtNextIndex ==
  /\ Walking /\ level < 3 /\ ~Entry.valid
  /\ pageAlloc_alloc
  /\ ram' = [ram EXCEPT ![Top] = ZeroPage,
                        ![table][IndexAt(va, level + 1)] = TableDescriptor(Top)]
  /\ table' = Top
  /\ level' = level + 1
  /\ UNCHANGED <<panic, kernelPagetable, textSize, dataSize, pc, region, va, sysVars>>

AllocTable ==
  /\ Walking /\ level < 3 /\ ~Entry.valid
  /\ pageAlloc_alloc
  /\ ram' = [ram EXCEPT ![Top] = ZeroPage,
                        ![table][IndexAt(va, level)] = TableDescriptor(Top)]
  /\ table' = Top
  /\ level' = level + 1
  /\ UNCHANGED <<panic, kernelPagetable, textSize, dataSize, pc, region, va, sysVars>>

AllocTableFails ==
  /\ Walking /\ level < 3 /\ ~Entry.valid
  /\ pageAlloc_allocFails
  /\ UNCHANGED <<ram, kernelPagetable, textSize, dataSize, pc, walkVars, sysVars>>

(* At level 3 the entry must be free; then the next page of the region.    *)
MapPage ==
  /\ Walking /\ level = 3
  /\ IF Entry.valid
       THEN panic' = "entryExists" /\ UNCHANGED <<ram, walkVars>>
       ELSE /\ ram' = [ram EXCEPT ![table][IndexAt(va, 3)] =
                         PageDescriptor(Here.mairIdx, Here.pxn, Here.ap, va)]
            /\ va' = va + 1
            /\ level' = 0
            /\ table' = kernelPagetable
            /\ UNCHANGED <<panic, region>>
  /\ UNCHANGED <<pageAllocVars, kernelPagetable, textSize, dataSize, pc, sysVars>>

NextRegion ==
  /\ At("map") /\ va = LastPage
  /\ IF region < Len(Region)
       THEN /\ region' = region + 1
            /\ va' = Region[region + 1].start
            /\ UNCHANGED pc
       ELSE pc' = "config" /\ UNCHANGED <<region, va>>
  /\ UNCHANGED <<pageAllocVars, panic, ram, kernelPagetable, textSize, dataSize,
                 level, table, sysVars>>

tableVars == <<pageAllocVars, panic, ram, kernelPagetable, textSize, dataSize, walkVars>>

(* MAIR_EL1: what an attrIndx stands for.  The fields that vm_setConfig()  *)
(* leaves 0 mean device memory too.                                        *)
Attributes ==
  [i \in 0 .. 7 |-> CASE i = IDX_NORMAL -> "normal"
                      [] i = IDX_NORMAL_NO_CACHE -> "normal no cache"
                      [] OTHER -> "device"]

vm_setConfig(enableUserPagetable, enableKernelPagetable) ==
  /\ At("config")
  /\ tcr' = [epd0 |-> ~enableUserPagetable, epd1 |-> ~enableKernelPagetable]
  /\ mair' = Attributes
  /\ pc' = "setTables"
  /\ UNCHANGED <<tableVars, ttbr0, ttbr1, mmu>>

vm_setUserPagetable(pagetable) == ttbr0' = pagetable
vm_setKernelPagetable(pagetable) == ttbr1' = pagetable

SetTables ==
  /\ At("setTables")
  /\ vm_setUserPagetable(NULL)
  /\ vm_setKernelPagetable(kernelPagetable)
  /\ pc' = "enable"
  /\ UNCHANGED <<tableVars, tcr, mair, mmu>>

vm_enable ==
  /\ At("enable")
  /\ mmu' = TRUE
  /\ pc' = "done"
  /\ UNCHANGED <<tableVars, tcr, mair, ttbr0, ttbr1>>

(* vm_init() has returned, or the kernel has halted.                       *)
Finished ==
  /\ panic # "none" \/ pc = "done"
  /\ UNCHANGED vars

Next ==
  \/ AllocRoot \/ Descend \/ AllocTable \/ AllocTableFails \/ MapPage \/ NextRegion
  \/ vm_setConfig(FALSE, TRUE) \/ SetTables \/ vm_enable
  \/ Finished

Spec == Init /\ [][Next]_vars

-----------------------------------------------------------------------------
(* Walking the tree, as vm_getPTE() does in software while the MMU is off  *)
(* and the MMU does in hardware.                                           *)

(* The table that the entry for v in table t of the given level points at, *)
(* or NULL if the entry is invalid or there is no such table.              *)
Child(mem, t, v, l) == IF t = NULL THEN NULL ELSE mem[t][IndexAt(v, l)].address

LeafTable(mem, root, v) ==
  Child(mem, Child(mem, Child(mem, root, v, 0), v, 1), v, 2)

LeafEntry(mem, root, v) ==
  LET leaf == LeafTable(mem, root, v)
  IN  IF leaf = NULL THEN Invalid ELSE mem[leaf][IndexAt(v, 3)]

(* Where the MMU sends an access to page v of the lower half of the        *)
(* address space, to which all addresses of this kernel belong, or NULL if *)
(* it faults.                                                              *)
Translate(v) ==
  IF ~mmu THEN v
  ELSE IF tcr.epd0 \/ ttbr0 = NULL THEN NULL
  ELSE LeafEntry(ram, ttbr0, v).address

-----------------------------------------------------------------------------

TypeOK ==
  /\ PageAllocTypeOK
  /\ panic \in {"none", "noFreePages", "entryExists"}
  /\ ram \in [PPage -> [Index -> EntryType]]
  /\ kernelPagetable \in PPage \cup {NULL}
  /\ textSize \in TextSizes /\ dataSize \in DataSizes
  /\ pc \in {"root", "map", "config", "setTables", "enable", "done"}
  /\ region \in 1 .. Len(Region) /\ va \in Nat /\ level \in 0 .. 3
  /\ table \in PPage \cup {NULL}
  /\ tcr \in [epd0 : BOOLEAN, epd1 : BOOLEAN] /\ mmu \in BOOLEAN
  /\ ttbr0 \in PPage \cup {NULL} /\ ttbr1 \in PPage \cup {NULL}

(* The entries in use of some tables, and the tables these point at.       *)
Refs(tables) == {x \in tables \X Index : ram[x[1]][x[2]].valid}
Below(tables) == {ram[x[1]][x[2]].address : x \in Refs(tables)}

Level1 == Below({kernelPagetable})
Level2 == Below(Level1)
Level3 == Below(Level2)
Upper == {kernelPagetable} \cup Level1 \cup Level2

(* The tables form a tree and are the only pages in use: each one is       *)
(* pointed at once, none is on the free stack, none has leaked.            *)
TablesAreATree ==
  pc # "root" =>
    /\ held = Upper \cup Level3
    /\ Cardinality(held) = Cardinality(Refs(Upper)) + 1

(* The assertion of vm_mapAllocating() never fails: the linker's sections, *)
(* rounded to pages, do not overlap, and a new table starts out empty.     *)
EntriesAreFree == panic # "entryExists"

(* Once all regions are mapped, every byte of the kernel and its devices   *)
(* can be accessed, at its own address, for what it is there for: code     *)
(* cannot be written, what can be written cannot be executed, and device   *)
(* registers are accessed as such.  Nothing else is mapped.                *)
Bytes(start, size) == {b \div PageSize : b \in start * PageSize .. start * PageSize + size - 1}
CodePages == Bytes(TextStart, textSize)
DevicePages == (PeripheralBase .. PeripheralEnd - 1) \cup (GicBase .. GicEnd - 1)
DataPages == Bytes(DataStart, dataSize) \cup (StackBottom .. StackTop - 1) \cup DevicePages

KernelIsMapped ==
  At("done") =>
    \A v \in VPage :
      LET entry == LeafEntry(ram, ttbr1, v)
      IN  /\ entry.valid <=> v \in CodePages \cup DataPages
          /\ entry.valid => entry.address = v /\ entry.af
          /\ v \in CodePages => entry.ap = PRIV_R /\ ~entry.pxn
          /\ v \in DataPages => entry.ap = PRIV_RW /\ entry.pxn
          /\ entry.valid => (mair[entry.attrIndx] = "device" <=> v \in DevicePages)

(* The tree implements the flat table of AddressSpace.                     *)
Flat == INSTANCE AddressSpace WITH
  Page <- VPage,
  Descriptor <- [valid : {TRUE}, address : VPage, attrIndx : {IDX_NORMAL, IDX_DEVICE},
                 ap : {PRIV_R, PRIV_RW}, pxn : BOOLEAN, af : {TRUE}],
  space <- [v \in VPage |-> IF pc = "root" THEN Invalid ELSE LeafEntry(ram, kernelPagetable, v)]

ImplementsAddressSpace == Flat!Spec

(* vm.h:22: vm_init() switches to the virtual address space, in which the  *)
(* kernel goes on running at its own address.                              *)
KernelSurvivesSwitch == mmu => \A v \in CodePages \cup DataPages : Translate(v) = v
=============================================================================
