# FloOS: a TLA+ model of the kernel

FloOS is a small kernel for the Raspberry Pi 4 (AArch64, one core).  This
directory holds TLA+ modules that model its start, its memory management, its
interrupt path, its console and its text functions, the TLC configurations that check them on small instances, and theorems
that TLAPS proves for every size of the system.  Paths below are relative to the
repository; `vm.c:299` is `src/vm.c`, line 299, headers are under `include/`.

## 1. Inventory

| Part | Source | State it keeps | Operations |
|---|---|---|---|
| Physical page allocator | `src/pageAlloc.c` | `stack`: the free pages and an index | `pageAlloc_init`, `_alloc`, `_free` |
| Virtual memory | `src/vm.c`, `include/vm.h`, `include/mem.h`, `src/link.ld` | `kernelPagetable` and the tables under it; TTBR0/1, TCR, MAIR, SCTLR | `vm_init`, `vm_map`, `vm_unmap`, `vm_va2pa`, `vm_getVaRange`, `vm_mapAllocating`, the walk `vm_getPTE` |
| Kernel allocator | `src/kalloc.c` | `allocs[]` | `kalloc_init`, `kalloc`, `kfree` |
| Interrupt controller driver | `src/interrupts.c` | `interruptHandlers[]`, the GIC-400 and ARMC registers, PSTATE.I | `interrupts_init`, `_enable`, `_disable`, `_enableARMCInterrupt`, `_addARMCInterruptHandler`, `_handleIRQ` |
| Interrupt entry | `src/exceptionVectorTables.s` | registers and stack of the interrupted code | `irq_handler` |
| Timer driver | `src/drivers/timer.c` | the timer's registers | `timer_init`, `timer_setTimer`, `timer_handleIRQ` |
| Kernel start | `src/boot.s`, `src/main.c` | exception level, interrupt mask, .bss | `_entry`, `main` |
| Exceptions and errors | `src/exceptions.c`, `src/error.c` | none: they print and stop | `exceptions_sync`, `_assert`, `_panic`, `halt` |
| UART driver | `src/drivers/uart.c` | the registers and the transmitter of the mini UART | `uart_init`, `uart_writeByte`, `uart_readByte` |
| GPIO driver | `src/drivers/gpio.c` | registers with a field for each pin | `gpio_call`, `gpio_set`, `_clear`, `_pull`, `_function`, `_useAsAlt3`, `_useAsAlt5` |
| Formatted output | `src/io.c` | none (`tmp[50]` during a conversion) | `print`, `printf`, `vprintf`, `readLine`, the conversions |
| Strings | `src/string.c` | none: the caller's memory | `string_*` |
| USB | `src/drivers/usb/xhci.c` | - | commented out as a whole |

How they interact.  `main()` initializes the parts in a fixed order, enables
IRQs, starts the timer and idles in `halt()`.  `vm_init` takes pages for its
tables from `pageAlloc.c`; `kalloc` calls `vm_getVaRange`, `pageAlloc_alloc` and
`vm_map`, and `kfree` calls `vm_va2pa`, `pageAlloc_free` and `vm_unmap`.  There is
one thread.  The two things that run next to it are the hardware (the MMU filling
its TLB, the timer, the GIC) and the IRQ handler, which may come between any two
instructions and calls the function `interruptHandlers[]` names.  Nothing is
persisted, and there is one core: the others are parked in `boot.s`.

What is hard about it, and what makes each part correct:

* **Page allocator**: no page is handed out twice or lost, for any order of
  calls; no access outside the array; the kernel stops only when it is full.
* **Kernel allocator**: four records of one fact (page tables, TLB, free stack,
  `allocs[]`) are updated at different moments.  What a caller owns must be out of
  reach of every other address, even through an old TLB entry; what is free must not be
  reachable through anybody's memory; between calls the records must agree; the kernel must refuse a request
  only when it cannot be served; memory must keep what its owner wrote.
* **Virtual memory**: the tables `vm_init` builds form a tree that maps exactly the
  kernel and its devices, with the right permissions; once the MMU is on, the kernel must be
  reachable at its own addresses.
* **Interrupts**: no interrupt before `main()` asks for them; every interrupt is
  ended; each has a handler; the interrupted code gets its registers back; a timer
  that expires is attended to.
* **Timer**: after `timer_setTimer` a pending interrupt belongs to the new count.
* **Start**: whatever level the firmware enters at and whatever the RAM holds, `main()`
  runs at EL1, with the MMU off and .bss cleared.  (Entered at EL1 with the MMU on, it runs with it on.)
* **UART and GPIO**: nothing is printed before the UART and its pins are set up; setting up a
  pin leaves the pins it shares registers with alone; `main()` and the IRQ handler print to one
  transmitter, and no byte is lost unless the handler came between the check and the write.
* **Text**: numbers read back as they were, formats are printed as `io.h` describes them, searches find
  what there is, and no function writes outside the memory its comment gives it (`string_copy` of an empty string does).

`PROJECT.json` lists the hazards line by line, each with the property that
would catch it.

## 2. Modules

| Module | Models | Uses |
|---|---|---|
| `PageAlloc` | `pageAlloc.c`: state and operations, no `Next` of its own | |
| `PageAllocClient` | callers of `pageAlloc.h` that free what they were given | `PageAlloc`, `PagePool` |
| `PagePool` | abstract: a pool of pages | |
| `Kalloc` | `kalloc.c` with `vm_getVaRange`, `vm_map`, `vm_unmap`, `vm_va2pa`, the TLB and the callers' memory | `PageAlloc`, `Heap` |
| `Heap` | abstract: regions with one owner each and memory that keeps its contents | |
| `Vm` | `vm_init` with all it calls, the walk of `vm_getPTE`, the system registers | `PageAlloc`, `AddressSpace` |
| `AddressSpace` | abstract: one flat table with an entry for each virtual page | |
| `Interrupts` | `interrupts.c` and the GIC-400 as the driver uses it | |
| `IrqEntry` | `irq_handler`: registers and stack | |
| `Timer` | `drivers/timer.c` and the timer as the driver uses it | |
| `Boot` | `boot.s` on the main core: exception levels, interrupt mask, MMU bit, .bss | `Interrupts` |
| `Uart` | `drivers/uart.c`, the loop of `print()`, and the transmitter | |
| `Gpio` | `drivers/gpio.c` on the bits of the registers | |
| `Kernel` | composition: `boot.s`, all of `main()`, the IRQ handler, GIC, timer and UART | `Boot`, `IrqEntry`, `Timer`, `Uart`, `Gpio` |
| `TimerClient` | composition: code that calls `timer_setTimer`, timer, handler, interrupt mask | `Timer` |
| `Strings` | `string.c` over a small memory | |
| `Format` | `io.c`: number conversion, `printPtr`, `vprintf`, `readLine` | `Strings` |
| `Text` | callers of `string.h` and `io.h` | `Format` |
| `MC*` | constants for TLC | |
| `*Proofs`, `Loops` | theorems, see section 5 | |

Correspondence with the code.  Variables carry the names of the code's variables
(`pages`, `index`, `allocs`, `kernelPagetable`, `interruptHandlers`), actions those
of its functions where an action is a whole call; a function that is interrupted
between its accesses is split into steps, with a `pc` variable and its locals (`va`,
`count`, `size`, `pa`, ...).  One step is one access to shared state: one page
table entry, one call of `pageAlloc.c`, one device register.  A failed assertion, a
`panic()` and a synchronous exception all end in `halt()`: they set the variable
`panic`, after which the kernel takes no step.  Variables marked `history` (`held`,
`stale`, `interrupted`, `mmuKept`) are not in the code; no guard reads them, apart from callers that must
know what they own.

What is abstracted:

* **Addresses** are counted in pages.  All addresses these functions handle are
  page aligned or asserted to be; `kfree` alone takes one that may not be
  (`kfreeFails`).  Sizes in bytes keep their 32-bit wrap-around (`UintMod`).
* **Page table entries** are records of the fields `vm_init` sets; in `Kalloc` the
  entry of a page of V_RAM is the physical page, as all its other fields are equal.
* **A table** has `Fanout` entries instead of 512.  The indices of an address are
  its digits in base `Fanout`, as in the code they are in base 512; `Span` says how many pages an
  entry of each level covers.
* **MAIR_EL1** is a function from the eight values of `attrIndx` to kinds of memory; the fields
  `vm_setConfig` leaves 0 mean device memory, as 0 does.
* **Printing**: in `Kernel` a message is `MessageLength` bytes of which only the number matters; each is
  a check for room and a write.  In the other modules printing has no effect on the state.
* **A GPIO register** is the set of its bits that are 1; `PinFunction` and `PinPull` say what they mean, from the
  manual of the chip and not from how the driver finds a field.
* **.bss** is the words of `interruptHandlers[]` and others; of its variables that array is the one read
  before it is written.
* **What the firmware left** is chosen at the start: exception level, MMU, interrupt mask, GIC, UART, GPIO
  registers, contents of the RAM.  Taken for granted is that it enables no interrupt in the GIC, and that an MMU it leaves on
  at EL1 maps the kernel to itself.
* **Text**: in `Strings` a string is an address in a small memory.  In `Format` a format is a sequence of
  characters and the output a sequence of literals and conversions; digits are characters with their ASCII
  codes.  One step of `Text` is one call, with any arguments: these functions share no state.  A loop of the code is a recursive
  function: of the place it has come to, and the answer is where it stops (`string_find`), or of the number of turns, and the
  answer is what it keeps after them (`Copied`, `Tokenized`, `Left`, `PrintedFrom`).
* **The TLB** may cache the translation of any page at any moment (`TlbFill`), from the entry as it is or, until the next
  dsb, as it was before the last stores (`seen`).  `cpu_invalidateTLB` is `tlbi`, `dsb`, `isb`, with no dsb before the `tlbi`: a walk that
  comes between the two may cache what was there before the stores (`InvalidateTLB`), and this stays until the next invalidation.
  Only walks after the dsb see all that was stored.
* **The GIC**: `interruptConfig` is never written, so interrupts are level sensitive:
  an interrupt is pending while the GIC sees its line asserted.  It notices changes
  of a line some time later (`SampleLines`), which is how a handler that has cleared
  its device can be interrupted once more, or find nothing to acknowledge (id 1023).

Undefined behaviour is a choice between the outcomes a build can produce:
`pageAlloc_free` on a full stack writes `pages[MAX_ALLOCS]`, which is `index`, so
the assertion after it sees either value; a dispatch of id 1023 reads past
`interruptHandlers[]` and finds NULL, which fails the assertion, or something it
calls (`wildCall`); the negation of the least `int64` (`io.c:86`) is that number again, or
the positive number it should be (`Negations`).

Two contracts connect modules that describe different stretches of time:

* `Kalloc` starts when `main()` has called `kalloc_init`.  It takes from `vm_init`
  that the entries of V_RAM in `window` can be accessed through the loop address; any
  other access faults.  The comment at `vm.c:198` says that
  `kernelPagetable[511]` points back at `kernelPagetable`; at this commit
  `vm_init` does not set it (section 6), and the loop access would fault if it did (section 6), so `window` is really empty and the first
  `kalloc` faults.  The runs choose larger windows, to check the allocator itself.
* `Kernel` has of `pageAlloc_init`, `vm_init` and `kalloc_init` what concerns the rest of it (the assertions, what is printed, and
  the MMU bit), and includes what `main()` does after `vm_init` has returned.  `Vm` shows that
  at this commit it does not return (run `vm_switch`): `Kernel` is about the
  interrupt code under the assumption that it does.

## 3. Runs

Every run is exhaustive.  `pass` runs check all properties named; each `violation`
run shows one statement of the sources that the code does not keep.

| Run | Bounds | What it shows |
|---|---|---|
| `page_alloc` | 4 pages | For every order of allocations and frees: no page has two owners or is lost (`OneOwner`), the kernel stops only when all are in use (`PanicsOnlyWhenExhausted`), and the stack implements `PagePool` (`ImplementsPool`). |
| `kalloc` | 4 physical pages, one a page table; 4 pages of V_RAM, with tables for all of them or for the first only; 2 entries of `allocs[]`; requests of 1, 3 and 15 bytes with 2-byte pages and 4-bit integers; 2 contents of a page | Over every sequence of calls, every moment at which the TLB is filled and everything a walk may still read: what is owned is out of reach of others (`NoAliasing`, `FreePagesUnreachable`, `OwnedPagesStay`), the records agree (`Accounted`, `AssertsNeverFire`), requests are served as far as they can be (`RefusesOnlyWhenFragmented`, `GrantCoversRequest`, `OnlyTheSearchFaults`), each call returns or stops the kernel (`CallsReturn`), and all of it implements `Heap` (`ImplementsHeap`). |
| `kalloc_zero` | as `kalloc`, with 3 physical pages, requests of 0 to 15 bytes, and all of V_RAM in reach | Violation: `kalloc(0)` panics. |
| `vm` | tables of 3 entries, 81 pages; 4 sizes of code, 4 of data; RAM that is zero, full of entries that look valid, or holds them here and there | The tables form a tree (`TablesAreATree`) that maps exactly the kernel and its devices (`KernelIsMapped`), no entry is written twice (`EntriesAreFree`), and the tree implements a flat table (`ImplementsAddressSpace`). |
| `vm_switch` | as `vm` | Violation: with the MMU on, the kernel's own addresses are not translated. |
| `kernel` | the timer and one device nobody enables; 4 words of .bss; a transmitter of 2 bytes, messages of 3 | From `set_el` to the last `halt()`, with interrupts at every instruction: `MainStartsClean`, `ConsoleReady`, `OtherPinsStay`, `LossNeedsInterrupt`, `NoIrqBeforeEnable`, `NothingLeftActive`, `SavedRegistersComeBack`; under fairness `TimerIsServed` and `MainFinishes`. |
| `kernel_handler` | as `kernel` | Violation: an interrupt is dispatched that has no handler. |
| `kernel_registers` | as `kernel` | Violation: `irq_handler` does not save x4 to x18. |
| `timer` | 5-bit counts, 4 ticks per ms, 1 to 8 ms (8 ms wraps) | After `timer_setTimer` no interrupt of an old count is pending (`NoStaleInterrupt`), whenever the count runs out and whenever the handler runs, with interrupts enabled or not. |
| `text` | memory of 6 characters, 2 letters; `int` of 8 and `int64` of 12 bits, `tmp[10]`; pointers of 2 bytes; formats of 2 pieces; lines of 4 characters | Every function of `string.c` and `io.c` does what its header says, with all arguments the header allows (`QueriesAnswerRight`, without `string_find` of a character that is not there, `TokensAreTheParts`, `NumbersReadBack`, `OnlyLongBinaryOverflows`, `FormatFollowsGrammar`, `LinesAreRead`); `string_copy` and `string_append`, with an empty `src` too, copy what lies before the next `'\0'` (`CopiesUpToNul`), which is not what the header says: see `text_copy`. |
| `text_copy` | as `text` | Violation: the string at `dest` is not the string copied. |
| `text_find` | as `text` | Violation: `string_find` returns the terminator, not `NULL`, if there is no such character. |

Why the bounds are enough.  `kalloc` needs two regions side by side and room for
fragmentation: with four virtual pages there are allocations before, after and
between others, requests for one and two pages, requests that wrap around
(15 bytes), and three physical pages and two records, each of which runs out before
the other in some behaviour.  The boundaries of V_RAM (first and last page) are
reached.  What callers store differs from what one of the pages holds to begin with, so that a page that changes
its owner's data is noticed.  In `vm` the
regions share tables of some levels and not of others, fill a table to its last
entry, and cross from one table to the next; sizes lie below, on and above a page
boundary.  The interrupt path has no data that could be large.
In `kernel` a message is longer than the transmitter, so that both contexts find it full and wait; the second
device shows that .bss is cleared to its last word.  The GPIO driver runs on its real registers and all 54 pins.
In `text` the widths are scaled so that, as with 32 and 64 bits and `tmp[50]`, every `int` fits the buffer in every base
(here the longest just does) and an `int64` does except in binary; all values are tried.  Formats are all lists of two
pieces, and after one piece everything of up to four characters that is not a piece.  Six characters of memory hold two strings
next to each other, or one in the tail of the other.

Fairness.  `Kalloc!FairSpec` has weak fairness of the step of a call in progress:
the CPU executes the next instruction.  No fairness for callers, writes or the TLB.
`Kernel!FairSpec` has weak fairness of the code of `main()`, of the handler, of taking an
interrupt that stays signalled, of the GIC following its lines, and of the UART sending what it holds: all of them
are things the hardware does without anyone's cooperation.  The timer need not
expire.  If it expires for ever, faster than its handler prints, `main()` makes no progress; `MainFinishes` is
about every other behaviour.  Deadlock is checked in every run: a halted kernel spins, so it stutters
explicitly (`Halted`), and everything else must be able to go on.

Every property of a passing run has a mutant: a plausible bug in one definition
(a wrong rounding, a missing invalidation, a swapped order) with which TLC finds
the property violated.  They are the definitions commented `Mutant:`.

## 4. Why the allocator is right

`kfree` gives a page back to `pageAlloc.c` before it unmaps it.  Between the two, a page
on the free stack is still mapped.  This is harmless as no `pageAlloc_alloc` can come between: there is one thread,
and no interrupt handler allocates.

Nor is the page out of reach when `kfree` has returned.  `cpu_invalidateTLB` has no `dsb` between the stores
to the entries and its `tlbi`, so a walk may cache an old translation again, and nothing removes it before the next
invalidation.  A later `kalloc` may take that page from the stack, but then it maps it, and `vm_map` ends with an invalidation of its own.
By then the old entries are invalid for every walk, as the `dsb` of `vm_unmap` has seen to, so that no translation of the page but the new one is left
when its owner gets it.  Until then the page is reached through addresses nobody owns only.  `NoAliasing` and `FreePagesUnreachable` say
this exactly: an owned address and any other never reach the same page; a page on the free stack is mapped only while
its range is being freed, is never reached through an owned address, and not at all once `kalloc` has mapped its first page.

The argument is the inductive invariant `KallocInv` of `KallocProofs`.  The properties are
not inductive as they stand, because in the middle of a call the four records
disagree.  The invariant says by how much, with three sets of pages that depend on
the step the call has reached: `Building` (mapped, not yet recorded), `Released`
(given back, record still there) and `Cleared` (entry removed, record not).

| Part | Says | Needed because |
|---|---|---|
| `PoolInv` | the live part of the stack has no duplicates and is the complement of what was handed out; the index counts it | the page `pageAlloc_alloc` returns is new, and the stack never overflows (by counting) |
| `LocalsOK` | ranges of `va`, `count`, `base`, `size`; `info` is the record of the range | V_RAM is not left, `kfree` frees what `kalloc` granted |
| `RecordsOK` | records are disjoint, and disjoint from the range being built | each page has one owner |
| `MappedOK` | a page is mapped iff `Building`, or recorded and not `Cleared` | a range found unmapped is unrecorded, and the reverse |
| `ScanOK` | the pages counted so far are not mapped | `vm_map` finds its entry free |
| `PteOK` | no page is mapped twice, and none of the tables' pages | `NoAliasing`, as far as the entries go |
| `SeenOK` | a walk reads what the entry holds, but for the entry just written and those being removed, whose pages are free | what is cached after an invalidation is known |
| `StaleOK` | a cached translation that is not in the tables is that of an unmapped page of V_RAM and leads to a free page, or to the one being mapped; there is none once a page has been mapped | an old translation never leads to a page with an owner |
| `HeldOK` | what is mapped is in use unless `Released`; what is in use is mapped | no leak, and no free page in the tables |
| `NewPageOK` | the page just allocated is not mapped | `NoAliasing` survives `vm_map` |

`ServiceInv` adds what concerns the service given: the search
has passed no run that would do (`SearchOK`), and every range recorded was searched, so
that it can be accessed again (`WindowOK`).

`KallocImplementsHeap` is the refinement.  The heap's owner of a page is the address in
the record that covers it, its contents those of the physical page it is mapped to.
A region exists from the moment its record is complete (`Record`) until `kfree` finds it:
those two steps map to `Alloc` and `Free`, a write maps to `Write`, and every other step
leaves the heap alone, because of `OwnerTranslation`: an owner's access goes to the page
in the tables, whatever the TLB holds.

## 5. Proofs

| Theorem | Module | States |
|---|---|---|
| `ClientTypeOK`, `ClientOneOwner`, `ClientPanicsOnlyWhenExhausted`, `ClientImplementsPool` | `PageAllocClientProofs` | all properties of run `page_alloc`, for every number of pages |
| `KallocTypeOK`, `KallocNoAliasing`, `KallocAssertsNeverFire`, `KallocFreePagesUnreachable`, `KallocAccounted`, `KallocOwnedPagesStay` | `KallocProofs` | from `KallocInv` |
| `KallocRefusesOnlyWhenFragmented`, `KallocOnlyTheSearchFaults`, `KallocGrantCoversRequest` | `KallocProofs` | from `KallocInv` and `ServiceInv` |
| `KallocImplementsHeap` | `KallocProofs` | `Spec => ImplementsHeap` |
| `TimerClientNoStaleInterrupt` | `TimerClientProofs` | the property of run `timer`, from the invariant that a stale interrupt is there only between the two stores |
| `VmTypeOK`, `VmTablesAreATree`, `VmEntriesAreFree`, `VmKernelIsMapped`, `VmImplementsAddressSpace` | `VmProofs` | all properties of run `vm`, for every number of entries per table, page size, size of the sections and content of the RAM |
| `KernelTypeOK`, `KernelMainStartsClean`, `KernelNoIrqBeforeEnable`, `KernelNothingLeftActive`, `KernelSavedRegistersComeBack`, `KernelConsoleReady`, `KernelLossNeedsInterrupt`, `KernelOtherPinsStay` | `KernelProofs` | all properties of run `kernel` but the two liveness properties, for every set of interrupts, .bss, transmitter and message |
| `GpioUseAsAlt5` | `KernelProofs` | what a call of `gpio_useAsAlt5` does to every pin, for all pins and contents of the registers |
| `TextCopies`, `TextTokens`, `TextQueries`, `TextNumbers`, `TextOverflow`, `TextFormats`, `TextLines` | `TextProofs` | all properties of run `text`, for memories, strings, numbers, formats and lines of every size, and all widths of `int`, `int64` and pointers |

`Loops` holds the lemmas about loops written as recursive functions (`StopIsFirst`, `AfterEquation`).
`PageAllocProofs` holds lemmas about the three operations of `pageAlloc.c`; its three clients
cite them.  Each proof about a specification has one lemma per action, or one per part of the
invariant where most actions leave that part alone.

**The tables of `vm_init`.**  Neither `TablesAreATree` nor `KernelIsMapped` is inductive: the first says nothing about
which table is on which level, and the second speaks of the end only.  The inductive invariant `IInv` of `VmProofs` says
for every step:

| Part | Says | Needed because |
|---|---|---|
| `Tree(lev)` | for some assignment of levels to the pages in use: the root alone has level 0, an entry of an upper table is free or points one level down, no two entries point at the same table, and every table but the root is pointed at | a new table is on no other way; two pages with the same level 3 table and index are the same page (`LeavesAreApart`) |
| `OnTheWay` | the table `vm_getPTEAllocating` has reached is the one on the way to `va` | the entry written at level 3 is the entry of `va` |
| `MappedSoFar` | the entry of a page is what its region asks for, if the loops have come to it, and free otherwise | the next entry is free (`EntriesAreFree`), and at the end everything is mapped |
| `Place` | `va` lies in the region; the walk is at its start unless a page is being mapped | as `MappedSoFar` depends on `va` and `region` |
| `RegistersSet` | what MAIR and TTBR1 hold after they were written | `KernelIsMapped` speaks of what the MMU reads |
| `PoolInv` | that of `PageAllocProofs` | the page taken for a table is not a table yet |

That the indices of a page identify it is a fact
of arithmetic about digits in base `Fanout` (`Digits`, `IndicesIdentify`).  That no two regions share a page
is where the linker script comes in (`Layout`, `RegionsAreApart`): the `. += 1` before `ALIGN(4096)` puts the data behind the last page
of the code.  The tree has one table more than its upper tables have entries in use because these point at all tables but
the root, each at its own (`OneEntryForEachTable`).  For the refinement, the flat table's entry of a page is the one the walk finds:
`MapPage` fills in one, which was free, and no other step changes one, not even those that grow the tree
(`AllocTableKeepsEntries`: a table that is new is empty, as free as having no table).

**From `boot.s` to `halt()`.**  The invariant of `KernelProofs` adds to the properties of run `kernel` what each of them
rests on:

| Part | Says | Needed because |
|---|---|---|
| `BootSetsUp` | which exception level and MMU bit each stretch of `boot.s` runs with, and that the MMU is left on only if the firmware entered at EL1 with it | the three entries of `boot.s` (EL3, EL2, EL1) meet in `el1_entry` |
| `HandlersCleared` | the words of .bss below `x1` are cleared, and the loop gets to them all | `addHandler` asserts that there is no handler yet |
| `QuietBeforeEnable` | until `main()` enables the timer's interrupt in the GIC nothing is enabled and no IRQ is in progress | IRQs are not masked: nothing else holds them back |
| `OneActive` | only the interrupt being handled can be active | the end of an interrupt deactivates the one it acknowledged |
| `FrameIsKept` | a register of the frame is in its place on the stack or still has its value | at every step of saving and restoring |
| `UartIsSet`, `PinsAreSet` | each store of `uart_init` is there to stay | pin 15 shares its registers with pin 14, and nothing after it may undo a store |
| `QuietConsole`, `ByteIsDue`, `RoomIsThere` | nobody prints before the UART is enabled; the room somebody has seen is there unless the handler came in between | `LossNeedsInterrupt`: two contexts share one transmitter |

**Text.**  The functions are loops, and each is right because of what holds after n turns of it; the state of `Text` only records
one call, so that each property is inductive by itself, once it is known what the function returns.  That needs two things of a
recursive function which the prover does not take for granted: that there is one with the equation written down, and induction.
`Loops` proves both for a loop in general, and `TextProofs` instantiates it for each loop of `Strings` and `Format`:

* `SetInduction` is induction for a set that is given (the theorem of the library takes an operator), from the fact that a set
  of numbers has a least member (`LeastNumber`).
* `AfterEquation`: what a loop keeps after n turns exists, begins with `Start`, and is changed by `Turn` (`IterationExists` joins the
  functions up to each bound).
* `StopIsFirst`: where a loop stops exists if its condition ever holds, and is the first such place.  This is where
  the bounds of the code are: a memory ends with a `'\0'`, what is left of a number gets less, a format gets shorter.

| Function | After n turns | Lemma |
|---|---|---|
| `string_copy` | the first n characters are at `dest`, and the others as they were, up to the place where it stops (`CopyEnd`) | `CopiedSoFar` |
| `string_tokenize` | the first n parts are recorded and each but the last has a `'\0'` for its delimiter; from `str` on nothing has changed | `TokensInv` |
| `string_reverse` | n characters at each end are reversed | `PartReversed` |
| the digits of a number | what has been read from the first n digits is what the loop that found them had left before the others | `DigitsRead` |
| `printPtr` | what has been read is the pointer without the bits of the digits to come | `PointerReads` |
| `vprintf` | n pieces are printed as what they stand for, and `str` is at the rest of the format | `PrintedSoFar` |

That a turn of `vprintf` takes exactly one piece is `PiecePrinted`; that it panics where none begins is `BrokenPanics`: what
`vprintf` would print there begins with a piece (`FlagsAreThere`), against the choice of `Broken`.  `tmp[]` is long enough because every digit of an
`int` takes one bit from it or more (`CountByBits`), and each of an `int64` in base 10 or 16 three or more (`CountByThreeBits`); `NegativeLength`
covers the least `int64` in both of its outcomes.

Assumptions, all of which TLC evaluates in the runs:

* `PageAllocAssumption`: at least one page, and page addresses that are, as numbers, above the indices of the stack, which
  holds as RAM starts at 0x40000000; so no page is `NULL`.
* `KallocAssumption`: V_RAM is a non-empty range that does not contain page 0; at least one record; tables that fit the RAM; a page is
  no larger than the range of `uint`; requests are values of `uint`; the windows lie in V_RAM; what callers store are contents of a page.
* `VmAssumption`: a table has at least two entries, a page at least one byte; there is some code; pages of RAM are
  pages of the address space; what the RAM holds are bits of entries.
* `LayoutAssumption`: the order of `link.ld` and `mem.h`, the stack below the code, the end of the kernel below the
  peripherals (and they are at 0xFE000000, above all RAM the boot loader could put it in), those below the GIC, and all of it within 48 bits of address.
* `TimerAssumption` and `MsAssumption`: the modulus of `uint` and the ticks are not 0; what is passed to `timer_setTimer` is a number.
* `UartAssumption`: the transmitter has room for a byte, and a message has one.
* `InterruptsAssumption`, `BootAssumption`, `KernelAssumption`: there are at most 32 ARMC interrupts, among them the timer's;
  `NULL` is not a function, and `timer_handleIRQ` is one; .bss contains all of `interruptHandlers[]`.
* `TextAssumption`: an `int64` is longer than an `int`; `tmp[]` has room for an `int` in binary with its sign and the `'\0'`, and for
  a third of the bits of an `int64` (50 is at least 32 + 2, and 64 at most 3 * 48); letters are neither `'\0'` nor newlines; the pointers have the
  bytes of a pointer.

Only model-checked: liveness (`CallsReturn`, `TimerIsServed`, `MainFinishes`), as `ENABLED`, on which fairness rests, is out of
the prover's reach.  Every other property of a passing run is a theorem.

## 6. Where code and comments disagree

Six have a run with a counterexample.

1. `kalloc_zero`: the comment at `vm.c:301` explains what `vm_getVaRange` does for size 0, but
   `count` is never equal to 0 when it is compared, and the search panics.  Sizes within a page of
   2^32 wrap to 0 and end the same way; `GrantCoversRequest` shows that no
   wrapped request is served with less than it asked for.
2. `vm_switch`: `vm_init` maps the kernel at its physical addresses, in the lower half, but gives the
   table to TTBR1, which translates the upper half, and disables walks for
   the lower half (`vm_setConfig(false, true)`).
3. `kernel_handler`: `timer_init` runs with IRQs enabled, starts the timer and installs its
   handler last; and a spurious acknowledgement (1023) indexes past `interruptHandlers[128]`.
4. `kernel_registers`: `irq_handler` claims to save the caller-saved registers but leaves out x4 to x18.
5. `text_copy`: `string_copy` looks for the terminator after it has advanced and does not copy it (`string.c:37`); nor
   does `string_append`.  With an empty `src`, which `string.h:12-14` allows, it reads past the terminator and copies everything up to the next `'\0'`,
   or up to the one it has written itself, whether `dest` has room for it or not.
6. `text_find`: `string_find` stops at the terminator and returns its address (`string.c:68`); `string.h:26` says `NULL`.

Others came up while the modules were written, and have no run:

* `vm.c:198` says `kernelPagetable[511]` points to `kernelPagetable`.  Nothing sets it, so that every access of `vm_getPTE`
  with the MMU on faults (`vm.c:196-204`).
* `vm.c:105` says of the access flag "cpu generates a fault if this is set to 0".  The
  descriptors of tables do not set it, and the loop address uses tables as pages; and it lies in the
  lower half, for which `vm_setConfig` disables walks.  So it would fault with entry 511 set, too.
* `timer.c:54` ORs the FREEDIV value 0x3e into bits [5:1] instead of [21:16], which
  overwrites the DIV field written at line 46.
* `timer.c:30` multiplies by 4000 in 32 bits: from 1073742 ms on the timer fires early.
  `timer.h:7` says "value is in ms".
* `cpu_invalidateTLB` (`cpu.h:285`) has no `dsb` before its `tlbi`: the translation of a page that `vm_unmap` has
  unmapped may survive, until the next `kalloc` maps a page (section 4).
* An MMU that is on when the firmware enters at EL1 stays on: only the ways from EL3 and EL2 turn it off (`boot.s`), and `vm_init` stops the kernel at its
  assertion (`vm.c:338`).
* `string_findString` finds the empty string nowhere, where other libraries find it at the start.
* `tmp[50]` in `printInt` is too short for `%lb` and `%ulb` of numbers that take 50 characters or more (`OnlyLongBinaryOverflows` shows that nothing else is).
* `readLine` leaves a line that fills the room given to it without a terminator.
* `io.h:18` lists the modifiers in no order; `vprintf` takes `%ul` and panics about `%lu`.
* A size of .bss that is no multiple of 8 leaves its last bytes uncleared (`boot.s:72`).
* `irq_handler` pushes 8 bytes for `lr` (`exceptionVectorTables.s:42`), so that the C code is called with a
  stack pointer that is not a multiple of 16.  `sctlr_el1.sa` is 0 when boot.s comes from EL2, so it does not fault.

## 7. Not modelled

* `uart_readByte`, but as the source of the characters of `readLine`: nothing in the kernel reads yet.
* What is printed when the kernel stops: the decoding of `esr_el1` in `exceptions.c`, the message of `_panic`.
* The other three cores, which stay in the loop at `_entry`.
* `cpu.h`: inline assembly; what the registers do is in the modules that use them.
* `xhci.c` is commented out as a whole; `logo.h` is a string.

## 8. Plan

Done, in this order: page allocator, kernel allocator, virtual memory, interrupts with the
timer; proofs for the first two; the start of the kernel, UART and GPIO, composed with the interrupts; text; the
proofs about the timer, the start of the kernel and its interrupts, the page tables, and the text functions.

Two modules are composed but not joined: `Kalloc` and `Vm` share `PageAlloc` and the contract of
`window`.  A module that starts `Kalloc` in a final state of `Vm` would replace the contract,
once the loop entry exists.
