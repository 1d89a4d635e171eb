-------------------------------- MODULE Heap --------------------------------
(***************************************************************************)
(* What src/include/kalloc.h promises to the kernel code that calls it,    *)
(* with no page tables, TLB or free stack in sight: regions of virtual     *)
(* pages that belong to one caller each, and memory that keeps what was    *)
(* last written to it until it is freed.                                   *)
(***************************************************************************)
EXTENDS Integers

CONSTANTS
  VPage,     \* the virtual pages regions are made of, an interval of integers
  Value,     \* what a page of memory can hold
  None       \* neither a virtual page nor a value

VARIABLES
  region,    \* region[v]: the start of the region v belongs to, or None
  mem        \* mem[v]: what a read of page v returns, or None outside regions

Init ==
  /\ region = [v \in VPage |-> None]
  /\ mem = [v \in VPage |-> None]

(* A caller is given n free pages in a row, with whatever they contain;    *)
(* nobody else's memory changes.                                           *)
Alloc(start, n) ==
  LET new == start .. start + n - 1
  IN  /\ new # {} /\ new \subseteq VPage
      /\ \A v \in new : region[v] = None
      /\ region' = [v \in VPage |-> IF v \in new THEN start ELSE region[v]]
      /\ mem' \in [VPage -> Value \cup {None}]
      /\ \A v \in VPage : IF v \in new THEN mem'[v] \in Value
                                       ELSE mem'[v] = mem[v]

(* A whole region ceases to exist; nobody else's memory changes.           *)
Free(start) ==
  /\ region[start] = start
  /\ region' = [v \in VPage |-> IF region[v] = start THEN None ELSE region[v]]
  /\ mem' = [v \in VPage |-> IF region[v] = start THEN None ELSE mem[v]]

(* A caller writes to its memory; only the page written changes.           *)
Write(v, x) ==
  /\ region[v] # None
  /\ mem' = [mem EXCEPT ![v] = x]
  /\ UNCHANGED region

Next ==
  \/ \E v \in VPage, x \in Value : Write(v, x)
  \/ \E start \in VPage : Free(start)
  \/ \E start \in VPage : \E end \in VPage : Alloc(start, end - start + 1)

Spec == Init /\ [][Next]_<<region, mem>>
=============================================================================
