---------------------------- MODULE AddressSpace ----------------------------
(***************************************************************************)
(* What the page tables of vm.c stand for: one table with an entry for     *)
(* every virtual page, in which a free entry can be filled in.             *)
(***************************************************************************)
CONSTANTS
  Page,         \* the virtual pages
  Descriptor,   \* what an entry in use can hold
  Invalid       \* an entry that is free

VARIABLE space  \* the entry of every virtual page

Init == space = [v \in Page |-> Invalid]

(* Only the entry of v changes, and only if it was free.                   *)
Map(v) ==
  /\ space[v] = Invalid
  /\ space'[v] \in Descriptor
  /\ space' = [space EXCEPT ![v] = space'[v]]

Next == \E v \in Page : Map(v)

Spec == Init /\ [][Next]_space
=============================================================================
