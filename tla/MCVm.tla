-------------------------------- MODULE MCVm --------------------------------
(* Three entries per table, 81 pages: the stack in pages 1 and 2, the      *)
(* kernel from page 3 on, RAM for the tables from page 18 on, and devices  *)
(* in pages that share some tables with each other and with nothing else.  *)
EXTENDS Vm

(* RAM is zero, or holds what looks like valid entries: everywhere, or in  *)
(* every second entry of the pages handed out first.                       *)
Leftover == [PageDescriptor(IDX_NORMAL, FALSE, PRIV_RW, PRamStart) EXCEPT !.ap = 1]

Contents(isLeftover(_, _)) ==
  [p \in PPage |-> [i \in Index |-> IF isLeftover(p, i) THEN Leftover ELSE Invalid]]

JunkContents ==
  {Contents(LAMBDA p, i : FALSE), Contents(LAMBDA p, i : TRUE),
   Contents(LAMBDA p, i : p > PRamStart + MaxPages \div 2 /\ i % 2 = 0)}
=============================================================================
