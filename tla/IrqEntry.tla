------------------------------ MODULE IrqEntry ------------------------------
(***************************************************************************)
(* irq_handler of src/src/exceptionVectorTables.s: what becomes of the     *)
(* registers of the interrupted code while the C handler runs.             *)
(*                                                                         *)
(* The value the interrupted code had in a group of registers is named     *)
(* like the group; "other" is anything else.                               *)
(***************************************************************************)
EXTENDS Sequences, Naturals

VARIABLES
  reg,      \* the general purpose registers
  stack     \* what irq_handler has pushed

entryVars == <<reg, stack>>

Group == {"x0_x1", "x2_x3", "x4_x18", "x19_x29", "lr"}

(* The procedure call standard: a C function leaves x19 to x29 as they     *)
(* were; the others are the caller's to save.                              *)
CallerSaved == Group \ {"x19_x29"}

(* The three stores of irq_handler, which its loads undo in reverse.       *)
Frame == <<"x0_x1", "x2_x3", "lr">>

Untouched == [g \in Group |-> g]

EntryInit == reg = Untouched /\ stack = <<>>

(* Whatever is in the registers now is what the interrupted code has.      *)
Enter ==
  /\ reg' = Untouched
  /\ stack' = <<>>

Push ==
  /\ Len(stack) < Len(Frame)
  /\ stack' = Append(stack, reg[Frame[Len(stack) + 1]])
  /\ UNCHANGED reg

(* bl overwrites lr; what it calls may overwrite the other registers C     *)
(* code need not preserve.                                                 *)
CallC ==
  /\ Len(stack) = Len(Frame)
  /\ \E used \in SUBSET CallerSaved :
       reg' = [g \in Group |-> IF g \in used \cup {"lr"} THEN "other" ELSE reg[g]]
  /\ UNCHANGED stack

(* Mutant: the loads are in the order of the stores.                       *)
PopInOrder ==
  /\ Len(stack) > 0
  /\ reg' = [reg EXCEPT ![Frame[Len(Frame) + 1 - Len(stack)]] = stack[Len(stack)]]
  /\ stack' = SubSeq(stack, 1, Len(stack) - 1)

Pop ==
  /\ Len(stack) > 0
  /\ reg' = [reg EXCEPT ![Frame[Len(stack)]] = stack[Len(stack)]]
  /\ stack' = SubSeq(stack, 1, Len(stack) - 1)

AllPopped == stack = <<>>

EntryTypeOK ==
  /\ reg \in [Group -> Group \cup {"other"}]
  /\ stack \in Seq(Group \cup {"other"}) /\ Len(stack) <= Len(Frame)
=============================================================================
