------------------------------- MODULE MCKalloc -------------------------------
(* Two values for the contents of memory.  One of the pages holds y to     *)
(* begin with, and callers store x.                                        *)
EXTENDS Kalloc

CONSTANTS x, y

TwoValues == {x, y}
StoredValue == {x}
SomeDiffer == {[p \in PPage |-> IF p = PRamStart THEN y ELSE x]}

AllOfVRam == {VPage}

(* Or the tables exist for the first page only.                            *)
AllOrFirst == {VPage, {VRamStart}}
=============================================================================
