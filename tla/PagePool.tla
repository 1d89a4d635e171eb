------------------------------ MODULE PagePool ------------------------------
(***************************************************************************)
(* What src/include/pageAlloc.h promises, with no stack in sight: a pool   *)
(* of pages out of which any free page may be taken and into which a taken *)
(* page may be given back.                                                 *)
(***************************************************************************)
CONSTANT Page

VARIABLES
  free,   \* the pages nobody owns
  taken   \* the pages handed out

Init == free = Page /\ taken = {}

Take(p) ==
  /\ p \in free
  /\ free' = free \ {p}
  /\ taken' = taken \cup {p}

Give(p) ==
  /\ p \in taken
  /\ taken' = taken \ {p}
  /\ free' = free \cup {p}

Next == \E p \in Page : Take(p) \/ Give(p)

Spec == Init /\ [][Next]_<<free, taken>>
=============================================================================
