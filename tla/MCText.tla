------------------------------- MODULE MCText -------------------------------
(* Six characters of memory, numbers of 8 and 12 bits with a tmp[] that    *)
(* every number of 8 bits fits, pointers of two bytes at the borders of    *)
(* their digits.                                                           *)
EXTENDS Text

MCLetter == {97, 98}
MCPtr == {high * 256 + low : high, low \in {0, 9, 10, 15, 16, 144, 159, 160, 250, 255}}
=============================================================================
