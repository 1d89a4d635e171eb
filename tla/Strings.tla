------------------------------ MODULE Strings ------------------------------
(***************************************************************************)
(* src/src/string.c.  Memory is a function from addresses to characters,   *)
(* and a string its address.  A function that writes returns the memory    *)
(* after it, without what it writes past the last address; the assertions  *)
(* about NULL arguments are left out.  A loop is a recursive function: of  *)
(* the place it has come to, or, where it changes more than that, of the   *)
(* turns it has made (after[n]).                                           *)
(***************************************************************************)
EXTENDS Integers, Sequences

CONSTANT Nul   \* '\0'

NULL == -1

string_length(mem, str) ==
  LET end[p \in Nat] == IF mem[p] = Nul THEN p ELSE end[p + 1]
  IN  end[str] - str

string_compare(mem, lhs, rhs) ==
  LET end[n \in Nat] ==
        IF mem[lhs + n] # mem[rhs + n] \/ mem[lhs + n] = Nul THEN n ELSE end[n + 1]
  IN  lhs # NULL /\ rhs # NULL /\ mem[lhs + end[0]] = mem[rhs + end[0]]

(* The loop of string_copy(): the memory after n turns.                    *)
Copied(mem, dest, src) ==
  LET after[n \in Nat] ==
        IF n = 0 THEN mem
        ELSE LET before == after[n - 1]
             IN  [before EXCEPT ![(dest + n) - 1] = before[(src + n) - 1]]
  IN  after

(* The loop looks for the '\0' after it has advanced, and does not copy it.*)
CopyTurns(mem, dest, src) ==
  LET after == Copied(mem, dest, src)
      turns[n \in Nat] == IF after[n][src + n] = Nul THEN n ELSE turns[n + 1]
  IN  turns[1]

(* Mutant: the loop advances and looks for the '\0' before it copies.      *)
CopyAfterTest(mem, dest, src) ==
  Copied(mem, dest, src)[CopyTurns(mem, dest, src) - 1]

string_copy(mem, dest, src) == Copied(mem, dest, src)[CopyTurns(mem, dest, src)]

string_append(mem, dest, src) == string_copy(mem, dest + string_length(mem, dest), src)

string_find(mem, str, c) ==
  LET find[p \in Nat] == IF mem[p] \in {Nul, c} THEN p ELSE find[p + 1]
  IN  find[str]

(* Mutant: the delimiter is not replaced.                                  *)
KeepDelimiter(delimeter, before) ==
  LET end == string_find(before.mem, before.str, delimeter)
  IN  IF before.str = NULL THEN before
      ELSE [mem |-> before.mem, destArr |-> Append(before.destArr, before.str),
            str |-> IF before.mem[end] = Nul THEN NULL ELSE end + 1]

(* One turn of the loop of string_tokenize(): destArr gets the start of a  *)
(* token, and the delimiter after it becomes its '\0'.  At the end of the  *)
(* string the loop returns from within: there is no str to go on from.     *)
Tokenize(delimeter, before) ==
  LET mem == before.mem
      str == before.str
      end == string_find(mem, str, delimeter)
      found == Append(before.destArr, str)
  IN  IF str = NULL THEN before
      ELSE IF mem[end] = Nul THEN [mem |-> mem, destArr |-> found, str |-> NULL]
      ELSE [mem |-> [mem EXCEPT ![end] = Nul], destArr |-> found, str |-> end + 1]

Tokenized(mem, str, delimeter) ==
  LET after[n \in Nat] ==
        IF n = 0 THEN [mem |-> mem, destArr |-> <<>>, str |-> str]
        ELSE Tokenize(delimeter, after[n - 1])
  IN  after

(* What is returned is the number of tokens that the loop has counted.     *)
string_tokenize(mem, destArr, str, delimeter, maxTokenCount) ==
  IF destArr = NULL \/ str = NULL \/ delimeter = Nul
  THEN [mem |-> mem, destArr |-> <<>>, returned |-> -1]
  ELSE LET end == Tokenized(mem, str, delimeter)[maxTokenCount]
       IN  [mem |-> end.mem, destArr |-> end.destArr, returned |-> Len(end.destArr)]

(* Whether the inner loop finds seq at str.                                *)
FoundAt(mem, str, seq) ==
  LET end[j \in Nat] ==
        IF mem[seq + j] # mem[str + j] \/ mem[seq + j + 1] = Nul THEN j ELSE end[j + 1]
  IN  mem[seq + end[0]] = mem[str + end[0]]

string_findString(mem, str, seq) ==
  LET find[p \in Nat] == IF mem[p] = Nul \/ FoundAt(mem, p, seq) THEN p ELSE find[p + 1]
  IN  IF mem[find[str]] = Nul THEN NULL ELSE find[str]

(* Mutant: the first character is not looked at.                           *)
FindAfterFirst(mem, str, strLength, c) ==
  LET find[n \in Nat] == IF n = strLength \/ mem[(str + strLength) - n] = c THEN n ELSE find[n + 1]
  IN  IF find[0] = strLength THEN NULL ELSE (str + strLength) - find[0]

(* The loop goes back by n characters.                                     *)
string_findFromBack(mem, str, strLength, c) ==
  LET back[n \in Nat] == IF mem[(str + strLength) - n] = c \/ n = strLength THEN n ELSE back[n + 1]
      it == (str + strLength) - back[0]
  IN  IF mem[it] = c THEN it ELSE NULL

(* The characters from str to end are swapped from both ends: the memory   *)
(* after n turns.                                                          *)
Swapped(mem, str, end) ==
  LET after[n \in Nat] ==
        IF n = 0 THEN mem
        ELSE LET before == after[n - 1]
                 first == (str + n) - 1
                 last == (end - n) + 1
             IN  [before EXCEPT ![first] = before[last], ![last] = before[first]]
  IN  after

string_reverse(mem, str, length) ==
  LET end == (str + length) - 1
      turns[n \in Nat] == IF str + n >= end - n THEN n ELSE turns[n + 1]
  IN  Swapped(mem, str, end)[turns[0]]
=============================================================================
