------------------------------- MODULE Format -------------------------------
(***************************************************************************)
(* The formatted output and the line input of src/src/io.c.  Characters    *)
(* that digits are computed from are ASCII codes; the characters of a      *)
(* format are strings.                                                     *)
(***************************************************************************)
EXTENDS Strings

CONSTANTS
  IntBits, LongBits,   \* the width of int and of int64
  PtrBytes             \* the bytes of a pointer

(* 2 to the power of n.                                                    *)
Pow2[n \in Nat] == IF n = 0 THEN 1 ELSE 2 * Pow2[n - 1]

Minus == 45            \* '-'
CharOf(digit) == IF digit < 10 THEN digit + 48 ELSE digit - 10 + 65

(* The operators of C round towards zero.                                  *)
Quotient(a, b) == IF a < 0 THEN -((-a) \div b) ELSE a \div b
Remainder(a, b) == a - Quotient(a, b) * b

(* The loop that both conversions run: the last digit comes first.  What   *)
(* is left of the value after n turns.                                     *)
Left(value, base) ==
  LET left[n \in Nat] == IF n = 0 THEN value ELSE Quotient(left[n - 1], base)
  IN  left

Digits(value, base) ==
  LET left == Left(value, base)
      count[n \in Nat] == IF left[n] = 0 THEN n ELSE count[n + 1]
  IN  [n \in 1 .. count[0] |-> CharOf(Remainder(left[n - 1], base))]

(* Everything written to dest, with the '\0' at the end.                   *)
Finish(dest) == Append(string_reverse(dest, 1, Len(dest)), Nul)

uintToString(value, base) ==
  IF value = 0 THEN <<48, Nul>> ELSE Finish(Digits(value, base))

(* value = -value overflows for the least int64: the loop then sees the    *)
(* negative number, or, if the compiler takes it for positive, its         *)
(* absolute value.                                                         *)
Negations(value) == IF value = -Pow2[LongBits - 1] THEN {value, -value} ELSE {-value}

intToString(value, base) ==
  IF value = 0 THEN {<<48, Nul>>}
  ELSE IF value > 0 THEN {Finish(Digits(value, base))}
  ELSE {Finish(Digits(negated, base) \o <<Minus>>) : negated \in Negations(value)}

Signed(bits, n) == IF n < Pow2[bits - 1] THEN n ELSE n - Pow2[bits]

(* Mutant: an argument that is not unsigned is taken for an int64.         *)
PrintIntLong(arg, u, l, base) ==
  IF u THEN {uintToString(arg % Pow2[IF l THEN LongBits ELSE IntBits], base)}
       ELSE intToString(Signed(LongBits, arg), base)

(* Mutant: an unsigned argument is extended with its sign.                 *)
PrintIntExtended(arg, u, l, base) ==
  LET bits == IF l THEN LongBits ELSE IntBits
      value == Signed(bits, arg % Pow2[bits])
  IN  IF u THEN {uintToString(value % Pow2[LongBits], base)} ELSE intToString(value, base)

(* What may be in tmp[] after the conversion of an argument, of which      *)
(* va_arg() takes the bits of its type.                                    *)
printInt(arg, u, l, base) ==
  LET bits == IF l THEN LongBits ELSE IntBits
      taken == arg % Pow2[bits]
  IN  IF u THEN {uintToString(taken, base)} ELSE intToString(Signed(bits, taken), base)

(* The digits after the 0x: the bytes from the last one in memory to the   *)
(* first, each by its two halves.                                          *)
printPtr(ptr) ==
  LET arr(i) == (ptr \div Pow2[8 * i]) % 256
      byte(k) == arr(PtrBytes - 1 - (k - 1) \div 2)
  IN  [k \in 1 .. 2 * PtrBytes |->
         CharOf(IF k % 2 = 1 THEN byte(k) \div 16 ELSE byte(k) % 16)]

-----------------------------------------------------------------------------

BaseOf == [d |-> 10, i |-> 10, x |-> 16, b |-> 2]
IntSpec == DOMAIN BaseOf
PlainSpec == {"c", "s", "B", "p"}

Starts(str, c) == str # <<>> /\ Head(str) = c
Skip(str, c) == IF Starts(str, c) THEN Tail(str) ELSE str

Literal(c) == <<"literal", c>>
Conversion(spec, u, l) == <<"conversion", spec, u, l>>

(* Mutant: a conversion that takes no modifier is printed with one.        *)
AcceptedWithModifier(spec, u, l) == spec # <<>> /\ Head(spec) \in IntSpec \cup PlainSpec

(* A conversion that vprintf() does not panic about.                       *)
Accepted(spec, u, l) ==
  /\ spec # <<>>
  /\ Head(spec) \in IntSpec \/ (Head(spec) \in PlainSpec /\ ~u /\ ~l)

Panic == <<"panic">>

(* One turn of the loop of vprintf(), from str on: what is left of the     *)
(* format, and what has been printed.  After a panic nothing more is read. *)
PrintPiece(before) ==
  LET str == before.str
      after == Tail(str)
      u == Starts(after, "u")
      afterU == Skip(after, "u")
      l == Starts(afterU, "l")
      spec == Skip(afterU, "l")
      Printed(rest, piece) == [str |-> rest, out |-> Append(before.out, piece)]
  IN  IF ~Starts(str, "%") THEN Printed(after, Literal(Head(str)))
      ELSE IF Starts(after, "%") THEN Printed(Tail(after), Literal("%"))
      ELSE IF Accepted(spec, u, l) THEN Printed(Tail(spec), Conversion(Head(spec), u, l))
      ELSE Printed(<<>>, Panic)

(* The loop of vprintf(): where it is after n turns.                       *)
PrintedFrom(str) ==
  LET after[n \in Nat] ==
        IF n = 0 THEN [str |-> str, out |-> <<>>] ELSE PrintPiece(after[n - 1])
  IN  after

vprintf(str) ==
  LET after == PrintedFrom(str)
      turns[n \in Nat] == IF after[n].str = <<>> THEN n ELSE turns[n + 1]
  IN  after[turns[0]].out

-----------------------------------------------------------------------------

NewLine == 10

(* Mutant: a line may have one character more than there is room for.      *)
LineEndOneMore(input, maxCharCount) ==
  LET read[i \in Nat] == IF i > maxCharCount + 1 \/ input[i] = NewLine THEN i ELSE read[i + 1]
  IN  read[1]

(* Where the loop of readLine() ends, with input what readChar() returns,  *)
(* in turn: at a newline, or past maxCharCount.                            *)
LineEnd(input, maxCharCount) ==
  LET read[i \in Nat] == IF i > maxCharCount \/ input[i] = NewLine THEN i ELSE read[i + 1]
  IN  read[1]

readLine(dest, input, maxCharCount) ==
  LET end == LineEnd(input, maxCharCount)
  IN  [i \in DOMAIN dest |->
         IF i < end THEN input[i]
         ELSE IF i = end /\ end <= maxCharCount THEN Nul ELSE dest[i]]
=============================================================================
