-------------------------------- MODULE Text --------------------------------
(***************************************************************************)
(* Calls of the functions of string.h and io.h, each with any arguments it *)
(* may be given.  Nothing in the kernel calls most of them yet: what they  *)
(* may be given is what their comments allow.                              *)
(***************************************************************************)
EXTENDS Format, FiniteSets, SequencesExt

CONSTANTS
  Letter,       \* the characters of strings
  MemSize,      \* the characters the memory has room for
  TmpSize,      \* the size of tmp[] in printInt()
  Ptr,          \* the pointers that are printed
  MaxPieces,    \* how many pieces a format is put together from
  MaxTokens,    \* how long the array of tokens may be
  MaxInput      \* how many characters are typed

(* An int64 is longer than an int.  tmp[] has room for an int in binary    *)
(* with its sign and the '\0', and for an int64 with a digit for every     *)
(* three bits.                                                             *)
ASSUME TextAssumption ==
  /\ MemSize \in Nat \ {0} /\ MaxTokens \in Nat /\ MaxInput \in Nat /\ MaxPieces \in Nat \ {0}
  /\ IntBits \in Nat \ {0} /\ LongBits \in Nat /\ IntBits < LongBits /\ PtrBytes \in Nat \ {0}
  /\ TmpSize \in Nat /\ IntBits + 2 <= TmpSize /\ LongBits <= 3 * (TmpSize - 2)
  /\ Letter \subseteq Nat \ {0} /\ NewLine \notin Letter /\ Nul = 0
  /\ Ptr \subseteq 0 .. Pow2[8 * PtrBytes] - 1

VARIABLES
  call,     \* the function that was called, or "none"
  args,     \* its arguments, the memory first if it uses it
  result    \* what it returned, and the memory after it if it writes

vars == <<call, args, result>>

Addr == 0 .. MemSize - 1
Memory == {mem \in [Addr -> Letter \cup {Nul}] : mem[MemSize - 1] = Nul}

Init == call = "none" /\ args = <<>> /\ result = <<>>

Idle == call = "none"

Calls(name, arguments, returned) ==
  call' = name /\ args' = arguments /\ result' = returned

Compare ==
  /\ Idle
  /\ \E mem \in Memory : \E lhs, rhs \in Addr \cup {NULL} :
       Calls("compare", <<mem, lhs, rhs>>, string_compare(mem, lhs, rhs))

(* dest is at least as large as src, and apart from it; and there is some  *)
(* memory after the '\0' of an empty src.                                  *)
Copyable(mem, dest, src) ==
  LET length == string_length(mem, src)
  IN  /\ src + 1 \in Addr
      /\ dest + length \in Addr
      /\ dest + length < src \/ src + length < dest

Copy ==
  /\ Idle
  /\ \E mem \in Memory : \E dest, src \in Addr :
       /\ Copyable(mem, dest, src)
       /\ Calls("copy", <<mem, dest, src>>, string_copy(mem, dest, src))

AppendTo ==
  /\ Idle
  /\ \E mem \in Memory : \E dest, src \in Addr :
       /\ Copyable(mem, dest + string_length(mem, dest), src)
       /\ Calls("append", <<mem, dest, src>>, string_append(mem, dest, src))

(* The array of tokens lies after the memory.                              *)
Tokens ==
  /\ Idle
  /\ \E mem \in Memory, destArr \in {NULL, MemSize}, str \in Addr \cup {NULL},
        delimeter \in Letter \cup {Nul}, max \in 0 .. MaxTokens :
       Calls("tokenize", <<mem, destArr, str, delimeter, max>>,
             string_tokenize(mem, destArr, str, delimeter, max))

Search ==
  /\ Idle
  /\ \E mem \in Memory : \E str \in Addr :
       \/ \E c \in Letter : Calls("find", <<mem, str, c>>, string_find(mem, str, c))
       \/ \E seq \in Addr : Calls("findString", <<mem, str, seq>>, string_findString(mem, str, seq))
       \/ \E c \in Letter \cup {Nul}, strLength \in 0 .. string_length(mem, str) :
            Calls("findFromBack", <<mem, str, strLength, c>>,
                  string_findFromBack(mem, str, strLength, c))

PrintNumber ==
  /\ Idle
  /\ \E u, l \in BOOLEAN, spec \in IntSpec :
       \E arg \in 0 .. Pow2[IF l THEN LongBits ELSE IntBits] - 1 :
         \E tmp \in printInt(arg, u, l, BaseOf[spec]) :
           Calls("printInt", <<arg, u, l, spec>>, tmp)

PrintPointer == Idle /\ \E ptr \in Ptr : Calls("printPtr", <<ptr>>, printPtr(ptr))

ReadLine ==
  /\ Idle
  /\ \E max \in 0 .. MaxInput :
       \E input \in [1 .. MaxInput -> Letter \cup {NewLine}], dest \in [1 .. MaxInput + 1 -> Letter] :
         Calls("readLine", <<dest, input, max>>, readLine(dest, input, max))

-----------------------------------------------------------------------------
(* The formats: what io.h lists, put together.                             *)

Flags == {<<>>, <<"u">>, <<"l">>, <<"u", "l">>}
Char == IntSpec \cup PlainSpec \cup {"u", "l", "%", "\n"}

IntText(flags, spec) == <<"%">> \o flags \o <<spec>>

LiteralTexts == {<<c>> : c \in Char \ {"%"}}
PercentTexts == {<<"%", "%">>}
IntTexts == {IntText(flags, spec) : flags \in Flags, spec \in IntSpec}
PlainTexts == {<<"%", spec>> : spec \in PlainSpec}

(* Each piece of a format, with what it stands for.                        *)
Pieces ==
  [text : LiteralTexts \cup PercentTexts, means : {"literal"}]
    \cup [text : IntTexts \cup PlainTexts, means : {"conversion"}]

Meaning(piece) ==
  LET text == piece.text
  IN  IF piece.means = "literal" THEN Literal(Last(text))
      ELSE Conversion(Last(text), "u" \in ToSet(Front(text)), "l" \in ToSet(Front(text)))

(* What begins with a % and is not a piece, nor begins with one.           *)
Broken ==
  {broken \in {<<"%">> \o rest : rest \in SeqOf(Char, 3)} :
     \A piece \in Pieces : ~IsPrefix(piece.text, broken)}

(* The text of a format, put together from its end.                        *)
TextOf(pieces, broken) ==
  LET from[n \in Nat] ==
        IF n = 0 THEN broken ELSE pieces[(Len(pieces) - n) + 1].text \o from[n - 1]
  IN  from[Len(pieces)]

CallVprintf(pieces, broken) ==
  Calls("vprintf", <<pieces, broken>>, vprintf(TextOf(pieces, broken)))

PrintFormat ==
  /\ Idle
  /\ \/ \E pieces \in SeqOf(Pieces, MaxPieces) : CallVprintf(pieces, <<>>)
     \/ \E pieces \in SeqOf(Pieces, MaxPieces - 1), broken \in Broken : CallVprintf(pieces, broken)

Returned == ~Idle /\ UNCHANGED vars

Next ==
  \/ Compare \/ Copy \/ AppendTo \/ Tokens \/ Search
  \/ PrintNumber \/ PrintPointer \/ PrintFormat \/ ReadLine
  \/ Returned

Spec == Init /\ [][Next]_vars

-----------------------------------------------------------------------------

(* The string at an address.                                               *)
StringAt(mem, str) ==
  LET length == Min({n \in 0 .. MemSize : str + n \in Addr /\ mem[str + n] = Nul})
  IN  [n \in 1 .. length |-> mem[str + n - 1]]

(* Where string_copy() stops reading: at the first '\0' after src, or, on  *)
(* its way there, at the '\0' of an empty src that it has copied to dest.  *)
CopyEnd(mem, dest, src) == Min({p \in Addr : p > src /\ (mem[p] = Nul \/ p = dest)})

(* string_copy() and string_append() copy what they read, and touch        *)
(* nothing else.  Of a string that is not empty these are its characters,  *)
(* for which dest has room; of the empty one its '\0' and all that follows *)
(* up to the next '\0', for which dest need not have any.                  *)
CopiesUpToNul ==
  call \in {"copy", "append"} =>
    LET mem == args[1]
        src == args[3]
        dest == IF call = "copy" THEN args[2] ELSE args[2] + Len(StringAt(mem, args[2]))
        copied == dest .. (dest + (CopyEnd(mem, dest, src) - src)) - 1
    IN  result = [p \in Addr |-> IF p \in copied THEN mem[src + (p - dest)] ELSE mem[p]]

(* Where the string at str ends, or the part of it that starts there.      *)
PartEnd(mem, str, delimeter) == Min({p \in Addr : p >= str /\ mem[p] \in {Nul, delimeter}})

(* string_tokenize() returns the parts of the string between delimiters,   *)
(* as strings of their own, in order from the first on and as many as fit, *)
(* and changes only delimiters of the string.  Without an array, a string  *)
(* or a delimiter it changes nothing and returns -1.                       *)
TokensAreTheParts ==
  call = "tokenize" =>
    LET mem == args[1]
        str == args[3]
        max == args[5]
        destArr == result.destArr
        count == Len(destArr)
        end(n) == PartEnd(mem, destArr[n], args[4])
        strEnd == str + Len(StringAt(mem, str))
    IN  IF args[2] = NULL \/ str = NULL \/ args[4] = Nul
        THEN result.returned = -1 /\ destArr = <<>> /\ result.mem = mem
        ELSE /\ result.returned = count /\ count <= max /\ (count = 0 => max = 0)
             /\ \A n \in 1 .. count :
                  /\ destArr[n] = IF n = 1 THEN str ELSE end(n - 1) + 1
                  /\ StringAt(result.mem, destArr[n])
                       = [i \in 1 .. end(n) - destArr[n] |-> mem[(destArr[n] + i) - 1]]
             /\ count < max => end(count) = strEnd
             /\ \A p \in Addr : result.mem[p] # mem[p] => mem[p] = args[4] /\ p \in str .. strEnd

(* What the functions that only read return.  Two strings compare equal if *)
(* they are, and never with NULL.  A search returns the first place there  *)
(* is, or from the back the last, and NULL if there is none: except for    *)
(* string_find(), of which this says nothing.  The empty string is nowhere.*)
QueriesAnswerRight ==
  LET mem == args[1]
      str == args[2]
      text == StringAt(mem, str)
      within == str .. str + Len(text)
      seq == StringAt(mem, args[3])
      places == {p \in within : mem[p] = args[3]}
      found == {p \in within : seq # <<>> /\ IsPrefix(seq, StringAt(mem, p))}
      fromBack == {p \in str .. str + args[3] : mem[p] = args[4]}
  IN  /\ call = "compare" => result = (str # NULL /\ args[3] # NULL /\ text = seq)
      /\ call = "find" /\ places # {} => result = Min(places)
      /\ call = "findString" => result = IF found = {} THEN NULL ELSE Min(found)
      /\ call = "findFromBack" => result = IF fromBack = {} THEN NULL ELSE Max(fromBack)

DigitOf(char) == IF char \in 48 .. 57 THEN char - 48 ELSE char - 65 + 10

(* What a reader takes digits for, which must be digits of the base.       *)
IsNumber(text, base) ==
  /\ text # <<>>
  /\ \A n \in DOMAIN text :
       text[n] \in (48 .. 57) \cup (65 .. 70) /\ DigitOf(text[n]) < base
NumberOf(text, base) ==
  LET number[n \in Nat] == IF n = 0 THEN 0 ELSE number[n - 1] * base + DigitOf(text[n])
  IN  number[Len(text)]

(* A number reads back, in the base io.h gives for its conversion, as the  *)
(* argument has it in its type, without leading zeros; a pointer as all of *)
(* its digits.  Two kinds are left out, for which C defines nothing: the   *)
(* least int64, whose negation overflows, and what is too long for tmp[].  *)
NumbersReadBack ==
  /\ (/\ call = "printInt" /\ Len(result) <= TmpSize
      /\ ~(args[3] /\ ~args[2] /\ args[1] = Pow2[LongBits - 1])) =>
       LET base == [d |-> 10, i |-> 10, x |-> 16, b |-> 2][args[4]]
           mod == Pow2[IF args[3] THEN LongBits ELSE IntBits]
           negative == result[1] = Minus
           text == IF negative THEN Tail(Front(result)) ELSE Front(result)
           number == IF negative THEN -NumberOf(text, base) ELSE NumberOf(text, base)
       IN  /\ IsNumber(text, base)
           /\ text[1] = 48 => text = <<48>> /\ ~negative
           /\ number % mod = args[1]
           /\ number \in IF args[2] THEN 0 .. mod - 1 ELSE -(mod \div 2) .. mod \div 2 - 1
  /\ call = "printPtr" =>
       IsNumber(result, 16) /\ Len(result) = 2 * PtrBytes /\ NumberOf(result, 16) = args[1]

(* tmp[] in printInt() has room for every number but an int64 in binary.   *)
OnlyLongBinaryOverflows ==
  call = "printInt" /\ Len(result) > TmpSize => args[3] /\ args[4] = "b"

(* vprintf() prints a format as io.h describes it, piece by piece, and     *)
(* panics where it finds no piece; it never reads past the '\0'.           *)
FormatFollowsGrammar ==
  call = "vprintf" =>
    result = [n \in DOMAIN args[1] |-> Meaning(args[1][n])]
               \o (IF args[2] = <<>> THEN <<>> ELSE <<Panic>>)

(* readLine() stores the line, and the '\0' after it if there is room; it  *)
(* never writes past the room it is given.                                 *)
LinesAreRead ==
  call = "readLine" =>
    LET dest == args[1]
        input == args[2]
        max == args[3]
        newlines == {i \in 1 .. max : input[i] = NewLine}
        line == SubSeq(input, 1, (IF newlines = {} THEN max ELSE Min(newlines) - 1))
    IN  result = line \o (IF newlines = {} THEN <<>> ELSE <<Nul>>)
                   \o SubSeq(dest, (IF newlines = {} THEN max ELSE Min(newlines)) + 1, Len(dest))

(* string.h:26: string_find() returns `a pointer to the first occurence of *)
(* c or NULL if c isn't present'.                                          *)
FindReturnsNull ==
  call = "find" => (result = NULL <=> args[3] \notin ToSet(StringAt(args[1], args[2])))

(* string.h:12: string_copy() `copies the string src to dest'.             *)
CopiesTheString ==
  call = "copy" => StringAt(result, args[2]) = StringAt(args[1], args[3])
=============================================================================
