----------------------------- MODULE TextProofs -----------------------------
(***************************************************************************)
(* What the functions of string.c and io.c compute, for every memory,      *)
(* number, pointer, line and format, and for all widths of the types: the  *)
(* properties of Text.  Each loop is an instance of Loops, of which the    *)
(* proofs say what is true after n turns; a step of Text is one call, so   *)
(* the lemma about a function is all that its property needs.              *)
(***************************************************************************)
EXTENDS Text, FiniteSetTheorems, SequenceTheorems, TLAPS

(* The loops of Strings and Format, for the theorems of Loops.             *)
NoStart(a, b, c, d) == 0
NoTurn(a, b, c, d, n, before) == before
NoEnds(a, b, c, d, n) == TRUE

LengthEnds(mem, b, c, d, p) == mem[p] = Nul
LengthLoop == INSTANCE Loops WITH Start <- NoStart, Turn <- NoTurn, Ends <- LengthEnds

FindEnds(mem, ch, c, d, p) == mem[p] \in {Nul, ch}
FindLoop == INSTANCE Loops WITH Start <- NoStart, Turn <- NoTurn, Ends <- FindEnds

-----------------------------------------------------------------------------

(* Addresses are numbers, and the last character of every memory is '\0'.  *)
LEMMA MemoryFacts ==
  /\ Addr \subseteq Nat /\ MemSize - 1 \in Addr /\ Nul \notin Letter
  /\ \A mem \in Memory : mem \in [Addr -> Letter \cup {Nul}] /\ mem[MemSize - 1] = Nul
BY TextAssumption DEF Addr, Memory

(* The string at an address goes up to the first '\0' from there on.       *)
LEMMA StringAtIs ==
  ASSUME NEW mem, NEW str \in Addr, NEW length \in Nat, str + length \in Addr,
         mem[str + length] = Nul, \A p \in str .. (str + length) - 1 : mem[p] # Nul
  PROVE  /\ StringAt(mem, str) = [n \in 1 .. length |-> mem[(str + n) - 1]]
         /\ Len(StringAt(mem, str)) = length
<1> DEFINE ends == {n \in 0 .. MemSize : str + n \in Addr /\ mem[str + n] = Nul}
<1>1. length \in ends /\ \A n \in ends : length <= n
  <2>1. str \in Nat /\ MemSize \in Nat /\ Addr = 0 .. MemSize - 1
    BY MemoryFacts, TextAssumption DEF Addr
  <2> QED
    BY <2>1
<1>2. \A m \in ends : (\A n \in ends : m <= n) => m = length
  BY <1>1
<1> HIDE DEF ends
<1>3. Min(ends) = length
  BY <1>1, <1>2 DEF Min
<1>4. StringAt(mem, str) = [n \in 1 .. length |-> mem[str + n - 1]]
  BY <1>3 DEF StringAt, ends
<1>5. str \in Nat
  BY MemoryFacts
<1>6. \A n \in 1 .. length : str + n - 1 = (str + n) - 1
  BY <1>5
<1>7. StringAt(mem, str) = [n \in 1 .. length |-> mem[(str + n) - 1]]
  BY <1>4, <1>6
<1> QED
  BY <1>7

(* string_length() finds that '\0', and so the length of the string.       *)
LEMMA StringLength ==
  ASSUME NEW mem \in Memory, NEW str \in Addr
  PROVE  LET length == string_length(mem, str)
         IN  /\ length \in Nat /\ str + length \in Addr /\ mem[str + length] = Nul
             /\ \A p \in str .. (str + length) - 1 : mem[p] # Nul
             /\ StringAt(mem, str) = [n \in 1 .. length |-> mem[(str + n) - 1]]
             /\ Len(StringAt(mem, str)) = length
<1> DEFINE end == LengthLoop!Stop(mem, 0, 0, 0)[str]
<1>1. string_length(mem, str) = end - str
  BY DEF string_length, LengthLoop!Stop, LengthEnds
<1>2. /\ str \in Nat /\ MemSize - 1 \in Nat /\ str <= MemSize - 1
      /\ LengthEnds(mem, 0, 0, 0, MemSize - 1)
  BY MemoryFacts, TextAssumption DEF Addr, LengthEnds
<1> HIDE DEF end
<1>3. /\ end \in str .. MemSize - 1 /\ LengthEnds(mem, 0, 0, 0, end)
      /\ \A r \in str .. end - 1 : ~LengthEnds(mem, 0, 0, 0, r)
  BY <1>2, LengthLoop!StopIsFirst DEF end
<1>4. /\ end - str \in Nat /\ str + (end - str) = end /\ end \in Addr
  BY <1>2, <1>3, TextAssumption DEF Addr
<1>5. mem[end] = Nul /\ \A p \in str .. end - 1 : mem[p] # Nul
  BY <1>3 DEF LengthEnds
<1> QED
  BY <1>1, <1>4, <1>5, StringAtIs

(* string_find() stops at the first place of the character, or at the      *)
(* '\0'.                                                                   *)
LEMMA StringFind ==
  ASSUME NEW mem \in Memory, NEW str \in Addr, NEW ch
  PROVE  LET end == string_find(mem, str, ch)
         IN  /\ end \in str .. MemSize - 1 /\ mem[end] \in {Nul, ch}
             /\ \A p \in str .. end - 1 : mem[p] \notin {Nul, ch}
<1> DEFINE end == FindLoop!Stop(mem, ch, 0, 0)[str]
<1>1. string_find(mem, str, ch) = end
  BY DEF string_find, FindLoop!Stop, FindEnds
<1>2. /\ str \in Nat /\ MemSize - 1 \in Nat /\ str <= MemSize - 1
      /\ FindEnds(mem, ch, 0, 0, MemSize - 1)
  BY MemoryFacts, TextAssumption DEF Addr, FindEnds
<1> HIDE DEF end
<1>3. /\ end \in str .. MemSize - 1 /\ FindEnds(mem, ch, 0, 0, end)
      /\ \A r \in str .. end - 1 : ~FindEnds(mem, ch, 0, 0, r)
  BY <1>2, FindLoop!StopIsFirst DEF end
<1> QED
  BY <1>1, <1>3 DEF FindEnds

CompareEnds(mem, lhs, rhs, d, n) == mem[lhs + n] # mem[rhs + n] \/ mem[lhs + n] = Nul
CompareLoop == INSTANCE Loops WITH Start <- NoStart, Turn <- NoTurn, Ends <- CompareEnds

(* string_compare() compares what the two strings are, not where they are. *)
LEMMA StringCompare ==
  ASSUME NEW mem \in Memory, NEW lhs \in Addr, NEW rhs \in Addr
  PROVE  string_compare(mem, lhs, rhs) = (StringAt(mem, lhs) = StringAt(mem, rhs))
<1> DEFINE end == CompareLoop!Stop(mem, lhs, rhs, 0)[0]
           left == string_length(mem, lhs)
           right == string_length(mem, rhs)
<1>1. string_compare(mem, lhs, rhs) = (lhs # NULL /\ rhs # NULL /\ mem[lhs + end] = mem[rhs + end])
  BY DEF string_compare, CompareLoop!Stop, CompareEnds
<1>2. lhs \in Nat /\ rhs \in Nat /\ lhs # NULL /\ rhs # NULL
  BY MemoryFacts DEF NULL
<1> HIDE DEF end, left, right
<1>3. /\ left \in Nat /\ lhs + left \in Addr /\ mem[lhs + left] = Nul
      /\ \A p \in lhs .. (lhs + left) - 1 : mem[p] # Nul
      /\ StringAt(mem, lhs) = [n \in 1 .. left |-> mem[(lhs + n) - 1]]
      /\ Len(StringAt(mem, lhs)) = left
  BY StringLength DEF left
<1>4. /\ right \in Nat /\ rhs + right \in Addr /\ mem[rhs + right] = Nul
      /\ \A p \in rhs .. (rhs + right) - 1 : mem[p] # Nul
      /\ StringAt(mem, rhs) = [n \in 1 .. right |-> mem[(rhs + n) - 1]]
      /\ Len(StringAt(mem, rhs)) = right
  BY StringLength DEF right
<1>5. CompareEnds(mem, lhs, rhs, 0, left)
  BY <1>3 DEF CompareEnds
<1>6. /\ end \in 0 .. left /\ CompareEnds(mem, lhs, rhs, 0, end)
      /\ \A r \in 0 .. end - 1 : ~CompareEnds(mem, lhs, rhs, 0, r)
  BY <1>3, <1>5, CompareLoop!StopIsFirst DEF end
<1>7. \A n \in 0 .. end - 1 : mem[lhs + n] = mem[rhs + n] /\ mem[lhs + n] # Nul
  BY <1>6 DEF CompareEnds
<1>8. CASE mem[lhs + end] = mem[rhs + end]
  <2>1. mem[lhs + end] = Nul /\ mem[rhs + end] = Nul
    BY <1>6, <1>8 DEF CompareEnds
  <2>2. end = left
    <3>1. end < left => lhs + end \in lhs .. (lhs + left) - 1
      BY <1>2, <1>3, <1>6
    <3> QED
      BY <1>3, <1>6, <2>1, <3>1
  <2>3. end <= right
    <3> SUFFICES ASSUME right < end PROVE FALSE
      BY <1>4, <1>6
    <3> QED
      BY <1>4, <1>6, <1>7
  <2>4. end = right
    <3>1. end < right => rhs + end \in rhs .. (rhs + right) - 1
      BY <1>2, <1>4, <1>6
    <3> QED
      BY <1>4, <1>6, <2>1, <2>3, <3>1
  <2>5. \A n \in 1 .. left : mem[(lhs + n) - 1] = mem[(rhs + n) - 1]
    <3> TAKE n \in 1 .. left
    <3>1. n - 1 \in 0 .. end - 1 /\ lhs + (n - 1) = (lhs + n) - 1 /\ rhs + (n - 1) = (rhs + n) - 1
      BY <1>2, <1>3, <2>2
    <3> QED
      BY <1>7, <3>1
  <2>6. StringAt(mem, lhs) = StringAt(mem, rhs)
    BY <1>3, <1>4, <2>2, <2>4, <2>5
  <2> QED
    BY <1>1, <1>2, <1>8, <2>6
<1>9. CASE mem[lhs + end] # mem[rhs + end]
  <2> SUFFICES ASSUME StringAt(mem, lhs) = StringAt(mem, rhs) PROVE FALSE
    BY <1>1, <1>9
  <2>1. left = right
    BY <1>3, <1>4
  <2>2. end # left
    BY <1>3, <1>4, <1>9, <2>1
  <2>3. /\ end + 1 \in 1 .. left
        /\ (lhs + (end + 1)) - 1 = lhs + end /\ (rhs + (end + 1)) - 1 = rhs + end
    BY <1>2, <1>3, <1>6, <2>2
  <2>4. StringAt(mem, lhs)[end + 1] = mem[lhs + end] /\ StringAt(mem, rhs)[end + 1] = mem[rhs + end]
    BY <1>3, <1>4, <2>1, <2>3
  <2> QED
    BY <1>9, <2>4
<1> QED
  BY <1>8, <1>9

(* The bytes of seq from its start on, up to the '\0'. *)
FoundEnds(mem, str, seq, d, j) == mem[seq + j] # mem[str + j] \/ mem[seq + j + 1] = Nul
FoundLoop == INSTANCE Loops WITH Start <- NoStart, Turn <- NoTurn, Ends <- FoundEnds

(* The inner loop of string_findString() finds seq where it is a prefix of *)
(* the rest of the string, and never finds the empty string.               *)
LEMMA StringFoundAt ==
  ASSUME NEW mem \in Memory, NEW str \in Addr, NEW seq \in Addr, mem[str] # Nul
  PROVE  FoundAt(mem, str, seq) <=>
           StringAt(mem, seq) # <<>> /\ IsPrefix(StringAt(mem, seq), StringAt(mem, str))
<1> DEFINE end == FoundLoop!Stop(mem, str, seq, 0)[0]
           length == string_length(mem, seq)
           room == string_length(mem, str)
<1>1. FoundAt(mem, str, seq) = (mem[seq + end] = mem[str + end])
  BY DEF FoundAt, FoundLoop!Stop, FoundEnds
<1>2. str \in Nat /\ seq \in Nat
  BY MemoryFacts
<1> HIDE DEF end, length, room
<1>3. /\ length \in Nat /\ seq + length \in Addr /\ mem[seq + length] = Nul
      /\ \A p \in seq .. (seq + length) - 1 : mem[p] # Nul
      /\ StringAt(mem, seq) = [n \in 1 .. length |-> mem[(seq + n) - 1]]
      /\ Len(StringAt(mem, seq)) = length
  BY StringLength DEF length
<1>4. /\ room \in Nat /\ str + room \in Addr /\ mem[str + room] = Nul
      /\ \A p \in str .. (str + room) - 1 : mem[p] # Nul
      /\ StringAt(mem, str) = [n \in 1 .. room |-> mem[(str + n) - 1]]
      /\ Len(StringAt(mem, str)) = room
  BY StringLength DEF room
<1>5. IsPrefix(StringAt(mem, seq), StringAt(mem, str)) <=>
        length <= room /\ \A n \in 0 .. length - 1 : mem[seq + n] = mem[str + n]
  <2>1. ASSUME length <= room
        PROVE  SubSeq(StringAt(mem, seq), 1, length) = SubSeq(StringAt(mem, str), 1, length)
                 <=> \A n \in 1 .. length : mem[(seq + n) - 1] = mem[(str + n) - 1]
    <3>1. SubSeq(StringAt(mem, seq), 1, length) = [n \in 1 .. length |-> mem[(seq + n) - 1]]
      BY <1>3
    <3>2. SubSeq(StringAt(mem, str), 1, length) = [n \in 1 .. length |-> mem[(str + n) - 1]]
      BY <1>3, <1>4, <2>1
    <3> QED
      BY <3>1, <3>2
  <2>2. (\A n \in 1 .. length : mem[(seq + n) - 1] = mem[(str + n) - 1])
          <=> \A n \in 0 .. length - 1 : mem[seq + n] = mem[str + n]
    <3>1. ASSUME \A n \in 1 .. length : mem[(seq + n) - 1] = mem[(str + n) - 1],
                 NEW n \in 0 .. length - 1
          PROVE  mem[seq + n] = mem[str + n]
      <4>1. n + 1 \in 1 .. length /\ (seq + (n + 1)) - 1 = seq + n /\ (str + (n + 1)) - 1 = str + n
        BY <1>2, <1>3
      <4> QED
        BY <3>1, <4>1
    <3>2. ASSUME \A n \in 0 .. length - 1 : mem[seq + n] = mem[str + n],
                 NEW n \in 1 .. length
          PROVE  mem[(seq + n) - 1] = mem[(str + n) - 1]
      <4>1. n - 1 \in 0 .. length - 1 /\ seq + (n - 1) = (seq + n) - 1 /\ str + (n - 1) = (str + n) - 1
        BY <1>2, <1>3
      <4> QED
        BY <3>2, <4>1
    <3> QED
      BY <3>1, <3>2
  <2> QED
    BY <1>3, <1>4, <2>1, <2>2 DEF IsPrefix
<1>6. StringAt(mem, seq) # <<>> <=> length # 0
  BY <1>3
<1>7. CASE length = 0
  <2>1. FoundEnds(mem, str, seq, 0, 0) /\ mem[seq + 0] = Nul
    BY <1>2, <1>3, <1>7 DEF FoundEnds
  <2>2. end = 0
    BY <2>1, FoundLoop!StopIsFirst DEF end
  <2>3. str + 0 = str
    BY <1>2
  <2>4. ~FoundAt(mem, str, seq)
    BY <1>1, <2>1, <2>2, <2>3
  <2> QED
    BY <1>6, <1>7, <2>4
<1>8. CASE length # 0
  <2>1. FoundEnds(mem, str, seq, 0, length - 1) /\ length - 1 \in Nat
    <3>1. length - 1 \in Nat /\ seq + (length - 1) + 1 = seq + length
      BY <1>2, <1>3, <1>8
    <3> QED
      BY <1>3, <3>1 DEF FoundEnds
  <2>2. /\ end \in 0 .. length - 1 /\ FoundEnds(mem, str, seq, 0, end)
        /\ \A r \in 0 .. end - 1 : ~FoundEnds(mem, str, seq, 0, r)
    BY <2>1, FoundLoop!StopIsFirst DEF end
  <2>3. \A n \in 0 .. end - 1 : mem[seq + n] = mem[str + n]
    BY <2>2 DEF FoundEnds
  <2>4. CASE mem[seq + end] = mem[str + end]
    <3>1. end = length - 1
      <4> SUFFICES ASSUME end < length - 1 PROVE FALSE
        BY <1>3, <2>1, <2>2
      <4>1. seq + end + 1 \in seq .. (seq + length) - 1
        BY <1>2, <1>3, <2>2
      <4> QED
        BY <1>3, <2>2, <2>4, <4>1 DEF FoundEnds
    <3>2. \A n \in 0 .. length - 1 : mem[seq + n] = mem[str + n]
      BY <1>3, <2>2, <2>3, <2>4, <3>1
    <3>3. length <= room
      <4> SUFFICES ASSUME room < length PROVE FALSE
        BY <1>3, <1>4
      <4>1. room \in 0 .. length - 1 /\ seq + room \in seq .. (seq + length) - 1
        BY <1>2, <1>3, <1>4
      <4> QED
        BY <1>3, <1>4, <3>2, <4>1
    <3> QED
      BY <1>1, <1>5, <1>6, <1>8, <2>4, <3>2, <3>3
  <2>5. CASE mem[seq + end] # mem[str + end]
    BY <1>1, <1>5, <2>2, <2>5
  <2> QED
    BY <2>4, <2>5
<1> QED
  BY <1>7, <1>8

(* A member of a set that none is below is its least.                      *)
LEMMA MinIs ==
  ASSUME NEW S \in SUBSET Int, NEW x \in S, \A y \in S : x <= y
  PROVE  Min(S) = x
<1>1. \A z \in S : (\A y \in S : z <= y) => z = x
  OBVIOUS
<1> QED
  BY <1>1 DEF Min

(* A member of a set that none is above is its greatest.                   *)
LEMMA MaxIs ==
  ASSUME NEW S \in SUBSET Int, NEW x \in S, \A y \in S : x >= y
  PROVE  Max(S) = x
<1>1. \A z \in S : (\A y \in S : z >= y) => z = x
  OBVIOUS
<1> QED
  BY <1>1 DEF Max

(* What string_find() returns, in the words of the string alone, if there  *)
(* is such a character.                                                    *)
LEMMA FindAnswers ==
  ASSUME NEW mem \in Memory, NEW str \in Addr, NEW ch,
         {p \in str .. str + Len(StringAt(mem, str)) : mem[p] = ch} # {}
  PROVE  string_find(mem, str, ch)
           = Min({p \in str .. str + Len(StringAt(mem, str)) : mem[p] = ch})
<1> DEFINE end == string_find(mem, str, ch)
           length == Len(StringAt(mem, str))
           places == {p \in str .. str + length : mem[p] = ch}
<1>1. /\ length \in Nat /\ str \in Nat /\ str + length \in Addr /\ mem[str + length] = Nul
      /\ \A p \in str .. (str + length) - 1 : mem[p] # Nul
  BY StringLength, MemoryFacts
<1>2. /\ end \in str .. MemSize - 1 /\ mem[end] \in {Nul, ch}
      /\ \A p \in str .. end - 1 : mem[p] \notin {Nul, ch}
  BY StringFind
<1>3. PICK q \in str .. str + length : mem[q] = ch
  OBVIOUS
<1> HIDE DEF end, length
<1>4. end \in Nat /\ q \in Nat
  BY <1>1, <1>2, <1>3
<1>5. end <= q
  BY <1>1, <1>2, <1>3, <1>4
<1>6. mem[end] = ch
  <2>1. CASE end = str + length
    BY <1>1, <1>3, <1>5, <2>1
  <2>2. CASE end # str + length
    BY <1>1, <1>2, <1>3, <1>4, <1>5, <2>2
  <2> QED
    BY <2>1, <2>2
<1>7. end \in places /\ places \subseteq Int /\ \A p \in places : end <= p
  BY <1>1, <1>2, <1>3, <1>4, <1>5, <1>6
<1> HIDE DEF places
<1>8. Min(places) = end
  BY <1>7, MinIs
<1> QED
  BY <1>8 DEF end, length, places

FindStringEnds(mem, seq, c, d, p) == mem[p] = Nul \/ FoundAt(mem, p, seq)
FindStringLoop == INSTANCE Loops WITH Start <- NoStart, Turn <- NoTurn, Ends <- FindStringEnds

(* string_findString() returns the first place where seq is, or NULL.      *)
LEMMA FindStringAnswers ==
  ASSUME NEW mem \in Memory, NEW str \in Addr, NEW seq \in Addr
  PROVE  LET found == {p \in str .. str + Len(StringAt(mem, str)) :
                         StringAt(mem, seq) # <<>> /\ IsPrefix(StringAt(mem, seq), StringAt(mem, p))}
         IN  string_findString(mem, str, seq) = IF found = {} THEN NULL ELSE Min(found)
<1> DEFINE found == {p \in str .. str + Len(StringAt(mem, str)) :
                       StringAt(mem, seq) # <<>> /\ IsPrefix(StringAt(mem, seq), StringAt(mem, p))}
           length == Len(StringAt(mem, str))
           end == FindStringLoop!Stop(mem, seq, 0, 0)[str]
<1>1. string_findString(mem, str, seq) = IF mem[end] = Nul THEN NULL ELSE end
  BY DEF string_findString, FindStringLoop!Stop, FindStringEnds
<1>2. /\ length \in Nat /\ str \in Nat /\ str + length \in Addr /\ mem[str + length] = Nul
      /\ \A p \in str .. (str + length) - 1 : mem[p] # Nul
  BY StringLength, MemoryFacts
<1>3. found = {p \in str .. str + length :
                 StringAt(mem, seq) # <<>> /\ IsPrefix(StringAt(mem, seq), StringAt(mem, p))}
  OBVIOUS
<1> HIDE DEF end, length, found
<1>4. /\ end \in str .. str + length /\ FindStringEnds(mem, seq, 0, 0, end)
      /\ \A r \in str .. end - 1 : ~FindStringEnds(mem, seq, 0, 0, r)
  <2>1. FindStringEnds(mem, seq, 0, 0, str + length)
    BY <1>2 DEF FindStringEnds
  <2> QED
    BY <1>2, <2>1, FindStringLoop!StopIsFirst DEF end
<1>5. str + length \notin found
  <2>1. Len(StringAt(mem, str + length)) = 0
    <3>1. (str + length) + 0 = str + length /\ (str + length) .. ((str + length) + 0) - 1 = {}
      BY <1>2
    <3> QED
      BY <1>2, <3>1, StringAtIs
  <2>2. Len(StringAt(mem, seq)) \in Nat /\ (Len(StringAt(mem, seq)) = 0 => StringAt(mem, seq) = <<>>)
    BY StringLength
  <2> QED
    BY <1>3, <2>1, <2>2 DEF IsPrefix
<1>6. \A p \in str .. (str + length) - 1 : p \in found <=> FoundAt(mem, p, seq)
  <2> TAKE p \in str .. (str + length) - 1
  <2>1. p \in Addr /\ mem[p] # Nul /\ p \in str .. str + length
    BY <1>2, TextAssumption DEF Addr
  <2> QED
    BY <1>3, <2>1, StringFoundAt
<1>7. found \subseteq str .. str + length
  BY <1>3
<1>8. CASE mem[end] = Nul
  <2>1. end = str + length
    BY <1>2, <1>4, <1>8
  <2>2. found = {}
    <3> SUFFICES ASSUME NEW p \in found PROVE FALSE
      OBVIOUS
    <3>1. p \in str .. end - 1
      BY <1>2, <1>5, <1>7, <2>1
    <3> QED
      BY <1>4, <1>6, <2>1, <3>1 DEF FindStringEnds
  <2> QED
    BY <1>1, <1>8, <2>2 DEF found
<1>9. CASE mem[end] # Nul
  <2>1. end \in str .. (str + length) - 1 /\ FoundAt(mem, end, seq)
    BY <1>2, <1>4, <1>9 DEF FindStringEnds
  <2>2. end \in found /\ found \subseteq Int
    BY <1>2, <1>6, <1>7, <2>1
  <2>3. \A p \in found : end <= p
    <3> SUFFICES ASSUME NEW p \in found, p < end PROVE FALSE
      BY <1>7, <1>4, <1>2
    <3>1. p \in str .. end - 1 /\ p \in str .. (str + length) - 1
      BY <1>2, <1>7, <2>1
    <3> QED
      BY <1>4, <1>6, <3>1 DEF FindStringEnds
  <2>4. Min(found) = end
    BY <2>2, <2>3, MinIs
  <2> QED
    BY <1>1, <1>9, <2>2, <2>4 DEF found
<1> QED
  BY <1>8, <1>9

BackEnds(mem, str, strLength, ch, n) == mem[(str + strLength) - n] = ch \/ n = strLength
BackLoop == INSTANCE Loops WITH Start <- NoStart, Turn <- NoTurn, Ends <- BackEnds

(* string_findFromBack() returns the last place of the character among the *)
(* strLength characters and the one after them, or NULL.                   *)
LEMMA FindFromBackAnswers ==
  ASSUME NEW mem, NEW str \in Nat, NEW strLength \in Nat, NEW ch
  PROVE  LET places == {p \in str .. str + strLength : mem[p] = ch}
         IN  string_findFromBack(mem, str, strLength, ch) = IF places = {} THEN NULL ELSE Max(places)
<1> DEFINE places == {p \in str .. str + strLength : mem[p] = ch}
           back == BackLoop!Stop(mem, str, strLength, ch)[0]
           it == (str + strLength) - back
<1>1. string_findFromBack(mem, str, strLength, ch) = IF mem[it] = ch THEN it ELSE NULL
  BY DEF string_findFromBack, BackLoop!Stop, BackEnds
<1> HIDE DEF back
<1>2. /\ back \in 0 .. strLength /\ BackEnds(mem, str, strLength, ch, back)
      /\ \A r \in 0 .. back - 1 : ~BackEnds(mem, str, strLength, ch, r)
  <2>1. BackEnds(mem, str, strLength, ch, strLength)
    BY DEF BackEnds
  <2> QED
    BY <2>1, BackLoop!StopIsFirst DEF back
<1>3. \A p \in it + 1 .. str + strLength : mem[p] # ch
  <2> TAKE p \in it + 1 .. str + strLength
  <2>1. (str + strLength) - p \in 0 .. back - 1 /\ (str + strLength) - ((str + strLength) - p) = p
    BY <1>2
  <2> QED
    BY <1>2, <2>1 DEF BackEnds
<1>4. it \in str .. str + strLength /\ it \in Int
  BY <1>2
<1>5. CASE mem[it] = ch
  <2>1. it \in places /\ places \subseteq Int /\ \A p \in places : it >= p
    BY <1>3, <1>4, <1>5
  <2> HIDE DEF places
  <2>2. Max(places) = it
    BY <2>1, MaxIs
  <2> QED
    BY <1>1, <1>5, <2>1, <2>2 DEF places
<1>6. CASE mem[it] # ch
  <2>1. back = strLength /\ it = str
    BY <1>2, <1>6 DEF BackEnds
  <2>2. places = {}
    BY <1>3, <1>6, <2>1
  <2> QED
    BY <1>1, <1>6, <2>2
<1> QED
  BY <1>5, <1>6

-----------------------------------------------------------------------------
CopyStart(mem, dest, src, d) == mem
CopyTurn(mem, dest, src, d, n, before) == [before EXCEPT ![(dest + n) - 1] = before[(src + n) - 1]]
CopyEnds(mem, dest, src, d, n) == Copied(mem, dest, src)[n][src + n] = Nul
CopyLoop == INSTANCE Loops WITH Start <- CopyStart, Turn <- CopyTurn, Ends <- CopyEnds

(* The loop of string_copy(), turn by turn.                                *)
LEMMA CopiedTurns ==
  ASSUME NEW mem, NEW dest, NEW src
  PROVE  /\ Copied(mem, dest, src)[0] = mem
         /\ \A n \in Nat : Copied(mem, dest, src)[n + 1]
              = [Copied(mem, dest, src)[n] EXCEPT
                   ![(dest + (n + 1)) - 1] = Copied(mem, dest, src)[n][(src + (n + 1)) - 1]]
<1>1. Copied(mem, dest, src) = CopyLoop!After(mem, dest, src, 0)
  BY DEF Copied, CopyLoop!After, CopyStart, CopyTurn
<1>2. /\ CopyLoop!After(mem, dest, src, 0)[0] = CopyStart(mem, dest, src, 0)
      /\ \A n \in Nat : CopyLoop!After(mem, dest, src, 0)[n + 1]
           = CopyTurn(mem, dest, src, 0, n + 1, CopyLoop!After(mem, dest, src, 0)[n])
  BY CopyLoop!AfterEquation
<1> QED
  BY <1>1, <1>2 DEF CopyStart, CopyTurn

(* The place where string_copy() stops reading, and what is before it.     *)
LEMMA CopyEndIs ==
  ASSUME NEW mem \in Memory, NEW dest \in Nat, NEW src \in Addr, src + 1 \in Addr
  PROVE  LET end == CopyEnd(mem, dest, src)
         IN  /\ src \in Nat /\ end \in Addr /\ end \in Nat /\ src < end
             /\ mem[end] = Nul \/ end = dest
             /\ \A p \in src + 1 .. end - 1 : mem[p] # Nul /\ p # dest
<1> DEFINE ends == {p \in Addr : p > src /\ (mem[p] = Nul \/ p = dest)}
<1>1. src \in Nat /\ MemSize \in Nat /\ Addr = 0 .. MemSize - 1 /\ mem[MemSize - 1] = Nul
  BY MemoryFacts, TextAssumption DEF Addr
<1>2. MemSize - 1 \in ends /\ ends \in SUBSET Nat
  BY <1>1
<1> HIDE DEF ends
<1>3. PICK end \in ends : \A p \in ends : end <= p
  BY <1>2, LengthLoop!LeastNumber
<1>4. Min(ends) = end
  BY <1>2, <1>3, MinIs
<1>5. \A p \in src + 1 .. end - 1 : mem[p] # Nul /\ p # dest
  <2> SUFFICES ASSUME NEW p \in src + 1 .. end - 1, mem[p] = Nul \/ p = dest
               PROVE  FALSE
    OBVIOUS
  <2>1. p \in Addr /\ p > src /\ p < end
    BY <1>1, <1>3 DEF ends
  <2>2. p \in ends
    BY <2>1 DEF ends
  <2> QED
    BY <1>1, <1>3, <2>1, <2>2
<1>6. end \in Addr /\ end \in Nat /\ src < end /\ (mem[end] = Nul \/ end = dest)
  BY <1>1, <1>3 DEF ends
<1> QED
  BY <1>1, <1>4, <1>5, <1>6 DEF CopyEnd, ends

(* The first n characters are in their place, as far as there is memory.   *)
Moved(mem, dest, src, n) ==
  [p \in Addr |-> IF p \in dest .. (dest + n) - 1 THEN mem[src + (p - dest)] ELSE mem[p]]

(* So they are after n turns: what has been written is not read again.     *)
LEMMA CopiedSoFar ==
  ASSUME NEW mem \in Memory, NEW dest \in Nat, NEW src \in Addr, src + 1 \in Addr,
         NEW n \in 0 .. CopyEnd(mem, dest, src) - src
  PROVE  Copied(mem, dest, src)[n] = Moved(mem, dest, src, n)
<1> USE DEF Moved
<1> DEFINE end == CopyEnd(mem, dest, src)
           copied(k) == Copied(mem, dest, src)[k]
           T == {k \in Nat : k <= end - src => copied(k) = Moved(mem, dest, src, k)}
<1>1. /\ copied(0) = mem
      /\ \A k \in Nat : copied(k + 1)
           = [copied(k) EXCEPT ![(dest + (k + 1)) - 1] = copied(k)[(src + (k + 1)) - 1]]
  BY CopiedTurns
<1>2. /\ src \in Nat /\ end \in Addr /\ end \in Nat /\ src < end
      /\ \A p \in src + 1 .. end - 1 : p # dest
      /\ mem = [p \in Addr |-> mem[p]]
  BY CopyEndIs, MemoryFacts
<1> HIDE DEF copied, end
<1>3. 0 \in T
  <2>1. dest .. (dest + 0) - 1 = {}
    OBVIOUS
  <2> QED
    BY <1>1, <1>2, <2>1
<1>4. ASSUME NEW k \in Nat, k \in T PROVE k + 1 \in T
  <2> SUFFICES ASSUME k + 1 <= end - src
               PROVE  copied(k + 1) = Moved(mem, dest, src, k + 1)
    OBVIOUS
  <2>1. copied(k) = [p \in Addr |-> IF p \in dest .. (dest + k) - 1 THEN mem[src + (p - dest)] ELSE mem[p]]
    BY <1>2, <1>4
  <2>2. (dest + (k + 1)) - 1 = dest + k /\ (src + (k + 1)) - 1 = src + k
    BY <1>2
  <2>3. copied(k + 1) = [copied(k) EXCEPT ![dest + k] = copied(k)[src + k]]
    BY <1>1, <2>2
  <2>4. src + k \in Addr /\ src + k \notin dest .. (dest + k) - 1
    <3>1. MemSize \in Nat /\ Addr = 0 .. MemSize - 1
      BY TextAssumption DEF Addr
    <3>2. src + k \in Addr
      BY <1>2, <3>1
    <3>3. ASSUME src + k \in dest .. (dest + k) - 1 PROVE FALSE
      <4>1. dest \in src + 1 .. end - 1
        BY <1>2, <3>3
      <4> QED
        BY <1>2, <4>1
    <3> QED
      BY <3>2, <3>3
  <2>5. copied(k)[src + k] = mem[src + k]
    BY <2>1, <2>4
  <2>6. \A p \in Addr : copied(k + 1)[p] = IF p = dest + k THEN mem[src + k] ELSE copied(k)[p]
    BY <2>1, <2>3, <2>5
  <2>7. copied(k + 1) = [p \in Addr |-> copied(k + 1)[p]]
    BY <2>1, <2>3
  <2>8. \A p \in Addr : copied(k + 1)[p] = IF p \in dest .. (dest + (k + 1)) - 1
                                           THEN mem[src + (p - dest)] ELSE mem[p]
    <3> TAKE p \in Addr
    <3>1. p \in Nat
      BY MemoryFacts
    <3>2. CASE p = dest + k
      <4>1. p \in dest .. (dest + (k + 1)) - 1 /\ p - dest = k
        BY <3>1, <3>2
      <4> QED
        BY <2>6, <3>2, <4>1
    <3>3. CASE p # dest + k
      <4>1. p \in dest .. (dest + (k + 1)) - 1 <=> p \in dest .. (dest + k) - 1
        BY <3>1, <3>3
      <4> QED
        BY <2>1, <2>6, <3>3, <4>1
    <3> QED
      BY <3>2, <3>3
  <2> QED
    BY <2>7, <2>8
<1> HIDE DEF T
<1>5. n \in T
  BY <1>3, <1>4, <1>2, LengthLoop!SetInduction DEF end
<1> QED
  BY <1>5 DEF T, copied, end

(* string_copy() stops where CopyEnd says: there is a '\0' that was there  *)
(* before or, if src is empty and dest is there, the copy of that of src.  *)
LEMMA StringCopy ==
  ASSUME NEW mem \in Memory, NEW dest \in Nat, NEW src \in Addr, Copyable(mem, dest, src)
  PROVE  string_copy(mem, dest, src) = Moved(mem, dest, src, CopyEnd(mem, dest, src) - src)
<1> DEFINE end == CopyEnd(mem, dest, src)
           length == string_length(mem, src)
           count == end - src
<1>1. /\ src \in Nat /\ src + 1 \in Addr /\ length \in Nat /\ mem[src + length] = Nul
      /\ dest + length < src \/ src + length < dest
  BY StringLength, MemoryFacts DEF Copyable
<1>2. /\ end \in Addr /\ end \in Nat /\ src < end
      /\ mem[end] = Nul \/ end = dest
      /\ \A p \in src + 1 .. end - 1 : mem[p] # Nul /\ p # dest
  BY <1>1, CopyEndIs
<1>3. CopyTurns(mem, dest, src) = CopyLoop!Stop(mem, dest, src, 0)[1]
  BY DEF CopyTurns, CopyLoop!Stop, CopyEnds
<1>4. \A n \in 0 .. count : Copied(mem, dest, src)[n] = Moved(mem, dest, src, n)
  BY <1>1, CopiedSoFar
<1> HIDE DEF end, length
<1>5. ASSUME NEW n \in 1 .. count - 1 PROVE ~CopyEnds(mem, dest, src, 0, n)
  <2>1. src + n \in src + 1 .. end - 1 /\ n \in 0 .. count /\ src + n \in Addr
    BY <1>1, <1>2, TextAssumption DEF Addr
  <2>2. src + n \notin dest .. (dest + n) - 1
    <3> SUFFICES ASSUME src + n \in dest .. (dest + n) - 1 PROVE FALSE
      OBVIOUS
    <3>1. dest \in src + 1 .. end - 1
      BY <1>1, <1>2, <2>1
    <3> QED
      BY <1>2, <3>1
  <2>3. Copied(mem, dest, src)[n][src + n] = mem[src + n]
    BY <1>4, <2>1, <2>2 DEF Moved
  <2> QED
    BY <1>2, <2>1, <2>3 DEF CopyEnds
<1>6. CopyEnds(mem, dest, src, 0, count)
  <2>1. count \in 0 .. count /\ count \in Nat /\ count > 0 /\ src + count = end
    BY <1>1, <1>2
  <2>2. Copied(mem, dest, src)[count][end]
          = IF end \in dest .. (dest + count) - 1 THEN mem[src + (end - dest)] ELSE mem[end]
    <3>1. Copied(mem, dest, src)[count] = Moved(mem, dest, src, count)
      BY <1>4, <2>1
    <3> HIDE DEF count
    <3> QED
      BY <1>2, <3>1 DEF Moved
  <2> HIDE DEF count
  <2>3. CASE end # dest
    <3>1. end \notin dest .. (dest + count) - 1
      <4> SUFFICES ASSUME end \in dest .. (dest + count) - 1 PROVE FALSE
        OBVIOUS
      <4>1. dest \in src + 1 .. end - 1
        BY <1>1, <1>2, <2>1, <2>3
      <4> QED
        BY <1>2, <4>1
    <3> QED
      BY <1>2, <2>1, <2>2, <2>3, <3>1 DEF CopyEnds
  <2>4. CASE end = dest
    <3>1. length = 0
      <4> SUFFICES ASSUME length # 0 PROVE FALSE
        OBVIOUS
      <4>1. src + length \in src + 1 .. end - 1
        BY <1>1, <1>2, <2>4
      <4> QED
        BY <1>1, <1>2, <4>1
    <3>2. mem[src] = Nul
      <4>1. src + 0 = src
        BY <1>1
      <4> QED
        BY <1>1, <3>1, <4>1
    <3>3. end \in dest .. (dest + count) - 1 /\ src + (end - dest) = src
      BY <1>1, <1>2, <2>1, <2>4
    <3> QED
      BY <2>1, <2>2, <3>2, <3>3 DEF CopyEnds
  <2> QED
    BY <2>3, <2>4
<1>7. count \in Nat /\ 1 <= count /\ 1 \in Nat
  BY <1>1, <1>2
<1> HIDE DEF count
<1>8. CopyTurns(mem, dest, src) = count
  BY <1>3, <1>5, <1>6, <1>7, CopyLoop!StopFound
<1>9. count \in 0 .. count
  BY <1>7
<1> QED
  BY <1>4, <1>8, <1>9 DEF string_copy, count, end

-----------------------------------------------------------------------------
TokenizeStart(mem, str, delimeter, d) ==
  [mem |-> mem, destArr |-> <<>>, str |-> str]
TokenizeTurn(mem, str, delimeter, d, n, before) == Tokenize(delimeter, before)
TokenizeLoop == INSTANCE Loops WITH Start <- TokenizeStart, Turn <- TokenizeTurn, Ends <- NoEnds

(* What the loop of string_tokenize() begins with.                         *)
LEMMA TokenizedStart ==
  ASSUME NEW mem, NEW str, NEW delimeter
  PROVE  Tokenized(mem, str, delimeter)[0] = [mem |-> mem, destArr |-> <<>>, str |-> str]
<1>1. Tokenized(mem, str, delimeter) = TokenizeLoop!After(mem, str, delimeter, 0)
  BY DEF Tokenized, TokenizeLoop!After, TokenizeStart, TokenizeTurn
<1> QED
  BY <1>1, TokenizeLoop!AfterEquation DEF TokenizeStart

(* One turn of the loop of string_tokenize() after the other.              *)
LEMMA TokenizedTurn ==
  ASSUME NEW mem, NEW str, NEW delimeter, NEW n \in Nat
  PROVE  Tokenized(mem, str, delimeter)[n + 1]
           = Tokenize(delimeter, Tokenized(mem, str, delimeter)[n])
<1>1. Tokenized(mem, str, delimeter) = TokenizeLoop!After(mem, str, delimeter, 0)
  BY DEF Tokenized, TokenizeLoop!After, TokenizeStart, TokenizeTurn
<1>2. TokenizeLoop!After(mem, str, delimeter, 0)[n + 1]
        = TokenizeTurn(mem, str, delimeter, 0, n + 1, TokenizeLoop!After(mem, str, delimeter, 0)[n])
  BY TokenizeLoop!AfterEquation
<1> QED
  BY <1>1, <1>2 DEF TokenizeTurn

(* Memories that agree from an address on have the same part there.        *)
LEMMA SameFind ==
  ASSUME NEW mem \in Memory, NEW now \in Memory, NEW str \in Addr, NEW ch,
         \A p \in Addr : p >= str => now[p] = mem[p]
  PROVE  string_find(now, str, ch) = string_find(mem, str, ch)
<1> DEFINE e == string_find(mem, str, ch)
           f == string_find(now, str, ch)
<1>1. /\ e \in str .. MemSize - 1 /\ mem[e] \in {Nul, ch}
      /\ \A p \in str .. e - 1 : mem[p] \notin {Nul, ch}
      /\ f \in str .. MemSize - 1 /\ now[f] \in {Nul, ch}
      /\ \A p \in str .. f - 1 : now[p] \notin {Nul, ch}
  BY StringFind
<1> HIDE DEF e, f
<1>2. str \in Nat /\ e \in Addr /\ f \in Addr /\ e \in Nat /\ f \in Nat /\ e >= str /\ f >= str
  BY <1>1, MemoryFacts, TextAssumption DEF Addr
<1>3. now[e] = mem[e] /\ now[f] = mem[f]
  BY <1>2
<1>4. ~(e < f) /\ ~(f < e)
  BY <1>1, <1>2, <1>3
<1> QED
  BY <1>2, <1>4 DEF e, f

(* The parts of a string end no later than the string.                     *)
LEMMA FindWithin ==
  ASSUME NEW mem \in Memory, NEW str \in Addr, NEW ch,
         NEW p \in str .. str + string_length(mem, str)
  PROVE  LET end == string_find(mem, p, ch)
             strEnd == str + string_length(mem, str)
         IN  /\ p \in Addr /\ end \in p .. strEnd /\ end \in Addr
             /\ mem[end] \in {Nul, ch} /\ (mem[end] = Nul <=> end = strEnd)
             /\ \A q \in p .. end - 1 : mem[q] \notin {Nul, ch}
<1> DEFINE end == string_find(mem, p, ch)
           strEnd == str + string_length(mem, str)
<1>1. /\ str \in Nat /\ strEnd \in Addr /\ mem[strEnd] = Nul /\ strEnd \in Nat /\ p \in str .. strEnd
      /\ \A q \in str .. strEnd - 1 : mem[q] # Nul
  BY StringLength, MemoryFacts
<1>2. p \in Addr /\ p \in Nat
  BY <1>1, TextAssumption DEF Addr
<1>3. /\ end \in p .. MemSize - 1 /\ mem[end] \in {Nul, ch}
      /\ \A q \in p .. end - 1 : mem[q] \notin {Nul, ch}
  BY <1>2, StringFind
<1> HIDE DEF end, strEnd
<1>4. end <= strEnd
  BY <1>1, <1>2, <1>3
<1>5. end \in Addr /\ end \in p .. strEnd
  BY <1>1, <1>2, <1>3, <1>4, TextAssumption DEF Addr
<1>6. mem[end] = Nul => end = strEnd
  BY <1>1, <1>2, <1>5
<1> QED
  BY <1>1, <1>2, <1>3, <1>5, <1>6 DEF end, strEnd

(* What the loop of string_tokenize() has done after n turns.              *)
TokensInv(mem, str, delimeter, n, t) ==
  LET end(p) == string_find(mem, p, delimeter)
      strEnd == str + string_length(mem, str)
      count == Len(t.destArr)
  IN  /\ t.mem \in Memory /\ t.destArr \in Seq(str .. strEnd)
      /\ \A p \in Addr : t.mem[p] # mem[p] => mem[p] = delimeter /\ p \in str .. strEnd
      /\ count <= n
      /\ \A i \in 1 .. count :
           /\ t.destArr[i] = IF i = 1 THEN str ELSE end(t.destArr[i - 1]) + 1
           /\ t.mem[end(t.destArr[i])] = Nul
           /\ \A p \in t.destArr[i] .. end(t.destArr[i]) - 1 : t.mem[p] = mem[p]
      /\ t.str # NULL =>
           /\ count = n /\ t.str \in str .. strEnd
           /\ t.str = IF n = 0 THEN str ELSE end(t.destArr[n]) + 1
           /\ \A i \in 1 .. n : end(t.destArr[i]) < t.str
           /\ \A p \in Addr : p >= t.str => t.mem[p] = mem[p]
      /\ t.str = NULL => count > 0 /\ end(t.destArr[count]) = strEnd

(* Before the first turn of string_tokenize() its invariant holds.         *)
LEMMA TokensStart ==
  ASSUME NEW mem \in Memory, NEW str \in Addr, NEW delimeter \in Letter
  PROVE  TokensInv(mem, str, delimeter, 0,
                   [mem |-> mem, destArr |-> <<>>, str |-> str])
<1>1. str \in Nat /\ string_length(mem, str) \in Nat
  BY StringLength, MemoryFacts
<1>2. str \in str .. str + string_length(mem, str) /\ str # NULL
  BY <1>1 DEF NULL
<1> QED
  BY <1>2 DEF TokensInv

(* Every turn of string_tokenize() keeps the invariant: it finds the end   *)
(* of a part, which is the '\0' or a delimiter not cut off before.         *)
LEMMA TokensTurn ==
  ASSUME NEW mem \in Memory, NEW str \in Addr, NEW delimeter \in Letter,
         NEW n \in Nat, NEW t, TokensInv(mem, str, delimeter, n, t)
  PROVE  TokensInv(mem, str, delimeter, n + 1, Tokenize(delimeter, t))
<1> DEFINE end(p) == string_find(mem, p, delimeter)
           strEnd == str + string_length(mem, str)
           count == Len(t.destArr)
           e == end(t.str)
           found == Append(t.destArr, t.str)
           cut == [t.mem EXCEPT ![e] = Nul]
<1>1. CASE t.str = NULL
  <2>1. Tokenize(delimeter, t) = t
    BY <1>1 DEF Tokenize
  <2>2. Len(t.destArr) <= n => Len(t.destArr) <= n + 1
    BY DEF TokensInv
  <2> QED
    BY <1>1, <2>1, <2>2 DEF TokensInv
<1>2. CASE t.str # NULL
  <2>1. /\ t.mem \in Memory /\ t.destArr \in Seq(str .. strEnd)
        /\ \A p \in Addr : t.mem[p] # mem[p] => mem[p] = delimeter /\ p \in str .. strEnd
        /\ \A i \in 1 .. count :
             /\ t.destArr[i] = IF i = 1 THEN str ELSE end(t.destArr[i - 1]) + 1
             /\ t.mem[end(t.destArr[i])] = Nul
             /\ \A p \in t.destArr[i] .. end(t.destArr[i]) - 1 : t.mem[p] = mem[p]
        /\ count = n /\ t.str \in str .. strEnd
        /\ t.str = IF n = 0 THEN str ELSE end(t.destArr[n]) + 1
        /\ \A i \in 1 .. n : end(t.destArr[i]) < t.str
        /\ \A p \in Addr : p >= t.str => t.mem[p] = mem[p]
    BY <1>2 DEF TokensInv
  <2>2. /\ t.str \in Addr /\ e \in t.str .. strEnd /\ e \in Addr
        /\ mem[e] \in {Nul, delimeter} /\ (mem[e] = Nul <=> e = strEnd)
        /\ \A q \in t.str .. e - 1 : mem[q] \notin {Nul, delimeter}
    BY <2>1, FindWithin
  <2>3. string_find(t.mem, t.str, delimeter) = e
    BY <2>1, <2>2, SameFind
  <2>4. Tokenize(delimeter, t) =
          IF t.mem[e] = Nul THEN [mem |-> t.mem, destArr |-> found, str |-> NULL]
          ELSE [mem |-> cut, destArr |-> found, str |-> e + 1]
    <3> HIDE DEF e
    <3> QED
      BY <1>2, <2>3 DEF Tokenize
  <2>5. /\ str \in Nat /\ strEnd \in Nat /\ e \in Nat /\ t.str \in Nat /\ Nul # delimeter
        /\ \A i \in 1 .. n : end(t.destArr[i]) \in Int
    <3>1. str \in Nat /\ strEnd \in Nat /\ Nul # delimeter
      BY StringLength, MemoryFacts
    <3>2. \A i \in 1 .. n : t.destArr[i] \in str .. strEnd
      <4> DEFINE S == str .. strEnd
      <4>1. t.destArr \in Seq(S) /\ Len(t.destArr) = n
        BY <2>1
      <4> HIDE DEF S
      <4>2. \A i \in 1 .. n : t.destArr[i] \in S
        BY <4>1
      <4> QED
        BY <4>2 DEF S
    <3>3. \A i \in 1 .. n : end(t.destArr[i]) \in Addr
      BY <3>2, FindWithin
    <3>4. e \in Nat /\ t.str \in Nat /\ \A i \in 1 .. n : end(t.destArr[i]) \in Int
      <4>1. Addr \subseteq Nat
        BY MemoryFacts
      <4>2. t.str \in Addr /\ e \in Addr
        BY <2>2
      <4> HIDE DEF end, e
      <4>3. \A i \in 1 .. n : end(t.destArr[i]) \in Nat
        BY <3>3, <4>1
      <4>4. e \in Nat /\ t.str \in Nat
        BY <4>1, <4>2
      <4> HIDE DEF found, cut
      <4> QED
        BY <4>3, <4>4
    <3> QED
      BY <3>1, <3>4
  <2>6. t.mem[e] = mem[e]
    BY <2>1, <2>2, <2>5
  <2> HIDE DEF end, strEnd, e
  <2>7. /\ found \in Seq(str .. strEnd) /\ Len(found) = n + 1
        /\ \A i \in 1 .. n : found[i] = t.destArr[i]
        /\ found[n + 1] = t.str
        /\ \A i \in 1 .. n + 1 : found[i] \in str .. strEnd
    <3> DEFINE S == str .. strEnd
    <3>1. t.destArr \in Seq(S) /\ Len(t.destArr) = n /\ t.str \in S
      BY <2>1
    <3> HIDE DEF S
    <3>2. /\ found \in Seq(S) /\ Len(found) = n + 1
          /\ \A i \in 1 .. n : found[i] = t.destArr[i]
          /\ found[n + 1] = t.str
          /\ \A i \in 1 .. n + 1 : found[i] \in S
      BY <3>1
    <3> QED
      BY <3>2 DEF S
  <2>8. \A i \in 1 .. n + 1 : found[i] = IF i = 1 THEN str ELSE end(found[i - 1]) + 1
    <3> TAKE i \in 1 .. n + 1
    <3>1. CASE i \in 1 .. n
      <4>1. i # 1 => i - 1 \in 1 .. n
        BY <3>1
      <4> HIDE DEF found
      <4> QED
        BY <2>1, <2>7, <3>1, <4>1
    <3>2. CASE i = n + 1
      <4>1. (i = 1 <=> n = 0) /\ i - 1 = n /\ (n # 0 => n \in 1 .. n)
        BY <3>2
      <4> HIDE DEF found
      <4> QED
        BY <2>1, <2>7, <3>2, <4>1
    <3> HIDE DEF found
    <3> QED
      BY <3>1, <3>2
  <2> HIDE DEF found
  <2>9. CASE t.mem[e] = Nul
    <3> DEFINE u == [mem |-> t.mem, destArr |-> found, str |-> NULL]
    <3>1. \A i \in 1 .. n + 1 :
            /\ t.mem[end(found[i])] = Nul
            /\ \A p \in found[i] .. end(found[i]) - 1 : t.mem[p] = mem[p]
      <4> TAKE i \in 1 .. n + 1
      <4>1. CASE i \in 1 .. n
        BY <2>1, <2>7, <4>1
      <4>2. CASE i = n + 1
        <5>1. end(found[i]) = e
          BY <2>7, <4>2 DEF e
        <5>2. \A p \in t.str .. e - 1 : p \in Addr /\ p >= t.str
          BY <2>2, <2>5, TextAssumption DEF Addr
        <5> QED
          BY <2>1, <2>7, <2>9, <4>2, <5>1, <5>2
      <4> QED
        BY <4>1, <4>2
    <3>2. end(found[n + 1]) = strEnd
      BY <2>2, <2>6, <2>7, <2>9 DEF e
    <3>3. u.mem = t.mem /\ u.destArr = found /\ u.str = NULL
      OBVIOUS
    <3> HIDE DEF u
    <3>4. TokensInv(mem, str, delimeter, n + 1, u)
      <4>2. n + 1 > 0 /\ n + 1 <= n + 1
        OBVIOUS
      <4>3. t.mem \in Memory /\ \A p \in Addr : t.mem[p] # mem[p] => mem[p] = delimeter /\ p \in str .. strEnd
        BY <2>1
      <4> QED
        BY <2>7, <2>8, <3>1, <3>2, <3>3, <4>2, <4>3 DEF TokensInv, end, strEnd
    <3> QED
      BY <2>4, <2>9, <3>4 DEF u
  <2>10. CASE t.mem[e] # Nul
    <3> DEFINE u == [mem |-> cut, destArr |-> found, str |-> e + 1]
    <3>0. mem[e] = delimeter /\ e < strEnd
      BY <2>2, <2>5, <2>6, <2>10
    <3>1. /\ cut \in Memory /\ cut[e] = Nul
          /\ \A p \in Addr : p # e => cut[p] = t.mem[p]
      <4>1. t.mem \in [Addr -> Letter \cup {Nul}] /\ t.mem[MemSize - 1] = Nul /\ e \in Addr
        BY <2>1, <2>2, MemoryFacts
      <4>2. /\ cut \in [Addr -> Letter \cup {Nul}] /\ cut[e] = Nul
            /\ \A p \in Addr : p # e => cut[p] = t.mem[p]
        BY <4>1
      <4>3. cut[MemSize - 1] = Nul
        BY <4>1, <4>2, MemoryFacts
      <4> HIDE DEF cut
      <4> QED
        BY <4>2, <4>3 DEF Memory
    <3> HIDE DEF cut
    <3>2. \A i \in 1 .. n + 1 :
            /\ cut[end(found[i])] = Nul
            /\ \A p \in found[i] .. end(found[i]) - 1 : cut[p] = mem[p]
      <4> TAKE i \in 1 .. n + 1
      <4>1. CASE i \in 1 .. n
        <5>1. /\ found[i] = t.destArr[i] /\ t.mem[end(found[i])] = Nul
              /\ \A p \in found[i] .. end(found[i]) - 1 : t.mem[p] = mem[p]
              /\ end(found[i]) < t.str /\ end(found[i]) \in Int /\ found[i] \in str .. strEnd
          <6>1. found[i] = t.destArr[i] /\ found[i] \in str .. strEnd
            BY <2>7, <4>1
          <6> QED
            BY <2>1, <2>5, <4>1, <6>1
        <5>2. end(found[i]) \in Addr
          BY <5>1, FindWithin DEF end, strEnd
        <5>3. end(found[i]) # e
          BY <2>2, <2>5, <5>1
        <5>4. \A p \in found[i] .. end(found[i]) - 1 : p \in Addr /\ p # e
          BY <2>2, <2>5, <5>1, <5>2, TextAssumption DEF Addr
        <5> QED
          BY <3>1, <5>1, <5>2, <5>3, <5>4
      <4>2. CASE i = n + 1
        <5>1. end(found[i]) = e
          BY <2>7, <4>2 DEF e
        <5>2. \A p \in t.str .. e - 1 : p \in Addr /\ p >= t.str /\ p # e
          BY <2>2, <2>5, TextAssumption DEF Addr
        <5> QED
          BY <2>1, <2>7, <3>1, <4>2, <5>1, <5>2
      <4> QED
        BY <4>1, <4>2
    <3>3. \A p \in Addr : cut[p] # mem[p] => mem[p] = delimeter /\ p \in str .. strEnd
      BY <2>1, <2>2, <2>5, <3>0, <3>1
    <3>4. /\ e + 1 \in str .. strEnd /\ e + 1 = IF n + 1 = 0 THEN str ELSE end(found[n + 1]) + 1
      BY <2>1, <2>2, <2>5, <2>7, <3>0 DEF e
    <3>5. \A i \in 1 .. n + 1 : end(found[i]) < e + 1
      <4> TAKE i \in 1 .. n + 1
      <4>1. CASE i \in 1 .. n
        BY <2>1, <2>2, <2>5, <2>7, <4>1
      <4>2. CASE i = n + 1
        <5>1. end(found[i]) = e
          BY <2>7, <4>2 DEF e
        <5> QED
          BY <2>5, <5>1
      <4> QED
        BY <4>1, <4>2
    <3>6. \A p \in Addr : p >= e + 1 => cut[p] = mem[p]
      <4> SUFFICES ASSUME NEW p \in Addr, p >= e + 1 PROVE cut[p] = mem[p]
        OBVIOUS
      <4>1. p # e /\ p >= t.str
        BY <2>2, <2>5, MemoryFacts
      <4> QED
        BY <2>1, <3>1, <4>1
    <3>7. u.mem = cut /\ u.destArr = found /\ u.str = e + 1
      OBVIOUS
    <3> HIDE DEF u
    <3>8. TokensInv(mem, str, delimeter, n + 1, u)
      <4>2. n + 1 <= n + 1 /\ e + 1 # NULL
        BY <2>5 DEF NULL
      <4> QED
        BY <2>7, <2>8, <3>1, <3>2, <3>3, <3>4, <3>5, <3>6, <3>7, <4>2 DEF TokensInv, end, strEnd
    <3> QED
      BY <2>4, <2>10, <3>8 DEF u
  <2> QED
    BY <2>9, <2>10
<1> QED
  BY <1>1, <1>2

(* So the invariant holds when the loop of string_tokenize() is over.      *)
LEMMA StringTokenize ==
  ASSUME NEW mem \in Memory, NEW str \in Addr, NEW delimeter \in Letter, NEW max \in Nat
  PROVE  TokensInv(mem, str, delimeter, max, Tokenized(mem, str, delimeter)[max])
<1> DEFINE t(n) == Tokenized(mem, str, delimeter)[n]
           T == {n \in Nat : TokensInv(mem, str, delimeter, n, t(n))}
<1>1. t(0) = [mem |-> mem, destArr |-> <<>>, str |-> str]
  BY TokenizedStart
<1>2. ASSUME NEW n \in Nat PROVE t(n + 1) = Tokenize(delimeter, t(n))
  BY TokenizedTurn
<1> HIDE DEF t
<1>3. 0 \in T
  BY <1>1, TokensStart
<1>4. ASSUME NEW n \in Nat, n \in T PROVE n + 1 \in T
  <2>1. TokensInv(mem, str, delimeter, n + 1, Tokenize(delimeter, t(n)))
    BY <1>4, TokensTurn
  <2> QED
    BY <1>2, <2>1
<1> HIDE DEF T
<1>5. max \in T
  BY <1>3, <1>4, LengthLoop!SetInduction
<1> QED
  BY <1>5 DEF T, t

-----------------------------------------------------------------------------
SwapStart(mem, str, end, d) == mem
SwapTurn(mem, str, end, d, n, before) ==
  LET first == (str + n) - 1
      last == (end - n) + 1
  IN  [before EXCEPT ![first] = before[last], ![last] = before[first]]
SwapEnds(mem, str, end, d, n) == str + n >= end - n
SwapLoop == INSTANCE Loops WITH Start <- SwapStart, Turn <- SwapTurn, Ends <- SwapEnds

(* What the loop of string_reverse() begins with.                          *)
LEMMA SwappedStart ==
  ASSUME NEW mem, NEW str, NEW end
  PROVE  Swapped(mem, str, end)[0] = mem
<1>1. Swapped(mem, str, end) = SwapLoop!After(mem, str, end, 0)
  BY DEF Swapped, SwapLoop!After, SwapStart, SwapTurn
<1> QED
  BY <1>1, SwapLoop!AfterEquation DEF SwapStart

(* One turn of the loop of string_reverse() after the other.               *)
LEMMA SwappedTurn ==
  ASSUME NEW mem, NEW str, NEW end, NEW n \in Nat
  PROVE  Swapped(mem, str, end)[n + 1] =
           SwapTurn(mem, str, end, 0, n + 1, Swapped(mem, str, end)[n])
<1>1. Swapped(mem, str, end) = SwapLoop!After(mem, str, end, 0)
  BY DEF Swapped, SwapLoop!After, SwapStart, SwapTurn
<1>2. SwapLoop!After(mem, str, end, 0)[n + 1]
        = SwapTurn(mem, str, end, 0, n + 1, SwapLoop!After(mem, str, end, 0)[n])
  BY SwapLoop!AfterEquation
<1> QED
  BY <1>1, <1>2

(* What is left to be reversed lies between the ends.                       *)
PartReversed(dest, length, k) ==
  [i \in 1 .. length |-> IF i <= k \/ i > length - k THEN dest[(length + 1) - i] ELSE dest[i]]

(* A turn that swaps the next two characters reverses one more at each     *)
(* end.                                                                    *)
LEMMA SwapReverses ==
  ASSUME NEW length \in Nat, NEW dest, NEW k \in Nat, k + 1 < length - k
  PROVE  SwapTurn(dest, 1, length, 0, k + 1, PartReversed(dest, length, k))
           = PartReversed(dest, length, k + 1)
<1> DEFINE before == PartReversed(dest, length, k)
<1>1. /\ (1 + (k + 1)) - 1 = k + 1 /\ (length - (k + 1)) + 1 = length - k
      /\ k + 1 \in 1 .. length /\ length - k \in 1 .. length
      /\ (length + 1) - (k + 1) = length - k /\ (length + 1) - (length - k) = k + 1
  OBVIOUS
<1>2. before = [i \in 1 .. length |-> IF i <= k \/ i > length - k THEN dest[(length + 1) - i] ELSE dest[i]]
  BY DEF PartReversed
<1> HIDE DEF before
<1>3. before[k + 1] = dest[k + 1] /\ before[length - k] = dest[length - k]
  BY <1>1, <1>2
<1>4. SwapTurn(dest, 1, length, 0, k + 1, before)
        = [before EXCEPT ![k + 1] = dest[length - k], ![length - k] = dest[k + 1]]
  BY <1>1, <1>3 DEF SwapTurn
<1>5. [before EXCEPT ![k + 1] = dest[length - k], ![length - k] = dest[k + 1]]
        = [i \in 1 .. length |->
             IF i = length - k THEN dest[k + 1] ELSE IF i = k + 1 THEN dest[length - k] ELSE before[i]]
  BY <1>1, <1>2
<1>6. \A i \in 1 .. length :
        (IF i = length - k THEN dest[k + 1] ELSE IF i = k + 1 THEN dest[length - k] ELSE before[i])
          = IF i <= k + 1 \/ i > length - (k + 1) THEN dest[(length + 1) - i] ELSE dest[i]
  <2> TAKE i \in 1 .. length
  <2>1. CASE i = length - k
    <3>1. i > length - (k + 1) /\ (length + 1) - i = k + 1
      BY <1>1, <2>1
    <3> QED
      BY <2>1, <3>1
  <2>2. CASE i = k + 1 /\ i # length - k
    <3>1. i <= k + 1 /\ (length + 1) - i = length - k
      BY <1>1, <2>2
    <3> QED
      BY <2>2, <3>1
  <2>3. CASE i # k + 1 /\ i # length - k
    <3>1. (i <= k + 1 <=> i <= k) /\ (i > length - (k + 1) <=> i > length - k)
      BY <2>3
    <3> QED
      BY <1>2, <2>3, <3>1
  <2> QED
    BY <2>1, <2>2, <2>3
<1> QED
  BY <1>4, <1>5, <1>6 DEF PartReversed, before

(* string_reverse() leaves the characters from last to first.              *)
LEMMA StringReverse ==
  ASSUME NEW length \in Nat, NEW dest, dest = [i \in 1 .. length |-> dest[i]]
  PROVE  string_reverse(dest, 1, length) = [i \in 1 .. length |-> dest[(length + 1) - i]]
<1> DEFINE turns == SwapLoop!Stop(dest, 1, length, 0)[0]
           swapped(k) == Swapped(dest, 1, length)[k]
           part(k) == PartReversed(dest, length, k)
           T == {k \in Nat : k <= turns => swapped(k) = part(k)}
<1>1. string_reverse(dest, 1, length) = swapped(turns)
  <2>1. (1 + length) - 1 = length
    OBVIOUS
  <2>2. string_reverse(dest, 1, length)
          = Swapped(dest, 1, (1 + length) - 1)[SwapLoop!Stop(dest, 1, (1 + length) - 1, 0)[0]]
    BY DEF string_reverse, SwapLoop!Stop, SwapEnds
  <2> QED
    BY <2>1, <2>2
<1>2. swapped(0) = dest
  BY SwappedStart
<1>3. ASSUME NEW k \in Nat PROVE swapped(k + 1) = SwapTurn(dest, 1, length, 0, k + 1, swapped(k))
  BY SwappedTurn
<1> HIDE DEF turns, swapped
<1>4. /\ turns \in 0 .. length /\ 1 + turns >= length - turns
      /\ \A r \in 0 .. turns - 1 : 1 + r < length - r
  <2>1. SwapEnds(dest, 1, length, 0, length)
    BY DEF SwapEnds
  <2>2. /\ turns \in 0 .. length /\ SwapEnds(dest, 1, length, 0, turns)
        /\ \A r \in 0 .. turns - 1 : ~SwapEnds(dest, 1, length, 0, r)
    BY <2>1, SwapLoop!StopIsFirst DEF turns
  <2> QED
    BY <2>2 DEF SwapEnds
<1>5. part(0) = dest
  <2>1. \A i \in 1 .. length : ~(i <= 0 \/ i > length - 0)
    OBVIOUS
  <2> QED
    BY <2>1 DEF PartReversed
<1>6. ASSUME NEW k \in Nat, k + 1 <= turns PROVE SwapTurn(dest, 1, length, 0, k + 1, part(k)) = part(k + 1)
  <2>1. k \in 0 .. turns - 1
    BY <1>4, <1>6
  <2>2. k + 1 < length - k
    BY <1>4, <2>1
  <2> QED
    BY <2>2, SwapReverses
<1>7. part(turns) = [i \in 1 .. length |-> dest[(length + 1) - i]]
  <2>1. \A i \in 1 .. length : ~(i <= turns \/ i > length - turns) => (length + 1) - i = i
    BY <1>4
  <2> QED
    BY <2>1 DEF PartReversed
<1> HIDE DEF part
<1>8. 0 \in T
  BY <1>2, <1>5
<1>9. ASSUME NEW k \in Nat, k \in T PROVE k + 1 \in T
  <2> SUFFICES ASSUME k + 1 <= turns PROVE swapped(k + 1) = part(k + 1)
    OBVIOUS
  <2>1. k <= turns
    BY <1>4
  <2>2. swapped(k) = part(k)
    BY <1>9, <2>1
  <2> QED
    BY <1>3, <1>6, <2>2
<1> HIDE DEF T
<1>10. Nat \subseteq T
  BY <1>8, <1>9, LengthLoop!SetInduction
<1>11. swapped(turns) = part(turns)
  <2>1. turns \in Nat /\ turns <= turns
    BY <1>4
  <2> QED
    BY <1>10, <2>1 DEF T
<1> QED
  BY <1>1, <1>7, <1>11

-----------------------------------------------------------------------------

Bases == {2, 10, 16}

(* The conversions of integers, with their bases.                          *)
LEMMA BasesAre ==
  /\ IntSpec = {"d", "i", "x", "b"}
  /\ BaseOf["d"] = 10 /\ BaseOf["i"] = 10 /\ BaseOf["x"] = 16 /\ BaseOf["b"] = 2
  /\ \A spec \in IntSpec : BaseOf[spec] \in Bases
BY DEF BaseOf, IntSpec, Bases

(* A number is the quotient times the base and the remainder, which is a   *)
(* digit of the base.                                                      *)
LEMMA DivMod ==
  ASSUME NEW v \in Nat, NEW base \in Bases
  PROVE  /\ Quotient(v, base) \in Nat /\ Remainder(v, base) \in 0 .. base - 1
         /\ Quotient(v, base) * base + Remainder(v, base) = v
         /\ v # 0 => Quotient(v, base) < v
         /\ v < base => Quotient(v, base) = 0 /\ Remainder(v, base) = v
<1>1. CASE base = 2
  BY <1>1 DEF Quotient, Remainder
<1>2. CASE base = 10
  BY <1>2 DEF Quotient, Remainder
<1>3. CASE base = 16
  BY <1>3 DEF Quotient, Remainder
<1> QED
  BY <1>1, <1>2, <1>3 DEF Bases

(* The character of a digit reads as that digit.                           *)
LEMMA CharIsDigit ==
  ASSUME NEW digit \in 0 .. 15
  PROVE  /\ CharOf(digit) \in (48 .. 57) \cup (65 .. 70) /\ CharOf(digit) \in Nat
         /\ DigitOf(CharOf(digit)) = digit /\ (CharOf(digit) = 48 <=> digit = 0)
BY DEF CharOf, DigitOf

LeftStart(value, base, c, d) == value
LeftTurn(value, base, c, d, n, before) == Quotient(before, base)
LeftEnds(value, base, c, d, n) == Left(value, base)[n] = 0
LeftLoop == INSTANCE Loops WITH Start <- LeftStart, Turn <- LeftTurn, Ends <- LeftEnds

(* The loop that finds the digits, turn by turn.                           *)
LEMMA LeftTurns ==
  ASSUME NEW value, NEW base
  PROVE  /\ Left(value, base)[0] = value
         /\ \A n \in Nat : Left(value, base)[n + 1] = Quotient(Left(value, base)[n], base)
<1>1. Left(value, base) = LeftLoop!After(value, base, 0, 0)
  BY DEF Left, LeftLoop!After, LeftStart, LeftTurn
<1>2. /\ LeftLoop!After(value, base, 0, 0)[0] = LeftStart(value, base, 0, 0)
      /\ \A n \in Nat : LeftLoop!After(value, base, 0, 0)[n + 1]
           = LeftTurn(value, base, 0, 0, n + 1, LeftLoop!After(value, base, 0, 0)[n])
  BY LeftLoop!AfterEquation
<1> QED
  BY <1>1, <1>2 DEF LeftStart, LeftTurn

(* Every turn leaves less of a number, until nothing is left.              *)
LEMMA LeftIsNat ==
  ASSUME NEW value \in Nat, NEW base \in Bases
  PROVE  \A n \in Nat : /\ Left(value, base)[n] \in Nat
                        /\ Left(value, base)[n] = 0 \/ Left(value, base)[n] + n <= value
<1> DEFINE left(n) == Left(value, base)[n]
           T == {n \in Nat : left(n) \in Nat /\ (left(n) = 0 \/ left(n) + n <= value)}
<1>1. left(0) = value /\ \A n \in Nat : left(n + 1) = Quotient(left(n), base)
  BY LeftTurns
<1> HIDE DEF left
<1>2. 0 \in T
  BY <1>1
<1>3. ASSUME NEW n \in Nat, n \in T PROVE n + 1 \in T
  <2>1. left(n + 1) \in Nat /\ (left(n) # 0 => left(n + 1) < left(n)) /\ (left(n) = 0 => left(n + 1) = 0)
    <3>1. 0 < base /\ left(n) \in Nat
      BY <1>3 DEF Bases
    <3> QED
      BY <1>1, <3>1, DivMod
  <2> QED
    BY <1>3, <2>1
<1> HIDE DEF T
<1>4. Nat \subseteq T
  BY <1>2, <1>3, LengthLoop!SetInduction
<1> QED
  BY <1>4 DEF T, left

(* The turns of the conversion: as many as the number has digits.          *)
Count(value, base) == LeftLoop!Stop(value, base, 0, 0)[0]

(* The loop that finds the digits ends when nothing is left, after one     *)
(* turn for each of them.                                                  *)
LEMMA DigitsAre ==
  ASSUME NEW value \in Nat, NEW base \in Bases
  PROVE  LET count == Count(value, base)
             left == Left(value, base)
         IN  /\ count \in Nat /\ left[0] = value /\ left[count] = 0
             /\ \A n \in 0 .. count - 1 : left[n] # 0
             /\ \A n \in Nat : left[n] \in Nat /\ left[n + 1] = Quotient(left[n], base)
             /\ Digits(value, base) = [n \in 1 .. count |-> CharOf(Remainder(left[n - 1], base))]
<1> DEFINE count == Count(value, base)
           left == Left(value, base)
<1>1. Digits(value, base) = [n \in 1 .. count |-> CharOf(Remainder(left[n - 1], base))]
  BY DEF Digits, Count, LeftLoop!Stop, LeftEnds
<1>2. LeftEnds(value, base, 0, 0, value)
  BY LeftIsNat DEF LeftEnds
<1>3. /\ count \in 0 .. value /\ LeftEnds(value, base, 0, 0, count)
      /\ \A r \in 0 .. count - 1 : ~LeftEnds(value, base, 0, 0, r)
  BY <1>2, LeftLoop!StopIsFirst DEF Count
<1>4. left[0] = value /\ \A n \in Nat : left[n] \in Nat /\ left[n + 1] = Quotient(left[n], base)
  BY LeftTurns, LeftIsNat
<1> QED
  BY <1>1, <1>3, <1>4 DEF LeftEnds

NumberStart(text, base, c, d) == 0
NumberTurn(text, base, c, d, n, before) == before * base + DigitOf(text[n])
NumberLoop == INSTANCE Loops WITH Start <- NumberStart, Turn <- NumberTurn, Ends <- NoEnds

(* What has been read after n digits is the number.                        *)
LEMMA NumberIs ==
  ASSUME NEW text, NEW base, NEW read, Len(text) \in Nat, read[0] = 0,
         \A n \in 0 .. Len(text) - 1 : read[n + 1] = read[n] * base + DigitOf(text[n + 1])
  PROVE  NumberOf(text, base) = read[Len(text)]
<1> DEFINE number(n) == NumberLoop!After(text, base, 0, 0)[n]
           T == {n \in Nat : n <= Len(text) => number(n) = read[n]}
<1>1. NumberOf(text, base) = number(Len(text))
  BY DEF NumberOf, NumberLoop!After, NumberStart, NumberTurn
<1>2. /\ number(0) = 0
      /\ \A n \in Nat : number(n + 1) = number(n) * base + DigitOf(text[n + 1])
  BY NumberLoop!AfterEquation DEF NumberStart, NumberTurn
<1> HIDE DEF number
<1>3. 0 \in T
  BY <1>2
<1>4. ASSUME NEW n \in Nat, n \in T PROVE n + 1 \in T
  <2> SUFFICES ASSUME n + 1 <= Len(text) PROVE number(n + 1) = read[n + 1]
    OBVIOUS
  <2>1. n <= Len(text) /\ n \in 0 .. Len(text) - 1
    OBVIOUS
  <2>2. number(n) = read[n]
    BY <1>4, <2>1
  <2> QED
    BY <1>2, <2>1, <2>2
<1> HIDE DEF T
<1>5. Nat \subseteq T
  BY <1>3, <1>4, LengthLoop!SetInduction
<1>6. number(Len(text)) = read[Len(text)]
  <2>1. Len(text) <= Len(text)
    OBVIOUS
  <2> QED
    BY <1>5, <2>1 DEF T
<1> QED
  BY <1>1, <1>6

(* The digits of a number, first to last.                                  *)
DigitText(value, base) ==
  [n \in 1 .. Count(value, base) |->
     CharOf(Remainder(Left(value, base)[Count(value, base) - n], base))]

Reads(text, base, value) ==
  /\ text \in Seq(Nat) /\ IsNumber(text, base) /\ NumberOf(text, base) = value
  /\ text[1] # Minus /\ (text[1] = 48 => text = <<48>>)

(* The digits, first to last, read back as the number: after n of them     *)
(* what has been read is what is left before the others are found.         *)
LEMMA DigitsRead ==
  ASSUME NEW value \in Nat \ {0}, NEW base \in Bases
  PROVE  /\ Reads(DigitText(value, base), base, value) /\ DigitText(value, base)[1] # 48
         /\ Len(DigitText(value, base)) = Count(value, base) /\ Count(value, base) \in Nat \ {0}
<1> DEFINE count == Count(value, base)
           left == Left(value, base)
           text == DigitText(value, base)
<1>1. /\ count \in Nat /\ left[0] = value /\ left[count] = 0
      /\ \A n \in 0 .. count - 1 : left[n] # 0
      /\ \A n \in Nat : left[n] \in Nat /\ left[n + 1] = Quotient(left[n], base)
  BY DigitsAre
<1>2. text = [n \in 1 .. count |-> CharOf(Remainder(left[count - n], base))]
  BY DEF DigitText
<1> HIDE DEF count, left, text
<1>3. count # 0
  BY <1>1
<1>4. \A n \in 1 .. count : Remainder(left[count - n], base) \in 0 .. base - 1 /\ base - 1 <= 15
  <2> TAKE n \in 1 .. count
  <2>1. left[count - n] \in Nat
    BY <1>1
  <2>2. Remainder(left[count - n], base) \in 0 .. base - 1
    BY <2>1, DivMod
  <2>3. base - 1 <= 15
    BY DEF Bases
  <2> QED
    BY <2>2, <2>3
<1>5. \A n \in 1 .. count : /\ text[n] \in (48 .. 57) \cup (65 .. 70) /\ text[n] \in Nat
                            /\ DigitOf(text[n]) = Remainder(left[count - n], base)
                            /\ DigitOf(text[n]) < base
                            /\ (text[n] = 48 <=> Remainder(left[count - n], base) = 0)
  <2> TAKE n \in 1 .. count
  <2>1. Remainder(left[count - n], base) \in 0 .. 15 /\ Remainder(left[count - n], base) < base
    BY <1>4 DEF Bases
  <2>2. text[n] = CharOf(Remainder(left[count - n], base))
    BY <1>2
  <2> QED
    BY <2>1, <2>2, CharIsDigit
<1>6. text \in Seq(Nat) /\ Len(text) = count /\ DOMAIN text = 1 .. count
  <2>1. text \in [1 .. count -> Nat]
    BY <1>2, <1>5
  <2> QED
    BY <1>1, <2>1
<1>7. NumberOf(text, base) = value
  <2> DEFINE read == [n \in 0 .. count |-> left[count - n]]
  <2>1. read[0] = 0 /\ read[count] = value
    BY <1>1
  <2>2. \A n \in 0 .. count - 1 : read[n + 1] = read[n] * base + DigitOf(text[n + 1])
    <3> TAKE n \in 0 .. count - 1
    <3>1. n + 1 \in 1 .. count /\ count - (n + 1) \in Nat /\ (count - (n + 1)) + 1 = count - n
      BY <1>1
    <3>2. DigitOf(text[n + 1]) = Remainder(left[count - (n + 1)], base)
      BY <1>5, <3>1
    <3>3. left[count - n] = Quotient(left[count - (n + 1)], base) /\ left[count - (n + 1)] \in Nat
      BY <1>1, <3>1
    <3>4. left[count - n] * base + Remainder(left[count - (n + 1)], base) = left[count - (n + 1)]
      BY <3>3, DivMod
    <3>5. read[n] = left[count - n] /\ read[n + 1] = left[count - (n + 1)]
      <4>1. n \in 0 .. count /\ n + 1 \in 0 .. count
        BY <1>1
      <4> QED
        BY <4>1
    <3> QED
      BY <3>2, <3>4, <3>5
  <2> HIDE DEF read
  <2>3. NumberOf(text, base) = read[Len(text)]
    <3>1. Len(text) \in Nat /\ \A n \in 0 .. Len(text) - 1 : read[n + 1] = read[n] * base + DigitOf(text[n + 1])
      BY <1>1, <1>6, <2>2
    <3> QED
      BY <2>1, <3>1, NumberIs
  <2> QED
    BY <1>6, <2>1, <2>3
<1>8. text[1] # 48 /\ text[1] # Minus
  <2>1. 1 \in 1 .. count /\ count - 1 \in Nat /\ (count - 1) + 1 = count /\ count - 1 \in 0 .. count - 1
    BY <1>1, <1>3
  <2>2. left[count - 1] # 0 /\ left[count - 1] \in Nat /\ Quotient(left[count - 1], base) = 0
    BY <1>1, <2>1
  <2>3. 0 * base = 0
    BY DEF Bases
  <2>4. Remainder(left[count - 1], base) = left[count - 1]
    <3>1. Remainder(left[count - 1], base) \in Nat /\ 0 + Remainder(left[count - 1], base) = left[count - 1]
      <4>1. /\ Remainder(left[count - 1], base) \in 0 .. base - 1
            /\ Quotient(left[count - 1], base) * base + Remainder(left[count - 1], base) = left[count - 1]
        BY <2>2, DivMod
      <4> QED
        BY <2>2, <2>3, <4>1
    <3> QED
      BY <3>1
  <2> QED
    BY <1>5, <2>1, <2>2, <2>4 DEF Minus
<1>9. IsNumber(text, base)
  <2>1. text # <<>>
    BY <1>3, <1>6
  <2> QED
    BY <1>5, <1>6, <2>1 DEF IsNumber
<1> QED
  BY <1>1, <1>3, <1>6, <1>7, <1>8, <1>9 DEF Reads, count, text

(* What the string is in which the last digit comes first.                 *)
LEMMA FinishDigits ==
  ASSUME NEW value \in Nat \ {0}, NEW base \in Bases
  PROVE  /\ Finish(Digits(value, base)) = Append(DigitText(value, base), Nul)
         /\ Finish(Digits(value, base) \o <<Minus>>) = <<Minus>> \o Append(DigitText(value, base), Nul)
<1> DEFINE count == Count(value, base)
           digit(n) == CharOf(Remainder(Left(value, base)[n], base))
           digits == Digits(value, base)
           text == DigitText(value, base)
<1>1. count \in Nat /\ digits = [n \in 1 .. count |-> digit(n - 1)]
  BY DigitsAre
<1>2. text = [n \in 1 .. count |-> digit(count - n)]
  BY DEF DigitText
<1> HIDE DEF count, digit, digits, text
<1> DEFINE S == {digit(n) : n \in Int}
<1>0. \A n \in Int : digit(n) \in S
  OBVIOUS
<1> HIDE DEF S
<1>3. digits \in Seq(S) /\ Len(digits) = count
  <2>1. digits \in [1 .. count -> S]
    BY <1>0, <1>1
  <2> QED
    BY <1>1, <2>1
<1>4. text \in Seq(S) /\ Len(text) = count
  <2>1. text \in [1 .. count -> S]
    BY <1>0, <1>1, <1>2
  <2> QED
    BY <1>1, <2>1
<1>5. Finish(digits) = Append(text, Nul)
  <2>1. string_reverse(digits, 1, count) = [n \in 1 .. count |-> digits[(count + 1) - n]]
    <3>1. count \in Nat /\ digits = [n \in 1 .. count |-> digits[n]]
      BY <1>1
    <3> QED
      BY <3>1, StringReverse
  <2>2. \A n \in 1 .. count : digits[(count + 1) - n] = digit(count - n)
    <3> TAKE n \in 1 .. count
    <3>1. (count + 1) - n \in 1 .. count /\ ((count + 1) - n) - 1 = count - n
      BY <1>1
    <3> QED
      BY <1>1, <3>1
  <2>3. string_reverse(digits, 1, count) = text
    BY <1>2, <2>1, <2>2
  <2> QED
    BY <1>3, <2>3 DEF Finish
<1>6. Finish(digits \o <<Minus>>) = <<Minus>> \o Append(text, Nul)
  <2> DEFINE dest == digits \o <<Minus>>
  <2>1. dest = [n \in 1 .. count + 1 |-> IF n = count + 1 THEN Minus ELSE digit(n - 1)]
    BY <1>1, <1>3
  <2>2. Len(dest) = count + 1
    BY <1>3
  <2> HIDE DEF dest
  <2>3. string_reverse(dest, 1, count + 1) = [n \in 1 .. count + 1 |-> dest[((count + 1) + 1) - n]]
    <3>1. dest = [n \in 1 .. count + 1 |-> dest[n]] /\ count + 1 \in Nat
      BY <1>1, <2>1
    <3> QED
      BY <3>1, StringReverse
  <2>4. \A n \in 1 .. count + 1 : dest[((count + 1) + 1) - n] = IF n = 1 THEN Minus ELSE digit(count - (n - 1))
    <3> TAKE n \in 1 .. count + 1
    <3>1. /\ ((count + 1) + 1) - n \in 1 .. count + 1
          /\ (((count + 1) + 1) - n = count + 1 <=> n = 1)
          /\ (((count + 1) + 1) - n) - 1 = count - (n - 1)
      BY <1>1
    <3> QED
      BY <2>1, <3>1
  <2>5. <<Minus>> \o text = [n \in 1 .. count + 1 |-> IF n = 1 THEN Minus ELSE digit(count - (n - 1))]
    BY <1>1, <1>2, <1>4
  <2>6. string_reverse(dest, 1, count + 1) = <<Minus>> \o text
    BY <2>3, <2>4, <2>5
  <2>7. Append(<<Minus>> \o text, Nul) = <<Minus>> \o Append(text, Nul)
    BY <1>4
  <2> QED
    BY <2>2, <2>6, <2>7 DEF Finish, dest
<1> QED
  BY <1>5, <1>6 DEF digits, text

-----------------------------------------------------------------------------
PowStart(a, b, c, d) == 1
PowTurn(a, b, c, d, n, before) == 2 * before
PowLoop == INSTANCE Loops WITH Start <- PowStart, Turn <- PowTurn, Ends <- NoEnds

(* Pow2 has the equation that defines it.                                  *)
LEMMA PowTurns ==
  Pow2[0] = 1 /\ \A n \in Nat : Pow2[n + 1] = 2 * Pow2[n]
<1>1. Pow2 = PowLoop!After(0, 0, 0, 0)
  BY DEF Pow2, PowLoop!After, PowStart, PowTurn
<1>2. /\ PowLoop!After(0, 0, 0, 0)[0] = PowStart(0, 0, 0, 0)
      /\ \A n \in Nat : PowLoop!After(0, 0, 0, 0)[n + 1]
           = PowTurn(0, 0, 0, 0, n + 1, PowLoop!After(0, 0, 0, 0)[n])
  BY PowLoop!AfterEquation
<1> QED
  BY <1>1, <1>2 DEF PowStart, PowTurn

(* Powers of 2 are positive.                                               *)
LEMMA PowIsPositive ==
  \A n \in Nat : Pow2[n] \in Nat \ {0}
<1> DEFINE T == {n \in Nat : Pow2[n] \in Nat \ {0}}
<1>1. 0 \in T
  BY PowTurns
<1>2. ASSUME NEW n \in Nat, n \in T PROVE n + 1 \in T
  BY <1>2, PowTurns
<1> HIDE DEF T
<1>3. Nat \subseteq T
  BY <1>1, <1>2, LengthLoop!SetInduction
<1> QED
  BY <1>3 DEF T

(* A power of 2 grows with its exponent.                                   *)
LEMMA PowGrows ==
  ASSUME NEW m \in Nat, NEW n \in Nat, m <= n
  PROVE  Pow2[m] <= Pow2[n] /\ (m < n => Pow2[m] < Pow2[n])
<1> DEFINE T == {k \in Nat : Pow2[m] <= Pow2[m + k] /\ (k # 0 => Pow2[m] < Pow2[m + k])}
<1>1. 0 \in T
  <2>1. m + 0 = m
    OBVIOUS
  <2> QED
    BY <2>1, PowIsPositive
<1>2. ASSUME NEW k \in Nat, k \in T PROVE k + 1 \in T
  <2>1. m + (k + 1) = (m + k) + 1 /\ m + k \in Nat
    OBVIOUS
  <2>2. Pow2[m + (k + 1)] = 2 * Pow2[m + k] /\ Pow2[m + k] \in Nat \ {0} /\ Pow2[m] \in Nat
    BY <2>1, PowTurns, PowIsPositive
  <2>3. Pow2[m] <= Pow2[m + k]
    BY <1>2
  <2>4. Pow2[m] < Pow2[m + (k + 1)]
    BY <2>2, <2>3
  <2> QED
    BY <2>2, <2>4
<1> HIDE DEF T
<1>3. Nat \subseteq T
  BY <1>1, <1>2, LengthLoop!SetInduction
<1>4. n - m \in T /\ m + (n - m) = n /\ (m < n => n - m # 0)
  BY <1>3
<1> QED
  BY <1>4 DEF T

(* Half a power of 2 is the one before.                                    *)
LEMMA PowHalf ==
  ASSUME NEW bits \in Nat \ {0}
  PROVE  /\ Pow2[bits - 1] \in Nat \ {0} /\ Pow2[bits] = 2 * Pow2[bits - 1]
         /\ Pow2[bits] \div 2 = Pow2[bits - 1] /\ Pow2[bits] \in Nat \ {0}
<1>1. bits - 1 \in Nat /\ (bits - 1) + 1 = bits
  OBVIOUS
<1>2. Pow2[bits - 1] \in Nat \ {0} /\ Pow2[bits] = 2 * Pow2[bits - 1]
  BY <1>1, PowTurns, PowIsPositive
<1> QED
  BY <1>2

(* What is left after n digits needs n bits less.                          *)
LEMMA CountByBits ==
  ASSUME NEW value \in Nat, NEW base \in Bases, NEW bits \in Nat, value < Pow2[bits]
  PROVE  Count(value, base) <= bits
<1> DEFINE count == Count(value, base)
           left(n) == Left(value, base)[n]
           T == {n \in Nat : n <= bits => left(n) < Pow2[bits - n]}
<1>1. /\ count \in Nat /\ left(0) = value /\ \A n \in 0 .. count - 1 : left(n) # 0
      /\ \A n \in Nat : left(n) \in Nat /\ left(n + 1) = Quotient(left(n), base)
  BY DigitsAre
<1> HIDE DEF left, count
<1>2. 0 \in T
  <2>1. bits - 0 = bits
    OBVIOUS
  <2> QED
    BY <1>1, <2>1
<1>3. ASSUME NEW n \in Nat, n \in T PROVE n + 1 \in T
  <2> SUFFICES ASSUME n + 1 <= bits PROVE left(n + 1) < Pow2[bits - (n + 1)]
    OBVIOUS
  <2>1. n <= bits /\ bits - n \in Nat \ {0} /\ (bits - n) - 1 = bits - (n + 1)
    OBVIOUS
  <2>2. left(n) < Pow2[bits - n] /\ Pow2[bits - n] = 2 * Pow2[bits - (n + 1)] /\ Pow2[bits - (n + 1)] \in Nat
    BY <1>3, <2>1, PowHalf
  <2>3. left(n) \in Nat /\ left(n + 1) = left(n) \div base
    BY <1>1 DEF Quotient
  <2>4. left(n) \div base <= left(n) \div 2
    BY <2>3 DEF Bases
  <2> QED
    BY <2>2, <2>3, <2>4 DEF Bases
<1> HIDE DEF T
<1>4. bits \in T /\ bits - bits = 0 /\ bits <= bits
  BY <1>2, <1>3, LengthLoop!SetInduction
<1>5. left(bits) < Pow2[0] /\ Pow2[0] = 1 /\ left(bits) \in Nat
  BY <1>1, <1>4, PowTurns DEF T
<1>6. left(bits) = 0
  BY <1>5
<1> QED
  BY <1>1, <1>6 DEF count

(* A digit of a base of at least 8 has three bits or more.                 *)
LEMMA CountByThreeBits ==
  ASSUME NEW value \in Nat, NEW base \in {10, 16}, NEW room \in Nat, value < Pow2[3 * room]
  PROVE  Count(value, base) <= room
<1> DEFINE count == Count(value, base)
           left(n) == Left(value, base)[n]
           T == {n \in Nat : n <= room => left(n) < Pow2[3 * (room - n)]}
<1>1. /\ count \in Nat /\ left(0) = value /\ \A n \in 0 .. count - 1 : left(n) # 0
      /\ \A n \in Nat : left(n) \in Nat /\ left(n + 1) = Quotient(left(n), base)
  <2>1. base \in Bases
    BY DEF Bases
  <2> QED
    BY <2>1, DigitsAre
<1> HIDE DEF left, count
<1>2. 0 \in T
  <2>1. 3 * (room - 0) = 3 * room
    OBVIOUS
  <2> QED
    BY <1>1, <2>1
<1>3. ASSUME NEW n \in Nat, n \in T PROVE n + 1 \in T
  <2> SUFFICES ASSUME n + 1 <= room PROVE left(n + 1) < Pow2[3 * (room - (n + 1))]
    OBVIOUS
  <2> DEFINE k == 3 * (room - (n + 1))
  <2>1. n <= room /\ k \in Nat /\ 3 * (room - n) = ((k + 1) + 1) + 1
    OBVIOUS
  <2>2. left(n) < Pow2[((k + 1) + 1) + 1]
    BY <1>3, <2>1
  <2> HIDE DEF k
  <2>3. Pow2[((k + 1) + 1) + 1] = 8 * Pow2[k] /\ Pow2[k] \in Nat
    <3>1. k + 1 \in Nat /\ (k + 1) + 1 \in Nat
      BY <2>1
    <3>2. /\ Pow2[((k + 1) + 1) + 1] = 2 * Pow2[(k + 1) + 1] /\ Pow2[(k + 1) + 1] = 2 * Pow2[k + 1]
          /\ Pow2[k + 1] = 2 * Pow2[k] /\ Pow2[k] \in Nat
      BY <2>1, <3>1, PowTurns, PowIsPositive
    <3> QED
      BY <3>2
  <2>4. left(n) \in Nat /\ left(n + 1) = left(n) \div base
    BY <1>1 DEF Quotient
  <2>5. left(n) \div base <= left(n) \div 8
    BY <2>4
  <2>6. left(n) \div 8 < Pow2[k]
    BY <2>2, <2>3, <2>4
  <2>7. left(n + 1) < Pow2[k]
    BY <2>3, <2>4, <2>5, <2>6
  <2> QED
    BY <2>7 DEF k
<1> HIDE DEF T
<1>4. room \in T /\ 3 * (room - room) = 0 /\ room <= room
  BY <1>2, <1>3, LengthLoop!SetInduction
<1>5. left(room) < Pow2[0] /\ Pow2[0] = 1 /\ left(room) \in Nat
  BY <1>1, <1>4, PowTurns DEF T
<1>6. left(room) = 0
  BY <1>5
<1> QED
  BY <1>1, <1>6 DEF count

(* The negation of 0 is 0.                                                 *)
LEMMA NegatedZero ==
  -0 = 0
<1>1. \A x \in Int : -x = 0 - x
  OBVIOUS
<1>2. 0 \in Int /\ 0 - 0 = 0
  OBVIOUS
<1>3. -0 = 0 - 0
  BY <1>1, <1>2, Zenon
<1> QED
  BY <1>2, <1>3, Zenon

(* A negative number has as many digits as its absolute value.             *)
LEMMA DigitsOfNegative ==
  ASSUME NEW value \in Nat, NEW base \in Bases
  PROVE  /\ Len(Digits(-value, base)) = Count(value, base)
         /\ \E S : Digits(-value, base) \in Seq(S)
<1> DEFINE left(n) == Left(value, base)[n]
           negative(n) == Left(-value, base)[n]
           count == Count(value, base)
           stop == LeftLoop!Stop(-value, base, 0, 0)[0]
           T == {n \in Nat : negative(n) = -left(n)}
<1>1. /\ count \in Nat /\ left(0) = value /\ left(count) = 0
      /\ \A n \in 0 .. count - 1 : left(n) # 0
      /\ \A n \in Nat : left(n) \in Nat /\ left(n + 1) = Quotient(left(n), base)
  BY DigitsAre
<1>2. negative(0) = -value /\ \A n \in Nat : negative(n + 1) = Quotient(negative(n), base)
  BY LeftTurns
<1>3. Digits(-value, base) = [n \in 1 .. stop |-> CharOf(Remainder(Left(-value, base)[n - 1], base))]
  BY DEF Digits, LeftLoop!Stop, LeftEnds
<1> HIDE DEF left, negative, count, stop
<1>4. 0 \in T
  BY <1>1, <1>2
<1>5. ASSUME NEW n \in Nat, n \in T PROVE n + 1 \in T
  <2>1. negative(n) = -left(n) /\ left(n) \in Nat
    BY <1>1, <1>5
  <2>2. Quotient(-left(n), base) = -Quotient(left(n), base)
    <3>1. CASE left(n) = 0
      <4>1. Quotient(0, base) = 0
        BY DivMod DEF Quotient, Bases
      <4>2. -left(n) = 0
        BY <3>1, NegatedZero, Zenon
      <4> QED
        BY <3>1, <4>1, <4>2, NegatedZero, Zenon
    <3>2. CASE left(n) # 0
      <4>1. -(-left(n)) = left(n) /\ -left(n) < 0 /\ ~(left(n) < 0)
        BY <2>1, <3>2
      <4> QED
        BY <4>1 DEF Quotient
    <3> QED
      BY <3>1, <3>2
  <2> QED
    BY <1>1, <1>2, <2>1, <2>2
<1> HIDE DEF T
<1>6. Nat \subseteq T
  BY <1>4, <1>5, LengthLoop!SetInduction
<1>7. \A n \in Nat : negative(n) = 0 <=> left(n) = 0
  <2> TAKE n \in Nat
  <2>1. negative(n) = -left(n) /\ left(n) \in Nat
    BY <1>1, <1>6 DEF T
  <2> QED
    BY <2>1
<1>8. stop = count
  <2>1. /\ LeftEnds(-value, base, 0, 0, count)
        /\ \A r \in 0 .. count - 1 : ~LeftEnds(-value, base, 0, 0, r)
    BY <1>1, <1>7 DEF LeftEnds, negative
  <2> QED
    BY <1>1, <2>1, LeftLoop!StopFound DEF stop
<1>9. Len(Digits(-value, base)) = count /\ \E U : Digits(-value, base) \in Seq(U)
  <2> DEFINE digits == Digits(-value, base)
         digit(n) == CharOf(Remainder(Left(-value, base)[n - 1], base))
         S == {digit(n) : n \in 1 .. count}
  <2>1. digits = [n \in 1 .. count |-> digit(n)] /\ \A n \in 1 .. count : digit(n) \in S
    BY <1>3, <1>8
  <2> HIDE DEF digits, digit, S
  <2>2. digits \in [1 .. count -> S] /\ count \in Nat
    BY <1>1, <2>1
  <2>3. Len(digits) = count /\ digits \in Seq(S)
    BY <2>2
  <2> QED
    BY <2>3 DEF digits
<1> QED
  BY <1>9 DEF count

(* The digits of any number that is not negative.                          *)
NumberText(value, base) == IF value = 0 THEN <<48>> ELSE DigitText(value, base)

(* The digits of any number read back, those of 0 too.                     *)
LEMMA NumberReads ==
  ASSUME NEW value \in Nat, NEW base \in Bases
  PROVE  /\ Reads(NumberText(value, base), base, value)
         /\ value # 0 => NumberText(value, base)[1] # 48
         /\ Len(NumberText(value, base)) = IF value = 0 THEN 1 ELSE Count(value, base)
<1>1. CASE value # 0
  BY <1>1, DigitsRead DEF NumberText
<1>2. CASE value = 0
  <2> DEFINE text == <<48>>
             read == [n \in 0 .. 1 |-> 0]
  <2>1. Len(text) = 1 /\ text[1] = 48 /\ text \in Seq(Nat) /\ text # <<>> /\ DOMAIN text = {1}
    OBVIOUS
  <2>2. DigitOf(48) = 0 /\ 0 * base + 0 = 0 /\ 0 < base
    BY DEF DigitOf, Bases
  <2>3. read[0] = 0 /\ read[1] = 0
    OBVIOUS
  <2> HIDE DEF text, read
  <2>4. \A n \in 0 .. Len(text) - 1 : read[n + 1] = read[n] * base + DigitOf(text[n + 1])
    <3> TAKE n \in 0 .. Len(text) - 1
    <3>1. n = 0 /\ n + 1 = 1
      BY <2>1
    <3> QED
      BY <2>1, <2>2, <2>3, <3>1
  <2>5. Len(text) \in Nat
    BY <2>1
  <2>6. NumberOf(text, base) = read[Len(text)]
    BY <2>3, <2>4, <2>5, NumberIs
  <2>7. NumberOf(text, base) = 0
    BY <2>1, <2>3, <2>6
  <2>8. IsNumber(text, base)
    BY <2>1, <2>2 DEF IsNumber
  <2>9. Reads(text, base, 0)
    BY <2>1, <2>7, <2>8 DEF Reads, Minus, text
  <2> QED
    BY <1>2, <2>1, <2>9 DEF NumberText, text
<1> QED
  BY <1>1, <1>2

(* What uintToString() writes is the text of the number, and a '\0'.       *)
LEMMA UnsignedText ==
  ASSUME NEW value \in Nat, NEW base \in Bases
  PROVE  /\ uintToString(value, base) = Append(NumberText(value, base), Nul)
         /\ intToString(value, base) = {Append(NumberText(value, base), Nul)}
<1>1. CASE value = 0
  <2>1. Append(<<48>>, Nul) = <<48, Nul>>
    <3>1. <<48>> \in Seq({48}) /\ Len(<<48>>) = 1 /\ <<48>>[1] = 48
      OBVIOUS
    <3>2. Append(<<48>>, Nul) = [i \in 1 .. 2 |-> IF i <= 1 THEN <<48>>[i] ELSE Nul]
      BY <3>1
    <3>3. <<48, Nul>> = [i \in 1 .. 2 |-> IF i <= 1 THEN <<48>>[i] ELSE Nul]
      BY <3>1
    <3> QED
      BY <3>2, <3>3
  <2> QED
    BY <1>1, <2>1 DEF uintToString, intToString, NumberText
<1>2. CASE value # 0
  <2>1. value > 0
    BY <1>2
  <2> QED
    BY <1>2, <2>1, FinishDigits DEF uintToString, intToString, NumberText
<1> QED
  BY <1>1, <1>2

(* For a negative number intToString() writes a minus before it.           *)
LEMMA NegativeText ==
  ASSUME NEW value \in Nat \ {0}, NEW base \in Bases, value # Pow2[LongBits - 1],
         Pow2[LongBits - 1] \in Nat
  PROVE  intToString(-value, base) = {<<Minus>> \o Append(NumberText(value, base), Nul)}
<1>1. -value # 0 /\ ~(-value > 0) /\ -(-value) = value /\ -value # -Pow2[LongBits - 1]
  OBVIOUS
<1>2. Negations(-value) = {value}
  BY <1>1 DEF Negations
<1>3. intToString(-value, base) = {Finish(Digits(negated, base) \o <<Minus>>) : negated \in {value}}
  BY <1>1, <1>2 DEF intToString
<1>4. Finish(Digits(value, base) \o <<Minus>>) = <<Minus>> \o Append(NumberText(value, base), Nul)
  BY FinishDigits DEF NumberText
<1> QED
  BY <1>3, <1>4

(* Reversing the digits leaves as many of them, and adds the '\0'.         *)
LEMMA FinishLength ==
  ASSUME NEW S, NEW dest \in Seq(S)
  PROVE  Len(Finish(dest)) = Len(dest) + 1
<1> DEFINE count == Len(dest)
           reversed == [i \in 1 .. count |-> dest[(count + 1) - i]]
<1>1. count \in Nat /\ dest = [i \in 1 .. count |-> dest[i]]
  OBVIOUS
<1>2. string_reverse(dest, 1, count) = reversed
  <2> HIDE DEF count
  <2> QED
    BY <1>1, StringReverse
<1>3. \A i \in 1 .. count : reversed[i] \in S
  <2> TAKE i \in 1 .. count
  <2>1. (count + 1) - i \in 1 .. count
    OBVIOUS
  <2> QED
    BY <2>1
<1>4. reversed \in [1 .. count -> S]
  BY <1>3
<1> HIDE DEF reversed, count
<1>5. Len(Append(reversed, Nul)) = count + 1
  BY <1>1, <1>4
<1> QED
  BY <1>2, <1>5 DEF Finish, count

(* How long the string is that a negative number is converted to, the      *)
(* least int64 too.                                                        *)
LEMMA NegativeLength ==
  ASSUME NEW value \in Nat \ {0}, NEW base \in Bases, NEW tmp \in intToString(-value, base)
  PROVE  Len(tmp) = Count(value, base) + 2
<1>1. -value # 0 /\ ~(-value > 0) /\ -(-value) = value
  OBVIOUS
<1>2. PICK negated \in {value, -value} : tmp = Finish(Digits(negated, base) \o <<Minus>>)
  BY <1>1 DEF intToString, Negations
<1>3. Len(Digits(negated, base)) = Count(value, base) /\ \E S : Digits(negated, base) \in Seq(S)
  <2>1. Len(Digits(value, base)) = Count(value, base) /\ \E S : Digits(value, base) \in Seq(S)
    <3> DEFINE digit(n) == CharOf(Remainder(Left(value, base)[n - 1], base))
               count == Count(value, base)
               digits == Digits(value, base)
               S == {digit(n) : n \in 1 .. count}
    <3>1. count \in Nat /\ digits = [n \in 1 .. count |-> digit(n)] /\ \A n \in 1 .. count : digit(n) \in S
      BY DigitsAre
    <3> HIDE DEF digit, count, digits, S
    <3>2. digits \in [1 .. count -> S]
      BY <3>1
    <3>3. Len(digits) = count /\ digits \in Seq(S)
      BY <3>1, <3>2
    <3> QED
      BY <3>3 DEF digits, count
  <2>2. Len(Digits(-value, base)) = Count(value, base) /\ \E S : Digits(-value, base) \in Seq(S)
    BY DigitsOfNegative
  <2> QED
    BY <1>2, <2>1, <2>2
<1>4. PICK S : Digits(negated, base) \in Seq(S)
  BY <1>3
<1> DEFINE digits == Digits(negated, base)
<1>5. digits \in Seq(S \cup {Minus})
  BY <1>4
<1> HIDE DEF digits
<1>6. digits \o <<Minus>> \in Seq(S \cup {Minus}) /\ Len(digits \o <<Minus>>) = Len(digits) + 1
  BY <1>5
<1>7. Len(tmp) = (Len(digits) + 1) + 1
  BY <1>2, <1>6, FinishLength DEF digits
<1>8. Count(value, base) \in Nat
  BY DigitsAre
<1> QED
  BY <1>3, <1>7, <1>8 DEF digits

-----------------------------------------------------------------------------
Bits(l) == IF l THEN LongBits ELSE IntBits

(* Powers of 2 with the widths of int and int64: the range of the type,    *)
(* and half of it.                                                         *)
LEMMA BitsAre ==
  ASSUME NEW l \in BOOLEAN
  PROVE  /\ Bits(l) \in Nat \ {0} /\ Bits(l) <= LongBits /\ (~l => Bits(l) = IntBits)
         /\ Pow2[Bits(l) - 1] \in Nat \ {0} /\ Pow2[Bits(l)] = 2 * Pow2[Bits(l) - 1]
         /\ Pow2[Bits(l)] \div 2 = Pow2[Bits(l) - 1]
         /\ Pow2[LongBits - 1] \in Nat /\ (~l => Pow2[Bits(l) - 1] < Pow2[LongBits - 1])
         /\ Pow2[Bits(l)] \in Nat \ {0}
<1>1. IntBits \in Nat \ {0} /\ LongBits \in Nat \ {0} /\ IntBits < LongBits
  BY TextAssumption
<1>2. Bits(l) \in Nat \ {0} /\ Bits(l) <= LongBits /\ (~l => Bits(l) = IntBits)
  BY <1>1 DEF Bits
<1>3. Pow2[LongBits - 1] \in Nat
  BY <1>1, PowHalf
<1>4. IntBits - 1 \in Nat /\ LongBits - 1 \in Nat /\ IntBits - 1 < LongBits - 1
  BY <1>1
<1>5. Pow2[IntBits - 1] < Pow2[LongBits - 1]
  BY <1>4, PowGrows
<1> QED
  BY <1>2, <1>3, <1>5, PowHalf

(* The string a number is printed as: of an unsigned argument, or of one   *)
(* that is less than half of the range, the number itself; else what is    *)
(* missing to the end of the range, after a minus.                         *)
LEMMA PrintedIs ==
  ASSUME NEW u \in BOOLEAN, NEW l \in BOOLEAN, NEW base \in Bases,
         NEW arg \in 0 .. Pow2[Bits(l)] - 1
  PROVE  LET half == Pow2[Bits(l) - 1]
         IN  /\ u \/ arg < half => printInt(arg, u, l, base) = {Append(NumberText(arg, base), Nul)}
             /\ ~u /\ arg >= half =>
                  /\ Pow2[Bits(l)] - arg \in Nat \ {0}
                  /\ printInt(arg, u, l, base) = intToString(-(Pow2[Bits(l)] - arg), base)
                  /\ ~(l /\ arg = Pow2[LongBits - 1]) =>
                       printInt(arg, u, l, base)
                         = {<<Minus>> \o Append(NumberText(Pow2[Bits(l)] - arg, base), Nul)}
<1> DEFINE bits == Bits(l)
           mod == Pow2[Bits(l)]
           half == Pow2[Bits(l) - 1]
<1>1. /\ bits \in Nat \ {0} /\ mod \in Nat \ {0} /\ half \in Nat \ {0} /\ mod = 2 * half
      /\ Pow2[LongBits - 1] \in Nat /\ (~l => half < Pow2[LongBits - 1])
  BY BitsAre
<1>2. printInt(arg, u, l, base) =
        IF u THEN {uintToString(arg % mod, base)} ELSE intToString(Signed(bits, arg % mod), base)
  BY DEF printInt, Bits
<1>3. Signed(bits, arg) = IF arg < half THEN arg ELSE arg - mod
  BY DEF Signed
<1> HIDE DEF bits, mod, half
<1>4. arg \in Nat /\ arg < mod
  BY <1>1 DEF mod
<1>5. arg % mod = arg
  BY <1>1, <1>4
<1>6. ASSUME u \/ arg < half
      PROVE  printInt(arg, u, l, base) = {Append(NumberText(arg, base), Nul)}
  BY <1>2, <1>3, <1>4, <1>5, <1>6, UnsignedText
<1>7. ASSUME ~u, arg >= half
      PROVE  /\ mod - arg \in Nat \ {0}
             /\ printInt(arg, u, l, base) = intToString(-(mod - arg), base)
             /\ ~(l /\ arg = Pow2[LongBits - 1]) =>
                  printInt(arg, u, l, base) = {<<Minus>> \o Append(NumberText(mod - arg, base), Nul)}
  <2>1. mod - arg \in Nat \ {0} /\ -(mod - arg) = arg - mod /\ ~(arg < half)
    BY <1>1, <1>4, <1>7
  <2>2. printInt(arg, u, l, base) = intToString(-(mod - arg), base)
    BY <1>2, <1>3, <1>5, <1>7, <2>1
  <2>3. ASSUME ~(l /\ arg = Pow2[LongBits - 1]) PROVE mod - arg # Pow2[LongBits - 1]
    <3>1. CASE l
      <4>1. half = Pow2[LongBits - 1]
        BY <3>1 DEF half, Bits
      <4> QED
        BY <1>1, <1>4, <2>3, <3>1, <4>1
    <3>2. CASE ~l
      BY <1>1, <1>4, <1>7, <3>2
    <3> QED
      BY <3>1, <3>2
  <2> QED
    BY <1>1, <2>1, <2>2, <2>3, NegativeText
<1> QED
  BY <1>6, <1>7 DEF mod, half

(* How printed text is taken apart.                                        *)
LEMMA PlainText ==
  ASSUME NEW text \in Seq(Nat), text # <<>>, text[1] # Minus
  PROVE  LET tmp == Append(text, Nul)
         IN  tmp[1] # Minus /\ Front(tmp) = text /\ Len(tmp) = Len(text) + 1
<1> DEFINE tmp == Append(text, Nul)
<1>1. Nul \in Nat
  BY TextAssumption
<1>2. tmp \in Seq(Nat) /\ Len(tmp) = Len(text) + 1 /\ tmp[1] = text[1] /\ Len(text) >= 1
      /\ \A i \in 1 .. Len(text) : tmp[i] = text[i]
  BY <1>1
<1> HIDE DEF tmp
<1>3. Front(tmp) = [i \in 1 .. Len(text) |-> tmp[i]]
  BY <1>2 DEF Front
<1>4. Front(tmp) = text
  BY <1>2, <1>3
<1> QED
  BY <1>2, <1>4 DEF tmp

(* The same for a text that begins with a minus.                           *)
LEMMA MinusText ==
  ASSUME NEW text \in Seq(Nat), text # <<>>
  PROVE  LET tmp == <<Minus>> \o Append(text, Nul)
         IN  tmp[1] = Minus /\ Tail(Front(tmp)) = text /\ Len(tmp) = Len(text) + 2
<1> DEFINE tmp == <<Minus>> \o Append(text, Nul)
<1>1. Nul \in Nat
  BY TextAssumption
<1>2. Append(text, Nul) \in Seq(Nat) /\ Len(Append(text, Nul)) = Len(text) + 1
      /\ \A i \in 1 .. Len(text) : Append(text, Nul)[i] = text[i]
  BY <1>1
<1>3. /\ tmp \in Seq(Nat) /\ Len(tmp) = Len(text) + 2 /\ tmp[1] = Minus
      /\ \A i \in 2 .. Len(text) + 1 : tmp[i] = text[i - 1]
  <2>1. <<Minus>> \in Seq(Nat) /\ Len(<<Minus>>) = 1 /\ <<Minus>>[1] = Minus
    BY DEF Minus
  <2>2. /\ tmp \in Seq(Nat) /\ Len(tmp) = Len(text) + 2 /\ tmp[1] = Minus
        /\ \A i \in 2 .. Len(text) + 1 : tmp[i] = Append(text, Nul)[i - 1]
    BY <1>2, <2>1
  <2>3. \A i \in 2 .. Len(text) + 1 : Append(text, Nul)[i - 1] = text[i - 1]
    BY <1>2
  <2> HIDE DEF tmp
  <2> QED
    BY <2>2, <2>3
<1> HIDE DEF tmp
<1>4. /\ Front(tmp) \in Seq(Nat) /\ Len(Front(tmp)) = Len(text) + 1
      /\ \A i \in 1 .. Len(text) + 1 : Front(tmp)[i] = tmp[i]
  BY <1>3 DEF Front
<1>5. Tail(Front(tmp)) \in Seq(Nat) /\ Len(Tail(Front(tmp))) = Len(text)
      /\ \A i \in 1 .. Len(text) : Tail(Front(tmp))[i] = text[i]
  <2>1. \A i \in 1 .. Len(text) : i + 1 \in 2 .. Len(text) + 1 /\ (i + 1) - 1 = i /\ i + 1 \in 1 .. Len(text) + 1
    OBVIOUS
  <2>2. Tail(Front(tmp)) \in Seq(Nat) /\ Len(Tail(Front(tmp))) = Len(text)
        /\ \A i \in 1 .. Len(text) : Tail(Front(tmp))[i] = Front(tmp)[i + 1]
    BY <1>4
  <2> QED
    BY <1>3, <1>4, <2>1, <2>2
<1>6. Tail(Front(tmp)) = text
  BY <1>5
<1> QED
  BY <1>3, <1>6 DEF tmp

(* What is printed of arg reads back.                                      *)
ReadsBack(u, l, base, arg, tmp) ==
  LET mod == Pow2[Bits(l)]
      negative == tmp[1] = Minus
      text == IF negative THEN Tail(Front(tmp)) ELSE Front(tmp)
      number == IF negative THEN -NumberOf(text, base) ELSE NumberOf(text, base)
  IN  /\ IsNumber(text, base)
      /\ text[1] = 48 => text = <<48>> /\ ~negative
      /\ number % mod = arg
      /\ number \in IF u THEN 0 .. mod - 1 ELSE -(mod \div 2) .. mod \div 2 - 1

(* Every conversion of an argument but that of the least int64 reads back, *)
(* whatever the widths of the types are.                                   *)
LEMMA PrintedReadsBack ==
  ASSUME NEW u \in BOOLEAN, NEW l \in BOOLEAN, NEW base \in Bases,
         NEW arg \in 0 .. Pow2[Bits(l)] - 1, NEW tmp \in printInt(arg, u, l, base),
         ~(l /\ ~u /\ arg = Pow2[LongBits - 1])
  PROVE  ReadsBack(u, l, base, arg, tmp)
<1> USE DEF ReadsBack
<1> DEFINE mod == Pow2[Bits(l)]
           half == Pow2[Bits(l) - 1]
<1>1. /\ mod \in Nat \ {0} /\ half \in Nat \ {0} /\ mod = 2 * half /\ mod \div 2 = half
  BY BitsAre
<1>2. arg \in Nat /\ arg < mod
  BY <1>1
<1>3. CASE u \/ arg < half
  <2> DEFINE text == NumberText(arg, base)
  <2>1. tmp = Append(text, Nul)
    BY <1>3, PrintedIs
  <2>2. Reads(text, base, arg)
    BY <1>2, NumberReads
  <2> HIDE DEF text
  <2>3. /\ text \in Seq(Nat) /\ text # <<>> /\ text[1] # Minus /\ IsNumber(text, base)
        /\ NumberOf(text, base) = arg /\ (text[1] = 48 => text = <<48>>)
    BY <2>2 DEF Reads, IsNumber
  <2>4. tmp[1] # Minus /\ Front(tmp) = text
    BY <2>1, <2>3, PlainText
  <2> HIDE DEF mod, half
  <2>5. arg % mod = arg /\ arg \in 0 .. mod - 1
    BY <1>1, <1>2
  <2>6. ~u => arg \in -(mod \div 2) .. mod \div 2 - 1
    BY <1>1, <1>2, <1>3
  <2> QED
    BY <2>3, <2>4, <2>5, <2>6 DEF mod
<1>4. CASE ~(u \/ arg < half)
  <2> DEFINE value == mod - arg
             text == NumberText(value, base)
  <2>1. ~u /\ arg >= half
    BY <1>1, <1>2, <1>4
  <2>2. value \in Nat \ {0} /\ tmp = <<Minus>> \o Append(text, Nul)
    BY <2>1, PrintedIs
  <2>3. Reads(text, base, value) /\ text[1] # 48
    BY <2>2, NumberReads
  <2> HIDE DEF text
  <2>4. text \in Seq(Nat) /\ text # <<>> /\ IsNumber(text, base) /\ NumberOf(text, base) = value /\ text[1] # 48
    BY <2>3 DEF Reads, IsNumber
  <2>5. tmp[1] = Minus /\ Tail(Front(tmp)) = text
    BY <2>2, <2>4, MinusText
  <2> HIDE DEF mod, half
  <2>6. -value = arg - mod
    BY <1>1, <1>2
  <2>7. -value % mod = arg
    <3>1. (arg - mod) % mod = arg
      BY <1>1, <1>2
    <3> QED
      BY <2>6, <3>1
  <2>8. -value \in -(mod \div 2) .. mod \div 2 - 1
    BY <1>1, <1>2, <2>1, <2>6
  <2> HIDE DEF value
  <2> QED
    BY <2>1, <2>4, <2>5, <2>7, <2>8 DEF mod
<1> QED
  BY <1>3, <1>4

(* Every conversion but that of an int64 in binary fits into tmp[]: an int *)
(* has a digit for every bit at most, and an int64 in decimal one for      *)
(* every three.                                                            *)
LEMMA PrintedFits ==
  ASSUME NEW u \in BOOLEAN, NEW l \in BOOLEAN, NEW base \in Bases,
         NEW arg \in 0 .. Pow2[Bits(l)] - 1, NEW tmp \in printInt(arg, u, l, base),
         ~(l /\ base = 2)
  PROVE  Len(tmp) \in Nat /\ Len(tmp) <= TmpSize
<1> DEFINE mod == Pow2[Bits(l)]
           half == Pow2[Bits(l) - 1]
<1>1. /\ mod \in Nat \ {0} /\ half \in Nat \ {0} /\ mod = 2 * half
      /\ Bits(l) \in Nat /\ Bits(l) <= LongBits /\ (~l => Bits(l) = IntBits)
  BY BitsAre
<1>2. arg \in Nat /\ arg < mod
  BY <1>1
<1>3. /\ TmpSize \in Nat /\ IntBits \in Nat \ {0} /\ IntBits + 2 <= TmpSize
      /\ LongBits \in Nat /\ IntBits < LongBits /\ LongBits <= 3 * (TmpSize - 2)
  BY TextAssumption
<1>4. ASSUME NEW value \in Nat, value < mod
      PROVE  Count(value, base) \in Nat /\ Count(value, base) + 2 <= TmpSize
  <2>1. Count(value, base) \in Nat
    BY DigitsAre
  <2>2. CASE ~l
    <3>1. Count(value, base) <= IntBits
      BY <1>1, <1>4, <2>2, CountByBits
    <3> QED
      BY <1>3, <2>1, <3>1
  <2>3. CASE l
    <3>1. base \in {10, 16}
      BY <2>3 DEF Bases
    <3>2. TmpSize - 2 \in Nat /\ 3 * (TmpSize - 2) \in Nat /\ Bits(l) <= 3 * (TmpSize - 2)
      BY <1>1, <1>3
    <3>3. Pow2[Bits(l)] <= Pow2[3 * (TmpSize - 2)]
      BY <1>1, <3>2, PowGrows
    <3>4. Pow2[3 * (TmpSize - 2)] \in Nat
      BY <3>2, PowIsPositive
    <3>5. value < Pow2[3 * (TmpSize - 2)]
      BY <1>1, <1>4, <3>3, <3>4
    <3>6. Count(value, base) <= TmpSize - 2
      BY <3>1, <3>2, <3>5, CountByThreeBits
    <3> QED
      BY <1>3, <2>1, <3>6
  <2> QED
    BY <2>2, <2>3
<1>5. CASE u \/ arg < half
  <2> DEFINE text == NumberText(arg, base)
  <2>1. tmp = Append(text, Nul)
    BY <1>5, PrintedIs
  <2>2. text \in Seq(Nat) /\ Len(text) = IF arg = 0 THEN 1 ELSE Count(arg, base)
    BY <1>2, NumberReads DEF Reads
  <2> HIDE DEF text
  <2>3. Len(tmp) = Len(text) + 1
    BY <2>1, <2>2
  <2> QED
    BY <1>2, <1>3, <1>4, <2>2, <2>3
<1>6. CASE ~(u \/ arg < half)
  <2> DEFINE value == mod - arg
  <2>1. ~u /\ arg >= half
    BY <1>1, <1>2, <1>6
  <2>2. value \in Nat \ {0} /\ tmp \in intToString(-value, base)
    BY <2>1, PrintedIs
  <2>3. value < mod
    BY <1>1, <1>2, <2>1
  <2> HIDE DEF value
  <2>4. Len(tmp) = Count(value, base) + 2
    BY <2>2, NegativeLength
  <2> QED
    BY <1>4, <2>2, <2>3, <2>4
<1> QED
  BY <1>5, <1>6

(* A hexadecimal digit has four bits.                                      *)
LEMMA PowBySixteen ==
  ASSUME NEW n \in Nat
  PROVE  Pow2[n + 4] = 16 * Pow2[n]
<1>1. n + 1 \in Nat /\ n + 2 \in Nat /\ n + 3 \in Nat
      /\ (n + 1) + 1 = n + 2 /\ (n + 2) + 1 = n + 3 /\ (n + 3) + 1 = n + 4
  OBVIOUS
<1>2. /\ Pow2[n + 1] = 2 * Pow2[n] /\ Pow2[n + 2] = 2 * Pow2[n + 1] /\ Pow2[n + 3] = 2 * Pow2[n + 2]
      /\ Pow2[n + 4] = 2 * Pow2[n + 3] /\ Pow2[n] \in Nat
  BY <1>1, PowTurns, PowIsPositive
<1> QED
  BY <1>2

(* A byte is its two halves.                                               *)
LEMMA Halves ==
  ASSUME NEW y \in Nat
  PROVE  (y % 256) \div 16 = (y \div 16) % 16 /\ (y % 256) % 16 = y % 16
OBVIOUS

(* Dividing by 16 * m is dividing by m and then by 16, and the remainder   *)
(* is the digit in between.                                                *)
LEMMA DivTwice ==
  ASSUME NEW y \in Nat, NEW m \in Nat \ {0}
  PROVE  /\ y \div (16 * m) = (y \div m) \div 16 /\ y \div m \in Nat
         /\ y \div m = (y \div (16 * m)) * 16 + ((y \div m) % 16)
<1>1. y \div (16 * m) = (y \div m) \div 16 /\ y \div m \in Nat
  OBVIOUS
<1>2. \A q \in Nat : q = (q \div 16) * 16 + (q % 16)
  OBVIOUS
<1> QED
  BY <1>1, <1>2

(* printPtr() writes all the digits of the pointer: after n of them, what  *)
(* has been read is the pointer without the bits of the others.            *)
LEMMA PointerReads ==
  ASSUME NEW ptr \in Ptr
  PROVE  /\ IsNumber(printPtr(ptr), 16) /\ Len(printPtr(ptr)) = 2 * PtrBytes
         /\ NumberOf(printPtr(ptr), 16) = ptr
<1> DEFINE count == 2 * PtrBytes
           power(k) == Pow2[4 * (count - k)]
           read(k) == ptr \div power(k)
           digit(k) == read(k) % 16
           text == printPtr(ptr)
<1>1. /\ PtrBytes \in Nat \ {0} /\ count \in Nat \ {0} /\ ptr \in Nat /\ ptr < Pow2[8 * PtrBytes]
      /\ Pow2[8 * PtrBytes] \in Nat
  <2>1. PtrBytes \in Nat \ {0} /\ ptr \in 0 .. Pow2[8 * PtrBytes] - 1 /\ 8 * PtrBytes \in Nat
    BY TextAssumption
  <2>2. Pow2[8 * PtrBytes] \in Nat
    BY <2>1, PowIsPositive
  <2> QED
    BY <2>1, <2>2
<1>2. \A k \in 0 .. count : power(k) \in Nat \ {0} /\ read(k) \in Nat
  <2> TAKE k \in 0 .. count
  <2>1. 4 * (count - k) \in Nat
    BY <1>1
  <2>2. power(k) \in Nat \ {0}
    BY <2>1, PowIsPositive
  <2> HIDE DEF power
  <2> QED
    BY <1>1, <2>2, DivTwice
<1>3. \A k \in 1 .. count : text[k] = CharOf(digit(k)) /\ digit(k) \in 0 .. 15
  <2> TAKE k \in 1 .. count
  <2> DEFINE i == PtrBytes - 1 - (k - 1) \div 2
             y == ptr \div Pow2[8 * i]
             byte == y % 256
  <2>1. text[k] = CharOf(IF k % 2 = 1 THEN byte \div 16 ELSE byte % 16)
    BY DEF printPtr
  <2>2. 8 * i \in Nat /\ (k % 2 = 1 => 4 * (count - k) = 8 * i + 4) /\ (k % 2 # 1 => 4 * (count - k) = 8 * i)
    BY <1>1
  <2> HIDE DEF i
  <2>3. Pow2[8 * i] \in Nat \ {0} /\ Pow2[8 * i + 4] = 16 * Pow2[8 * i]
    BY <2>2, PowBySixteen, PowIsPositive
  <2>4. y \in Nat /\ ptr \div (16 * Pow2[8 * i]) = y \div 16
    BY <1>1, <2>3, DivTwice
  <2>5. byte \div 16 = (y \div 16) % 16 /\ byte % 16 = y % 16
    BY <2>4, Halves
  <2>6. CASE k % 2 = 1
    BY <2>1, <2>2, <2>3, <2>4, <2>5, <2>6
  <2>7. CASE k % 2 # 1
    <3>1. read(k) = y
      BY <2>2, <2>7
    <3> QED
      BY <2>1, <2>4, <2>5, <2>7, <3>1
  <2>8. digit(k) \in 0 .. 15
    <3>1. k \in 0 .. count
      BY <1>1
    <3>2. read(k) \in Nat
      BY <1>2, <3>1
    <3> HIDE DEF read
    <3> QED
      BY <3>2
  <2> QED
    BY <2>6, <2>7, <2>8
<1>4. DOMAIN text = 1 .. count /\ text = [k \in 1 .. count |-> text[k]]
  BY DEF printPtr
<1>5. \A k \in 0 .. count - 1 : read(k + 1) = read(k) * 16 + digit(k + 1)
  <2> TAKE k \in 0 .. count - 1
  <2>1. 4 * (count - k) = 4 * (count - (k + 1)) + 4 /\ 4 * (count - (k + 1)) \in Nat /\ k + 1 \in 0 .. count
    BY <1>1
  <2>2. power(k) = 16 * power(k + 1)
    BY <2>1, PowBySixteen
  <2>3. power(k + 1) \in Nat \ {0}
    BY <1>2, <2>1
  <2> HIDE DEF power
  <2> QED
    BY <1>1, <2>2, <2>3, DivTwice
<1>6. read(0) = 0 /\ read(count) = ptr
  <2>1. 4 * (count - 0) = 8 * PtrBytes /\ 4 * (count - count) = 0
    BY <1>1
  <2>2. power(0) = Pow2[8 * PtrBytes] /\ power(count) = 1
    BY <2>1, PowTurns
  <2> HIDE DEF power
  <2>3. ptr \div Pow2[8 * PtrBytes] = 0 /\ ptr \div 1 = ptr
    BY <1>1
  <2> QED
    BY <2>2, <2>3
<1> HIDE DEF digit, read, power, text, count
<1>7. \A k \in 1 .. count : /\ text[k] \in (48 .. 57) \cup (65 .. 70) /\ text[k] \in Nat
                            /\ DigitOf(text[k]) = digit(k) /\ DigitOf(text[k]) < 16
  <2> TAKE k \in 1 .. count
  <2>1. text[k] = CharOf(digit(k)) /\ digit(k) \in 0 .. 15
    BY <1>3
  <2>2. CharOf(digit(k)) \in (48 .. 57) \cup (65 .. 70) /\ CharOf(digit(k)) \in Nat
        /\ DigitOf(CharOf(digit(k))) = digit(k)
    BY <2>1, CharIsDigit
  <2> QED
    BY <2>1, <2>2
<1>8. text \in Seq(Nat) /\ Len(text) = count /\ text # <<>>
  <2>1. text \in [1 .. count -> Nat] /\ count \in Nat \ {0}
    BY <1>1, <1>4, <1>7
  <2> QED
    BY <2>1
<1>9. NumberOf(text, 16) = ptr
  <2> DEFINE reads == [k \in 0 .. count |-> read(k)]
  <2>1. reads[0] = 0 /\ reads[count] = ptr
    BY <1>1, <1>6
  <2>2. \A k \in 0 .. Len(text) - 1 : reads[k + 1] = reads[k] * 16 + DigitOf(text[k + 1])
    <3> TAKE k \in 0 .. Len(text) - 1
    <3>1. k \in 0 .. count - 1 /\ k \in 0 .. count /\ k + 1 \in 0 .. count /\ k + 1 \in 1 .. count
      BY <1>1, <1>8
    <3> QED
      BY <1>5, <1>7, <3>1
  <2> HIDE DEF reads
  <2>3. Len(text) \in Nat
    BY <1>1, <1>8
  <2>4. NumberOf(text, 16) = reads[Len(text)]
    BY <2>1, <2>2, <2>3, NumberIs
  <2> QED
    BY <1>8, <2>1, <2>4
<1>10. IsNumber(text, 16)
  BY <1>4, <1>7, <1>8 DEF IsNumber
<1> QED
  BY <1>8, <1>9, <1>10 DEF text, count

-----------------------------------------------------------------------------
LineEnds(input, maxCharCount, c, d, i) == i > maxCharCount \/ input[i] = NewLine
LineLoop == INSTANCE Loops WITH Start <- NoStart, Turn <- NoTurn, Ends <- LineEnds

(* readLine() stops at the first newline, or when there is no more room.   *)
LEMMA LineEndIs ==
  ASSUME NEW input, NEW max \in Nat
  PROVE  LET newlines == {i \in 1 .. max : input[i] = NewLine}
         IN  /\ LineEnd(input, max) \in 1 .. max + 1
             /\ newlines = {} => LineEnd(input, max) = max + 1
             /\ newlines # {} => LineEnd(input, max) = Min(newlines) /\ LineEnd(input, max) <= max
<1> DEFINE end == LineLoop!Stop(input, max, 0, 0)[1]
           newlines == {i \in 1 .. max : input[i] = NewLine}
<1>1. LineEnd(input, max) = end
  BY DEF LineEnd, LineLoop!Stop, LineEnds
<1> HIDE DEF end
<1>2. /\ end \in 1 .. max + 1 /\ LineEnds(input, max, 0, 0, end)
      /\ \A i \in 1 .. end - 1 : ~LineEnds(input, max, 0, 0, i)
  <2>1. LineEnds(input, max, 0, 0, max + 1) /\ max + 1 \in Nat /\ 1 <= max + 1
    BY DEF LineEnds
  <2> QED
    BY <2>1, LineLoop!StopIsFirst DEF end
<1>3. \A i \in 1 .. end - 1 : input[i] # NewLine
  BY <1>2 DEF LineEnds
<1>4. end <= max => input[end] = NewLine
  BY <1>2 DEF LineEnds
<1>5. CASE end <= max
  <2>1. end \in newlines /\ newlines \subseteq Int /\ \A i \in newlines : end <= i
    BY <1>2, <1>3, <1>4, <1>5
  <2> HIDE DEF newlines
  <2>2. Min(newlines) = end
    BY <2>1, MinIs
  <2> QED
    BY <1>1, <1>2, <1>5, <2>1, <2>2 DEF newlines
<1>6. CASE ~(end <= max)
  <2>1. end = max + 1 /\ newlines = {}
    BY <1>2, <1>3, <1>6
  <2> QED
    BY <1>1, <2>1
<1> QED
  BY <1>5, <1>6

(* A concatenation, element by element.                                    *)
LEMMA Concatenated ==
  ASSUME NEW S, NEW s \in Seq(S), NEW t \in Seq(S)
  PROVE  s \o t = [i \in 1 .. Len(s) + Len(t) |-> IF i <= Len(s) THEN s[i] ELSE t[i - Len(s)]]
<1> DEFINE whole == [i \in 1 .. Len(s) + Len(t) |-> IF i <= Len(s) THEN s[i] ELSE t[i - Len(s)]]
<1>1. Len(s) \in Nat /\ Len(t) \in Nat
  OBVIOUS
<1>2. \A i \in 1 .. Len(s) + Len(t) : whole[i] \in S
  <2> TAKE i \in 1 .. Len(s) + Len(t)
  <2>1. i <= Len(s) => i \in 1 .. Len(s)
    BY <1>1
  <2>2. ~(i <= Len(s)) => i - Len(s) \in 1 .. Len(t)
    BY <1>1
  <2> QED
    BY <2>1, <2>2
<1>3. whole \in [1 .. Len(s) + Len(t) -> S]
  BY <1>2
<1>4. whole \in Seq(S) /\ Len(whole) = Len(s) + Len(t)
  <2> HIDE DEF whole
  <2> QED
    BY <1>1, <1>3
<1>5. \A i \in 1 .. Len(s) + Len(t) : whole[i] = (s \o t)[i]
  OBVIOUS
<1> HIDE DEF whole
<1>6. s \o t \in Seq(S) /\ Len(s \o t) = Len(s) + Len(t)
  OBVIOUS
<1>7. s \o t = whole
  <2> DEFINE both == s \o t
  <2>1. both \in Seq(S) /\ Len(both) = Len(whole) /\ \A i \in 1 .. Len(whole) : both[i] = whole[i]
    BY <1>4, <1>5, <1>6
  <2> HIDE DEF both
  <2>2. both = whole
    BY <1>4, <2>1, SeqEqual
  <2> QED
    BY <2>2 DEF both
<1> QED
  BY <1>7 DEF whole

(* readLine() leaves in dest the line, its '\0' if it read a newline, and  *)
(* what was there.                                                         *)
LEMMA LineIs ==
  ASSUME NEW max \in 0 .. MaxInput,
         NEW input \in [1 .. MaxInput -> Letter \cup {NewLine}],
         NEW dest \in [1 .. MaxInput + 1 -> Letter]
  PROVE  LET newlines == {i \in 1 .. max : input[i] = NewLine}
             line == SubSeq(input, 1, (IF newlines = {} THEN max ELSE Min(newlines) - 1))
         IN  readLine(dest, input, max)
               = line \o (IF newlines = {} THEN <<>> ELSE <<Nul>>)
                      \o SubSeq(dest, (IF newlines = {} THEN max ELSE Min(newlines)) + 1, Len(dest))
<1> DEFINE newlines == {i \in 1 .. max : input[i] = NewLine}
           end == LineEnd(input, max)
           S == Letter \cup {NewLine, Nul}
           size == MaxInput + 1
<1>1. MaxInput \in Nat /\ max \in Nat /\ max <= MaxInput
  BY TextAssumption
<1>2. /\ end \in 1 .. max + 1 /\ (newlines = {} => end = max + 1)
      /\ (newlines # {} => end = Min(newlines) /\ end <= max)
  BY <1>1, LineEndIs
<1>3. readLine(dest, input, max) = [i \in 1 .. size |->
         IF i < end THEN input[i] ELSE IF i = end /\ end <= max THEN Nul ELSE dest[i]]
  BY DEF readLine
<1>4. Nul \in S /\ input \in [1 .. MaxInput -> S] /\ dest \in [1 .. size -> S] /\ size \in Nat
  BY <1>1
<1> HIDE DEF newlines, end, S, size
<1>5. /\ input \in Seq(S) /\ Len(input) = MaxInput /\ dest \in Seq(S) /\ Len(dest) = size
  BY <1>1, <1>4
<1>6. size = MaxInput + 1
  BY DEF size
<1>7. CASE newlines = {}
  <2> DEFINE line == SubSeq(input, 1, max)
             rest == SubSeq(dest, max + 1, Len(dest))
  <2>1. line \in Seq(S) /\ Len(line) = max /\ \A i \in 1 .. max : line[i] = input[i]
    BY <1>1, <1>5
  <2>2. rest \in Seq(S) /\ Len(rest) = size - max /\ \A i \in 1 .. size - max : rest[i] = dest[max + i]
    BY <1>1, <1>4, <1>5, <1>6
  <2> HIDE DEF line, rest
  <2>3. line \o <<>> = line
    BY <2>1
  <2>4. line \o rest = [i \in 1 .. size |-> IF i <= max THEN line[i] ELSE rest[i - max]]
    <3>1. size = Len(line) + Len(rest)
      BY <1>1, <1>4, <2>1, <2>2
    <3>2. line \o rest = [i \in 1 .. Len(line) + Len(rest) |->
                           IF i <= Len(line) THEN line[i] ELSE rest[i - Len(line)]]
      BY <2>1, <2>2, Concatenated
    <3> QED
      BY <2>1, <3>1, <3>2
  <2>5. \A i \in 1 .. size :
          (IF i <= max THEN line[i] ELSE rest[i - max])
            = IF i < end THEN input[i] ELSE IF i = end /\ end <= max THEN Nul ELSE dest[i]
    <3> TAKE i \in 1 .. size
    <3>1. end = max + 1 /\ ~(end <= max)
      BY <1>1, <1>2, <1>7
    <3>2. CASE i <= max
      <4>1. i \in 1 .. max /\ i < end
        BY <1>1, <1>4, <3>1, <3>2
      <4> QED
        BY <2>1, <3>2, <4>1
    <3>3. CASE ~(i <= max)
      <4>1. i - max \in 1 .. size - max /\ max + (i - max) = i /\ ~(i < end)
        BY <1>1, <1>4, <3>1, <3>3
      <4> QED
        BY <2>2, <3>1, <3>3, <4>1
    <3> QED
      BY <3>2, <3>3
  <2>6. readLine(dest, input, max) = (line \o <<>>) \o rest
    BY <1>3, <2>3, <2>4, <2>5
  <2> QED
    BY <1>7, <2>6 DEF newlines, line, rest
<1>8. CASE newlines # {}
  <2> DEFINE line == SubSeq(input, 1, end - 1)
             rest == SubSeq(dest, end + 1, Len(dest))
             stored == line \o <<Nul>>
  <2>0. end \in 1 .. max /\ end = Min(newlines)
    BY <1>1, <1>2, <1>8
  <2>1. line \in Seq(S) /\ Len(line) = end - 1 /\ \A i \in 1 .. end - 1 : line[i] = input[i]
    BY <1>1, <1>5, <2>0
  <2>2. rest \in Seq(S) /\ Len(rest) = size - end /\ \A i \in 1 .. size - end : rest[i] = dest[end + i]
    BY <1>1, <1>4, <1>5, <1>6, <2>0
  <2> HIDE DEF line, rest
  <2>3. /\ stored \in Seq(S) /\ Len(stored) = end /\ stored[end] = Nul
        /\ \A i \in 1 .. end - 1 : stored[i] = line[i]
    BY <1>1, <1>4, <2>0, <2>1
  <2> HIDE DEF stored
  <2>4. stored \o rest = [i \in 1 .. size |-> IF i <= end THEN stored[i] ELSE rest[i - end]]
    <3>1. size = Len(stored) + Len(rest)
      BY <1>1, <1>4, <2>0, <2>2, <2>3
    <3>2. stored \o rest = [i \in 1 .. Len(stored) + Len(rest) |->
                             IF i <= Len(stored) THEN stored[i] ELSE rest[i - Len(stored)]]
      BY <2>2, <2>3, Concatenated
    <3> QED
      BY <2>3, <3>1, <3>2
  <2>5. \A i \in 1 .. size :
          (IF i <= end THEN stored[i] ELSE rest[i - end])
            = IF i < end THEN input[i] ELSE IF i = end /\ end <= max THEN Nul ELSE dest[i]
    <3> TAKE i \in 1 .. size
    <3>1. end <= max
      BY <1>1, <2>0
    <3>2. CASE i < end
      <4>1. i \in 1 .. end - 1 /\ i <= end
        BY <1>1, <1>4, <2>0, <3>2
      <4> QED
        BY <2>1, <2>3, <3>2, <4>1
    <3>3. CASE i = end
      <4>1. i <= end /\ ~(i < end)
        BY <1>1, <1>4, <2>0, <3>3
      <4> QED
        BY <2>3, <3>1, <3>3, <4>1
    <3>4. CASE i > end
      <4>1. i - end \in 1 .. size - end /\ end + (i - end) = i /\ ~(i <= end) /\ ~(i < end) /\ i # end
        BY <1>1, <1>4, <2>0, <3>4
      <4> QED
        BY <2>2, <4>1
    <3> QED
      BY <1>1, <1>4, <2>0, <3>2, <3>3, <3>4
  <2>6. readLine(dest, input, max) = stored \o rest
    BY <1>3, <2>4, <2>5
  <2> QED
    BY <1>8, <2>0, <2>6 DEF newlines, stored, line, rest
<1> QED
  BY <1>7, <1>8

-----------------------------------------------------------------------------
(* The characters of formats.                                              *)
LEMMA CharsAre ==
  Char = {"d", "i", "x", "b", "c", "s", "B", "p", "u", "l", "%", "\n"}
BY BasesAre DEF Char, PlainSpec

(* A character before a text is the head of a text that goes on with it.   *)
LEMMA ConsIs ==
  ASSUME NEW c \in Char, NEW rest \in Seq(Char)
  PROVE  /\ Cons(c, rest) \in Seq(Char) /\ Cons(c, rest) # <<>>
         /\ Head(Cons(c, rest)) = c /\ Tail(Cons(c, rest)) = rest
<1> DEFINE str == Cons(c, rest)
           S == Char
<1>0. c \in S /\ rest \in Seq(S)
  OBVIOUS
<1> HIDE DEF S
<1>1. str \in Seq(S) /\ Len(str) = Len(rest) + 1 /\ Len(rest) \in Nat
  BY <1>0 DEF Cons
<1>2. str[1] = c /\ \A i \in 1 .. Len(rest) : str[i + 1] = rest[i]
  BY <1>0 DEF Cons
<1> HIDE DEF str
<1>3. str # <<>> /\ Head(str) = c
  BY <1>1, <1>2
<1>4. Tail(str) \in Seq(S) /\ Len(Tail(str)) = Len(rest) /\ \A i \in 1 .. Len(rest) : Tail(str)[i] = str[i + 1]
  BY <1>1
<1>5. Tail(str) = rest
  BY <1>0, <1>2, <1>4
<1> QED
  BY <1>1, <1>3, <1>5 DEF str, S

(* A text that is not empty is its head before its tail.                   *)
LEMMA ConsOfHead ==
  ASSUME NEW str \in Seq(Char), str # <<>>
  PROVE  Head(str) \in Char /\ Tail(str) \in Seq(Char) /\ str = Cons(Head(str), Tail(str))
<1> DEFINE S == Char
<1>0. str \in Seq(S) /\ Len(str) >= 1
  OBVIOUS
<1> HIDE DEF S
<1>1. Head(str) \in S /\ Tail(str) \in Seq(S)
  BY <1>0
<1>2. str = <<Head(str)>> \o Tail(str)
  BY <1>0
<1> QED
  BY <1>1, <1>2 DEF S, Cons

(* A text that starts with a character is read past it.                    *)
LEMMA StartsWith ==
  ASSUME NEW c \in Char, NEW rest \in Seq(Char)
  PROVE  Starts(Cons(c, rest), c) = TRUE /\ Skip(Cons(c, rest), c) = rest
<1>1. Cons(c, rest) # <<>> /\ Head(Cons(c, rest)) = c /\ Tail(Cons(c, rest)) = rest
  BY ConsIs
<1> QED
  BY <1>1 DEF Starts, Skip

(* A text that starts with another character is read on from there.        *)
LEMMA StartsWithOther ==
  ASSUME NEW c \in Char, NEW rest \in Seq(Char), NEW x, c # x
  PROVE  Starts(Cons(c, rest), x) = FALSE /\ Skip(Cons(c, rest), x) = Cons(c, rest)
<1>1. Cons(c, rest) # <<>> /\ Head(Cons(c, rest)) = c
  BY ConsIs
<1> QED
  BY <1>1 DEF Starts, Skip

(* An empty text starts with no character.                                 *)
LEMMA StartsEmpty ==
  ASSUME NEW x
  PROVE  Starts(<<>>, x) = FALSE /\ Skip(<<>>, x) = <<>>
BY DEF Starts, Skip

(* The modifiers of a conversion, before what follows them.                *)
LongBefore(l, rest) == IF l THEN Cons("l", rest) ELSE rest
FlagsBefore(u, l, rest) == IF u THEN Cons("u", LongBefore(l, rest)) ELSE LongBefore(l, rest)

FlagsRead(u, l, spec, rest, after) ==
  /\ after \in Seq(Char)
  /\ Starts(after, "%") = FALSE /\ Starts(after, "u") = u
  /\ Starts(Skip(after, "u"), "l") = l
  /\ Skip(Skip(after, "u"), "l") = Cons(spec, rest)

(* vprintf() reads the modifiers that were written, and goes on at the     *)
(* conversion, which is not a modifier itself.                             *)
LEMMA FlagsAreRead ==
  \A u, l \in BOOLEAN : \A spec \in Char \ {"u", "l", "%"}, rest \in Seq(Char) :
    FlagsRead(u, l, spec, rest, FlagsBefore(u, l, Cons(spec, rest)))
<1> SUFFICES ASSUME NEW u \in BOOLEAN, NEW l \in BOOLEAN, NEW spec \in Char \ {"u", "l", "%"}, NEW rest \in Seq(Char)
             PROVE  FlagsRead(u, l, spec, rest, FlagsBefore(u, l, Cons(spec, rest)))
  BY Zenon
<1> DEFINE str == Cons(spec, rest)
           long == Cons("l", str)
<1>1. "u" \in Char /\ "l" \in Char /\ spec \in Char /\ "l" # "u" /\ "u" # "%" /\ "l" # "%"
  BY CharsAre
<1>2. /\ str \in Seq(Char) /\ Starts(str, "%") = FALSE /\ Starts(str, "u") = FALSE
      /\ Skip(str, "u") = str /\ Starts(str, "l") = FALSE /\ Skip(str, "l") = str
  <2>1. str \in Seq(Char)
    BY <1>1, ConsIs
  <2>2. Starts(str, "%") = FALSE
    BY <1>1, StartsWithOther
  <2>3. Starts(str, "u") = FALSE /\ Skip(str, "u") = str
    BY <1>1, StartsWithOther
  <2>4. Starts(str, "l") = FALSE /\ Skip(str, "l") = str
    BY <1>1, StartsWithOther
  <2> QED
    BY <2>1, <2>2, <2>3, <2>4
<1> HIDE DEF str
<1>3. /\ long \in Seq(Char) /\ Starts(long, "%") = FALSE /\ Starts(long, "u") = FALSE
      /\ Skip(long, "u") = long /\ Starts(long, "l") = TRUE /\ Skip(long, "l") = str
  <2>1. long \in Seq(Char)
    BY <1>1, <1>2, ConsIs
  <2>2. Starts(long, "%") = FALSE
    BY <1>1, <1>2, StartsWithOther
  <2>3. Starts(long, "u") = FALSE /\ Skip(long, "u") = long
    BY <1>1, <1>2, StartsWithOther
  <2>4. Starts(long, "l") = TRUE /\ Skip(long, "l") = str
    BY <1>1, <1>2, StartsWith
  <2> QED
    BY <2>1, <2>2, <2>3, <2>4
<1> HIDE DEF long
<1>4. ASSUME NEW next \in Seq(Char)
      PROVE  /\ Cons("u", next) \in Seq(Char) /\ Starts(Cons("u", next), "%") = FALSE
             /\ Starts(Cons("u", next), "u") = TRUE /\ Skip(Cons("u", next), "u") = next
  <2>1. Cons("u", next) \in Seq(Char)
    BY <1>1, ConsIs
  <2>2. Starts(Cons("u", next), "%") = FALSE
    BY <1>1, StartsWithOther
  <2>3. Starts(Cons("u", next), "u") = TRUE /\ Skip(Cons("u", next), "u") = next
    BY <1>1, StartsWith
  <2> QED
    BY <2>1, <2>2, <2>3
<1>5. LongBefore(l, str) = IF l THEN long ELSE str
  BY DEF LongBefore, long
<1>6. CASE u = TRUE /\ l = TRUE
  BY <1>2, <1>3, <1>4, <1>5, <1>6 DEF FlagsBefore, FlagsRead, str
<1>7. CASE u = TRUE /\ l = FALSE
  BY <1>2, <1>3, <1>4, <1>5, <1>7 DEF FlagsBefore, FlagsRead, str
<1>8. CASE u = FALSE /\ l = TRUE
  BY <1>2, <1>3, <1>5, <1>8 DEF FlagsBefore, FlagsRead, str
<1>9. CASE u = FALSE /\ l = FALSE
  BY <1>2, <1>3, <1>5, <1>9 DEF FlagsBefore, FlagsRead, str
<1> QED
  BY <1>6, <1>7, <1>8, <1>9

(* Whatever follows a % is modifiers and what comes after them.            *)
LEMMA FlagsAreThere ==
  ASSUME NEW after \in Seq(Char)
  PROVE  LET spec == Skip(Skip(after, "u"), "l")
         IN  /\ spec \in Seq(Char)
             /\ Starts(after, "u") \in BOOLEAN /\ Starts(Skip(after, "u"), "l") \in BOOLEAN
             /\ after = FlagsBefore(Starts(after, "u"), Starts(Skip(after, "u"), "l"), spec)
<1>1. ASSUME NEW str \in Seq(Char), NEW x \in Char
      PROVE  /\ Skip(str, x) \in Seq(Char) /\ Starts(str, x) \in BOOLEAN
             /\ str = IF Starts(str, x) THEN Cons(x, Skip(str, x)) ELSE Skip(str, x)
  <2>1. CASE str = <<>>
    <3>1. <<>> \in Seq(Char)
      OBVIOUS
    <3> QED
      BY <2>1, <3>1, StartsEmpty
  <2>2. CASE str # <<>>
    <3>1. Head(str) \in Char /\ Tail(str) \in Seq(Char) /\ str = Cons(Head(str), Tail(str))
      BY <2>2, ConsOfHead
    <3>2. PICK c \in Char, rest \in Seq(Char) : str = Cons(c, rest)
      BY <3>1
    <3>3. CASE c = x
      <4>1. Starts(str, x) = TRUE /\ Skip(str, x) = rest
        BY <3>2, <3>3, StartsWith
      <4> QED
        BY <3>2, <3>3, <4>1
    <3>4. CASE c # x
      <4>1. Starts(str, x) = FALSE /\ Skip(str, x) = str
        BY <3>2, <3>4, StartsWithOther
      <4> QED
        BY <4>1
    <3> QED
      BY <3>3, <3>4
  <2> QED
    BY <2>1, <2>2
<1>2. "u" \in Char /\ "l" \in Char
  BY CharsAre
<1> QED
  BY <1>1, <1>2 DEF FlagsBefore, LongBefore

FlagsOf(u, l) == IF u THEN IF l THEN <<"u", "l">> ELSE <<"u">> ELSE IF l THEN <<"l">> ELSE <<>>
ConversionText(u, l, spec) == <<"%">> \o FlagsOf(u, l) \o <<spec>>

(* A sequence of two, as a concatenation.                                  *)
LEMMA Pair ==
  ASSUME NEW S, NEW x \in S, NEW y \in S
  PROVE  <<x, y>> = <<x>> \o <<y>>
<1> DEFINE s == <<x>>
           t == <<y>>
           st == s \o t
           xy == <<x, y>>
<1>1. s \in Seq(S) /\ t \in Seq(S) /\ xy \in Seq(S)
  OBVIOUS
<1>2. Len(xy) = 2 /\ xy[1] = x /\ xy[2] = y /\ Len(s) = 1 /\ Len(t) = 1 /\ s[1] = x /\ t[1] = y
  OBVIOUS
<1> HIDE DEF s, t, xy
<1>3. st \in Seq(S) /\ Len(st) = 2 /\ st[1] = x /\ st[2] = y
  <2>1. /\ st \in Seq(S) /\ Len(st) = Len(s) + Len(t)
        /\ \A i \in 1 .. Len(s) + Len(t) : st[i] = IF i <= Len(s) THEN s[i] ELSE t[i - Len(s)]
    BY <1>1, ConcatProperties
  <2>2. Len(s) + Len(t) = 2 /\ 1 \in 1 .. 2 /\ 2 \in 1 .. 2 /\ 2 - Len(s) = 1
    BY <1>2
  <2> HIDE DEF st
  <2> QED
    BY <1>2, <2>1, <2>2
<1> HIDE DEF st
<1>4. \A i \in 1 .. Len(xy) : xy[i] = st[i]
  BY <1>2, <1>3
<1>5. xy = st
  BY <1>1, <1>2, <1>3, <1>4, SeqEqual
<1> QED
  BY <1>5 DEF s, t, xy, st

(* The texts of the conversions are those with the modifiers of u and l.   *)
LEMMA ConversionTexts ==
  /\ \A f \in Flags, spec \in Char : \E u, l \in BOOLEAN :
       f = FlagsOf(u, l) /\ <<"%">> \o f \o <<spec>> = ConversionText(u, l, spec)
  /\ \A u, l \in BOOLEAN : FlagsOf(u, l) \in Flags
  /\ \A spec \in Char : <<"%", spec>> = ConversionText(FALSE, FALSE, spec)
<1>1. \A f \in Flags : \E u, l \in BOOLEAN : f = FlagsOf(u, l)
  <2> TAKE f \in Flags
  <2>1. CASE f = <<>>
    <3>1. f = FlagsOf(FALSE, FALSE)
      BY <2>1 DEF FlagsOf
    <3> QED
      BY <3>1
  <2>2. CASE f = <<"u">>
    <3>1. f = FlagsOf(TRUE, FALSE)
      BY <2>2 DEF FlagsOf
    <3> QED
      BY <3>1
  <2>3. CASE f = <<"l">>
    <3>1. f = FlagsOf(FALSE, TRUE)
      BY <2>3 DEF FlagsOf
    <3> QED
      BY <3>1
  <2>4. CASE f = <<"u", "l">>
    <3>1. f = FlagsOf(TRUE, TRUE)
      BY <2>4 DEF FlagsOf
    <3> QED
      BY <3>1
  <2> QED
    BY <2>1, <2>2, <2>3, <2>4, Zenon DEF Flags
<1>2. \A u, l \in BOOLEAN : FlagsOf(u, l) \in Flags
  BY Zenon DEF FlagsOf, Flags
<1>3. ASSUME NEW spec \in Char PROVE <<"%", spec>> = ConversionText(FALSE, FALSE, spec)
  <2>1. FlagsOf(FALSE, FALSE) = <<>>
    BY DEF FlagsOf
  <2>2. <<"%">> \in Seq(Char) /\ <<spec>> \in Seq(Char)
    BY CharsAre
  <2>3. <<"%">> \o <<>> = <<"%">>
    OBVIOUS
  <2>4. <<"%", spec>> = <<"%">> \o <<spec>>
    BY CharsAre, Pair
  <2> QED
    BY <2>1, <2>3, <2>4 DEF ConversionText
<1> QED
  BY <1>1, <1>2, <1>3 DEF ConversionText

(* The modifiers before a text, one by one.                                *)
LEMMA FlagsThenRest ==
  ASSUME NEW u \in BOOLEAN, NEW l \in BOOLEAN, NEW rest \in Seq(Char)
  PROVE  /\ FlagsOf(u, l) \in Seq(Char)
         /\ FlagsOf(u, l) \o rest = FlagsBefore(u, l, rest)
<1> DEFINE S == Char
<1>0. "u" \in S /\ "l" \in S /\ rest \in Seq(S)
  BY CharsAre
<1> HIDE DEF S
<1>1. /\ <<"u">> \in Seq(S) /\ <<"l">> \in Seq(S) /\ <<"u", "l">> \in Seq(S) /\ <<>> \in Seq(S)
  BY <1>0
<1>2. <<>> \o rest = rest
  BY <1>0, ConcatEmptySeq
<1>3. <<"u", "l">> \o rest = <<"u">> \o (<<"l">> \o rest)
  <2>1. <<"u", "l">> = <<"u">> \o <<"l">>
    OBVIOUS
  <2> QED
    BY <1>0, <1>1, <2>1, ConcatAssociative
<1>4. FlagsOf(u, l) \in Seq(S)
  BY <1>1 DEF FlagsOf
<1>5. FlagsOf(u, l) \o rest = FlagsBefore(u, l, rest)
  BY <1>2, <1>3 DEF FlagsOf, FlagsBefore, LongBefore, Cons
<1> QED
  BY <1>4, <1>5 DEF S

(* A conversion before a text, one character after the other.              *)
LEMMA ConversionTextIs ==
  ASSUME NEW u, NEW l, NEW spec \in Char, NEW rest \in Seq(Char), u \in BOOLEAN, l \in BOOLEAN
  PROVE  /\ ConversionText(u, l, spec) \in Seq(Char) /\ Len(ConversionText(u, l, spec)) > 0
         /\ ConversionText(u, l, spec) \o rest = Cons("%", FlagsBefore(u, l, Cons(spec, rest)))
<1> DEFINE S == Char
           flags == FlagsOf(u, l)
<1>0. "%" \in S /\ spec \in S /\ rest \in Seq(S) /\ flags \in Seq(S)
  BY CharsAre, FlagsThenRest
<1>1. flags \o Cons(spec, rest) = FlagsBefore(u, l, Cons(spec, rest))
  BY ConsIs, FlagsThenRest
<1> HIDE DEF S, flags
<1>2. <<"%">> \in Seq(S) /\ <<spec>> \in Seq(S) /\ <<"%">> \o flags \in Seq(S) /\ <<spec>> \o rest \in Seq(S)
  BY <1>0
<1>3. (<<"%">> \o flags) \o <<spec>> \in Seq(S) /\ Len((<<"%">> \o flags) \o <<spec>>) > 0
  BY <1>2
<1>4. ((<<"%">> \o flags) \o <<spec>>) \o rest = (<<"%">> \o flags) \o (<<spec>> \o rest)
  BY <1>0, <1>2, ConcatAssociative
<1>5. (<<"%">> \o flags) \o (<<spec>> \o rest) = <<"%">> \o (flags \o (<<spec>> \o rest))
  BY <1>0, <1>2, ConcatAssociative
<1> QED
  BY <1>1, <1>3, <1>4, <1>5 DEF ConversionText, flags, S, Cons

(* What a conversion stands for can be read from its text.                 *)
LEMMA ConversionMeans ==
  ASSUME NEW u \in BOOLEAN, NEW l \in BOOLEAN, NEW spec \in Char
  PROVE  LET text == ConversionText(u, l, spec)
         IN  /\ Last(text) = spec
             /\ ("u" \in ToSet(Front(text))) = u /\ ("l" \in ToSet(Front(text))) = l
<1> DEFINE text == ConversionText(u, l, spec)
           S == Char
           mods == <<"%">> \o FlagsOf(u, l)
<1>0. "%" \in S /\ spec \in S
  BY CharsAre
<1>1. mods \in Seq(S)
  <2>1. FlagsOf(u, l) \in Seq(S)
    <3>1. <<>> \in Seq(Char)
      OBVIOUS
    <3> QED
      BY <3>1, FlagsThenRest
  <2> HIDE DEF S
  <2> QED
    BY <1>0, <2>1
<1>2. text = mods \o <<spec>>
  BY DEF ConversionText
<1>3. /\ u /\ l => mods = <<"%", "u", "l">>
      /\ u /\ ~l => mods = <<"%", "u">>
      /\ ~u /\ l => mods = <<"%", "l">>
      /\ ~u /\ ~l => mods = <<"%">>
  <2>1. <<"%", "u", "l">> = <<"%">> \o <<"u", "l">>
    OBVIOUS
  <2>2. <<"%", "u">> = <<"%">> \o <<"u">>
    OBVIOUS
  <2>3. <<"%", "l">> = <<"%">> \o <<"l">>
    OBVIOUS
  <2>4. <<"%">> \o <<>> = <<"%">>
    OBVIOUS
  <2> QED
    BY <2>1, <2>2, <2>3, <2>4 DEF FlagsOf
<1> HIDE DEF mods, text, S
<1>4. text \in Seq(S) /\ Len(text) = Len(mods) + 1 /\ text[Len(mods) + 1] = spec
      /\ \A i \in 1 .. Len(mods) : text[i] = mods[i]
  BY <1>0, <1>1, <1>2
<1>5. Last(text) = spec
  BY <1>4 DEF Last
<1>6. Front(text) = mods
  <2>1. /\ Front(text) \in Seq(S) /\ Len(Front(text)) = Len(mods)
        /\ \A i \in 1 .. Len(mods) : Front(text)[i] = mods[i]
    BY <1>1, <1>4 DEF Front
  <2> QED
    BY <1>1, <2>1, SeqEqual
<1>7. ToSet(<<"%", "u", "l">>) = {"%", "u", "l"} /\ ToSet(<<"%", "u">>) = {"%", "u"}
      /\ ToSet(<<"%", "l">>) = {"%", "l"} /\ ToSet(<<"%">>) = {"%"}
  BY DEF ToSet
<1>8. /\ u => "u" \in ToSet(mods)
      /\ ~u => "u" \notin ToSet(mods)
      /\ l => "l" \in ToSet(mods)
      /\ ~l => "l" \notin ToSet(mods)
  BY <1>3, <1>7
<1>9. ("u" \in ToSet(mods)) = u /\ ("l" \in ToSet(mods)) = l
  BY <1>8
<1> QED
  BY <1>5, <1>6, <1>9 DEF text

(* One turn of vprintf(), from str on, prints item and goes on from rest.  *)
Prints(str, out, rest, item) ==
  PrintPiece([str |-> str, out |-> out]) = [str |-> rest, out |-> Append(out, item)]

(* A character that is not a % is printed.                                 *)
LEMMA PrintsLiteral ==
  ASSUME NEW str, NEW out, Starts(str, "%") = FALSE
  PROVE  Prints(str, out, Tail(str), Literal(Head(str)))
BY DEF Prints, PrintPiece

(* Of two % one is printed.                                                *)
LEMMA PrintsPercent ==
  ASSUME NEW str, NEW out, Starts(str, "%") = TRUE, Starts(Tail(str), "%") = TRUE
  PROVE  Prints(str, out, Tail(Tail(str)), Literal("%"))
BY DEF Prints, PrintPiece

IsUnsigned(after) == Starts(after, "u")
IsLong(after) == Starts(Skip(after, "u"), "l")
SpecOf(after) == Skip(Skip(after, "u"), "l")

(* A conversion is printed if it takes the modifiers it has.               *)
LEMMA PrintsConversion ==
  ASSUME NEW str, NEW out, Starts(str, "%") = TRUE, Starts(Tail(str), "%") = FALSE,
         Accepted(SpecOf(Tail(str)), IsUnsigned(Tail(str)), IsLong(Tail(str)))
  PROVE  Prints(str, out, Tail(SpecOf(Tail(str))),
                Conversion(Head(SpecOf(Tail(str))), IsUnsigned(Tail(str)), IsLong(Tail(str))))
BY DEF Prints, PrintPiece, SpecOf, IsUnsigned, IsLong

(* What is not a conversion, or does not take its modifiers, panics.       *)
LEMMA PrintsPanic ==
  ASSUME NEW str, NEW out, Starts(str, "%") = TRUE, Starts(Tail(str), "%") = FALSE,
         ~Accepted(SpecOf(Tail(str)), IsUnsigned(Tail(str)), IsLong(Tail(str)))
  PROVE  Prints(str, out, <<>>, Panic)
BY DEF Prints, PrintPiece, SpecOf, IsUnsigned, IsLong

(* A conversion that vprintf() accepts.                                    *)
Convertible(spec, u, l) == spec \in IntSpec \/ (spec \in PlainSpec /\ u = FALSE /\ l = FALSE)

(* The text of a conversion is printed as that conversion, in one turn.    *)
LEMMA ConversionPrinted ==
  ASSUME NEW u \in BOOLEAN, NEW l \in BOOLEAN, NEW spec, NEW rest \in Seq(Char), NEW out,
         Convertible(spec, u, l)
  PROVE  Prints(ConversionText(u, l, spec) \o rest, out, rest, Conversion(spec, u, l))
<1> DEFINE tail == Cons(spec, rest)
           after == FlagsBefore(u, l, tail)
           str == Cons("%", after)
<1>1. spec \in Char \ {"u", "l", "%"} /\ spec \in Char /\ "%" \in Char
  BY CharsAre, BasesAre DEF Convertible, PlainSpec
<1>2. ConversionText(u, l, spec) \o rest = str
  BY <1>1, ConversionTextIs
<1>3. /\ after \in Seq(Char) /\ Starts(after, "%") = FALSE /\ IsUnsigned(after) = u
      /\ IsLong(after) = l /\ SpecOf(after) = tail
  BY <1>1, FlagsAreRead DEF FlagsRead, IsUnsigned, IsLong, SpecOf
<1>4. tail # <<>> /\ Head(tail) = spec /\ Tail(tail) = rest
  BY <1>1, ConsIs
<1> HIDE DEF tail, after
<1>5. Starts(str, "%") = TRUE /\ Tail(str) = after
  BY <1>1, <1>3, ConsIs, StartsWith
<1> HIDE DEF str
<1>6. Accepted(tail, u, l)
  BY <1>4 DEF Accepted, Convertible
<1>7. Prints(str, out, Tail(SpecOf(Tail(str))),
             Conversion(Head(SpecOf(Tail(str))), IsUnsigned(Tail(str)), IsLong(Tail(str))))
  BY <1>3, <1>5, <1>6, PrintsConversion, Zenon
<1> QED
  BY <1>2, <1>3, <1>4, <1>5, <1>7, Zenon

(* So is the text of a character,                                          *)
LEMMA LiteralPrinted ==
  ASSUME NEW c \in Char \ {"%"}, NEW rest \in Seq(Char), NEW out
  PROVE  Prints(<<c>> \o rest, out, rest, Literal(c))
<1> DEFINE str == Cons(c, rest)
<1>1. Head(str) = c /\ Tail(str) = rest
  BY ConsIs
<1>2. Starts(str, "%") = FALSE
  BY StartsWithOther
<1>3. <<c>> \o rest = str
  BY DEF Cons
<1> HIDE DEF str
<1> QED
  BY <1>1, <1>2, <1>3, PrintsLiteral

(* and that of a %.                                                        *)
LEMMA PercentPrinted ==
  ASSUME NEW rest \in Seq(Char), NEW out
  PROVE  Prints(<<"%", "%">> \o rest, out, rest, Literal("%"))
<1> DEFINE after == Cons("%", rest)
           str == Cons("%", after)
<1>1. "%" \in Char
  BY CharsAre
<1>2. <<"%", "%">> \o rest = str
  <2>1. <<"%">> \in Seq(Char) /\ <<"%", "%">> = <<"%">> \o <<"%">>
    BY <1>1, Pair
  <2>2. (<<"%">> \o <<"%">>) \o rest = <<"%">> \o (<<"%">> \o rest)
    BY <2>1, ConcatAssociative
  <2> QED
    BY <2>1, <2>2 DEF Cons
<1>3. after \in Seq(Char) /\ Tail(after) = rest
  BY <1>1, ConsIs
<1>4. Starts(after, "%") = TRUE
  BY <1>1, StartsWith
<1> HIDE DEF after
<1>5. Starts(str, "%") = TRUE /\ Tail(str) = after
  BY <1>1, <1>3, ConsIs, StartsWith
<1> HIDE DEF str
<1> QED
  BY <1>2, <1>3, <1>4, <1>5, PrintsPercent

(* The members of two sets of records that differ in what they mean.       *)
LEMMA RecordsOf ==
  ASSUME NEW A, NEW B
  PROVE  LET records == [text : A, means : {"literal"}] \cup [text : B, means : {"conversion"}]
         IN  /\ \A r \in records : \/ r.text \in A /\ r.means = "literal"
                                   \/ r.text \in B /\ r.means = "conversion"
             /\ \A text \in A : [text |-> text, means |-> "literal"] \in records
             /\ \A text \in B : [text |-> text, means |-> "conversion"] \in records
OBVIOUS

(* The pieces of formats: a character, a %, or a conversion.               *)
LEMMA PiecesAre ==
  /\ \A piece \in Pieces : \/ piece.text \in LiteralTexts \cup PercentTexts /\ piece.means = "literal"
                           \/ piece.text \in IntTexts \cup PlainTexts /\ piece.means = "conversion"
  /\ \A text \in LiteralTexts \cup PercentTexts : [text |-> text, means |-> "literal"] \in Pieces
  /\ \A text \in IntTexts \cup PlainTexts : [text |-> text, means |-> "conversion"] \in Pieces
BY RecordsOf, Zenon DEF Pieces

(* A turn prints a piece of the grammar, and goes on after it.             *)
LEMMA PiecePrinted ==
  ASSUME NEW piece \in Pieces, NEW rest \in Seq(Char), NEW out
  PROVE  /\ piece.text \in Seq(Char) /\ Len(piece.text) > 0
         /\ Prints(piece.text \o rest, out, rest, Meaning(piece))
<1>1. CASE piece.text \in LiteralTexts /\ piece.means = "literal"
  <2>1. PICK c \in Char \ {"%"} : piece.text = <<c>>
    BY <1>1 DEF LiteralTexts
  <2>2. Last(piece.text) = c
    BY <2>1 DEF Last
  <2>3. Meaning(piece) = Literal(c)
    BY <1>1, <2>2 DEF Meaning
  <2>4. piece.text \in Seq(Char) /\ Len(piece.text) > 0
    BY <2>1
  <2>5. Prints(<<c>> \o rest, out, rest, Literal(c))
    BY LiteralPrinted
  <2> QED
    BY <2>1, <2>3, <2>4, <2>5, Zenon
<1>2. CASE piece.text \in PercentTexts /\ piece.means = "literal"
  <2>1. piece.text = <<"%", "%">>
    BY <1>2 DEF PercentTexts
  <2>2. Last(piece.text) = "%"
    BY <2>1 DEF Last
  <2>3. Meaning(piece) = Literal("%")
    BY <1>2, <2>2 DEF Meaning
  <2>4. piece.text \in Seq(Char) /\ Len(piece.text) > 0
    BY <2>1, CharsAre
  <2>5. Prints(<<"%", "%">> \o rest, out, rest, Literal("%"))
    BY PercentPrinted
  <2> QED
    BY <2>1, <2>3, <2>4, <2>5, Zenon
<1>3. ASSUME NEW u \in BOOLEAN, NEW l \in BOOLEAN, NEW spec, Convertible(spec, u, l),
             piece.text = ConversionText(u, l, spec), piece.means = "conversion"
      PROVE  /\ piece.text \in Seq(Char) /\ Len(piece.text) > 0
             /\ Prints(piece.text \o rest, out, rest, Meaning(piece))
  <2>1. spec \in Char
    BY <1>3, BasesAre, CharsAre DEF Convertible, PlainSpec
  <2>2. /\ Last(piece.text) = spec
        /\ ("u" \in ToSet(Front(piece.text))) = u /\ ("l" \in ToSet(Front(piece.text))) = l
    BY <1>3, <2>1, ConversionMeans
  <2>3. Meaning(piece) = Conversion(spec, u, l)
    BY <1>3, <2>2, Zenon DEF Meaning
  <2>4. piece.text \in Seq(Char) /\ Len(piece.text) > 0
    BY <1>3, <2>1, ConversionTextIs
  <2>5. Prints(ConversionText(u, l, spec) \o rest, out, rest, Conversion(spec, u, l))
    BY <1>3, ConversionPrinted
  <2> QED
    BY <1>3, <2>3, <2>4, <2>5, Zenon
<1>4. CASE piece.text \in IntTexts /\ piece.means = "conversion"
  <2>1. PICK f \in Flags, spec \in IntSpec : piece.text = IntText(f, spec)
    BY <1>4 DEF IntTexts
  <2>2. spec \in Char
    BY BasesAre, CharsAre
  <2>3. PICK u \in BOOLEAN, l \in BOOLEAN : IntText(f, spec) = ConversionText(u, l, spec)
    BY <2>2, ConversionTexts, Zenon DEF IntText
  <2>4. Convertible(spec, u, l)
    BY DEF Convertible
  <2> QED
    BY <1>3, <1>4, <2>1, <2>3, <2>4, Zenon
<1>5. CASE piece.text \in PlainTexts /\ piece.means = "conversion"
  <2>1. PICK spec \in PlainSpec : piece.text = <<"%", spec>>
    BY <1>5 DEF PlainTexts
  <2>2. spec \in Char
    BY DEF Char
  <2>3. piece.text = ConversionText(FALSE, FALSE, spec)
    BY <2>1, <2>2, ConversionTexts
  <2>4. Convertible(spec, FALSE, FALSE)
    BY DEF Convertible
  <2>5. FALSE \in BOOLEAN
    OBVIOUS
  <2> QED
    BY <1>3, <1>5, <2>3, <2>4, <2>5, Zenon
<1> QED
  BY <1>1, <1>2, <1>4, <1>5, PiecesAre

(* Where there is no piece, a turn panics.                                 *)
LEMMA BrokenPanics ==
  ASSUME NEW broken \in Broken, NEW out
  PROVE  /\ broken \in Seq(Char) /\ Len(broken) > 0
         /\ Prints(broken, out, <<>>, Panic)
<1> DEFINE S == Char
<1>1. PICK after \in SeqOf(Char, 3) : broken = <<"%">> \o after
  BY DEF Broken
<1>2. \A piece \in Pieces : ~IsPrefix(piece.text, broken)
  BY DEF Broken
<1>3. after \in Seq(Char) /\ "%" \in Char
  <2>1. "%" \in S
    BY CharsAre
  <2>2. PICK m \in 0 .. 3 : after \in [1 .. m -> S]
    BY <1>1 DEF SeqOf
  <2> HIDE DEF S
  <2>3. after \in Seq(S)
    BY <2>2
  <2> QED
    BY <2>1, <2>3 DEF S
<1>4. broken = Cons("%", after)
  BY <1>1 DEF Cons
<1>5. broken \in Seq(Char) /\ Len(broken) > 0 /\ Tail(broken) = after
  <2>1. broken \in Seq(Char) /\ broken # <<>> /\ Tail(broken) = after
    BY <1>3, <1>4, ConsIs
  <2> HIDE DEF S
  <2>2. ASSUME broken \in Seq(S), broken # <<>> PROVE Len(broken) > 0
    BY <2>2
  <2> QED
    BY <2>1, <2>2 DEF S
<1>6. Starts(broken, "%") = TRUE
  BY <1>3, <1>4, StartsWith
<1>7. ASSUME NEW text \in Seq(Char), NEW rest \in Seq(Char), broken = text \o rest
      PROVE  IsPrefix(text, broken)
  <2>1. /\ text \in Seq(S) /\ rest \in Seq(S) /\ broken = text \o rest
    BY <1>7
  <2> HIDE DEF S
  <2>2. broken \in Seq(S) /\ Len(broken) = Len(text) + Len(rest)
        /\ \A i \in 1 .. Len(text) : broken[i] = text[i]
    BY <2>1
  <2>3. SubSeq(text, 1, Len(text)) = [i \in 1 .. Len(text) |-> text[i]]
    BY <2>1
  <2>4. SubSeq(broken, 1, Len(text)) = [i \in 1 .. Len(text) |-> broken[i]]
    BY <2>1, <2>2
  <2> QED
    BY <2>1, <2>2, <2>3, <2>4 DEF IsPrefix
<1>8. Starts(after, "%") = FALSE
  <2>1. Starts(after, "%") \in BOOLEAN
    BY DEF Starts
  <2> SUFFICES ASSUME Starts(after, "%") = TRUE PROVE FALSE
    BY <2>1
  <2>2. after # <<>> /\ Head(after) = "%"
    BY DEF Starts
  <2>3. Tail(after) \in Seq(Char) /\ after = Cons("%", Tail(after))
    BY <1>3, <2>2, ConsOfHead
  <2>4. broken = <<"%", "%">> \o Tail(after)
    <3>1. <<"%">> \in Seq(Char) /\ <<"%", "%">> = <<"%">> \o <<"%">>
      BY <1>3, Pair
    <3>2. (<<"%">> \o <<"%">>) \o Tail(after) = <<"%">> \o (<<"%">> \o Tail(after))
      BY <2>3, <3>1, ConcatAssociative
    <3> QED
      BY <1>1, <2>3, <3>1, <3>2 DEF Cons
  <2> DEFINE piece == [text |-> <<"%", "%">>, means |-> "literal"]
  <2>5. piece \in Pieces
    BY PiecesAre DEF PercentTexts
  <2>6. <<"%", "%">> \in Seq(Char)
    BY <1>3
  <2> QED
    BY <1>2, <1>7, <2>3, <2>4, <2>5, <2>6
<1> DEFINE spec == SpecOf(after)
           u == IsUnsigned(after)
           l == IsLong(after)
<1>9. spec \in Seq(Char) /\ u \in BOOLEAN /\ l \in BOOLEAN /\ after = FlagsBefore(u, l, spec)
  BY <1>3, FlagsAreThere DEF SpecOf, IsUnsigned, IsLong
<1> HIDE DEF spec, u, l
<1>10. ~Accepted(spec, u, l)
  <2> SUFFICES ASSUME Accepted(spec, u, l) PROVE FALSE
    OBVIOUS
  <2> DEFINE c == Head(spec)
             text == ConversionText(u, l, c)
  <2>1. spec # <<>> /\ (c \in IntSpec \/ (c \in PlainSpec /\ ~u /\ ~l))
    BY DEF Accepted
  <2>2. c \in Char /\ Tail(spec) \in Seq(Char) /\ spec = Cons(c, Tail(spec))
    BY <1>9, <2>1, ConsOfHead
  <2> HIDE DEF c
  <2>3. text \in Seq(Char) /\ text \o Tail(spec) = broken
    <3>1. text \in Seq(Char) /\ text \o Tail(spec) = Cons("%", FlagsBefore(u, l, Cons(c, Tail(spec))))
      BY <1>9, <2>2, ConversionTextIs
    <3> QED
      BY <1>4, <1>9, <2>2, <3>1
  <2> DEFINE piece == [text |-> text, means |-> "conversion"]
  <2>4. piece \in Pieces
    <3>1. CASE c \in IntSpec
      <4>1. FlagsOf(u, l) \in Flags
        BY <1>9, ConversionTexts
      <4>2. text = IntText(FlagsOf(u, l), c)
        BY DEF ConversionText, IntText
      <4> HIDE DEF text
      <4> QED
        BY <3>1, <4>1, <4>2, PiecesAre DEF IntTexts
    <3>2. CASE c \in PlainSpec /\ ~u /\ ~l
      <4>1. u = FALSE /\ l = FALSE
        BY <1>9, <3>2
      <4>2. text = <<"%", c>>
        BY <2>2, <4>1, ConversionTexts
      <4>3. text \in {<<"%", s>> : s \in PlainSpec}
        BY <3>2, <4>2
      <4> QED
        BY <4>3, PiecesAre DEF PlainTexts
    <3> QED
      BY <2>1, <3>1, <3>2
  <2>5. piece.text = text
    OBVIOUS
  <2> QED
    BY <1>2, <1>7, <2>2, <2>3, <2>4, <2>5
<1>11. Prints(broken, out, <<>>, Panic)
  BY <1>5, <1>6, <1>8, <1>10, PrintsPanic DEF spec, u, l
<1> QED
  BY <1>5, <1>11

-----------------------------------------------------------------------------
FromStart(pieces, broken, c, d) == broken
FromTurn(pieces, broken, c, d, n, before) == pieces[(Len(pieces) - n) + 1].text \o before
FromLoop == INSTANCE Loops WITH Start <- FromStart, Turn <- FromTurn, Ends <- NoEnds

(* What is left of a format after its first k pieces.                      *)
RestFrom(pieces, broken, k) == FromLoop!After(pieces, broken, 0, 0)[Len(pieces) - k]

(* The text of a format is that of its first piece, and the rest.          *)
LEMMA TextIs ==
  ASSUME NEW pieces \in Seq(Pieces), NEW broken
  PROVE  /\ TextOf(pieces, broken) = RestFrom(pieces, broken, 0)
         /\ RestFrom(pieces, broken, Len(pieces)) = broken
         /\ \A k \in 0 .. Len(pieces) - 1 :
              RestFrom(pieces, broken, k) = pieces[k + 1].text \o RestFrom(pieces, broken, k + 1)
<1> DEFINE from(n) == FromLoop!After(pieces, broken, 0, 0)[n]
           count == Len(pieces)
<1>1. count \in Nat
  OBVIOUS
<1>2. TextOf(pieces, broken) = from(count)
  BY DEF TextOf, FromLoop!After, FromStart, FromTurn
<1>3. /\ from(0) = broken
      /\ \A n \in Nat : from(n + 1) = pieces[(count - (n + 1)) + 1].text \o from(n)
  <2>1. /\ from(0) = FromStart(pieces, broken, 0, 0)
        /\ \A n \in Nat : from(n + 1) = FromTurn(pieces, broken, 0, 0, n + 1, from(n))
    BY FromLoop!AfterEquation
  <2> HIDE DEF from
  <2> QED
    BY <2>1 DEF FromStart, FromTurn
<1>4. \A k : RestFrom(pieces, broken, k) = from(count - k)
  BY DEF RestFrom
<1> HIDE DEF from, count
<1>5. TextOf(pieces, broken) = RestFrom(pieces, broken, 0)
  BY <1>1, <1>2, <1>4
<1>6. RestFrom(pieces, broken, count) = broken
  BY <1>1, <1>3, <1>4
<1>7. ASSUME NEW k \in 0 .. count - 1
      PROVE  RestFrom(pieces, broken, k) = pieces[k + 1].text \o RestFrom(pieces, broken, k + 1)
  <2>1. count - (k + 1) \in Nat /\ (count - (k + 1)) + 1 = count - k /\ (count - (count - k)) + 1 = k + 1
    BY <1>1
  <2>2. from(count - k) = pieces[k + 1].text \o from(count - (k + 1))
    BY <1>3, <2>1
  <2> QED
    BY <1>4, <2>2
<1> QED
  BY <1>5, <1>6, <1>7 DEF count

(* The rest of a format is a text.                                         *)
LEMMA RestIsText ==
  ASSUME NEW pieces \in Seq(Pieces), NEW broken \in Seq(Char), NEW k \in 0 .. Len(pieces)
  PROVE  RestFrom(pieces, broken, k) \in Seq(Char)
<1> DEFINE count == Len(pieces)
           T == {n \in Nat : n <= count => RestFrom(pieces, broken, count - n) \in Seq(Char)}
<1>0. count \in Nat /\ \A i \in 1 .. count : pieces[i] \in Pieces
  OBVIOUS
<1>1. 0 \in T
  <2>1. RestFrom(pieces, broken, count) = broken
    BY TextIs
  <2>2. count - 0 = count
    BY <1>0
  <2> QED
    BY <2>1, <2>2
<1>2. ASSUME NEW n \in Nat, n \in T PROVE n + 1 \in T
  <2> SUFFICES ASSUME n + 1 <= count PROVE RestFrom(pieces, broken, count - (n + 1)) \in Seq(Char)
    OBVIOUS
  <2> DEFINE i == count - (n + 1)
             rest == RestFrom(pieces, broken, i + 1)
             text == pieces[i + 1].text
             S == Char
  <2>1. i \in 0 .. count - 1 /\ i + 1 = count - n /\ i + 1 \in 1 .. count /\ n <= count
    BY <1>0
  <2>2. rest \in Seq(S)
    BY <1>2, <2>1
  <2>3. text \in Seq(S)
    <3>1. pieces[i + 1] \in Pieces /\ rest \in Seq(Char)
      BY <1>0, <2>1, <2>2
    <3> QED
      BY <3>1, PiecePrinted
  <2>4. RestFrom(pieces, broken, i) = text \o rest
    BY <2>1, TextIs
  <2> HIDE DEF i, rest, text, S
  <2>5. text \o rest \in Seq(S)
    BY <2>2, <2>3
  <2> QED
    BY <2>4, <2>5 DEF i, S
<1> HIDE DEF T
<1>3. Nat \subseteq T
  BY <1>1, <1>2, LengthLoop!SetInduction
<1>4. count - k \in Nat /\ count - k <= count /\ count - (count - k) = k
  BY <1>0
<1> QED
  BY <1>3, <1>4 DEF T

PrintStart(str, b, c, d) == [str |-> str, out |-> <<>>]
PrintTurn(str, b, c, d, n, before) == PrintPiece(before)
PrintEnds(str, b, c, d, n) == PrintedFrom(str)[n].str = <<>>
PrintLoop == INSTANCE Loops WITH Start <- PrintStart, Turn <- PrintTurn, Ends <- PrintEnds

(* The loop of vprintf(), turn by turn.                                    *)
LEMMA PrintTurns ==
  ASSUME NEW str
  PROVE  /\ PrintedFrom(str)[0] = [str |-> str, out |-> <<>>]
         /\ \A n \in Nat : PrintedFrom(str)[n + 1] = PrintPiece(PrintedFrom(str)[n])
<1>1. PrintedFrom(str) = PrintLoop!After(str, 0, 0, 0)
  BY DEF PrintedFrom, PrintLoop!After, PrintStart, PrintTurn
<1> QED
  BY <1>1, PrintLoop!AfterEquation DEF PrintStart, PrintTurn

(* What the first n pieces stand for.                                      *)
Meanings(pieces, n) == [i \in 1 .. n |-> Meaning(pieces[i])]

(* One piece more stands for one thing more.                               *)
LEMMA OneMeaningMore ==
  ASSUME NEW pieces, NEW n \in Nat
  PROVE  /\ Meanings(pieces, 0) = <<>>
         /\ Meanings(pieces, n + 1) = Append(Meanings(pieces, n), Meaning(pieces[n + 1]))
<1> DEFINE S == {Meaning(pieces[i]) : i \in 1 .. n + 1}
           before == Meanings(pieces, n)
           after == Meanings(pieces, n + 1)
           item == Meaning(pieces[n + 1])
<1>1. Meanings(pieces, 0) = <<>>
  BY DEF Meanings
<1>2. before \in [1 .. n -> S] /\ after \in [1 .. n + 1 -> S] /\ item \in S
  BY DEF Meanings
<1>3. (\A i \in 1 .. n : after[i] = before[i]) /\ after[n + 1] = item
  BY DEF Meanings
<1> HIDE DEF S, before, after, item
<1>4. before \in Seq(S) /\ after \in Seq(S) /\ Len(before) = n /\ Len(after) = n + 1
  BY <1>2
<1>5. after = Append(before, item)
  BY <1>2, <1>3, <1>4
<1> QED
  BY <1>1, <1>5 DEF before, after, item

(* The n-th turn of vprintf() prints what the n-th piece stands for.       *)
PrintedUpTo(pieces, broken, n) ==
  PrintedFrom(TextOf(pieces, broken))[n]
    = [str |-> RestFrom(pieces, broken, n), out |-> Meanings(pieces, n)]

(* So it is for every piece of the format.                                 *)
LEMMA PrintedSoFar ==
  ASSUME NEW pieces \in Seq(Pieces), NEW broken \in Seq(Char), NEW k \in 0 .. Len(pieces)
  PROVE  PrintedUpTo(pieces, broken, k)
<1> DEFINE count == Len(pieces)
           text == TextOf(pieces, broken)
           T == {n \in Nat : n <= count => PrintedUpTo(pieces, broken, n)}
<1>0. count \in Nat /\ \A i \in 1 .. count : pieces[i] \in Pieces
  OBVIOUS
<1>1. 0 \in T
  <2>1. text = RestFrom(pieces, broken, 0)
    BY TextIs
  <2>2. Meanings(pieces, 0) = <<>>
    BY OneMeaningMore
  <2>3. PrintedFrom(text)[0] = [str |-> text, out |-> <<>>]
    BY PrintTurns
  <2> QED
    BY <2>1, <2>2, <2>3 DEF PrintedUpTo
<1>2. ASSUME NEW n \in Nat, n \in T PROVE n + 1 \in T
  <2> SUFFICES ASSUME n + 1 <= count PROVE PrintedUpTo(pieces, broken, n + 1)
    OBVIOUS
  <2> DEFINE piece == pieces[n + 1]
             rest == RestFrom(pieces, broken, n + 1)
             out == Meanings(pieces, n)
  <2>1. n \in 0 .. count - 1 /\ n + 1 \in 0 .. count /\ n + 1 \in 1 .. count /\ n <= count
    BY <1>0
  <2>2. PrintedFrom(text)[n] = [str |-> RestFrom(pieces, broken, n), out |-> out]
    BY <1>2, <2>1 DEF PrintedUpTo
  <2>3. RestFrom(pieces, broken, n) = piece.text \o rest
    BY <2>1, TextIs
  <2>4. piece \in Pieces /\ rest \in Seq(Char)
    BY <1>0, <2>1, RestIsText
  <2>5. Meanings(pieces, n + 1) = Append(out, Meaning(piece))
    BY OneMeaningMore
  <2>6. PrintedFrom(text)[n + 1] = PrintPiece(PrintedFrom(text)[n])
    BY PrintTurns
  <2> HIDE DEF piece, rest, out, text
  <2>7. Prints(piece.text \o rest, out, rest, Meaning(piece))
    BY <2>4, PiecePrinted
  <2>8. PrintedFrom(text)[n + 1] = [str |-> rest, out |-> Meanings(pieces, n + 1)]
    BY <2>2, <2>3, <2>5, <2>6, <2>7, Zenon DEF Prints
  <2> QED
    BY <2>8 DEF PrintedUpTo, rest, text
<1> HIDE DEF T
<1>3. Nat \subseteq T
  BY <1>1, <1>2, LengthLoop!SetInduction
<1>4. k \in Nat /\ k <= count
  BY <1>0
<1> QED
  BY <1>3, <1>4 DEF T

(* No turn but the last of a format leaves nothing to print.               *)
LEMMA GoesOn ==
  ASSUME NEW pieces \in Seq(Pieces), NEW broken \in Seq(Char), NEW n \in 0 .. Len(pieces) - 1
  PROVE  ~PrintEnds(TextOf(pieces, broken), 0, 0, 0, n)
<1> DEFINE piece == pieces[n + 1]
           rest == RestFrom(pieces, broken, n + 1)
           S == Char
<1>1. n \in 0 .. Len(pieces) /\ n + 1 \in 0 .. Len(pieces) /\ n + 1 \in 1 .. Len(pieces)
  OBVIOUS
<1>2. PrintedFrom(TextOf(pieces, broken))[n].str = RestFrom(pieces, broken, n)
  <2>1. PrintedUpTo(pieces, broken, n)
    BY <1>1, PrintedSoFar
  <2> QED
    BY <2>1 DEF PrintedUpTo
<1>3. RestFrom(pieces, broken, n) = piece.text \o rest
  BY TextIs
<1>4. piece \in Pieces /\ rest \in Seq(S)
  BY <1>1, RestIsText
<1>5. piece.text \in Seq(S) /\ Len(piece.text) > 0
  BY <1>4, PiecePrinted
<1> HIDE DEF piece, rest, S
<1>6. piece.text \o rest # <<>>
  BY <1>4, <1>5
<1> QED
  BY <1>2, <1>3, <1>6 DEF PrintEnds

(* vprintf() returns after as many turns as the format has pieces.         *)
LEMMA FormatPrinted ==
  ASSUME NEW pieces \in Seq(Pieces)
  PROVE  vprintf(TextOf(pieces, <<>>)) = Meanings(pieces, Len(pieces))
<1> DEFINE count == Len(pieces)
           text == TextOf(pieces, <<>>)
<1>1. <<>> \in Seq(Char) /\ count \in Nat /\ count \in 0 .. count
  OBVIOUS
<1>2. PrintedUpTo(pieces, <<>>, count) /\ RestFrom(pieces, <<>>, count) = <<>>
  BY <1>1, PrintedSoFar, TextIs
<1>3. PrintedFrom(text)[count].str = <<>> /\ PrintedFrom(text)[count].out = Meanings(pieces, count)
  BY <1>2 DEF PrintedUpTo
<1>4. \A n \in 0 .. count - 1 : ~PrintEnds(text, 0, 0, 0, n)
  BY <1>1, GoesOn
<1>5. vprintf(text) = PrintedFrom(text)[PrintLoop!Stop(text, 0, 0, 0)[0]].out
  BY DEF vprintf, PrintLoop!Stop, PrintEnds
<1> HIDE DEF text, count
<1>6. PrintEnds(text, 0, 0, 0, count)
  BY <1>3 DEF PrintEnds
<1>7. PrintLoop!Stop(text, 0, 0, 0)[0] = count
  BY <1>1, <1>4, <1>6, PrintLoop!StopFound
<1> QED
  BY <1>3, <1>5, <1>7 DEF text, count

(* Where the format is broken after its pieces, the next turn panics and   *)
(* is the last.                                                            *)
LEMMA BrokenPrinted ==
  ASSUME NEW pieces \in Seq(Pieces), NEW broken \in Broken
  PROVE  vprintf(TextOf(pieces, broken)) = Append(Meanings(pieces, Len(pieces)), Panic)
<1> DEFINE count == Len(pieces)
           text == TextOf(pieces, broken)
           out == Meanings(pieces, count)
<1>1. broken \in Seq(Char) /\ broken # <<>> /\ count \in Nat /\ count \in 0 .. count
  BY BrokenPanics
<1>2. PrintedUpTo(pieces, broken, count) /\ RestFrom(pieces, broken, count) = broken
  BY <1>1, PrintedSoFar, TextIs
<1>3. PrintedFrom(text)[count] = [str |-> broken, out |-> out]
  BY <1>2 DEF PrintedUpTo
<1>4. Prints(broken, out, <<>>, Panic)
  BY BrokenPanics
<1>5. PrintedFrom(text)[count + 1] = [str |-> <<>>, out |-> Append(out, Panic)]
  <2>1. PrintedFrom(text)[count + 1] = PrintPiece(PrintedFrom(text)[count])
    BY <1>1, PrintTurns
  <2> HIDE DEF text, count, out
  <2> QED
    BY <1>3, <1>4, <2>1, Zenon DEF Prints
<1>6. \A n \in 0 .. count - 1 : ~PrintEnds(text, 0, 0, 0, n)
  BY <1>1, GoesOn
<1>7. vprintf(text) = PrintedFrom(text)[PrintLoop!Stop(text, 0, 0, 0)[0]].out
  BY DEF vprintf, PrintLoop!Stop, PrintEnds
<1> HIDE DEF text, count, out
<1>8. PrintEnds(text, 0, 0, 0, count + 1) /\ ~PrintEnds(text, 0, 0, 0, count)
  BY <1>1, <1>3, <1>5 DEF PrintEnds
<1>9. \A n \in 0 .. (count + 1) - 1 : ~PrintEnds(text, 0, 0, 0, n)
  BY <1>1, <1>6, <1>8
<1>10. PrintLoop!Stop(text, 0, 0, 0)[0] = count + 1
  BY <1>1, <1>8, <1>9, PrintLoop!StopFound
<1> QED
  BY <1>5, <1>7, <1>10 DEF text, count, out

-----------------------------------------------------------------------------
(* The arguments of a call, one by one.                                    *)
LEMMA Arguments ==
  /\ \A a : <<a>>[1] = a
  /\ \A a, b : <<a, b>>[1] = a /\ <<a, b>>[2] = b
  /\ \A a, b, c : <<a, b, c>>[1] = a /\ <<a, b, c>>[2] = b /\ <<a, b, c>>[3] = c
  /\ \A a, b, c, d : /\ <<a, b, c, d>>[1] = a /\ <<a, b, c, d>>[2] = b
                     /\ <<a, b, c, d>>[3] = c /\ <<a, b, c, d>>[4] = d
  /\ \A a, b, c, d, e : /\ <<a, b, c, d, e>>[1] = a /\ <<a, b, c, d, e>>[2] = b
                        /\ <<a, b, c, d, e>>[3] = c /\ <<a, b, c, d, e>>[4] = d
                        /\ <<a, b, c, d, e>>[5] = e
OBVIOUS

(* Each action calls the function it is about.                             *)
LEMMA CallsAre ==
  /\ Compare => call' = "compare"
  /\ Copy => call' = "copy"
  /\ AppendTo => call' = "append"
  /\ Tokens => call' = "tokenize"
  /\ Search => call' \in {"find", "findString", "findFromBack"}
  /\ PrintNumber => call' = "printInt"
  /\ PrintPointer => call' = "printPtr"
  /\ PrintFormat => call' = "vprintf"
  /\ ReadLine => call' = "readLine"
<1>1. \A name, arguments, returned : Calls(name, arguments, returned) => call' = name
  BY DEF Calls
<1>2. Compare => call' = "compare"
  BY <1>1, Zenon DEF Compare
<1>3. Copy => call' = "copy"
  BY <1>1, Zenon DEF Copy
<1>4. AppendTo => call' = "append"
  BY <1>1, Zenon DEF AppendTo
<1>5. Tokens => call' = "tokenize"
  BY <1>1, Zenon DEF Tokens
<1>6. Search => call' \in {"find", "findString", "findFromBack"}
  BY <1>1, Zenon DEF Search
<1>7. PrintNumber => call' = "printInt"
  BY <1>1, Zenon DEF PrintNumber
<1>8. PrintPointer => call' = "printPtr"
  BY <1>1, Zenon DEF PrintPointer
<1>9. PrintFormat => call' = "vprintf"
  BY <1>1, Zenon DEF PrintFormat, CallVprintf
<1>10. ReadLine => call' = "readLine"
  BY <1>1, Zenon DEF ReadLine
<1> QED
  BY <1>2, <1>3, <1>4, <1>5, <1>6, <1>7, <1>8, <1>9, <1>10, Zenon

(* A step is a call, or changes nothing.                                   *)
LEMMA StepsAre ==
  ASSUME [Next]_vars
  PROVE  \/ UNCHANGED vars
         \/ Compare \/ Copy \/ AppendTo \/ Tokens \/ Search
         \/ PrintNumber \/ PrintPointer \/ PrintFormat \/ ReadLine
BY Zenon DEF Next, Returned

(* A conversion of an integer that printInt() is called with.              *)
LEMMA NumbersPrinted ==
  ASSUME PrintNumber
  PROVE  \E u, l \in BOOLEAN, spec \in IntSpec : \E arg \in 0 .. Pow2[Bits(l)] - 1 :
           /\ call' = "printInt" /\ result' \in printInt(arg, u, l, BaseOf[spec])
           /\ args'[1] = arg /\ args'[2] = u /\ args'[3] = l /\ args'[4] = spec
<1>1. PICK u, l \in BOOLEAN, spec \in IntSpec :
        \E arg \in 0 .. Pow2[Bits(l)] - 1 :
          \E tmp \in printInt(arg, u, l, BaseOf[spec]) :
            Calls("printInt", <<arg, u, l, spec>>, tmp)
  BY Zenon DEF PrintNumber, Bits
<1>2. PICK arg \in 0 .. Pow2[Bits(l)] - 1 :
        \E tmp \in printInt(arg, u, l, BaseOf[spec]) :
          Calls("printInt", <<arg, u, l, spec>>, tmp)
  BY <1>1
<1>3. call' = "printInt" /\ args' = <<arg, u, l, spec>> /\ result' \in printInt(arg, u, l, BaseOf[spec])
  BY <1>2, Zenon DEF Calls
<1> QED
  BY <1>3, Arguments, Zenon

(* tmp[] in printInt() has room for every number but an int64 in binary.   *)
THEOREM TextOverflow == Spec => []OnlyLongBinaryOverflows
<1>1. Init => OnlyLongBinaryOverflows
  BY DEF Init, OnlyLongBinaryOverflows
<1>2. ASSUME OnlyLongBinaryOverflows, [Next]_vars
      PROVE  OnlyLongBinaryOverflows'
  <2>1. CASE PrintNumber
    <3>1. PICK u \in BOOLEAN, l \in BOOLEAN, spec \in IntSpec : \E arg \in 0 .. Pow2[Bits(l)] - 1 :
            /\ result' \in printInt(arg, u, l, BaseOf[spec])
            /\ args'[3] = l /\ args'[4] = spec
      BY <2>1, NumbersPrinted, Zenon
    <3>9. PICK arg \in 0 .. Pow2[Bits(l)] - 1 :
            result' \in printInt(arg, u, l, BaseOf[spec]) /\ args'[3] = l /\ args'[4] = spec
      BY <3>1
    <3>2. BaseOf[spec] \in Bases /\ (BaseOf[spec] = 2 => spec = "b")
      BY BasesAre
    <3>3. CASE l = TRUE /\ spec = "b"
      BY <3>9, <3>3, Zenon DEF OnlyLongBinaryOverflows
    <3>4. CASE ~(l = TRUE /\ spec = "b")
      <4>1. ~(l /\ BaseOf[spec] = 2)
        BY <3>2, <3>4
      <4>2. Len(result') \in Nat /\ Len(result') <= TmpSize
        BY <3>9, <3>2, <4>1, PrintedFits
      <4>3. TmpSize \in Nat
        BY TextAssumption
      <4> QED
        BY <4>2, <4>3 DEF OnlyLongBinaryOverflows
    <3> QED
      BY <3>3, <3>4
  <2>2. CASE UNCHANGED vars
    BY <1>2, <2>2, Zenon DEF OnlyLongBinaryOverflows, vars
  <2>3. CASE call' # "printInt"
    BY <2>3, Zenon DEF OnlyLongBinaryOverflows
  <2> QED
    BY <1>2, <2>1, <2>2, <2>3, StepsAre, CallsAre
<1> QED
  BY <1>1, <1>2, PTL DEF Spec

(* A number that is printed reads back, except the least int64 and what    *)
(* tmp[] has no room for; a pointer reads back from all of its digits.     *)
THEOREM TextNumbers == Spec => []NumbersReadBack
<1>1. Init => NumbersReadBack
  BY DEF Init, NumbersReadBack
<1>2. ASSUME NumbersReadBack, [Next]_vars
      PROVE  NumbersReadBack'
  <2>1. CASE PrintNumber
    <3>1. PICK u \in BOOLEAN, l \in BOOLEAN, spec \in IntSpec : \E arg \in 0 .. Pow2[Bits(l)] - 1 :
            /\ call' = "printInt" /\ result' \in printInt(arg, u, l, BaseOf[spec])
            /\ args'[1] = arg /\ args'[2] = u /\ args'[3] = l /\ args'[4] = spec
      BY <2>1, NumbersPrinted, Zenon
    <3>9. PICK arg \in 0 .. Pow2[Bits(l)] - 1 :
            /\ call' = "printInt" /\ result' \in printInt(arg, u, l, BaseOf[spec])
            /\ args'[1] = arg /\ args'[2] = u /\ args'[3] = l /\ args'[4] = spec
      BY <3>1
    <3>2. BaseOf[spec] \in Bases
      BY BasesAre
    <3>3. ASSUME ~(l /\ ~u /\ arg = Pow2[LongBits - 1])
          PROVE  ReadsBack(u, l, BaseOf[spec], arg, result')
      BY <3>9, <3>2, <3>3, PrintedReadsBack
    <3> QED
      BY <3>9, <3>3, Zenon DEF NumbersReadBack, ReadsBack, Bits, BaseOf
  <2>2. CASE PrintPointer
    <3>1. PICK ptr \in Ptr : call' = "printPtr" /\ args' = <<ptr>> /\ result' = printPtr(ptr)
      BY <2>2, Zenon DEF PrintPointer, Calls
    <3>2. /\ IsNumber(result', 16) /\ Len(result') = 2 * PtrBytes
          /\ NumberOf(result', 16) = args'[1]
      BY <3>1, PointerReads, Arguments, Zenon
    <3> QED
      BY <3>1, <3>2, Zenon DEF NumbersReadBack
  <2>3. CASE UNCHANGED vars
    BY <1>2, <2>3, Zenon DEF NumbersReadBack, vars
  <2>4. CASE call' # "printInt" /\ call' # "printPtr"
    BY <2>4, Zenon DEF NumbersReadBack
  <2> QED
    BY <1>2, <2>1, <2>2, <2>3, <2>4, StepsAre, CallsAre
<1> QED
  BY <1>1, <1>2, PTL DEF Spec

(* readLine() stores the line, and never writes past the room it is given. *)
THEOREM TextLines == Spec => []LinesAreRead
<1>1. Init => LinesAreRead
  BY DEF Init, LinesAreRead
<1>2. ASSUME LinesAreRead, [Next]_vars
      PROVE  LinesAreRead'
  <2>1. CASE ReadLine
    <3>1. PICK max \in 0 .. MaxInput, input \in [1 .. MaxInput -> Letter \cup {NewLine}],
               dest \in [1 .. MaxInput + 1 -> Letter] :
            args' = <<dest, input, max>> /\ result' = readLine(dest, input, max)
      BY <2>1, Zenon DEF ReadLine, Calls
    <3>2. args'[1] = dest /\ args'[2] = input /\ args'[3] = max
      BY <3>1, Arguments, Zenon
    <3>3. LET newlines == {i \in 1 .. max : input[i] = NewLine}
              line == SubSeq(input, 1, (IF newlines = {} THEN max ELSE Min(newlines) - 1))
          IN  readLine(dest, input, max)
                = line \o (IF newlines = {} THEN <<>> ELSE <<Nul>>)
                       \o SubSeq(dest, (IF newlines = {} THEN max ELSE Min(newlines)) + 1, Len(dest))
      BY LineIs
    <3> QED
      BY <3>1, <3>2, <3>3, Zenon DEF LinesAreRead
  <2>2. CASE UNCHANGED vars
    BY <1>2, <2>2, Zenon DEF LinesAreRead, vars
  <2>3. CASE call' # "readLine"
    BY <2>3, Zenon DEF LinesAreRead
  <2> QED
    BY <1>2, <2>1, <2>2, <2>3, StepsAre, CallsAre
<1> QED
  BY <1>1, <1>2, PTL DEF Spec

(* vprintf() prints every format of the grammar piece by piece, and panics *)
(* where it finds no piece.                                                *)
THEOREM TextFormats == Spec => []FormatFollowsGrammar
<1>1. Init => FormatFollowsGrammar
  BY DEF Init, FormatFollowsGrammar
<1>2. ASSUME FormatFollowsGrammar, [Next]_vars
      PROVE  FormatFollowsGrammar'
  <2>1. CASE PrintFormat
    <3>1. \A n : SeqOf(Pieces, n) \subseteq Seq(Pieces)
      BY DEF SeqOf
    <3>2. PICK pieces \in Seq(Pieces), broken \in {<<>>} \cup Broken : CallVprintf(pieces, broken)
      BY <2>1, <3>1, Zenon DEF PrintFormat
    <3>3. args' = <<pieces, broken>> /\ result' = vprintf(TextOf(pieces, broken))
      BY <3>2, Zenon DEF CallVprintf, Calls
    <3>4. args'[1] = pieces /\ args'[2] = broken
      BY <3>3, Arguments, Zenon
    <3> DEFINE out == Meanings(pieces, Len(pieces))
               S == {Meaning(pieces[i]) : i \in 1 .. Len(pieces)} \cup {Panic}
    <3>5. out = [n \in DOMAIN pieces |-> Meaning(pieces[n])]
      <4>1. DOMAIN pieces = 1 .. Len(pieces)
        OBVIOUS
      <4> QED
        BY <4>1 DEF Meanings
    <3>6. out \in Seq(S) /\ Panic \in S
      BY DEF Meanings
    <3>7. CASE broken = <<>>
      <4>1. result' = out
        BY <3>3, <3>7, FormatPrinted
      <4> HIDE DEF out, S
      <4>2. out \o <<>> = out
        BY <3>6, ConcatEmptySeq
      <4> QED
        BY <3>4, <3>5, <3>7, <4>1, <4>2, Zenon DEF FormatFollowsGrammar
    <3>8. CASE broken \in Broken /\ broken # <<>>
      <4>1. result' = Append(out, Panic)
        BY <3>3, <3>8, BrokenPrinted
      <4> HIDE DEF out, S
      <4>2. out \o <<Panic>> = Append(out, Panic)
        BY <3>6
      <4> QED
        BY <3>4, <3>5, <3>8, <4>1, <4>2, Zenon DEF FormatFollowsGrammar
    <3> QED
      BY <3>7, <3>8
  <2>2. CASE UNCHANGED vars
    BY <1>2, <2>2, Zenon DEF FormatFollowsGrammar, vars
  <2>3. CASE call' # "vprintf"
    BY <2>3, Zenon DEF FormatFollowsGrammar
  <2> QED
    BY <1>2, <2>1, <2>2, <2>3, StepsAre, CallsAre
<1> QED
  BY <1>1, <1>2, PTL DEF Spec

(* string_compare() with NULL for an argument, too.                        *)
LEMMA CompareAnswers ==
  ASSUME NEW mem \in Memory, NEW lhs \in Addr \cup {NULL}, NEW rhs \in Addr \cup {NULL}
  PROVE  string_compare(mem, lhs, rhs)
           = (lhs # NULL /\ rhs # NULL /\ StringAt(mem, lhs) = StringAt(mem, rhs))
<1>1. NULL \notin Addr
  BY MemoryFacts DEF NULL
<1>2. CASE lhs = NULL \/ rhs = NULL
  BY <1>2 DEF string_compare
<1>3. CASE lhs \in Addr /\ rhs \in Addr
  <2>1. lhs # NULL /\ rhs # NULL
    BY <1>1, <1>3
  <2>2. string_compare(mem, lhs, rhs) = (StringAt(mem, lhs) = StringAt(mem, rhs))
    BY <1>3, StringCompare
  <2> QED
    BY <2>1, <2>2, Zenon
<1> QED
  BY <1>2, <1>3

(* The functions that only read answer as the strings themselves would:    *)
(* equality, and the first or the last place of what is searched for.      *)
THEOREM TextQueries == Spec => []QueriesAnswerRight
<1>1. Init => QueriesAnswerRight
  BY DEF Init, QueriesAnswerRight
<1>2. ASSUME QueriesAnswerRight, [Next]_vars
      PROVE  QueriesAnswerRight'
  <2>1. CASE Compare
    <3>1. PICK mem \in Memory, lhs \in Addr \cup {NULL}, rhs \in Addr \cup {NULL} :
            call' = "compare" /\ args' = <<mem, lhs, rhs>> /\ result' = string_compare(mem, lhs, rhs)
      BY <2>1, Zenon DEF Compare, Calls
    <3>2. args'[1] = mem /\ args'[2] = lhs /\ args'[3] = rhs
      BY <3>1, Arguments, Zenon
    <3>3. result' = (lhs # NULL /\ rhs # NULL /\ StringAt(mem, lhs) = StringAt(mem, rhs))
      BY <3>1, CompareAnswers, Zenon
    <3> QED
      BY <3>1, <3>2, <3>3, Zenon DEF QueriesAnswerRight
  <2>2. CASE Search
    <3>1. PICK mem \in Memory, str \in Addr :
            \/ \E c \in Letter : Calls("find", <<mem, str, c>>, string_find(mem, str, c))
            \/ \E seq \in Addr : Calls("findString", <<mem, str, seq>>, string_findString(mem, str, seq))
            \/ \E c \in Letter \cup {Nul}, strLength \in 0 .. string_length(mem, str) :
                 Calls("findFromBack", <<mem, str, strLength, c>>,
                       string_findFromBack(mem, str, strLength, c))
      BY <2>2, Zenon DEF Search
    <3>2. ASSUME NEW c \in Letter, Calls("find", <<mem, str, c>>, string_find(mem, str, c))
          PROVE  QueriesAnswerRight'
      <4>1. call' = "find" /\ args' = <<mem, str, c>> /\ result' = string_find(mem, str, c)
        BY <3>2, Zenon DEF Calls
      <4>2. args'[1] = mem /\ args'[2] = str /\ args'[3] = c
        BY <4>1, Arguments, Zenon
      <4>3. LET places == {p \in str .. str + Len(StringAt(mem, str)) : mem[p] = c}
            IN  places # {} => string_find(mem, str, c) = Min(places)
        BY FindAnswers
      <4> QED
        BY <4>1, <4>2, <4>3, Zenon DEF QueriesAnswerRight
    <3>3. ASSUME NEW seq \in Addr, Calls("findString", <<mem, str, seq>>, string_findString(mem, str, seq))
          PROVE  QueriesAnswerRight'
      <4>1. call' = "findString" /\ args' = <<mem, str, seq>> /\ result' = string_findString(mem, str, seq)
        BY <3>3, Zenon DEF Calls
      <4>2. args'[1] = mem /\ args'[2] = str /\ args'[3] = seq
        BY <4>1, Arguments, Zenon
      <4>3. LET found == {p \in str .. str + Len(StringAt(mem, str)) :
                            StringAt(mem, seq) # <<>> /\ IsPrefix(StringAt(mem, seq), StringAt(mem, p))}
            IN  string_findString(mem, str, seq) = IF found = {} THEN NULL ELSE Min(found)
        BY FindStringAnswers
      <4> QED
        BY <4>1, <4>2, <4>3, Zenon DEF QueriesAnswerRight
    <3>4. ASSUME NEW c \in Letter \cup {Nul}, NEW strLength \in 0 .. string_length(mem, str),
                 Calls("findFromBack", <<mem, str, strLength, c>>,
                       string_findFromBack(mem, str, strLength, c))
          PROVE  QueriesAnswerRight'
      <4>1. /\ call' = "findFromBack" /\ args' = <<mem, str, strLength, c>>
            /\ result' = string_findFromBack(mem, str, strLength, c)
        BY <3>4, Zenon DEF Calls
      <4>2. args'[1] = mem /\ args'[2] = str /\ args'[3] = strLength /\ args'[4] = c
        BY <4>1, Arguments, Zenon
      <4>3. str \in Nat /\ strLength \in Nat
        BY MemoryFacts, StringLength
      <4>4. LET places == {p \in str .. str + strLength : mem[p] = c}
            IN  string_findFromBack(mem, str, strLength, c) = IF places = {} THEN NULL ELSE Max(places)
        BY <4>3, FindFromBackAnswers
      <4> QED
        BY <4>1, <4>2, <4>4, Zenon DEF QueriesAnswerRight
    <3> QED
      BY <3>1, <3>2, <3>3, <3>4, Zenon
  <2>3. CASE UNCHANGED vars
    BY <1>2, <2>3, Zenon DEF QueriesAnswerRight, vars
  <2>4. CASE call' \notin {"compare", "find", "findString", "findFromBack"}
    BY <2>4, Zenon DEF QueriesAnswerRight
  <2> QED
    BY <1>2, <2>1, <2>2, <2>3, <2>4, StepsAre, CallsAre
<1> QED
  BY <1>1, <1>2, PTL DEF Spec

(* string_copy() and string_append() copy from src up to the next '\0',    *)
(* which for an empty string is not its own, and touch nothing else.       *)
THEOREM TextCopies == Spec => []CopiesUpToNul
<1>1. Init => CopiesUpToNul
  BY DEF Init, CopiesUpToNul
<1>2. ASSUME CopiesUpToNul, [Next]_vars
      PROVE  CopiesUpToNul'
  <2>1. CASE Copy
    <3>1. PICK mem \in Memory, dest \in Addr, src \in Addr :
            /\ Copyable(mem, dest, src)
            /\ call' = "copy" /\ args' = <<mem, dest, src>> /\ result' = string_copy(mem, dest, src)
      BY <2>1, Zenon DEF Copy, Calls
    <3>2. args'[1] = mem /\ args'[2] = dest /\ args'[3] = src
      BY <3>1, Arguments, Zenon
    <3>3. dest \in Nat
      BY MemoryFacts
    <3>4. result' = Moved(mem, dest, src, CopyEnd(mem, dest, src) - src)
      BY <3>1, <3>3, StringCopy
    <3> QED
      BY <3>1, <3>2, <3>4, Zenon DEF CopiesUpToNul, Moved
  <2>2. CASE AppendTo
    <3>1. PICK mem \in Memory, dest \in Addr, src \in Addr :
            /\ Copyable(mem, dest + string_length(mem, dest), src)
            /\ call' = "append" /\ args' = <<mem, dest, src>> /\ result' = string_append(mem, dest, src)
      BY <2>2, Zenon DEF AppendTo, Calls
    <3>2. args'[1] = mem /\ args'[2] = dest /\ args'[3] = src
      BY <3>1, Arguments, Zenon
    <3> DEFINE end == dest + Len(StringAt(mem, dest))
    <3>3. end \in Nat /\ end = dest + string_length(mem, dest)
      BY MemoryFacts, StringLength
    <3>4. Copyable(mem, end, src) /\ result' = string_copy(mem, end, src)
      BY <3>1, <3>3, Zenon DEF string_append
    <3> HIDE DEF end
    <3>5. result' = Moved(mem, end, src, CopyEnd(mem, end, src) - src)
      BY <3>3, <3>4, StringCopy
    <3>6. call' # "copy"
      BY <3>1
    <3> QED
      BY <3>1, <3>2, <3>5, <3>6, Zenon DEF CopiesUpToNul, Moved, end
  <2>3. CASE UNCHANGED vars
    BY <1>2, <2>3, Zenon DEF CopiesUpToNul, vars
  <2>4. CASE call' \notin {"copy", "append"}
    BY <2>4, Zenon DEF CopiesUpToNul
  <2> QED
    BY <1>2, <2>1, <2>2, <2>3, <2>4, StepsAre, CallsAre
<1> QED
  BY <1>1, <1>2, PTL DEF Spec

(* string_find() finds where a part of the string ends.                    *)
LEMMA PartEndIs ==
  ASSUME NEW mem \in Memory, NEW str \in Addr, NEW delimeter
  PROVE  PartEnd(mem, str, delimeter) = string_find(mem, str, delimeter)
<1> DEFINE end == string_find(mem, str, delimeter)
           places == {p \in Addr : p >= str /\ mem[p] \in {Nul, delimeter}}
<1>1. /\ end \in str .. MemSize - 1 /\ mem[end] \in {Nul, delimeter}
      /\ \A p \in str .. end - 1 : mem[p] \notin {Nul, delimeter}
  BY StringFind
<1>2. str \in Nat /\ MemSize \in Nat /\ Addr \subseteq Int
  BY MemoryFacts, TextAssumption
<1> HIDE DEF end
<1>3. end \in places /\ places \subseteq Int /\ \A p \in places : end <= p
  BY <1>1, <1>2 DEF Addr
<1> HIDE DEF places
<1>4. Min(places) = end
  BY <1>3, MinIs
<1> QED
  BY <1>4 DEF PartEnd, places, end

(* The tokens are the parts of the string.                                 *)
TheParts(mem, str, delimeter, max, after, destArr) ==
  LET count == Len(destArr)
      end(n) == PartEnd(mem, destArr[n], delimeter)
      strEnd == str + Len(StringAt(mem, str))
  IN  /\ count <= max /\ (count = 0 => max = 0)
      /\ \A n \in 1 .. count :
           /\ destArr[n] = IF n = 1 THEN str ELSE end(n - 1) + 1
           /\ StringAt(after, destArr[n]) = [i \in 1 .. end(n) - destArr[n] |-> mem[(destArr[n] + i) - 1]]
      /\ count < max => end(count) = strEnd
      /\ \A p \in Addr : after[p] # mem[p] => mem[p] = delimeter /\ p \in str .. strEnd

(* A part of a string is a string of its own when a '\0' follows it.       *)
LEMMA PartAt ==
  ASSUME NEW after, NEW first \in Addr, NEW last \in Addr, first <= last,
         after[last] = Nul, \A p \in first .. last - 1 : after[p] # Nul
  PROVE  StringAt(after, first) = [i \in 1 .. last - first |-> after[(first + i) - 1]]
<1> DEFINE length == last - first
<1>1. first \in Nat /\ last \in Nat
  BY MemoryFacts
<1>2. length \in Nat /\ first + length = last
  BY <1>1
<1> HIDE DEF length
<1>3. first + length \in Addr /\ after[first + length] = Nul
      /\ \A p \in first .. (first + length) - 1 : after[p] # Nul
  BY <1>2
<1>4. StringAt(after, first) = [i \in 1 .. length |-> after[(first + i) - 1]]
  BY <1>2, <1>3, StringAtIs
<1> QED
  BY <1>4 DEF length

(* What the invariant of string_tokenize() says of the parts, in the words *)
(* of the strings alone.                                                   *)
LEMMA TokensAreParts ==
  ASSUME NEW mem \in Memory, NEW str \in Addr, NEW delimeter \in Letter, NEW max \in Nat, NEW t,
         TokensInv(mem, str, delimeter, max, t)
  PROVE  TheParts(mem, str, delimeter, max, t.mem, t.destArr)
<1> DEFINE find(p) == string_find(mem, p, delimeter)
           strEnd == str + string_length(mem, str)
           count == Len(t.destArr)
           end(n) == PartEnd(mem, t.destArr[n], delimeter)
<1>1. /\ t.mem \in Memory /\ t.destArr \in Seq(str .. strEnd)
      /\ \A p \in Addr : t.mem[p] # mem[p] => mem[p] = delimeter /\ p \in str .. strEnd
      /\ count <= max
  BY DEF TokensInv
<1>2. \A i \in 1 .. count :
        /\ t.destArr[i] = IF i = 1 THEN str ELSE find(t.destArr[i - 1]) + 1
        /\ t.mem[find(t.destArr[i])] = Nul
        /\ \A p \in t.destArr[i] .. find(t.destArr[i]) - 1 : t.mem[p] = mem[p]
  BY DEF TokensInv
<1>3. /\ t.str # NULL => count = max
      /\ t.str = NULL => count > 0 /\ find(t.destArr[count]) = strEnd
  BY DEF TokensInv
<1>4. strEnd = str + Len(StringAt(mem, str)) /\ str \in Nat
  BY StringLength, MemoryFacts
<1>5. count \in Nat /\ \A i \in 1 .. count : t.destArr[i] \in str .. strEnd
  <2> DEFINE S == str .. strEnd
  <2>1. t.destArr \in Seq(S)
    BY <1>1
  <2> HIDE DEF S
  <2>2. count \in Nat /\ \A i \in 1 .. count : t.destArr[i] \in S
    BY <2>1
  <2> QED
    BY <2>2 DEF S
<1>6. ASSUME NEW i \in 1 .. count
      PROVE  /\ t.destArr[i] \in Addr /\ end(i) = find(t.destArr[i])
             /\ find(t.destArr[i]) \in t.destArr[i] .. strEnd /\ find(t.destArr[i]) \in Addr
             /\ \A p \in t.destArr[i] .. find(t.destArr[i]) - 1 : mem[p] # Nul
  <2>1. t.destArr[i] \in str .. str + string_length(mem, str)
    BY <1>5
  <2>2. /\ t.destArr[i] \in Addr /\ find(t.destArr[i]) \in t.destArr[i] .. strEnd
        /\ find(t.destArr[i]) \in Addr
        /\ \A p \in t.destArr[i] .. find(t.destArr[i]) - 1 : mem[p] \notin {Nul, delimeter}
    BY <2>1, FindWithin
  <2>3. end(i) = find(t.destArr[i])
    BY <2>2, PartEndIs
  <2> QED
    BY <2>2, <2>3
<1>7. ASSUME NEW n \in 1 .. count
      PROVE  /\ t.destArr[n] = IF n = 1 THEN str ELSE end(n - 1) + 1
             /\ StringAt(t.mem, t.destArr[n])
                  = [i \in 1 .. end(n) - t.destArr[n] |-> mem[(t.destArr[n] + i) - 1]]
  <2> DEFINE first == t.destArr[n]
             last == find(t.destArr[n])
             length == last - first
  <2>1. first = IF n = 1 THEN str ELSE end(n - 1) + 1
    <3>1. CASE n = 1
      BY <1>2, <3>1
    <3>2. CASE n # 1
      <4>1. n - 1 \in 1 .. count
        BY <1>5, <3>2
      <4>2. end(n - 1) = find(t.destArr[n - 1])
        BY <1>6, <4>1
      <4> QED
        BY <1>2, <3>2, <4>2
    <3> QED
      BY <3>1, <3>2
  <2>2. /\ first \in Addr /\ last \in first .. strEnd /\ last \in Addr /\ end(n) = last
        /\ \A p \in first .. last - 1 : mem[p] # Nul
    BY <1>6
  <2>3. t.mem[last] = Nul /\ \A p \in first .. last - 1 : t.mem[p] = mem[p]
    BY <1>2
  <2>4. Addr \subseteq Nat
    BY MemoryFacts
  <2> HIDE DEF first, last, end
  <2>5. length \in Nat /\ first + length = last /\ first + length \in Addr /\ first \in Nat /\ last \in Nat
    BY <2>2, <2>4
  <2>6. t.mem[first + length] = Nul /\ \A p \in first .. (first + length) - 1 : t.mem[p] # Nul
    BY <2>2, <2>3, <2>5
  <2> HIDE DEF length
  <2> DEFINE after == t.mem
  <2>10. /\ first \in Addr /\ last \in Addr /\ first <= last
         /\ after[last] = Nul /\ \A p \in first .. last - 1 : after[p] # Nul
    BY <2>2, <2>5, <2>6
  <2> HIDE DEF after
  <2>11. StringAt(after, first) = [i \in 1 .. last - first |-> after[(first + i) - 1]]
    BY <2>10, PartAt
  <2>7. StringAt(t.mem, first) = [i \in 1 .. length |-> t.mem[(first + i) - 1]]
    BY <2>11 DEF after, length
  <2>8. \A i \in 1 .. length : t.mem[(first + i) - 1] = mem[(first + i) - 1]
    BY <2>3, <2>5
  <2>9. StringAt(t.mem, first) = [i \in 1 .. end(n) - first |-> mem[(first + i) - 1]]
    BY <2>2, <2>7, <2>8 DEF length
  <2> QED
    BY <2>1, <2>9 DEF first
<1>8. count = 0 => max = 0
  BY <1>3, <1>5
<1>9. count < max => end(count) = strEnd
  <2> SUFFICES ASSUME count < max PROVE end(count) = strEnd
    OBVIOUS
  <2>1. t.str = NULL
    BY <1>3, <1>5
  <2>2. count > 0 /\ find(t.destArr[count]) = strEnd
    BY <1>3, <2>1
  <2>3. count \in 1 .. count
    BY <1>5, <2>2
  <2> QED
    BY <1>6, <2>2, <2>3
<1> HIDE DEF find, strEnd, count, end
<1>10. /\ count <= max /\ (count = 0 => max = 0)
       /\ \A n \in 1 .. count :
            /\ t.destArr[n] = IF n = 1 THEN str ELSE end(n - 1) + 1
            /\ StringAt(t.mem, t.destArr[n]) = [i \in 1 .. end(n) - t.destArr[n] |-> mem[(t.destArr[n] + i) - 1]]
       /\ count < max => end(count) = strEnd
       /\ \A p \in Addr : t.mem[p] # mem[p] => mem[p] = delimeter /\ p \in str .. strEnd
  BY <1>1, <1>7, <1>8, <1>9, Zenon
<1>11. strEnd = str + Len(StringAt(mem, str))
  BY <1>4
<1> QED
  BY <1>10, <1>11, Zenon DEF TheParts, count, end

(* string_tokenize() returns the parts of the string between delimiters,   *)
(* as strings of their own and in order, and changes only delimiters; or   *)
(* it refuses its arguments and changes nothing.                           *)
THEOREM TextTokens == Spec => []TokensAreTheParts
<1>1. Init => TokensAreTheParts
  BY DEF Init, TokensAreTheParts
<1>2. ASSUME TokensAreTheParts, [Next]_vars
      PROVE  TokensAreTheParts'
  <2>1. CASE Tokens
    <3>1. PICK mem \in Memory, destArr \in {NULL, MemSize}, str \in Addr \cup {NULL},
               delimeter \in Letter \cup {Nul}, max \in 0 .. MaxTokens :
            /\ args' = <<mem, destArr, str, delimeter, max>>
            /\ result' = string_tokenize(mem, destArr, str, delimeter, max)
      BY <2>1, Zenon DEF Tokens, Calls
    <3>2. /\ args'[1] = mem /\ args'[2] = destArr /\ args'[3] = str
          /\ args'[4] = delimeter /\ args'[5] = max
      BY <3>1, Arguments, Zenon
    <3>3. CASE destArr = NULL \/ str = NULL \/ delimeter = Nul
      <4>1. result' = [mem |-> mem, destArr |-> <<>>, returned |-> -1]
        BY <3>1, <3>3, Zenon DEF string_tokenize
      <4>2. result'.returned = -1 /\ result'.destArr = <<>> /\ result'.mem = mem
        BY <4>1
      <4> QED
        BY <3>2, <3>3, <4>2, Zenon DEF TokensAreTheParts
    <3>4. CASE ~(destArr = NULL \/ str = NULL \/ delimeter = Nul)
      <4> DEFINE end == Tokenized(mem, str, delimeter)[max]
      <4>1. str \in Addr /\ delimeter \in Letter /\ max \in Nat
        BY <3>4, TextAssumption
      <4>2. TheParts(mem, str, delimeter, max, end.mem, end.destArr)
        BY <4>1, StringTokenize, TokensAreParts
      <4> HIDE DEF end
      <4>3. result' = [mem |-> end.mem, destArr |-> end.destArr, returned |-> Len(end.destArr)]
        BY <3>1, <3>4, Zenon DEF string_tokenize, end
      <4>4. /\ result'.mem = end.mem /\ result'.destArr = end.destArr
            /\ result'.returned = Len(end.destArr)
        BY <4>3
      <4>5. /\ TheParts(args'[1], args'[3], args'[4], args'[5], result'.mem, result'.destArr)
            /\ result'.returned = Len(result'.destArr)
        BY <3>2, <4>2, <4>4, Zenon
      <4>6. ~(args'[2] = NULL \/ args'[3] = NULL \/ args'[4] = Nul)
        BY <3>2, <3>4, Zenon
      <4> QED
        BY <4>5, <4>6, Zenon DEF TokensAreTheParts, TheParts
    <3> QED
      BY <3>3, <3>4
  <2>2. CASE UNCHANGED vars
    BY <1>2, <2>2 DEF TokensAreTheParts, vars
  <2>3. CASE call' # "tokenize"
    BY <2>3, Zenon DEF TokensAreTheParts
  <2> QED
    BY <1>2, <2>1, <2>2, <2>3, StepsAre, CallsAre
<1> QED
  BY <1>1, <1>2, PTL DEF Spec
=============================================================================
