------------------------------- MODULE Loops -------------------------------
(***************************************************************************)
(* A loop, as the functions of Strings and Format are written: what it     *)
(* keeps after n turns is a recursive function of n, and it stops at the   *)
(* first place where its condition holds.  Instantiated with the condition *)
(* and the body of one loop, the theorems say that these functions are     *)
(* what their equations make them.                                         *)
(***************************************************************************)
EXTENDS Integers, FiniteSetTheorems, TLAPS

(* a, b, c and d are the arguments of the function that contains the loop. *)
CONSTANTS
  Start(_, _, _, _),         \* what the loop begins with
  Turn(_, _, _, _, _, _),    \* what the n-th turn makes of what was before
  Ends(_, _, _, _, _)        \* whether the loop stops at a place

After(a, b, c, d) ==
  LET after[n \in Nat] ==
        IF n = 0 THEN Start(a, b, c, d) ELSE Turn(a, b, c, d, n, after[n - 1])
  IN  after

Stop(a, b, c, d) ==
  LET stop[n \in Nat] == IF Ends(a, b, c, d, n) THEN n ELSE stop[n + 1]
  IN  stop

-----------------------------------------------------------------------------

(* A set of numbers that is not empty has a least member: the intervals    *)
(* below its members are finite sets, among which one has no proper        *)
(* subset.                                                                 *)
LEMMA LeastNumber ==
  ASSUME NEW T \in SUBSET Nat, T # {}
  PROVE  \E x \in T : \A y \in T : x <= y
<1> DEFINE Below == {0 .. n - 1 : n \in T}
           R == StrictSubsetOrdering(Nat)
<1>1. Below \subseteq FiniteSubsetsOf(Nat)
  <2> SUFFICES ASSUME NEW n \in T
               PROVE  0 .. n - 1 \in FiniteSubsetsOf(Nat)
    OBVIOUS
  <2>1. IsFiniteSet(0 .. n - 1)
    BY FS_Interval
  <2>2. 0 .. n - 1 \subseteq Nat
    OBVIOUS
  <2> QED
    BY <2>1, <2>2 DEF FiniteSubsetsOf
<1>2. PICK s \in Below : \A t \in Below : <<t, s>> \notin R
  <2>1. Below # {}
    OBVIOUS
  <2>2. IsWellFoundedOn(R, FiniteSubsetsOf(Nat))
    BY FS_StrictSubsetOrderingWellFounded
  <2> HIDE DEF Below, R
  <2> QED
    BY <1>1, <2>1, <2>2, WFMin
<1>3. PICK x \in T : s = 0 .. x - 1
  OBVIOUS
<1>4. ASSUME NEW y \in T, y < x
      PROVE  FALSE
  <2>1. 0 .. y - 1 \in Below
    OBVIOUS
  <2>2. <<0 .. y - 1, 0 .. x - 1>> \notin R
    BY <1>2, <1>3, <2>1
  <2>3. /\ 0 .. y - 1 \subseteq 0 .. x - 1 /\ y \in 0 .. x - 1 /\ y \notin 0 .. y - 1
        /\ 0 .. x - 1 \subseteq Nat /\ 0 .. y - 1 \subseteq Nat
    BY <1>4
  <2> QED
    BY <2>2, <2>3 DEF StrictSubsetOrdering
<1> QED
  BY <1>4

(* Induction, for a set that is given: the library's theorem takes an      *)
(* operator.                                                               *)
LEMMA SetInduction ==
  ASSUME NEW T, 0 \in T, \A n \in Nat : n \in T => n + 1 \in T
  PROVE  Nat \subseteq T
<1> SUFFICES ASSUME Nat \ T # {} PROVE FALSE
  OBVIOUS
<1>1. PICK x \in Nat \ T : \A y \in Nat \ T : x <= y
  BY LeastNumber
<1>2. x # 0 /\ x - 1 \in Nat /\ x - 1 < x /\ (x - 1) + 1 = x
  BY <1>1
<1>3. x - 1 \in T
  BY <1>1, <1>2
<1> QED
  BY <1>1, <1>2, <1>3

-----------------------------------------------------------------------------

(* The function has the equation up to a bound.                            *)
IsIteration(f, a, b, c, d, D) ==
  f = [n \in D |-> IF n = 0 THEN Start(a, b, c, d) ELSE Turn(a, b, c, d, n, f[n - 1])]

(* Up to every bound there is such a function,                             *)
LEMMA PrefixExists ==
  ASSUME NEW a, NEW b, NEW c, NEW d, NEW n \in Nat
  PROVE  \E f : IsIteration(f, a, b, c, d, 0 .. n)
<1> DEFINE T == {k \in Nat : \E f : IsIteration(f, a, b, c, d, 0 .. k)}
<1>1. 0 \in T
  <2> DEFINE f == [k \in 0 .. 0 |-> Start(a, b, c, d)]
  <2>1. f = [k \in 0 .. 0 |-> IF k = 0 THEN Start(a, b, c, d) ELSE Turn(a, b, c, d, k, f[k - 1])]
    OBVIOUS
  <2> QED
    BY <2>1 DEF IsIteration
<1>2. ASSUME NEW k \in Nat, k \in T PROVE k + 1 \in T
  <2>1. PICK f : IsIteration(f, a, b, c, d, 0 .. k)
    BY <1>2
  <2> DEFINE g == [i \in 0 .. k + 1 |-> IF i = k + 1 THEN Turn(a, b, c, d, i, f[k]) ELSE f[i]]
  <2>2. \A i \in 0 .. k : f[i] = IF i = 0 THEN Start(a, b, c, d) ELSE Turn(a, b, c, d, i, f[i - 1])
    BY <2>1 DEF IsIteration
  <2>3. \A i \in 0 .. k : g[i] = f[i]
    OBVIOUS
  <2>4. \A i \in 0 .. k + 1 : g[i] = IF i = 0 THEN Start(a, b, c, d) ELSE Turn(a, b, c, d, i, g[i - 1])
    <3> TAKE i \in 0 .. k + 1
    <3>1. CASE i = k + 1
      <4>1. i - 1 = k /\ i # 0 /\ k \in 0 .. k
        BY <3>1
      <4>2. g[i] = Turn(a, b, c, d, i, f[k])
        BY <3>1
      <4> QED
        BY <4>1, <4>2, <2>3
    <3>2. CASE i \in 0 .. k /\ i # 0
      <4>1. i - 1 \in 0 .. k
        BY <3>2
      <4> HIDE DEF g
      <4> QED
        BY <2>2, <2>3, <3>2, <4>1
    <3>3. CASE i = 0
      BY <2>2, <2>3, <3>3
    <3> QED
      BY <3>1, <3>2, <3>3
  <2>5. g = [i \in 0 .. k + 1 |-> IF i = 0 THEN Start(a, b, c, d) ELSE Turn(a, b, c, d, i, g[i - 1])]
    BY <2>4
  <2> HIDE DEF g
  <2> QED
    BY <2>5 DEF IsIteration
<1> HIDE DEF T
<1>3. Nat \subseteq T
  BY <1>1, <1>2, SetInduction
<1> QED
  BY <1>3 DEF T

(* and two of them agree as far as both go.                                *)
LEMMA PrefixUnique ==
  ASSUME NEW a, NEW b, NEW c, NEW d, NEW m \in Nat, NEW n \in Nat, NEW f, NEW g,
         IsIteration(f, a, b, c, d, 0 .. m), IsIteration(g, a, b, c, d, 0 .. n),
         NEW k \in Nat, k <= m, k <= n
  PROVE  f[k] = g[k]
<1> DEFINE T == {i \in Nat : i <= m /\ i <= n => f[i] = g[i]}
<1>0. /\ \A i \in 0 .. m : f[i] = IF i = 0 THEN Start(a, b, c, d) ELSE Turn(a, b, c, d, i, f[i - 1])
      /\ \A i \in 0 .. n : g[i] = IF i = 0 THEN Start(a, b, c, d) ELSE Turn(a, b, c, d, i, g[i - 1])
  BY DEF IsIteration
<1>1. 0 \in T
  BY <1>0
<1>2. ASSUME NEW i \in Nat, i \in T PROVE i + 1 \in T
  <2> SUFFICES ASSUME i + 1 <= m, i + 1 <= n PROVE f[i + 1] = g[i + 1]
    OBVIOUS
  <2>1. f[i] = g[i]
    BY <1>2
  <2>2. f[i + 1] = Turn(a, b, c, d, i + 1, f[i]) /\ g[i + 1] = Turn(a, b, c, d, i + 1, g[i])
    <3>1. i + 1 \in 0 .. m /\ i + 1 \in 0 .. n /\ i + 1 # 0 /\ (i + 1) - 1 = i
      OBVIOUS
    <3> QED
      BY <1>0, <3>1
  <2> QED
    BY <2>1, <2>2
<1> HIDE DEF T
<1>3. Nat \subseteq T
  BY <1>1, <1>2, SetInduction
<1> QED
  BY <1>3 DEF T

(* So there is one for all numbers of turns.                               *)
THEOREM IterationExists ==
  ASSUME NEW a, NEW b, NEW c, NEW d
  PROVE  \E f : IsIteration(f, a, b, c, d, Nat)
<1> DEFINE upTo(n) == CHOOSE f : IsIteration(f, a, b, c, d, 0 .. n)
           f == [n \in Nat |-> upTo(n)[n]]
<1>1. \A n \in Nat : IsIteration(upTo(n), a, b, c, d, 0 .. n)
  BY PrefixExists
<1> HIDE DEF upTo
<1>2. \A n \in Nat : f[n] = IF n = 0 THEN Start(a, b, c, d) ELSE Turn(a, b, c, d, n, f[n - 1])
  <2> TAKE n \in Nat
  <2>1. upTo(n)[n] = IF n = 0 THEN Start(a, b, c, d) ELSE Turn(a, b, c, d, n, upTo(n)[n - 1])
    BY <1>1 DEF IsIteration
  <2>2. ASSUME n # 0 PROVE upTo(n)[n - 1] = f[n - 1]
    <3>1. n - 1 \in Nat /\ n - 1 <= n
      BY <2>2
    <3>2. upTo(n)[n - 1] = upTo(n - 1)[n - 1]
      <4>1. IsIteration(upTo(n), a, b, c, d, 0 .. n) /\ IsIteration(upTo(n - 1), a, b, c, d, 0 .. n - 1)
        BY <1>1, <3>1
      <4> QED
        BY <4>1, <3>1, PrefixUnique
    <3> QED
      BY <3>1, <3>2
  <2> QED
    BY <2>1, <2>2
<1>3. f = [n \in Nat |-> IF n = 0 THEN Start(a, b, c, d) ELSE Turn(a, b, c, d, n, f[n - 1])]
  BY <1>2
<1> HIDE DEF f
<1>4. IsIteration(f, a, b, c, d, Nat)
  BY <1>3 DEF IsIteration
<1> QED
  BY <1>4

(* What a loop keeps begins with Start, and every turn makes of it what    *)
(* Turn says.                                                              *)
THEOREM AfterEquation ==
  ASSUME NEW a, NEW b, NEW c, NEW d
  PROVE  /\ After(a, b, c, d)[0] = Start(a, b, c, d)
         /\ \A n \in Nat : After(a, b, c, d)[n + 1] = Turn(a, b, c, d, n + 1, After(a, b, c, d)[n])
<1> DEFINE after == CHOOSE f : IsIteration(f, a, b, c, d, Nat)
<1>1. After(a, b, c, d) = after
  BY DEF After, IsIteration
<1>2. IsIteration(after, a, b, c, d, Nat)
  BY IterationExists
<1>3. after = [n \in Nat |-> IF n = 0 THEN Start(a, b, c, d) ELSE Turn(a, b, c, d, n, after[n - 1])]
  BY <1>2 DEF IsIteration
<1> HIDE DEF after
<1>4. after[0] = Start(a, b, c, d)
  BY <1>3
<1>5. ASSUME NEW n \in Nat PROVE after[n + 1] = Turn(a, b, c, d, n + 1, after[n])
  <2>1. n + 1 \in Nat /\ n + 1 # 0 /\ (n + 1) - 1 = n
    OBVIOUS
  <2> QED
    BY <1>3, <2>1
<1> QED
  BY <1>1, <1>4, <1>5

(* There is a function with the equation of Stop: from each place on, the  *)
(* first one where the condition holds, or any value if it never does.     *)
LEMMA StopFunctionExists ==
  ASSUME NEW a, NEW b, NEW c, NEW d
  PROVE  \E f : f = [n \in Nat |-> IF Ends(a, b, c, d, n) THEN n ELSE f[n + 1]]
<1> DEFINE End(n) == {q \in Nat : q >= n /\ Ends(a, b, c, d, q)}
           least(T) == CHOOSE x \in T : \A y \in T : x <= y
           f == [n \in Nat |-> least(End(n))]
<1>1. ASSUME NEW n \in Nat PROVE f[n] = IF Ends(a, b, c, d, n) THEN n ELSE f[n + 1]
  <2>1. CASE Ends(a, b, c, d, n)
    <3>1. n \in End(n) /\ \A y \in End(n) : n <= y
      BY <2>1
    <3>2. \A x \in End(n) : (\A y \in End(n) : x <= y) => x = n
      BY <3>1
    <3> HIDE DEF End
    <3>3. least(End(n)) = n
      BY <3>1, <3>2
    <3> QED
      BY <2>1, <3>3
  <2>2. CASE ~Ends(a, b, c, d, n)
    <3>1. End(n) = End(n + 1) /\ n + 1 \in Nat
      BY <2>2
    <3> HIDE DEF End, least
    <3> QED
      BY <2>2, <3>1
  <2> QED
    BY <2>1, <2>2
<1> HIDE DEF End, least
<1>2. f = [n \in Nat |-> IF Ends(a, b, c, d, n) THEN n ELSE f[n + 1]]
  BY <1>1
<1> QED
  BY <1>2

(* So Stop has the equation that defines it.                               *)
LEMMA StopEquation ==
  ASSUME NEW a, NEW b, NEW c, NEW d, NEW n \in Nat
  PROVE  Stop(a, b, c, d)[n] = IF Ends(a, b, c, d, n) THEN n ELSE Stop(a, b, c, d)[n + 1]
<1> DEFINE Is(f) == f = [m \in Nat |-> IF Ends(a, b, c, d, m) THEN m ELSE f[m + 1]]
           stop == CHOOSE f : Is(f)
<1>1. \E f : Is(f)
  BY StopFunctionExists, Zenon
<1>2. Stop(a, b, c, d) = stop
  BY DEF Stop
<1>3. Is(stop)
  <2> HIDE DEF Is
  <2> QED
    BY <1>1
<1> HIDE DEF stop
<1> QED
  BY <1>2, <1>3

(* A loop stops at a place where its condition holds, if it holds at none  *)
(* before.                                                                 *)
THEOREM StopFound ==
  ASSUME NEW a, NEW b, NEW c, NEW d, NEW p \in Nat, NEW q \in Nat, p <= q,
         Ends(a, b, c, d, q), \A r \in p .. q - 1 : ~Ends(a, b, c, d, r)
  PROVE  Stop(a, b, c, d)[p] = q
<1> DEFINE T == {n \in Nat : n <= q - p => Stop(a, b, c, d)[q - n] = q}
<1>1. 0 \in T
  <2>1. q - 0 = q
    OBVIOUS
  <2>2. Stop(a, b, c, d)[q] = q
    BY StopEquation
  <2> QED
    BY <2>1, <2>2
<1>2. ASSUME NEW n \in Nat, n \in T PROVE n + 1 \in T
  <2> SUFFICES ASSUME n + 1 <= q - p PROVE Stop(a, b, c, d)[q - (n + 1)] = q
    OBVIOUS
  <2>1. /\ q - (n + 1) \in Nat /\ q - (n + 1) \in p .. q - 1 /\ (q - (n + 1)) + 1 = q - n
        /\ n <= q - p
    OBVIOUS
  <2>2. Stop(a, b, c, d)[q - n] = q
    BY <1>2, <2>1
  <2>3. Stop(a, b, c, d)[q - (n + 1)] = Stop(a, b, c, d)[(q - (n + 1)) + 1]
    BY <2>1, StopEquation
  <2> QED
    BY <2>1, <2>2, <2>3
<1> HIDE DEF T
<1>3. q - p \in T
  BY <1>1, <1>2, SetInduction
<1>4. q - (q - p) = p
  OBVIOUS
<1> QED
  BY <1>3, <1>4 DEF T

(* A loop whose condition holds somewhere stops, no later than there, and  *)
(* its condition does not hold at any place before.                        *)
LEMMA StopIsFirst ==
  ASSUME NEW a, NEW b, NEW c, NEW d, NEW p \in Nat, NEW q \in Nat, p <= q, Ends(a, b, c, d, q)
  PROVE  LET s == Stop(a, b, c, d)[p]
         IN  /\ s \in p .. q /\ Ends(a, b, c, d, s)
             /\ \A r \in p .. s - 1 : ~Ends(a, b, c, d, r)
<1> DEFINE T == {n \in Nat : n >= p /\ Ends(a, b, c, d, n)}
<1>1. PICK s \in T : \A y \in T : s <= y
  <2>1. q \in T /\ T \in SUBSET Nat
    OBVIOUS
  <2> HIDE DEF T
  <2> QED
    BY <2>1, LeastNumber
<1>2. /\ s \in p .. q /\ Ends(a, b, c, d, s) /\ s \in Nat
      /\ \A r \in p .. s - 1 : ~Ends(a, b, c, d, r)
  BY <1>1
<1>3. Stop(a, b, c, d)[p] = s
  BY <1>2, StopFound
<1> QED
  BY <1>2, <1>3
=============================================================================
