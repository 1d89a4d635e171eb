------------------------------ MODULE VmProofs ------------------------------
(***************************************************************************)
(* Theorems about Vm, for every number of entries per table, every page    *)
(* size, every layout of the kernel that the linker script allows and      *)
(* whatever the RAM held before: vm_init() builds a tree of tables that    *)
(* maps each region, and nothing else.                                     *)
(***************************************************************************)
EXTENDS Vm, PageAllocProofs, FunctionTheorems

-----------------------------------------------------------------------------
(* Arithmetic: the four indices of a page are its digits.                  *)

(* Dividing by the entries of a table takes off the last digit.            *)
LEMMA LastDigit ==
  ASSUME NEW v \in Nat
  PROVE  /\ v \div Fanout \in Nat /\ v % Fanout \in Index
         /\ v = Fanout * (v \div Fanout) + (v % Fanout)
BY VmAssumption DEF Index

(* A number below Fanout * n has a quotient below n.                       *)
LEMMA QuotientBelow ==
  ASSUME NEW n \in Nat, NEW v \in 0 .. Fanout * n - 1
  PROVE  v \div Fanout \in 0 .. n - 1
<1> DEFINE q == v \div Fanout
<1>1. q \in Nat /\ v >= Fanout * q
  BY LastDigit, VmAssumption DEF Index
<1> HIDE DEF q
<1>2. ASSUME q >= n  PROVE FALSE
  <2>1. Fanout * q >= Fanout * n
    <3>1. PICK d \in Nat : q = n + d
      <4>1. q - n \in Nat /\ q = n + (q - n)
        BY <1>1, <1>2
      <4> QED
        BY <4>1
    <3>2. Fanout * (n + d) = Fanout * n + Fanout * d
      BY VmAssumption
    <3>3. Fanout * d \in Nat /\ Fanout * n \in Nat
      BY VmAssumption
    <3> QED
      BY <3>1, <3>2, <3>3
  <2>2. Fanout * n \in Nat
    BY VmAssumption
  <2> QED
    BY <1>1, <2>1, <2>2, VmAssumption
<1> QED
  BY <1>1, <1>2 DEF q

(* x and k times the divisor.                                              *)
PlusMultiple(n, x, k) == k * n + x

(* A multiple of the divisor adds to the quotient and not to the           *)
(* remainder.                                                              *)
LEMMA AddMultiple ==
  ASSUME NEW n \in Nat \ {0}, NEW k \in Nat, NEW x \in Nat
  PROVE  /\ PlusMultiple(n, x, k) \div n = k + x \div n
         /\ PlusMultiple(n, x, k) % n = x % n
<1>1. x \div n \in Nat /\ x % n \in 0 .. n - 1 /\ x = n * (x \div n) + (x % n)
  OBVIOUS
<1>2. PlusMultiple(n, x, k) = (k + x \div n) * n + (x % n)
  BY <1>1 DEF PlusMultiple
<1>3. \A q \in Nat, r \in 0 .. n - 1 : (q * n + r) \div n = q /\ (q * n + r) % n = r
  OBVIOUS
<1>4. k + x \div n \in Nat
  BY <1>1
<1> QED
  BY <1>1, <1>2, <1>3, <1>4

(* The quotients of a page by 1, 2 and 3 times Fanout.                     *)
Quot1(v) == v \div Fanout
Quot2(v) == Quot1(v) \div Fanout
Quot3(v) == Quot2(v) \div Fanout

(* Dividing twice is dividing by the product.                              *)
LEMMA TwoDivisions ==
  ASSUME NEW v \in Nat, NEW n \in Nat \ {0}
  PROVE  (v \div Fanout) \div n = v \div (Fanout * n)
<1> DEFINE a == v \div Fanout
           b == a \div n
           r == v % Fanout
           s == a % n
<1>1. a \in Nat /\ r \in 0 .. Fanout - 1 /\ v = Fanout * a + r
  BY LastDigit DEF Index
<1>2. b \in Nat /\ s \in 0 .. n - 1 /\ a = n * b + s
  BY <1>1
<1> HIDE DEF a, b, r, s
<1>3. v = (Fanout * n) * b + (Fanout * s + r)
  BY <1>1, <1>2, VmAssumption
<1>4. Fanout * s + r \in 0 .. Fanout * n - 1
  <2>1. Fanout * s <= Fanout * (n - 1)
    BY <1>2, VmAssumption
  <2>2. Fanout * (n - 1) = Fanout * n - Fanout
    BY VmAssumption
  <2>3. Fanout * s \in Nat /\ Fanout * n \in Nat
    BY <1>2, VmAssumption
  <2> QED
    BY <1>1, <2>1, <2>2, <2>3, VmAssumption
<1>5. Fanout * n \in Nat \ {0}
  BY VmAssumption
<1>6. \A m \in Nat \ {0} : \A q \in Nat, t \in 0 .. m - 1 : (m * q + t) \div m = q
  OBVIOUS
<1> QED
  BY <1>2, <1>3, <1>4, <1>5, <1>6 DEF a, b

(* The indices of the walk are the digits.                                 *)
LEMMA Digits ==
  ASSUME NEW v \in Nat
  PROVE  /\ IndexAt(v, 0) = Quot3(v) % Fanout
         /\ IndexAt(v, 1) = Quot2(v) % Fanout
         /\ IndexAt(v, 2) = Quot1(v) % Fanout
         /\ IndexAt(v, 3) = v % Fanout
<1> USE VmAssumption
<1>1. Fanout * Fanout \in Nat \ {0} /\ Fanout \in Nat \ {0}
  OBVIOUS
<1>2. v \div 1 = v
  OBVIOUS
<1>3. Span[0 + 1] = Fanout * Fanout * Fanout /\ Span[1 + 1] = Fanout * Fanout
      /\ Span[2 + 1] = Fanout /\ Span[3 + 1] = 1
  BY DEF Span
<1>4. Quot1(v) \in Nat
  BY LastDigit DEF Quot1
<1>5. Quot2(v) = v \div (Fanout * Fanout)
  BY <1>1, TwoDivisions DEF Quot1, Quot2
<1>6. Quot3(v) = Quot1(v) \div (Fanout * Fanout)
  BY <1>1, <1>4, TwoDivisions DEF Quot2, Quot3
<1>7. Quot1(v) \div (Fanout * Fanout) = v \div (Fanout * (Fanout * Fanout))
  BY <1>1, TwoDivisions DEF Quot1
<1>8. Fanout * (Fanout * Fanout) = Fanout * Fanout * Fanout
  OBVIOUS
<1> QED
  BY <1>2, <1>3, <1>5, <1>6, <1>7, <1>8 DEF IndexAt, Quot1

(* The quotients of a page of the address space have 3, 2 and 1 digits.    *)
LEMMA QuotientsAreSmall ==
  ASSUME NEW v \in VPage
  PROVE  /\ v \in Nat
         /\ Quot1(v) \in 0 .. Fanout * (Fanout * Fanout) - 1
         /\ Quot2(v) \in 0 .. Fanout * Fanout - 1
         /\ Quot3(v) \in Index
<1> USE VmAssumption
<1>1. /\ Fanout * (Fanout * Fanout) \in Nat /\ Fanout * Fanout \in Nat
      /\ Fanout * Span[1] = Fanout * (Fanout * (Fanout * Fanout))
  BY DEF Span
<1>2. v \in Nat /\ v \in 0 .. Fanout * (Fanout * (Fanout * Fanout)) - 1
  BY <1>1 DEF VPage
<1>3. Quot1(v) \in 0 .. Fanout * (Fanout * Fanout) - 1
  BY <1>1, <1>2, QuotientBelow DEF Quot1
<1>4. Quot2(v) \in 0 .. Fanout * Fanout - 1
  BY <1>1, <1>3, QuotientBelow DEF Quot2
<1>5. Quot3(v) \in 0 .. Fanout - 1
  BY <1>4, QuotientBelow DEF Quot3
<1> QED
  BY <1>2, <1>3, <1>4, <1>5 DEF Index

(* Every index of a walk is an index.                                      *)
LEMMA IndexType ==
  ASSUME NEW v \in VPage, NEW l \in 0 .. 3
  PROVE  IndexAt(v, l) \in Index
<1>1. v \in Nat /\ Quot1(v) \in Nat /\ Quot2(v) \in Nat /\ Quot3(v) \in Nat
  BY QuotientsAreSmall, LastDigit, VmAssumption DEF Quot1, Quot2, Quot3
<1>2. /\ v % Fanout \in Index /\ Quot1(v) % Fanout \in Index
      /\ Quot2(v) % Fanout \in Index /\ Quot3(v) % Fanout \in Index
  BY <1>1, LastDigit
<1> QED
  BY <1>1, <1>2, Digits

(* Two pages with the same four indices are the same page.                 *)
LEMMA IndicesIdentify ==
  ASSUME NEW v \in VPage, NEW w \in VPage,
         \A l \in 0 .. 3 : IndexAt(v, l) = IndexAt(w, l)
  PROVE  v = w
<1>1. \A x \in VPage : /\ x \in Nat /\ Quot1(x) \in Nat /\ Quot2(x) \in Nat
                       /\ Quot3(x) \in Index /\ Quot3(x) \in Nat
  BY QuotientsAreSmall, LastDigit, VmAssumption DEF Quot1, Quot2, Index
<1>2. \A x \in VPage : Quot3(x) % Fanout = Quot3(x)
  <2>1. Fanout \in Nat \ {0, 1}
    BY VmAssumption
  <2> QED
    BY <1>1, <2>1 DEF Index
<1>3. \A x \in VPage : /\ x = Fanout * Quot1(x) + IndexAt(x, 3)
                       /\ Quot1(x) = Fanout * Quot2(x) + IndexAt(x, 2)
                       /\ Quot2(x) = Fanout * Quot3(x) + IndexAt(x, 1)
                       /\ Quot3(x) = IndexAt(x, 0)
  BY <1>1, <1>2, Digits, LastDigit DEF Quot1, Quot2, Quot3
<1> QED
  BY <1>3

-----------------------------------------------------------------------------
(* The inductive invariant.                                                *)

(* While lev gives each page that was allocated its level: the root alone  *)
(* has level 0; an entry of an upper table is free or points at a table of *)
(* the next level; no two entries point at the same table; and every table *)
(* but the root is pointed at.                                             *)
Linked(lev) ==
  \A t \in held, i \in Index : lev[t] < 3 =>
    \/ ram[t][i] = Invalid
    \/ /\ ram[t][i].address \in held
       /\ ram[t][i] = TableDescriptor(ram[t][i].address)
       /\ lev[ram[t][i].address] = lev[t] + 1

PointedOnce(lev) ==
  \A t, u \in held, i, j \in Index :
    /\ lev[t] < 3 /\ ram[t][i].valid
    /\ lev[u] < 3 /\ ram[u][j].valid
    /\ ram[t][i].address = ram[u][j].address
    => t = u /\ i = j

Pointed(lev) ==
  \A t \in held \ {kernelPagetable} : \E u \in held, i \in Index :
    lev[u] < 3 /\ ram[u][i].valid /\ ram[u][i].address = t

Tree(lev) ==
  /\ lev \in [held -> 0 .. 3]
  /\ kernelPagetable \in held
  /\ \A t \in held : lev[t] = 0 <=> t = kernelPagetable
  /\ Linked(lev) /\ PointedOnce(lev) /\ Pointed(lev)

(* The tables of level 1 and 2 on the way to v; LeafTable is the third.    *)
Table1(mem, v) == Child(mem, kernelPagetable, v, 0)
Table2(mem, v) == Child(mem, Table1(mem, v), v, 1)

(* vm_getPTEAllocating() is on its way to va.                              *)
OnTheWay ==
  /\ table \in held
  /\ level = 0 => table = kernelPagetable
  /\ level = 1 => table = Table1(ram, va)
  /\ level = 2 => table = Table2(ram, va)
  /\ level = 3 => table = LeafTable(ram, kernelPagetable, va)

(* What is mapped of region k, the region being mapped or an earlier one.  *)
MappedOf(k) == Region[k].start .. (IF k = region THEN va ELSE Region[k].start + Region[k].pages) - 1

DescriptorOf(k, v) == PageDescriptor(Region[k].mairIdx, Region[k].pxn, Region[k].ap, v)

(* The tree holds what has been mapped so far and nothing else.            *)
MappedSoFar ==
  \A v \in VPage :
    \/ \E k \in 1 .. region : /\ v \in MappedOf(k)
                              /\ LeafEntry(ram, kernelPagetable, v) = DescriptorOf(k, v)
    \/ /\ \A k \in 1 .. region : v \notin MappedOf(k)
       /\ LeafEntry(ram, kernelPagetable, v) = Invalid

(* Where vm_init() is.                                                     *)
Place ==
  /\ va \in Here.start .. LastPage
  /\ pc = "root" => held = {} /\ region = 1 /\ va = TextStart /\ level = 0
  /\ level # 0 => pc = "map" /\ va # LastPage
  /\ pc \notin {"root", "map"} => region = 5 /\ va = LastPage

(* What vm_init() has written into the system registers.                   *)
RegistersSet ==
  /\ pc \in {"setTables", "enable", "done"} => mair = Attributes
  /\ pc \in {"enable", "done"} => ttbr1 = kernelPagetable

(* The inductive invariant.                                                *)
IInv ==
  /\ TypeOK /\ PoolInv /\ EntriesAreFree /\ Place /\ RegistersSet
  /\ pc # "root" => (\E lev : Tree(lev)) /\ OnTheWay /\ MappedSoFar

-----------------------------------------------------------------------------
(* The way through the tables.                                             *)

(* No page for tables has the address NULL.                                *)
LEMMA NullIsNoPage == NULL \notin PPage
BY PageAllocAssumption DEF NULL, PPage

(* An entry of a table points at nothing or at a table of the next level.  *)
LEMMA ChildOfTable ==
  ASSUME NEW lev, Tree(lev), held \subseteq PPage,
         NEW l \in 0 .. 2, NEW t \in held, lev[t] = l, NEW v \in VPage
  PROVE  \/ /\ Child(ram, t, v, l) = NULL
            /\ ram[t][IndexAt(v, l)] = Invalid
         \/ /\ Child(ram, t, v, l) \in held
            /\ lev[Child(ram, t, v, l)] = l + 1
            /\ ram[t][IndexAt(v, l)] = TableDescriptor(Child(ram, t, v, l))
            /\ ram[t][IndexAt(v, l)].valid
<1> DEFINE i == IndexAt(v, l)
           e == ram[t][i]
<1>1. i \in Index
  BY IndexType
<1>2. t # NULL
  BY NullIsNoPage
<1>3. Child(ram, t, v, l) = e.address
  BY <1>2 DEF Child
<1>4. \/ e = Invalid
      \/ e.address \in held /\ e = TableDescriptor(e.address) /\ lev[e.address] = lev[t] + 1
  BY <1>1 DEF Tree, Linked
<1>5. Invalid.address = NULL /\ \A c : TableDescriptor(c).valid
  BY DEF Invalid, TableDescriptor
<1> QED
  BY <1>3, <1>4, <1>5

(* The tables on the way to v.                                             *)
LEMMA TablesOnTheWay ==
  ASSUME NEW lev, Tree(lev), held \subseteq PPage, NEW v \in VPage
  PROVE  LET root == kernelPagetable
             t1 == Table1(ram, v)
             t2 == Table2(ram, v)
             t3 == LeafTable(ram, root, v)
         IN  /\ root \in held /\ lev[root] = 0
             /\ t1 # NULL => /\ t1 \in held /\ lev[t1] = 1
                             /\ ram[root][IndexAt(v, 0)].valid
                             /\ ram[root][IndexAt(v, 0)].address = t1
             /\ t2 # NULL => /\ t1 # NULL /\ t2 \in held /\ lev[t2] = 2
                             /\ ram[t1][IndexAt(v, 1)].valid
                             /\ ram[t1][IndexAt(v, 1)].address = t2
             /\ t3 # NULL => /\ t2 # NULL /\ t3 \in held /\ lev[t3] = 3
                             /\ ram[t2][IndexAt(v, 2)].valid
                             /\ ram[t2][IndexAt(v, 2)].address = t3
<1> DEFINE root == kernelPagetable
           t1 == Table1(ram, v)
           t2 == Table2(ram, v)
           t3 == LeafTable(ram, root, v)
<1>1. /\ t1 = Child(ram, root, v, 0)
      /\ t2 = Child(ram, t1, v, 1)
      /\ t3 = Child(ram, t2, v, 2)
  BY DEF Table1, Table2, LeafTable
<1>2. root \in held /\ lev[root] = 0
  BY DEF Tree
<1>3. \A t \in held : \A l \in 0 .. 2 : lev[t] = l /\ Child(ram, t, v, l) # NULL =>
        /\ Child(ram, t, v, l) \in held
        /\ lev[Child(ram, t, v, l)] = l + 1
        /\ ram[t][IndexAt(v, l)] = TableDescriptor(Child(ram, t, v, l))
  BY ChildOfTable
<1>4. \A c : TableDescriptor(c).valid /\ TableDescriptor(c).address = c
  BY DEF TableDescriptor, Invalid
<1>5. \A l \in 0 .. 2 : Child(ram, NULL, v, l) = NULL
  BY DEF Child
<1> HIDE DEF t1, t2, t3
<1>6. t1 # NULL => /\ t1 \in held /\ lev[t1] = 1
                   /\ ram[root][IndexAt(v, 0)].valid
                   /\ ram[root][IndexAt(v, 0)].address = t1
  BY <1>1, <1>2, <1>3, <1>4
<1>7. t2 # NULL => /\ t1 # NULL /\ t2 \in held /\ lev[t2] = 2
                   /\ ram[t1][IndexAt(v, 1)].valid
                   /\ ram[t1][IndexAt(v, 1)].address = t2
  BY <1>1, <1>3, <1>4, <1>5, <1>6
<1>8. t3 # NULL => /\ t2 # NULL /\ t3 \in held /\ lev[t3] = 3
                   /\ ram[t2][IndexAt(v, 2)].valid
                   /\ ram[t2][IndexAt(v, 2)].address = t3
  BY <1>1, <1>3, <1>4, <1>5, <1>7
<1> QED
  BY <1>2, <1>6, <1>7, <1>8 DEF t1, t2, t3

(* Two pages whose entries are the same entry of the same table are the    *)
(* same page.                                                              *)
LEMMA LeavesAreApart ==
  ASSUME NEW lev, Tree(lev), held \subseteq PPage, NEW v \in VPage, NEW w \in VPage,
         LeafTable(ram, kernelPagetable, v) # NULL,
         LeafTable(ram, kernelPagetable, v) = LeafTable(ram, kernelPagetable, w),
         IndexAt(v, 3) = IndexAt(w, 3)
  PROVE  v = w
<1> DEFINE root == kernelPagetable
           t1(x) == Table1(ram, x)
           t2(x) == Table2(ram, x)
           t3(x) == LeafTable(ram, root, x)
<1>1. \A x \in {v, w} :
        /\ root \in held /\ lev[root] = 0
        /\ t1(x) # NULL => /\ t1(x) \in held /\ lev[t1(x)] = 1
                           /\ ram[root][IndexAt(x, 0)].valid
                           /\ ram[root][IndexAt(x, 0)].address = t1(x)
        /\ t2(x) # NULL => /\ t1(x) # NULL /\ t2(x) \in held /\ lev[t2(x)] = 2
                           /\ ram[t1(x)][IndexAt(x, 1)].valid
                           /\ ram[t1(x)][IndexAt(x, 1)].address = t2(x)
        /\ t3(x) # NULL => /\ t2(x) # NULL /\ t3(x) \in held /\ lev[t3(x)] = 3
                           /\ ram[t2(x)][IndexAt(x, 2)].valid
                           /\ ram[t2(x)][IndexAt(x, 2)].address = t3(x)
  BY TablesOnTheWay
<1>2. t3(v) # NULL /\ t3(v) = t3(w)
  OBVIOUS
<1>3. \A x \in {v, w}, l \in 0 .. 3 : IndexAt(x, l) \in Index
  BY IndexType
<1>4. \A t, u \in held, i, j \in Index :
        /\ lev[t] < 3 /\ ram[t][i].valid
        /\ lev[u] < 3 /\ ram[u][j].valid
        /\ ram[t][i].address = ram[u][j].address
        => t = u /\ i = j
  BY DEF Tree, PointedOnce
<1> HIDE DEF t1, t2, t3
<1>5. t2(v) = t2(w) /\ IndexAt(v, 2) = IndexAt(w, 2)
  BY <1>1, <1>2, <1>3, <1>4
<1>6. t1(v) = t1(w) /\ IndexAt(v, 1) = IndexAt(w, 1)
  BY <1>1, <1>2, <1>3, <1>4, <1>5
<1>7. IndexAt(v, 0) = IndexAt(w, 0)
  BY <1>1, <1>2, <1>3, <1>4, <1>6
<1>8. \A l \in 0 .. 3 : IndexAt(v, l) = IndexAt(w, l)
  BY <1>5, <1>6, <1>7
<1> QED
  BY <1>8, IndicesIdentify

-----------------------------------------------------------------------------
(* The regions.                                                            *)

(* Rounding up gives at most one page more than rounding down.             *)
LEMMA RoundedUp ==
  ASSUME NEW bytes \in Nat
  PROVE  PageRoundUp(bytes) \in Nat /\ PageRoundUp(bytes) <= bytes \div PageSize + 1
BY VmAssumption DEF PageRoundUp

(* The data starts behind the last page of the code.                       *)
LEMMA DataIsBehindText ==
  ASSUME textSize \in TextSizes
  PROVE  DataStart \in Nat /\ TextStart + PageRoundUp(textSize) <= DataStart
<1>1. textSize \in Nat /\ TextStart \in Nat /\ PageSize \in Nat \ {0}
  BY VmAssumption, LayoutAssumption
<1>2. DataStart = TextStart + (textSize + PageSize) \div PageSize
  <2> DEFINE bytes == PlusMultiple(PageSize, textSize + PageSize, TextStart)
  <2>1. DataStart = bytes \div PageSize
    <3>1. TextStart * PageSize + textSize + 1 + PageSize - 1 = bytes
      BY <1>1 DEF PlusMultiple
    <3> QED
      BY <3>1 DEF DataStart, PageRoundUp
  <2>2. textSize + PageSize \in Nat
    BY <1>1
  <2> QED
    BY <1>1, <2>1, <2>2, AddMultiple
<1>3. (textSize + PageSize) \div PageSize = textSize \div PageSize + 1
  BY <1>1
<1>4. textSize \div PageSize \in Nat
  BY <1>1
<1>5. PageRoundUp(textSize) \in Nat /\ PageRoundUp(textSize) <= textSize \div PageSize + 1
  BY <1>1, RoundedUp
<1> HIDE DEF PageRoundUp
<1> DEFINE q == textSize \div PageSize
<1>6. q \in Nat /\ PageRoundUp(textSize) <= q + 1 /\ DataStart = TextStart + (q + 1)
  BY <1>2, <1>3, <1>4, <1>5
<1> HIDE DEF q
<1> QED
  BY <1>1, <1>5, <1>6

(* The five regions lie one behind the other: stack, code, data, devices,  *)
(* interrupt controller.                                                   *)
RegionEnd(k) == Region[k].start + Region[k].pages

(* What RegionEnd() and the assumptions about the linker script say of     *)
(* them.                                                                   *)
LEMMA Layout ==
  ASSUME textSize \in TextSizes, dataSize \in DataSizes
  PROVE  /\ Len(Region) = 5
         /\ \A k \in 1 .. 5 : Region[k].start \in Nat /\ Region[k].pages \in Nat
         /\ RegionEnd(3) <= Region[1].start /\ RegionEnd(1) <= Region[2].start
         /\ RegionEnd(2) <= Region[4].start /\ RegionEnd(4) <= Region[5].start
         /\ RegionEnd(5) <= Fanout * Span[1]
<1>1. /\ textSize \in Nat /\ dataSize \in Nat
      /\ StackBottom \in Nat /\ StackTop \in Nat /\ TextStart \in Nat
      /\ PeripheralBase \in Nat /\ PeripheralEnd \in Nat /\ GicBase \in Nat /\ GicEnd \in Nat
      /\ StackBottom <= StackTop /\ StackTop <= TextStart
      /\ PeripheralBase <= PeripheralEnd /\ PeripheralEnd <= GicBase
      /\ GicBase <= GicEnd /\ GicEnd <= Fanout * Span[1]
  BY VmAssumption, LayoutAssumption
<1>2. DataStart \in Nat /\ TextStart + PageRoundUp(textSize) <= DataStart
  BY DataIsBehindText
<1>3. PageRoundUp(textSize) \in Nat /\ PageRoundUp(dataSize) \in Nat
  BY <1>1, RoundedUp
<1>4. DataStart + PageRoundUp(dataSize) <= PeripheralBase
  BY LayoutAssumption DEF KernelEnd, DataStart
<1>5. Len(Region) = 5
  BY DEF Region
<1>6. /\ Region[1].start = TextStart /\ Region[1].pages = PageRoundUp(textSize)
      /\ Region[2].start = DataStart /\ Region[2].pages = PageRoundUp(dataSize)
      /\ Region[3].start = StackBottom /\ Region[3].pages = StackTop - StackBottom
      /\ Region[4].start = PeripheralBase /\ Region[4].pages = PeripheralEnd - PeripheralBase
      /\ Region[5].start = GicBase /\ Region[5].pages = GicEnd - GicBase
  BY DEF Region
<1>7. \A k \in 1 .. 5 : Region[k].start \in Nat /\ Region[k].pages \in Nat
  <2> SUFFICES ASSUME NEW k \in 1 .. 5
               PROVE  Region[k].start \in Nat /\ Region[k].pages \in Nat
    OBVIOUS
  <2>1. k = 1 \/ k = 2 \/ k = 3 \/ k = 4 \/ k = 5
    OBVIOUS
  <2>2. StackTop - StackBottom \in Nat /\ PeripheralEnd - PeripheralBase \in Nat
        /\ GicEnd - GicBase \in Nat
    BY <1>1
  <2> QED
    BY <1>1, <1>2, <1>3, <1>6, <2>1, <2>2, Zenon
<1>8. /\ RegionEnd(3) <= Region[1].start /\ RegionEnd(1) <= Region[2].start
      /\ RegionEnd(2) <= Region[4].start /\ RegionEnd(4) <= Region[5].start
      /\ RegionEnd(5) <= Fanout * Span[1]
  BY <1>1, <1>2, <1>3, <1>4, <1>6 DEF RegionEnd
<1> QED
  BY <1>5, <1>7, <1>8

(* What the regions ask for fits into an entry.                            *)
LEMMA RegionAttributes ==
  ASSUME NEW k \in 1 .. 5
  PROVE  /\ Region[k].mairIdx \in {0, 2} /\ Region[k].ap \in {0, 2}
         /\ Region[k].pxn \in BOOLEAN
<1>1. k = 1 \/ k = 2 \/ k = 3 \/ k = 4 \/ k = 5
  OBVIOUS
<1>2. \A r \in {Region[1], Region[2], Region[3], Region[4], Region[5]} :
        r.mairIdx \in {0, 2} /\ r.ap \in {0, 2} /\ r.pxn \in BOOLEAN
  <2>1. /\ Region[1].mairIdx = 0 /\ Region[1].ap = 2 /\ Region[1].pxn = FALSE
        /\ Region[2].mairIdx = 0 /\ Region[2].ap = 0 /\ Region[2].pxn = TRUE
        /\ Region[3].mairIdx = 0 /\ Region[3].ap = 0 /\ Region[3].pxn = TRUE
        /\ Region[4].mairIdx = 2 /\ Region[4].ap = 0 /\ Region[4].pxn = TRUE
        /\ Region[5].mairIdx = 2 /\ Region[5].ap = 0 /\ Region[5].pxn = TRUE
    BY DEF Region, IDX_NORMAL, IDX_DEVICE, PRIV_RW, PRIV_R
  <2> QED
    BY <2>1, Zenon
<1>3. Region[k] \in {Region[1], Region[2], Region[3], Region[4], Region[5]}
  BY <1>1, Zenon
<1> QED
  BY <1>2, <1>3, Zenon

(* A page belongs to one region at most, and lies in the address space.    *)
LEMMA RegionsAreApart ==
  ASSUME textSize \in TextSizes, dataSize \in DataSizes,
         NEW j \in 1 .. 5, NEW v \in Region[j].start .. RegionEnd(j) - 1
  PROVE  /\ v \in VPage
         /\ \A k \in 1 .. 5 : v \in Region[k].start .. RegionEnd(k) - 1 => j = k
<1>1. /\ \A k \in 1 .. 5 : Region[k].start \in Nat /\ Region[k].pages \in Nat
                           /\ RegionEnd(k) = Region[k].start + Region[k].pages
      /\ RegionEnd(3) <= Region[1].start /\ RegionEnd(1) <= Region[2].start
      /\ RegionEnd(2) <= Region[4].start /\ RegionEnd(4) <= Region[5].start
      /\ RegionEnd(5) <= Fanout * Span[1]
  BY Layout DEF RegionEnd
<1>2. Fanout * Span[1] \in Nat
  BY VmAssumption DEF Span
<1>3. \A k \in 1 .. 5 : k = 1 \/ k = 2 \/ k = 3 \/ k = 4 \/ k = 5
  OBVIOUS
<1>4. v \in VPage
  BY <1>1, <1>2, <1>3 DEF VPage
<1>5. \A k \in 1 .. 5 : v \in Region[k].start .. RegionEnd(k) - 1 => j = k
  BY <1>1, <1>3
<1> QED
  BY <1>4, <1>5

-----------------------------------------------------------------------------
(* What the steps of the walk do to the tables.                            *)

(* The table vm_getPTEAllocating() looks at has the level it says, and the *)
(* entry it looks at is an entry of it.                                    *)
LEMMA TableHasLevel ==
  ASSUME NEW lev, Tree(lev), held \subseteq PPage, OnTheWay, va \in VPage, level \in 0 .. 3
  PROVE  table \in held /\ table # NULL /\ lev[table] = level /\ IndexAt(va, level) \in Index
<1>1. table \in held /\ table # NULL
  BY NullIsNoPage DEF OnTheWay
<1>2. IndexAt(va, level) \in Index
  BY IndexType
<1>3. level = 0 \/ level = 1 \/ level = 2 \/ level = 3
  OBVIOUS
<1> QED
  BY <1>1, <1>2, <1>3, TablesOnTheWay DEF OnTheWay

(* AllocTable: a page that was free becomes an empty table, and the one    *)
(* entry that was looked at points at it.                                  *)
LEMMA WhatAllocTableDoes ==
  ASSUME NEW lev, Tree(lev), TypeOK, PoolInv, OnTheWay, va \in VPage, AllocTable
  PROVE  /\ Top \in PPage /\ Top \notin held /\ Top # NULL /\ held' = held \cup {Top}
         /\ PoolInv'
         /\ level \in 0 .. 2 /\ level' = level + 1 /\ table' = Top
         /\ table \in held /\ lev[table] = level /\ IndexAt(va, level) \in Index
         /\ ram[table][IndexAt(va, level)] = Invalid
         /\ ram' \in [PPage -> [Index -> EntryType]]
         /\ ram'[table][IndexAt(va, level)] = TableDescriptor(Top)
         /\ \A t \in held, i \in Index :
              ~(t = table /\ i = IndexAt(va, level)) => ram'[t][i] = ram[t][i]
         /\ \A i \in Index : ram'[Top][i] = Invalid
<1> DEFINE new == Top
           j == IndexAt(va, level)
<1>1. /\ pageAlloc_alloc /\ level \in 0 .. 2 /\ ~ram[table][j].valid
      /\ ram' = [ram EXCEPT ![new] = ZeroPage, ![table][j] = TableDescriptor(new)]
      /\ table' = new /\ level' = level + 1
  BY DEF AllocTable, TypeOK, Entry
<1>2. new \in PPage /\ new \notin held /\ held' = held \cup {new} /\ PoolInv'
  BY <1>1, AllocKeepsPool
<1>3. held \subseteq PPage /\ ram \in [PPage -> [Index -> EntryType]]
  BY DEF PoolInv, PageAllocTypeOK, TypeOK
<1>4. table \in held /\ lev[table] = level /\ j \in Index
  BY <1>1, <1>3, TableHasLevel
<1>5. ram[table][j] = Invalid
  <2>1. \A c : TableDescriptor(c).valid
    BY DEF TableDescriptor, Invalid
  <2> QED
    BY <1>1, <1>4, <2>1 DEF Tree, Linked
<1>6. /\ ZeroPage \in [Index -> EntryType] /\ TableDescriptor(new) \in EntryType
      /\ \A i \in Index : ZeroPage[i] = Invalid
  <2>1. Invalid \in EntryType
    BY VmAssumption DEF Invalid, EntryType, VPage, Span, NULL
  <2>2. new \in VPage
    BY <1>2, VmAssumption
  <2> QED
    BY <2>1, <2>2 DEF ZeroPage, TableDescriptor, Invalid, EntryType
<1> HIDE DEF new, j
<1>7. new # table /\ new \in PPage /\ table \in PPage
  BY <1>2, <1>3, <1>4
<1>8. ram' \in [PPage -> [Index -> EntryType]]
  BY <1>1, <1>3, <1>4, <1>6, <1>7
<1>9. ram'[table] = [ram[table] EXCEPT ![j] = TableDescriptor(new)] /\ ram'[new] = ZeroPage
  BY <1>1, <1>3, <1>4, <1>7
<1>10. \A t \in held \ {table} : ram'[t] = ram[t]
  BY <1>1, <1>2, <1>3
<1>11. ram[table] \in [Index -> EntryType]
  BY <1>3, <1>7
<1>12. \A t \in held, i \in Index : ~(t = table /\ i = j) => ram'[t][i] = ram[t][i]
  BY <1>9, <1>10, <1>11
<1>13. ram'[table][j] = TableDescriptor(new)
  BY <1>4, <1>9, <1>11
<1> QED
  BY <1>1, <1>2, <1>4, <1>5, <1>6, <1>7, <1>8, <1>9, <1>12, <1>13, NullIsNoPage DEF new, j

(* The new table takes its place in the tree.                              *)
LEMMA AllocTableKeepsTree ==
  ASSUME NEW lev, Tree(lev), TypeOK, PoolInv, OnTheWay, va \in VPage, AllocTable,
         NEW lev2, lev2 = [t \in held \cup {Top} |-> IF t = Top THEN level + 1 ELSE lev[t]]
  PROVE  Tree(lev2)'
<1> DEFINE new == Top
           j == IndexAt(va, level)
<1>1. /\ new \notin held /\ held' = held \cup {new}
      /\ level \in 0 .. 2
      /\ table \in held /\ lev[table] = level /\ j \in Index
      /\ ram[table][j] = Invalid
      /\ ram'[table][j] = TableDescriptor(new)
      /\ \A t \in held, i \in Index : ~(t = table /\ i = j) => ram'[t][i] = ram[t][i]
      /\ \A i \in Index : ram'[new][i] = Invalid
  BY WhatAllocTableDoes
<1>2. kernelPagetable' = kernelPagetable
  BY DEF AllocTable
<1>3. /\ lev \in [held -> 0 .. 3] /\ kernelPagetable \in held
      /\ \A t \in held : lev[t] = 0 <=> t = kernelPagetable
  BY DEF Tree
<1>4. /\ lev2 = [t \in held' |-> IF t = new THEN level + 1 ELSE lev[t]]
      /\ lev2 \in [held' -> 0 .. 3] /\ lev2[new] = level + 1
      /\ \A t \in held : lev2[t] = lev[t] /\ t # new
  BY <1>1, <1>3
<1>5. /\ ~Invalid.valid /\ TableDescriptor(new).valid /\ TableDescriptor(new).address = new
  BY DEF Invalid, TableDescriptor
<1> HIDE DEF new, j
<1>6. \A t \in held' : lev2[t] = 0 <=> t = kernelPagetable
  BY <1>1, <1>3, <1>4
<1>7. \A t \in held, i \in Index : lev[t] < 3 =>
        \/ ram[t][i] = Invalid
        \/ /\ ram[t][i].address \in held
           /\ ram[t][i] = TableDescriptor(ram[t][i].address)
           /\ lev[ram[t][i].address] = lev[t] + 1
  BY DEF Tree, Linked
<1>8. Linked(lev2)'
  <2> SUFFICES ASSUME NEW t \in held', NEW i \in Index, lev2[t] < 3
               PROVE  \/ ram'[t][i] = Invalid
                      \/ /\ ram'[t][i].address \in held'
                         /\ ram'[t][i] = TableDescriptor(ram'[t][i].address)
                         /\ lev2[ram'[t][i].address] = lev2[t] + 1
    BY DEF Linked, Index
  <2>1. CASE t = new
    BY <1>1, <2>1
  <2>2. CASE t = table /\ i = j
    BY <1>1, <1>4, <1>5, <2>2
  <2>3. CASE t \in held /\ ~(t = table /\ i = j)
    BY <1>1, <1>4, <1>7, <2>3
  <2> QED
    BY <1>1, <2>1, <2>2, <2>3
<1>9. \A t, u \in held, i, k \in Index :
        /\ lev[t] < 3 /\ ram[t][i].valid
        /\ lev[u] < 3 /\ ram[u][k].valid
        /\ ram[t][i].address = ram[u][k].address
        => t = u /\ i = k
  BY DEF Tree, PointedOnce
<1>10. PointedOnce(lev2)'
  <2> SUFFICES ASSUME NEW t \in held', NEW u \in held', NEW i \in Index, NEW k \in Index,
                      lev2[t] < 3, ram'[t][i].valid,
                      lev2[u] < 3, ram'[u][k].valid,
                      ram'[t][i].address = ram'[u][k].address
               PROVE  t = u /\ i = k
    BY DEF PointedOnce, Index
  <2>1. t \in held /\ u \in held /\ lev[t] < 3 /\ lev[u] < 3
    BY <1>1, <1>4, <1>5
  <2>2. \A s \in held, m \in Index : ram[s][m].valid /\ lev[s] < 3 => ram[s][m].address # new
    BY <1>1, <1>5, <1>7
  <2>3. CASE (t = table /\ i = j) /\ (u = table /\ k = j)
    BY <2>3
  <2>4. CASE (t = table /\ i = j) /\ ~(u = table /\ k = j)
    BY <1>1, <1>5, <2>1, <2>2, <2>4
  <2>5. CASE ~(t = table /\ i = j) /\ (u = table /\ k = j)
    BY <1>1, <1>5, <2>1, <2>2, <2>5
  <2>6. CASE ~(t = table /\ i = j) /\ ~(u = table /\ k = j)
    BY <1>1, <1>9, <2>1, <2>6
  <2> QED
    BY <2>3, <2>4, <2>5, <2>6
<1>11. Pointed(lev2)'
  <2> SUFFICES ASSUME NEW t \in held' \ {kernelPagetable}
               PROVE  \E u \in held', i \in Index :
                        lev2[u] < 3 /\ ram'[u][i].valid /\ ram'[u][i].address = t
    BY <1>2 DEF Pointed, Index
  <2>1. CASE t = new
    <3>1. table \in held' /\ lev2[table] < 3
      BY <1>1, <1>4
    <3> QED
      BY <1>1, <1>5, <2>1, <3>1
  <2>2. CASE t \in held
    <3>1. PICK u \in held, i \in Index : lev[u] < 3 /\ ram[u][i].valid /\ ram[u][i].address = t
      BY <2>2 DEF Tree, Pointed
    <3>2. ~(u = table /\ i = j)
      BY <1>1, <1>5, <3>1
    <3>3. u \in held' /\ lev2[u] < 3 /\ ram'[u][i] = ram[u][i]
      BY <1>1, <1>4, <3>1, <3>2
    <3> QED
      BY <3>1, <3>3
  <2> QED
    BY <1>1, <2>1, <2>2
<1> QED
  BY <1>1, <1>2, <1>3, <1>4, <1>6, <1>8, <1>10, <1>11 DEF Tree

(* Every way goes on as it did or, where it ended, to the new table, from  *)
(* which no way goes on.                                                   *)
LEMMA AllocTableExtendsWays ==
  ASSUME NEW lev, Tree(lev), TypeOK, PoolInv, OnTheWay, va \in VPage, AllocTable,
         NEW v \in VPage, NEW l \in 0 .. 2
  PROVE  /\ \A t \in held \cup {NULL} :
              \/ Child(ram', t, v, l) = Child(ram, t, v, l)
              \/ Child(ram, t, v, l) = NULL /\ Child(ram', t, v, l) = Top
         /\ Child(ram', Top, v, l) = NULL
<1> DEFINE new == Top
           j == IndexAt(va, level)
           i == IndexAt(v, l)
<1>1. /\ new # NULL /\ new \notin held
      /\ \A t \in held, k \in Index :
           ~(t = table /\ k = j) => ram'[t][k] = ram[t][k]
      /\ ram[table][j] = Invalid
      /\ ram'[table][j] = TableDescriptor(new)
      /\ \A k \in Index : ram'[new][k] = Invalid
  BY WhatAllocTableDoes
<1>2. /\ Invalid.address = NULL /\ TableDescriptor(new).address = new
  BY DEF Invalid, TableDescriptor
<1>3. i \in Index
  BY IndexType
<1>4. \A t \in held : t # NULL
  BY NullIsNoPage DEF PoolInv, PageAllocTypeOK
<1>5. \A mem, t : Child(mem, t, v, l) = IF t = NULL THEN NULL ELSE mem[t][i].address
  BY DEF Child
<1> HIDE DEF new, j, i
<1>6. ASSUME NEW t \in held
      PROVE  \/ Child(ram', t, v, l) = Child(ram, t, v, l)
             \/ Child(ram, t, v, l) = NULL /\ Child(ram', t, v, l) = new
  <2>1. /\ Child(ram, t, v, l) = ram[t][i].address
        /\ Child(ram', t, v, l) = ram'[t][i].address
    BY <1>4, <1>5
  <2>2. CASE t = table /\ i = j
    BY <1>1, <1>2, <2>1, <2>2
  <2>3. CASE ~(t = table /\ i = j)
    BY <1>1, <1>3, <2>1, <2>3
  <2> QED
    BY <2>2, <2>3
<1>7. Child(ram', new, v, l) = NULL
  BY <1>1, <1>2, <1>3, <1>5
<1>8. Child(ram', NULL, v, l) = Child(ram, NULL, v, l)
  BY <1>5
<1> QED
  BY <1>6, <1>7, <1>8 DEF new

(* So no page gets another entry, and the walk goes on at the new table.   *)
LEMMA AllocTableKeepsEntries ==
  ASSUME NEW lev, Tree(lev), TypeOK, PoolInv, OnTheWay, va \in VPage, AllocTable,
         NEW v \in VPage
  PROVE  LeafEntry(ram', kernelPagetable, v) = LeafEntry(ram, kernelPagetable, v)
<1> DEFINE root == kernelPagetable
           new == Top
           s1 == Table1(ram, v)
           s2 == Table2(ram, v)
           s3 == LeafTable(ram, root, v)
           t1 == Child(ram', root, v, 0)
           t2 == Child(ram', t1, v, 1)
           t3 == Child(ram', t2, v, 2)
           i == IndexAt(v, 3)
<1>1. /\ new # NULL /\ new \notin held /\ i \in Index
      /\ \A t \in held, k \in Index :
           ~(t = table /\ k = IndexAt(va, level)) => ram'[t][k] = ram[t][k]
      /\ \A k \in Index : ram'[new][k] = Invalid
      /\ lev[table] # 3
  BY WhatAllocTableDoes, IndexType
<1>2. /\ root \in held
      /\ s1 # NULL => s1 \in held
      /\ s2 # NULL => s2 \in held /\ s1 # NULL
      /\ s3 # NULL => s3 \in held /\ s2 # NULL /\ lev[s3] = 3
  BY TablesOnTheWay DEF PoolInv, PageAllocTypeOK
<1>3. \A l \in 0 .. 2 :
        /\ \A t \in held \cup {NULL} :
              \/ Child(ram', t, v, l) = Child(ram, t, v, l)
              \/ Child(ram, t, v, l) = NULL /\ Child(ram', t, v, l) = new
        /\ Child(ram', new, v, l) = NULL
  BY AllocTableExtendsWays
<1>4. \A mem, l : Child(mem, NULL, v, l) = NULL
  BY DEF Child
<1>5. s1 = Child(ram, root, v, 0) /\ s2 = Child(ram, s1, v, 1) /\ s3 = Child(ram, s2, v, 2)
  BY DEF Table1, Table2, LeafTable
<1>6. /\ LeafEntry(ram', root, v) = IF t3 = NULL THEN Invalid ELSE ram'[t3][i]
      /\ LeafEntry(ram, root, v) = IF s3 = NULL THEN Invalid ELSE ram[s3][i]
  BY DEF LeafEntry, LeafTable
<1>7. t1 = Child(ram', root, v, 0) /\ t2 = Child(ram', t1, v, 1) /\ t3 = Child(ram', t2, v, 2)
  OBVIOUS
<1> HIDE DEF s1, s2, s3, t1, t2, t3, new, i
<1>8. t1 = s1 \/ (s1 = NULL /\ t1 = new)
  BY <1>2, <1>3, <1>5, <1>7
<1>9. t2 = s2 \/ (s2 = NULL /\ t2 = new)
  BY <1>2, <1>3, <1>4, <1>5, <1>7, <1>8
<1>10. t3 = s3 \/ (s3 = NULL /\ t3 = new)
  BY <1>2, <1>3, <1>4, <1>5, <1>7, <1>9
<1>11. s3 # NULL => ram'[s3][i] = ram[s3][i]
  BY <1>1, <1>2
<1> QED
  BY <1>1, <1>6, <1>10, <1>11

(* The walk is on its way to the same page, one level down.                *)
LEMMA AllocTableGoesOn ==
  ASSUME NEW lev, Tree(lev), TypeOK, PoolInv, OnTheWay, va \in VPage, AllocTable
  PROVE  OnTheWay'
<1> DEFINE root == kernelPagetable
           new == Top
           s1 == Table1(ram, va)
           s2 == Table2(ram, va)
           t1 == Child(ram', root, va, 0)
           t2 == Child(ram', t1, va, 1)
           t3 == Child(ram', t2, va, 2)
<1>1. /\ new # NULL /\ held' = held \cup {new}
      /\ level \in 0 .. 2 /\ level' = level + 1 /\ table' = new
      /\ table \in held
      /\ ram'[table][IndexAt(va, level)] = TableDescriptor(new)
  BY WhatAllocTableDoes
<1>2. va' = va /\ kernelPagetable' = kernelPagetable
  BY DEF AllocTable
<1>3. table # NULL /\ TableDescriptor(new).address = new
  BY <1>1, NullIsNoPage DEF PoolInv, PageAllocTypeOK, TableDescriptor, Invalid
<1>4. Child(ram', table, va, level) = new
  BY <1>1, <1>3 DEF Child
<1>5. \A l \in 0 .. 2 : \A t \in held \cup {NULL} :
        \/ Child(ram', t, va, l) = Child(ram, t, va, l)
        \/ Child(ram, t, va, l) = NULL /\ Child(ram', t, va, l) = new
  BY AllocTableExtendsWays
<1>6. root \in held /\ (s1 # NULL => s1 \in held)
  BY TablesOnTheWay DEF PoolInv, PageAllocTypeOK
<1>7. s1 = Child(ram, root, va, 0) /\ s2 = Child(ram, s1, va, 1)
  BY DEF Table1, Table2
<1>8. /\ level = 0 => table = root
      /\ level = 1 => table = s1
      /\ level = 2 => table = s2
  BY DEF OnTheWay
<1>9. /\ Table1(ram, va)' = t1 /\ Table2(ram, va)' = t2
      /\ LeafTable(ram, kernelPagetable, va)' = t3
  BY <1>2 DEF Table1, Table2, LeafTable, Child
<1>10. t1 = Child(ram', root, va, 0) /\ t2 = Child(ram', t1, va, 1) /\ t3 = Child(ram', t2, va, 2)
  OBVIOUS
<1>11. \A mem, l : Child(mem, NULL, va, l) = NULL
  BY DEF Child
<1> HIDE DEF s1, s2, t1, t2, t3, new
<1>12. CASE level = 0
  BY <1>1, <1>4, <1>8, <1>9, <1>10, <1>12 DEF OnTheWay
<1>13. CASE level = 1
  <2>1. t1 = s1
    BY <1>3, <1>5, <1>6, <1>7, <1>8, <1>10, <1>13
  <2> QED
    BY <1>1, <1>4, <1>8, <1>9, <1>10, <1>13, <2>1 DEF OnTheWay
<1>14. CASE level = 2
  <2>1. s1 # NULL
    BY <1>3, <1>7, <1>8, <1>11, <1>14
  <2>2. t1 = s1
    BY <1>5, <1>6, <1>7, <1>10, <2>1
  <2>3. t2 = s2
    BY <1>3, <1>5, <1>6, <1>7, <1>8, <1>10, <1>14, <2>1, <2>2
  <2> QED
    BY <1>1, <1>4, <1>8, <1>9, <1>10, <1>14, <2>3 DEF OnTheWay
<1> QED
  BY <1>1, <1>12, <1>13, <1>14

(* Descend: the entry that is in use points at the table on the way.       *)
LEMMA DescendGoesOn ==
  ASSUME NEW lev, Tree(lev), TypeOK, PoolInv, OnTheWay, va \in VPage, Descend
  PROVE  OnTheWay'
<1>1. /\ level \in 0 .. 2 /\ level' = level + 1
      /\ ram[table][IndexAt(va, level)].valid
      /\ table' = ram[table][IndexAt(va, level)].address
      /\ UNCHANGED <<ram, kernelPagetable, va, held>>
  BY DEF Descend, TypeOK, Entry, pageAllocVars
<1>2. table \in held /\ table # NULL /\ lev[table] = level
  BY TableHasLevel DEF PoolInv, PageAllocTypeOK, TypeOK
<1>3. ~Invalid.valid
  BY DEF Invalid
<1>4. Child(ram, table, va, level) = table' /\ table' \in held'
  <2>1. Child(ram, table, va, level) = table'
    BY <1>1, <1>2 DEF Child
  <2>2. Child(ram, table, va, level) \in held
    BY <1>1, <1>2, <1>3, ChildOfTable DEF PoolInv, PageAllocTypeOK
  <2> QED
    BY <1>1, <2>1, <2>2
<1>5. /\ Table1(ram, va)' = Child(ram, kernelPagetable, va, 0)
      /\ Table2(ram, va)' = Child(ram, Table1(ram, va), va, 1)
      /\ LeafTable(ram, kernelPagetable, va)' = Child(ram, Table2(ram, va), va, 2)
  BY <1>1 DEF Table1, Table2, LeafTable, Child, IndexAt
<1> QED
  BY <1>1, <1>4, <1>5 DEF OnTheWay

(* At level 3 the walk has found the entry of va.                          *)
LEMMA WalkFindsEntry ==
  ASSUME NEW lev, Tree(lev), TypeOK, PoolInv, OnTheWay, va \in VPage, level = 3
  PROVE  /\ table \in held /\ lev[table] = 3 /\ IndexAt(va, 3) \in Index
         /\ table # NULL /\ table = LeafTable(ram, kernelPagetable, va)
         /\ Entry = LeafEntry(ram, kernelPagetable, va)
<1>1. table \in held /\ table # NULL /\ lev[table] = 3 /\ IndexAt(va, 3) \in Index
  BY TableHasLevel DEF PoolInv, PageAllocTypeOK
<1>2. table = LeafTable(ram, kernelPagetable, va)
  BY DEF OnTheWay
<1> QED
  BY <1>1, <1>2 DEF Entry, LeafEntry

(* MapPage writes the entry it has found, of a table that points at no     *)
(* other.                                                                  *)
LEMMA WhatMapPageDoes ==
  ASSUME NEW lev, Tree(lev), TypeOK, PoolInv, OnTheWay, va \in VPage, MapPage, ~Entry.valid
  PROVE  /\ level = 3 /\ level' = 0 /\ va' = va + 1 /\ table' = kernelPagetable
         /\ UNCHANGED <<pages, index, held, panic, kernelPagetable, region>>
         /\ ram' = [ram EXCEPT ![table][IndexAt(va, 3)] = DescriptorOf(region, va)]
         /\ \A t \in held : t # table => ram'[t] = ram[t]
         /\ \A i \in Index : i # IndexAt(va, 3) => ram'[table][i] = ram[table][i]
         /\ ram'[table][IndexAt(va, 3)] = DescriptorOf(region, va)
<1>1. /\ level = 3 /\ level' = 0 /\ va' = va + 1 /\ table' = kernelPagetable
      /\ UNCHANGED <<pages, index, held, panic, kernelPagetable, region>>
      /\ ram' = [ram EXCEPT ![table][IndexAt(va, 3)] = DescriptorOf(region, va)]
  BY DEF MapPage, DescriptorOf, Here, pageAllocVars
<1>2. table \in held /\ IndexAt(va, 3) \in Index
  BY <1>1, WalkFindsEntry
<1>3. held \subseteq PPage /\ ram \in [PPage -> [Index -> EntryType]]
  BY DEF PoolInv, PageAllocTypeOK, TypeOK
<1>4. ram[table] \in [Index -> EntryType]
  BY <1>2, <1>3
<1> QED
  BY <1>1, <1>2, <1>3, <1>4

(* The tables stay the same tree.                                          *)
LEMMA MapPageKeepsTree ==
  ASSUME NEW lev, Tree(lev), TypeOK, PoolInv, OnTheWay, va \in VPage, MapPage, ~Entry.valid
  PROVE  Tree(lev)'
<1>1. /\ UNCHANGED <<held, kernelPagetable>>
      /\ \A t \in held : t # table => ram'[t] = ram[t]
      /\ level = 3
  BY WhatMapPageDoes
<1>2. lev[table] = 3
  BY <1>1, WalkFindsEntry
<1>3. \A t \in held : lev[t] < 3 => ram'[t] = ram[t]
  BY <1>1, <1>2
<1>4. Linked(lev)'
  <2>1. Linked(lev)
    BY DEF Tree
  <2> QED
    BY <1>1, <1>3, <2>1 DEF Linked, Index
<1>5. PointedOnce(lev)'
  <2>1. PointedOnce(lev)
    BY DEF Tree
  <2> QED
    BY <1>1, <1>3, <2>1 DEF PointedOnce, Index
<1>6. Pointed(lev)'
  <2>1. Pointed(lev)
    BY DEF Tree
  <2> QED
    BY <1>1, <1>3, <2>1 DEF Pointed, Index
<1> QED
  BY <1>1, <1>4, <1>5, <1>6 DEF Tree

(* Of all pages va alone has another entry.                                *)
LEMMA MapPageMapsOnePage ==
  ASSUME NEW lev, Tree(lev), TypeOK, PoolInv, OnTheWay, va \in VPage, MapPage, ~Entry.valid,
         NEW v \in VPage
  PROVE  LeafEntry(ram', kernelPagetable, v) =
           IF v = va THEN DescriptorOf(region, va) ELSE LeafEntry(ram, kernelPagetable, v)
<1> DEFINE root == kernelPagetable
           s1 == Table1(ram, v)
           s2 == Table2(ram, v)
           s3 == LeafTable(ram, root, v)
           i == IndexAt(v, 3)
           j == IndexAt(va, 3)
<1>1. /\ level = 3
      /\ \A t \in held : t # table => ram'[t] = ram[t]
      /\ \A k \in Index : k # j => ram'[table][k] = ram[table][k]
      /\ ram'[table][j] = DescriptorOf(region, va)
  BY WhatMapPageDoes
<1>2. /\ lev[table] = 3 /\ table \in held /\ table # NULL
      /\ table = LeafTable(ram, root, va)
  BY <1>1, WalkFindsEntry
<1>3. /\ root \in held /\ lev[root] = 0
      /\ s1 # NULL => s1 \in held /\ lev[s1] = 1
      /\ s2 # NULL => s2 \in held /\ lev[s2] = 2
      /\ s3 # NULL => s3 \in held
  BY TablesOnTheWay DEF PoolInv, PageAllocTypeOK
<1>4. \A t \in held \cup {NULL}, l \in 0 .. 2 :
        t = NULL \/ lev[t] # 3 => Child(ram', t, v, l) = Child(ram, t, v, l)
  BY <1>1, <1>2 DEF Child
<1>5. s1 = Child(ram, root, v, 0) /\ s2 = Child(ram, s1, v, 1) /\ s3 = Child(ram, s2, v, 2)
  BY DEF Table1, Table2, LeafTable
<1>6. /\ LeafEntry(ram, root, v) = IF s3 = NULL THEN Invalid ELSE ram[s3][i]
      /\ LeafEntry(ram', root, v) =
           LET t3 == Child(ram', Child(ram', Child(ram', root, v, 0), v, 1), v, 2)
           IN  IF t3 = NULL THEN Invalid ELSE ram'[t3][i]
  BY DEF LeafEntry, LeafTable
<1>7. i \in Index /\ j \in Index
  BY IndexType
<1>8. s3 = table /\ i = j => v = va
  BY <1>2, LeavesAreApart DEF PoolInv, PageAllocTypeOK
<1>9. v = va => s3 = table /\ i = j
  BY <1>2
<1> HIDE DEF s1, s2, s3, i, j
<1>10. /\ Child(ram', root, v, 0) = s1
       /\ Child(ram', s1, v, 1) = s2
       /\ Child(ram', s2, v, 2) = s3
  <2>1. \A l \in 0 .. 2 : Child(ram', NULL, v, l) = Child(ram, NULL, v, l)
    BY <1>4
  <2> QED
    BY <1>3, <1>4, <1>5, <2>1
<1>11. LeafEntry(ram', root, v) = IF s3 = NULL THEN Invalid ELSE ram'[s3][i]
  BY <1>6, <1>10
<1> QED
  BY <1>1, <1>2, <1>3, <1>6, <1>7, <1>8, <1>9, <1>11

(* AllocRoot: the root is an empty table, and maps nothing.                *)
LEMMA WhatAllocRootDoes ==
  ASSUME TypeOK, PoolInv, held = {}, AllocRoot
  PROVE  /\ PoolInv' /\ Top \in PPage /\ held' = {Top}
         /\ kernelPagetable' = Top /\ table' = Top /\ pc' = "map"
         /\ UNCHANGED <<panic, textSize, dataSize, region, va, level, sysVars>>
         /\ ram' \in [PPage -> [Index -> EntryType]]
         /\ ram'[Top] = ZeroPage
<1>1. /\ pageAlloc_alloc /\ ram' = [ram EXCEPT ![Top] = ZeroPage]
      /\ kernelPagetable' = Top /\ table' = Top /\ pc' = "map"
      /\ UNCHANGED <<panic, textSize, dataSize, region, va, level, sysVars>>
  BY DEF AllocRoot
<1>2. PoolInv' /\ Top \in PPage /\ held' = {Top}
  BY <1>1, AllocKeepsPool
<1>3. ZeroPage \in [Index -> EntryType]
  BY VmAssumption DEF ZeroPage, Invalid, EntryType, VPage, Span, NULL
<1>4. ram \in [PPage -> [Index -> EntryType]]
  BY DEF TypeOK
<1> QED
  BY <1>1, <1>2, <1>3, <1>4

(* The root alone is a tree.                                               *)
LEMMA AllocRootPlantsTree ==
  ASSUME TypeOK, PoolInv, held = {}, AllocRoot, NEW lev, lev = [t \in {Top} |-> 0]
  PROVE  Tree(lev)'
<1> DEFINE new == Top
<1>1. held' = {new} /\ kernelPagetable' = new /\ ram'[new] = ZeroPage
  BY WhatAllocRootDoes
<1>2. lev = [t \in {new} |-> 0]
  OBVIOUS
<1>3. \A i \in Index : ZeroPage[i] = Invalid /\ ~Invalid.valid
  BY DEF ZeroPage, Invalid
<1> HIDE DEF new
<1>4. Linked(lev)'
  BY <1>1, <1>2, <1>3 DEF Linked, Index
<1>5. PointedOnce(lev)'
  BY <1>1, <1>2, <1>3 DEF PointedOnce, Index
<1>6. Pointed(lev)'
  BY <1>1 DEF Pointed
<1> QED
  BY <1>1, <1>2, <1>4, <1>5, <1>6 DEF Tree

(* It maps no page.                                                        *)
LEMMA AllocRootMapsNothing ==
  ASSUME TypeOK, PoolInv, held = {}, AllocRoot, NEW v \in VPage
  PROVE  LeafEntry(ram', kernelPagetable', v) = Invalid
<1> DEFINE new == Top
<1>1. kernelPagetable' = new /\ new \in PPage /\ ram'[new] = ZeroPage
  BY WhatAllocRootDoes
<1>2. \A i \in Index : ZeroPage[i].address = NULL
  BY DEF ZeroPage, Invalid
<1>3. IndexAt(v, 0) \in Index
  BY IndexType
<1> HIDE DEF new
<1>4. Child(ram', new, v, 0) = NULL
  BY <1>1, <1>2, <1>3 DEF Child
<1>5. \A l : Child(ram', NULL, v, l) = NULL
  BY DEF Child
<1> QED
  BY <1>1, <1>4, <1>5 DEF LeafEntry, LeafTable

-----------------------------------------------------------------------------
(* What has been mapped.                                                   *)

(* While a region is being mapped, the page to be mapped next is a page of *)
(* the address space, and of no region that was mapped before.             *)
LEMMA NextPageIsNew ==
  ASSUME TypeOK, Place, va < LastPage
  PROVE  /\ va \in VPage
         /\ va \in Region[region].start .. RegionEnd(region) - 1
         /\ \A k \in 1 .. region : va \notin MappedOf(k)
<1>1. /\ textSize \in TextSizes /\ dataSize \in DataSizes
      /\ region \in 1 .. 5 /\ va \in Nat
  BY Layout DEF TypeOK
<1>2. \A k \in 1 .. 5 : Region[k].start \in Nat /\ Region[k].pages \in Nat
  BY <1>1, Layout
<1>3. va \in Region[region].start .. RegionEnd(region) - 1
  BY <1>1, <1>2 DEF Place, Here, LastPage, RegionEnd
<1>4. /\ va \in VPage
      /\ \A k \in 1 .. 5 : va \in Region[k].start .. RegionEnd(k) - 1 => region = k
  BY <1>1, <1>3, RegionsAreApart
<1>5. ASSUME NEW k \in 1 .. region
      PROVE  va \notin MappedOf(k)
  <2>1. k \in 1 .. 5
    BY <1>1
  <2>2. CASE k = region
    BY <1>1, <1>2, <2>2 DEF MappedOf
  <2>3. CASE k # region
    BY <1>4, <2>1, <2>3 DEF MappedOf, RegionEnd
  <2> QED
    BY <2>2, <2>3
<1> QED
  BY <1>3, <1>4, <1>5

(* So the entry that is found for it is free.                              *)
LEMMA NextEntryIsFree ==
  ASSUME NEW lev, Tree(lev), TypeOK, PoolInv, OnTheWay, Place, MappedSoFar,
         va < LastPage, level = 3
  PROVE  ~Entry.valid
<1>1. va \in VPage /\ \A k \in 1 .. region : va \notin MappedOf(k)
  BY NextPageIsNew
<1>2. LeafEntry(ram, kernelPagetable, va) = Invalid
  BY <1>1 DEF MappedSoFar
<1>3. Entry = LeafEntry(ram, kernelPagetable, va)
  BY <1>1, WalkFindsEntry
<1> QED
  BY <1>2, <1>3 DEF Invalid

(* The regions stay where they are.                                        *)
LEMMA RegionsStay ==
  ASSUME UNCHANGED <<textSize, dataSize>>
  PROVE  Region' = Region /\ \A k : RegionEnd(k)' = RegionEnd(k)
<1>1. Region' = Region
  BY DEF Region, DataStart
<1> QED
  BY <1>1 DEF RegionEnd

(* MapPage adds its page to what has been mapped, with what the region     *)
(* asks for.                                                               *)
LEMMA MapPageAddsPage ==
  ASSUME NEW lev, Tree(lev), TypeOK, PoolInv, OnTheWay, Place, MappedSoFar,
         MapPage, ~Entry.valid
  PROVE  MappedSoFar'
<1>1. /\ va' = va + 1 /\ region' = region /\ kernelPagetable' = kernelPagetable
      /\ UNCHANGED <<textSize, dataSize>> /\ va < LastPage
  BY DEF MapPage, Walking
<1>2. /\ va \in VPage /\ va \in Region[region].start .. RegionEnd(region) - 1
      /\ \A k \in 1 .. region : va \notin MappedOf(k)
  BY <1>1, NextPageIsNew
<1>3. \A v \in VPage : LeafEntry(ram', kernelPagetable, v) =
           IF v = va THEN DescriptorOf(region, va) ELSE LeafEntry(ram, kernelPagetable, v)
  BY <1>2, MapPageMapsOnePage
<1>4. Region' = Region /\ region \in 1 .. 5 /\ va \in Nat
  BY <1>1, RegionsStay, Layout DEF TypeOK
<1>5. \A k \in 1 .. 5 : Region[k].start \in Nat /\ Region[k].pages \in Nat
  BY Layout DEF TypeOK
<1>6. \A k \in 1 .. region, v \in VPage :
        v \in MappedOf(k)' <=> v \in MappedOf(k) \/ (k = region /\ v = va)
  <2> SUFFICES ASSUME NEW k \in 1 .. region, NEW v \in VPage
               PROVE  v \in MappedOf(k)' <=> v \in MappedOf(k) \/ (k = region /\ v = va)
    OBVIOUS
  <2>1. v \in Nat
    BY QuotientsAreSmall
  <2>2. CASE k = region
    BY <1>1, <1>2, <1>4, <1>5, <2>1, <2>2 DEF MappedOf
  <2>3. CASE k # region
    BY <1>1, <1>4, <2>3 DEF MappedOf
  <2> QED
    BY <2>2, <2>3
<1>7. \A k, v : DescriptorOf(k, v)' = DescriptorOf(k, v)
  BY <1>4 DEF DescriptorOf
<1> SUFFICES ASSUME NEW v \in VPage
             PROVE  \/ \E k \in 1 .. region :
                         /\ v \in MappedOf(k)'
                         /\ LeafEntry(ram', kernelPagetable, v) = DescriptorOf(k, v)
                    \/ /\ \A k \in 1 .. region : v \notin MappedOf(k)'
                       /\ LeafEntry(ram', kernelPagetable, v) = Invalid
  BY <1>1, <1>7 DEF MappedSoFar, VPage, LeafEntry, LeafTable, Child, IndexAt
<1>8. CASE v = va
  BY <1>3, <1>4, <1>6, <1>8
<1>9. CASE v # va
  BY <1>3, <1>6, <1>9 DEF MappedSoFar
<1> QED
  BY <1>8, <1>9

(* As long as the tables map what they mapped, and no page is begun, what  *)
(* has been mapped is the same.                                            *)
LEMMA NothingNewMapped ==
  ASSUME MappedSoFar, UNCHANGED <<textSize, dataSize, va, region>>,
         \A v \in VPage : LeafEntry(ram', kernelPagetable', v) = LeafEntry(ram, kernelPagetable, v)
  PROVE  MappedSoFar'
<1>1. Region' = Region
  BY RegionsStay
<1>2. \A k, v : DescriptorOf(k, v)' = DescriptorOf(k, v) /\ MappedOf(k)' = MappedOf(k)
  BY <1>1 DEF DescriptorOf, MappedOf
<1> SUFFICES ASSUME NEW v \in VPage
             PROVE  \/ \E k \in 1 .. region :
                         /\ v \in MappedOf(k)
                         /\ LeafEntry(ram', kernelPagetable', v) = DescriptorOf(k, v)
                    \/ /\ \A k \in 1 .. region : v \notin MappedOf(k)
                       /\ LeafEntry(ram', kernelPagetable', v) = Invalid
  BY <1>2 DEF MappedSoFar, VPage, LeafEntry, LeafTable, Child, IndexAt
<1> QED
  BY DEF MappedSoFar

(* Nor does beginning the next region map anything.                        *)
LEMMA NextRegionMapsNothing ==
  ASSUME TypeOK, Place, MappedSoFar, NextRegion
  PROVE  MappedSoFar'
<1>1. /\ Len(Region) = 5 /\ region \in 1 .. 5
      /\ \A k \in 1 .. 5 : Region[k].start \in Nat /\ Region[k].pages \in Nat
  BY Layout DEF TypeOK
<1>2. /\ UNCHANGED <<textSize, dataSize, ram, kernelPagetable>>
      /\ va = Region[region].start + Region[region].pages
      /\ \/ UNCHANGED <<region, va>>
         \/ region' = region + 1 /\ va' = Region[region + 1].start /\ region < 5
  BY <1>1 DEF NextRegion, LastPage, Here
<1>3. CASE UNCHANGED <<region, va>>
  BY <1>2, <1>3, NothingNewMapped
<1>4. ASSUME NEW r, r = region + 1, region' = r, va' = Region[r].start, region < 5
      PROVE  MappedSoFar'
  <2>1. r \in 1 .. 5 /\ 1 .. r = (1 .. region) \cup {r}
    BY <1>1, <1>4
  <2>2. Region' = Region
    BY <1>2, RegionsStay
  <2>3. MappedOf(r)' = {}
    <3>1. MappedOf(r)' = Region[r].start .. Region[r].start - 1
      BY <1>4, <2>2 DEF MappedOf
    <3>2. Region[r].start \in Nat
      BY <1>1, <2>1
    <3> QED
      BY <3>1, <3>2
  <2>4. ASSUME NEW k \in 1 .. region
        PROVE  MappedOf(k)' = MappedOf(k)
    <3>1. k # r /\ k \in 1 .. 5
      BY <1>1, <1>4
    <3>2. Region[k].start \in Nat /\ Region[k].pages \in Nat
      BY <1>1, <3>1
    <3>3. MappedOf(k)' = Region[k].start .. (Region[k].start + Region[k].pages) - 1
      BY <1>4, <2>2, <3>1, <3>2 DEF MappedOf
    <3>4. MappedOf(k) = Region[k].start .. (Region[k].start + Region[k].pages) - 1
      BY <1>1, <1>2, <3>2 DEF MappedOf
    <3> QED
      BY <3>3, <3>4
  <2>5. \A k, v : DescriptorOf(k, v)' = DescriptorOf(k, v)
    BY <2>2 DEF DescriptorOf
  <2>6. \A v : LeafEntry(ram, kernelPagetable, v)' = LeafEntry(ram, kernelPagetable, v)
    BY <1>2 DEF LeafEntry, LeafTable, Child, IndexAt
  <2> SUFFICES ASSUME NEW v \in VPage
               PROVE  \/ \E k \in 1 .. r :
                           /\ v \in MappedOf(k)'
                           /\ LeafEntry(ram, kernelPagetable, v) = DescriptorOf(k, v)
                      \/ /\ \A k \in 1 .. r : v \notin MappedOf(k)'
                         /\ LeafEntry(ram, kernelPagetable, v) = Invalid
    BY <1>4, <2>5, <2>6 DEF MappedSoFar
  <2> QED
    BY <2>1, <2>3, <2>4 DEF MappedSoFar
<1> QED
  BY <1>1, <1>2, <1>3, <1>4

-----------------------------------------------------------------------------
(* Every step keeps the invariant.                                         *)

(* The invariant holds initially.                                          *)
LEMMA InitIInv == Init => IInv
<1> SUFFICES ASSUME Init
             PROVE  IInv
  OBVIOUS
<1>1. /\ pageAlloc_init /\ panic = "none" /\ kernelPagetable = NULL
      /\ textSize \in TextSizes /\ dataSize \in DataSizes /\ pc = "root"
      /\ region = 1 /\ va = TextStart /\ level = 0 /\ table = NULL
      /\ tcr = [epd0 |-> FALSE, epd1 |-> FALSE]
      /\ ttbr0 = NULL /\ ttbr1 = NULL /\ mmu = FALSE
  BY DEF Init
<1>2. PoolInv
  BY <1>1, InitThenTakePool, PageAllocAssumption DEF pageAlloc_init
<1>3. held = {}
  BY <1>1, PageAllocAssumption DEF pageAlloc_init, pageAlloc_initThenTake
<1>4. ram \in [PPage -> [Index -> EntryType]]
  BY VmAssumption DEF Init
<1>5. /\ Len(Region) = 5 /\ Region[1].start = TextStart /\ TextStart \in Nat
      /\ Region[1].pages \in Nat
  BY <1>1, Layout, LayoutAssumption DEF Region
<1>6. TypeOK
  <2>1. tcr \in [epd0 : BOOLEAN, epd1 : BOOLEAN] /\ mmu \in BOOLEAN
    BY <1>1
  <2>2. region \in 1 .. Len(Region) /\ va \in Nat /\ level \in 0 .. 3
    BY <1>1, <1>5
  <2> QED
    BY <1>1, <1>2, <1>4, <2>1, <2>2 DEF TypeOK, PoolInv
<1>7. Place
  BY <1>1, <1>3, <1>5 DEF Place, Here, LastPage
<1> QED
  BY <1>1, <1>2, <1>6, <1>7 DEF IInv, EntriesAreFree, RegistersSet

(* What the steps have in common: the sections of the kernel do not move,  *)
(* and the page that is mapped next is a page.                             *)
LEMMA SizesStay ==
  ASSUME [Next]_vars
  PROVE  UNCHANGED <<textSize, dataSize>>
BY DEF Next, vars, AllocRoot, Descend, AllocTable, AllocTableFails, MapPage, NextRegion,
       vm_setConfig, SetTables, vm_enable, Finished, tableVars

(* The entry that MapPage finds is free, so it never panics.               *)
LEMMA MapPageMaps ==
  ASSUME IInv, MapPage
  PROVE  ~Entry.valid /\ pc = "map" /\ va \in VPage /\ va < LastPage
<1>1. pc = "map" /\ va < LastPage /\ level = 3
  BY DEF MapPage, Walking, At
<1>2. PICK lev : Tree(lev)
  BY <1>1 DEF IInv
<1> QED
  BY <1>1, <1>2, NextEntryIsFree, NextPageIsNew DEF IInv

(* The types, the free stack and the free entry.                           *)
LEMMA TypeStep ==
  ASSUME IInv, [Next]_vars
  PROVE  TypeOK' /\ PoolInv' /\ EntriesAreFree'
<1>1. UNCHANGED <<textSize, dataSize>> /\ Region' = Region
  BY SizesStay, RegionsStay
<1>2. /\ TypeOK /\ PoolInv /\ EntriesAreFree /\ Place /\ Len(Region) = 5
      /\ \A k \in 1 .. 5 : Region[k].start \in Nat
  BY Layout DEF IInv, TypeOK
<1>3. \A c \in VPage : DescriptorOf(region, c) \in EntryType
  BY <1>2, RegionAttributes DEF DescriptorOf, PageDescriptor, EntryType, TypeOK
<1>4. CASE AllocRoot
  BY <1>1, <1>2, <1>4, WhatAllocRootDoes
     DEF AllocRoot, At, Place, TypeOK, PoolInv, EntriesAreFree, sysVars
<1>5. CASE Descend
  <2>1. /\ level \in 0 .. 2 /\ level' = level + 1 /\ table' = Entry.address
        /\ UNCHANGED <<pageAllocVars, panic, ram, kernelPagetable, pc, region, va, sysVars>>
        /\ pc = "map" /\ va < LastPage
    BY <1>2, <1>5 DEF Descend, TypeOK, Walking, At
  <2>2. PICK lev : Tree(lev)
    BY <2>1 DEF IInv
  <2>3. table' \in held'
    BY <1>2, <1>5, <2>1, <2>2, DescendGoesOn, NextPageIsNew DEF IInv, OnTheWay
  <2> QED
    BY <1>1, <1>2, <2>1, <2>3
       DEF TypeOK, PoolInv, EntriesAreFree, PageAllocTypeOK, pageAllocVars, sysVars,
           NoDuplicates, Partition, FreePages, Counted
<1>6. CASE AllocTable
  <2>1. /\ UNCHANGED <<panic, kernelPagetable, pc, region, va, sysVars>>
        /\ pc = "map" /\ va < LastPage
    BY <1>6 DEF AllocTable, Walking, At
  <2>2. PICK lev : Tree(lev)
    BY <2>1 DEF IInv
  <2>3. /\ PoolInv' /\ level \in 0 .. 2 /\ level' = level + 1
        /\ table' \in PPage /\ ram' \in [PPage -> [Index -> EntryType]]
    BY <1>2, <1>6, <2>1, <2>2, WhatAllocTableDoes, NextPageIsNew DEF IInv
  <2> QED
    BY <1>1, <1>2, <2>1, <2>3 DEF TypeOK, PoolInv, EntriesAreFree, sysVars
<1>7. CASE AllocTableFails
  BY <1>1, <1>2, <1>7
     DEF AllocTableFails, pageAlloc_allocFails, TypeOK, PoolInv, EntriesAreFree,
         PageAllocTypeOK, pageAllocVars, walkVars, sysVars, NoDuplicates, Partition,
         FreePages, Counted
<1>8. CASE MapPage
  <2>1. ~Entry.valid /\ pc = "map" /\ va \in VPage
    BY <1>8, MapPageMaps
  <2>2. PICK lev : Tree(lev)
    BY <2>1 DEF IInv
  <2>3. /\ level' = 0 /\ va' = va + 1 /\ table' = kernelPagetable
        /\ UNCHANGED <<pages, index, held, panic, kernelPagetable, region>>
        /\ ram' = [ram EXCEPT ![table][IndexAt(va, 3)] = DescriptorOf(region, va)]
    BY <1>2, <1>8, <2>1, <2>2, WhatMapPageDoes DEF IInv
  <2>4. ram' \in [PPage -> [Index -> EntryType]]
    BY <1>2, <1>3, <2>1, <2>3 DEF TypeOK
  <2>5. UNCHANGED <<pc, sysVars>>
    BY <1>8 DEF MapPage
  <2> QED
    BY <1>1, <1>2, <2>3, <2>4, <2>5
       DEF TypeOK, PoolInv, EntriesAreFree, PageAllocTypeOK, sysVars, NoDuplicates,
           Partition, FreePages, Counted
<1>9. CASE NextRegion
  <2>1. /\ UNCHANGED <<pageAllocVars, panic, ram, kernelPagetable, level, table, sysVars>>
        /\ \/ region' = region + 1 /\ region < 5 /\ va' = Region[region + 1].start /\ pc' = pc
           \/ pc' = "config" /\ UNCHANGED <<region, va>>
    BY <1>2, <1>9 DEF NextRegion
  <2>2. region' \in 1 .. 5 /\ va' \in Nat
    BY <1>2, <2>1 DEF TypeOK
  <2> QED
    BY <1>1, <1>2, <2>1, <2>2
       DEF TypeOK, PoolInv, EntriesAreFree, PageAllocTypeOK, pageAllocVars, sysVars,
           NoDuplicates, Partition, FreePages, Counted
<1>10. CASE vm_setConfig(FALSE, TRUE) \/ SetTables \/ vm_enable \/ UNCHANGED vars
  <2>1. UNCHANGED <<pageAllocVars, panic, ram, kernelPagetable, walkVars>>
    BY <1>10 DEF vm_setConfig, SetTables, vm_enable, tableVars, vars
  <2>2. /\ tcr' \in [epd0 : BOOLEAN, epd1 : BOOLEAN]
        /\ pc' \in {"root", "map", "config", "setTables", "enable", "done"}
        /\ ttbr0' \in PPage \cup {NULL} /\ ttbr1' \in PPage \cup {NULL} /\ mmu' \in BOOLEAN
    <3>1. CASE vm_setConfig(FALSE, TRUE)
      BY <1>2, <3>1 DEF vm_setConfig, TypeOK
    <3>2. CASE SetTables
      BY <1>2, <3>2 DEF SetTables, TypeOK, vm_setUserPagetable, vm_setKernelPagetable
    <3>3. CASE vm_enable
      BY <1>2, <3>3 DEF vm_enable, TypeOK
    <3>4. CASE UNCHANGED vars
      BY <1>2, <3>4 DEF vars, sysVars, TypeOK
    <3> QED
      BY <1>10, <3>1, <3>2, <3>3, <3>4
  <2> QED
    BY <1>1, <1>2, <2>1, <2>2
       DEF TypeOK, PoolInv, EntriesAreFree, PageAllocTypeOK, pageAllocVars, walkVars,
           NoDuplicates, Partition, FreePages, Counted
<1> QED
  BY <1>4, <1>5, <1>6, <1>7, <1>8, <1>9, <1>10 DEF Next, Finished

(* The place in vm_init().                                                 *)
LEMMA PlaceStep ==
  ASSUME IInv, [Next]_vars
  PROVE  Place'
<1>1. UNCHANGED <<textSize, dataSize>> /\ Region' = Region
  BY SizesStay, RegionsStay
<1>2. /\ Place /\ va \in Nat /\ level \in 0 .. 3 /\ region \in 1 .. 5 /\ Len(Region) = 5
      /\ \A k \in 1 .. 5 : Region[k].start \in Nat /\ Region[k].pages \in Nat
  BY Layout DEF IInv, TypeOK
<1>3. /\ LastPage = RegionEnd(region) /\ LastPage' = RegionEnd(region')
      /\ Here = Region[region] /\ Here' = Region[region']
  BY <1>1 DEF LastPage, RegionEnd, Here
<1>4. CASE AllocRoot
  BY <1>2, <1>3, <1>4 DEF AllocRoot, At, Place
<1>5. CASE Descend \/ AllocTable
  <2>1. UNCHANGED <<region, va, pc>> /\ pc = "map" /\ va < LastPage
    BY <1>5 DEF Descend, AllocTable, Walking, At
  <2> QED
    BY <1>2, <1>3, <2>1 DEF Place
<1>6. CASE AllocTableFails
  BY <1>2, <1>3, <1>6 DEF AllocTableFails, pageAlloc_allocFails, pageAllocVars, walkVars, Place
<1>7. CASE MapPage
  <2>1. /\ pc = "map" /\ pc' = pc /\ va < LastPage /\ va' = va + 1 /\ region' = region /\ level' = 0
    BY <1>7, MapPageMaps DEF MapPage
  <2>2. LastPage \in Nat
    BY <1>2, <1>3 DEF RegionEnd
  <2> QED
    BY <1>2, <1>3, <2>1, <2>2 DEF Place
<1>8. CASE NextRegion
  <2>1. /\ pc = "map" /\ va = LastPage /\ level' = level /\ level = 0
        /\ \/ region' = region + 1 /\ region < 5 /\ va' = Region[region + 1].start /\ pc' = pc
           \/ region = 5 /\ pc' = "config" /\ UNCHANGED <<region, va>>
    BY <1>2, <1>8 DEF NextRegion, Place, At
  <2>2. CASE region' = region + 1 /\ region < 5 /\ va' = Region[region + 1].start /\ pc' = pc
    <3>1. region' \in 1 .. 5 /\ va' = Region[region'].start
      BY <1>2, <2>2
    <3>2. va' \in Region[region'].start .. RegionEnd(region')
      BY <1>2, <3>1 DEF RegionEnd
    <3> QED
      BY <1>3, <2>1, <2>2, <3>2 DEF Place
  <2>3. CASE region = 5 /\ pc' = "config" /\ UNCHANGED <<region, va>>
    BY <1>2, <1>3, <2>1, <2>3 DEF Place
  <2> QED
    BY <2>1, <2>2, <2>3
<1>9. CASE vm_setConfig(FALSE, TRUE) \/ SetTables \/ vm_enable \/ UNCHANGED vars
  <2>1. UNCHANGED <<held, region, va, level>>
    BY <1>9 DEF vm_setConfig, SetTables, vm_enable, tableVars, walkVars, pageAllocVars, vars
  <2>2. UNCHANGED pc \/ (pc \notin {"root", "map"} /\ pc' \notin {"root", "map"})
    BY <1>9 DEF vm_setConfig, SetTables, vm_enable, vars, At
  <2> QED
    BY <1>2, <1>3, <2>1, <2>2 DEF Place
<1> QED
  BY <1>4, <1>5, <1>6, <1>7, <1>8, <1>9 DEF Next, Finished

(* The system registers.                                                   *)
LEMMA RegistersStep ==
  ASSUME IInv, [Next]_vars
  PROVE  RegistersSet'
<1>1. RegistersSet
  BY DEF IInv
<1>2. CASE AllocRoot
  BY <1>2 DEF AllocRoot, RegistersSet
<1>3. CASE Descend \/ AllocTable \/ AllocTableFails \/ MapPage
  BY <1>1, <1>3
     DEF Descend, AllocTable, AllocTableFails, MapPage, sysVars, RegistersSet
<1>4. CASE NextRegion
  BY <1>1, <1>4 DEF NextRegion, At, sysVars, RegistersSet
<1>5. CASE vm_setConfig(FALSE, TRUE)
  BY <1>5 DEF vm_setConfig, RegistersSet
<1>6. CASE SetTables
  BY <1>1, <1>6 DEF SetTables, At, tableVars, vm_setKernelPagetable, RegistersSet
<1>7. CASE vm_enable
  BY <1>1, <1>7 DEF vm_enable, At, tableVars, RegistersSet
<1>8. CASE UNCHANGED vars
  BY <1>1, <1>8 DEF vars, sysVars, RegistersSet
<1> QED
  BY <1>2, <1>3, <1>4, <1>5, <1>6, <1>7, <1>8 DEF Next, Finished

(* The tree, the walk and what is mapped.                                  *)
LEMMA TreeStep ==
  ASSUME IInv, [Next]_vars, pc' # "root"
  PROVE  (\E lev : Tree(lev)') /\ OnTheWay' /\ MappedSoFar'
<1>1. /\ TypeOK /\ PoolInv /\ Place /\ held \subseteq PPage
      /\ UNCHANGED <<textSize, dataSize>> /\ Region' = Region
  BY SizesStay, RegionsStay DEF IInv, PoolInv, PageAllocTypeOK
<1>2. CASE AllocRoot
  <2>1. held = {} /\ region = 1 /\ va = TextStart /\ level = 0
    BY <1>1, <1>2 DEF Place, AllocRoot, At
  <2>2. /\ kernelPagetable' = Top /\ table' = Top /\ held' = {Top}
        /\ UNCHANGED <<region, va, level>>
    BY <1>1, <1>2, <2>1, WhatAllocRootDoes
  <2>3. \E lev : lev = [t \in {Top} |-> 0]
    OBVIOUS
  <2>4. \E lev : Tree(lev)'
    BY <1>1, <1>2, <2>1, <2>3, AllocRootPlantsTree
  <2>5. OnTheWay'
    BY <2>1, <2>2 DEF OnTheWay
  <2>6. \A v \in VPage : LeafEntry(ram', kernelPagetable', v) = Invalid
    BY <1>1, <1>2, <2>1, AllocRootMapsNothing
  <2>7. \A k \in 1 .. 1 : MappedOf(k)' = {}
    BY <1>1, <2>1, <2>2, LayoutAssumption DEF MappedOf, Region
  <2> QED
    BY <2>1, <2>2, <2>4, <2>5, <2>6, <2>7
       DEF MappedSoFar, VPage, LeafEntry, LeafTable, Child, IndexAt
<1>3. ASSUME pc # "root"
      PROVE  (\E lev : Tree(lev)') /\ OnTheWay' /\ MappedSoFar'
  <2>1. OnTheWay /\ MappedSoFar
    BY <1>3 DEF IInv
  <2>2. PICK lev : Tree(lev)
    BY <1>3 DEF IInv
  <2>3. CASE Descend
    <3>1. va < LastPage /\ va \in VPage
      BY <1>1, <2>3, NextPageIsNew DEF Descend, Walking
    <3>2. UNCHANGED <<ram, kernelPagetable, held, va, region>>
      BY <2>3 DEF Descend, pageAllocVars
    <3>3. Tree(lev)'
      BY <2>2, <3>2 DEF Tree, Linked, PointedOnce, Pointed
    <3>4. MappedSoFar'
      BY <1>1, <2>1, <3>2, NothingNewMapped
    <3> QED
      BY <1>1, <2>1, <2>2, <2>3, <3>1, <3>3, <3>4, DescendGoesOn
  <2>4. CASE AllocTable
    <3>1. va < LastPage /\ va \in VPage
      BY <1>1, <2>4, NextPageIsNew DEF AllocTable, Walking
    <3>2. UNCHANGED <<kernelPagetable, va, region>>
      BY <2>4 DEF AllocTable
    <3>3. \E lev2 : lev2 = [t \in held \cup {Top} |-> IF t = Top THEN level + 1 ELSE lev[t]]
      OBVIOUS
    <3>4. \E lev2 : Tree(lev2)'
      BY <1>1, <2>1, <2>2, <2>4, <3>1, <3>3, AllocTableKeepsTree
    <3>5. MappedSoFar'
      BY <1>1, <2>1, <2>2, <2>4, <3>1, <3>2, AllocTableKeepsEntries, NothingNewMapped
    <3> QED
      BY <1>1, <2>1, <2>2, <2>4, <3>1, <3>4, <3>5, AllocTableGoesOn
  <2>5. CASE MapPage
    <3>1. ~Entry.valid /\ va \in VPage
      BY <2>5, MapPageMaps
    <3>2. Tree(lev)'
      BY <1>1, <2>1, <2>2, <2>5, <3>1, MapPageKeepsTree
    <3>3. MappedSoFar'
      BY <1>1, <2>1, <2>2, <2>5, <3>1, MapPageAddsPage
    <3>4. level' = 0 /\ table' = kernelPagetable' /\ held' = held /\ kernelPagetable' = kernelPagetable
      BY <1>1, <2>1, <2>2, <2>5, <3>1, WhatMapPageDoes
    <3>5. OnTheWay'
      BY <2>2, <3>4 DEF OnTheWay, Tree
    <3> QED
      BY <3>2, <3>3, <3>5
  <2>6. CASE NextRegion
    <3>1. /\ UNCHANGED <<ram, kernelPagetable, held, level, table>> /\ va = LastPage
      BY <2>6 DEF NextRegion, pageAllocVars
    <3>2. level = 0
      BY <1>1, <3>1 DEF Place
    <3>3. Tree(lev)'
      BY <2>2, <3>1 DEF Tree, Linked, PointedOnce, Pointed
    <3>4. OnTheWay'
      BY <2>1, <3>1, <3>2 DEF OnTheWay
    <3> QED
      BY <1>1, <2>1, <2>6, <3>3, <3>4, NextRegionMapsNothing
  <2>7. CASE \/ AllocTableFails \/ vm_setConfig(FALSE, TRUE) \/ SetTables \/ vm_enable
             \/ UNCHANGED vars
    <3>1. UNCHANGED <<ram, kernelPagetable, held, region, va, level, table>>
      BY <2>7 DEF AllocTableFails, pageAlloc_allocFails, vm_setConfig, SetTables, vm_enable,
                  tableVars, walkVars, pageAllocVars, vars
    <3>2. Tree(lev)'
      BY <2>2, <3>1 DEF Tree, Linked, PointedOnce, Pointed
    <3>3. OnTheWay'
      BY <2>1, <3>1 DEF OnTheWay, Table1, Table2, LeafTable, Child, IndexAt
    <3>4. MappedSoFar'
      BY <1>1, <2>1, <3>1, NothingNewMapped
    <3> QED
      BY <3>2, <3>3, <3>4
  <2>8. ~AllocRoot
    BY <1>3 DEF AllocRoot, At
  <2> QED
    BY <2>3, <2>4, <2>5, <2>6, <2>7, <2>8 DEF Next, Finished
<1>4. pc = "root" /\ ~AllocRoot => pc' = "root"
  BY DEF Next, Descend, AllocTable, AllocTableFails, MapPage, NextRegion, vm_setConfig,
         SetTables, vm_enable, Finished, vars, Walking, At
<1> QED
  BY <1>2, <1>3, <1>4

(* The invariant holds at every step of vm_init(), whatever the size of    *)
(* the kernel and whatever the RAM contained.                              *)
THEOREM VmIInv == Spec => []IInv
<1>1. Init => IInv
  BY InitIInv
<1>2. IInv /\ [Next]_vars => IInv'
  <2> SUFFICES ASSUME IInv, [Next]_vars
               PROVE  IInv'
    OBVIOUS
  <2>1. TypeOK' /\ PoolInv' /\ EntriesAreFree' /\ Place' /\ RegistersSet'
    BY TypeStep, PlaceStep, RegistersStep
  <2>2. pc' # "root" => (\E lev : Tree(lev)') /\ OnTheWay' /\ MappedSoFar'
    BY TreeStep
  <2> QED
    BY <2>1, <2>2 DEF IInv
<1> QED
  BY <1>1, <1>2, PTL DEF Spec

-----------------------------------------------------------------------------
(* What follows for the tables and the entries of all pages.               *)

(* What it means to be one of the entries in use, or to be pointed at.     *)
LEMMA RefsAndBelow ==
  ASSUME NEW tables
  PROVE  /\ \A x : x \in Refs(tables) <=>
              \E t \in tables, i \in Index : x = <<t, i>> /\ ram[t][i].valid
         /\ \A c : c \in Below(tables) <=>
              \E t \in tables, i \in Index : ram[t][i].valid /\ ram[t][i].address = c
<1>1. \A x : x \in Refs(tables) <=>
        \E t \in tables, i \in Index : x = <<t, i>> /\ ram[t][i].valid
  BY DEF Refs
<1>2. ASSUME NEW c, NEW x \in Refs(tables), c = ram[x[1]][x[2]].address
      PROVE  \E t \in tables, i \in Index : ram[t][i].valid /\ ram[t][i].address = c
  <2>1. PICK t \in tables, i \in Index : x = <<t, i>> /\ ram[t][i].valid
    BY <1>1
  <2>2. x[1] = t /\ x[2] = i
    BY <2>1
  <2> QED
    BY <1>2, <2>1, <2>2
<1>3. ASSUME NEW t \in tables, NEW i \in Index, ram[t][i].valid
      PROVE  ram[t][i].address \in Below(tables)
  <2>1. <<t, i>> \in Refs(tables)
    BY <1>1, <1>3
  <2>2. <<t, i>>[1] = t /\ <<t, i>>[2] = i
    OBVIOUS
  <2> QED
    BY <2>1, <2>2 DEF Below
<1>4. \A c : c \in Below(tables) <=> \E x \in Refs(tables) : c = ram[x[1]][x[2]].address
  BY DEF Below
<1> QED
  BY <1>1, <1>2, <1>3, <1>4

(* The tables that the root leads to in one, two and three steps are those *)
(* of level 1, 2 and 3.                                                    *)
LEMMA BelowIsNextLevel ==
  ASSUME NEW lev, Tree(lev), NEW l \in 0 .. 2
  PROVE  Below({t \in held : lev[t] = l}) = {t \in held : lev[t] = l + 1}
<1>1. /\ lev \in [held -> 0 .. 3]
      /\ \A t \in held : lev[t] = 0 <=> t = kernelPagetable
      /\ \A t \in held, i \in Index : lev[t] < 3 =>
           \/ ram[t][i] = Invalid
           \/ ram[t][i].address \in held /\ lev[ram[t][i].address] = lev[t] + 1
      /\ \A t \in held \ {kernelPagetable} : \E u \in held, i \in Index :
           lev[u] < 3 /\ ram[u][i].valid /\ ram[u][i].address = t
  BY DEF Tree, Linked, Pointed
<1>2. ~Invalid.valid
  BY DEF Invalid
<1>3. ASSUME NEW u \in held, lev[u] = l, NEW i \in Index, ram[u][i].valid
      PROVE  ram[u][i].address \in {t \in held : lev[t] = l + 1}
  BY <1>1, <1>2, <1>3
<1>4. ASSUME NEW t \in held, lev[t] = l + 1
      PROVE  \E u \in held, i \in Index : lev[u] = l /\ ram[u][i].valid /\ ram[u][i].address = t
  <2>1. t \in held \ {kernelPagetable}
    BY <1>1, <1>4
  <2>2. PICK u \in held, i \in Index : lev[u] < 3 /\ ram[u][i].valid /\ ram[u][i].address = t
    BY <1>1, <2>1
  <2>3. lev[t] = lev[u] + 1 /\ lev[u] \in 0 .. 3
    BY <1>1, <1>2, <2>2
  <2>4. lev[u] = l
    BY <1>4, <2>3
  <2> QED
    BY <2>2, <2>4
<1>5. \A t : t \in Below({u \in held : lev[u] = l}) <=>
        \E u \in held, i \in Index : lev[u] = l /\ ram[u][i].valid /\ ram[u][i].address = t
  BY RefsAndBelow
<1> QED
  BY <1>3, <1>4, <1>5

(* So the levels, root first, hold all pages that were allocated.          *)
LEMMA LevelsAreTheTree ==
  ASSUME NEW lev, Tree(lev)
  PROVE  /\ Upper = {t \in held : lev[t] < 3}
         /\ Level3 = {t \in held : lev[t] = 3}
         /\ held = Upper \cup Level3
<1>1. lev \in [held -> 0 .. 3] /\ kernelPagetable \in held
      /\ \A t \in held : lev[t] = 0 <=> t = kernelPagetable
  BY DEF Tree
<1>2. {kernelPagetable} = {t \in held : lev[t] = 0}
  BY <1>1
<1>3. Level1 = {t \in held : lev[t] = 1}
  BY <1>2, BelowIsNextLevel DEF Level1
<1>4. Level2 = {t \in held : lev[t] = 2}
  BY <1>3, BelowIsNextLevel DEF Level2
<1>5. Level3 = {t \in held : lev[t] = 3}
  BY <1>4, BelowIsNextLevel DEF Level3
<1>6. \A t \in held : lev[t] \in {0, 1, 2, 3}
  BY <1>1
<1>7. Upper = {t \in held : lev[t] < 3}
  BY <1>2, <1>3, <1>4, <1>6 DEF Upper
<1> QED
  BY <1>5, <1>6, <1>7

(* Every entry in use of an upper table stands for the one table it points *)
(* at.                                                                     *)
LEMMA OneEntryForEachTable ==
  ASSUME NEW lev, Tree(lev), PoolInv
  PROVE  Cardinality(held) = Cardinality(Refs(Upper)) + 1
<1> DEFINE others == held \ {kernelPagetable}
           entries == Refs(Upper)
           target == [x \in entries |-> ram[x[1]][x[2]].address]
<1>1. \A x : x \in entries <=> \E t \in held, i \in Index :
        x = <<t, i>> /\ lev[t] < 3 /\ ram[t][i].valid
  BY LevelsAreTheTree, RefsAndBelow
<1>2. \A t \in held, i \in Index : lev[t] < 3 /\ ram[t][i].valid =>
        /\ ram[t][i].address \in held
        /\ lev[ram[t][i].address] = lev[t] + 1
  BY DEF Tree, Linked, Invalid
<1>3. \A t \in held : lev[t] \in Nat /\ (lev[t] = 0 <=> t = kernelPagetable)
  BY DEF Tree
<1>4. target \in [entries -> others]
  <2> SUFFICES ASSUME NEW x \in entries
               PROVE  ram[x[1]][x[2]].address \in others
    OBVIOUS
  <2>1. PICK t \in held, i \in Index : x = <<t, i>> /\ lev[t] < 3 /\ ram[t][i].valid
    BY <1>1
  <2>2. x[1] = t /\ x[2] = i
    BY <2>1
  <2> QED
    BY <1>2, <1>3, <2>1, <2>2
<1>5. \A x, y \in entries : target[x] = target[y] => x = y
  <2> SUFFICES ASSUME NEW x \in entries, NEW y \in entries, target[x] = target[y]
               PROVE  x = y
    OBVIOUS
  <2>1. PICK t \in held, i \in Index : x = <<t, i>> /\ lev[t] < 3 /\ ram[t][i].valid
    BY <1>1
  <2>2. PICK u \in held, j \in Index : y = <<u, j>> /\ lev[u] < 3 /\ ram[u][j].valid
    BY <1>1
  <2>3. x[1] = t /\ x[2] = i /\ y[1] = u /\ y[2] = j
    BY <2>1, <2>2
  <2>4. ram[t][i].address = ram[u][j].address
    BY <2>3
  <2>5. t = u /\ i = j
    BY <2>1, <2>2, <2>4 DEF Tree, PointedOnce
  <2> QED
    BY <2>1, <2>2, <2>5
<1>6. \A t \in others : \E x \in entries : target[x] = t
  <2> SUFFICES ASSUME NEW t \in others
               PROVE  \E x \in entries : target[x] = t
    OBVIOUS
  <2>1. PICK u \in held, i \in Index : lev[u] < 3 /\ ram[u][i].valid /\ ram[u][i].address = t
    BY DEF Tree, Pointed
  <2>2. <<u, i>> \in entries
    BY <1>1, <2>1
  <2>3. target[<<u, i>>] = t
    BY <2>1, <2>2
  <2> QED
    BY <2>2, <2>3
<1> HIDE DEF entries, target, others
<1>7. ExistsBijection(entries, others)
  <2>1. target \in Bijection(entries, others)
    BY <1>4, <1>5, <1>6, Fun_IsBij
  <2> QED
    BY <2>1, Fun_ExistsBij
<1>8. kernelPagetable \in held /\ IsFiniteSet(held)
  BY DEF Tree, PoolInv, Counted
<1>9. IsFiniteSet(others) /\ Cardinality(others) = Cardinality(held) - 1
  BY <1>8, FS_RemoveElement DEF others
<1>10. Cardinality(entries) = Cardinality(others)
  BY <1>7, <1>9, Fun_ExistsBijSymmetric, FS_Bijection
<1>11. Cardinality(held) \in Nat
  BY <1>8, FS_CardinalityType
<1> QED
  BY <1>9, <1>10, <1>11 DEF entries

(* The pages vm_init() takes for its tables form a tree: none is shared,   *)
(* none is lost, none is left on the free stack.                           *)
THEOREM VmTablesAreATree == Spec => []TablesAreATree
<1>1. IInv => TablesAreATree
  <2> SUFFICES ASSUME IInv, pc # "root"
               PROVE  /\ held = Upper \cup Level3
                      /\ Cardinality(held) = Cardinality(Refs(Upper)) + 1
    BY DEF TablesAreATree
  <2>1. PICK lev : Tree(lev)
    BY DEF IInv
  <2> QED
    BY <2>1, LevelsAreTheTree, OneEntryForEachTable DEF IInv
<1> QED
  BY <1>1, VmIInv, PTL

-----------------------------------------------------------------------------
(* What is mapped in the end.                                              *)

(* Rounding a section up to pages covers each of its bytes, and no page    *)
(* without one.                                                            *)
LEMMA BytesArePages ==
  ASSUME NEW start \in Nat, NEW size \in Nat
  PROVE  Bytes(start, size) = start .. (start + PageRoundUp(size)) - 1
<1> DEFINE n == PageSize
           last == (size - 1) \div n
<1>1. n \in Nat \ {0}
  BY VmAssumption
<1>2. CASE size = 0
  <2>1. (0 + n - 1) \div n = 0
    BY <1>1
  <2> QED
    BY <1>1, <1>2, <2>1 DEF Bytes, PageRoundUp
<1>3. CASE size # 0
  <2>1. size - 1 \in Nat /\ last \in Nat
    BY <1>1, <1>3
  <2>2. PageRoundUp(size) = 1 + last
    <3>1. size + n - 1 = PlusMultiple(n, size - 1, 1)
      BY <1>1, <2>1 DEF PlusMultiple
    <3> QED
      BY <1>1, <2>1, <3>1, AddMultiple DEF PageRoundUp
  <2>3. ASSUME NEW x \in 0 .. size - 1
        PROVE  /\ start * n + x \in start * n .. start * n + size - 1
               /\ (start * n + x) \div n = start + x \div n
    <3>1. start * n \in Nat /\ x \in Nat
      BY <1>1
    <3>2. start * n + x = PlusMultiple(n, x, start)
      BY DEF PlusMultiple
    <3>3. (start * n + x) \div n = start + x \div n
      BY <1>1, <3>1, <3>2, AddMultiple
    <3> QED
      BY <3>1, <3>3
  <2>4. ASSUME NEW b \in start * n .. start * n + size - 1
        PROVE  b \div n \in start .. start + last
    <3>1. PICK x \in 0 .. size - 1 : b = start * n + x
      <4>1. start * n \in Nat
        BY <1>1
      <4>2. b - start * n \in 0 .. size - 1 /\ b = start * n + (b - start * n)
        BY <4>1
      <4> QED
        BY <4>2
    <3>2. b \div n = start + x \div n
      BY <2>3, <3>1
    <3>3. x \div n \in 0 .. last
      BY <1>1, <2>1
    <3> QED
      BY <2>1, <3>2, <3>3
  <2>5. ASSUME NEW p \in start .. start + last
        PROVE  \E b \in start * n .. start * n + size - 1 : p = b \div n
    <3> DEFINE y == p - start
    <3>1. y \in 0 .. last /\ p = start + y
      BY <2>1
    <3> HIDE DEF y
    <3>2. y * n \in 0 .. size - 1
      BY <1>1, <2>1, <3>1
    <3>3. (y * n) \div n = y
      BY <1>1, <3>1
    <3> QED
      BY <2>3, <3>1, <3>2, <3>3
  <2>6. (start + PageRoundUp(size)) - 1 = start + last
    BY <2>1, <2>2
  <2> HIDE DEF n, last
  <2> QED
    BY <2>4, <2>5, <2>6 DEF Bytes, n
<1> QED
  BY <1>2, <1>3

(* The pages to be mapped are those of the regions.                        *)
PagesOf(k) == Region[k].start .. RegionEnd(k) - 1

(* CodePages, DataPages and DevicePages are unions of them.                *)
LEMMA PagesOfRegions ==
  ASSUME textSize \in TextSizes, dataSize \in DataSizes
  PROVE  /\ CodePages = PagesOf(1)
         /\ DevicePages = PagesOf(4) \cup PagesOf(5)
         /\ DataPages = PagesOf(2) \cup PagesOf(3) \cup PagesOf(4) \cup PagesOf(5)
<1>1. /\ textSize \in Nat /\ dataSize \in Nat /\ TextStart \in Nat /\ DataStart \in Nat
      /\ StackBottom \in Nat /\ StackTop \in Nat
      /\ PeripheralBase \in Nat /\ PeripheralEnd \in Nat /\ GicBase \in Nat /\ GicEnd \in Nat
  BY VmAssumption, LayoutAssumption, DataIsBehindText
<1>2. /\ Region[1].start = TextStart /\ Region[1].pages = PageRoundUp(textSize)
      /\ Region[2].start = DataStart /\ Region[2].pages = PageRoundUp(dataSize)
      /\ Region[3].start = StackBottom /\ Region[3].pages = StackTop - StackBottom
      /\ Region[4].start = PeripheralBase /\ Region[4].pages = PeripheralEnd - PeripheralBase
      /\ Region[5].start = GicBase /\ Region[5].pages = GicEnd - GicBase
  BY DEF Region
<1>3. CodePages = PagesOf(1) /\ Bytes(DataStart, dataSize) = PagesOf(2)
  <2>1. /\ Bytes(TextStart, textSize) = TextStart .. (TextStart + PageRoundUp(textSize)) - 1
        /\ Bytes(DataStart, dataSize) = DataStart .. (DataStart + PageRoundUp(dataSize)) - 1
    BY <1>1, BytesArePages
  <2>2. /\ RegionEnd(1) = TextStart + PageRoundUp(textSize)
        /\ RegionEnd(2) = DataStart + PageRoundUp(dataSize)
    BY <1>2 DEF RegionEnd
  <2>3. /\ PagesOf(1) = TextStart .. (TextStart + PageRoundUp(textSize)) - 1
        /\ PagesOf(2) = DataStart .. (DataStart + PageRoundUp(dataSize)) - 1
    BY <1>2, <2>2 DEF PagesOf
  <2> QED
    BY <2>1, <2>3 DEF CodePages
<1>4. /\ RegionEnd(3) = StackTop /\ RegionEnd(4) = PeripheralEnd /\ RegionEnd(5) = GicEnd
  BY <1>1, <1>2 DEF RegionEnd
<1>5. /\ PagesOf(3) = StackBottom .. StackTop - 1
      /\ PagesOf(4) = PeripheralBase .. PeripheralEnd - 1
      /\ PagesOf(5) = GicBase .. GicEnd - 1
  BY <1>2, <1>4 DEF PagesOf
<1> QED
  BY <1>3, <1>5 DEF DataPages, DevicePages

(* When vm_init() is done, all regions are mapped, and nothing else.       *)
LEMMA AllRegionsMapped ==
  ASSUME IInv, pc = "done", NEW v \in VPage
  PROVE  \/ \E k \in 1 .. 5 : /\ v \in PagesOf(k)
                              /\ LeafEntry(ram, ttbr1, v) = DescriptorOf(k, v)
         \/ /\ \A k \in 1 .. 5 : v \notin PagesOf(k)
            /\ LeafEntry(ram, ttbr1, v) = Invalid
<1>1. region = 5 /\ va = Region[5].start + Region[5].pages
  BY DEF IInv, Place, LastPage, Here
<1>2. ttbr1 = kernelPagetable /\ MappedSoFar
  BY DEF IInv, RegistersSet
<1>3. \A k \in 1 .. 5 : MappedOf(k) = PagesOf(k)
  <2> TAKE k \in 1 .. 5
  <2>1. CASE k = 5
    BY <1>1, <2>1 DEF MappedOf, PagesOf, RegionEnd
  <2>2. CASE k # 5
    BY <1>1, <2>2 DEF MappedOf, PagesOf, RegionEnd
  <2> QED
    BY <2>1, <2>2
<1> QED
  BY <1>1, <1>2, <1>3 DEF MappedSoFar

(* What a page of each region may be used for.                             *)
LEMMA RegionUses ==
  /\ Region[1].mairIdx = 0 /\ Region[1].ap = PRIV_R /\ Region[1].pxn = FALSE
  /\ Region[2].mairIdx = 0 /\ Region[2].ap = PRIV_RW /\ Region[2].pxn = TRUE
  /\ Region[3].mairIdx = 0 /\ Region[3].ap = PRIV_RW /\ Region[3].pxn = TRUE
  /\ Region[4].mairIdx = 2 /\ Region[4].ap = PRIV_RW /\ Region[4].pxn = TRUE
  /\ Region[5].mairIdx = 2 /\ Region[5].ap = PRIV_RW /\ Region[5].pxn = TRUE
BY DEF Region, IDX_NORMAL, IDX_DEVICE

(* What vm_setConfig() has made of the two indices in use.                 *)
LEMMA WhatAttributesMean ==
  Attributes[0] # "device" /\ Attributes[2] = "device"
BY DEF Attributes, IDX_NORMAL, IDX_NORMAL_NO_CACHE

(* Every page of the kernel and its devices is mapped to itself, for what  *)
(* it is there for, and no other page is.                                  *)
THEOREM VmKernelIsMapped == Spec => []KernelIsMapped
<1>1. ASSUME IInv, pc = "done", NEW v \in VPage, NEW entry, entry = LeafEntry(ram, ttbr1, v)
      PROVE  /\ entry.valid <=> v \in CodePages \cup DataPages
             /\ entry.valid => entry.address = v /\ entry.af
             /\ v \in CodePages => entry.ap = PRIV_R /\ ~entry.pxn
             /\ v \in DataPages => entry.ap = PRIV_RW /\ entry.pxn
             /\ entry.valid => (mair[entry.attrIndx] = "device" <=> v \in DevicePages)
  <2>1. textSize \in TextSizes /\ dataSize \in DataSizes /\ mair = Attributes
    BY <1>1 DEF IInv, TypeOK, RegistersSet
  <2>2. /\ CodePages = PagesOf(1)
        /\ DevicePages = PagesOf(4) \cup PagesOf(5)
        /\ DataPages = PagesOf(2) \cup PagesOf(3) \cup PagesOf(4) \cup PagesOf(5)
    BY <2>1, PagesOfRegions
  <2>3. CASE \A k \in 1 .. 5 : v \notin PagesOf(k)
    <3>1. ~entry.valid
      <4>1. entry = Invalid
        BY <1>1, <2>3, AllRegionsMapped
      <4> QED
        BY <4>1 DEF Invalid
    <3>2. /\ v \notin PagesOf(1) /\ v \notin PagesOf(2) /\ v \notin PagesOf(3)
          /\ v \notin PagesOf(4) /\ v \notin PagesOf(5)
      BY <2>3
    <3> QED
      BY <2>2, <3>1, <3>2
  <2>4. ASSUME NEW k \in 1 .. 5, v \in PagesOf(k), entry = DescriptorOf(k, v)
        PROVE  /\ entry.valid <=> v \in CodePages \cup DataPages
               /\ entry.valid => entry.address = v /\ entry.af
               /\ v \in CodePages => entry.ap = PRIV_R /\ ~entry.pxn
               /\ v \in DataPages => entry.ap = PRIV_RW /\ entry.pxn
               /\ entry.valid => (mair[entry.attrIndx] = "device" <=> v \in DevicePages)
    <3>1. /\ entry.valid = TRUE /\ entry.address = v /\ entry.af = TRUE
          /\ entry.attrIndx = Region[k].mairIdx
          /\ entry.ap = Region[k].ap /\ entry.pxn = Region[k].pxn
      BY <2>4 DEF DescriptorOf, PageDescriptor
    <3>2. \A j \in 1 .. 5 : v \in PagesOf(j) => j = k
      BY <2>1, <2>4, RegionsAreApart DEF PagesOf
    <3>3. /\ v \in CodePages <=> k = 1
          /\ v \in DevicePages <=> k \in {4, 5}
          /\ v \in DataPages <=> k \in {2, 3, 4, 5}
      BY <2>2, <2>4, <3>2
    <3>4. /\ k = 1 => entry.attrIndx = 0 /\ entry.ap = PRIV_R /\ entry.pxn = FALSE
          /\ k = 2 => entry.attrIndx = 0 /\ entry.ap = PRIV_RW /\ entry.pxn = TRUE
          /\ k = 3 => entry.attrIndx = 0 /\ entry.ap = PRIV_RW /\ entry.pxn = TRUE
          /\ k = 4 => entry.attrIndx = 2 /\ entry.ap = PRIV_RW /\ entry.pxn = TRUE
          /\ k = 5 => entry.attrIndx = 2 /\ entry.ap = PRIV_RW /\ entry.pxn = TRUE
      BY <3>1, RegionUses, Zenon
    <3>5. mair[0] # "device" /\ mair[2] = "device"
      BY <2>1, WhatAttributesMean
    <3>6. k = 1 \/ k = 2 \/ k = 3 \/ k = 4 \/ k = 5
      BY <2>4
    <3> QED
      BY <3>1, <3>3, <3>4, <3>5, <3>6
  <2> QED
    BY <1>1, <2>3, <2>4, AllRegionsMapped
<1>2. IInv => KernelIsMapped
  BY <1>1 DEF KernelIsMapped, At
<1> QED
  BY <1>2, VmIInv, PTL

(* Every variable has its type.                                            *)
THEOREM VmTypeOK == Spec => []TypeOK
BY VmIInv, PTL DEF IInv

(* The assertion of vm_mapAllocating() never fails.                        *)
THEOREM VmEntriesAreFree == Spec => []EntriesAreFree
BY VmIInv, PTL DEF IInv

-----------------------------------------------------------------------------
(* The tables implement the flat table of AddressSpace.                    *)

(* The entry of every page, as the tree has it.                            *)
Space ==
  [v \in VPage |-> IF pc = "root" THEN Invalid ELSE LeafEntry(ram, kernelPagetable, v)]

(* It is all that pc, the memory and the root make of it.                  *)
SpaceIn(p, mem, root) ==
  [v \in VPage |-> IF p = "root" THEN Invalid ELSE LeafEntry(mem, root, v)]

(* The same of the next state: only the three parameters change.           *)
LEMMA SpaceDependsOn ==
  /\ Space = SpaceIn(pc, ram, kernelPagetable)
  /\ Space' = SpaceIn(pc', ram', kernelPagetable')
BY DEF Space, SpaceIn, VPage, LeafEntry, LeafTable, Child, IndexAt

(* A step that only grows the tree changes no entry of a page.             *)
LEMMA OtherStepsMapNothing ==
  ASSUME IInv, [Next]_vars, ~MapPage
  PROVE  Space' = Space
<1>1. /\ TypeOK /\ PoolInv /\ Place
      /\ Space = SpaceIn(pc, ram, kernelPagetable)
      /\ Space' = SpaceIn(pc', ram', kernelPagetable')
  BY SpaceDependsOn DEF IInv
<1>2. CASE AllocRoot
  <2>1. pc = "root" /\ pc' = "map" /\ held = {}
    BY <1>1, <1>2 DEF AllocRoot, At, Place
  <2>2. \A v \in VPage : LeafEntry(ram', kernelPagetable', v) = Invalid
    BY <1>1, <1>2, <2>1, AllocRootMapsNothing
  <2> QED
    BY <1>1, <2>1, <2>2 DEF SpaceIn
<1>3. CASE AllocTable
  <2>1. /\ pc = "map" /\ pc' = "map" /\ va < LastPage
        /\ UNCHANGED kernelPagetable
    BY <1>3 DEF AllocTable, Walking, At
  <2>2. PICK lev : Tree(lev)
    BY <2>1 DEF IInv
  <2>3. OnTheWay /\ va \in VPage
    BY <1>1, <2>1, NextPageIsNew DEF IInv
  <2>4. \A v \in VPage :
          LeafEntry(ram', kernelPagetable, v) = LeafEntry(ram, kernelPagetable, v)
    BY <1>1, <1>3, <2>2, <2>3, AllocTableKeepsEntries
  <2> QED
    BY <1>1, <2>1, <2>4 DEF SpaceIn
<1>4. CASE ~AllocRoot /\ ~AllocTable
  <2>1. UNCHANGED <<ram, kernelPagetable>> /\ (pc = "root" <=> pc' = "root")
    BY <1>4 DEF Next, vars, Descend, AllocTableFails, NextRegion, vm_setConfig, SetTables,
                vm_enable, Finished, tableVars, Walking, At
  <2> QED
    BY <1>1, <2>1 DEF SpaceIn
<1> QED
  BY <1>2, <1>3, <1>4

(* MapPage fills in the entry of one page, which was free.                 *)
LEMMA MapPageFillsIn ==
  ASSUME IInv, MapPage
  PROVE  /\ va \in VPage
         /\ Space[va] = Invalid
         /\ Space' = [Space EXCEPT ![va] = DescriptorOf(region, va)]
<1>1. /\ TypeOK /\ PoolInv /\ Place
      /\ Space = SpaceIn(pc, ram, kernelPagetable)
      /\ Space' = SpaceIn(pc', ram', kernelPagetable')
  BY SpaceDependsOn DEF IInv
<1>2. ~Entry.valid /\ pc = "map" /\ va \in VPage /\ va < LastPage
  BY MapPageMaps
<1>3. OnTheWay /\ MappedSoFar
  BY <1>2 DEF IInv
<1>4. PICK lev : Tree(lev)
  BY <1>2 DEF IInv
<1>5. pc' = "map" /\ kernelPagetable' = kernelPagetable
  BY <1>2 DEF MapPage
<1>6. \A v \in VPage : LeafEntry(ram', kernelPagetable, v) =
         IF v = va THEN DescriptorOf(region, va) ELSE LeafEntry(ram, kernelPagetable, v)
  BY <1>1, <1>2, <1>3, <1>4, MapPageMapsOnePage
<1>7. LeafEntry(ram, kernelPagetable, va) = Invalid
  BY <1>1, <1>2, <1>3, NextPageIsNew DEF MappedSoFar
<1> QED
  BY <1>1, <1>2, <1>5, <1>6, <1>7 DEF SpaceIn

(* To a reader of the entries of all pages, vm_init() does nothing but     *)
(* fill in free entries of one flat table, each with what a region asks    *)
(* for: no page is mapped twice and none loses its entry.                  *)
THEOREM VmImplementsAddressSpace == Spec => ImplementsAddressSpace
<1>1. Init => Flat!Init
  <2> SUFFICES ASSUME Init
               PROVE  Flat!Init
    OBVIOUS
  <2>1. pc = "root"
    BY DEF Init
  <2> QED
    BY <2>1 DEF Flat!Init
<1>2. IInv /\ [Next]_vars => [Flat!Next]_Space
  <2> SUFFICES ASSUME IInv, [Next]_vars
               PROVE  Flat!Next \/ Space' = Space
    OBVIOUS
  <2>1. CASE MapPage
    <3> DEFINE descriptor == DescriptorOf(region, va)
    <3>1. /\ va \in VPage
          /\ Space[va] = Invalid
          /\ Space' = [Space EXCEPT ![va] = descriptor]
      BY <2>1, MapPageFillsIn
    <3>2. descriptor \in [valid : {TRUE}, address : VPage, attrIndx : {IDX_NORMAL, IDX_DEVICE},
                          ap : {PRIV_R, PRIV_RW}, pxn : BOOLEAN, af : {TRUE}]
      <4>1. region \in 1 .. 5
        BY Layout DEF IInv, TypeOK
      <4>2. /\ Region[region].mairIdx \in {0, 2} /\ Region[region].ap \in {0, 2}
            /\ Region[region].pxn \in BOOLEAN
        BY <4>1, RegionAttributes
      <4> QED
        BY <3>1, <4>2 DEF DescriptorOf, PageDescriptor, IDX_NORMAL, IDX_DEVICE, PRIV_R, PRIV_RW
    <3> HIDE DEF descriptor
    <3>3. Space'[va] = descriptor
      BY <3>1 DEF Space
    <3>4. Flat!Map(va)
      BY <3>1, <3>2, <3>3 DEF Flat!Map, Space
    <3> QED
      BY <3>1, <3>4 DEF Flat!Next
  <2>2. CASE ~MapPage
    BY <2>2, OtherStepsMapNothing
  <2> QED
    BY <2>1, <2>2
<1> QED
  BY <1>1, <1>2, VmIInv, PTL DEF Spec, ImplementsAddressSpace, Flat!Spec, Space
=============================================================================
