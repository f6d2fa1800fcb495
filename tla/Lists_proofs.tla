----------------------------- MODULE Lists_proofs -----------------------------
(***************************************************************************)
(* Proofs about the lists: what a walk through their pages has listed,     *)
(* while rows come, change and go between its statements; and about the    *)
(* financial reports.  ListInv is inductive, and ReportInv beside it.      *)
(***************************************************************************)
EXTENDS Margin, Quantities_proofs, SequenceTheorems

-------------------------------------------------------------------------------
(* Enumerating a set of rows *)

(* An enumeration of S has each member of S once. *)
LEMMA Enumeration ==
  ASSUME NEW S, IsFiniteSet(S), NEW s \in SetToSeqs(S)
  PROVE  /\ s \in Seq(S) /\ Len(s) = Cardinality(S) /\ DOMAIN s = 1..Cardinality(S)
         /\ IsInjective(s)
         /\ ToSet(s) = S
         /\ \A x \in S : \E k \in DOMAIN s : s[k] = x
<1> PICK n \in Nat : n = Cardinality(S)
  BY FS_CardinalityType
<1>1. s \in [1..n -> S] /\ \A i, j \in 1..n : i # j => s[i] # s[j]
  BY DEF SetToSeqs
<1>2. s \in Seq(S) /\ Len(s) = n /\ DOMAIN s = 1..n
  BY <1>1
<1>3. IsInjective(s)
  BY <1>1 DEF IsInjective
<1>4. s \in Injection(1..n, S)
  BY <1>1, <1>3 DEF Injection
<1>5. 1 \in Int /\ n \in Int
  OBVIOUS
<1>6. Cardinality(1..n) = IF 1 > n THEN 0 ELSE n - 1 + 1
  BY <1>5, FS_Interval, Zenon
<1>7. Cardinality(1..n) = Cardinality(S)
  BY <1>6
<1>8. s \in Surjection(1..n, S)
  BY <1>4, <1>7, FS_Injection
<1>9. \A x \in S : \E k \in DOMAIN s : s[k] = x
  BY <1>2, <1>8 DEF Surjection
<1>10. ToSet(s) = S
  BY <1>1, <1>2, <1>9 DEF ToSet
<1> QED
  BY <1>2, <1>3, <1>9, <1>10

-------------------------------------------------------------------------------
(* Sequences sorted by an order: <<x, y>> \in R says that x is ahead of y *)

InOrder(R, s) == \A i, j \in DOMAIN s : i < j => <<s[i], s[j]>> \in R

StrictOrder(R, T) ==
  /\ \A x, y \in T : <<x, y>> \in R => <<y, x>> \notin R
  /\ \A x, y, z \in T : <<x, y>> \in R /\ <<y, z>> \in R => <<x, z>> \in R

(* No two of T are tied. *)
TotalOrder(R, T) ==
  StrictOrder(R, T) /\ \A x, y \in T : x # y => <<x, y>> \in R \/ <<y, x>> \in R

(* Finitely many have a last one. *)
LEMMA LastInOrder ==
  ASSUME NEW R, NEW S, IsFiniteSet(S), TotalOrder(R, S), S # {}
  PROVE  \E m \in S : \A y \in S \ {m} : <<y, m>> \in R
<1> DEFINE C == {T \in SUBSET S : T = {} \/ \E m \in T : \A y \in T \ {m} : <<y, m>> \in R}
<1>1. {} \in C
  OBVIOUS
<1>2. ASSUME NEW T \in SUBSET S, NEW x \in S, T \in C, x \notin T
      PROVE  T \cup {x} \in C
  <2>1. CASE T = {}
    BY <2>1
  <2>2. CASE T # {}
    <3>1. PICK m \in T : \A y \in T \ {m} : <<y, m>> \in R
      BY <1>2, <2>2
    <3>2. <<x, m>> \in R \/ <<m, x>> \in R
      BY <1>2 DEF TotalOrder
    <3>3. CASE <<x, m>> \in R
      BY <3>1, <3>3
    <3>4. CASE <<m, x>> \in R
      <4>1. ASSUME NEW y \in T PROVE <<y, x>> \in R
        BY <3>1, <3>4 DEF TotalOrder, StrictOrder
      <4> QED
        BY <4>1
    <3> QED
      BY <3>2, <3>3, <3>4
  <2> QED
    BY <2>1, <2>2
<1>3. S \in C
  <2> HIDE DEF C
  <2>1. \A T \in SUBSET S, x \in S : T \in C /\ x \notin T => T \cup {x} \in C
    BY <1>2
  <2>2. \A T \in SUBSET S : T \in C
    BY <1>1, <2>1, SubsetInduction
  <2> QED
    BY <2>2
<1> QED
  BY <1>3

(* They can be sorted. *)
LEMMA OrderSorts ==
  ASSUME NEW R, NEW S, IsFiniteSet(S), TotalOrder(R, S)
  PROVE  \E s \in SetToSeqs(S) : InOrder(R, s)
<1> DEFINE C == {T \in SUBSET S : ~\E s \in SetToSeqs(T) : InOrder(R, s)}
<1>1. SUFFICES ASSUME C # {} PROVE FALSE
  OBVIOUS
<1>2. PICK T \in C : \A U \in C : U \subseteq T => U = T
  <2>1. C \subseteq SUBSET S
    OBVIOUS
  <2> HIDE DEF C
  <2> QED
    BY <1>1, <2>1, MinimalSubset
<1>3. T # {}
  <2> SUFFICES ASSUME T = {} PROVE FALSE
    OBVIOUS
  <2>1. 1..Cardinality(T) = {}
    BY FS_EmptySet
  <2>2. <<>> \in SetToSeqs(T)
    BY <2>1 DEF SetToSeqs
  <2>3. InOrder(R, <<>>)
    BY DEF InOrder
  <2> QED
    BY <1>2, <2>2, <2>3
<1>4. T \subseteq S /\ IsFiniteSet(T) /\ TotalOrder(R, T)
  <2>1. T \subseteq S
    BY <1>2
  <2> QED
    BY <2>1, FS_Subset DEF TotalOrder, StrictOrder
<1>5. PICK m \in T : \A y \in T \ {m} : <<y, m>> \in R
  BY <1>3, <1>4, LastInOrder
<1>6. PICK s \in SetToSeqs(T \ {m}) : InOrder(R, s)
  BY <1>2, <1>5
<1> PICK n \in Nat : n = Cardinality(T \ {m})
  BY <1>4, FS_RemoveElement, FS_CardinalityType
<1>7. IsFiniteSet(T \ {m}) /\ Cardinality(T) = n + 1
  <2>1. IsFiniteSet(T \ {m}) /\ Cardinality(T \ {m}) = Cardinality(T) - 1
    BY <1>4, <1>5, FS_RemoveElement
  <2>2. Cardinality(T) \in Nat
    BY <1>4, FS_CardinalityType
  <2> QED
    BY <2>1, <2>2
<1>8. s \in Seq(T \ {m}) /\ Len(s) = n /\ DOMAIN s = 1..n /\ IsInjective(s)
  BY <1>6, <1>7, Enumeration
<1> PICK u : u = Append(s, m)
  OBVIOUS
<1>9. /\ u \in [1..(n + 1) -> T] /\ u[n + 1] = m
      /\ \A i \in 1..n : u[i] = s[i] /\ u[i] \in T \ {m}
  <2>1. s \in Seq(T) /\ m \in T
    BY <1>8, SeqMonotonic
  <2>2. /\ u \in Seq(T) /\ Len(u) = Len(s) + 1 /\ u[Len(s) + 1] = m
        /\ \A i \in 1..Len(s) : u[i] = s[i]
    BY <2>1, AppendProperties
  <2>3. \A i \in 1..n : s[i] \in T \ {m}
    BY <1>8
  <2>4. u \in [1..Len(u) -> T]
    BY <2>2, LenProperties
  <2> QED
    BY <1>8, <2>2, <2>3, <2>4
<1>10. u \in SetToSeqs(T)
  <2>1. ASSUME NEW i \in 1..(n + 1), NEW j \in 1..(n + 1), i # j PROVE u[i] # u[j]
    <3>1. \A k, l \in 1..n : k # l => s[k] # s[l]
      BY <1>8 DEF IsInjective
    <3>2. \A k \in 1..(n + 1) : k \in 1..n \/ k = n + 1
      OBVIOUS
    <3>3. \A k \in 1..n : u[k] = s[k] /\ u[k] # u[n + 1]
      BY <1>9
    <3>4. CASE i \in 1..n /\ j \in 1..n
      BY <2>1, <3>1, <3>3, <3>4
    <3>5. CASE i = n + 1
      <4>1. j \in 1..n
        BY <2>1, <3>2, <3>5
      <4> QED
        BY <3>3, <3>5, <4>1
    <3>6. CASE j = n + 1
      <4>1. i \in 1..n
        BY <2>1, <3>2, <3>6
      <4> QED
        BY <3>3, <3>6, <4>1
    <3> QED
      BY <3>2, <3>4, <3>5, <3>6
  <2> QED
    BY <1>7, <1>9, <2>1 DEF SetToSeqs
<1>11. InOrder(R, u)
  <2>1. ASSUME NEW i \in 1..(n + 1), NEW j \in 1..(n + 1), i < j
        PROVE  <<u[i], u[j]>> \in R
    <3>1. CASE j = n + 1
      <4>1. i \in 1..n
        BY <2>1, <3>1
      <4> QED
        BY <1>5, <1>9, <3>1, <4>1
    <3>2. CASE j \in 1..n
      <4>1. i \in 1..n
        BY <2>1, <3>2
      <4>2. <<s[i], s[j]>> \in R
        BY <1>6, <1>8, <2>1, <3>2, <4>1 DEF InOrder
      <4> QED
        BY <1>9, <3>2, <4>1, <4>2
    <3>3. j = n + 1 \/ j \in 1..n
      BY <2>1
    <3> QED
      BY <3>1, <3>2, <3>3
  <2> QED
    BY <1>9, <2>1 DEF InOrder
<1> QED
  BY <1>2, <1>10, <1>11

(* The place of one in the list is the number of those ahead of it. *)
LEMMA OrderPlace ==
  ASSUME NEW R, NEW S, IsFiniteSet(S), StrictOrder(R, S),
         NEW s \in SetToSeqs(S), InOrder(R, s), NEW k \in DOMAIN s
  PROVE  Cardinality({x \in S : <<x, s[k]>> \in R}) = k - 1
<1> PICK A : A = {x \in S : <<x, s[k]>> \in R}
  OBVIOUS
<1> PICK f : f = [m \in 1..(k - 1) |-> s[m]]
  OBVIOUS
<1> PICK n \in Nat : n = Cardinality(S)
  BY FS_CardinalityType
<1>1. /\ s \in Seq(S) /\ DOMAIN s = 1..n /\ IsInjective(s)
      /\ \A x \in S : \E m \in DOMAIN s : s[m] = x
  BY Enumeration
<1>2. k \in 1..n /\ k \in Nat /\ \A m \in 1..n : s[m] \in S
  BY <1>1
<1>3. \A m \in 1..n : <<s[m], s[k]>> \in R <=> m < k
  <2>1. \A m \in 1..n : m < k => <<s[m], s[k]>> \in R
    BY <1>1, <1>2 DEF InOrder
  <2>2. ASSUME NEW m \in 1..n, k < m PROVE <<s[m], s[k]>> \notin R
    <3>1. <<s[k], s[m]>> \in R
      BY <1>1, <1>2, <2>2 DEF InOrder
    <3> QED
      BY <1>2, <3>1 DEF StrictOrder
  <2>3. <<s[k], s[k]>> \notin R
    BY <1>2 DEF StrictOrder
  <2> QED
    BY <1>2, <2>1, <2>2, <2>3
<1>4. f \in [1..(k - 1) -> A]
  BY <1>1, <1>2, <1>3
<1>5. f \in Bijection(1..(k - 1), A)
  <2>1. IsInjective(f)
    BY <1>1, <1>2 DEF IsInjective
  <2>2. ASSUME NEW a \in A PROVE \E m \in 1..(k - 1) : f[m] = a
    <3>1. PICK m \in 1..n : s[m] = a
      BY <1>1
    <3>2. m < k
      BY <1>3, <3>1
    <3>3. m \in 1..(k - 1)
      BY <1>2, <3>2
    <3> QED
      BY <3>1, <3>3
  <2> QED
    BY <1>4, <2>1, <2>2 DEF Bijection, Injection, Surjection
<1>6. 1 \in Int /\ k - 1 \in Int
  BY <1>2
<1>7. IsFiniteSet(1..(k - 1)) /\ Cardinality(1..(k - 1)) = IF 1 > k - 1 THEN 0 ELSE (k - 1) - 1 + 1
  BY <1>6, FS_Interval, Zenon
<1>8. Cardinality(A) = Cardinality(1..(k - 1))
  BY <1>5, <1>7, FS_Bijection DEF ExistsBijection
<1> QED
  BY <1>2, <1>7, <1>8

(* So there is one way to sort them, *)
LEMMA OrderOnce ==
  ASSUME NEW R, NEW S, IsFiniteSet(S), StrictOrder(R, S),
         NEW s \in SetToSeqs(S), InOrder(R, s), NEW u \in SetToSeqs(S), InOrder(R, u)
  PROVE  s = u
<1> PICK n \in Nat : n = Cardinality(S)
  BY FS_CardinalityType
<1>1. s \in Seq(S) /\ u \in Seq(S) /\ Len(s) = n /\ Len(u) = n
      /\ \A x \in S : \E m \in DOMAIN u : u[m] = x
  BY Enumeration
<1>2. ASSUME NEW k \in 1..n PROVE s[k] = u[k]
  <2>1. PICK m \in 1..n : u[m] = s[k]
    BY <1>1
  <2> k \in DOMAIN s /\ m \in DOMAIN u
    BY <1>1
  <2>2. Cardinality({x \in S : <<x, s[k]>> \in R}) = k - 1
    BY OrderPlace
  <2>3. Cardinality({x \in S : <<x, u[m]>> \in R}) = m - 1
    BY OrderPlace
  <2>4. k - 1 = m - 1
    BY <2>1, <2>2, <2>3
  <2>5. k = m
    BY <2>4
  <2> QED
    BY <2>1, <2>5
<1> QED
  BY <1>1, <1>2, SeqEqual

(* and a sorted sequence enumerates what is in it. *)
LEMMA OrderEnumerates ==
  ASSUME NEW R, NEW T, StrictOrder(R, T), NEW s \in Seq(T), InOrder(R, s)
  PROVE  IsInjective(s) /\ s \in SetToSeqs(ToSet(s)) /\ IsFiniteSet(ToSet(s))
<1> PICK n \in Nat : n = Len(s)
  OBVIOUS
<1> PICK V : V = ToSet(s)
  OBVIOUS
<1>1. s \in [1..n -> T]
  BY LenProperties
<1>2. ASSUME NEW i \in 1..n, NEW j \in 1..n, i # j PROVE s[i] # s[j]
  <2>1. i < j \/ j < i
    BY <1>2
  <2>2. <<s[i], s[j]>> \in R \/ <<s[j], s[i]>> \in R
    BY <1>1, <2>1 DEF InOrder
  <2> QED
    BY <1>1, <2>2 DEF StrictOrder
<1>3. IsInjective(s)
  BY <1>1, <1>2 DEF IsInjective
<1>4. s \in [1..n -> V]
  BY <1>1 DEF ToSet
<1>5. s \in Bijection(1..n, V)
  BY <1>1, <1>3, <1>4 DEF Bijection, Injection, Surjection, ToSet
<1>6. 1 \in Int /\ n \in Int
  OBVIOUS
<1>7. IsFiniteSet(1..n) /\ Cardinality(1..n) = IF 1 > n THEN 0 ELSE n - 1 + 1
  BY <1>6, FS_Interval, Zenon
<1>8. Cardinality(V) = Cardinality(1..n) /\ IsFiniteSet(V)
  BY <1>5, <1>7, FS_Bijection DEF ExistsBijection
<1>9. Cardinality(V) = n
  BY <1>7, <1>8
<1>10. s \in SetToSeqs(V)
  BY <1>2, <1>4, <1>9 DEF SetToSeqs
<1> QED
  BY <1>3, <1>8, <1>10

(* Two sorted sequences make one when the first is ahead of the second. *)
LEMMA OrderJoins ==
  ASSUME NEW R, NEW T, NEW s \in Seq(T), NEW u \in Seq(T), InOrder(R, s), InOrder(R, u),
         \A x \in ToSet(s), y \in ToSet(u) : <<x, y>> \in R
  PROVE  InOrder(R, s \o u)
<1> PICK m \in Nat, n \in Nat : m = Len(s) /\ n = Len(u)
  OBVIOUS
<1>1. DOMAIN s = 1..m /\ DOMAIN u = 1..n
  BY LenProperties
<1> PICK v : v = s \o u
  OBVIOUS
<1>2. /\ v \in Seq(T) /\ Len(v) = m + n
      /\ \A i \in 1..(m + n) : v[i] = IF i <= m THEN s[i] ELSE u[i - m]
  BY ConcatProperties
<1>3. ASSUME NEW i \in 1..(m + n), NEW j \in 1..(m + n), i < j
      PROVE  <<v[i], v[j]>> \in R
  <2>1. CASE j <= m
    <3>1. i \in 1..m /\ j \in 1..m /\ v[i] = s[i] /\ v[j] = s[j]
      BY <1>2, <1>3, <2>1
    <3> QED
      BY <1>1, <1>3, <3>1 DEF InOrder
  <2>2. CASE i <= m /\ ~(j <= m)
    <3>1. i \in 1..m /\ j - m \in 1..n /\ v[i] = s[i] /\ v[j] = u[j - m]
      BY <1>2, <1>3, <2>2
    <3>2. s[i] \in ToSet(s) /\ u[j - m] \in ToSet(u)
      BY <1>1, <3>1 DEF ToSet
    <3> QED
      BY <3>1, <3>2
  <2>3. CASE ~(i <= m)
    <3>1. i - m \in 1..n /\ j - m \in 1..n /\ i - m < j - m /\ ~(j <= m)
      BY <1>3, <2>3
    <3>2. v[i] = u[i - m] /\ v[j] = u[j - m]
      BY <1>2, <2>3, <3>1
    <3> QED
      BY <1>1, <3>1, <3>2 DEF InOrder
  <2> QED
    BY <2>1, <2>2, <2>3
<1> QED
  BY <1>2, <1>3, LenProperties DEF InOrder

-------------------------------------------------------------------------------
(* Rows in the order of their lists *)

(* Ids are finitely many. *)
LEMMA FiniteRows ==
  ASSUME NEW S, S \subseteq Id
  PROVE  IsFiniteSet(S) /\ Cardinality(S) \in Nat
BY ListConstants, FS_Subset, FS_CardinalityType

(* The order of ORDER BY, later keys first: ahead of i comes j. *)
Ahead(list, j, i) ==
  IF list = "recall_report" THEN row[j].closed > row[i].closed
  ELSE Below(Key(i), Key(j))

Sorted(list, s) == \A i, j \in DOMAIN s : i < j => Ahead(list, s[i], s[j])

LEMMA AheadOrders ==
  ASSUME row \in [Id -> Row], NEW list, NEW i \in Id, NEW j \in Id, NEW k \in Id
  PROVE  /\ ~Ahead(list, i, i)
         /\ Ahead(list, i, j) => ~Ahead(list, j, i)
         /\ Ahead(list, i, j) /\ Ahead(list, j, k) => Ahead(list, i, k)
         /\ i # j /\ list # "recall_report" => Ahead(list, i, j) \/ Ahead(list, j, i)
<1>1. \A m \in Id : m \in Nat /\ row[m].created \in Nat /\ row[m].closed \in Nat
  BY ListConstants DEF Row
<1> QED
  BY <1>1 DEF Ahead, Below, Key

RowOrder(list) == {p \in Id \X Id : Ahead(list, p[1], p[2])}

LEMMA RowOrders ==
  ASSUME row \in [Id -> Row], NEW list
  PROVE  /\ StrictOrder(RowOrder(list), Id)
         /\ list # "recall_report" => TotalOrder(RowOrder(list), Id)
<1>1. \A i, j \in Id : <<i, j>> \in RowOrder(list) <=> Ahead(list, i, j)
  BY DEF RowOrder
<1>2. StrictOrder(RowOrder(list), Id)
  BY <1>1, AheadOrders DEF StrictOrder
<1> QED
  BY <1>1, <1>2, AheadOrders DEF TotalOrder

LEMMA SortedRows ==
  ASSUME NEW list, NEW s \in Seq(Id)
  PROVE  Sorted(list, s) <=> InOrder(RowOrder(list), s)
<1>1. \A i \in DOMAIN s : s[i] \in Id
  OBVIOUS
<1> QED
  BY <1>1 DEF Sorted, InOrder, RowOrder

LEMMA SubsetOrders ==
  ASSUME NEW R, NEW T, NEW S, S \subseteq T
  PROVE  /\ StrictOrder(R, T) => StrictOrder(R, S)
         /\ TotalOrder(R, T) => TotalOrder(R, S)
BY DEF StrictOrder, TotalOrder

(* The rows of a list can be sorted by their keys. *)
LEMMA SortedExists ==
  ASSUME row \in [Id -> Row], NEW S, S \subseteq Id
  PROVE  \E s \in SetToSeqs(S) : \A i, j \in DOMAIN s : i < j => Below(Key(s[j]), Key(s[i]))
<1> PICK R : R = RowOrder("sales_orders")
  OBVIOUS
<1>1. IsFiniteSet(S) /\ TotalOrder(R, S)
  BY FiniteRows, RowOrders, SubsetOrders
<1>2. PICK s \in SetToSeqs(S) : InOrder(R, s)
  BY <1>1, OrderSorts
<1> QED
  BY <1>2 DEF InOrder, RowOrder, Ahead

LEMMA NewestSorts ==
  ASSUME row \in [Id -> Row], NEW S, S \subseteq Id, NEW list, list # "recall_report"
  PROVE  Newest(S) \in SetToSeqs(S) /\ Sorted(list, Newest(S))
<1>1. /\ Newest(S) \in SetToSeqs(S)
      /\ \A i, j \in DOMAIN Newest(S) : i < j => Below(Key(Newest(S)[j]), Key(Newest(S)[i]))
  BY SortedExists DEF Newest
<1> QED
  BY <1>1 DEF Sorted, Ahead

(* A page's statement may return its rows in any of these orders. *)
LEMMA OrdersSort ==
  ASSUME row \in [Id -> Row], NEW S, S \subseteq Id, NEW list, NEW s \in Orders(list, S)
  PROVE  /\ s \in SetToSeqs(S)
         /\ (list = "recall_report" =>
               \A i, j \in S : i # j => row[i].closed # row[j].closed) => Sorted(list, s)
<1>1. CASE list # "recall_report"
  BY <1>1, NewestSorts DEF Orders
<1>2. CASE list = "recall_report"
  <2>1. /\ s \in SetToSeqs(S)
        /\ \A i, j \in DOMAIN s : i < j => row[s[i]].closed >= row[s[j]].closed
    BY <1>2 DEF Orders, LatestSales
  <2>2. \A i, j \in DOMAIN s : i < j => s[i] \in S /\ s[j] \in S /\ s[i] # s[j]
    BY <2>1 DEF SetToSeqs
  <2>3. \A i \in S : row[i].closed \in Nat
    BY ListConstants DEF Row
  <2>4. ASSUME \A i, j \in S : i # j => row[i].closed # row[j].closed PROVE Sorted(list, s)
    BY <1>2, <2>1, <2>2, <2>3, <2>4 DEF Sorted, Ahead
  <2> QED
    BY <1>2, <2>1, <2>4
<1> QED
  BY <1>1, <1>2

(* An enumeration of rows is a sequence of them. *)
LEMMA EnumeratedRows ==
  ASSUME NEW S, S \subseteq Id, NEW s \in SetToSeqs(S)
  PROVE  s \in Seq(Id)
<1>1. s \in Seq(S)
  BY FiniteRows, Enumeration
<1> QED
  BY <1>1, SeqMonotonic

(* A row's place in the list is the number of rows ahead of it. *)
LEMMA Place ==
  ASSUME row \in [Id -> Row], NEW S, S \subseteq Id, NEW list,
         NEW s \in SetToSeqs(S), Sorted(list, s), NEW k \in DOMAIN s
  PROVE  Cardinality({j \in S : Ahead(list, j, s[k])}) = k - 1
<1> PICK R : R = RowOrder(list)
  OBVIOUS
<1>1. IsFiniteSet(S) /\ StrictOrder(R, S) /\ s \in Seq(Id)
  BY FiniteRows, RowOrders, SubsetOrders, EnumeratedRows
<1>2. InOrder(R, s)
  BY <1>1, SortedRows
<1>3. Cardinality({j \in S : <<j, s[k]>> \in R}) = k - 1
  BY <1>1, <1>2, OrderPlace
<1>4. {j \in S : <<j, s[k]>> \in R} = {j \in S : Ahead(list, j, s[k])}
  <2>1. s[k] \in Id
    BY <1>1
  <2> QED
    BY <2>1 DEF RowOrder
<1> QED
  BY <1>3, <1>4

(* So there is one way to sort rows without ties. *)
LEMMA SortedOnce ==
  ASSUME row \in [Id -> Row], NEW S, S \subseteq Id, NEW list,
         NEW s \in SetToSeqs(S), Sorted(list, s), NEW u \in SetToSeqs(S), Sorted(list, u)
  PROVE  s = u
<1> PICK R : R = RowOrder(list)
  OBVIOUS
<1>1. IsFiniteSet(S) /\ StrictOrder(R, S) /\ s \in Seq(Id) /\ u \in Seq(Id)
  BY FiniteRows, RowOrders, SubsetOrders, EnumeratedRows
<1>2. InOrder(R, s) /\ InOrder(R, u)
  BY <1>1, SortedRows
<1> QED
  BY <1>1, <1>2, OrderOnce

(* What LIMIT and OFFSET take of a list. *)
LEMMA LeastOfTwo ==
  ASSUME NEW a \in Int, NEW b \in Int
  PROVE  Min({a, b}) = IF a <= b THEN a ELSE b
<1>1. CASE a <= b
  <2>1. a \in {a, b} /\ \A y \in {a, b} : a <= y
    BY <1>1
  <2>2. \A x \in {a, b} : (\A y \in {a, b} : x <= y) => x = a
    BY <1>1
  <2> QED
    BY <1>1, <2>1, <2>2 DEF Min
<1>2. CASE ~(a <= b)
  <2>1. b \in {a, b} /\ \A y \in {a, b} : b <= y
    BY <1>2
  <2>2. \A x \in {a, b} : (\A y \in {a, b} : x <= y) => x = b
    BY <1>2
  <2> QED
    BY <1>2, <2>1, <2>2 DEF Min
<1> QED
  BY <1>1, <1>2

(* So many of l rows. *)
Taken(l, from, n) ==
  IF from >= l THEN 0 ELSE IF from + n <= l THEN n ELSE l - from

LEMMA Fetched ==
  ASSUME NEW T, NEW s \in Seq(T), NEW from \in Nat, NEW n \in Nat
  PROVE  /\ Fetch(s, from, n) \in Seq(T) /\ Len(Fetch(s, from, n)) = Taken(Len(s), from, n)
         /\ Taken(Len(s), from, n) \in Nat
         /\ \A i \in 1..Taken(Len(s), from, n) :
              from + i \in DOMAIN s /\ Fetch(s, from, n)[i] = s[from + i]
<1> PICK l \in Nat : l = Len(s)
  OBVIOUS
<1> PICK e : e = IF from + n <= l THEN from + n ELSE l
  OBVIOUS
<1>1. e \in Nat /\ Min({from + n, l}) = e
  BY LeastOfTwo
<1>2. Fetch(s, from, n) = SubSeq(s, from + 1, e)
  BY <1>1 DEF Fetch
<1>3. \A i \in (from + 1)..e : s[i] \in T
  BY <1>1
<1>4. /\ SubSeq(s, from + 1, e) \in Seq(T)
      /\ Len(SubSeq(s, from + 1, e)) = IF from + 1 <= e THEN e - (from + 1) + 1 ELSE 0
      /\ \A i \in 1..(e - (from + 1) + 1) : SubSeq(s, from + 1, e)[i] = s[(from + 1) + i - 1]
  BY <1>1, <1>3, SubSeqProperties
<1>5. Taken(l, from, n) = IF from + 1 <= e THEN e - (from + 1) + 1 ELSE 0
  BY <1>1 DEF Taken
<1>6. Taken(l, from, n) \in Nat /\ DOMAIN s = 1..l
  BY DEF Taken
<1>7. ASSUME NEW i \in 1..Taken(l, from, n)
      PROVE  from + i \in 1..l /\ i \in 1..(e - (from + 1) + 1) /\ (from + 1) + i - 1 = from + i
  BY <1>1, <1>5 DEF Taken
<1> QED
  BY <1>2, <1>4, <1>5, <1>6, <1>7

(* The client has one request, for a list or for a report. *)
ClientOK ==
  /\ walk.at # "idle" => report.at = "idle"
  /\ walk.at = "idle" => walk.got = <<>>
  /\ walk.at = "count" => walk.list \in OffsetList

ShownNow == Shown(walk.list, walk.filter)

(* What stays in the list is in it. *)
SteadyOK == walk.at # "idle" => walk.steady \subseteq ShownNow

(* A keyset walk has listed, in order, what is not below its cursor; what  *)
(* stays and is not listed is below it.                                    *)
KeysetOK ==
  walk.list \in KeysetList /\ walk.at # "idle" =>
    /\ \A i \in Listed : row[i].status # "absent"
    /\ Sorted(walk.list, walk.got)
    /\ walk.at = "export" => walk.got = <<>>
    /\ walk.at = "page" =>
         IF walk.cursor = NoCursor THEN walk.got = <<>>
         ELSE /\ \A i \in Listed : ~Below(Key(i), walk.cursor)
              /\ \A i \in walk.steady : i \in Listed \/ Below(Key(i), walk.cursor)
    /\ walk.at = "done" => walk.steady \subseteq Listed

RowsAhead(i) == {j \in ShownNow : Ahead(walk.list, j, i)}

(* What stays and an offset walk has not listed has its whole offset of    *)
(* rows ahead of it.                                                       *)
OffsetOK ==
  walk.list \in OffsetList /\ walk.at # "idle" /\ ~walk.left /\ ~Tied =>
    IF walk.at = "done" THEN ~walk.stale => walk.steady \subseteq Listed
    ELSE \A i \in walk.steady :
           i \in Listed \/ Cardinality(RowsAhead(i)) >= walk.offset

(* Of a list nobody has written to yet, the walk has a prefix. *)
UnchangedOK ==
  walk.writes = 0 /\ walk.at # "idle" =>
    /\ walk.steady = ShownNow
    /\ walk.list \in KeysetList => Listed \subseteq ShownNow
    /\ walk.list \in OffsetList /\ ~Tied =>
         /\ walk.at \in {"count", "page"} =>
              \/ walk.got = <<>> /\ walk.offset = 0
              \/ \E s \in Orders(walk.list, ShownNow) : walk.got = Fetch(s, 0, walk.offset)
         /\ walk.at = "page" => walk.total = Cardinality(ShownNow)
         /\ walk.at = "done" => walk.got \in Orders(walk.list, ShownNow)

ListInv == WalkOK /\ ClientOK /\ SteadyOK /\ KeysetOK /\ OffsetOK /\ UnchangedOK

-------------------------------------------------------------------------------
(* Sequences of rows *)

LEMMA JoinedSet ==
  ASSUME NEW T, NEW s \in Seq(T), NEW u \in Seq(T)
  PROVE  /\ s \o u \in Seq(T) /\ ToSet(s \o u) = ToSet(s) \cup ToSet(u)
<1> PICK m \in Nat, n \in Nat : m = Len(s) /\ n = Len(u)
  OBVIOUS
<1>1. /\ DOMAIN s = 1..m /\ DOMAIN u = 1..n
  BY LenProperties
<1>2. /\ s \o u \in Seq(T) /\ Len(s \o u) = m + n
      /\ \A i \in 1..(m + n) : (s \o u)[i] = IF i <= m THEN s[i] ELSE u[i - m]
  BY ConcatProperties
<1>3. DOMAIN (s \o u) = 1..(m + n)
  BY <1>2, LenProperties
<1>4. ASSUME NEW x \in ToSet(s \o u) PROVE x \in ToSet(s) \cup ToSet(u)
  <2>1. PICK i \in 1..(m + n) : x = (s \o u)[i]
    BY <1>3 DEF ToSet
  <2>2. CASE i <= m
    <3>1. i \in 1..m /\ x = s[i]
      BY <1>2, <2>1, <2>2
    <3> QED
      BY <1>1, <3>1 DEF ToSet
  <2>3. CASE ~(i <= m)
    <3>1. i - m \in 1..n /\ x = u[i - m]
      BY <1>2, <2>1, <2>3
    <3> QED
      BY <1>1, <3>1 DEF ToSet
  <2> QED
    BY <2>2, <2>3
<1>5. ASSUME NEW x \in ToSet(s) PROVE x \in ToSet(s \o u)
  <2>1. PICK i \in 1..m : x = s[i]
    BY <1>1 DEF ToSet
  <2>2. i \in 1..(m + n) /\ (s \o u)[i] = x
    BY <1>2, <2>1
  <2> QED
    BY <1>3, <2>2 DEF ToSet
<1>6. ASSUME NEW x \in ToSet(u) PROVE x \in ToSet(s \o u)
  <2>1. PICK i \in 1..n : x = u[i]
    BY <1>1 DEF ToSet
  <2>2. m + i \in 1..(m + n) /\ (s \o u)[m + i] = x
    <3>1. m + i \in 1..(m + n) /\ ~(m + i <= m) /\ (m + i) - m = i
      OBVIOUS
    <3> QED
      BY <1>2, <2>1, <3>1
  <2> QED
    BY <1>3, <2>2 DEF ToSet
<1> QED
  BY <1>2, <1>4, <1>5, <1>6

LEMMA SortedJoin ==
  ASSUME NEW list, NEW s \in Seq(Id), NEW u \in Seq(Id), Sorted(list, s), Sorted(list, u),
         \A x \in ToSet(s), y \in ToSet(u) : Ahead(list, x, y)
  PROVE  Sorted(list, s \o u)
<1> PICK R : R = RowOrder(list)
  OBVIOUS
<1>1. InOrder(R, s) /\ InOrder(R, u)
  BY SortedRows
<1>2. \A x \in ToSet(s), y \in ToSet(u) : <<x, y>> \in R
  BY DEF RowOrder, ToSet
<1>3. InOrder(R, s \o u)
  BY <1>1, <1>2, OrderJoins
<1>4. s \o u \in Seq(Id)
  BY ConcatProperties
<1> QED
  BY <1>3, <1>4, SortedRows

LEMMA SortedInjective ==
  ASSUME row \in [Id -> Row], NEW list, NEW s \in Seq(Id), Sorted(list, s)
  PROVE  IsInjective(s)
<1>1. StrictOrder(RowOrder(list), Id) /\ InOrder(RowOrder(list), s)
  BY RowOrders, SortedRows
<1> QED
  BY <1>1, OrderEnumerates

(* A sorted sequence enumerates its rows. *)
LEMMA SortedEnumerates ==
  ASSUME row \in [Id -> Row], NEW list, NEW s \in Seq(Id), Sorted(list, s)
  PROVE  s \in SetToSeqs(ToSet(s))
<1>1. StrictOrder(RowOrder(list), Id) /\ InOrder(RowOrder(list), s)
  BY RowOrders, SortedRows
<1> QED
  BY <1>1, OrderEnumerates

(* A page after a prefix makes a longer prefix. *)
LEMMA TakenMore ==
  ASSUME NEW l \in Nat, NEW a \in Nat, NEW b \in Nat
  PROVE  /\ Taken(l, 0, a) \in Nat /\ Taken(l, a, b) \in Nat
         /\ Taken(l, 0, a) + Taken(l, a, b) = Taken(l, 0, a + b)
         /\ Taken(l, a, b) > 0 => Taken(l, 0, a) = a
<1>1. CASE a >= l
  BY <1>1 DEF Taken
<1>2. CASE a < l /\ a + b <= l
  BY <1>2 DEF Taken
<1>3. CASE a < l /\ ~(a + b <= l)
  BY <1>3 DEF Taken
<1> QED
  BY <1>1, <1>2, <1>3

(* u is what a page of s has. *)
IsPage(T, u, s, from, n) ==
  /\ u \in Seq(T) /\ Len(u) = Taken(Len(s), from, n)
  /\ \A i \in 1..Taken(Len(s), from, n) : u[i] = s[from + i]

LEMMA FetchIsPage ==
  \A T : \A s \in Seq(T), from \in Nat, n \in Nat : IsPage(T, Fetch(s, from, n), s, from, n)
<1> SUFFICES ASSUME NEW T, NEW s \in Seq(T), NEW from \in Nat, NEW n \in Nat
             PROVE  IsPage(T, Fetch(s, from, n), s, from, n)
  OBVIOUS
<1>1. /\ Fetch(s, from, n) \in Seq(T) /\ Len(Fetch(s, from, n)) = Taken(Len(s), from, n)
      /\ \A i \in 1..Taken(Len(s), from, n) :
           from + i \in DOMAIN s /\ Fetch(s, from, n)[i] = s[from + i]
  BY Fetched
<1> QED
  BY <1>1 DEF IsPage

Continues(p, q, r) == p \o q = r

LEMMA Joined ==
  ASSUME NEW T, NEW p \in Seq(T), NEW q \in Seq(T)
  PROVE  \E c \in Seq(T) :
           /\ Continues(p, q, c) /\ Len(c) = Len(p) + Len(q)
           /\ \A i \in 1..(Len(p) + Len(q)) : c[i] = IF i <= Len(p) THEN p[i] ELSE q[i - Len(p)]
<1>1. /\ p \o q \in Seq(T) /\ Len(p \o q) = Len(p) + Len(q)
      /\ \A i \in 1..(Len(p) + Len(q)) :
           (p \o q)[i] = IF i <= Len(p) THEN p[i] ELSE q[i - Len(p)]
  BY ConcatProperties
<1> QED
  BY <1>1 DEF Continues

(* A page after a prefix makes a longer prefix. *)
LEMMA JoinPages ==
  ASSUME NEW T, NEW s \in Seq(T), NEW a \in Nat, NEW b \in Nat, NEW p, NEW q, NEW r,
         IsPage(T, p, s, 0, a), IsPage(T, q, s, a, b), IsPage(T, r, s, 0, a + b)
  PROVE  Continues(p, q, r)
<1>1. /\ Taken(Len(s), 0, a) \in Nat /\ Taken(Len(s), a, b) \in Nat
      /\ Taken(Len(s), 0, a) + Taken(Len(s), a, b) = Taken(Len(s), 0, a + b)
      /\ Taken(Len(s), a, b) > 0 => Taken(Len(s), 0, a) = a
  <2>1. Len(s) \in Nat
    OBVIOUS
  <2> QED
    BY <2>1, TakenMore, Zenon
<1> PICK m \in Nat, n \in Nat : m = Taken(Len(s), 0, a) /\ n = Taken(Len(s), a, b)
  BY <1>1
<1>2. Taken(Len(s), 0, a + b) = m + n /\ (n > 0 => m = a)
  BY <1>1
<1>3. /\ p \in Seq(T) /\ Len(p) = m /\ \A i \in 1..m : p[i] = s[i]
      /\ q \in Seq(T) /\ Len(q) = n /\ \A i \in 1..n : q[i] = s[a + i]
      /\ r \in Seq(T) /\ Len(r) = m + n /\ \A i \in 1..(m + n) : r[i] = s[i]
  BY <1>2 DEF IsPage
<1>4. p \in Seq(T) /\ q \in Seq(T)
  BY <1>3
<1> PICK c \in Seq(T) :
      /\ Continues(p, q, c) /\ Len(c) = Len(p) + Len(q)
      /\ \A i \in 1..(Len(p) + Len(q)) : c[i] = IF i <= Len(p) THEN p[i] ELSE q[i - Len(p)]
  BY <1>4, Joined
<1>5. Len(c) = m + n /\ \A i \in 1..(m + n) : c[i] = IF i <= m THEN p[i] ELSE q[i - m]
  BY <1>3
<1>6. ASSUME NEW i \in 1..(m + n) PROVE c[i] = r[i]
  <2>1. CASE i <= m
    <3>1. i \in 1..m /\ c[i] = p[i]
      BY <1>5, <2>1
    <3> QED
      BY <1>3, <3>1
  <2>2. CASE ~(i <= m)
    <3>1. m = a /\ i - m \in 1..n /\ a + (i - m) = i
      BY <1>2, <2>2
    <3>2. c[i] = q[i - m]
      BY <1>5, <2>2
    <3> QED
      BY <1>3, <3>1, <3>2
  <2> QED
    BY <2>1, <2>2
<1>7. Len(c) = Len(r) /\ \A i \in 1..Len(c) : c[i] = r[i]
  BY <1>3, <1>6, <1>5
<1>8. c = r
  BY <1>3, <1>7, SeqEqual
<1> QED
  BY <1>8

LEMMA FetchMore ==
  ASSUME NEW T, NEW s \in Seq(T), NEW a \in Nat, NEW b \in Nat
  PROVE  Continues(Fetch(s, 0, a), Fetch(s, a, b), Fetch(s, 0, a + b))
<1>1. 0 \in Nat /\ a + b \in Nat
  OBVIOUS
<1>2. /\ IsPage(T, Fetch(s, 0, a), s, 0, a) /\ IsPage(T, Fetch(s, a, b), s, a, b)
      /\ IsPage(T, Fetch(s, 0, a + b), s, 0, a + b)
  BY <1>1, FetchIsPage
<1> QED
  BY <1>2, JoinPages

LEMMA FetchAll ==
  ASSUME NEW T, NEW s \in Seq(T), NEW a \in Nat, a >= Len(s)
  PROVE  Fetch(s, 0, a) = s
<1> PICK p : p = Fetch(s, 0, a)
  OBVIOUS
<1>1. IsPage(T, p, s, 0, a)
  BY FetchIsPage
<1>2. Len(s) \in Nat /\ Taken(Len(s), 0, a) = Len(s)
  BY DEF Taken
<1>3. p \in Seq(T) /\ Len(p) = Len(s) /\ \A i \in 1..Len(p) : p[i] = s[i]
  BY <1>1, <1>2 DEF IsPage
<1>4. p = s
  BY <1>3, SeqEqual
<1> QED
  BY <1>4

-------------------------------------------------------------------------------
(* Rows that come and go *)

LEMMA ShownRows ==
  ASSUME NEW list, NEW f
  PROVE  /\ Shown(list, f) \subseteq Present /\ Shown(list, f) \subseteq Id
         /\ list = "recall_report" => Shown(list, f) = RecallReport
BY DEF Shown, SalesOrders, Movements, PurchaseOrders, Products, Batches, RecallReport, Present

(* A row that was there keeps its key, a closed one its date as well. *)
LEMMA WriteKeeps ==
  ASSUME row \in [Id -> Row], NEW i \in Id, Write(i)
  PROVE  /\ row' \in [Id -> Row]
         /\ \A j \in Id :
              /\ row[j].status # "absent" =>
                   row'[j].status # "absent" /\ row'[j].created = row[j].created
              /\ row[j].status = "closed" =>
                   row'[j].status = "closed" /\ row'[j].closed = row[j].closed
<1>1. CASE Insert(i)
  <2>1. PICK s \in Stamp : row' = [row EXCEPT ![i].status = "open", ![i].created = s]
    BY <1>1 DEF Insert
  <2>2. row[i].status = "absent" /\ row[i] \in Row
    BY <1>1 DEF Insert
  <2>3. row' \in [Id -> Row] /\ \A j \in Id \ {i} : row'[j] = row[j]
    BY <2>1, <2>2 DEF Row
  <2>4. row'[i].status = "open"
    BY <2>1, <2>2 DEF Row
  <2> QED
    BY <2>2, <2>3, <2>4
<1>2. CASE Close(i)
  <2>1. PICK s \in Stamp : row' = [row EXCEPT ![i].status = "closed", ![i].closed = s]
    BY <1>2 DEF Close
  <2> QED
    BY <1>2, <2>1 DEF Close, Row
<1>3. CASE VoidOrder(i)
  BY <1>3 DEF VoidOrder, Row
<1>4. CASE SetFlag(i)
  BY <1>4 DEF SetFlag, Row
<1>5. CASE Delete(i)
  BY <1>5 DEF Delete, Row
<1> QED
  BY <1>1, <1>2, <1>3, <1>4, <1>5 DEF Write

LEMMA SameRows ==
  ASSUME UNCHANGED row
  PROVE  /\ \A list, f : Shown(list, f)' = Shown(list, f)
         /\ \A i : Key(i)' = Key(i)
         /\ \A list, i, j : Ahead(list, i, j)' = Ahead(list, i, j)
         /\ \A list, s : Sorted(list, s)' = Sorted(list, s)
         /\ \A list, S : Orders(list, S)' = Orders(list, S)
         /\ RecallReport' = RecallReport
         /\ walk'.list = walk.list => Tied' = Tied
<1>1. /\ \A i : Key(i)' = Key(i)
      /\ Present' = Present /\ RecallReport' = RecallReport
  BY DEF Key, Present, RecallReport
<1>2. \A list, f : Shown(list, f)' = Shown(list, f)
  BY <1>1 DEF Shown, SalesOrders, Movements, PurchaseOrders, Products, Batches
<1>3. \A list, i, j : Ahead(list, i, j)' = Ahead(list, i, j)
  BY <1>1 DEF Ahead
<1>4. \A list, s : Sorted(list, s)' = Sorted(list, s)
  BY <1>3 DEF Sorted
<1>5. \A list, S : Orders(list, S)' = Orders(list, S)
  BY <1>1 DEF Orders, Newest, LatestSales
<1>6. walk'.list = walk.list => Tied' = Tied
  BY <1>1 DEF Tied
<1> QED
  BY <1>1, <1>2, <1>3, <1>4, <1>5, <1>6

(* What was ahead of a row that stays is ahead of it still. *)
LEMMA KeptAhead ==
  ASSUME row \in [Id -> Row], NEW k \in Id, Write(k), NEW list, NEW f,
         NEW i \in Shown(list, f), NEW j \in Shown(list, f), Ahead(list, j, i)
  PROVE  Ahead(list, j, i)'
<1>1. i \in Id /\ j \in Id /\ row[i].status # "absent" /\ row[j].status # "absent"
  BY ShownRows DEF Present
<1>2. list = "recall_report" => row[i].status = "closed" /\ row[j].status = "closed"
  BY ShownRows DEF RecallReport
<1>3. list = "recall_report" => row'[i].closed = row[i].closed /\ row'[j].closed = row[j].closed
  BY <1>1, <1>2, WriteKeeps
<1>4. Key(i)' = Key(i) /\ Key(j)' = Key(j)
  BY <1>1, WriteKeeps DEF Key
<1> QED
  BY <1>3, <1>4 DEF Ahead

(* A commit of another request between two statements of a walk. *)
LEMMA ChangeStep ==
  ASSUME ListInv, Change, UNCHANGED report
  PROVE  ListInv'
<1>1. PICK k \in Id : Write(k)
  BY DEF Change
<1> PICK w : w = walk
  OBVIOUS
<1> PICK v : v = walk'
  OBVIOUS
<1>2. /\ w.at \notin {"idle", "done"} /\ w.writes < MaxWrites
      /\ v = [w EXCEPT !.steady = @ \cap Shown(w.list, w.filter)',
                       !.left = @ \/ ~(Shown(w.list, w.filter) \subseteq Shown(w.list, w.filter)'),
                       !.writes = @ + 1]
  BY DEF Change, Watch
<1>3. w \in Walk /\ row \in [Id -> Row] /\ w.writes <= MaxWrites
  BY DEF ListInv, WalkOK
<1>4. /\ v.list = w.list /\ v.filter = w.filter /\ v.limit = w.limit /\ v.at = w.at
      /\ v.cursor = w.cursor /\ v.total = w.total /\ v.offset = w.offset /\ v.got = w.got
      /\ v.stale = w.stale /\ v.writes = w.writes + 1
      /\ v.steady = w.steady \cap ShownNow'
      /\ v.left = (w.left \/ ~(ShownNow \subseteq ShownNow'))
  BY <1>2, <1>3 DEF Walk, ShownNow
<1>5. /\ row' \in [Id -> Row]
      /\ \A j \in Id : row[j].status # "absent" =>
           row'[j].status # "absent" /\ row'[j].created = row[j].created
  BY <1>1, <1>3, WriteKeeps
<1>6. w.got \in Seq(Id) /\ w.steady \subseteq ShownNow /\ ShownNow \subseteq Present
  BY <1>2, <1>3, ShownRows DEF Walk, ListInv, SteadyOK, ShownNow
<1>7. WalkOK'
  <2>1. w.left \in BOOLEAN /\ w.writes \in Nat /\ w.steady \subseteq Id
    BY <1>3 DEF Walk
  <2>2. v.left \in BOOLEAN /\ v.writes \in Nat /\ v.steady \subseteq Id /\ v.writes <= MaxWrites
    BY <1>2, <1>4, <2>1, ListConstants
  <2>3. v \in Walk
    BY <1>2, <1>3, <1>4, <2>2 DEF Walk
  <2> QED
    BY <1>5, <2>2, <2>3 DEF WalkOK
<1>8. ClientOK'
  BY <1>2, <1>4 DEF ListInv, ClientOK
<1>9. SteadyOK'
  BY <1>4 DEF SteadyOK
<1>10. ASSUME w.list \in KeysetList PROVE KeysetOK'
  <2>1. /\ \A i \in ToSet(w.got) : row[i].status # "absent"
        /\ Sorted(w.list, w.got)
        /\ w.at = "export" => w.got = <<>>
        /\ w.at = "page" =>
             IF w.cursor = NoCursor THEN w.got = <<>>
             ELSE /\ \A i \in ToSet(w.got) : ~Below(Key(i), w.cursor)
                  /\ \A i \in w.steady : i \in ToSet(w.got) \/ Below(Key(i), w.cursor)
    BY <1>2, <1>10 DEF ListInv, KeysetOK, Listed
  <2>2. \A i \in ToSet(w.got) : i \in Id /\ row'[i].status # "absent" /\ Key(i)' = Key(i)
    BY <1>5, <1>6, <2>1 DEF ToSet, Key
  <2>3. \A i \in w.steady : Key(i)' = Key(i)
    BY <1>5, <1>6 DEF Present, Key
  <2>4. Sorted(w.list, w.got)'
    <3>1. w.list # "recall_report" /\ \A i \in DOMAIN w.got : w.got[i] \in ToSet(w.got)
      BY <1>10 DEF KeysetList, ToSet
    <3>2. \A i, j \in DOMAIN w.got : Ahead(w.list, w.got[i], w.got[j])' <=>
                                       Ahead(w.list, w.got[i], w.got[j])
      BY <2>2, <3>1 DEF Ahead
    <3> QED
      BY <2>1, <3>2 DEF Sorted
  <2> QED
    BY <1>2, <1>4, <2>1, <2>2, <2>3, <2>4 DEF KeysetOK, Listed
<1>11. ASSUME w.list \in OffsetList, ~v.left, ~Tied' PROVE OffsetOK'
  <2>1. ~w.left /\ ShownNow \subseteq ShownNow'
    BY <1>4, <1>11
  <2>2. ~Tied
    <3> SUFFICES ASSUME Tied PROVE FALSE
      OBVIOUS
    <3>1. w.list = "recall_report" /\ ShownNow = RecallReport /\ ShownNow' = RecallReport'
      BY <1>4, ShownRows DEF Tied, ShownNow, Shown
    <3>2. PICK i \in RecallReport, j \in RecallReport : i # j /\ row[i].closed = row[j].closed
      BY DEF Tied
    <3>3. i \in RecallReport' /\ j \in RecallReport'
      BY <2>1, <3>1, <3>2
    <3>4. row'[i].closed = row[i].closed /\ row'[j].closed = row[j].closed
      <4>1. i \in Id /\ j \in Id /\ row[i].status = "closed" /\ row[j].status = "closed"
        BY <3>2 DEF RecallReport, Present
      <4> QED
        BY <1>1, <1>3, <4>1, WriteKeeps
    <3>5. Tied'
      BY <1>4, <3>1, <3>2, <3>3, <3>4 DEF Tied
    <3> QED
      BY <1>11, <3>5
  <2>3. \A i \in w.steady : i \in ToSet(w.got) \/ Cardinality(RowsAhead(i)) >= w.offset
    BY <1>2, <1>11, <2>1, <2>2 DEF ListInv, OffsetOK, Listed
  <2>4. ASSUME NEW i \in v.steady, i \notin ToSet(w.got)
        PROVE  Cardinality(RowsAhead(i)') >= w.offset
    <3>1. i \in ShownNow /\ Cardinality(RowsAhead(i)) >= w.offset
      BY <1>4, <1>6, <2>3, <2>4
    <3>2. RowsAhead(i) \subseteq RowsAhead(i)'
      BY <1>1, <1>3, <1>4, <2>1, <3>1, KeptAhead DEF RowsAhead, ShownNow
    <3>3. RowsAhead(i)' \subseteq Id
      BY ShownRows DEF RowsAhead, ShownNow, Shown, SalesOrders, Movements, PurchaseOrders,
         Products, Batches, RecallReport, Present
    <3>4. Cardinality(RowsAhead(i)) <= Cardinality(RowsAhead(i)')
      BY <3>2, <3>3, FiniteRows, FS_Subset
    <3>5. Cardinality(RowsAhead(i)) \in Nat /\ Cardinality(RowsAhead(i)') \in Nat
          /\ w.offset \in Nat
      BY <1>3, <3>2, <3>3, FiniteRows DEF Walk
    <3> QED
      BY <3>1, <3>4, <3>5
  <2> QED
    BY <1>2, <1>4, <2>4 DEF OffsetOK, Listed
<1>12. UnchangedOK'
  BY <1>3, <1>4 DEF UnchangedOK, Walk
<1> QED
  BY <1>4, <1>7, <1>8, <1>9, <1>10, <1>11, <1>12 DEF ListInv, KeysetOK, OffsetOK

-------------------------------------------------------------------------------
(* Pages *)

(* What a page of A's rows, in order, and the row after it tell: p has all *)
(* of them, or the row the cursor names is its last and the rest comes     *)
(* after it.                                                               *)
PageOf(R, A, Q, p, l) ==
  /\ InOrder(R, p) /\ ToSet(p) \subseteq A
  /\ \/ ~(Len(Q) > l) /\ ToSet(p) = A
     \/ /\ Len(Q) > l /\ Q[l] \in ToSet(p)
        /\ \A x \in ToSet(p) : x = Q[l] \/ <<x, Q[l]>> \in R
        /\ \A x \in A : x \in ToSet(p) \/ <<Q[l], x>> \in R

LEMMA FirstPage ==
  ASSUME NEW T, NEW R, NEW A, A \subseteq T, IsFiniteSet(A),
         NEW N \in SetToSeqs(A), InOrder(R, N), NEW l \in Nat \ {0},
         NEW Q, IsPage(T, Q, N, 0, l + 1), NEW p, IsPage(T, p, Q, 0, l)
  PROVE  PageOf(R, A, Q, p, l)
<1>1. /\ N \in Seq(A) /\ \A x \in A : \E k \in DOMAIN N : N[k] = x
  BY Enumeration
<1> PICK n \in Nat : n = Len(N)
  BY <1>1
<1>2. DOMAIN N = 1..n /\ \A k \in 1..n : N[k] \in A
  BY <1>1
<1> PICK r \in Nat : r = IF n <= l THEN n ELSE l + 1
  OBVIOUS
<1>3. Taken(n, 0, l + 1) = r
  BY DEF Taken
<1>4. Q \in Seq(T) /\ Len(Q) = r /\ \A k \in 1..r : Q[k] = N[k]
  BY <1>3 DEF IsPage
<1> PICK q \in Nat : q = IF n <= l THEN n ELSE l
  OBVIOUS
<1>5. Taken(r, 0, l) = q /\ q <= r /\ q <= n
  BY DEF Taken
<1>6. p \in Seq(T) /\ Len(p) = q /\ \A k \in 1..q : p[k] = Q[k]
  BY <1>4, <1>5 DEF IsPage
<1>7. DOMAIN p = 1..q /\ \A k \in 1..q : k \in 1..n /\ p[k] = N[k]
  BY <1>4, <1>5, <1>6
<1>8. InOrder(R, p)
  BY <1>2, <1>7 DEF InOrder
<1>9. ToSet(p) = {N[k] : k \in 1..q}
  BY <1>7 DEF ToSet
<1>10. ToSet(p) \subseteq A
  BY <1>2, <1>7, <1>9
<1>11. CASE n <= l
  <2>1. ~(Len(Q) > l) /\ q = n
    BY <1>4, <1>11
  <2>2. A \subseteq ToSet(p)
    BY <1>1, <1>2, <1>9, <2>1
  <2> QED
    BY <1>4, <1>6, <1>8, <1>10, <2>1, <2>2 DEF PageOf
<1>12. CASE ~(n <= l)
  <2>1. Len(Q) > l /\ q = l /\ l \in 1..n /\ l \in 1..q /\ Q[l] = N[l]
    BY <1>4, <1>12
  <2>2. Q[l] \in ToSet(p)
    BY <1>9, <2>1
  <2>3. ASSUME NEW x \in ToSet(p) PROVE x = Q[l] \/ <<x, Q[l]>> \in R
    <3>1. PICK k \in 1..q : x = N[k]
      BY <1>9
    <3>2. k \in 1..n /\ (k = l \/ k < l)
      BY <1>5, <2>1
    <3>3. k < l => <<N[k], N[l]>> \in R
      BY <1>2, <2>1, <3>2 DEF InOrder
    <3> QED
      BY <2>1, <3>1, <3>2, <3>3
  <2>4. ASSUME NEW x \in A, x \notin ToSet(p) PROVE <<Q[l], x>> \in R
    <3>1. PICK k \in 1..n : x = N[k]
      BY <1>1, <1>2
    <3>2. k \notin 1..q
      BY <1>9, <2>4, <3>1
    <3>3. l < k
      BY <2>1, <3>1, <3>2
    <3>4. <<N[l], N[k]>> \in R
      BY <1>2, <2>1, <3>1, <3>3 DEF InOrder
    <3> QED
      BY <2>1, <3>1, <3>4
  <2> QED
    BY <1>4, <1>6, <1>8, <1>10, <2>1, <2>2, <2>3, <2>4 DEF PageOf
<1> QED
  BY <1>11, <1>12

(* One page of a keyset walk: what is fetched comes sorted from below the  *)
(* cursor; it is all of it, or the next cursor is its last row's key.      *)
LEMMA KeysetRows ==
  ASSUME ListInv, KeysetPage(ShownNow), walk.list \in KeysetList
  PROVE  \E p \in Seq(Id) :
           /\ Sorted(walk.list, p)
           /\ ToSet(p) \subseteq AfterCursor(ShownNow)
           /\ walk'.got = walk.got \o p
           /\ \/ /\ walk'.at = "done" /\ walk'.cursor = NoCursor
                 /\ ToSet(p) = AfterCursor(ShownNow)
              \/ /\ walk'.at = "page"
                 /\ \E l \in ToSet(p) :
                      /\ walk'.cursor = Key(l)
                      /\ \A i \in ToSet(p) : i = l \/ Below(Key(l), Key(i))
                      /\ \A i \in AfterCursor(ShownNow) :
                           i \in ToSet(p) \/ Below(Key(i), Key(l))
<1> PICK A : A = AfterCursor(ShownNow)
  OBVIOUS
<1> PICK list : list = walk.list
  OBVIOUS
<1>1. row \in [Id -> Row] /\ walk \in Walk /\ list # "recall_report"
      /\ walk.limit \in Nat \ {0}
  BY ListConstants DEF ListInv, WalkOK, KeysetList, Walk
<1>2. A \subseteq Id /\ IsFiniteSet(A)
  BY ShownRows, FiniteRows DEF AfterCursor, ShownNow
<1> PICK N : N = Newest(A)
  OBVIOUS
<1>3. N \in SetToSeqs(A) /\ Sorted(list, N)
  BY <1>1, <1>2, NewestSorts
<1>4. /\ N \in Seq(A) /\ ToSet(N) = A
      /\ \A x \in A : \E k \in DOMAIN N : N[k] = x
  BY <1>2, <1>3, Enumeration
<1>5. N \in Seq(Id)
  BY <1>2, <1>4, SeqMonotonic
<1> PICK l \in Nat \ {0} : l = walk.limit
  BY <1>1
<1> PICK O : O = RowOrder(list)
  OBVIOUS
<1> PICK R : R = Fetch(N, 0, l + 1)
  OBVIOUS
<1>6. R \in Seq(Id) /\ IsPage(Id, R, N, 0, l + 1)
  <2>1. 0 \in Nat /\ l + 1 \in Nat
    OBVIOUS
  <2>2. IsPage(Id, R, N, 0, l + 1)
    BY <1>5, <2>1, FetchIsPage
  <2> QED
    BY <2>2 DEF IsPage
<1> PICK p : p = Fetch(R, 0, l)
  OBVIOUS
<1>7. IsPage(Id, p, R, 0, l)
  BY <1>6, FetchIsPage
<1>8. InOrder(O, N)
  BY <1>3, <1>5, SortedRows
<1>9. PageOf(O, A, R, p, l)
  BY <1>2, <1>3, <1>6, <1>7, <1>8, FirstPage, Zenon
<1>10. p \in Seq(Id)
  BY <1>7 DEF IsPage
<1>11. Sorted(list, p) /\ ToSet(p) \subseteq A
  BY <1>9, <1>10, SortedRows DEF PageOf
<1>14. /\ walk'.got = walk.got \o p
       /\ walk'.cursor = NextCursor(R)
       /\ walk'.at = IF NextCursor(R) = NoCursor THEN "done" ELSE "page"
  BY <1>1 DEF KeysetPage, Walk
<1> DEFINE Goal ==
      \/ /\ walk'.at = "done" /\ walk'.cursor = NoCursor
         /\ ToSet(p) = AfterCursor(ShownNow)
      \/ /\ walk'.at = "page"
         /\ \E c \in ToSet(p) :
              /\ walk'.cursor = Key(c)
              /\ \A i \in ToSet(p) : i = c \/ Below(Key(c), Key(i))
              /\ \A i \in AfterCursor(ShownNow) : i \in ToSet(p) \/ Below(Key(i), Key(c))
<1>15. ASSUME ~(Len(R) > l) PROVE Goal
  <2>1. NextCursor(R) = NoCursor
    BY <1>15 DEF NextCursor
  <2> QED
    BY <1>9, <1>14, <1>15, <2>1 DEF PageOf
<1>16. ASSUME Len(R) > l PROVE Goal
  <2> PICK c : c = R[l]
    OBVIOUS
  <2>1. NextCursor(R) = Key(c)
    BY <1>16 DEF NextCursor
  <2>2. c \in Id /\ c \in ToSet(p)
    BY <1>2, <1>9, <1>16 DEF PageOf
  <2>3. NextCursor(R) # NoCursor
    BY <1>1, <2>1, <2>2, ListConstants DEF Key, Cursor, Row
  <2>4. \A i \in ToSet(p) : i = c \/ Below(Key(c), Key(i))
    BY <1>1, <1>9, <1>16 DEF PageOf, RowOrder, Ahead
  <2>5. \A i \in A : i \in ToSet(p) \/ Below(Key(i), Key(c))
    BY <1>1, <1>9, <1>16 DEF PageOf, RowOrder, Ahead
  <2> QED
    BY <1>14, <2>1, <2>2, <2>3, <2>4, <2>5
<1>17. Goal
  BY <1>15, <1>16
<1> HIDE DEF Goal
<1>18. p \in Seq(Id) /\ Sorted(walk.list, p) /\ ToSet(p) \subseteq AfterCursor(ShownNow)
       /\ walk'.got = walk.got \o p
  BY <1>10, <1>11, <1>14
<1> QED
  BY <1>17, <1>18 DEF Goal

(* What a keyset page leaves alone. *)
LEMMA KeysetStep ==
  ASSUME ListInv, KeysetPage(ShownNow), walk.list \in KeysetList, UNCHANGED report
  PROVE  ListInv'
<1> PICK w : w = walk
  OBVIOUS
<1> PICK v : v = walk'
  OBVIOUS
<1> PICK p \in Seq(Id) :
      /\ Sorted(w.list, p)
      /\ ToSet(p) \subseteq AfterCursor(ShownNow)
      /\ v.got = w.got \o p
      /\ \/ /\ v.at = "done" /\ v.cursor = NoCursor
            /\ ToSet(p) = AfterCursor(ShownNow)
         \/ /\ v.at = "page"
            /\ \E l \in ToSet(p) :
                 /\ v.cursor = Key(l)
                 /\ \A i \in ToSet(p) : i = l \/ Below(Key(l), Key(i))
                 /\ \A i \in AfterCursor(ShownNow) : i \in ToSet(p) \/ Below(Key(i), Key(l))
  BY KeysetRows
<1>1. /\ row \in [Id -> Row] /\ w \in Walk /\ w.list # "recall_report" /\ w.at = "page"
      /\ w.list \notin OffsetList /\ UNCHANGED row
  BY DEF ListInv, WalkOK, KeysetList, OffsetList, KeysetPage
<1>2. /\ v.list = w.list /\ v.filter = w.filter /\ v.limit = w.limit
      /\ v.total = w.total /\ v.offset = w.offset /\ v.steady = w.steady
      /\ v.left = w.left /\ v.stale = w.stale /\ v.writes = w.writes
      /\ v = [w EXCEPT !.got = v.got, !.cursor = v.cursor, !.at = v.at]
  BY <1>1 DEF KeysetPage, Walk
<1>3. ShownNow' = ShownNow /\ ShownNow \subseteq Present /\ ShownNow \subseteq Id
      /\ \A i : Key(i)' = Key(i)
  BY <1>1, <1>2, SameRows, ShownRows DEF ShownNow
<1>4. w.got \in Seq(Id) /\ v.got \in Seq(Id) /\ ToSet(v.got) = ToSet(w.got) \cup ToSet(p)
      /\ ToSet(w.got) \subseteq Id
  <2>1. w.got \in Seq(Id)
    BY <1>1 DEF Walk
  <2>2. w.got \o p \in Seq(Id) /\ ToSet(w.got \o p) = ToSet(w.got) \cup ToSet(p)
    BY <2>1, JoinedSet
  <2>3. ToSet(w.got) \subseteq Id
    <3>1. \A i \in DOMAIN w.got : w.got[i] \in Id
      BY <2>1
    <3> QED
      BY <3>1 DEF ToSet
  <2> QED
    BY <2>1, <2>2, <2>3
<1>5. /\ \A i \in ToSet(w.got) : row[i].status # "absent"
      /\ Sorted(w.list, w.got)
      /\ IF w.cursor = NoCursor THEN w.got = <<>>
         ELSE /\ \A i \in ToSet(w.got) : ~Below(Key(i), w.cursor)
              /\ \A i \in w.steady : i \in ToSet(w.got) \/ Below(Key(i), w.cursor)
  BY <1>1 DEF ListInv, KeysetOK, Listed
<1>6. w.steady \subseteq ShownNow
  BY <1>1 DEF ListInv, SteadyOK
<1>7. WalkOK'
  <2>1. v.cursor \in Cursor \cup {NoCursor} /\ v.at \in {"page", "done"}
    <3>1. ASSUME NEW l \in ToSet(p) PROVE Key(l) \in Cursor
      <4>1. l \in Id
        BY <1>3, <3>1 DEF AfterCursor
      <4>2. row[l].created \in Stamp
        BY <1>1, <4>1 DEF Row
      <4> QED
        BY <4>1, <4>2 DEF Key, Cursor
    <3> QED
      BY <3>1
  <2>2. v \in Walk
    BY <1>1, <1>2, <1>4, <2>1 DEF Walk
  <2> QED
    BY <1>1, <1>2, <2>2 DEF WalkOK, ListInv
<1>8. ClientOK' /\ SteadyOK'
  BY <1>1, <1>2, <1>3, <1>6 DEF ListInv, ClientOK, SteadyOK
<1>9. Sorted(w.list, v.got)
  <2>1. ASSUME NEW x \in ToSet(w.got), NEW y \in ToSet(p) PROVE Ahead(w.list, x, y)
    <3>1. w.cursor # NoCursor
      BY <1>5, <2>1 DEF ToSet
    <3>2. ~Below(Key(x), w.cursor) /\ Below(Key(y), w.cursor) /\ x \in Id /\ y \in Id
      BY <1>3, <1>4, <1>5, <2>1, <3>1 DEF AfterCursor
    <3>3. w.cursor \in Stamp \X Id
      BY <1>1, <3>1 DEF Walk, Cursor
    <3>4. Below(Key(y), Key(x))
      <4>1. /\ w.cursor[1] \in Nat /\ w.cursor[2] \in Nat
            /\ row[x].created \in Nat /\ row[y].created \in Nat /\ x \in Nat /\ y \in Nat
        BY <1>1, <3>2, <3>3, ListConstants DEF Row
      <4> QED
        BY <3>2, <4>1 DEF Below, Key
    <3> QED
      BY <1>1, <3>4 DEF Ahead
  <2> QED
    BY <1>4, <1>5, <2>1, SortedJoin
<1>10. \A i \in ToSet(v.got) : row[i].status # "absent"
  BY <1>3, <1>4, <1>5 DEF AfterCursor, Present
<1>11. ASSUME NEW i \in w.steady PROVE i \in ToSet(w.got) \/ i \in AfterCursor(ShownNow)
  BY <1>5, <1>6 DEF AfterCursor
<1>12. ASSUME v.at = "done" PROVE KeysetOK'
  <2>1. w.steady \subseteq ToSet(v.got)
    BY <1>4, <1>11, <1>12
  <2>2. KeysetOK'
    BY <1>1, <1>2, <1>9, <1>10, <1>12, <2>1, SameRows DEF KeysetOK, Listed
  <2> QED
    BY <2>2
<1>13. ASSUME v.at = "page" PROVE KeysetOK'
  <2> PICK l \in ToSet(p) :
        /\ v.cursor = Key(l)
        /\ \A i \in ToSet(p) : i = l \/ Below(Key(l), Key(i))
        /\ \A i \in AfterCursor(ShownNow) : i \in ToSet(p) \/ Below(Key(i), Key(l))
    BY <1>13
  <2>1. l \in Id /\ Key(l) \in Cursor /\ Key(l) # NoCursor
    <3>1. l \in Id
      BY <1>3 DEF AfterCursor
    <3>2. row[l].created \in Stamp
      BY <1>1, <3>1 DEF Row
    <3>3. Key(l) \in Cursor
      BY <3>1, <3>2 DEF Key, Cursor
    <3> QED
      BY <3>1, <3>3, ListConstants
  <2>2. ASSUME NEW i \in ToSet(v.got) PROVE ~Below(Key(i), Key(l))
    <3>1. i \in Id /\ (i \in ToSet(w.got) \/ i \in ToSet(p))
      BY <1>3, <1>4 DEF AfterCursor
    <3>2. CASE i \in ToSet(p)
      <4>1. i = l \/ Below(Key(l), Key(i))
        BY <3>2
      <4> QED
        BY <1>1, <2>1, <3>1, <4>1, AheadOrders DEF Ahead
    <3>3. CASE i \in ToSet(w.got)
      <4>1. Ahead(w.list, i, l)
        <5>1. PICK a \in DOMAIN w.got : w.got[a] = i
          BY <3>3 DEF ToSet
        <5>2. w.cursor # NoCursor
          BY <1>5, <5>1
        <5>3. ~Below(Key(i), w.cursor) /\ Below(Key(l), w.cursor)
          BY <1>5, <3>3, <5>2 DEF AfterCursor
        <5>4. w.cursor \in Stamp \X Id
          BY <1>1, <5>2 DEF Walk, Cursor
        <5>5. /\ w.cursor[1] \in Nat /\ w.cursor[2] \in Nat
              /\ row[i].created \in Nat /\ row[l].created \in Nat /\ i \in Nat /\ l \in Nat
          BY <1>1, <2>1, <3>1, <5>4, ListConstants DEF Row
        <5>6. Below(Key(l), Key(i))
          BY <5>3, <5>5 DEF Below, Key
        <5> QED
          BY <1>1, <5>6 DEF Ahead
      <4> QED
        BY <1>1, <2>1, <3>1, <4>1, AheadOrders DEF Ahead
    <3> QED
      BY <3>1, <3>2, <3>3
  <2>3. \A i \in w.steady : i \in ToSet(v.got) \/ Below(Key(i), Key(l))
    BY <1>4, <1>11
  <2>4. KeysetOK'
    BY <1>1, <1>2, <1>3, <1>9, <1>10, <1>13, <2>1, <2>2, <2>3, SameRows
       DEF KeysetOK, Listed
  <2> QED
    BY <2>4
<1>14. KeysetOK'
  BY <1>12, <1>13
<1>15. OffsetOK'
  BY <1>1, <1>2 DEF OffsetOK
<1>16. UnchangedOK'
  <2>1. ASSUME w.writes = 0 PROVE w.steady = ShownNow /\ ToSet(v.got) \subseteq ShownNow
    <3>1. w.steady = ShownNow /\ ToSet(w.got) \subseteq ShownNow
      BY <1>1, <2>1 DEF ListInv, UnchangedOK, Listed, KeysetPage
    <3> QED
      BY <1>4, <3>1 DEF AfterCursor
  <2> QED
    BY <1>1, <1>2, <1>3, <2>1 DEF UnchangedOK, Listed
<1> QED
  BY <1>7, <1>8, <1>14, <1>15, <1>16 DEF ListInv

(* What one page of a list has. *)
LEMMA FetchHas ==
  ASSUME NEW T, NEW s \in Seq(T), NEW from \in Nat, NEW n \in Nat,
         NEW k \in DOMAIN s, from < k, k <= from + n
  PROVE  s[k] \in ToSet(Fetch(s, from, n))
<1> PICK l \in Nat : l = Len(s)
  OBVIOUS
<1>1. k \in Nat /\ k <= l
  BY LenProperties
<1> PICK t : t = Taken(l, from, n)
  OBVIOUS
<1> PICK u : u = Fetch(s, from, n)
  OBVIOUS
<1>2. /\ u \in Seq(T) /\ Len(u) = t /\ t \in Nat
      /\ \A i \in 1..t : u[i] = s[from + i]
  <2>1. IsPage(T, u, s, from, n)
    BY FetchIsPage
  <2> QED
    BY <2>1 DEF IsPage
<1>3. k - from \in 1..t /\ from + (k - from) = k
  BY <1>1 DEF Taken
<1>4. u[k - from] = s[k] /\ k - from \in DOMAIN u
  BY <1>2, <1>3
<1> QED
  BY <1>4 DEF ToSet

(* A list's rows in the order of one statement. *)
LEMMA OrderedRows ==
  ASSUME WalkOK, NEW s \in Orders(walk.list, ShownNow)
  PROVE  /\ s \in SetToSeqs(ShownNow) /\ s \in Seq(Id) /\ ToSet(s) = ShownNow
         /\ Len(s) = Cardinality(ShownNow) /\ DOMAIN s = 1..Cardinality(ShownNow)
         /\ \A i \in ShownNow : \E k \in DOMAIN s : s[k] = i
         /\ ~Tied => Sorted(walk.list, s)
<1>1. row \in [Id -> Row] /\ ShownNow \subseteq Id
      /\ (walk.list = "recall_report" => ShownNow = RecallReport)
  BY ShownRows DEF WalkOK, ShownNow
<1>2. s \in SetToSeqs(ShownNow)
  BY <1>1, OrdersSort
<1>3. ~Tied => (walk.list = "recall_report" =>
                  \A i, j \in ShownNow : i # j => row[i].closed # row[j].closed)
  BY <1>1 DEF Tied
<1>4. ~Tied => Sorted(walk.list, s)
  BY <1>1, <1>3, OrdersSort
<1>5. /\ s \in Seq(ShownNow) /\ Len(s) = Cardinality(ShownNow)
      /\ DOMAIN s = 1..Cardinality(ShownNow) /\ ToSet(s) = ShownNow
      /\ \A i \in ShownNow : \E k \in DOMAIN s : s[k] = i
  BY <1>1, <1>2, FiniteRows, Enumeration
<1>6. s \in Seq(Id)
  BY <1>1, <1>5, SeqMonotonic
<1> QED
  BY <1>2, <1>4, <1>5, <1>6

(* What no request for a page of an offset list changes. *)
LEMMA ReadKeeps ==
  ASSUME ListInv, UNCHANGED row,
         walk'.list = walk.list, walk'.filter = walk.filter, walk'.steady = walk.steady,
         walk.at # "idle", walk'.at # "idle", walk'.at # "count" \/ walk.list \in OffsetList,
         UNCHANGED report
  PROVE  /\ ShownNow' = ShownNow /\ ClientOK' /\ SteadyOK' /\ Tied' = Tied
         /\ \A i : RowsAhead(i)' = RowsAhead(i)
         /\ Orders(walk.list, ShownNow)' = Orders(walk.list, ShownNow)
<1>1. ShownNow' = ShownNow /\ Tied' = Tied
  BY SameRows DEF ShownNow
<1>2. ClientOK'
  BY DEF ListInv, ClientOK
<1>3. SteadyOK'
  BY <1>1 DEF ListInv, SteadyOK
<1>4. \A i : RowsAhead(i)' = RowsAhead(i)
  BY <1>1, SameRows DEF RowsAhead
<1>5. Orders(walk.list, ShownNow)' = Orders(walk.list, ShownNow)
  BY <1>1, SameRows
<1> QED
  BY <1>1, <1>2, <1>3, <1>4, <1>5

(* The COUNT of a page. *)
LEMMA CountStep ==
  ASSUME ListInv, Count(ShownNow), walk.list \in OffsetList, UNCHANGED report
  PROVE  ListInv'
<1> PICK w : w = walk
  OBVIOUS
<1> PICK v : v = walk'
  OBVIOUS
<1>1. /\ row \in [Id -> Row] /\ w \in Walk /\ w.at = "count" /\ UNCHANGED row
      /\ v = [w EXCEPT !.total = Cardinality(ShownNow), !.at = "page"]
      /\ w.list \notin KeysetList
  BY DEF ListInv, WalkOK, Count, OffsetList, KeysetList
<1>2. /\ v.list = w.list /\ v.filter = w.filter /\ v.limit = w.limit
      /\ v.total = Cardinality(ShownNow) /\ v.at = "page" /\ v.got = w.got
      /\ v.offset = w.offset /\ v.steady = w.steady
      /\ v.left = w.left /\ v.stale = w.stale /\ v.writes = w.writes
  BY <1>1 DEF Walk
<1>3. Cardinality(ShownNow) \in Nat
  BY ShownRows, FiniteRows DEF ShownNow
<1>4. WalkOK'
  <2>1. v \in Walk
    BY <1>1, <1>3 DEF Walk
  <2> QED
    BY <1>1, <1>2, <2>1 DEF ListInv, WalkOK
<1>5. /\ ShownNow' = ShownNow /\ ClientOK' /\ SteadyOK' /\ Tied' = Tied
      /\ \A i : RowsAhead(i)' = RowsAhead(i)
      /\ Orders(w.list, ShownNow)' = Orders(w.list, ShownNow)
  BY <1>1, <1>2, ReadKeeps
<1>6. KeysetOK'
  BY <1>1, <1>2 DEF KeysetOK
<1>7. OffsetOK'
  BY <1>1, <1>2, <1>5 DEF ListInv, OffsetOK, Listed
<1>8. UnchangedOK'
  BY <1>1, <1>2, <1>5 DEF ListInv, UnchangedOK, Listed
<1> QED
  BY <1>4, <1>5, <1>6, <1>7, <1>8 DEF ListInv

(* The page itself, of a later snapshot. *)
LEMMA OffsetStep ==
  ASSUME ListInv, OffsetPage(ShownNow), walk.list \in OffsetList, UNCHANGED report
  PROVE  ListInv'
<1> PICK w : w = walk
  OBVIOUS
<1> PICK v : v = walk'
  OBVIOUS
<1> PICK S : S = ShownNow
  OBVIOUS
<1>1. /\ row \in [Id -> Row] /\ w \in Walk /\ w.at = "page" /\ UNCHANGED row
      /\ w.list \notin KeysetList
  BY DEF ListInv, WalkOK, OffsetPage, OffsetList, KeysetList
<1> PICK s \in Orders(w.list, S) :
      v = [w EXCEPT !.got = @ \o Fetch(s, w.offset, w.limit),
                    !.offset = @ + w.limit,
                    !.stale = Cardinality(S) > w.total,
                    !.at = IF w.offset + w.limit >= w.total THEN "done" ELSE "count"]
  BY DEF OffsetPage
<1> PICK a, b, n, t : a = w.offset /\ b = w.limit /\ n = Cardinality(S) /\ t = w.total
  OBVIOUS
<1>2. a \in Nat /\ b \in Nat /\ t \in Nat /\ n \in Nat /\ a + b \in Nat
  <2>1. a \in Nat /\ b \in Nat /\ t \in Nat
    BY <1>1, ListConstants DEF Walk
  <2>2. n \in Nat
    BY ShownRows, FiniteRows DEF ShownNow
  <2> QED
    BY <2>1, <2>2
<1> PICK p : p = Fetch(s, a, b)
  OBVIOUS
<1>3. /\ v.list = w.list /\ v.filter = w.filter /\ v.limit = w.limit /\ v.total = w.total
      /\ v.cursor = w.cursor /\ v.got = w.got \o p /\ v.offset = a + b
      /\ v.steady = w.steady /\ v.left = w.left /\ v.stale = (n > t)
      /\ v.writes = w.writes /\ v.at = IF a + b >= t THEN "done" ELSE "count"
  BY <1>1 DEF Walk
<1>4. /\ s \in SetToSeqs(S) /\ s \in Seq(Id) /\ Len(s) = n /\ DOMAIN s = 1..n
      /\ \A i \in S : \E k \in DOMAIN s : s[k] = i
      /\ ~Tied => Sorted(w.list, s)
  BY OrderedRows DEF ListInv
<1>5. w.got \in Seq(Id) /\ p \in Seq(Id)
  BY <1>1, <1>2, <1>4, Fetched DEF Walk
<1>6. v.got \in Seq(Id) /\ ToSet(v.got) = ToSet(w.got) \cup ToSet(p)
  BY <1>3, <1>5, JoinedSet
<1>7. WalkOK'
  <2>1. v.at \in {"done", "count"} /\ v.stale \in BOOLEAN
    BY <1>2, <1>3
  <2>2. v \in Walk
    BY <1>1, <1>2, <1>3, <1>6, <2>1 DEF Walk
  <2> QED
    BY <1>1, <1>3, <2>2 DEF ListInv, WalkOK
<1>8. v.at # "idle"
  BY <1>3
<1>9. /\ ShownNow' = S /\ ClientOK' /\ SteadyOK' /\ Tied' = Tied
      /\ \A i : RowsAhead(i)' = RowsAhead(i)
      /\ Orders(w.list, ShownNow)' = Orders(w.list, S)
  BY <1>1, <1>3, <1>8, ReadKeeps
<1>10. KeysetOK'
  BY <1>1, <1>3 DEF KeysetOK
<1>11. ASSUME ~w.left, ~Tied, NEW i \in w.steady, i \notin ToSet(v.got)
       PROVE  Cardinality(RowsAhead(i)) >= a + b /\ a + b < n
  <2>1. i \in S /\ Cardinality(RowsAhead(i)) >= a
    BY <1>1, <1>6, <1>11 DEF ListInv, SteadyOK, OffsetOK, Listed
  <2>2. PICK k \in DOMAIN s : s[k] = i
    BY <1>4, <2>1
  <2>3. Cardinality({j \in S : Ahead(w.list, j, s[k])}) = k - 1
    BY <1>1, <1>4, <1>11, ShownRows, Place DEF ShownNow
  <2>4. Cardinality(RowsAhead(i)) = k - 1 /\ k \in 1..n
    BY <1>4, <2>2, <2>3 DEF RowsAhead
  <2>5. a < k
    BY <1>2, <2>1, <2>4
  <2>6. ~(k <= a + b)
    <3> SUFFICES ASSUME k <= a + b PROVE FALSE
      OBVIOUS
    <3>1. s[k] \in ToSet(p)
      BY <1>2, <1>4, <2>5, FetchHas
    <3> QED
      BY <1>6, <1>11, <2>2, <3>1
  <2> QED
    BY <1>2, <2>4, <2>6
<1>12. OffsetOK'
  <2>1. ASSUME ~w.left, ~Tied, v.at = "done", ~(n > t) PROVE w.steady \subseteq ToSet(v.got)
    <3>1. a + b >= n
      BY <1>2, <1>3, <2>1
    <3> QED
      BY <1>2, <1>11, <2>1, <3>1
  <2>2. ASSUME ~w.left, ~Tied
        PROVE  \A i \in w.steady : i \in ToSet(v.got) \/ Cardinality(RowsAhead(i)) >= a + b
    BY <1>11, <2>2
  <2>3. v.left = w.left /\ (~v.stale => ~(n > t)) /\ v.list = w.list
    BY <1>3
  <2>4. ASSUME ~v.left, ~Tied', v.at = "done" PROVE OffsetOK'
    BY <1>3, <1>9, <2>1, <2>3, <2>4 DEF OffsetOK, Listed
  <2>5. ASSUME ~v.left, ~Tied', v.at # "done" PROVE OffsetOK'
    <3>1. \A i \in v.steady : i \in ToSet(v.got) \/ Cardinality(RowsAhead(i))' >= v.offset
      BY <1>3, <1>9, <2>2, <2>3, <2>5
    <3> QED
      BY <2>5, <3>1 DEF OffsetOK, Listed
  <2> QED
    BY <2>4, <2>5 DEF OffsetOK
<1>13. UnchangedOK'
  <2>1. ASSUME w.writes = 0, ~Tied PROVE v.got = Fetch(s, 0, a + b) /\ t = n
    <3>1. /\ t = n
          /\ \/ w.got = <<>> /\ a = 0
             \/ \E u \in Orders(w.list, S) : w.got = Fetch(u, 0, a)
      BY <1>1, <2>1 DEF ListInv, UnchangedOK
    <3>2. w.got = Fetch(s, 0, a)
      <4>1. CASE w.got = <<>> /\ a = 0
        <5>1. Fetch(s, 0, a) \in Seq(Id) /\ Len(Fetch(s, 0, a)) = Taken(n, 0, a)
          <6>1. IsPage(Id, Fetch(s, 0, a), s, 0, a)
            BY <1>2, <1>4, FetchIsPage
          <6> QED
            BY <1>4, <6>1 DEF IsPage
        <5>2. Taken(n, 0, a) = 0
          BY <1>2, <4>1 DEF Taken
        <5> QED
          BY <4>1, <5>1, <5>2, EmptySeq
      <4>2. CASE \E u \in Orders(w.list, S) : w.got = Fetch(u, 0, a)
        <5>1. PICK u \in Orders(w.list, S) : w.got = Fetch(u, 0, a)
          BY <4>2
        <5>2. u \in SetToSeqs(S) /\ Sorted(w.list, u)
          BY <2>1, OrderedRows DEF ListInv
        <5>3. u = s
          BY <1>1, <1>4, <2>1, <5>2, ShownRows, SortedOnce DEF ShownNow
        <5> QED
          BY <5>1, <5>3
      <4> QED
        BY <3>1, <4>1, <4>2
    <3>5. Fetch(s, 0, a) \o Fetch(s, a, b) = Fetch(s, 0, a + b)
      <4>1. s \in Seq(Id) /\ a \in Nat /\ b \in Nat
        BY <1>2, <1>4
      <4>2. Continues(Fetch(s, 0, a), Fetch(s, a, b), Fetch(s, 0, a + b))
        BY <4>1, FetchMore, Zenon
      <4> QED
        BY <4>2 DEF Continues
    <3> QED
      BY <1>3, <3>1, <3>2, <3>5
  <2>2. ASSUME w.writes = 0, ~Tied, v.at = "done" PROVE v.got = s
    <3>1. a + b >= n /\ v.got = Fetch(s, 0, a + b)
      BY <1>3, <2>1, <2>2
    <3>2. s \in Seq(Id) /\ a + b \in Nat /\ 0 \in Nat /\ a + b >= Len(s)
      BY <1>2, <1>4, <3>1
    <3>3. Fetch(s, 0, a + b) = s
      BY <3>2, FetchAll, Zenon
    <3> QED
      BY <3>1, <3>3
  <2>3. v.at \in {"done", "count"}
    BY <1>3
  <2>4. w.writes = 0 => w.steady = S
    BY <1>1 DEF ListInv, UnchangedOK
  <2>5. /\ v.list = w.list /\ v.writes = w.writes /\ v.steady = w.steady /\ v.offset = a + b
    BY <1>3
  <2>6. ASSUME v.writes = 0, ~Tied'
        PROVE  /\ \E u \in Orders(w.list, ShownNow)' : v.got = Fetch(u, 0, v.offset)
               /\ v.at = "done" => v.got \in Orders(w.list, ShownNow)'
    BY <1>9, <2>1, <2>2, <2>5, <2>6
  <2>7. Orders(walk.list, ShownNow)' = Orders(w.list, ShownNow)'
    BY <2>5
  <2>8. v.writes = 0 => v.steady = ShownNow'
    BY <1>9, <2>4, <2>5
  <2>9. v.list \notin KeysetList
    BY <1>1, <2>5
  <2>10. v.at # "page"
    BY <2>3
  <2>11. v.writes = 0 /\ ~Tied' =>
           /\ v.at \in {"count", "page"} =>
                \/ v.got = <<>> /\ v.offset = 0
                \/ \E u \in Orders(v.list, ShownNow)' : v.got = Fetch(u, 0, v.offset)
           /\ v.at = "done" => v.got \in Orders(v.list, ShownNow)'
    BY <2>5, <2>6, <2>7
  <2> QED
    BY <2>8, <2>9, <2>10, <2>11 DEF UnchangedOK
<1> QED
  BY <1>7, <1>9, <1>10, <1>12, <1>13 DEF ListInv

(* The export, of one snapshot. *)
LEMMA ExportStep ==
  ASSUME ListInv, Export(ShownNow), UNCHANGED report
  PROVE  ListInv'
<1> PICK w : w = walk
  OBVIOUS
<1> PICK v : v = walk'
  OBVIOUS
<1> PICK S : S = ShownNow
  OBVIOUS
<1>1. row \in [Id -> Row] /\ w \in Walk /\ w.at = "export" /\ UNCHANGED row
  BY DEF ListInv, WalkOK, Export
<1> PICK s \in Orders(w.list, S) : v = [w EXCEPT !.got = s, !.at = "done"]
  BY DEF Export
<1>2. /\ v.list = w.list /\ v.filter = w.filter /\ v.got = s /\ v.at = "done"
      /\ v.steady = w.steady /\ v.writes = w.writes
  BY <1>1 DEF Walk
<1>3. s \in Seq(Id) /\ ToSet(s) = S /\ (~Tied => Sorted(w.list, s))
  BY OrderedRows DEF ListInv
<1>4. WalkOK'
  <2>1. v \in Walk
    BY <1>1, <1>3 DEF Walk
  <2> QED
    BY <1>1, <1>2, <2>1 DEF ListInv, WalkOK
<1>5. /\ ShownNow' = S /\ ClientOK' /\ SteadyOK'
      /\ Orders(w.list, ShownNow)' = Orders(w.list, S)
  BY <1>1, <1>2, ReadKeeps
<1>6. w.steady \subseteq S /\ \A i \in S : row[i].status # "absent"
  BY <1>1, ShownRows DEF ListInv, SteadyOK, ShownNow, Present
<1>7. KeysetOK'
  <2>1. w.list \in KeysetList => Sorted(w.list, s)
    BY <1>3 DEF Tied, KeysetList
  <2>2. Sorted(w.list, s)' = Sorted(w.list, s)
    BY <1>1, SameRows
  <2> QED
    BY <1>1, <1>2, <1>3, <1>6, <2>1, <2>2 DEF KeysetOK, Listed
<1>8. OffsetOK'
  BY <1>2, <1>3, <1>6 DEF OffsetOK, Listed
<1>9. UnchangedOK'
  <2>1. w.writes = 0 => w.steady = S
    BY <1>1 DEF ListInv, UnchangedOK
  <2> QED
    BY <1>2, <1>3, <1>5, <2>1 DEF UnchangedOK, Listed
<1> QED
  BY <1>4, <1>5, <1>7, <1>8, <1>9 DEF ListInv

(* Every request reads what its list shows now. *)
LEMMA ReadStep ==
  ASSUME ListInv, Read, UNCHANGED report
  PROVE  ListInv'
<1>1. \/ KeysetPage(ShownNow) /\ walk.list \in KeysetList
      \/ CountedPage(ShownNow) /\ walk.list \in OffsetList
      \/ Export(ShownNow)
  <2>1. CASE ListSalesOrders
    BY <2>1 DEF ListSalesOrders, KeysetList, ShownNow, Shown
  <2>2. CASE ListMovements
    BY <2>2 DEF ListMovements, KeysetList, ShownNow, Shown
  <2>3. CASE StreamMovements
    BY <2>3 DEF StreamMovements, ShownNow, Shown
  <2>4. CASE ListPurchaseOrders
    BY <2>4 DEF ListPurchaseOrders, OffsetList, ShownNow, Shown
  <2>5. CASE ListProducts
    BY <2>5 DEF ListProducts, OffsetList, ShownNow, Shown
  <2>6. CASE ListBatches
    BY <2>6 DEF ListBatches, OffsetList, ShownNow, Shown
  <2>7. CASE ListRecallReport
    BY <2>7 DEF ListRecallReport, OffsetList, ShownNow, Shown
  <2>8. CASE StreamRecallReport
    BY <2>8 DEF StreamRecallReport, ShownNow, Shown
  <2> QED
    BY <2>1, <2>2, <2>3, <2>4, <2>5, <2>6, <2>7, <2>8 DEF Read
<1> QED
  BY <1>1, KeysetStep, CountStep, OffsetStep, ExportStep DEF CountedPage

(* The reports read the table and leave the lists alone. *)
LEMMA ReportStep ==
  ASSUME ListInv, ListMargin \/ StreamMargin \/ DashboardTotals \/ DashboardTop
  PROVE  ListInv'
<1>1. UNCHANGED <<row, walk>> /\ report.at # "idle"
  BY DEF ListMargin, StreamMargin, DashboardTotals, DashboardTop, listVars
<1>2. walk.at = "idle"
  BY <1>1 DEF ListInv, ClientOK
<1>3. WalkOK' /\ ClientOK'
  BY <1>1, <1>2 DEF ListInv, WalkOK, ClientOK
<1> QED
  BY <1>1, <1>2, <1>3 DEF ListInv, SteadyOK, KeysetOK, OffsetOK, UnchangedOK

(* A sale between two pages of a report: nobody walks a list. *)
LEMMA SaleStep ==
  ASSUME ListInv, SaleChange
  PROVE  ListInv'
<1>1. PICK k \in Id : Close(k) \/ VoidOrder(k)
  BY DEF SaleChange
<1>2. UNCHANGED walk /\ walk.at = "idle" /\ row \in [Id -> Row]
  BY DEF SaleChange, ListInv, ClientOK, WalkOK
<1>3. row' \in [Id -> Row]
  BY <1>1, <1>2, WriteKeeps DEF Write
<1>4. WalkOK' /\ ClientOK'
  BY <1>2, <1>3 DEF ListInv, WalkOK, ClientOK
<1> QED
  BY <1>2, <1>4 DEF ListInv, SteadyOK, KeysetOK, OffsetOK, UnchangedOK

LEMMA ListInvNext ==
  ASSUME ListInv, [Next]_marginVars
  PROVE  ListInv'
<1>1. CASE UNCHANGED marginVars
  <2>1. UNCHANGED <<row, walk, report>>
    BY <1>1 DEF marginVars
  <2>2. WalkOK' /\ ClientOK'
    BY <2>1 DEF ListInv, WalkOK, ClientOK
  <2>3. ShownNow' = ShownNow /\ Tied' = Tied
    BY <2>1, SameRows DEF ShownNow
  <2>4. SteadyOK'
    BY <2>1, <2>3 DEF ListInv, SteadyOK
  <2>5. KeysetOK'
    BY <2>1, SameRows DEF ListInv, KeysetOK, Listed
  <2>6. OffsetOK'
    <3>1. \A i : RowsAhead(i)' = RowsAhead(i)
      BY <2>1, <2>3, SameRows DEF RowsAhead
    <3> QED
      BY <2>1, <2>3, <3>1 DEF ListInv, OffsetOK, Listed
  <2>7. UnchangedOK'
    <3>1. Orders(walk.list, ShownNow)' = Orders(walk.list, ShownNow)
      BY <2>1, <2>3, SameRows
    <3> QED
      BY <2>1, <2>3, <3>1 DEF ListInv, UnchangedOK, Listed
  <2> QED
    BY <2>2, <2>4, <2>5, <2>6, <2>7 DEF ListInv
<1>2. CASE Read /\ UNCHANGED report
  BY <1>2, ReadStep
<1>3. CASE Change /\ UNCHANGED report
  BY <1>3, ChangeStep
<1>4. CASE ListMargin \/ StreamMargin \/ DashboardTotals \/ DashboardTop
  BY <1>4, ReportStep
<1>5. CASE SaleChange
  BY <1>5, SaleStep
<1> QED
  BY <1>1, <1>2, <1>3, <1>4, <1>5 DEF Next, Answered

LEMMA LeastLimit ==
  Min(PageSize) \in PageSize
<1> DEFINE HasLeast(D) == \E T \in D : \A U \in D : U \subseteq T => U = T
<1>0. \A S, D : IsFiniteSet(S) /\ D \subseteq SUBSET S /\ D # {} => HasLeast(D)
  BY MinimalSubset
<1> HIDE DEF HasLeast
<1>1. PageSize \subseteq Nat /\ PageSize # {}
  BY ListConstants
<1> PICK n \in PageSize : TRUE
  BY <1>1
<1> PICK C : C = {0..k : k \in {i \in PageSize : i <= n}}
  OBVIOUS
<1>2. C \subseteq SUBSET (0..n) /\ C # {} /\ IsFiniteSet(0..n)
  <2>1. n \in Nat /\ 0 \in Int /\ n \in Int
    BY <1>1
  <2>2. IsFiniteSet(0..n)
    BY <2>1, FS_Interval, Zenon
  <2>3. 0..n \in C
    BY <1>1
  <2>4. \A k \in {i \in PageSize : i <= n} : 0..k \subseteq 0..n
    BY <1>1
  <2> QED
    BY <2>2, <2>3, <2>4
<1>3. PICK T \in C : \A U \in C : U \subseteq T => U = T
  <2>1. HasLeast(C)
    BY <1>0, <1>2
  <2> QED
    BY <2>1 DEF HasLeast
<1>4. PICK m \in PageSize : m <= n /\ T = 0..m
  BY <1>3
<1>5. ASSUME NEW k \in PageSize PROVE m <= k
  <2> SUFFICES ASSUME k < m PROVE FALSE
    BY <1>1
  <2>1. 0..k \in C
    BY <1>1, <1>4
  <2>2. 0..k = 0..m
    <3>1. 0..k \subseteq 0..m
      BY <1>1
    <3> QED
      BY <1>3, <1>4, <2>1, <3>1
  <2> QED
    BY <1>1, <2>2
<1> QED
  BY <1>5 DEF Min

LEMMA ListInvInit ==
  ASSUME Init
  PROVE  ListInv
<1>1. row \in [Id -> Row] /\ IsFiniteSet(Id)
  BY ListConstants DEF Init, ListInit
<1>2. <<>> \in Seq(Id) /\ NoCursor \in Cursor \cup {NoCursor} /\ MaxWrites \in Nat
  BY ListConstants
<1>3. ASSUME ListInit, report = [MarginRequest("pages", Min(PageSize)) EXCEPT !.at = "idle"]
      PROVE  ListInv
  <2> PICK list \in List, n \in PageSize :
        \E f \in Filter(list), at \in FirstStatement(list) :
          walk = FirstRequest(list, f, n, at)
    BY <1>3 DEF ListInit
  <2>1. PICK f \in Filter(list), at \in FirstStatement(list) :
          walk = FirstRequest(list, f, n, at)
    OBVIOUS
  <2>2. /\ walk.list = list /\ walk.filter = f /\ walk.at = at /\ walk.cursor = NoCursor
        /\ walk.offset = 0 /\ walk.got = <<>> /\ walk.steady = Shown(list, f)
        /\ walk.writes = 0
    BY <2>1 DEF FirstRequest
  <2>3. /\ at \in {"page", "count", "export"}
        /\ at = "count" => list \in OffsetList
    BY ListConstants DEF FirstStatement, OffsetList, KeysetList
  <2>4. walk \in Walk
    <3>1. f \in UNION {Filter(l) : l \in List}
      OBVIOUS
    <3>2. Shown(list, f) \subseteq Id
      BY ShownRows
    <3> QED
      BY <1>2, <2>1, <2>3, <3>1, <3>2 DEF FirstRequest, Walk
  <2>5. WalkOK
    BY <1>1, <1>2, <2>2, <2>4 DEF WalkOK
  <2>6. ClientOK
    BY <1>3, <2>2, <2>3 DEF ClientOK, MarginRequest
  <2>7. ShownNow = Shown(list, f) /\ Listed = {}
    BY <2>2 DEF ShownNow, Listed, ToSet
  <2>8. SteadyOK
    BY <2>2, <2>7 DEF SteadyOK
  <2>9. KeysetOK
    BY <2>2, <2>3, <2>7 DEF KeysetOK, Sorted
  <2>10. OffsetOK
    <3>1. \A i : Cardinality(RowsAhead(i)) >= 0
      BY <2>7, ShownRows, FiniteRows DEF RowsAhead
    <3> QED
      BY <2>2, <2>3, <3>1 DEF OffsetOK
  <2>11. UnchangedOK
    <3>1. list \in OffsetList => at # "page"
      BY DEF FirstStatement, OffsetList, KeysetList
    <3> QED
      BY <2>2, <2>3, <2>7, <3>1 DEF UnchangedOK
  <2> QED
    BY <2>5, <2>6, <2>8, <2>9, <2>10, <2>11 DEF ListInv
<1>4. ASSUME walk = FirstRequest("sales_orders", "all", Min(PageSize), "idle") PROVE ListInv
  <2>1. walk.at = "idle" /\ walk.got = <<>> /\ walk.writes = 0
    BY <1>4 DEF FirstRequest
  <2>2. walk \in Walk
    <3>1. "sales_orders" \in List /\ "all" \in UNION {Filter(l) : l \in List}
      BY MarginConstants DEF Filter
    <3>2. Shown("sales_orders", "all") \subseteq Id /\ Min(PageSize) \in PageSize
      BY ShownRows, LeastLimit
    <3> QED
      BY <1>2, <1>4, <3>1, <3>2 DEF FirstRequest, Walk
  <2>3. WalkOK /\ ClientOK
    BY <1>1, <1>2, <2>1, <2>2 DEF WalkOK, ClientOK
  <2> QED
    BY <2>1, <2>3 DEF ListInv, SteadyOK, KeysetOK, OffsetOK, UnchangedOK
<1> QED
  BY <1>3, <1>4 DEF Init

LEMMA ListInvHolds == Spec => []ListInv
BY ListInvInit, ListInvNext, PTL DEF Spec

-------------------------------------------------------------------------------
(* What lists promise *)

(* A keyset walk lists every row the list shows throughout, and none twice *)
(* (list_sales_orders, list_movements, build_next_cursor).                 *)
THEOREM KeysetWalks == Spec => []KeysetListsEachOnce
<1>1. ASSUME ListInv PROVE KeysetListsEachOnce
  <2>1. row \in [Id -> Row] /\ walk.got \in Seq(Id)
    BY <1>1 DEF ListInv, WalkOK, Walk
  <2>2. Walked(KeysetList) => walk.steady \subseteq Listed
    BY <1>1 DEF ListInv, KeysetOK, Walked
  <2>3. ASSUME walk.list \in KeysetList PROVE IsInjective(walk.got)
    <3>1. CASE walk.at = "idle"
      BY <1>1, <3>1 DEF ListInv, ClientOK, IsInjective
    <3>2. CASE walk.at # "idle"
      BY <1>1, <2>1, <2>3, <3>2, SortedInjective DEF ListInv, KeysetOK
    <3> QED
      BY <3>1, <3>2
  <2> QED
    BY <2>2, <2>3 DEF KeysetListsEachOnce
<1> QED
  BY <1>1, ListInvHolds, PTL

(* An offset walk misses a row that stays only when rows leave, a page is  *)
(* longer than its COUNT, or the ORDER BY leaves a tie (paginate_queryset, *)
(* list_recall_report).                                                    *)
THEOREM OffsetWalks == Spec => []OffsetMissesNothing
<1>1. ASSUME ListInv PROVE OffsetMissesNothing
  BY <1>1 DEF ListInv, OffsetOK, OffsetMissesNothing, Walked
<1> QED
  BY <1>1, ListInvHolds, PTL

(* The pages of a list nobody writes to are its export, in order. *)
THEOREM PagesAreTheList == Spec => []PagesMakeTheList
<1>1. ASSUME ListInv PROVE PagesMakeTheList
  <2> SUFFICES ASSUME walk.at = "done", walk.writes = 0, ~Tied
               PROVE  walk.got \in Orders(walk.list, ShownNow)
    BY DEF PagesMakeTheList, ShownNow
  <2>1. row \in [Id -> Row] /\ walk.got \in Seq(Id) /\ walk.list \in KeysetList \cup OffsetList
    BY <1>1, ListConstants DEF ListInv, WalkOK, Walk
  <2>2. CASE walk.list \in OffsetList
    BY <1>1, <2>2 DEF ListInv, UnchangedOK
  <2>3. CASE walk.list \in KeysetList
    <3>1. Listed = ShownNow /\ Sorted(walk.list, walk.got) /\ walk.list # "recall_report"
      BY <1>1, <2>3 DEF ListInv, UnchangedOK, KeysetOK, KeysetList
    <3>2. walk.got \in SetToSeqs(ShownNow)
      BY <2>1, <3>1, SortedEnumerates DEF Listed
    <3>3. ShownNow \subseteq Id
      BY ShownRows DEF ShownNow
    <3>4. Newest(ShownNow) \in SetToSeqs(ShownNow) /\ Sorted(walk.list, Newest(ShownNow))
      BY <2>1, <3>1, <3>3, NewestSorts
    <3>5. walk.got = Newest(ShownNow)
      BY <2>1, <3>1, <3>2, <3>3, <3>4, SortedOnce
    <3> QED
      BY <3>1, <3>5 DEF Orders
  <2> QED
    BY <2>1, <2>2, <2>3
<1> QED
  BY <1>1, ListInvHolds, PTL

-------------------------------------------------------------------------------
(* What the reports add up *)

(* The revenue of single sales, and of rows of a report. *)
Earned == [v \in Sale |-> RevenueOf(v)]
Revenues == [m \in MarginRow |-> m.revenue]

LEMMA FiniteImage ==
  ASSUME NEW S, IsFiniteSet(S), NEW f
  PROVE  IsFiniteSet({f[x] : x \in S})
<1> PICK T : T = {f[x] : x \in S}
  OBVIOUS
<1> PICK h : h = [x \in S |-> f[x]]
  OBVIOUS
<1>1. h \in Surjection(S, T)
  BY DEF Surjection
<1>2. IsFiniteSet(T)
  BY <1>1, FS_Surjection
<1> QED
  BY <1>2

LEMMA FiniteSales ==
  ASSUME NEW S, S \subseteq Sale
  PROVE  IsFiniteSet(S) /\ \A v \in S : v.order \in Id /\ v.product \in Product
<1> PICK P : P = Id \X Product
  OBVIOUS
<1> PICK f : f = [x \in P |-> [order |-> x[1], product |-> x[2]]]
  OBVIOUS
<1>1. IsFiniteSet(P)
  BY ListConstants, MarginConstants, FS_Product
<1>2. IsFiniteSet({f[x] : x \in P})
  BY <1>1, FiniteImage
<1>3. Sale \subseteq {f[x] : x \in P}
  <2>1. ASSUME NEW v \in Sale PROVE v \in {f[x] : x \in P}
    <3>1. v = [order |-> v.order, product |-> v.product] /\ v.order \in Id /\ v.product \in Product
      BY DEF Sale
    <3>2. <<v.order, v.product>> \in P /\ f[<<v.order, v.product>>] = v
      BY <3>1
    <3> QED
      BY <3>2
  <2> QED
    BY <2>1
<1>4. IsFiniteSet(S)
  BY <1>2, <1>3, FS_Subset
<1> QED
  BY <1>4 DEF Sale

LEMMA EarnedRevenue ==
  \A v \in Sale : Earned[v] = RevenueOf(v) /\ RevenueOf(v) \in Nat
<1>1. ASSUME NEW v \in Sale PROVE Earned[v] = RevenueOf(v) /\ RevenueOf(v) \in Nat
  <2>1. v.order \in Id /\ v.product \in Product /\ Revenue[v.order][v.product] # NotSold
    BY DEF Sale, RevenueOf
  <2>2. Revenue[v.order][v.product] \in Nat \cup {NotSold}
    BY <2>1, MarginConstants
  <2>3. Earned[v] = RevenueOf(v)
    BY DEF Earned
  <2> QED
    BY <2>1, <2>2, <2>3 DEF RevenueOf
<1> QED
  BY <1>1

(* Total is the sum of what its sales earned. *)
LEMMA TotalEarned ==
  ASSUME NEW S, S \subseteq Sale
  PROVE  Total(S) = SumFunctionOnSet(Earned, S) /\ Total(S) \in Nat /\ Numeric(Earned, S)
<1>1. IsFiniteSet(S) /\ Numeric(Earned, S) /\ \A v \in S : Earned[v] \in Nat
  BY FiniteSales, EarnedRevenue DEF Numeric
<1>2. PICK g : IsSum(Earned, g, S)
  BY <1>1, SumExists
<1>3. ASSUME NEW s \in SUBSET S, s # {}
      PROVE  LET x == CHOOSE x \in s : TRUE IN Earned[x] = RevenueOf(x)
  BY <1>3, EarnedRevenue
<1>4. g = [s \in SUBSET S |->
             IF s = {} THEN 0
             ELSE LET x == CHOOSE x \in s : TRUE IN RevenueOf(x) + g[s \ {x}]]
  BY <1>2, <1>3 DEF IsSum
<1>5. \E h : /\ h = [s \in SUBSET S |->
                     IF s = {} THEN 0
                     ELSE LET x == CHOOSE x \in s : TRUE IN RevenueOf(x) + h[s \ {x}]]
             /\ Total(S) = h[S]
  BY <1>4 DEF Total, MapThenSumSet, MapThenFoldSet
<1>6. PICK h : /\ h = [s \in SUBSET S |->
                     IF s = {} THEN 0
                     ELSE LET x == CHOOSE x \in s : TRUE IN RevenueOf(x) + h[s \ {x}]]
             /\ Total(S) = h[S]
  BY <1>5
<1>7. IsSum(Earned, h, S)
  BY <1>3, <1>6 DEF IsSum
<1>8. Total(S) = SumFunctionOnSet(Earned, S)
  BY <1>1, <1>6, <1>7, SumIsValue
<1>9. SumFunctionOnSet(Earned, S) \in Nat
  BY <1>1, SumMonotone
<1> QED
  BY <1>1, <1>8, <1>9

(* A product sold once earned what that sale did. *)
LEMMA TotalOne ==
  ASSUME NEW v \in Sale
  PROVE  Total({v}) = RevenueOf(v)
<1>1. Total({v}) = SumFunctionOnSet(Earned, {v}) /\ Numeric(Earned, {v})
  BY TotalEarned
<1>2. {} \cup {v} = {v} /\ v \notin {} /\ IsFiniteSet({})
  BY FS_EmptySet
<1>3. SumFunctionOnSet(Earned, {} \cup {v}) = SumFunctionOnSet(Earned, {}) + Earned[v]
  BY <1>1, <1>2, SumAdd
<1>4. SumFunctionOnSet(Earned, {v}) = 0 + RevenueOf(v) /\ RevenueOf(v) \in Nat
  BY <1>2, <1>3, SumEmpty, EarnedRevenue
<1> QED
  BY <1>1, <1>4

(* The row of a product. *)
GroupOf(S, p) == [product |-> p, revenue |-> Total({v \in S : v.product = p})]
Named(S) == {v.product : v \in S}

LEMMA GroupRows ==
  ASSUME NEW S, S \subseteq Sale
  PROVE  /\ Groups(S) = {GroupOf(S, p) : p \in Named(S)}
         /\ Groups(S) \subseteq MarginRow /\ IsFiniteSet(Groups(S)) /\ IsFiniteSet(Named(S))
         /\ \A p \in Product : GroupOf(S, p) \in MarginRow
<1>1. Groups(S) = {GroupOf(S, p) : p \in Named(S)}
  BY DEF Groups, GroupOf, Named
<1>2. Named(S) \subseteq Product
  BY FiniteSales DEF Named
<1>3. IsFiniteSet(Named(S))
  BY <1>2, MarginConstants, FS_Subset
<1>4. ASSUME NEW p \in Product PROVE GroupOf(S, p) \in MarginRow
  <2>1. Total({v \in S : v.product = p}) \in Nat
    <3>1. {v \in S : v.product = p} \subseteq Sale
      OBVIOUS
    <3> QED
      BY <3>1, TotalEarned
  <2> QED
    BY <2>1 DEF GroupOf, MarginRow
<1> PICK f : f = [p \in Named(S) |-> GroupOf(S, p)]
  OBVIOUS
<1>5. IsFiniteSet({f[p] : p \in Named(S)})
  BY <1>3, FiniteImage
<1>6. IsFiniteSet(Groups(S))
  BY <1>1, <1>5
<1> QED
  BY <1>1, <1>2, <1>3, <1>4, <1>6

(* What the rows add up to is what was sold. *)
LEMMA GroupsAddUp ==
  ASSUME NEW S, S \subseteq Sale
  PROVE  SumFunctionOnSet(Revenues, Groups(S)) = Total(S)
<1> DEFINE Rows(P) == {GroupOf(S, p) : p \in P}
           Part(P) == {v \in S : v.product \in P}
           C == {P \in SUBSET Named(S) :
                   /\ IsFiniteSet(Rows(P))
                   /\ SumFunctionOnSet(Revenues, Rows(P)) = Total(Part(P))}
<1>1. {} \in C
  <2>1. Rows({}) = {} /\ Part({}) = {}
    OBVIOUS
  <2>2. Total({}) = 0
    BY TotalEarned, SumEmpty
  <2> QED
    BY <2>1, <2>2, SumEmpty, FS_EmptySet
<1>2. ASSUME NEW P \in SUBSET Named(S), NEW p \in Named(S), P \in C, p \notin P
      PROVE  P \cup {p} \in C
  <2> PICK A, B, D : A = Rows(P) /\ B = Part(P) /\ D = {v \in S : v.product = p}
    OBVIOUS
  <2> PICK g : g = GroupOf(S, p)
    OBVIOUS
  <2>1. /\ Rows(P \cup {p}) = A \cup {g} /\ Part(P \cup {p}) = B \cup D
        /\ IsFiniteSet(A) /\ SumFunctionOnSet(Revenues, A) = Total(B)
    BY <1>2
  <2>2. p \in Product /\ P \subseteq Product
    BY FiniteSales DEF Named
  <2>3. g \in MarginRow /\ A \subseteq MarginRow
    BY <2>2, GroupRows
  <2>4. g \notin A
    BY <1>2 DEF GroupOf
  <2>5. g.revenue = Total(D)
    BY DEF GroupOf
  <2>6. Revenues[g] = Total(D) /\ Numeric(Revenues, A \cup {g})
    BY <2>3, <2>5 DEF Revenues, Numeric, MarginRow
  <2>7. SumFunctionOnSet(Revenues, A \cup {g}) = Total(B) + Total(D)
    <3>1. SumFunctionOnSet(Revenues, A \cup {g}) = SumFunctionOnSet(Revenues, A) + Revenues[g]
      BY <2>1, <2>4, <2>6, SumAdd
    <3> QED
      BY <2>1, <2>6, <3>1
  <2>8. Total(B \cup D) = Total(B) + Total(D)
    <3>1. B \subseteq Sale /\ D \subseteq Sale /\ B \cup D \subseteq Sale /\ B \cap D = {}
      BY <1>2
    <3>2. SumFunctionOnSet(Earned, B \cup D) = SumFunctionOnSet(Earned, B) + SumFunctionOnSet(Earned, D)
      BY <3>1, FiniteSales, TotalEarned, SumUnion
    <3> QED
      BY <3>1, <3>2, TotalEarned
  <2>9. IsFiniteSet(A \cup {g})
    BY <2>1, FS_AddElement
  <2> QED
    BY <2>1, <2>7, <2>8, <2>9
<1>3. Named(S) \in C
  <2> HIDE DEF C
  <2>1. IsFiniteSet(Named(S)) /\ Named(S) \in SUBSET Named(S)
    BY GroupRows
  <2>2. \A P \in SUBSET Named(S), p \in Named(S) : P \in C /\ p \notin P => P \cup {p} \in C
    BY <1>2
  <2>3. \A P \in SUBSET Named(S) : P \in C
    BY <1>1, <2>1, <2>2, SubsetInduction
  <2> QED
    BY <2>1, <2>3
<1>4. Rows(Named(S)) = Groups(S) /\ Part(Named(S)) = S
  BY GroupRows DEF Named
<1> QED
  BY <1>3, <1>4

(* What the rows of a list add up to. *)
Sum(s) == FoldSeq(LAMBDA m, n : m.revenue + n, 0, s)

LEMMA ListAddsUp ==
  ASSUME NEW s \in Seq(MarginRow), IsInjective(s)
  PROVE  Sum(s) = SumFunctionOnSet(Revenues, ToSet(s))
<1>0. \A F, I, v : IsFiniteSet(I) /\ IsSum(F, v, I) => SumFunctionOnSet(F, I) = v[I]
  BY SumIsValue
<1> PICK n \in Nat : n = Len(s)
  OBVIOUS
<1>1. DOMAIN s = 1..n /\ \A i \in 1..n : s[i] \in MarginRow
  OBVIOUS
<1> PICK f : f = [i \in 1..n |-> s[i].revenue]
  OBVIOUS
<1>2. \A i \in 1..n : f[i] = Revenues[s[i]] /\ f[i] \in Nat /\ f[i] = s[i].revenue
  BY <1>1 DEF Revenues, MarginRow
<1>3. IsFiniteSet(1..n) /\ Numeric(f, 1..n)
  <2>1. 1 \in Int /\ n \in Int
    OBVIOUS
  <2>2. IsFiniteSet(1..n)
    BY <2>1, FS_Interval, Zenon
  <2> QED
    BY <1>2, <2>2 DEF Numeric
<1>4. PICK g : IsSum(f, g, DOMAIN s)
  BY <1>1, <1>3, SumExists
<1>5. ASSUME NEW J \in SUBSET DOMAIN s, J # {}
      PROVE  LET x == CHOOSE x \in J : TRUE IN f[x] = s[x].revenue
  BY <1>1, <1>2, <1>5
<1>6. g = [J \in SUBSET DOMAIN s |->
             IF J = {} THEN 0
             ELSE LET x == CHOOSE x \in J : TRUE IN s[x].revenue + g[J \ {x}]]
  BY <1>4, <1>5 DEF IsSum
<1>7. \E h : /\ h = [J \in SUBSET DOMAIN s |->
                     IF J = {} THEN 0
                     ELSE LET x == CHOOSE x \in J : TRUE IN s[x].revenue + h[J \ {x}]]
             /\ Sum(s) = h[DOMAIN s]
  BY <1>6 DEF Sum, FoldSeq, FoldFunction, FoldFunctionOnSet, MapThenFoldSet
<1>8. PICK h : /\ h = [J \in SUBSET DOMAIN s |->
                     IF J = {} THEN 0
                     ELSE LET x == CHOOSE x \in J : TRUE IN s[x].revenue + h[J \ {x}]]
             /\ Sum(s) = h[DOMAIN s]
  BY <1>7
<1>9. IsSum(f, h, DOMAIN s)
  BY <1>5, <1>8 DEF IsSum
<1>10. Sum(s) = SumFunctionOnSet(f, 1..n)
  <2>1. h[DOMAIN s] = SumFunctionOnSet(f, DOMAIN s)
    BY <1>1, <1>3, <1>9, <1>0
  <2> QED
    BY <1>1, <1>8, <2>1
<1>11. SumFunctionOnSet(f, 1..n) = SumFunctionOnSet(Revenues, Values(s, 1..n))
  <2>1. \A i, j \in 1..n : i # j => s[i] # s[j]
    BY <1>1 DEF IsInjective
  <2> QED
    BY <1>2, <1>3, <2>1, SumReindexed
<1> QED
  BY <1>1, <1>10, <1>11 DEF ToSet, Values

-------------------------------------------------------------------------------
(* The order of a report *)

(* More revenue first, then the higher product. *)
MarginOrder == {p \in MarginRow \X MarginRow : Below(Rank(p[2]), Rank(p[1]))}

LEMMA MarginOrdered == TotalOrder(MarginOrder, MarginRow)
<1>1. \A m \in MarginRow : m.revenue \in Nat /\ m.product \in Nat
                           /\ m = [product |-> m.product, revenue |-> m.revenue]
  <2>1. \A m \in MarginRow : m = [product |-> m.product, revenue |-> m.revenue]
    BY DEF MarginRow
  <2>2. \A m \in MarginRow : m.revenue \in Nat /\ m.product \in Product
    BY DEF MarginRow
  <2> QED
    BY <2>1, <2>2, MarginConstants
<1>2. \A m, n \in MarginRow :
        <<m, n>> \in MarginOrder <=>
          n.revenue < m.revenue \/ (n.revenue = m.revenue /\ n.product < m.product)
  BY DEF MarginOrder, Below, Rank
<1>3. StrictOrder(MarginOrder, MarginRow)
  <2>1. ASSUME NEW x \in MarginRow, NEW y \in MarginRow, <<x, y>> \in MarginOrder
        PROVE  <<y, x>> \notin MarginOrder
    BY <1>1, <1>2, <2>1
  <2>2. ASSUME NEW x \in MarginRow, NEW y \in MarginRow, NEW z \in MarginRow,
               <<x, y>> \in MarginOrder, <<y, z>> \in MarginOrder
        PROVE  <<x, z>> \in MarginOrder
    BY <1>1, <1>2, <2>2
  <2> QED
    BY <2>1, <2>2 DEF StrictOrder
<1>4. ASSUME NEW x \in MarginRow, NEW y \in MarginRow, x # y
      PROVE  <<x, y>> \in MarginOrder \/ <<y, x>> \in MarginOrder
  <2>1. x.revenue # y.revenue \/ x.product # y.product
    BY <1>1, <1>4
  <2> QED
    BY <1>1, <1>2, <2>1
<1> QED
  BY <1>3, <1>4 DEF TotalOrder

(* The rows of the statement, each once, in order. *)
LEMMA ByProductSorts ==
  ASSUME NEW S, S \subseteq Sale
  PROVE  /\ ByProduct(S) \in SetToSeqs(Groups(S)) /\ InOrder(MarginOrder, ByProduct(S))
         /\ ByProduct(S) \in Seq(MarginRow) /\ IsInjective(ByProduct(S))
         /\ ToSet(ByProduct(S)) = Groups(S)
<1> PICK G : G = Groups(S)
  OBVIOUS
<1>1. G \subseteq MarginRow /\ IsFiniteSet(G) /\ TotalOrder(MarginOrder, G)
  BY GroupRows, MarginOrdered, SubsetOrders
<1>2. PICK s \in SetToSeqs(G) : InOrder(MarginOrder, s)
  BY <1>1, OrderSorts
<1>3. \A i, j \in DOMAIN s : i < j => Below(Rank(s[j]), Rank(s[i]))
  BY <1>2 DEF InOrder, MarginOrder
<1> PICK N : N = ByProduct(S)
  OBVIOUS
<1>4. /\ N \in SetToSeqs(G)
      /\ \A i, j \in DOMAIN N : i < j => Below(Rank(N[j]), Rank(N[i]))
  BY <1>2, <1>3 DEF ByProduct
<1>5. N \in Seq(G) /\ IsInjective(N) /\ ToSet(N) = G
  BY <1>1, <1>4, Enumeration
<1>6. N \in Seq(MarginRow) /\ \A i \in DOMAIN N : N[i] \in MarginRow
  <2>1. N \in Seq(MarginRow)
    BY <1>1, <1>5, SeqMonotonic
  <2> QED
    BY <2>1
<1>7. InOrder(MarginOrder, N)
  BY <1>4, <1>6 DEF InOrder, MarginOrder
<1> QED
  BY <1>4, <1>5, <1>6, <1>7

(* Sold once each, products are listed with what their sale earned. *)
SaleRow(v) == [product |-> v.product, revenue |-> RevenueOf(v)]

LEMMA OneSaleGroups ==
  ASSUME NEW S, S \subseteq Sale, \A v, w \in S : v.product = w.product => v = w
  PROVE  Groups(S) = {SaleRow(v) : v \in S}
<1>1. ASSUME NEW v \in S PROVE GroupOf(S, v.product) = SaleRow(v)
  <2>1. {w \in S : w.product = v.product} = {v}
    OBVIOUS
  <2>2. Total({v}) = RevenueOf(v)
    BY TotalOne
  <2> QED
    BY <2>1, <2>2 DEF GroupOf, SaleRow
<1>2. Groups(S) = {GroupOf(S, p) : p \in Named(S)}
  BY GroupRows
<1>3. \A p \in Named(S) : \E v \in S : p = v.product
  BY DEF Named
<1>4. \A v \in S : v.product \in Named(S)
  BY DEF Named
<1> QED
  BY <1>1, <1>2, <1>3, <1>4

(* Then a cursor divides the report as it divides the sales. *)
LEMMA CursorDivides ==
  ASSUME NEW S, S \subseteq Sale, \A v, w \in S : v.product = w.product => v = w
  PROVE  Groups(MarginAfterCursor(S)) =
           {m \in Groups(S) : report.cursor # NoCursor => Below(Rank(m), report.cursor)}
<1> PICK A : A = MarginAfterCursor(S)
  OBVIOUS
<1>1. \A v : v \in A <=> v \in S /\ (report.cursor # NoCursor =>
                                       Below(<<RevenueOf(v), v.product>>, report.cursor))
  BY DEF MarginAfterCursor
<1>2. \A v : Rank(SaleRow(v)) = <<RevenueOf(v), v.product>>
  BY DEF Rank, SaleRow
<1>3. Groups(S) = {SaleRow(v) : v \in S}
  BY OneSaleGroups
<1>4. Groups(A) = {SaleRow(v) : v \in A}
  <2>1. A \subseteq Sale /\ \A v, w \in A : v.product = w.product => v = w
    BY <1>1
  <2> QED
    BY <2>1, OneSaleGroups
<1> QED
  BY <1>1, <1>2, <1>3, <1>4

-------------------------------------------------------------------------------
(* The reports *)

Sales == InRange(MarginView)

ReportOK ==
  /\ report \in Report
  /\ report.at = "page" => report.kind = "pages"
  /\ report.at \in {"totals", "top"} => report.kind = "dashboard"
  /\ report.at = "export" => report.kind = "export"

(* The pages have, in order, what is not below their cursor. *)
PagesOK ==
  report.kind = "pages" /\ report.writes = 0 /\ SoldOnce =>
    /\ report.at = "page" /\ report.cursor = NoCursor => report.got = <<>>
    /\ report.at = "page" /\ report.cursor # NoCursor =>
         /\ InOrder(MarginOrder, report.got)
         /\ ToSet(report.got) = {m \in Groups(Sales) : ~Below(Rank(m), report.cursor)}
    /\ report.at = "done" /\ report.cursor = NoCursor =>
         InOrder(MarginOrder, report.got) /\ ToSet(report.got) = Groups(Sales)

(* The dashboard's top products are some of those in its totals. *)
DashboardOK ==
  report.kind = "dashboard" /\ report.since = 0 =>
    /\ report.at = "top" => report.total = Total(Sales)
    /\ report.at = "done" =>
         /\ Sum(report.got) <= report.total
         /\ Len(report.got) < report.limit => Sum(report.got) = report.total

ReportInv == ReportOK /\ PagesOK /\ DashboardOK

LEMMA SameSales ==
  ASSUME UNCHANGED row
  PROVE  Sales' = Sales /\ SoldOnce' = SoldOnce
BY DEF Sales, InRange, MarginView, SoldOnce

LEMMA SalesOfRange == Sales \subseteq Sale
BY DEF Sales, InRange, MarginView

LEMMA MarginInit ==
  ASSUME Init
  PROVE  ReportInv
<1>1. <<>> \in Seq(MarginRow) /\ NoCursor \in (Nat \X Product) \cup {NoCursor} /\ 0 \in Nat
  OBVIOUS
<1>2. ASSUME report = [MarginRequest("pages", Min(PageSize)) EXCEPT !.at = "idle"]
      PROVE  ReportInv
  <2>1. report = [kind |-> "pages", limit |-> Min(PageSize), cursor |-> NoCursor, total |-> 0,
                  got |-> <<>>, pages |-> 0, writes |-> 0, since |-> 0, at |-> "idle"]
    BY <1>2 DEF MarginRequest
  <2>2. report \in Report
    BY <1>1, <2>1, LeastLimit DEF Report
  <2> QED
    BY <2>1, <2>2 DEF ReportInv, ReportOK, PagesOK, DashboardOK
<1>3. ASSUME NEW n \in PageSize, NEW at, NEW kind,
             \/ kind = "pages" /\ at = "page"
             \/ kind = "export" /\ at = "export"
             \/ kind = "dashboard" /\ at = "totals",
             report = [kind |-> kind, limit |-> n, cursor |-> NoCursor, total |-> 0,
                       got |-> <<>>, pages |-> 0, writes |-> 0, since |-> 0, at |-> at]
      PROVE  ReportInv
  <2>1. report \in Report
    BY <1>1, <1>3 DEF Report
  <2> QED
    BY <1>3, <2>1 DEF ReportInv, ReportOK, PagesOK, DashboardOK
<1>4. ASSUME NEW kind \in {"pages", "export", "dashboard"}, NEW n \in PageSize,
             report = MarginRequest(kind, n)
      PROVE  ReportInv
  <2>1. CASE kind = "pages"
    BY <1>3, <1>4, <2>1 DEF MarginRequest
  <2>2. CASE kind = "export"
    BY <1>3, <1>4, <2>2 DEF MarginRequest
  <2>3. CASE kind = "dashboard"
    BY <1>3, <1>4, <2>3 DEF MarginRequest
  <2> QED
    BY <2>1, <2>2, <2>3
<1> QED
  BY <1>2, <1>4 DEF Init

(* One page. *)
LEMMA MarginPageStep ==
  ASSUME ReportInv, ListMargin
  PROVE  ReportInv'
<1> PICK w : w = report
  OBVIOUS
<1> PICK v : v = report'
  OBVIOUS
<1>1. w \in Report /\ w.at = "page" /\ w.kind = "pages" /\ UNCHANGED row
      /\ w.limit \in Nat \ {0} /\ w.pages \in Nat
  BY ListConstants DEF ReportInv, ReportOK, ListMargin, listVars, Report
<1> PICK S : S = Sales
  OBVIOUS
<1>2. S \subseteq Sale /\ Sales' = S /\ SoldOnce' = SoldOnce
  BY <1>1, SalesOfRange, SameSales
<1> PICK A : A = MarginAfterCursor(S)
  OBVIOUS
<1>3. A \subseteq Sale
  BY <1>2 DEF MarginAfterCursor
<1> PICK N : N = ByProduct(A)
  OBVIOUS
<1> PICK l \in Nat \ {0} : l = w.limit
  BY <1>1
<1> PICK Q : Q = Fetch(N, 0, l + 1)
  OBVIOUS
<1> PICK p : p = Fetch(Q, 0, l)
  OBVIOUS
<1>4. N \in SetToSeqs(Groups(A)) /\ InOrder(MarginOrder, N) /\ N \in Seq(MarginRow)
  BY <1>3, ByProductSorts
<1>5. IsPage(MarginRow, Q, N, 0, l + 1) /\ Q \in Seq(MarginRow)
  <2>1. 0 \in Nat /\ l + 1 \in Nat
    OBVIOUS
  <2>2. IsPage(MarginRow, Q, N, 0, l + 1)
    BY <1>4, <2>1, FetchIsPage
  <2> QED
    BY <2>2 DEF IsPage
<1>6. IsPage(MarginRow, p, Q, 0, l) /\ p \in Seq(MarginRow)
  <2>1. IsPage(MarginRow, p, Q, 0, l)
    BY <1>5, FetchIsPage
  <2> QED
    BY <2>1 DEF IsPage
<1>7. PageOf(MarginOrder, Groups(A), Q, p, l)
  <2>1. Groups(A) \subseteq MarginRow /\ IsFiniteSet(Groups(A))
    BY <1>3, GroupRows
  <2> QED
    BY <1>4, <1>5, <1>6, <2>1, FirstPage, Zenon
<1> PICK c : c = MarginCursor(Q)
  OBVIOUS
<1>8. v = [w EXCEPT !.got = w.got \o p, !.cursor = c, !.pages = w.pages + 1,
                    !.at = IF c = NoCursor \/ w.pages + 1 = MaxPages THEN "done" ELSE "page"]
  BY DEF ListMargin, Sales
<1>9. /\ v.kind = w.kind /\ v.limit = w.limit /\ v.total = w.total /\ v.writes = w.writes
      /\ v.since = w.since /\ v.got = w.got \o p /\ v.cursor = c /\ v.pages = w.pages + 1
      /\ v.at = IF c = NoCursor \/ w.pages + 1 = MaxPages THEN "done" ELSE "page"
  BY <1>1, <1>8 DEF Report
<1>10. IF Len(Q) > l THEN c = Rank(Q[l]) /\ Q[l] \in MarginRow /\ c \in Nat \X Product
                          /\ c # NoCursor
       ELSE c = NoCursor
  <2>1. CASE Len(Q) > l
    <3>1. c = Rank(Q[l])
      BY <2>1 DEF MarginCursor
    <3>2. Q[l] \in MarginRow
      BY <1>5, <2>1
    <3>3. Rank(Q[l]) \in Nat \X Product
      BY <3>2 DEF Rank, MarginRow
    <3> QED
      BY <2>1, <3>1, <3>2, <3>3, MarginConstants
  <2>2. CASE ~(Len(Q) > l)
    BY <2>2 DEF MarginCursor
  <2> QED
    BY <2>1, <2>2
<1>11. w.got \in Seq(MarginRow) /\ v.got \in Seq(MarginRow)
       /\ ToSet(v.got) = ToSet(w.got) \cup ToSet(p)
  <2>1. w.got \in Seq(MarginRow)
    BY <1>1 DEF Report
  <2>2. w.got \o p \in Seq(MarginRow) /\ ToSet(w.got \o p) = ToSet(w.got) \cup ToSet(p)
    BY <1>6, <2>1, JoinedSet
  <2> QED
    BY <1>9, <2>1, <2>2
<1>12. ReportOK'
  <2>1. v.cursor \in (Nat \X Product) \cup {NoCursor} /\ v.at \in {"page", "done"}
        /\ v.pages \in Nat
    BY <1>1, <1>9, <1>10
  <2>2. v \in Report
    BY <1>1, <1>8, <1>9, <1>11, <2>1 DEF Report
  <2> QED
    BY <1>1, <1>9, <2>1, <2>2 DEF ReportOK
<1>13. DashboardOK'
  BY <1>1, <1>9 DEF DashboardOK
<1>14. ASSUME w.writes = 0, SoldOnce
       PROVE  /\ InOrder(MarginOrder, v.got)
              /\ c = NoCursor => ToSet(v.got) = Groups(S)
              /\ c # NoCursor => ToSet(v.got) = {m \in Groups(S) : ~Below(Rank(m), c)}
  <2>1. Groups(A) = {m \in Groups(S) : w.cursor # NoCursor => Below(Rank(m), w.cursor)}
    BY <1>2, <1>14, CursorDivides DEF SoldOnce, Sales
  <2>2. Groups(S) \subseteq MarginRow
    BY <1>2, GroupRows
  <2>3. /\ w.cursor = NoCursor => w.got = <<>>
        /\ w.cursor # NoCursor =>
             /\ InOrder(MarginOrder, w.got)
             /\ ToSet(w.got) = {m \in Groups(S) : ~Below(Rank(m), w.cursor)}
             /\ w.cursor \in Nat \X Product
    BY <1>1, <1>14 DEF ReportInv, PagesOK, Report
  <2>4. \A m \in MarginRow : Rank(m) \in Nat \X Nat /\ Rank(m) = <<m.revenue, m.product>>
    BY MarginConstants DEF MarginRow, Rank
  <2>5. InOrder(MarginOrder, v.got)
    <3>1. CASE w.cursor = NoCursor
      <4>1. w.got \o p = p
        BY <1>6, <2>3, <3>1, ConcatEmptySeq
      <4> QED
        BY <1>7, <1>9, <4>1 DEF PageOf
    <3>2. CASE w.cursor # NoCursor
      <4>1. ASSUME NEW x \in ToSet(w.got), NEW y \in ToSet(p) PROVE <<x, y>> \in MarginOrder
        <5>1. x \in MarginRow /\ ~Below(Rank(x), w.cursor)
          BY <2>2, <2>3, <3>2, <4>1
        <5>2. y \in MarginRow /\ Below(Rank(y), w.cursor)
          BY <1>7, <2>1, <2>2, <3>2, <4>1 DEF PageOf
        <5>3. w.cursor[1] \in Nat /\ w.cursor[2] \in Nat
          BY <2>3, <3>2, MarginConstants
        <5>4. Below(Rank(y), Rank(x))
          BY <2>4, <5>1, <5>2, <5>3 DEF Below
        <5> QED
          BY <5>1, <5>2, <5>4 DEF MarginOrder
      <4>2. InOrder(MarginOrder, w.got) /\ InOrder(MarginOrder, p)
        BY <1>7, <2>3, <3>2 DEF PageOf
      <4>3. InOrder(MarginOrder, w.got \o p)
        BY <1>6, <1>11, <4>1, <4>2, OrderJoins
      <4> QED
        BY <1>9, <4>3
    <3> QED
      BY <3>1, <3>2
  <2>6. ToSet(v.got) \subseteq Groups(S)
    <3>1. ToSet(p) \subseteq Groups(S)
      BY <1>7, <2>1 DEF PageOf
    <3>2. ToSet(<<>>) = {}
      BY DEF ToSet
    <3>3. ToSet(w.got) \subseteq Groups(S)
      BY <2>3, <3>2
    <3> QED
      BY <1>11, <3>1, <3>3
  <2>7. ASSUME NEW m \in Groups(S), m \notin ToSet(w.got) PROVE m \in Groups(A)
    BY <2>1, <2>3, <2>7
  <2>8. ASSUME c = NoCursor PROVE ToSet(v.got) = Groups(S)
    <3>1. ToSet(p) = Groups(A)
      BY <1>7, <1>10, <2>8 DEF PageOf
    <3> QED
      BY <1>11, <2>6, <2>7, <3>1
  <2>9. ASSUME c # NoCursor
        PROVE  ToSet(v.got) = {m \in Groups(S) : ~Below(Rank(m), c)}
    <3> PICK b : b = Q[l]
      OBVIOUS
    <3>1. /\ b \in MarginRow /\ c = Rank(b) /\ b \in ToSet(p) /\ b \in Groups(A)
          /\ \A x \in ToSet(p) : x = b \/ <<x, b>> \in MarginOrder
          /\ \A x \in Groups(A) : x \in ToSet(p) \/ <<b, x>> \in MarginOrder
      BY <1>7, <1>10, <2>9 DEF PageOf
    <3>2. \A x \in MarginRow : <<b, x>> \in MarginOrder => Below(Rank(x), Rank(b))
      BY DEF MarginOrder
    <3>3. ASSUME NEW m \in Groups(S), ~Below(Rank(m), c) PROVE m \in ToSet(v.got)
      BY <1>11, <2>2, <2>7, <3>1, <3>2, <3>3
    <3>4. ASSUME NEW m \in ToSet(p) PROVE ~Below(Rank(m), Rank(b))
      <4>1. m \in MarginRow /\ (m = b \/ <<m, b>> \in MarginOrder)
        BY <2>2, <2>6, <1>11, <3>1
      <4>2. m = b \/ Below(Rank(b), Rank(m))
        BY <4>1 DEF MarginOrder
      <4> QED
        BY <2>4, <3>1, <4>1, <4>2 DEF Below
    <3>5. ASSUME NEW m \in ToSet(w.got) PROVE ~Below(Rank(m), Rank(b))
      <4>1. w.cursor # NoCursor
        BY <2>3, <3>5 DEF ToSet
      <4>2. m \in MarginRow /\ ~Below(Rank(m), w.cursor) /\ Below(Rank(b), w.cursor)
        BY <2>1, <2>2, <2>3, <3>1, <3>5, <4>1
      <4>3. w.cursor[1] \in Nat /\ w.cursor[2] \in Nat
        BY <2>3, <4>1, MarginConstants
      <4> QED
        BY <2>4, <3>1, <4>2, <4>3 DEF Below
    <3> QED
      BY <1>11, <2>6, <3>1, <3>3, <3>4, <3>5
  <2> QED
    BY <2>5, <2>8, <2>9
<1>15. PagesOK'
  <2>1. ASSUME v.writes = 0, SoldOnce'
        PROVE  /\ InOrder(MarginOrder, v.got)
               /\ c = NoCursor => ToSet(v.got) = Groups(Sales')
               /\ c # NoCursor => ToSet(v.got) = {m \in Groups(Sales') : ~Below(Rank(m), c)}
    BY <1>2, <1>9, <1>14, <2>1
  <2>2. v.at = "page" => c # NoCursor
    BY <1>9
  <2>3. Groups(Sales)' = Groups(Sales')
    BY DEF Groups, Total
  <2> QED
    BY <1>9, <2>1, <2>2, <2>3 DEF PagesOK
<1> QED
  BY <1>12, <1>13, <1>15 DEF ReportInv

(* The export. *)
LEMMA MarginExportStep ==
  ASSUME ReportInv, StreamMargin
  PROVE  ReportInv'
<1>1. /\ report \in Report /\ report.at = "export" /\ report.kind = "export"
      /\ report' = [report EXCEPT !.got = ByProduct(Sales), !.at = "done"]
  BY DEF ReportInv, ReportOK, StreamMargin, Sales
<1>2. ByProduct(Sales) \in Seq(MarginRow)
  BY SalesOfRange, ByProductSorts
<1>3. report' \in Report /\ report'.kind = "export" /\ report'.at = "done"
  BY <1>1, <1>2 DEF Report
<1> QED
  BY <1>3 DEF ReportInv, ReportOK, PagesOK, DashboardOK

(* The totals of a dashboard, *)
LEMMA TotalsStep ==
  ASSUME ReportInv, DashboardTotals
  PROVE  ReportInv'
<1>1. /\ report \in Report /\ report.at = "totals" /\ report.kind = "dashboard"
      /\ report' = [report EXCEPT !.total = Total(Sales), !.at = "top", !.since = 0]
      /\ UNCHANGED row
  BY DEF ReportInv, ReportOK, DashboardTotals, Sales, listVars
<1>2. Total(Sales) \in Nat
  BY SalesOfRange, TotalEarned
<1>3. report' \in Report /\ report'.kind = "dashboard" /\ report'.at = "top"
      /\ report'.total = Total(Sales)
  BY <1>1, <1>2 DEF Report
<1>4. Total(Sales)' = Total(Sales)
  BY <1>1, SameSales DEF Total
<1> QED
  BY <1>3, <1>4 DEF ReportInv, ReportOK, PagesOK, DashboardOK

(* and its top products: some of the rows of the report earn some of its   *)
(* total.                                                                  *)
LEMMA TopRows ==
  ASSUME NEW S, S \subseteq Sale, NEW l \in Nat \ {0}
  PROVE  LET p == Fetch(ByProduct(S), 0, l) IN
         /\ p \in Seq(MarginRow)
         /\ Sum(p) <= Total(S)
         /\ Len(p) < l => Sum(p) = Total(S)
<1> PICK N : N = ByProduct(S)
  OBVIOUS
<1> PICK n \in Nat : n = Len(N)
  BY ByProductSorts
<1> PICK p : p = Fetch(N, 0, l)
  OBVIOUS
<1>1. /\ N \in Seq(MarginRow) /\ InOrder(MarginOrder, N) /\ IsInjective(N)
      /\ ToSet(N) = Groups(S)
  BY ByProductSorts
<1>2. /\ Groups(S) \subseteq MarginRow /\ IsFiniteSet(Groups(S))
      /\ \A m \in Groups(S) : Revenues[m] \in Nat
  BY GroupRows DEF Revenues, MarginRow
<1>3. IsPage(MarginRow, p, N, 0, l)
  BY <1>1, FetchIsPage
<1> PICK q \in Nat : q = IF l <= n THEN l ELSE n
  OBVIOUS
<1>4. p \in Seq(MarginRow) /\ Len(p) = q /\ \A i \in 1..q : p[i] = N[i]
  <2>1. Taken(n, 0, l) = q
    BY DEF Taken
  <2> QED
    BY <1>3, <2>1 DEF IsPage
<1>5. \A i \in 1..q : i \in 1..n
  OBVIOUS
<1>6. DOMAIN N = 1..n /\ DOMAIN p = 1..q
  BY <1>1, <1>4, LenProperties
<1>7. IsInjective(p)
  BY <1>1, <1>4, <1>5, <1>6 DEF IsInjective
<1>8. ToSet(p) \subseteq Groups(S)
  BY <1>1, <1>4, <1>5, <1>6 DEF ToSet
<1>9. Sum(p) = SumFunctionOnSet(Revenues, ToSet(p))
  BY <1>4, <1>7, ListAddsUp
<1>10. /\ SumFunctionOnSet(Revenues, ToSet(p)) <= SumFunctionOnSet(Revenues, Groups(S))
       /\ SumFunctionOnSet(Revenues, Groups(S)) = Total(S)
  BY <1>2, <1>8, SumMonotone, GroupsAddUp
<1>11. ASSUME Len(p) < l PROVE Sum(p) = Total(S)
  <2>1. q = n
    BY <1>4, <1>11
  <2>2. p = N
    BY <1>1, <1>4, <2>1, SeqEqual
  <2> QED
    BY <1>1, <1>9, <1>10, <2>2
<1> QED
  BY <1>4, <1>9, <1>10, <1>11

LEMMA TopStep ==
  ASSUME ReportInv, DashboardTop
  PROVE  ReportInv'
<1> PICK w : w = report
  OBVIOUS
<1> PICK v : v = report'
  OBVIOUS
<1> PICK p : p = Fetch(ByProduct(Sales), 0, w.limit)
  OBVIOUS
<1>1. /\ w \in Report /\ w.at = "top" /\ w.kind = "dashboard" /\ w.limit \in Nat \ {0}
      /\ v = [w EXCEPT !.got = p, !.at = "done"]
  BY ListConstants DEF ReportInv, ReportOK, DashboardTop, Sales, Report
<1>2. /\ p \in Seq(MarginRow) /\ Sum(p) <= Total(Sales)
      /\ Len(p) < w.limit => Sum(p) = Total(Sales)
  BY <1>1, SalesOfRange, TopRows
<1>3. /\ v \in Report /\ v.kind = w.kind /\ v.limit = w.limit /\ v.total = w.total
      /\ v.since = w.since /\ v.got = p /\ v.at = "done"
  BY <1>1, <1>2 DEF Report
<1>4. w.since = 0 => w.total = Total(Sales)
  BY <1>1 DEF ReportInv, DashboardOK
<1>5. DashboardOK'
  <2>1. Sum(report.got)' = Sum(p)
    BY <1>3
  <2>2. v.since = 0 => Sum(p) <= v.total /\ (Len(p) < v.limit => Sum(p) = v.total)
    BY <1>2, <1>3, <1>4
  <2> QED
    BY <1>3, <2>1, <2>2 DEF DashboardOK
<1> QED
  BY <1>1, <1>3, <1>5 DEF ReportInv, ReportOK, PagesOK

(* A sale that comes or goes is counted. *)
LEMMA SaleCounts ==
  ASSUME ReportInv, SaleChange
  PROVE  ReportInv'
<1>1. /\ report \in Report
      /\ report' = [report EXCEPT !.writes = @ + 1, !.since = @ + 1]
  BY DEF ReportInv, ReportOK, SaleChange
<1>2. report.writes \in Nat /\ report.since \in Nat
  BY <1>1 DEF Report
<1> PICK a \in Nat, b \in Nat : a = report.writes + 1 /\ b = report.since + 1
  BY <1>2
<1>3. a # 0 /\ b # 0
  BY <1>2
<1>4. /\ report' \in Report /\ report'.kind = report.kind /\ report'.at = report.at
      /\ report'.writes = a /\ report'.since = b
  BY <1>1 DEF Report
<1> QED
  BY <1>3, <1>4 DEF ReportInv, ReportOK, PagesOK, DashboardOK

(* Nothing the report reads has changed. *)
LEMMA ReportKept ==
  ASSUME ReportInv, UNCHANGED <<row, report>>
  PROVE  ReportInv'
<1>1. Sales' = Sales /\ SoldOnce' = SoldOnce
  BY SameSales
<1>2. Groups(Sales)' = Groups(Sales) /\ Total(Sales)' = Total(Sales)
  BY <1>1 DEF Groups, Total
<1>3. Sum(report.got)' = Sum(report.got)
  OBVIOUS
<1>4. ReportOK'
  BY DEF ReportInv, ReportOK
<1>5. PagesOK'
  BY <1>1, <1>2 DEF ReportInv, PagesOK
<1>6. DashboardOK'
  BY <1>2, <1>3 DEF ReportInv, DashboardOK
<1> QED
  BY <1>4, <1>5, <1>6 DEF ReportInv

(* Rows of a list change while nobody asks for a report. *)
LEMMA IdleReport ==
  ASSUME ReportInv, report.at = "idle", UNCHANGED report
  PROVE  ReportInv'
BY DEF ReportInv, ReportOK, PagesOK, DashboardOK

LEMMA ReportInvNext ==
  ASSUME ListInv, ReportInv, [Next]_marginVars
  PROVE  ReportInv'
<1>1. CASE UNCHANGED marginVars
  BY <1>1, ReportKept DEF marginVars
<1>2. CASE Read /\ UNCHANGED report
  <2>1. UNCHANGED row
    BY <1>2 DEF Read, ListSalesOrders, ListMovements, StreamMovements, ListPurchaseOrders,
       ListProducts, ListBatches, ListRecallReport, StreamRecallReport,
       KeysetPage, CountedPage, Count, OffsetPage, Export
  <2> QED
    BY <1>2, <2>1, ReportKept
<1>3. CASE Change /\ UNCHANGED report
  <2>1. report.at = "idle"
    BY <1>3 DEF Change, ListInv, ClientOK
  <2> QED
    BY <1>3, <2>1, IdleReport
<1>4. CASE ListMargin
  BY <1>4, MarginPageStep
<1>5. CASE StreamMargin
  BY <1>5, MarginExportStep
<1>6. CASE DashboardTotals
  BY <1>6, TotalsStep
<1>7. CASE DashboardTop
  BY <1>7, TopStep
<1>8. CASE SaleChange
  BY <1>8, SaleCounts
<1> QED
  BY <1>1, <1>2, <1>3, <1>4, <1>5, <1>6, <1>7, <1>8 DEF Next, Answered

LEMMA ReportInvHolds == Spec => []ReportInv
<1>1. Init => ReportInv
  BY MarginInit
<1>2. ListInv /\ ReportInv /\ [Next]_marginVars => ReportInv'
  BY ReportInvNext
<1> QED
  BY <1>1, <1>2, ListInvHolds, PTL DEF Spec

-------------------------------------------------------------------------------
(* What reports promise *)

(* The tables, the walk and the report keep their types (the rows of       *)
(* sales_orders, the cursors of build_next_cursor and                      *)
(* encode_decimal_cursor, the rows of the margin report).                  *)
THEOREM ListsTyped == Spec => []TypeOK
<1>1. ListInv /\ ReportInv => TypeOK
  BY DEF ListInv, ReportInv, ReportOK, TypeOK
<1> QED
  BY <1>1, ListInvHolds, ReportInvHolds, PTL

(* As long as no sale comes or goes, the pages of the margin report are    *)
(* its export, for products sold in one order each, and the dashboard's    *)
(* top products earn no more than its totals, exactly as much when all are *)
(* there (list_margin_by_product, stream_margin_by_product,                *)
(* dashboard_for_owner).                                                   *)
THEOREM ReportsTellOneStory == Spec => []ReportsAgree
<1>1. ASSUME ReportInv PROVE ReportsAgree
  <2>1. ASSUME Paged, report.writes = 0, SoldOnce PROVE report.got = ByProduct(Sales)
    <3>1. InOrder(MarginOrder, report.got) /\ ToSet(report.got) = Groups(Sales)
      BY <1>1, <2>1 DEF ReportInv, PagesOK, Paged
    <3>2. report.got \in Seq(MarginRow)
      BY <1>1 DEF ReportInv, ReportOK, Report
    <3>3. StrictOrder(MarginOrder, MarginRow) /\ Sales \subseteq Sale
      BY MarginOrdered, SalesOfRange DEF TotalOrder
    <3>4. report.got \in SetToSeqs(Groups(Sales)) /\ IsFiniteSet(Groups(Sales))
      BY <3>1, <3>2, <3>3, OrderEnumerates
    <3>5. ByProduct(Sales) \in SetToSeqs(Groups(Sales)) /\ InOrder(MarginOrder, ByProduct(Sales))
          /\ Groups(Sales) \subseteq MarginRow
      BY <3>3, ByProductSorts, GroupRows
    <3>6. StrictOrder(MarginOrder, Groups(Sales))
      BY <3>3, <3>5, SubsetOrders
    <3> QED
      BY <3>1, <3>4, <3>5, <3>6, OrderOnce
  <2>2. ASSUME report.kind = "dashboard", report.at = "done", report.since = 0
        PROVE  /\ Sum(report.got) <= report.total
               /\ Len(report.got) < report.limit => Sum(report.got) = report.total
    BY <1>1, <2>2 DEF ReportInv, DashboardOK
  <2> QED
    BY <2>1, <2>2 DEF ReportsAgree, Sales, Sum
<1> QED
  BY <1>1, ReportInvHolds, PTL

===============================================================================
