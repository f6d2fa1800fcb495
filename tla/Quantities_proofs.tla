--------------------------- MODULE Quantities_proofs ---------------------------
(***************************************************************************)
(* What adding up comes to: the sum over a finite set grows by an          *)
(* element's value when the element is added, in whatever order CHOOSE     *)
(* takes them; so does the total of the quantities of rows.  Induction is  *)
(* in set form: the sets for which a fact holds contain the empty set and  *)
(* are closed under adding an element.                                     *)
(***************************************************************************)
EXTENDS Integers, Sequences, Quantities, FiniteSetTheorems, TLAPS

(* A non-empty set of subsets of a finite set has a smallest member. *)
LEMMA MinimalSubset ==
  ASSUME NEW S, IsFiniteSet(S), NEW C, C \subseteq SUBSET S, C # {}
  PROVE  \E T \in C : \A U \in C : U \subseteq T => U = T
<1>1. IsWellFoundedOn(StrictSubsetOrdering(S), FiniteSubsetsOf(S))
  BY FS_StrictSubsetOrderingWellFounded
<1>2. C \subseteq FiniteSubsetsOf(S)
  BY FS_Subset DEF FiniteSubsetsOf
<1>3. PICK T \in C : \A U \in C : ~ (<<U, T>> \in StrictSubsetOrdering(S))
  BY <1>1, <1>2, WFMin
<1> QED
  BY <1>3 DEF StrictSubsetOrdering

(* A set of subsets that has the empty set and whatever is one element     *)
(* more than a member has them all.                                        *)
LEMMA SubsetInduction ==
  ASSUME NEW S, IsFiniteSet(S), NEW C, {} \in C,
         \A T \in SUBSET S, x \in S : T \in C /\ x \notin T => T \cup {x} \in C
  PROVE  \A T \in SUBSET S : T \in C
<1> DEFINE D == {T \in SUBSET S : T \notin C}
<1>1. SUFFICES ASSUME D # {} PROVE FALSE
  OBVIOUS
<1>2. PICK T \in D : \A U \in D : U \subseteq T => U = T
  <2> HIDE DEF D
  <2>1. D \subseteq SUBSET S
    BY DEF D
  <2> QED
    BY <1>1, <2>1, MinimalSubset
<1>3. PICK x : x \in T
  BY <1>2
<1>4. T \ {x} \in C
  BY <1>2, <1>3
<1>5. (T \ {x}) \cup {x} \in C
  BY <1>2, <1>3, <1>4
<1> QED
  BY <1>2, <1>3, <1>5

(* How SumFunctionOnSet adds up the values of f on the subsets of S. *)
IsSum(f, g, S) ==
  g = [s \in SUBSET S |->
         IF s = {} THEN 0
         ELSE LET x == CHOOSE x \in s : TRUE IN f[x] + g[s \ {x}]]

(* What is meant. *)
AddsUp(f, g, S) ==
  /\ g \in [SUBSET S -> Int] /\ g[{}] = 0
  /\ \A s \in SUBSET S, y \in S : y \notin s => g[s \cup {y}] = g[s] + f[y]

Numeric(f, S) == \A x \in S : f[x] \in Int

LEMMA SumStep ==
  ASSUME NEW f, NEW T, NEW y, y \notin T, Numeric(f, T \cup {y}), NEW g, IsSum(f, g, T), AddsUp(f, g, T)
  PROVE  \E h : IsSum(f, h, T \cup {y}) /\ AddsUp(f, h, T \cup {y})
<1> DEFINE U == T \cup {y}
           h == [s \in SUBSET U |-> IF y \in s THEN g[s \ {y}] + f[y] ELSE g[s]]
<1>1. ASSUME NEW s \in SUBSET U
      PROVE  h[s] = IF s = {} THEN 0
                    ELSE LET x == CHOOSE x \in s : TRUE IN f[x] + h[s \ {x}]
  <2>1. CASE s = {}
    BY <2>1 DEF AddsUp
  <2>2. CASE s # {}
    <3>1. PICK x : x = CHOOSE z \in s : TRUE
      OBVIOUS
    <3>2. x \in s /\ x \in U
      BY <2>2, <3>1
    <3>3. f[x] \in Int /\ f[y] \in Int
      BY <3>2 DEF Numeric
    <3>4. h[s] = f[x] + h[s \ {x}]
      <4>1. CASE y \notin s
        <5>1. s \in SUBSET T /\ s \ {x} \in SUBSET T /\ y \notin s \ {x}
          BY <4>1
        <5>2. g[s] = f[x] + g[s \ {x}]
          BY <2>2, <3>1, <5>1 DEF IsSum
        <5> QED
          BY <4>1, <5>1, <5>2
      <4>2. CASE y \in s /\ x = y
        <5>1. s \ {x} \in SUBSET T /\ s \ {x} \in SUBSET U /\ y \notin s \ {x}
          BY <4>2
        <5>2. h[s] = g[s \ {x}] + f[y] /\ h[s \ {x}] = g[s \ {x}]
          BY <4>2, <5>1
        <5>3. g[s \ {x}] \in Int
          BY <5>1 DEF AddsUp
        <5> QED
          BY <3>3, <4>2, <5>2, <5>3
      <4>3. CASE y \in s /\ x # y
        <5>1. PICK r : r = (s \ {x}) \ {y}
          OBVIOUS
        <5>2. /\ r \in SUBSET T /\ x \in T /\ x \notin r /\ r \cup {x} = s \ {y}
              /\ s \ {x} \in SUBSET U /\ y \in s \ {x}
          BY <3>2, <4>3, <5>1
        <5>3. g[r \cup {x}] = g[r] + f[x] /\ g[r] \in Int
          BY <5>2 DEF AddsUp
        <5>4. h[s] = g[r \cup {x}] + f[y] /\ h[s \ {x}] = g[r] + f[y]
          BY <4>3, <5>1, <5>2
        <5> HIDE DEF h
        <5> QED
          BY <3>3, <5>3, <5>4
      <4> QED
        BY <4>1, <4>2, <4>3
    <3> HIDE DEF h
    <3> QED
      BY <2>2, <3>1, <3>4
  <2> HIDE DEF h
  <2> QED
    BY <2>1, <2>2
<1>2. IsSum(f, h, U)
  <2>1. PICK k : k = h
    OBVIOUS
  <2>2. k = [s \in SUBSET U |-> k[s]]
    BY <2>1
  <2> HIDE DEF h
  <2>3. \A s \in SUBSET U : k[s] = IF s = {} THEN 0
                    ELSE LET x == CHOOSE x \in s : TRUE IN f[x] + k[s \ {x}]
    BY <1>1, <2>1
  <2>4. IsSum(f, k, U)
    BY <2>2, <2>3 DEF IsSum
  <2> QED
    BY <2>1, <2>4
<1>3. AddsUp(f, h, U)
  <2>1. \A s \in SUBSET U : s \ {y} \in SUBSET T /\ (y \notin s => s \in SUBSET T)
    OBVIOUS
  <2>2. \A s \in SUBSET T : g[s] \in Int
    BY DEF AddsUp
  <2>3. h \in [SUBSET U -> Int] /\ h[{}] = 0
    BY <2>1, <2>2 DEF AddsUp, Numeric
  <2>4. ASSUME NEW s \in SUBSET U, NEW z \in U, z \notin s
        PROVE  h[s \cup {z}] = h[s] + f[z]
    <3>1. f[z] \in Int /\ f[y] \in Int
      BY DEF Numeric
    <3>2. CASE z = y
      <4>1. (s \cup {z}) \ {y} = s /\ s \cup {z} \in SUBSET U /\ y \in s \cup {z}
        BY <2>4, <3>2
      <4> QED
        BY <2>4, <3>2, <4>1
    <3>3. CASE z # y /\ y \notin s
      <4>1. s \in SUBSET T /\ z \in T /\ s \cup {z} \in SUBSET U /\ y \notin s \cup {z}
        BY <3>3
      <4>2. g[s \cup {z}] = g[s] + f[z]
        BY <2>4, <4>1 DEF AddsUp
      <4> QED
        BY <3>3, <4>1, <4>2
    <3>4. CASE z # y /\ y \in s
      <4>1. PICK r : r = s \ {y}
        OBVIOUS
      <4>2. /\ r \in SUBSET T /\ z \in T /\ z \notin r /\ s \cup {z} \in SUBSET U
            /\ (s \cup {z}) \ {y} = r \cup {z} /\ y \in s \cup {z}
        BY <2>4, <3>4, <4>1
      <4>3. g[r \cup {z}] = g[r] + f[z] /\ g[r] \in Int
        BY <4>2 DEF AddsUp
      <4>4. h[s \cup {z}] = g[r \cup {z}] + f[y] /\ h[s] = g[r] + f[y]
        BY <3>4, <4>1, <4>2
      <4> HIDE DEF h
      <4> QED
        BY <3>1, <4>3, <4>4
    <3> QED
      BY <3>2, <3>3, <3>4
  <2> HIDE DEF h
  <2> QED
    BY <2>3, <2>4 DEF AddsUp
<1> QED
  BY <1>2, <1>3

LEMMA SumExists ==
  ASSUME NEW f, NEW S, IsFiniteSet(S), Numeric(f, S)
  PROVE  \E g : IsSum(f, g, S) /\ AddsUp(f, g, S)
<1> DEFINE C == {T \in SUBSET S : \E g : IsSum(f, g, T) /\ AddsUp(f, g, T)}
<1>1. {} \in C
  <2> DEFINE z == [s \in SUBSET {} |-> 0]
  <2>1. \A s \in SUBSET {} : s = {}
    OBVIOUS
  <2>2. IsSum(f, z, {})
    <3>1. z = [s \in SUBSET {} |->
                 IF s = {} THEN 0 ELSE LET x == CHOOSE x \in s : TRUE IN f[x] + z[s \ {x}]]
      BY <2>1
    <3> HIDE DEF z
    <3> QED
      BY <3>1 DEF IsSum
  <2>3. AddsUp(f, z, {})
    BY DEF AddsUp
  <2> QED
    BY <2>2, <2>3
<1>2. ASSUME NEW T \in SUBSET S, NEW x \in S, T \in C, x \notin T
      PROVE  T \cup {x} \in C
  <2>1. PICK g : IsSum(f, g, T) /\ AddsUp(f, g, T)
    BY <1>2
  <2>2. Numeric(f, T \cup {x})
    BY DEF Numeric
  <2>3. \E h : IsSum(f, h, T \cup {x}) /\ AddsUp(f, h, T \cup {x})
    BY <1>2, <2>1, <2>2, SumStep
  <2> QED
    BY <2>3
<1>3. S \in C
  <2> HIDE DEF C
  <2> QED
    BY <1>1, <1>2, SubsetInduction
<1> QED
  BY <1>3

LEMMA SumUnique ==
  ASSUME NEW f, NEW S, IsFiniteSet(S), NEW g, NEW h, IsSum(f, g, S), IsSum(f, h, S)
  PROVE  g = h
<1> DEFINE D == {s \in SUBSET S : g[s] # h[s]}
<1>1. D = {}
  <2>1. SUFFICES ASSUME D # {} PROVE FALSE
    OBVIOUS
  <2>2. PICK s \in D : \A u \in D : u \subseteq s => u = s
    <3>1. D \subseteq SUBSET S
      OBVIOUS
    <3> HIDE DEF D
    <3> QED
      BY <2>1, <3>1, MinimalSubset
  <2>3. s # {} /\ s \in SUBSET S
    BY DEF IsSum
  <2>4. PICK x : x = CHOOSE z \in s : TRUE
    OBVIOUS
  <2>5. x \in s /\ s \ {x} \in SUBSET S
    BY <2>3, <2>4
  <2>6. g[s] = f[x] + g[s \ {x}] /\ h[s] = f[x] + h[s \ {x}]
    BY <2>3, <2>4 DEF IsSum
  <2>7. g[s \ {x}] = h[s \ {x}]
    BY <2>2, <2>5
  <2> QED
    BY <2>2, <2>6, <2>7
<1>2. DOMAIN g = SUBSET S /\ DOMAIN h = SUBSET S /\ g = [s \in SUBSET S |-> g[s]]
      /\ h = [s \in SUBSET S |-> h[s]]
  BY DEF IsSum
<1> QED
  BY <1>1, <1>2

(* SumFunctionOnSet is the value of such a sum. *)
LEMMA SumIsValue ==
  ASSUME NEW f, NEW S, IsFiniteSet(S), NEW g, IsSum(f, g, S)
  PROVE  SumFunctionOnSet(f, S) = g[S]
<1>1. \E h : IsSum(f, h, S) /\ SumFunctionOnSet(f, S) = h[S]
  BY DEF SumFunctionOnSet, FoldFunctionOnSet, MapThenFoldSet, IsSum
<1> QED
  BY <1>1, SumUnique

LEMMA SubsetSum ==
  ASSUME NEW f, NEW S, IsFiniteSet(S), NEW g, IsSum(f, g, S), NEW T \in SUBSET S
  PROVE  SumFunctionOnSet(f, T) = g[T]
<1>1. PICK h : h = [s \in SUBSET T |-> g[s]]
  OBVIOUS
<1>2. \A s \in SUBSET T : h[s] = IF s = {} THEN 0
                         ELSE LET x == CHOOSE x \in s : TRUE IN f[x] + h[s \ {x}]
  <2>1. SUFFICES ASSUME NEW s \in SUBSET T
                 PROVE  h[s] = IF s = {} THEN 0
                         ELSE LET x == CHOOSE x \in s : TRUE IN f[x] + h[s \ {x}]
    OBVIOUS
  <2>2. h[s] = g[s] /\ \A x : h[s \ {x}] = g[s \ {x}]
    BY <1>1
  <2>3. g[s] = IF s = {} THEN 0
               ELSE LET x == CHOOSE x \in s : TRUE IN f[x] + g[s \ {x}]
    BY DEF IsSum
  <2> QED
    BY <2>2, <2>3
<1>3. IsSum(f, h, T)
  BY <1>1, <1>2 DEF IsSum
<1> QED
  BY <1>1, <1>3, FS_Subset, SumIsValue

-------------------------------------------------------------------------------
(* Adding up *)

(* The values of a sequence are finitely many. *)
LEMMA FiniteRange ==
  ASSUME NEW X, NEW s \in Seq(X)
  PROVE  IsFiniteSet({s[i] : i \in DOMAIN s})
<1> DEFINE R == {s[i] : i \in 1..Len(s)}
<1>1. Len(s) \in Nat /\ DOMAIN s = 1..Len(s)
  OBVIOUS
<1>2. IsFiniteSet(1..Len(s))
  BY <1>1, FS_Interval
<1>3. s \in Surjection(1..Len(s), R)
  BY DEF Surjection
<1> HIDE DEF R
<1>4. IsFiniteSet(R)
  BY <1>2, <1>3, FS_Surjection
<1> QED
  BY <1>1, <1>4 DEF R

LEMMA SumType ==
  ASSUME NEW f, NEW S, IsFiniteSet(S), Numeric(f, S)
  PROVE  SumFunctionOnSet(f, S) \in Int
<1>1. PICK g : IsSum(f, g, S) /\ AddsUp(f, g, S)
  BY SumExists
<1> QED
  BY <1>1, SumIsValue DEF AddsUp

LEMMA SumEmpty ==
  ASSUME NEW f
  PROVE  SumFunctionOnSet(f, {}) = 0
<1>1. PICK g : IsSum(f, g, {}) /\ AddsUp(f, g, {})
  BY SumExists, FS_EmptySet DEF Numeric
<1> QED
  BY <1>1, SumIsValue, FS_EmptySet DEF AddsUp

(* An element more adds its value. *)
LEMMA SumAdd ==
  ASSUME NEW f, NEW S, IsFiniteSet(S), NEW x, x \notin S, Numeric(f, S \cup {x})
  PROVE  SumFunctionOnSet(f, S \cup {x}) = SumFunctionOnSet(f, S) + f[x]
<1>1. IsFiniteSet(S \cup {x})
  BY FS_AddElement
<1>2. PICK g : IsSum(f, g, S \cup {x}) /\ AddsUp(f, g, S \cup {x})
  BY <1>1, SumExists
<1>3. SumFunctionOnSet(f, S \cup {x}) = g[S \cup {x}] /\ SumFunctionOnSet(f, S) = g[S]
  BY <1>1, <1>2, SubsetSum
<1> QED
  BY <1>2, <1>3 DEF AddsUp

(* The sum over two sets that have no element in common. *)
LEMMA SumUnion ==
  ASSUME NEW f, NEW S, NEW T, IsFiniteSet(S), IsFiniteSet(T), S \cap T = {}, Numeric(f, S \cup T)
  PROVE  SumFunctionOnSet(f, S \cup T) = SumFunctionOnSet(f, S) + SumFunctionOnSet(f, T)
<1> DEFINE C == {U \in SUBSET T : SumFunctionOnSet(f, S \cup U) = SumFunctionOnSet(f, S) + SumFunctionOnSet(f, U)}
<1>1. SumFunctionOnSet(f, S) \in Int
  BY SumType DEF Numeric
<1>2. {} \in C
  <2>1. S \cup {} = S
    OBVIOUS
  <2> QED
    BY <1>1, <2>1, SumEmpty
<1>3. ASSUME NEW U \in SUBSET T, NEW x \in T, U \in C, x \notin U
      PROVE  U \cup {x} \in C
  <2>1. IsFiniteSet(U) /\ IsFiniteSet(S \cup U)
    BY FS_Subset, FS_Union
  <2>2. Numeric(f, U \cup {x}) /\ Numeric(f, (S \cup U) \cup {x}) /\ f[x] \in Int /\ Numeric(f, U)
    BY DEF Numeric
  <2>3. SumFunctionOnSet(f, U \cup {x}) = SumFunctionOnSet(f, U) + f[x] /\ SumFunctionOnSet(f, U) \in Int
    BY <1>3, <2>1, <2>2, SumAdd, SumType
  <2>4. SumFunctionOnSet(f, (S \cup U) \cup {x}) = SumFunctionOnSet(f, S \cup U) + f[x]
    BY <1>3, <2>1, <2>2, SumAdd
  <2>5. (S \cup U) \cup {x} = S \cup (U \cup {x})
    OBVIOUS
  <2>6. SumFunctionOnSet(f, S \cup U) = SumFunctionOnSet(f, S) + SumFunctionOnSet(f, U)
    BY <1>3
  <2>7. SumFunctionOnSet(f, S \cup (U \cup {x})) = SumFunctionOnSet(f, S) + SumFunctionOnSet(f, U \cup {x})
    <3> PICK V, W : V = U \cup {x} /\ W = S \cup V
      OBVIOUS
    <3>1. W = (S \cup U) \cup {x}
      BY <2>5
    <3>2. SumFunctionOnSet(f, W) = SumFunctionOnSet(f, S \cup U) + f[x] /\ SumFunctionOnSet(f, V) = SumFunctionOnSet(f, U) + f[x]
      BY <2>3, <2>4, <3>1
    <3> QED
      BY <1>1, <2>2, <2>3, <2>6, <3>2
  <2>8. U \cup {x} \in SUBSET T
    BY <1>3
  <2> QED
    BY <2>7, <2>8
<1>4. T \in C
  <2> HIDE DEF C
  <2> QED
    BY <1>2, <1>3, SubsetInduction
<1> QED
  BY <1>4

(* No value is negative: nor is the sum, and a part adds up to no more.    *)
LEMMA SumMonotone ==
  ASSUME NEW f, NEW S, IsFiniteSet(S), \A x \in S : f[x] \in Nat, NEW T \in SUBSET S
  PROVE  /\ SumFunctionOnSet(f, S) \in Nat /\ SumFunctionOnSet(f, T) \in Nat
         /\ SumFunctionOnSet(f, T) <= SumFunctionOnSet(f, S)
<1> DEFINE C == {U \in SUBSET S : SumFunctionOnSet(f, U) \in Nat}
<1>1. {} \in C
  BY SumEmpty
<1>2. ASSUME NEW U \in SUBSET S, NEW x \in S, U \in C, x \notin U
      PROVE  U \cup {x} \in C
  <2>1. IsFiniteSet(U) /\ Numeric(f, U \cup {x})
    BY FS_Subset DEF Numeric
  <2>2. SumFunctionOnSet(f, U \cup {x}) = SumFunctionOnSet(f, U) + f[x]
    BY <1>2, <2>1, SumAdd
  <2> QED
    BY <1>2, <2>2
<1>3. \A U \in SUBSET S : SumFunctionOnSet(f, U) \in Nat
  <2>1. \A U \in SUBSET S : U \in C
    <3> HIDE DEF C
    <3> QED
      BY <1>1, <1>2, SubsetInduction
  <2> QED
    BY <2>1
<1> PICK R \in SUBSET S : R = S \ T
  OBVIOUS
<1>4. SumFunctionOnSet(f, T \cup R) = SumFunctionOnSet(f, T) + SumFunctionOnSet(f, R)
  <2>1. IsFiniteSet(T) /\ IsFiniteSet(R) /\ T \cap R = {} /\ Numeric(f, T \cup R)
    BY FS_Subset DEF Numeric
  <2> QED
    BY <2>1, SumUnion
<1>5. T \cup R = S
  OBVIOUS
<1>6. SumFunctionOnSet(f, S) = SumFunctionOnSet(f, T) + SumFunctionOnSet(f, R)
  BY <1>4, <1>5
<1>7. S \in SUBSET S
  OBVIOUS
<1> PICK a \in Nat, b \in Nat, c \in Nat :
      a = SumFunctionOnSet(f, T) /\ b = SumFunctionOnSet(f, R) /\ c = SumFunctionOnSet(f, S)
  BY <1>3, <1>7
<1>8. c = a + b
  BY <1>6
<1> QED
  BY <1>8

(* Adding up along an enumeration is adding up what is enumerated. *)
Values(s, I) == {s[i] : i \in I}

LEMMA SumReindexed ==
  ASSUME NEW I, IsFiniteSet(I), NEW s, NEW f, NEW h,
         \A i, j \in I : i # j => s[i] # s[j],
         \A i \in I : f[i] = h[s[i]] /\ f[i] \in Int
  PROVE  SumFunctionOnSet(f, I) = SumFunctionOnSet(h, Values(s, I))
<1> DEFINE C == {J \in SUBSET I : /\ IsFiniteSet({s[i] : i \in J})
                                 /\ SumFunctionOnSet(f, J) = SumFunctionOnSet(h, {s[i] : i \in J})}
<1>0. \A Q, y : IsFiniteSet(Q) /\ y \notin Q /\ Numeric(h, Q \cup {y}) =>
                 SumFunctionOnSet(h, Q \cup {y}) = SumFunctionOnSet(h, Q) + h[y]
  BY SumAdd
<1>1. {} \in C
  <2>1. {s[i] : i \in {}} = {}
    OBVIOUS
  <2> QED
    BY <2>1, SumEmpty, FS_EmptySet
<1>2. ASSUME NEW J \in SUBSET I, NEW x \in I, J \in C, x \notin J
      PROVE  J \cup {x} \in C
  <2> PICK Q : Q = {s[i] : i \in J}
    OBVIOUS
  <2>1. IsFiniteSet(J) /\ Numeric(f, J \cup {x})
    BY FS_Subset DEF Numeric
  <2>2. SumFunctionOnSet(f, J \cup {x}) = SumFunctionOnSet(f, J) + f[x]
    BY <1>2, <2>1, SumAdd
  <2>3. {s[i] : i \in J \cup {x}} = Q \cup {s[x]}
    OBVIOUS
  <2>4. s[x] \notin Q /\ IsFiniteSet(Q)
    BY <1>2
  <2>5. Numeric(h, Q \cup {s[x]})
    BY DEF Numeric
  <2>6. IsFiniteSet(Q \cup {s[x]})
    BY <2>4, FS_AddElement
  <2>7. SumFunctionOnSet(h, Q \cup {s[x]}) = SumFunctionOnSet(h, Q) + h[s[x]]
    BY <1>0, <2>4, <2>5
  <2> QED
    BY <1>2, <2>2, <2>3, <2>6, <2>7
<1>3. I \in C
  <2> HIDE DEF C
  <2> QED
    BY <1>1, <1>2, SubsetInduction
<1> QED
  BY <1>3 DEF Values

-------------------------------------------------------------------------------
(* The quantities of rows *)

Quantified(S) == \A x \in S : x.qty \in Int

(* TotalQty is the sum of any function that has the quantities. *)
LEMMA TotalIsSum ==
  ASSUME NEW S, IsFiniteSet(S), Quantified(S), NEW f, \A x \in S : f[x] = x.qty
  PROVE  Numeric(f, S) /\ TotalQty(S) = SumFunctionOnSet(f, S)
<1>1. Numeric(f, S)
  BY DEF Numeric, Quantified
<1>2. PICK g : IsSum(f, g, S)
  BY <1>1, SumExists
<1>3. g = [s \in SUBSET S |->
             IF s = {} THEN 0
             ELSE LET x == CHOOSE x \in s : TRUE IN x.qty + g[s \ {x}]]
  <2>1. ASSUME NEW s \in SUBSET S, s # {}
        PROVE  LET x == CHOOSE x \in s : TRUE IN f[x] = x.qty
    BY <2>1
  <2> QED
    BY <1>2, <2>1 DEF IsSum
<1>4. \E h : /\ h = [s \in SUBSET S |->
                     IF s = {} THEN 0
                     ELSE LET x == CHOOSE x \in s : TRUE IN x.qty + h[s \ {x}]]
             /\ TotalQty(S) = h[S]
  BY <1>3 DEF TotalQty, MapThenSumSet, MapThenFoldSet
<1>5. PICK h : /\ h = [s \in SUBSET S |->
                     IF s = {} THEN 0
                     ELSE LET x == CHOOSE x \in s : TRUE IN x.qty + h[s \ {x}]]
             /\ TotalQty(S) = h[S]
  BY <1>4
<1>6. IsSum(f, h, S)
  <2>1. ASSUME NEW s \in SUBSET S, s # {}
        PROVE  LET x == CHOOSE x \in s : TRUE IN f[x] = x.qty
    BY <2>1
  <2> QED
    BY <1>5, <2>1 DEF IsSum
<1> QED
  BY <1>1, <1>5, <1>6, SumIsValue

LEMMA TotalType ==
  ASSUME NEW S, IsFiniteSet(S), Quantified(S)
  PROVE  TotalQty(S) \in Int
<1> PICK f : f = [x \in S |-> x.qty]
  OBVIOUS
<1> QED
  BY TotalIsSum, SumType

LEMMA TotalEmpty == TotalQty({}) = 0
<1> PICK f : f = [x \in {} |-> x.qty]
  OBVIOUS
<1>1. IsFiniteSet({}) /\ Quantified({})
  BY FS_EmptySet DEF Quantified
<1> QED
  BY <1>1, TotalIsSum, SumEmpty

(* A row more adds its quantity. *)
LEMMA TotalAdd ==
  ASSUME NEW S, IsFiniteSet(S), NEW x, x \notin S, Quantified(S \cup {x})
  PROVE  TotalQty(S \cup {x}) = TotalQty(S) + x.qty
<1> PICK f : f = [y \in S \cup {x} |-> y.qty]
  OBVIOUS
<1>1. IsFiniteSet(S \cup {x}) /\ Quantified(S) /\ f[x] = x.qty
  BY FS_AddElement DEF Quantified
<1>2. /\ TotalQty(S \cup {x}) = SumFunctionOnSet(f, S \cup {x})
      /\ TotalQty(S) = SumFunctionOnSet(f, S) /\ Numeric(f, S \cup {x})
  BY <1>1, TotalIsSum
<1> QED
  BY <1>1, <1>2, SumAdd

(* The total of two sets that have no row in common. *)
LEMMA TotalUnion ==
  ASSUME NEW S, NEW T, IsFiniteSet(S), IsFiniteSet(T), S \cap T = {}, Quantified(S \cup T)
  PROVE  TotalQty(S \cup T) = TotalQty(S) + TotalQty(T)
<1> PICK f : f = [y \in S \cup T |-> y.qty]
  OBVIOUS
<1>1. IsFiniteSet(S \cup T) /\ Quantified(S) /\ Quantified(T)
  BY FS_Union DEF Quantified
<1>2. /\ TotalQty(S \cup T) = SumFunctionOnSet(f, S \cup T)
      /\ TotalQty(S) = SumFunctionOnSet(f, S) /\ TotalQty(T) = SumFunctionOnSet(f, T)
      /\ Numeric(f, S \cup T)
  BY <1>1, TotalIsSum
<1> QED
  BY <1>2, SumUnion

(* Rows with positive quantities have a positive total. *)
LEMMA TotalPositive ==
  ASSUME NEW S, IsFiniteSet(S), \A x \in S : x.qty \in Nat \ {0}
  PROVE  TotalQty(S) \in Nat /\ (TotalQty(S) = 0 <=> S = {})
<1> DEFINE C == {U \in SUBSET S : TotalQty(U) \in Nat /\ (TotalQty(U) = 0 <=> U = {})}
<1>1. {} \in C
  BY TotalEmpty
<1>2. ASSUME NEW U \in SUBSET S, NEW x \in S, U \in C, x \notin U
      PROVE  U \cup {x} \in C
  <2>1. IsFiniteSet(U) /\ Quantified(U \cup {x})
    BY FS_Subset DEF Quantified
  <2>2. TotalQty(U \cup {x}) = TotalQty(U) + x.qty
    BY <1>2, <2>1, TotalAdd
  <2> QED
    BY <1>2, <2>2
<1>3. S \in C
  <2> HIDE DEF C
  <2> QED
    BY <1>1, <1>2, SubsetInduction
<1> QED
  BY <1>3

===============================================================================
