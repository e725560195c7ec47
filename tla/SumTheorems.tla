---------------------------- MODULE SumTheorems ----------------------------
(***************************************************************************)
(* Sums over finite sets: what MapThenSumSet computes when it adds up the  *)
(* amounts a[c] of the elements c of a set.                                *)
(*                                                                         *)
(* It chooses the elements in an unspecified order.  AddsUp is             *)
(* the order-free description of the same sum; the lemmas show that such a *)
(* function exists for every finite set and that the recursion computes it.*)
(* Induction is over cardinalities, as the least element of a set of       *)
(* counterexamples.                                                        *)
(***************************************************************************)
EXTENDS Integers, FiniteSets, FiniteSetsExt, TLAPS, FiniteSetTheorems, WellFoundedInduction

\* The order of the natural numbers, as the relation the library reasons about.
LessThan == {ss \in Nat \X Nat : ss[1] < ss[2]}

\* A non-empty set of natural numbers has a least one.
LEMMA LeastNumber ==
  ASSUME NEW N \in SUBSET Nat, N # {}
  PROVE  \E n \in N : \A m \in N : n <= m
<1>1. LessThan = OpToRel(<, Nat)
  BY Zenon DEF OpToRel, LessThan
<1>2. IsWellFoundedOn(LessThan, Nat)
  BY <1>1, NatLessThanWellFounded, Zenon
<1>3. PICK n \in N : \A m \in N : ~ (<<m, n>> \in LessThan)
  BY <1>2, WFMin
<1>4. ASSUME NEW m \in N PROVE n <= m
  <2>1. <<m, n>> \in Nat \X Nat /\ m \in Nat /\ n \in Nat
    OBVIOUS
  <2>2. m < n => <<m, n>> \in LessThan
    BY <2>1 DEF LessThan
  <2> QED
    BY <1>3, <2>1, <2>2
<1> QED
  BY <1>4

\* g[s] is the sum of the amounts of s, for every subset s of S.
AddsUp(a, g, S) ==
  /\ g \in [SUBSET S -> Int]
  /\ g[{}] = 0
  /\ \A s \in SUBSET S : \A c \in s : g[s] = a[c] + g[s \ {c}]

\* One more element e adds its amount to every set that contains it.
LEMMA AddsUpExtend ==
  ASSUME NEW a, NEW S, NEW e, e \notin S, NEW g, AddsUp(a, g, S), \A c \in S \cup {e} : a[c] \in Int
  PROVE  \E h : AddsUp(a, h, S \cup {e})
<1> DEFINE T == S \cup {e}
           h == [s \in SUBSET T |-> IF e \in s THEN a[e] + g[s \ {e}] ELSE g[s]]
<1>1. h \in [SUBSET T -> Int]
  <2> SUFFICES ASSUME NEW s \in SUBSET T
               PROVE  (IF e \in s THEN a[e] + g[s \ {e}] ELSE g[s]) \in Int
    OBVIOUS
  <2>1. s \ {e} \in SUBSET S /\ (e \notin s => s \in SUBSET S)
    OBVIOUS
  <2>2. a[e] \in Int /\ g[s \ {e}] \in Int /\ (e \notin s => g[s] \in Int)
    BY <2>1 DEF AddsUp
  <2> QED
    BY <2>2
<1>2. h[{}] = 0
  BY DEF AddsUp
<1>3. ASSUME NEW s \in SUBSET T, NEW c \in s
      PROVE  h[s] = a[c] + h[s \ {c}]
  <2>0. s \ {c} \in SUBSET T
    OBVIOUS
  <2>1. CASE c = e
    <3>1. e \notin s \ {c} /\ h[s \ {c}] = g[s \ {e}] /\ h[s] = a[e] + g[s \ {e}]
      BY <2>0, <2>1
    <3> QED
      BY <3>1, <2>1
  <2>2. CASE c # e /\ e \in s
    <3>1. h[s] = a[e] + g[s \ {e}] /\ h[s \ {c}] = a[e] + g[(s \ {c}) \ {e}]
      BY <2>0, <2>2
    <3>2. s \ {e} \in SUBSET S /\ c \in s \ {e} /\ (s \ {c}) \ {e} = (s \ {e}) \ {c}
      BY <2>2
    <3>3. g[s \ {e}] = a[c] + g[(s \ {e}) \ {c}]
      BY <3>2 DEF AddsUp
    <3>4. (s \ {e}) \ {c} \in SUBSET S /\ g[(s \ {e}) \ {c}] \in Int /\ g[s \ {e}] \in Int
      BY <3>2 DEF AddsUp
    <3> HIDE DEF h
    <3>5. a[c] \in Int /\ a[e] \in Int
      OBVIOUS
    <3>6. h[s] = a[e] + (a[c] + g[(s \ {e}) \ {c}])
      BY <3>1, <3>3
    <3>7. h[s \ {c}] = a[e] + g[(s \ {e}) \ {c}]
      BY <3>1, <3>2
    <3> QED
      BY <3>4, <3>5, <3>6, <3>7
  <2>3. CASE e \notin s
    BY <2>0, <2>3 DEF AddsUp
  <2> QED
    BY <2>1, <2>2, <2>3
<1> HIDE DEF h
<1> QED
  BY <1>1, <1>2, <1>3 DEF AddsUp

\* Every finite set has a function that adds up its subsets: a smallest subset
\* without one would get it from the subset that lacks one of its elements.
LEMMA AddsUpExists ==
  ASSUME NEW a, NEW S, IsFiniteSet(S), \A c \in S : a[c] \in Int
  PROVE  \E g : AddsUp(a, g, S)
<1> DEFINE Bad == {n \in Nat : \E T \in SUBSET S : Cardinality(T) = n /\ ~ \E g : AddsUp(a, g, T)}
<1>1. SUFFICES ASSUME Bad # {} PROVE FALSE
  <2>1. Cardinality(S) \in Nat /\ S \in SUBSET S
    BY FS_CardinalityType
  <2> QED
    BY <1>1, <2>1
<1>2. PICK n \in Bad : \A m \in Bad : n <= m
  <2> HIDE DEF Bad
  <2>1. Bad \in SUBSET Nat
    BY DEF Bad
  <2> QED
    BY <1>1, <2>1, LeastNumber
<1>3. PICK T \in SUBSET S : Cardinality(T) = n /\ ~ \E g : AddsUp(a, g, T)
  BY <1>2
<1>4. IsFiniteSet(T)
  BY FS_Subset
<1>5. CASE T = {}
  <2> DEFINE g == [s \in SUBSET T |-> 0]
  <2>1. AddsUp(a, g, T)
    BY <1>5 DEF AddsUp
  <2> QED
    BY <1>3, <2>1
<1>6. CASE T # {}
  <2>1. PICK e \in T : TRUE
    BY <1>6
  <2>2. T \ {e} \in SUBSET S /\ IsFiniteSet(T \ {e})
        /\ Cardinality(T \ {e}) = n - 1 /\ n - 1 \in Nat
    <3>1. IsFiniteSet(T \ {e}) /\ Cardinality(T \ {e}) = Cardinality(T) - 1
      BY <1>4, <2>1, FS_RemoveElement
    <3>2. Cardinality(T \ {e}) \in Nat
      BY <3>1, FS_CardinalityType
    <3> QED
      BY <1>3, <3>1, <3>2
  <2>3. n - 1 \notin Bad
    <3> HIDE DEF Bad
    <3>1. n \in Nat
      BY DEF Bad
    <3> QED
      BY <1>2, <3>1
  <2>4. PICK g : AddsUp(a, g, T \ {e})
    BY <2>2, <2>3
  <2>5. e \notin T \ {e} /\ (T \ {e}) \cup {e} = T /\ \A c \in T : a[c] \in Int
    BY <2>1
  <2> HIDE DEF Bad
  <2>6. \E h : AddsUp(a, h, (T \ {e}) \cup {e})
    BY <2>4, <2>5, AddsUpExtend
  <2> QED
    BY <1>3, <2>5, <2>6
<1> QED
  BY <1>5, <1>6

\* The recursion behind MapThenSumSet, with the amounts in a function.
Recursion(a, f, S) ==
  f = [s \in SUBSET S |->
         IF s = {} THEN 0
         ELSE LET x == CHOOSE x \in s : TRUE IN a[x] + f[s \ {x}]]

\* Whatever the order of its choices, the recursion yields the same sums: in a
\* smallest set where it did not, both would take the chosen element away.
LEMMA RecursionAddsUp ==
  ASSUME NEW a, NEW S, IsFiniteSet(S), NEW f, NEW g, AddsUp(a, g, S), Recursion(a, f, S)
  PROVE  \A s \in SUBSET S : f[s] = g[s]
<1> DEFINE Bad == {n \in Nat : \E s \in SUBSET S : Cardinality(s) = n /\ f[s] # g[s]}
<1>1. SUFFICES ASSUME Bad # {} PROVE FALSE
  <2>1. \A s \in SUBSET S : Cardinality(s) \in Nat
    BY FS_CardinalityType, FS_Subset
  <2> QED
    BY <1>1, <2>1
<1>2. PICK n \in Bad : \A m \in Bad : n <= m
  <2> HIDE DEF Bad
  <2>1. Bad \in SUBSET Nat
    BY DEF Bad
  <2> QED
    BY <1>1, <2>1, LeastNumber
<1>3. PICK s \in SUBSET S : Cardinality(s) = n /\ f[s] # g[s]
  BY <1>2
<1>4. s # {}
  BY <1>3 DEF AddsUp, Recursion
<1> DEFINE x == CHOOSE x \in s : TRUE
<1>5. x \in s
  BY <1>4
<1>6. f[s] = a[x] + f[s \ {x}]
  BY <1>4 DEF Recursion
<1>7. g[s] = a[x] + g[s \ {x}]
  BY <1>5 DEF AddsUp
<1>8. f[s \ {x}] = g[s \ {x}]
  <2> HIDE DEF x
  <2>1. IsFiniteSet(s)
    BY FS_Subset
  <2>2. s \ {x} \in SUBSET S /\ Cardinality(s \ {x}) = n - 1 /\ n - 1 \in Nat
    <3>1. IsFiniteSet(s \ {x}) /\ Cardinality(s \ {x}) = Cardinality(s) - 1
      BY <2>1, <1>5, FS_RemoveElement
    <3>2. Cardinality(s \ {x}) \in Nat
      BY <3>1, FS_CardinalityType
    <3> QED
      BY <1>3, <3>1, <3>2
  <2>3. n - 1 \notin Bad
    <3> HIDE DEF Bad
    <3>1. n \in Nat
      BY DEF Bad
    <3> QED
      BY <1>2, <3>1
  <2> QED
    BY <2>2, <2>3
<1> QED
  BY <1>3, <1>6, <1>7, <1>8

\* The sum of the amounts of S, chosen without an order.
Total(a, S) == (CHOOSE g : AddsUp(a, g, S))[S]

\* Any function that satisfies the recursion computes the total.
LEMMA RecursionTotal ==
  ASSUME NEW a, NEW S, IsFiniteSet(S), \A c \in S : a[c] \in Int,
         NEW f, Recursion(a, f, S)
  PROVE  f[S] = Total(a, S)
<1> DEFINE g == CHOOSE g : AddsUp(a, g, S)
<1>1. AddsUp(a, g, S)
  BY AddsUpExists
<1>2. \A s \in SUBSET S : f[s] = g[s]
  <2> HIDE DEF g
  <2> QED
    BY <1>1, RecursionAddsUp
<1> QED
  BY <1>2 DEF Total

\* The recursion has a solution.
LEMMA RecursionExists ==
  ASSUME NEW a, NEW S, IsFiniteSet(S), \A c \in S : a[c] \in Int
  PROVE  \E f : Recursion(a, f, S)
<1>1. PICK g : AddsUp(a, g, S)
  BY AddsUpExists
<1>2. ASSUME NEW s \in SUBSET S
      PROVE  g[s] = IF s = {} THEN 0
                    ELSE LET x == CHOOSE x \in s : TRUE IN a[x] + g[s \ {x}]
  <2>1. CASE s = {}
    BY <1>1, <2>1 DEF AddsUp
  <2>2. CASE s # {}
    <3>1. (CHOOSE x \in s : TRUE) \in s
      BY <2>2
    <3> QED
      BY <1>1, <2>2, <3>1 DEF AddsUp
  <2> QED
    BY <2>1, <2>2
<1>3. g = [s \in SUBSET S |-> g[s]]
  BY <1>1 DEF AddsUp
<1>4. g = [s \in SUBSET S |->
             IF s = {} THEN 0
             ELSE LET x == CHOOSE x \in s : TRUE IN a[x] + g[s \ {x}]]
  BY <1>2, <1>3, Zenon
<1>5. Recursion(a, g, S)
  BY <1>4 DEF Recursion
<1> QED
  BY <1>5

LEMMA AddsUpTotal ==
  ASSUME NEW a, NEW S, IsFiniteSet(S), \A c \in S : a[c] \in Int,
         NEW T \in SUBSET S, NEW g, AddsUp(a, g, S)
  PROVE  g[T] = Total(a, T) /\ g[T] \in Int
<1>1. IsFiniteSet(T) /\ \A c \in T : a[c] \in Int
  BY FS_Subset
<1>2. PICK f : Recursion(a, f, T)
  BY <1>1, RecursionExists
<1> DEFINE h == [s \in SUBSET T |-> g[s]]
<1>3. AddsUp(a, h, T)
  <2>1. \A s \in SUBSET T : s \in SUBSET S /\ g[s] \in Int
    BY DEF AddsUp
  <2>2. h \in [SUBSET T -> Int]
    BY <2>1
  <2>3. h[{}] = 0
    BY DEF AddsUp
  <2>4. ASSUME NEW s \in SUBSET T, NEW c \in s PROVE h[s] = a[c] + h[s \ {c}]
    <3>1. s \ {c} \in SUBSET T /\ s \in SUBSET S
      BY <2>4
    <3> QED
      BY <3>1 DEF AddsUp
  <2> HIDE DEF h
  <2> QED
    BY <2>2, <2>3, <2>4 DEF AddsUp
<1>4. f[T] = h[T]
  <2> HIDE DEF h
  <2> QED
    BY <1>1, <1>2, <1>3, RecursionAddsUp
<1>5. f[T] = Total(a, T)
  BY <1>1, <1>2, RecursionTotal
<1> QED
  BY <1>4, <1>5 DEF AddsUp

\* The sum of nothing is 0.
LEMMA TotalEmpty == \A a : Total(a, {}) = 0
<1> SUFFICES ASSUME NEW a PROVE Total(a, {}) = 0
  OBVIOUS
<1>1. PICK g : AddsUp(a, g, {})
  BY FS_EmptySet, AddsUpExists
<1>2. g[{}] = Total(a, {})
  BY <1>1, FS_EmptySet, AddsUpTotal
<1> QED
  BY <1>1, <1>2 DEF AddsUp

\* A sum of integers is an integer.
LEMMA TotalType ==
  ASSUME NEW a, NEW S, IsFiniteSet(S), \A c \in S : a[c] \in Int
  PROVE  Total(a, S) \in Int
BY AddsUpExists, AddsUpTotal

\* A new element adds its amount to the sum.
LEMMA TotalAdd ==
  ASSUME NEW a, NEW S, IsFiniteSet(S), NEW e, e \notin S,
         \A c \in S \cup {e} : a[c] \in Int
  PROVE  Total(a, S \cup {e}) = a[e] + Total(a, S)
<1> DEFINE T == S \cup {e}
<1>1. IsFiniteSet(T)
  BY FS_AddElement
<1>2. PICK g : AddsUp(a, g, T)
  BY <1>1, AddsUpExists
<1>3. g[S] = Total(a, S) /\ g[T] = Total(a, T)
  BY <1>1, <1>2, AddsUpTotal
<1>4. T \ {e} = S /\ e \in T
  OBVIOUS
<1>5. g[T] = a[e] + g[S]
  BY <1>2, <1>4 DEF AddsUp
<1> QED
  BY <1>3, <1>5

\* The sum depends on the amounts of its elements only.
LEMMA TotalCong ==
  ASSUME NEW a, NEW b, NEW S, IsFiniteSet(S), \A c \in S : a[c] \in Int /\ b[c] = a[c]
  PROVE  Total(b, S) = Total(a, S)
<1>1. PICK g : AddsUp(a, g, S)
  BY AddsUpExists
<1>2. AddsUp(b, g, S)
  BY <1>1 DEF AddsUp
<1>3. g[S] = Total(a, S)
  BY <1>1, AddsUpTotal
<1>4. g[S] = Total(b, S)
  <2>1. \A c \in S : b[c] \in Int
    OBVIOUS
  <2> QED
    BY <1>2, <2>1, AddsUpTotal
<1> QED
  BY <1>3, <1>4

\* The sums over two parts make up the sum over the whole: by a least counterexample,
\* on the size of the second part.
LEMMA TotalSplit ==
  ASSUME NEW a, NEW S, IsFiniteSet(S), \A c \in S : a[c] \in Int, NEW T \in SUBSET S
  PROVE  Total(a, S) = Total(a, T) + Total(a, S \ T)
<1> DEFINE Fits(R) == Total(a, T \cup R) = Total(a, T) + Total(a, R)
           Bad == {n \in Nat : \E R \in SUBSET (S \ T) : Cardinality(R) = n /\ ~Fits(R)}
<1>0. \A R \in SUBSET S : /\ IsFiniteSet(R) /\ Cardinality(R) \in Nat
                          /\ Total(a, R) \in Int
  <2> SUFFICES ASSUME NEW R \in SUBSET S
               PROVE  IsFiniteSet(R) /\ Cardinality(R) \in Nat /\ Total(a, R) \in Int
    OBVIOUS
  <2>1. IsFiniteSet(R) /\ \A c \in R : a[c] \in Int
    BY FS_Subset
  <2> QED
    BY <2>1, FS_CardinalityType, TotalType
<1>1. SUFFICES ASSUME Bad # {} PROVE FALSE
  <2>1. S \ T \in SUBSET (S \ T) /\ Cardinality(S \ T) \in Nat /\ T \cup (S \ T) = S
    BY <1>0
  <2>2. Fits(S \ T)
    BY <1>1, <2>1
  <2> QED
    BY <2>1, <2>2
<1>2. PICK n \in Bad : \A m \in Bad : n <= m
  <2>1. Bad \in SUBSET Nat
    OBVIOUS
  <2> HIDE DEF Bad
  <2> QED
    BY <1>1, <2>1, LeastNumber
<1>3. PICK R \in SUBSET (S \ T) : Cardinality(R) = n /\ ~Fits(R)
  BY <1>2
<1>4. R # {}
  <2>1. Fits({})
    BY <1>0, TotalEmpty
  <2> QED
    BY <1>3, <2>1
<1>5. PICK e \in R : TRUE
  BY <1>4
<1>6. PICK Q : Q = R \ {e}
  OBVIOUS
<1>7. /\ Q \in SUBSET (S \ T) /\ R = Q \cup {e} /\ e \notin Q /\ e \notin T
      /\ T \cup Q \in SUBSET S /\ e \notin T \cup Q /\ T \cup R = (T \cup Q) \cup {e}
  BY <1>3, <1>5, <1>6
<1>8. Fits(Q)
  <2>1. Cardinality(R) = Cardinality(Q) + 1 /\ Cardinality(Q) \in Nat /\ Cardinality(R) \in Nat
    BY <1>0, <1>7, FS_AddElement
  <2>2. Cardinality(Q) \notin Bad
    BY <1>2, <1>3, <2>1
  <2> QED
    BY <1>7, <2>1, <2>2
<1>9. Total(a, R) = a[e] + Total(a, Q)
  BY <1>0, <1>7, TotalAdd
<1>10. Total(a, T \cup R) = a[e] + Total(a, T \cup Q)
  BY <1>0, <1>7, TotalAdd
<1>11. /\ a[e] \in Int /\ Total(a, Q) \in Int /\ Total(a, T) \in Int
  BY <1>0, <1>5, <1>7
<1> QED
  BY <1>3, <1>8, <1>9, <1>10, <1>11
=============================================================================
