--------------------------- MODULE InductionLemmas ---------------------------
(***************************************************************************)
(* Induction and recursion over numbers, in a form that speaks of sets and *)
(* functions and of no operator, so that it can be cited: the property is  *)
(* the set of the numbers that have it, the step of a recursion is a       *)
(* function.  Then the same over finite sets, and the theory of sums over  *)
(* them (SumFunctionOnSet of the community modules) it leads to.           *)
(***************************************************************************)
EXTENDS Integers, Functions, FiniteSetTheorems, WellFoundedInduction, TLAPS

\* Numbers have a least one.
LEMMA LeastNumber ==
  ASSUME NEW S \in SUBSET Nat, S # {}
  PROVE  \E n \in S : \A m \in S : n <= m
<1>1. PICK n \in S : \A m \in S : ~(<<m, n>> \in OpToRel(<, Nat))
  BY NatLessThanWellFounded, WFMin
<1>2. \A m \in S : ~(m < n)
  BY <1>1 DEF OpToRel
<1>3. \A m \in S : n <= m
  BY <1>2
<1> QED
  BY <1>3

\* What holds of zero, and of a number's successor with the number, holds of all.
LEMMA UpTheNumbers ==
  ASSUME NEW S, 0 \in S, \A n \in Nat : n \in S => n + 1 \in S
  PROVE  Nat \subseteq S
<1> SUFFICES ASSUME Nat \ S # {}
             PROVE  FALSE
  OBVIOUS
<1>1. PICK n \in Nat \ S : \A m \in Nat \ S : n <= m
  BY LeastNumber
<1>2. n - 1 \in Nat /\ (n - 1) + 1 = n
  BY <1>1
<1>3. n - 1 \in S
  BY <1>1, <1>2
<1> QED
  BY <1>1, <1>2, <1>3

\* The functions that start with a value and take each further one from the one before.
Recursions(n, V, first, step) ==
    {f \in [0..n -> V] : f[0] = first /\ \A i \in 1..n : f[i] = step[i][f[i - 1]]}

\* Every recursion has such a function.
LEMMA RecursionExists ==
  ASSUME NEW n \in Nat, NEW V, NEW first \in V, NEW step \in [1..n -> [V -> V]]
  PROVE  Recursions(n, V, first, step) # {}
<1> DEFINE Possible == {m \in Nat : m <= n => Recursions(m, V, first, step) # {}}
<1>1. 0 \in Possible
  <2>1. [i \in 0..0 |-> first] \in Recursions(0, V, first, step)
    BY DEF Recursions
  <2> QED
    BY <2>1
<1>2. ASSUME NEW m \in Nat, m \in Possible
      PROVE  m + 1 \in Possible
  <2> SUFFICES ASSUME m + 1 <= n
               PROVE  Recursions(m + 1, V, first, step) # {}
    OBVIOUS
  <2>1. PICK f \in [0..m -> V] : f[0] = first /\ \A i \in 1..m : f[i] = step[i][f[i - 1]]
    BY <1>2 DEF Recursions
  <2> DEFINE g == [i \in 0..(m + 1) |-> IF i <= m THEN f[i] ELSE step[m + 1][f[m]]]
  <2>2. f[m] \in V /\ m + 1 \in 1..n /\ step[m + 1][f[m]] \in V
    BY <2>1
  <2>3. g \in [0..(m + 1) -> V] /\ g[0] = first
    BY <2>1, <2>2
  <2>4. ASSUME NEW i \in 1..(m + 1)
        PROVE  g[i] = step[i][g[i - 1]]
    <3>1. i - 1 \in 0..m /\ g[i - 1] = f[i - 1]
      OBVIOUS
    <3>2. CASE i <= m
      BY <2>1, <3>1, <3>2
    <3>3. CASE i = m + 1
      <4>1. ~(m + 1 <= m) /\ m + 1 \in 0..(m + 1) /\ i - 1 = m /\ m \in 0..m
        BY <3>3
      <4>2. g[m + 1] = step[m + 1][f[m]]
        BY <4>1
      <4> QED
        BY <3>1, <3>3, <4>1, <4>2
    <3> QED
      BY <3>2, <3>3
  <2>5. g \in Recursions(m + 1, V, first, step)
    BY <2>3, <2>4 DEF Recursions
  <2> QED
    BY <2>5
<1> HIDE DEF Possible
<1>3. n \in Possible
  BY <1>1, <1>2, UpTheNumbers
<1> QED
  BY <1>3 DEF Possible

\* What holds first and goes on from each value to the next holds all along.
LEMMA RecursionKeeps ==
  ASSUME NEW n \in Nat, NEW V, NEW f, f[0] \in V,
         \A i \in 1..n : f[i - 1] \in V => f[i] \in V
  PROVE  \A i \in 0..n : f[i] \in V
<1> DEFINE Good == {m \in Nat : m <= n => f[m] \in V}
<1>1. 0 \in Good
  OBVIOUS
<1>2. ASSUME NEW m \in Nat, m \in Good
      PROVE  m + 1 \in Good
  <2>1. m + 1 <= n => m + 1 \in 1..n /\ (m + 1) - 1 = m /\ m <= n
    OBVIOUS
  <2> QED
    BY <1>2, <2>1
<1> HIDE DEF Good
<1>3. Nat \subseteq Good
  BY <1>1, <1>2, UpTheNumbers
<1> QED
  BY <1>3 DEF Good

-----------------------------------------------------------------------------
(***************************************************************************)
(* Sums over finite sets.                                                  *)
(***************************************************************************)
\* What holds of the empty set, and of a set with one element more, holds of a finite set.
LEMMA SetsGrow ==
  ASSUME NEW S, IsFiniteSet(S), NEW P, {} \in P,
         \A T \in SUBSET S : \A x \in S \ T : T \in P => T \cup {x} \in P
  PROVE  S \in P
<1> DEFINE Reached == {n \in Nat : \A T \in SUBSET S : Cardinality(T) = n => T \in P}
<1>1. 0 \in Reached
  <2>1. ASSUME NEW T \in SUBSET S, Cardinality(T) = 0
        PROVE  T = {}
    BY <2>1, FS_Subset, FS_EmptySet
  <2> QED
    BY <2>1
<1>2. ASSUME NEW n \in Nat, n \in Reached
      PROVE  n + 1 \in Reached
  <2> SUFFICES ASSUME NEW T \in SUBSET S, Cardinality(T) = n + 1
               PROVE  T \in P
    OBVIOUS
  <2>1. IsFiniteSet(T)
    BY FS_Subset
  <2>2. T # {}
    <3>1. Cardinality({}) = 0 /\ n + 1 # 0
      BY FS_EmptySet
    <3> QED
      BY <3>1
  <2>3. PICK x \in T : TRUE
    BY <2>2
  <2>4. Cardinality(T \ {x}) = n
    <3>1. Cardinality(T \ {x}) = Cardinality(T) - 1
      BY <2>1, <2>3, FS_RemoveElement
    <3> QED
      BY <3>1
  <2>5. T \ {x} \in P /\ T = (T \ {x}) \cup {x} /\ x \in S \ (T \ {x}) /\ T \ {x} \in SUBSET S
    BY <1>2, <2>3, <2>4
  <2> QED
    BY <2>5
<1> HIDE DEF Reached
<1>3. Nat \subseteq Reached
  BY <1>1, <1>2, UpTheNumbers
<1>4. Cardinality(S) \in Nat
  BY FS_CardinalityType
<1> QED
  BY <1>3, <1>4 DEF Reached

-----------------------------------------------------------------------------
\* The element a sum takes first, and what a sum is on all subsets of a set.
Chosen(S) == CHOOSE x \in S : TRUE
\* The sums of f over the subsets of S, each from the one without its chosen element.
Summation(f, S, g) ==
    g = [T \in SUBSET S |-> IF T = {} THEN 0 ELSE f[Chosen(T)] + g[T \ {Chosen(T)}]]

\* The definition of the library, opened.
LEMMA SumOpened ==
  ASSUME NEW f, NEW S
  PROVE  SumFunctionOnSet(f, S) = (CHOOSE g : Summation(f, S, g))[S]
  BY DEF SumFunctionOnSet, FoldFunctionOnSet, MapThenFoldSet, Summation, Chosen

\* There is such a function.
LEMMA SummationExists ==
  ASSUME NEW f, NEW S, IsFiniteSet(S)
  PROVE  \E g : Summation(f, S, g)
<1> DEFINE Value(g, T) == IF T = {} THEN 0 ELSE f[Chosen(T)] + g[T \ {Chosen(T)}]
           Right(n, g) == \A T \in SUBSET S : Cardinality(T) <= n => g[T] = Value(g, T)
           Reached == {n \in Nat : \E g : DOMAIN g = SUBSET S /\ g = [T \in SUBSET S |-> g[T]] /\ Right(n, g)}
<1>0. \A T \in SUBSET S : T # {} => /\ Chosen(T) \in T
                                    /\ T \ {Chosen(T)} \in SUBSET S
                                    /\ Cardinality(T) \in Nat
                                    /\ Cardinality(T \ {Chosen(T)}) = Cardinality(T) - 1
  <2> SUFFICES ASSUME NEW T \in SUBSET S, T # {}
               PROVE  /\ Chosen(T) \in T
                      /\ T \ {Chosen(T)} \in SUBSET S
                      /\ Cardinality(T) \in Nat
                      /\ Cardinality(T \ {Chosen(T)}) = Cardinality(T) - 1
    OBVIOUS
  <2>1. Chosen(T) \in T
    BY DEF Chosen
  <2> QED
    BY <2>1, FS_Subset, FS_RemoveElement, FS_CardinalityType
<1>1. 0 \in Reached
  <2> DEFINE g == [T \in SUBSET S |-> 0]
  <2>1. \A T \in SUBSET S : Cardinality(T) <= 0 => T = {}
    <3> SUFFICES ASSUME NEW T \in SUBSET S, Cardinality(T) <= 0
                 PROVE  T = {}
      OBVIOUS
    <3> QED
      BY FS_Subset, FS_EmptySet, FS_CardinalityType
  <2>2. Right(0, g)
    BY <2>1
  <2>3. DOMAIN g = SUBSET S /\ g = [T \in SUBSET S |-> g[T]]
    OBVIOUS
  <2> HIDE DEF g, Right
  <2> QED
    BY <2>2, <2>3
<1>2. ASSUME NEW n \in Nat, n \in Reached
      PROVE  n + 1 \in Reached
  <2>1. PICK g : DOMAIN g = SUBSET S /\ Right(n, g)
    BY <1>2
  <2> DEFINE h == [T \in SUBSET S |-> Value(g, T)]
  <2>2. ASSUME NEW T \in SUBSET S, Cardinality(T) <= n + 1
        PROVE  h[T] = Value(h, T)
    <3>1. CASE T = {}
      BY <3>1
    <3>2. CASE T # {}
      <4> DEFINE U == T \ {Chosen(T)}
      <4>1. U \in SUBSET S /\ Cardinality(U) <= n
        BY <1>0, <2>2, <3>2
      <4>2. g[U] = Value(g, U)
        BY <2>1, <4>1
      <4>3. h[U] = g[U]
        <5> HIDE DEF U
        <5> QED
          BY <4>1, <4>2
      <4> QED
        BY <3>2, <4>3
    <3> QED
      BY <3>1, <3>2
  <2>3. Right(n + 1, h)
    BY <2>2
  <2>4. DOMAIN h = SUBSET S /\ h = [T \in SUBSET S |-> h[T]]
    OBVIOUS
  <2> HIDE DEF h, Right
  <2> QED
    BY <2>3, <2>4
<1> HIDE DEF Reached
<1>3. Nat \subseteq Reached
  BY <1>1, <1>2, UpTheNumbers
<1>4. Cardinality(S) \in Nat /\ \A T \in SUBSET S : Cardinality(T) <= Cardinality(S)
  BY FS_CardinalityType, FS_Subset
<1>5. PICK g : g = [T \in SUBSET S |-> g[T]] /\ Right(Cardinality(S), g)
  BY <1>3, <1>4 DEF Reached
<1>6. \A T \in SUBSET S : g[T] = Value(g, T)
  BY <1>4, <1>5
<1>7. g = [T \in SUBSET S |-> Value(g, T)]
  BY <1>5, <1>6
<1> QED
  BY <1>7 DEF Summation

\* Two such functions, on a set and on one of its subsets, agree on what both sum.
LEMMA SummationsAgree ==
  ASSUME NEW f, NEW S, IsFiniteSet(S), NEW R \in SUBSET S,
         NEW g, Summation(f, S, g), NEW h, Summation(f, R, h)
  PROVE  g[R] = h[R]
<1> DEFINE Same == {T \in SUBSET R : g[T] = h[T]}
           Reached == {n \in Nat : \A T \in SUBSET R : Cardinality(T) = n => g[T] = h[T]}
<1>1. IsFiniteSet(R) /\ Cardinality(R) \in Nat
  BY FS_Subset, FS_CardinalityType
<1>2. \A T \in SUBSET R : /\ g[T] = IF T = {} THEN 0 ELSE f[Chosen(T)] + g[T \ {Chosen(T)}]
                          /\ h[T] = IF T = {} THEN 0 ELSE f[Chosen(T)] + h[T \ {Chosen(T)}]
  <2>1. \A T \in SUBSET R : T \in SUBSET S
    OBVIOUS
  <2> QED
    BY <2>1 DEF Summation
<1>3. 0 \in Reached
  <2>1. ASSUME NEW T \in SUBSET R, Cardinality(T) = 0
        PROVE  T = {}
    BY <1>1, <2>1, FS_Subset, FS_EmptySet
  <2> QED
    BY <1>2, <2>1
<1>4. ASSUME NEW n \in Nat, n \in Reached
      PROVE  n + 1 \in Reached
  <2> SUFFICES ASSUME NEW T \in SUBSET R, Cardinality(T) = n + 1
               PROVE  g[T] = h[T]
    OBVIOUS
  <2>1. IsFiniteSet(T)
    BY <1>1, FS_Subset
  <2>2. CASE T = {}
    BY <1>2, <2>2
  <2>3. CASE T # {}
    <3>1. Chosen(T) \in T
      BY <2>3 DEF Chosen
    <3>2. Cardinality(T \ {Chosen(T)}) = Cardinality(T) - 1
      BY <2>1, <3>1, FS_RemoveElement
    <3>3. Cardinality(T \ {Chosen(T)}) = n /\ T \ {Chosen(T)} \in SUBSET R
      BY <3>2
    <3>4. g[T \ {Chosen(T)}] = h[T \ {Chosen(T)}]
      BY <1>4, <3>3
    <3> QED
      BY <1>2, <2>3, <3>4
  <2> QED
    BY <2>2, <2>3
<1> HIDE DEF Reached
<1>5. Nat \subseteq Reached
  BY <1>3, <1>4, UpTheNumbers
<1> QED
  BY <1>1, <1>5 DEF Reached

\* A sum is zero or its first element and the sum of the others.
LEMMA SumUnfolds ==
  ASSUME NEW f, NEW S, IsFiniteSet(S)
  PROVE  SumFunctionOnSet(f, S) =
             IF S = {} THEN 0 ELSE f[Chosen(S)] + SumFunctionOnSet(f, S \ {Chosen(S)})
<1>1. PICK g : Summation(f, S, g) /\ SumFunctionOnSet(f, S) = g[S]
  BY SumOpened, SummationExists
<1>2. g[S] = IF S = {} THEN 0 ELSE f[Chosen(S)] + g[S \ {Chosen(S)}]
  BY <1>1 DEF Summation
<1>3. CASE S = {}
  BY <1>1, <1>2, <1>3
<1>4. CASE S # {}
  <2> DEFINE R == S \ {Chosen(S)}
  <2>1. IsFiniteSet(R) /\ R \in SUBSET S
    BY FS_Subset
  <2> HIDE DEF R
  <2>2. PICK h : Summation(f, R, h) /\ SumFunctionOnSet(f, R) = h[R]
    BY <2>1, SumOpened, SummationExists
  <2>3. g[R] = h[R]
    BY <1>1, <2>1, <2>2, SummationsAgree
  <2> QED
    BY <1>1, <1>2, <1>4, <2>2, <2>3 DEF R
<1> QED
  BY <1>3, <1>4

\* Nothing adds up to zero.
LEMMA SumOfNone ==
  ASSUME NEW f
  PROVE  SumFunctionOnSet(f, {}) = 0
  BY SumUnfolds, FS_EmptySet

\* Any element can be taken first.
LEMMA SumWithout ==
  ASSUME NEW f, NEW S, IsFiniteSet(S), \A x \in S : f[x] \in Int
  PROVE  /\ SumFunctionOnSet(f, S) \in Int
         /\ \A x \in S : SumFunctionOnSet(f, S) = f[x] + SumFunctionOnSet(f, S \ {x})
<1> DEFINE Fits == {T \in SUBSET S : /\ SumFunctionOnSet(f, T) \in Int
                                      /\ \A x \in T : SumFunctionOnSet(f, T)
                                                         = f[x] + SumFunctionOnSet(f, T \ {x})}
           Reached == {n \in Nat : \A T \in SUBSET S : Cardinality(T) <= n => T \in Fits}
<1>0. \A T \in SUBSET S : IsFiniteSet(T) /\ Cardinality(T) \in Nat /\ (Cardinality(T) = 0 <=> T = {})
  <2> SUFFICES ASSUME NEW T \in SUBSET S
               PROVE  IsFiniteSet(T) /\ Cardinality(T) \in Nat /\ (Cardinality(T) = 0 <=> T = {})
    OBVIOUS
  <2>1. IsFiniteSet(T)
    BY FS_Subset
  <2> QED
    BY <2>1, FS_EmptySet, FS_CardinalityType
<1>1. 0 \in Reached
  <2>1. {} \in Fits
    BY SumOfNone
  <2> HIDE DEF Fits
  <2>2. ASSUME NEW T \in SUBSET S, Cardinality(T) <= 0
        PROVE  T = {}
    BY <1>0, <2>2
  <2> QED
    BY <2>1, <2>2
<1>2. ASSUME NEW n \in Nat, n \in Reached
      PROVE  n + 1 \in Reached
  <2>0. SUFFICES ASSUME NEW T \in SUBSET S, Cardinality(T) = n + 1
               PROVE  T \in Fits
    <3> HIDE DEF Fits
    <3>1. \A T \in SUBSET S : Cardinality(T) <= n + 1 => Cardinality(T) <= n \/ Cardinality(T) = n + 1
      BY <1>0
    <3> QED
      BY <1>2, <3>1
  <2> DEFINE c == Chosen(T)
  <2>2. T # {} /\ c \in T
    BY <1>0, <2>0 DEF Chosen
  <2>3. SumFunctionOnSet(f, T) = f[c] + SumFunctionOnSet(f, T \ {c})
    BY <1>0, <2>2, SumUnfolds
  <2>4. ASSUME NEW U \in SUBSET T, U # T
        PROVE  U \in Fits
    <3>1. Cardinality(U) <= Cardinality(T) /\ Cardinality(U) # Cardinality(T)
      BY <1>0, <2>4, FS_Subset
    <3>2. U \in SUBSET S /\ Cardinality(U) <= n
      BY <1>0, <2>0, <3>1
    <3> HIDE DEF Fits
    <3> QED
      BY <1>2, <3>2
  <2>5. SumFunctionOnSet(f, T) \in Int
    BY <2>2, <2>3, <2>4
  <2>6. ASSUME NEW x \in T, x # c
        PROVE  SumFunctionOnSet(f, T) = f[x] + SumFunctionOnSet(f, T \ {x})
    <3> DEFINE U == T \ {c}
               V == T \ {x}
    <3>1. U \ {x} = V \ {c} /\ x \in U /\ c \in V
      BY <2>2, <2>6
    <3>2. U \in Fits /\ V \in Fits /\ V \ {c} \in Fits
      <4> HIDE DEF Fits
      <4> QED
        BY <2>2, <2>4
    <3>3. f[x] \in Int /\ f[c] \in Int
      BY <2>2
    <3>4. SumFunctionOnSet(f, T) = f[c] + SumFunctionOnSet(f, U)
      BY <2>3
    <3> HIDE DEF U, V
    <3>5. SumFunctionOnSet(f, U) = f[x] + SumFunctionOnSet(f, V \ {c})
      BY <3>1, <3>2
    <3>6. SumFunctionOnSet(f, V) = f[c] + SumFunctionOnSet(f, V \ {c})
      BY <3>1, <3>2
    <3>7. SumFunctionOnSet(f, V \ {c}) \in Int
      BY <3>2
    <3>8. SumFunctionOnSet(f, T) = f[x] + SumFunctionOnSet(f, V)
      BY <3>3, <3>4, <3>5, <3>6, <3>7
    <3> QED
      BY <3>8 DEF V
  <2> QED
    BY <2>3, <2>5, <2>6
<1> HIDE DEF Reached, Fits
<1>3. Nat \subseteq Reached
  BY <1>1, <1>2, UpTheNumbers
<1>4. S \in Fits
  BY <1>0, <1>3 DEF Reached
<1> QED
  BY <1>4 DEF Fits

\* One element more adds its number, whichever the sum chooses first.
LEMMA SumOfOneMore ==
  ASSUME NEW f, NEW S, IsFiniteSet(S), NEW x, x \notin S, f[x] \in Int, \A y \in S : f[y] \in Int
  PROVE  SumFunctionOnSet(f, S \cup {x}) = SumFunctionOnSet(f, S) + f[x]
<1> DEFINE T == S \cup {x}
<1>1. IsFiniteSet(T) /\ x \in T /\ T \ {x} = S /\ \A y \in T : f[y] \in Int
  BY FS_AddElement
<1>2. SumFunctionOnSet(f, S) \in Int
  BY SumWithout
<1> HIDE DEF T
<1>3. SumFunctionOnSet(f, T) = f[x] + SumFunctionOnSet(f, T \ {x})
  BY <1>1, SumWithout
<1>4. SumFunctionOnSet(f, T) = f[x] + SumFunctionOnSet(f, S)
  BY <1>1, <1>3
<1>5. SumFunctionOnSet(f, T) = SumFunctionOnSet(f, S) + f[x]
  BY <1>2, <1>4
<1> QED
  BY <1>5 DEF T

\* The sum over one element is its number.
LEMMA SumOfOne ==
  ASSUME NEW f, NEW x, f[x] \in Int
  PROVE  SumFunctionOnSet(f, {x}) = f[x]
<1>1. SumFunctionOnSet(f, {} \cup {x}) = 0 + f[x]
  BY SumOfOneMore, SumOfNone, FS_EmptySet
<1> QED
  BY <1>1

\* A sum depends on the values it adds, and on nothing else.
LEMMA SumsAgree ==
  ASSUME NEW f, NEW g, NEW S, IsFiniteSet(S), \A x \in S : f[x] = g[x] /\ f[x] \in Int
  PROVE  SumFunctionOnSet(f, S) = SumFunctionOnSet(g, S)
<1> DEFINE P == {T \in SUBSET S : SumFunctionOnSet(f, T) = SumFunctionOnSet(g, T)}
<1>1. {} \in P
  BY SumOfNone
<1>2. ASSUME NEW T \in P, NEW x \in S \ T
      PROVE  T \cup {x} \in P
  <2>1. IsFiniteSet(T) /\ \A y \in T : f[y] \in Int /\ g[y] \in Int
    BY FS_Subset
  <2>2. SumFunctionOnSet(f, T \cup {x}) = SumFunctionOnSet(f, T) + f[x]
    BY <2>1, SumOfOneMore
  <2>3. SumFunctionOnSet(g, T \cup {x}) = SumFunctionOnSet(g, T) + g[x]
    BY <2>1, SumOfOneMore
  <2> QED
    BY <2>2, <2>3
<1> HIDE DEF P
<1>3. S \in P
  BY <1>1, <1>2, SetsGrow
<1> QED
  BY <1>3 DEF P

\* The sum of sums is the sum of the two sums.
LEMMA SumsAdd ==
  ASSUME NEW f, NEW g, NEW h, NEW S, IsFiniteSet(S),
         \A x \in S : f[x] \in Int /\ g[x] \in Int /\ h[x] = f[x] + g[x]
  PROVE  SumFunctionOnSet(h, S) = SumFunctionOnSet(f, S) + SumFunctionOnSet(g, S)
<1> DEFINE P == {T \in SUBSET S :
                     SumFunctionOnSet(h, T) = SumFunctionOnSet(f, T) + SumFunctionOnSet(g, T)}
<1>1. {} \in P
  BY SumOfNone
<1>2. ASSUME NEW T \in P, NEW x \in S \ T
      PROVE  T \cup {x} \in P
  <2>1. IsFiniteSet(T) /\ \A y \in T : f[y] \in Int /\ g[y] \in Int /\ h[y] \in Int
    BY FS_Subset
  <2>2. SumFunctionOnSet(f, T \cup {x}) = SumFunctionOnSet(f, T) + f[x]
    BY <2>1, SumOfOneMore
  <2>3. SumFunctionOnSet(g, T \cup {x}) = SumFunctionOnSet(g, T) + g[x]
    BY <2>1, SumOfOneMore
  <2>4. SumFunctionOnSet(h, T \cup {x}) = SumFunctionOnSet(h, T) + h[x]
    BY <2>1, SumOfOneMore
  <2>5. SumFunctionOnSet(f, T) \in Int /\ SumFunctionOnSet(g, T) \in Int
    BY <2>1, SumWithout
  <2> QED
    BY <2>2, <2>3, <2>4, <2>5
<1> HIDE DEF P
<1>3. S \in P
  BY <1>1, <1>2, SetsGrow
<1> QED
  BY <1>3 DEF P

\* A common factor goes before the sum.
LEMMA SumsScale ==
  ASSUME NEW f, NEW h, NEW c \in Int, NEW S, IsFiniteSet(S),
         \A x \in S : f[x] \in Int /\ h[x] = c * f[x]
  PROVE  SumFunctionOnSet(h, S) = c * SumFunctionOnSet(f, S)
<1> DEFINE P == {T \in SUBSET S : SumFunctionOnSet(h, T) = c * SumFunctionOnSet(f, T)}
<1>1. {} \in P
  BY SumOfNone
<1>2. ASSUME NEW T \in P, NEW x \in S \ T
      PROVE  T \cup {x} \in P
  <2>1. IsFiniteSet(T) /\ \A y \in T : f[y] \in Int /\ h[y] \in Int
    BY FS_Subset
  <2>2. SumFunctionOnSet(f, T \cup {x}) = SumFunctionOnSet(f, T) + f[x]
    BY <2>1, SumOfOneMore
  <2>3. SumFunctionOnSet(h, T \cup {x}) = SumFunctionOnSet(h, T) + h[x]
    BY <2>1, SumOfOneMore
  <2>4. SumFunctionOnSet(f, T) \in Int
    BY <2>1, SumWithout
  <2>5. \A a, b \in Int : c * (a + b) = c * a + c * b
    OBVIOUS
  <2> QED
    BY <2>2, <2>3, <2>4, <2>5
<1> HIDE DEF P
<1>3. S \in P
  BY <1>1, <1>2, SetsGrow
<1> QED
  BY <1>3 DEF P

\* h is f less g.
Differs(h, f, g, S) == \A x \in S : f[x] \in Int /\ g[x] \in Int /\ h[x] = f[x] - g[x]

\* The sum of differences is the difference of the two sums.
LEMMA SumsSubtract ==
  ASSUME NEW f, NEW g, NEW h, NEW S, IsFiniteSet(S), Differs(h, f, g, S)
  PROVE  SumFunctionOnSet(h, S) = SumFunctionOnSet(f, S) - SumFunctionOnSet(g, S)
<1>1. \A x \in S : h[x] \in Int /\ g[x] \in Int /\ f[x] = h[x] + g[x]
  BY DEF Differs
<1>2. SumFunctionOnSet(f, S) = SumFunctionOnSet(h, S) + SumFunctionOnSet(g, S)
  BY <1>1, SumsAdd
<1>3. SumFunctionOnSet(h, S) \in Int /\ SumFunctionOnSet(g, S) \in Int
  BY <1>1, SumWithout
<1> QED
  BY <1>2, <1>3

\* What is less element by element is less in sum.
LEMMA SumsCompare ==
  ASSUME NEW f, NEW g, NEW S, IsFiniteSet(S),
         \A x \in S : f[x] \in Int /\ g[x] \in Int /\ f[x] <= g[x]
  PROVE  SumFunctionOnSet(f, S) <= SumFunctionOnSet(g, S)
<1> DEFINE P == {T \in SUBSET S : SumFunctionOnSet(f, T) <= SumFunctionOnSet(g, T)}
<1>1. {} \in P
  BY SumOfNone
<1>2. ASSUME NEW T \in P, NEW x \in S \ T
      PROVE  T \cup {x} \in P
  <2>1. IsFiniteSet(T) /\ \A y \in T : f[y] \in Int /\ g[y] \in Int
    BY FS_Subset
  <2>2. SumFunctionOnSet(f, T \cup {x}) = SumFunctionOnSet(f, T) + f[x]
    BY <2>1, SumOfOneMore
  <2>3. SumFunctionOnSet(g, T \cup {x}) = SumFunctionOnSet(g, T) + g[x]
    BY <2>1, SumOfOneMore
  <2>4. SumFunctionOnSet(f, T) \in Int /\ SumFunctionOnSet(g, T) \in Int
    BY <2>1, SumWithout
  <2>5. f[x] <= g[x] /\ f[x] \in Int /\ g[x] \in Int
    OBVIOUS
  <2> QED
    BY <2>2, <2>3, <2>4, <2>5
<1> HIDE DEF P
<1>3. S \in P
  BY <1>1, <1>2, SetsGrow
<1> QED
  BY <1>3 DEF P

\* The same number for each element adds up to that many of it.
LEMMA SumOfConstant ==
  ASSUME NEW f, NEW c \in Int, NEW S, IsFiniteSet(S), \A x \in S : f[x] = c
  PROVE  SumFunctionOnSet(f, S) = c * Cardinality(S)
<1> DEFINE P == {T \in SUBSET S : SumFunctionOnSet(f, T) = c * Cardinality(T)}
<1>1. {} \in P
  BY SumOfNone, FS_EmptySet
<1>2. ASSUME NEW T \in P, NEW x \in S \ T
      PROVE  T \cup {x} \in P
  <2>1. IsFiniteSet(T) /\ \A y \in T : f[y] \in Int
    BY FS_Subset
  <2>2. SumFunctionOnSet(f, T \cup {x}) = SumFunctionOnSet(f, T) + f[x]
    BY <2>1, SumOfOneMore
  <2>3. Cardinality(T \cup {x}) = Cardinality(T) + 1 /\ Cardinality(T) \in Nat
    BY <2>1, FS_AddElement, FS_CardinalityType
  <2>4. c * (Cardinality(T) + 1) = c * Cardinality(T) + c
    BY <2>3
  <2> QED
    BY <2>2, <2>3, <2>4
<1> HIDE DEF P
<1>3. S \in P
  BY <1>1, <1>2, SetsGrow
<1> QED
  BY <1>3 DEF P

\* Zeros add up to zero.
LEMMA SumOfZeros ==
  ASSUME NEW f, NEW S, IsFiniteSet(S), \A x \in S : f[x] = 0
  PROVE  SumFunctionOnSet(f, S) = 0
<1>1. SumFunctionOnSet(f, S) = 0 * Cardinality(S)
  BY SumOfConstant
<1> QED
  BY <1>1, FS_CardinalityType

\* The sum over two sets that share nothing is the sum of the two sums.
LEMMA SumOfUnion ==
  ASSUME NEW f, NEW R, NEW S, IsFiniteSet(R), IsFiniteSet(S), R \cap S = {},
         \A x \in R \cup S : f[x] \in Int
  PROVE  SumFunctionOnSet(f, R \cup S) = SumFunctionOnSet(f, R) + SumFunctionOnSet(f, S)
<1> DEFINE P == {T \in SUBSET S : SumFunctionOnSet(f, R \cup T)
                                      = SumFunctionOnSet(f, R) + SumFunctionOnSet(f, T)}
<1>0. SumFunctionOnSet(f, R) \in Int
  BY SumWithout
<1>1. {} \in P
  <2>1. R \cup {} = R
    OBVIOUS
  <2> QED
    BY <1>0, <2>1, SumOfNone
<1>2. ASSUME NEW T \in P, NEW x \in S \ T
      PROVE  T \cup {x} \in P
  <2>1. IsFiniteSet(T) /\ \A y \in T : f[y] \in Int
    BY FS_Subset
  <2>2. SumFunctionOnSet(f, T \cup {x}) = SumFunctionOnSet(f, T) + f[x]
    BY <2>1, SumOfOneMore
  <2>3. IsFiniteSet(R \cup T) /\ x \notin R \cup T
    BY <2>1, FS_Union
  <2>4. SumFunctionOnSet(f, (R \cup T) \cup {x}) = SumFunctionOnSet(f, R \cup T) + f[x]
    BY <2>3, SumOfOneMore
  <2>5. (R \cup T) \cup {x} = R \cup (T \cup {x})
    OBVIOUS
  <2>6. SumFunctionOnSet(f, T) \in Int /\ f[x] \in Int
    BY <2>1, SumWithout
  <2>7. SumFunctionOnSet(f, R \cup (T \cup {x})) = SumFunctionOnSet(f, R \cup T) + f[x]
    BY <2>4, <2>5
  <2>8. SumFunctionOnSet(f, R \cup T) = SumFunctionOnSet(f, R) + SumFunctionOnSet(f, T)
    OBVIOUS
  <2>9. SumFunctionOnSet(f, R \cup (T \cup {x})) = SumFunctionOnSet(f, R) + SumFunctionOnSet(f, T \cup {x})
    <3> HIDE DEF P
    <3> QED
      BY <1>0, <2>2, <2>6, <2>7, <2>8
  <2> QED
    BY <2>9
<1> HIDE DEF P
<1>3. S \in P
  BY <1>1, <1>2, SetsGrow
<1> QED
  BY <1>3 DEF P

\* What is zero can be left out.
LEMMA SumOfRest ==
  ASSUME NEW f, NEW S, IsFiniteSet(S), NEW T \in SUBSET S,
         \A x \in T : f[x] \in Int, \A x \in S \ T : f[x] = 0
  PROVE  SumFunctionOnSet(f, S) = SumFunctionOnSet(f, T)
<1>1. IsFiniteSet(T) /\ IsFiniteSet(S \ T) /\ T \cap (S \ T) = {} /\ T \cup (S \ T) = S
  BY FS_Subset
<1>2. SumFunctionOnSet(f, S) = SumFunctionOnSet(f, T) + SumFunctionOnSet(f, S \ T)
  <2> DEFINE U == S \ T
  <2>1. \A x \in T \cup U : f[x] \in Int
    OBVIOUS
  <2>2. IsFiniteSet(U) /\ T \cap U = {} /\ T \cup U = S
    BY <1>1
  <2> HIDE DEF U
  <2>3. SumFunctionOnSet(f, T \cup U) = SumFunctionOnSet(f, T) + SumFunctionOnSet(f, U)
    BY <1>1, <2>1, <2>2, SumOfUnion
  <2> QED
    BY <2>2, <2>3 DEF U
<1>3. SumFunctionOnSet(f, S \ T) = 0
  BY <1>1, SumOfZeros
<1>4. SumFunctionOnSet(f, T) \in Int
  BY <1>1, SumWithout
<1> QED
  BY <1>2, <1>3, <1>4

\* Values can be added up group by group.
Grouped(f, S, K, key, sums) ==
    /\ \A x \in S : key[x] \in K
    /\ \A k \in K : sums[k] = SumFunctionOnSet(f, {x \in S : key[x] = k})

\* The sum over a set is the sum over its groups of their sums.
LEMMA SumByGroups ==
  ASSUME NEW f, NEW S, IsFiniteSet(S), \A x \in S : f[x] \in Int,
         NEW K, IsFiniteSet(K), NEW key, NEW sums, Grouped(f, S, K, key, sums)
  PROVE  SumFunctionOnSet(f, S) = SumFunctionOnSet(sums, K)
<1> USE DEF Grouped
<1> DEFINE Group(k) == {x \in S : key[x] = k}
           Under(L) == {x \in S : key[x] \in L}
           P == {L \in SUBSET K : SumFunctionOnSet(f, Under(L)) = SumFunctionOnSet(sums, L)}
<1>0. \A T \in SUBSET S : IsFiniteSet(T) /\ SumFunctionOnSet(f, T) \in Int
  <2> SUFFICES ASSUME NEW T \in SUBSET S
               PROVE  IsFiniteSet(T) /\ SumFunctionOnSet(f, T) \in Int
    OBVIOUS
  <2>1. IsFiniteSet(T)
    BY FS_Subset
  <2> QED
    BY <2>1, SumWithout
<1>1. {} \in P
  <2>1. Under({}) = {}
    OBVIOUS
  <2> QED
    BY <2>1, SumOfNone
<1>2. ASSUME NEW L \in P, NEW k \in K \ L
      PROVE  L \cup {k} \in P
  <2>1. Under(L \cup {k}) = Under(L) \cup Group(k) /\ Under(L) \cap Group(k) = {}
    OBVIOUS
  <2>2. Under(L) \in SUBSET S /\ Group(k) \in SUBSET S
    OBVIOUS
  <2>3. sums[k] = SumFunctionOnSet(f, Group(k)) /\ \A j \in K : sums[j] \in Int
    BY <1>0
  <2>4. SumFunctionOnSet(f, Under(L)) = SumFunctionOnSet(sums, L)
    OBVIOUS
  <2> HIDE DEF Under, Group, P
  <2>5. SumFunctionOnSet(f, Under(L) \cup Group(k)) = SumFunctionOnSet(f, Under(L)) + SumFunctionOnSet(f, Group(k))
    BY <1>0, <2>1, <2>2, SumOfUnion
  <2>6. IsFiniteSet(L) /\ L \in SUBSET K
    BY FS_Subset DEF P
  <2>7. SumFunctionOnSet(sums, L \cup {k}) = SumFunctionOnSet(sums, L) + sums[k]
    BY <2>3, <2>6, SumOfOneMore
  <2>8. SumFunctionOnSet(f, Under(L \cup {k})) = SumFunctionOnSet(sums, L \cup {k})
    BY <2>1, <2>3, <2>4, <2>5, <2>7
  <2> QED
    BY <2>6, <2>8 DEF P
<1>3. S = Under(K)
  OBVIOUS
<1> HIDE DEF P, Under
<1>4. K \in P
  BY <1>1, <1>2, SetsGrow
<1>5. SumFunctionOnSet(f, Under(K)) = SumFunctionOnSet(sums, K)
  BY <1>4 DEF P
<1> QED
  BY <1>3, <1>5

\* The same values under other names.
ImageOf(name, S) == {name[x] : x \in S}

\* A sum stays what it is when its elements are given other names.
LEMMA SumRenamed ==
  ASSUME NEW f, NEW S, IsFiniteSet(S), \A x \in S : f[x] \in Int,
         NEW name, \A x, y \in S : name[x] = name[y] => x = y,
         NEW g, \A x \in S : g[name[x]] = f[x]
  PROVE  /\ IsFiniteSet(ImageOf(name, S))
         /\ Cardinality(ImageOf(name, S)) = Cardinality(S)
         /\ SumFunctionOnSet(f, S) = SumFunctionOnSet(g, ImageOf(name, S))
<1> DEFINE Fine(R) == /\ IsFiniteSet(ImageOf(name, R))
                      /\ Cardinality(ImageOf(name, R)) = Cardinality(R)
                      /\ SumFunctionOnSet(f, R) = SumFunctionOnSet(g, ImageOf(name, R))
           P == {R \in SUBSET S : Fine(R)}
<1>1. {} \in P
  <2>1. ImageOf(name, {}) = {}
    BY DEF ImageOf
  <2> QED
    BY <2>1, SumOfNone, FS_EmptySet
<1>2. ASSUME NEW R \in P, NEW x \in S \ R
      PROVE  R \cup {x} \in P
  <2>1. ImageOf(name, R \cup {x}) = ImageOf(name, R) \cup {name[x]} /\ name[x] \notin ImageOf(name, R)
    BY DEF ImageOf
  <2>2. \A n \in ImageOf(name, R) : g[n] \in Int
    BY DEF ImageOf
  <2>3. g[name[x]] = f[x] /\ f[x] \in Int /\ \A y \in R : f[y] \in Int
    OBVIOUS
  <2>4. /\ IsFiniteSet(ImageOf(name, R))
        /\ Cardinality(ImageOf(name, R)) = Cardinality(R)
        /\ SumFunctionOnSet(f, R) = SumFunctionOnSet(g, ImageOf(name, R))
        /\ R \in SUBSET S
    OBVIOUS
  <2>5. IsFiniteSet(R)
    BY FS_Subset
  <2> HIDE DEF P
  <2>6. SumFunctionOnSet(f, R \cup {x}) = SumFunctionOnSet(f, R) + f[x]
    BY <2>3, <2>5, SumOfOneMore
  <2>7. SumFunctionOnSet(g, ImageOf(name, R) \cup {name[x]}) = SumFunctionOnSet(g, ImageOf(name, R)) + g[name[x]]
    BY <2>1, <2>2, <2>3, <2>4, SumOfOneMore
  <2>8. IsFiniteSet(ImageOf(name, R) \cup {name[x]})
        /\ Cardinality(ImageOf(name, R) \cup {name[x]}) = Cardinality(ImageOf(name, R)) + 1
    BY <2>1, <2>4, FS_AddElement
  <2>9. Cardinality(R \cup {x}) = Cardinality(R) + 1
    BY <2>5, FS_AddElement
  <2> QED
    BY <2>1, <2>3, <2>4, <2>6, <2>7, <2>8, <2>9 DEF P
<1> HIDE DEF P
<1>3. S \in P
  BY <1>1, <1>2, SetsGrow
<1> QED
  BY <1>3 DEF P

\* Sums of sums, by rows and by columns.
Crossed(S, T, row, column, rows, columns) ==
    /\ \A x \in S : \A y \in T : row[x][y] \in Int /\ column[y][x] = row[x][y]
    /\ \A x \in S : rows[x] = SumFunctionOnSet(row[x], T)
    /\ \A y \in T : columns[y] = SumFunctionOnSet(column[y], S)

\* Rows and columns of a table add up to the same.
LEMMA SumExchanged ==
  ASSUME NEW S, IsFiniteSet(S), NEW T, IsFiniteSet(T),
         NEW row, NEW column, NEW rows, NEW columns, Crossed(S, T, row, column, rows, columns)
  PROVE  SumFunctionOnSet(rows, S) = SumFunctionOnSet(columns, T)
<1> USE DEF Crossed
<1> DEFINE Part(R) == [y \in T |-> SumFunctionOnSet(column[y], R)]
           P == {R \in SUBSET S : SumFunctionOnSet(rows, R) = SumFunctionOnSet(Part(R), T)}
<1>0. \A R \in SUBSET S : \A y \in T : IsFiniteSet(R) /\ Part(R)[y] = SumFunctionOnSet(column[y], R) /\ Part(R)[y] \in Int
  <2> SUFFICES ASSUME NEW R \in SUBSET S, NEW y \in T
               PROVE  IsFiniteSet(R) /\ SumFunctionOnSet(column[y], R) \in Int
    OBVIOUS
  <2>1. IsFiniteSet(R) /\ \A x \in R : column[y][x] \in Int
    BY FS_Subset
  <2> QED
    BY <2>1, SumWithout
<1>1. {} \in P
  <2>1. \A y \in T : Part({})[y] = 0
    BY <1>0, SumOfNone
  <2> HIDE DEF Part
  <2>2. SumFunctionOnSet(Part({}), T) = 0
    BY <2>1, SumOfZeros
  <2> QED
    BY <2>2, SumOfNone
<1>2. ASSUME NEW R \in P, NEW x \in S \ R
      PROVE  R \cup {x} \in P
  <2>0. R \in SUBSET S /\ R \cup {x} \in SUBSET S /\ IsFiniteSet(R)
    BY FS_Subset
  <2>1. \A z \in S : rows[z] \in Int
    <3> SUFFICES ASSUME NEW z \in S
                 PROVE  SumFunctionOnSet(row[z], T) \in Int
      OBVIOUS
    <3> QED
      BY SumWithout
  <2>2. SumFunctionOnSet(rows, R \cup {x}) = SumFunctionOnSet(rows, R) + rows[x]
    BY <2>0, <2>1, SumOfOneMore
  <2>3. \A y \in T : Part(R \cup {x})[y] = Part(R)[y] + row[x][y]
    <3> SUFFICES ASSUME NEW y \in T
                 PROVE  SumFunctionOnSet(column[y], R \cup {x}) = SumFunctionOnSet(column[y], R) + row[x][y]
      OBVIOUS
    <3>1. column[y][x] = row[x][y] /\ \A z \in R \cup {x} : column[y][z] \in Int
      OBVIOUS
    <3> QED
      BY <2>0, <3>1, SumOfOneMore
  <2>4. \A y \in T : Part(R)[y] \in Int /\ row[x][y] \in Int
    BY <1>0, <2>0
  <2>5. SumFunctionOnSet(rows, R) = SumFunctionOnSet(Part(R), T)
    OBVIOUS
  <2> HIDE DEF Part, P
  <2>6. SumFunctionOnSet(Part(R \cup {x}), T) = SumFunctionOnSet(Part(R), T) + SumFunctionOnSet(row[x], T)
    <3> DEFINE before == Part(R)
               after == Part(R \cup {x})
               added == row[x]
    <3>1. \A y \in T : before[y] \in Int /\ added[y] \in Int /\ after[y] = before[y] + added[y]
      BY <2>3, <2>4
    <3> HIDE DEF before, after, added
    <3>2. SumFunctionOnSet(after, T) = SumFunctionOnSet(before, T) + SumFunctionOnSet(added, T)
      BY <3>1, SumsAdd
    <3> QED
      BY <3>2 DEF before, after, added
  <2> QED
    BY <2>0, <2>2, <2>5, <2>6 DEF P
<1> HIDE DEF P
<1>3. S \in P
  BY <1>1, <1>2, SetsGrow
<1>4. SumFunctionOnSet(rows, S) = SumFunctionOnSet(Part(S), T)
  BY <1>3 DEF P
<1>5. SumFunctionOnSet(Part(S), T) = SumFunctionOnSet(columns, T)
  <2>1. \A y \in T : Part(S)[y] = columns[y] /\ Part(S)[y] \in Int
    BY <1>0
  <2> HIDE DEF Part
  <2> QED
    BY <2>1, SumsAgree
<1> QED
  BY <1>4, <1>5

=============================================================================
