----------------------------- MODULE TotalTheorems -----------------------------
(***************************************************************************)
(* Lemmas about the total of a column over a finite set of rows.  The fold *)
(* of the community modules is a recursive function on the subsets of the  *)
(* set; that it exists, and what it returns, follow from the               *)
(* well-foundedness of strict inclusion.                                   *)
(***************************************************************************)
EXTENDS Integers, Totals, FiniteSetTheorems, TLAPS

(* A set of subsets of a finite set, if it is not empty, has a minimal     *)
(* one: strict inclusion is well-founded there.                            *)
LEMMA SubsetMinimum ==
    ASSUME NEW S, IsFiniteSet(S), NEW Bad, Bad \subseteq SUBSET S, Bad # {}
    PROVE  \E T \in Bad : \A U \in Bad : U \subseteq T => U = T
<1>1. IsWellFoundedOn(StrictSubsetOrdering(S), SUBSET S)
  BY FS_FiniteSubsetsOfFinite, FS_StrictSubsetOrderingWellFounded
<1>2. \E T \in Bad : \A U \in Bad : ~ (<<U, T>> \in StrictSubsetOrdering(S))
  BY <1>1, WFMin
<1> QED
  BY <1>2 DEF StrictSubsetOrdering

(* A set of subsets that holds every subset all of whose proper subsets it *)
(* holds, holds them all. The induction is stated with the set of the good *)
(* subsets, so that it takes no operator.                                  *)
LEMMA SubsetInduction ==
    ASSUME NEW S, IsFiniteSet(S), NEW Good,
           \A T \in SUBSET S : (\A U \in SUBSET T : U # T => U \in Good) => T \in Good
    PROVE  \A T \in SUBSET S : T \in Good
<1>1. SUFFICES ASSUME (SUBSET S) \ Good # {} PROVE FALSE
  OBVIOUS
<1> DEFINE Bad == (SUBSET S) \ Good
<1>2. \E T \in Bad : \A U \in Bad : U \subseteq T => U = T
  <2>1. Bad \subseteq SUBSET S /\ Bad # {}
    BY <1>1
  <2> HIDE DEF Bad
  <2> QED BY <2>1, SubsetMinimum
<1>3. PICK T \in Bad : \A U \in Bad : U \subseteq T => U = T
  BY <1>2
<1> QED
  BY <1>3

(* A set of subsets that holds the empty one, and grows by one element at  *)
(* a time, holds the whole set.                                            *)
LEMMA FiniteInduction ==
    ASSUME NEW S, IsFiniteSet(S), NEW Good, {} \in Good,
           \A T \in SUBSET S : \A x \in S \ T : T \in Good => T \cup {x} \in Good
    PROVE  S \in Good
<1>1. ASSUME NEW T \in SUBSET S, \A U \in SUBSET T : U # T => U \in Good
      PROVE  T \in Good
  <2>1. CASE T = {}
    BY <2>1
  <2>2. CASE T # {}
    <3>1. PICK x \in T : TRUE
      BY <2>2
    <3>2. T \ {x} \in Good /\ x \in S \ (T \ {x}) /\ T \ {x} \in SUBSET S
      BY <3>1, <1>1
    <3>3. (T \ {x}) \cup {x} \in Good
      BY <3>2
    <3> QED
      BY <3>3
  <2> QED
    BY <2>1, <2>2
<1>2. \A T \in SUBSET S : T \in Good
  BY <1>1, SubsetInduction
<1> QED
  BY <1>2

(* The recursive function that the fold chooses.                           *)
SumStep(f, g, T) ==
    IF T = {} THEN 0 ELSE LET x == CHOOSE x \in T : TRUE IN f[x] + g[T \ {x}]
IsSum(f, S, g) == g = [T \in SUBSET S |-> SumStep(f, g, T)]
Sums(f, S) == CHOOSE g : IsSum(f, S, g)

(* A total is the value of the recursion on the whole set.                 *)
LEMMA Unfold == ASSUME NEW f, NEW S PROVE Total(f, S) = Sums(f, S)[S]
  BY Zenon DEF Total, MapThenSumSet, MapThenFoldSet, Sums, IsSum, SumStep

(* Two recursions over the same column agree wherever both are defined.    *)
LEMMA SumsAgree ==
    ASSUME NEW f, NEW S, NEW V, NEW g, NEW h, IsFiniteSet(S), S \subseteq V,
           IsSum(f, S, g), IsSum(f, V, h)
    PROVE  \A T \in SUBSET S : g[T] = h[T]
<1> DEFINE Good == {T \in SUBSET S : g[T] = h[T]}
<1>1. ASSUME NEW T \in SUBSET S, \A U \in SUBSET T : U # T => U \in Good
      PROVE  T \in Good
  <2>1. g[T] = SumStep(f, g, T) /\ h[T] = SumStep(f, h, T)
    BY DEF IsSum
  <2>2. CASE T = {}
    BY <2>1, <2>2 DEF SumStep
  <2>3. CASE T # {}
    <3> DEFINE x == CHOOSE x \in T : TRUE
    <3>1. x \in T
      BY <2>3
    <3>2. T \ {x} \in Good
      BY <3>1, <1>1
    <3>3. g[T \ {x}] = h[T \ {x}]
      BY <3>2
    <3>4. g[T] = f[x] + g[T \ {x}] /\ h[T] = f[x] + h[T \ {x}]
      BY <2>1, <2>3 DEF SumStep
    <3> QED
      BY <3>3, <3>4
  <2> QED
    BY <2>2, <2>3
<1>2. \A T \in SUBSET S : T \in Good
  <2> HIDE DEF Good
  <2> QED
    BY <1>1, SubsetInduction
<1> QED
  BY <1>2

(* Over a finite set the recursion of the fold exists: CHOOSE finds it.    *)
LEMMA SumsExist ==
    ASSUME NEW f, NEW S, IsFiniteSet(S)
    PROVE  IsSum(f, S, Sums(f, S))
<1> DEFINE Good == {T \in SUBSET S : \E g : IsSum(f, T, g)}
<1>1. ASSUME NEW T \in SUBSET S, \A U \in SUBSET T : U # T => U \in Good
      PROVE  T \in Good
  <2> DEFINE h == [U \in SUBSET T |-> Sums(f, U)[U]]
  <2> DEFINE g == [U \in SUBSET T |-> SumStep(f, h, U)]
  <2>1. ASSUME NEW U \in SUBSET T, U # T
        PROVE  IsSum(f, U, Sums(f, U))
    <3>1. \E k : IsSum(f, U, k)
      BY <1>1, <2>1
    <3> QED
      BY <3>1, Zenon DEF Sums
  <2>2. ASSUME NEW U \in SUBSET T, U # T
        PROVE  h[U] = g[U]
    <3>0. IsSum(f, U, Sums(f, U))
      BY <2>1, <2>2
    <3>1. h[U] = SumStep(f, Sums(f, U), U)
      BY <3>0 DEF IsSum
    <3>2. CASE U = {}
      BY <3>1, <3>2 DEF SumStep
    <3>3. CASE U # {}
      <4> DEFINE x == CHOOSE x \in U : TRUE
      <4>1. x \in U
        BY <3>3
      <4>2. U \ {x} \in SUBSET T /\ U \ {x} # T /\ U \ {x} \subseteq U /\ IsFiniteSet(U \ {x})
        BY <4>1, <2>2, FS_Subset
      <4>3. IsSum(f, U \ {x}, Sums(f, U \ {x}))
        BY <4>2, <2>1
      <4>4. Sums(f, U \ {x})[U \ {x}] = Sums(f, U)[U \ {x}]
        <5> HIDE DEF x
        <5> QED BY <4>2, <4>3, <3>0, SumsAgree
      <4>5. h[U \ {x}] = Sums(f, U)[U \ {x}]
        BY <4>2, <4>4
      <4>6. SumStep(f, Sums(f, U), U) = f[x] + Sums(f, U)[U \ {x}]
        BY <3>3 DEF SumStep
      <4>7. SumStep(f, h, U) = f[x] + h[U \ {x}]
        BY <3>3 DEF SumStep
      <4> QED
        BY <3>1, <4>5, <4>6, <4>7
    <3> QED
      BY <3>2, <3>3
  <2>3. ASSUME NEW U \in SUBSET T
        PROVE  SumStep(f, h, U) = SumStep(f, g, U)
    <3>1. CASE U = {}
      BY <3>1 DEF SumStep
    <3>2. CASE U # {}
      <4> DEFINE x == CHOOSE x \in U : TRUE
      <4>1. x \in U
        BY <3>2
      <4>2. U \ {x} \in SUBSET T /\ U \ {x} # T
        BY <4>1
      <4>3. h[U \ {x}] = g[U \ {x}]
        <5> HIDE DEF x, h, g
        <5> QED BY <4>2, <2>2
      <4>4. SumStep(f, h, U) = f[x] + h[U \ {x}] /\ SumStep(f, g, U) = f[x] + g[U \ {x}]
        <5> HIDE DEF h, g
        <5> QED BY <3>2 DEF SumStep
      <4> QED
        BY <4>3, <4>4
    <3> QED
      BY <3>1, <3>2
  <2>4. IsSum(f, T, g)
    <3> DEFINE k == [U \in SUBSET T |-> SumStep(f, g, U)]
    <3>1. g = k
      <4>1. \A U \in SUBSET T : SumStep(f, h, U) = SumStep(f, g, U)
        BY <2>3
      <4> HIDE DEF h
      <4> QED BY <4>1, Zenon
    <3> HIDE DEF g
    <3> QED BY <3>1 DEF IsSum
  <2> QED
    BY <2>4
<1>2. \A T \in SUBSET S : T \in Good
  <2> HIDE DEF Good
  <2> QED
    BY <1>1, SubsetInduction
<1>3. \E g : IsSum(f, S, g)
  BY <1>2
<1> QED
  BY <1>3, Zenon DEF Sums

(* The total over no rows.                                                 *)
LEMMA TotalEmpty == ASSUME NEW f PROVE Total(f, {}) = 0
<1>1. IsSum(f, {}, Sums(f, {}))
  BY SumsExist, FS_EmptySet
<1> QED
  BY <1>1, Unfold DEF IsSum, SumStep

(* One row, the one that CHOOSE takes, and the total of the rest.          *)
LEMMA TotalChoose ==
    ASSUME NEW f, NEW S, IsFiniteSet(S), S # {}
    PROVE  \E x \in S : Total(f, S) = f[x] + Total(f, S \ {x})
<1> DEFINE x == CHOOSE x \in S : TRUE
<1>1. x \in S
  OBVIOUS
<1>2. IsSum(f, S, Sums(f, S))
  BY SumsExist
<1>3. Sums(f, S)[S] = f[x] + Sums(f, S)[S \ {x}]
  BY <1>2 DEF IsSum, SumStep
<1> HIDE DEF x
<1>4. IsFiniteSet(S \ {x}) /\ S \ {x} \in SUBSET (S \ {x}) /\ S \ {x} \subseteq S
  BY FS_Subset
<1>5. IsSum(f, S \ {x}, Sums(f, S \ {x}))
  BY <1>4, SumsExist
<1>6. Sums(f, S \ {x})[S \ {x}] = Sums(f, S)[S \ {x}]
  BY <1>2, <1>4, <1>5, SumsAgree
<1> QED
  BY <1>1, <1>3, <1>6, Unfold

(* A total of integers is an integer.                                      *)
LEMMA TotalInt ==
    ASSUME NEW f, NEW S, IsFiniteSet(S), \A x \in S : f[x] \in Int
    PROVE  Total(f, S) \in Int
<1> DEFINE Good == {T \in SUBSET S : Total(f, T) \in Int}
<1>1. ASSUME NEW T \in SUBSET S, \A U \in SUBSET T : U # T => U \in Good
      PROVE  T \in Good
  <2>1. CASE T = {}
    BY <2>1, TotalEmpty
  <2>2. CASE T # {}
    <3>1. PICK x \in T : Total(f, T) = f[x] + Total(f, T \ {x})
      BY <2>2, TotalChoose, FS_Subset
    <3>2. Total(f, T \ {x}) \in Int
      BY <1>1, <3>1
    <3> QED
      BY <3>1, <3>2
  <2> QED
    BY <2>1, <2>2
<1>2. \A T \in SUBSET S : T \in Good
  <2> HIDE DEF Good
  <2> QED
    BY <1>1, SubsetInduction
<1> QED
  BY <1>2

(* A total of naturals is a natural.                                       *)
LEMMA TotalNat ==
    ASSUME NEW f, NEW S, IsFiniteSet(S), \A x \in S : f[x] \in Nat
    PROVE  Total(f, S) \in Nat
<1> DEFINE Good == {T \in SUBSET S : Total(f, T) \in Nat}
<1>1. ASSUME NEW T \in SUBSET S, \A U \in SUBSET T : U # T => U \in Good
      PROVE  T \in Good
  <2>1. CASE T = {}
    BY <2>1, TotalEmpty
  <2>2. CASE T # {}
    <3>1. PICK x \in T : Total(f, T) = f[x] + Total(f, T \ {x})
      BY <2>2, TotalChoose, FS_Subset
    <3>2. Total(f, T \ {x}) \in Nat
      BY <1>1, <3>1
    <3> QED
      BY <3>1, <3>2
  <2> QED
    BY <2>1, <2>2
<1>2. \A T \in SUBSET S : T \in Good
  <2> HIDE DEF Good
  <2> QED
    BY <1>1, SubsetInduction
<1> QED
  BY <1>2

(* Any row, and the total of the rest: the order of the rows does not      *)
(* matter.                                                                 *)
LEMMA TotalRemove ==
    ASSUME NEW f, NEW S, IsFiniteSet(S), \A x \in S : f[x] \in Int, NEW x \in S
    PROVE  Total(f, S) = f[x] + Total(f, S \ {x})
<1> DEFINE Good == {T \in SUBSET S : \A y \in T : Total(f, T) = f[y] + Total(f, T \ {y})}
<1>1. ASSUME NEW T \in SUBSET S, \A U \in SUBSET T : U # T => U \in Good
      PROVE  T \in Good
  <2>1. SUFFICES ASSUME NEW y \in T PROVE Total(f, T) = f[y] + Total(f, T \ {y})
    OBVIOUS
  <2>2. PICK z \in T : Total(f, T) = f[z] + Total(f, T \ {z})
    BY TotalChoose, FS_Subset
  <2>3. CASE y = z
    BY <2>2, <2>3
  <2>4. CASE y # z
    <3>1. T \ {z} \in Good /\ T \ {y} \in Good /\ (T \ {z}) \ {y} = (T \ {y}) \ {z}
      BY <1>1
    <3>2. Total(f, T \ {z}) = f[y] + Total(f, (T \ {z}) \ {y})
      BY <3>1, <2>4
    <3>3. Total(f, T \ {y}) = f[z] + Total(f, (T \ {y}) \ {z})
      BY <3>1, <2>4
    <3>4. Total(f, (T \ {z}) \ {y}) \in Int
      BY TotalInt, FS_Subset
    <3>5. f[y] \in Int /\ f[z] \in Int
      OBVIOUS
    <3> DEFINE rest == Total(f, (T \ {z}) \ {y})
    <3>6. Total(f, (T \ {y}) \ {z}) = rest
      BY <3>1
    <3>7. Total(f, T) = f[z] + (f[y] + rest) /\ Total(f, T \ {y}) = f[z] + rest
      BY <2>2, <3>2, <3>3, <3>6
    <3>8. rest \in Int
      BY <3>4
    <3> HIDE DEF rest
    <3> QED
      BY <3>5, <3>7, <3>8
  <2> QED
    BY <2>3, <2>4
<1>2. \A T \in SUBSET S : T \in Good
  <2> HIDE DEF Good
  <2> QED
    BY <1>1, SubsetInduction
<1> QED
  BY <1>2

(* A row more.                                                             *)
LEMMA TotalAdd ==
    ASSUME NEW f, NEW S, IsFiniteSet(S), NEW x, x \notin S,
           \A y \in S \cup {x} : f[y] \in Int
    PROVE  Total(f, S \cup {x}) = f[x] + Total(f, S)
<1>1. IsFiniteSet(S \cup {x}) /\ (S \cup {x}) \ {x} = S
  BY FS_AddElement
<1> QED
  BY <1>1, TotalRemove

(* Equal columns have equal totals.                                        *)
LEMMA TotalEqual ==
    ASSUME NEW f, NEW g, NEW S, IsFiniteSet(S), \A x \in S : f[x] = g[x]
    PROVE  Total(f, S) = Total(g, S)
<1>1. IsSum(f, S, Sums(f, S)) /\ IsSum(g, S, Sums(g, S))
  BY SumsExist
<1> DEFINE Good == {T \in SUBSET S : Sums(f, S)[T] = Sums(g, S)[T]}
<1>2. ASSUME NEW T \in SUBSET S, \A U \in SUBSET T : U # T => U \in Good
      PROVE  T \in Good
  <2>1. CASE T = {}
    BY <1>1, <2>1 DEF IsSum, SumStep
  <2>2. CASE T # {}
    <3> DEFINE x == CHOOSE x \in T : TRUE
    <3>1. x \in T
      BY <2>2
    <3>2. T \ {x} \in Good
      BY <1>2, <3>1
    <3>3. Sums(f, S)[T] = f[x] + Sums(f, S)[T \ {x}] /\ Sums(g, S)[T] = g[x] + Sums(g, S)[T \ {x}]
      BY <1>1, <2>2 DEF IsSum, SumStep
    <3> QED
      BY <3>1, <3>2, <3>3
  <2> QED
    BY <2>1, <2>2
<1>3. \A T \in SUBSET S : T \in Good
  <2> HIDE DEF Good
  <2> QED
    BY <1>2, SubsetInduction
<1> QED
  BY <1>3, Unfold

(* A change in one row changes the total by as much.                       *)
LEMMA TotalUpdate ==
    ASSUME NEW f, NEW g, NEW S, IsFiniteSet(S), NEW x \in S,
           \A y \in S : f[y] \in Int /\ g[y] \in Int,
           \A y \in S \ {x} : g[y] = f[y]
    PROVE  Total(g, S) = Total(f, S) + g[x] - f[x]
<1>1. IsFiniteSet(S \ {x})
  BY FS_Subset
<1>2. Total(f, S) = f[x] + Total(f, S \ {x}) /\ Total(g, S) = g[x] + Total(g, S \ {x})
  BY TotalRemove
<1>3. Total(f, S \ {x}) = Total(g, S \ {x})
  BY <1>1, TotalEqual
<1>4. Total(f, S \ {x}) \in Int /\ f[x] \in Int /\ g[x] \in Int
  BY <1>1, TotalInt
<1> QED
  BY <1>2, <1>3, <1>4

(* The total over two disjoint sets of rows.                               *)
LEMMA TotalUnion ==
    ASSUME NEW f, NEW S, NEW T, IsFiniteSet(S), IsFiniteSet(T), S \cap T = {},
           \A x \in S \cup T : f[x] \in Int
    PROVE  Total(f, S \cup T) = Total(f, S) + Total(f, T)
<1> DEFINE Good == {U \in SUBSET T : Total(f, S \cup U) = Total(f, S) + Total(f, U)}
<1>1. Total(f, S) \in Int
  BY TotalInt
<1>2. {} \in Good
  <2>1. S \cup {} = S
    OBVIOUS
  <2> QED
    BY <1>1, <2>1, TotalEmpty
<1>3. ASSUME NEW U \in SUBSET T, NEW x \in T \ U, U \in Good
      PROVE  U \cup {x} \in Good
  <2>1. IsFiniteSet(U) /\ IsFiniteSet(S \cup U) /\ x \notin U /\ x \notin S \cup U
    BY FS_Subset, FS_Union
  <2>2. \A y \in U \cup {x} : f[y] \in Int
    OBVIOUS
  <2>3. \A y \in (S \cup U) \cup {x} : f[y] \in Int
    OBVIOUS
  <2>4. Total(f, U \cup {x}) = f[x] + Total(f, U)
    BY <2>1, <2>2, TotalAdd
  <2>5. Total(f, (S \cup U) \cup {x}) = f[x] + Total(f, S \cup U)
    BY <2>1, <2>3, TotalAdd
  <2>6. (S \cup U) \cup {x} = S \cup (U \cup {x})
    OBVIOUS
  <2>7. Total(f, U) \in Int /\ f[x] \in Int
    BY <2>1, <2>2, TotalInt
  <2>8. Total(f, S \cup U) = Total(f, S) + Total(f, U)
    BY <1>3
  <2>9. Total(f, S \cup (U \cup {x})) = f[x] + (Total(f, S) + Total(f, U))
    BY <2>5, <2>6, <2>8
  <2>10. Total(f, S \cup (U \cup {x})) = Total(f, S) + Total(f, U \cup {x})
    BY <1>1, <2>4, <2>7, <2>9
  <2> QED
    BY <2>10
<1>4. T \in Good
  <2> HIDE DEF Good
  <2> QED
    BY <1>2, <1>3, FiniteInduction
<1> QED
  BY <1>4

(* A column of zeros.                                                      *)
LEMMA TotalZero ==
    ASSUME NEW f, NEW S, IsFiniteSet(S), \A x \in S : f[x] = 0
    PROVE  Total(f, S) = 0
<1> DEFINE Good == {T \in SUBSET S : Total(f, T) = 0}
<1>1. {} \in Good
  BY TotalEmpty
<1>2. ASSUME NEW T \in SUBSET S, NEW x \in S \ T, T \in Good
      PROVE  T \cup {x} \in Good
  <2>1. IsFiniteSet(T) /\ x \notin T /\ \A y \in T \cup {x} : f[y] \in Int
    BY FS_Subset
  <2>2. Total(f, T \cup {x}) = f[x] + Total(f, T)
    BY <2>1, TotalAdd
  <2> QED
    BY <1>2, <2>2
<1>3. S \in Good
  <2> HIDE DEF Good
  <2> QED
    BY <1>1, <1>2, FiniteInduction
<1> QED
  BY <1>3

(* The total of a sum of columns.                                          *)
LEMMA TotalSum ==
    ASSUME NEW f, NEW g, NEW h, NEW S, IsFiniteSet(S),
           \A x \in S : f[x] \in Int /\ g[x] \in Int /\ h[x] = f[x] + g[x]
    PROVE  Total(h, S) = Total(f, S) + Total(g, S)
<1> DEFINE Good == {T \in SUBSET S : Total(h, T) = Total(f, T) + Total(g, T)}
<1>1. {} \in Good
  BY TotalEmpty
<1>2. ASSUME NEW T \in SUBSET S, NEW x \in S \ T, T \in Good
      PROVE  T \cup {x} \in Good
  <2>1. IsFiniteSet(T) /\ x \notin T
    BY FS_Subset
  <2>2. \A y \in T \cup {x} : f[y] \in Int /\ g[y] \in Int /\ h[y] \in Int
    OBVIOUS
  <2>3. Total(h, T \cup {x}) = h[x] + Total(h, T)
    BY <2>1, <2>2, TotalAdd
  <2>4. Total(f, T \cup {x}) = f[x] + Total(f, T)
    BY <2>1, <2>2, TotalAdd
  <2>5. Total(g, T \cup {x}) = g[x] + Total(g, T)
    BY <2>1, <2>2, TotalAdd
  <2>6. Total(f, T) \in Int /\ Total(g, T) \in Int /\ f[x] \in Int /\ g[x] \in Int
    BY <2>1, TotalInt
  <2>7. Total(h, T) = Total(f, T) + Total(g, T) /\ h[x] = f[x] + g[x]
    BY <1>2
  <2>8. Total(h, T \cup {x}) = Total(f, T \cup {x}) + Total(g, T \cup {x})
    BY <2>3, <2>4, <2>5, <2>6, <2>7
  <2> QED
    BY <2>8
<1>3. S \in Good
  <2> HIDE DEF Good
  <2> QED
    BY <1>1, <1>2, FiniteInduction
<1> QED
  BY <1>3

(* A column that is zero outside some rows totals what those rows do.      *)
LEMMA TotalSupport ==
    ASSUME NEW f, NEW g, NEW S, NEW T, IsFiniteSet(S), T \subseteq S,
           \A x \in T : f[x] \in Int /\ g[x] = f[x],
           \A x \in S \ T : g[x] = 0
    PROVE  Total(g, S) = Total(f, T)
<1>1. IsFiniteSet(T) /\ IsFiniteSet(S \ T) /\ T \cap (S \ T) = {} /\ T \cup (S \ T) = S
  BY FS_Subset
<1>2. \A x \in T \cup (S \ T) : g[x] \in Int
  OBVIOUS
<1>3. Total(g, T \cup (S \ T)) = Total(g, T) + Total(g, S \ T)
  BY <1>1, <1>2, TotalUnion
<1>4. Total(g, S \ T) = 0
  BY <1>1, TotalZero
<1>5. Total(g, T) = Total(f, T)
  BY <1>1, TotalEqual
<1>6. Total(f, T) \in Int
  BY <1>1, TotalInt
<1>7. Total(g, S) = Total(f, T) + 0
  BY <1>1, <1>3, <1>4, <1>5
<1>. QED
  BY <1>6, <1>7
(* The image of a finite set is finite.                                    *)
LEMMA FiniteImage ==
    ASSUME NEW g, NEW T, IsFiniteSet(T)
    PROVE  IsFiniteSet({g[i] : i \in T})
<1> DEFINE Image(U) == {g[i] : i \in U}
           Good == {U \in SUBSET T : IsFiniteSet(Image(U))}
<1>1. {} \in Good
  BY FS_EmptySet
<1>2. ASSUME NEW U \in SUBSET T, NEW x \in T \ U, U \in Good
      PROVE  U \cup {x} \in Good
  <2>1. Image(U \cup {x}) = Image(U) \cup {g[x]} /\ IsFiniteSet(Image(U))
    BY <1>2
  <2> HIDE DEF Image
  <2>2. IsFiniteSet(Image(U) \cup {g[x]})
    BY <2>1, FS_AddElement
  <2>. QED
    BY <2>1, <2>2
<1>3. T \in Good
  <2> HIDE DEF Good
  <2>. QED
    BY <1>1, <1>2, FiniteInduction
<1>. QED
  BY <1>3

(* Rows that are numbered one by one: the total may be taken over the      *)
(* numbers.                                                                *)
LEMMA TotalImage ==
    ASSUME NEW f, NEW g, NEW T, IsFiniteSet(T), \A i \in T : f[g[i]] \in Int,
           \A i, j \in T : g[i] = g[j] => i = j
    PROVE  /\ IsFiniteSet({g[i] : i \in T})
           /\ Total(f, {g[i] : i \in T}) = Total([i \in T |-> f[g[i]]], T)
<1> DEFINE h == [i \in T |-> f[g[i]]]
           Image(U) == {g[i] : i \in U}
           Good == {U \in SUBSET T : /\ IsFiniteSet(Image(U))
                                     /\ Total(f, Image(U)) = Total(h, U)}
<1>1. {} \in Good
  <2>1. Image({}) = {}
    OBVIOUS
  <2>. QED
    BY <2>1, TotalEmpty, FS_EmptySet
<1>2. ASSUME NEW U \in SUBSET T, NEW x \in T \ U, U \in Good
      PROVE  U \cup {x} \in Good
  <2>1. Image(U \cup {x}) = Image(U) \cup {g[x]} /\ g[x] \notin Image(U)
    OBVIOUS
  <2>2. IsFiniteSet(Image(U)) /\ Total(f, Image(U)) = Total(h, U)
    BY <1>2
  <2>3. IsFiniteSet(U) /\ \A y \in U \cup {x} : h[y] \in Int
    BY FS_Subset
  <2>4. \A y \in Image(U) \cup {g[x]} : f[y] \in Int
    OBVIOUS
  <2>5. h[x] = f[g[x]]
    OBVIOUS
  <2> HIDE DEF Image, h
  <2>6. Total(h, U \cup {x}) = h[x] + Total(h, U)
    BY <2>3, TotalAdd
  <2>7. /\ Total(f, Image(U) \cup {g[x]}) = f[g[x]] + Total(f, Image(U))
        /\ IsFiniteSet(Image(U) \cup {g[x]})
    BY <2>1, <2>2, <2>4, TotalAdd, FS_AddElement
  <2>. QED
    BY <2>1, <2>2, <2>5, <2>6, <2>7
<1>3. T \in Good
  <2> HIDE DEF Good
  <2>. QED
    BY <1>1, <1>2, FiniteInduction
<1>. QED
  BY <1>3

-----------------------------------------------------------------------------
(* A finite set of numbers that is not empty has a largest.                *)
LEMMA FiniteMaximum ==
    ASSUME NEW S, IsFiniteSet(S), S # {}, S \subseteq Int
    PROVE  \E x \in S : \A y \in S : y <= x
<1> DEFINE Good == {T \in SUBSET S : T = {} \/ \E x \in T : \A y \in T : y <= x}
<1>1. {} \in Good
  OBVIOUS
<1>2. ASSUME NEW T \in SUBSET S, NEW x \in S \ T, T \in Good
      PROVE  T \cup {x} \in Good
  <2>1. CASE T = {}
    BY <2>1
  <2>2. CASE T # {}
    <3>1. PICK z \in T : \A y \in T : y <= z
      BY <1>2, <2>2
    <3>2. CASE x <= z
      BY <3>1, <3>2
    <3>3. CASE z < x
      <4>1. \A y \in T \cup {x} : y <= x
        BY <3>1, <3>3
      <4>. QED
        BY <4>1
    <3>. QED
      BY <3>2, <3>3
  <2>. QED
    BY <2>1, <2>2
<1>3. S \in Good
  <2> HIDE DEF Good
  <2>. QED
    BY <1>1, <1>2, FiniteInduction
<1>. QED
  BY <1>3

(* And a smallest.                                                         *)
LEMMA FiniteMinimum ==
    ASSUME NEW S, IsFiniteSet(S), S # {}, S \subseteq Int
    PROVE  \E x \in S : \A y \in S : x <= y
<1> DEFINE Good == {T \in SUBSET S : T = {} \/ \E x \in T : \A y \in T : x <= y}
<1>1. {} \in Good
  OBVIOUS
<1>2. ASSUME NEW T \in SUBSET S, NEW x \in S \ T, T \in Good
      PROVE  T \cup {x} \in Good
  <2>1. CASE T = {}
    BY <2>1
  <2>2. CASE T # {}
    <3>1. PICK z \in T : \A y \in T : z <= y
      BY <1>2, <2>2
    <3>2. CASE z <= x
      BY <3>1, <3>2
    <3>3. CASE x < z
      <4>1. \A y \in T \cup {x} : x <= y
        BY <3>1, <3>3
      <4>. QED
        BY <4>1
    <3>. QED
      BY <3>2, <3>3
  <2>. QED
    BY <2>1, <2>2
<1>3. S \in Good
  <2> HIDE DEF Good
  <2>. QED
    BY <1>1, <1>2, FiniteInduction
<1>. QED
  BY <1>3

-----------------------------------------------------------------------------
(* Rows that are taken one after the other, the smallest number first:     *)
(* what row i gives to a demand d.                                         *)
Earlier(S, i) == {j \in S : j < i}
Portion(f, S, d, i) ==
    IF Total(f, Earlier(S, i)) >= d THEN 0
    ELSE IF f[i] + Total(f, Earlier(S, i)) <= d THEN f[i]
    ELSE d - Total(f, Earlier(S, i))
Portions(f, S, d) == [i \in S |-> Portion(f, S, d, i)]

(* A portion is no more than its row has, and a row gives only when every  *)
(* row before it gives all it has.                                         *)
LEMMA PortionBounds ==
    ASSUME NEW S, IsFiniteSet(S), S \subseteq Int, NEW f, \A i \in S : f[i] \in Nat,
           NEW d \in Nat, NEW i \in S
    PROVE  /\ Total(f, Earlier(S, i)) \in Nat
           /\ Portion(f, S, d, i) \in Nat
           /\ Portion(f, S, d, i) <= f[i]
           /\ Portion(f, S, d, i) > 0 =>
                 \A j \in Earlier(S, i) : Portion(f, S, d, j) = f[j]
<1>1. \A T \in SUBSET S : IsFiniteSet(T) /\ Total(f, T) \in Nat
  <2> SUFFICES ASSUME NEW T \in SUBSET S PROVE IsFiniteSet(T) /\ Total(f, T) \in Nat
    OBVIOUS
  <2>1. IsFiniteSet(T)
    BY FS_Subset
  <2>. QED
    BY <2>1, TotalNat
<1>2. \A j : Earlier(S, j) \in SUBSET S
  BY DEF Earlier
<1>3. \A j : Total(f, Earlier(S, j)) \in Nat
  BY <1>1, <1>2
<1>4. Portion(f, S, d, i) \in Nat /\ Portion(f, S, d, i) <= f[i]
  BY <1>3 DEF Portion
<1>5. ASSUME Portion(f, S, d, i) > 0, NEW j \in Earlier(S, i)
      PROVE  Portion(f, S, d, j) = f[j]
  <2>1. Total(f, Earlier(S, i)) < d
    BY <1>3, <1>5 DEF Portion
  <2>2. j \in S /\ j < i
    BY DEF Earlier
  <2> DEFINE T == Earlier(S, j) \cup {j}
             U == Earlier(S, i) \ T
  <2>3. T \subseteq Earlier(S, i) /\ j \notin Earlier(S, j)
    <3>1. j \in Int /\ i \in Int /\ \A y \in S : y \in Int
      BY <2>2
    <3>2. \A y \in S : y < j => y < i
      BY <2>2, <3>1
    <3>3. ~(j < j)
      BY <3>1
    <3>. QED
      BY <2>2, <3>2, <3>3, Zenon DEF Earlier
  <2>4. Total(f, T) = f[j] + Total(f, Earlier(S, j))
    <3>1. IsFiniteSet(Earlier(S, j)) /\ \A y \in Earlier(S, j) \cup {j} : f[y] \in Int
      BY <1>1, <1>2, <2>2
    <3>. QED
      BY <2>3, <3>1, TotalAdd
  <2>5. /\ IsFiniteSet(T) /\ IsFiniteSet(U) /\ T \cap U = {} /\ T \cup U = Earlier(S, i)
        /\ Total(f, U) \in Nat
    BY <1>1, <1>2, <2>3
  <2>6. \A y \in T \cup U : f[y] \in Int
    <3>1. \A y \in Earlier(S, i) : f[y] \in Int
      BY DEF Earlier
    <3>. QED
      BY <2>5, <3>1, Zenon
  <2> HIDE DEF T, U
  <2>7. Total(f, Earlier(S, i)) = Total(f, T) + Total(f, U)
    BY <2>5, <2>6, TotalUnion
  <2>. QED
    BY <1>3, <2>1, <2>2, <2>4, <2>5, <2>7 DEF Portion
<1>. QED
  BY <1>3, <1>4, <1>5

(* Together they give the demand, if the rows cover it.                    *)
LEMMA PortionsSum ==
    ASSUME NEW S, IsFiniteSet(S), S \subseteq Int, NEW f, \A i \in S : f[i] \in Nat,
           NEW d \in Nat, d <= Total(f, S)
    PROVE  Total(Portions(f, S, d), S) = d
<1> DEFINE g == Portions(f, S, d)
           Prefix(T) == \A i \in T : Earlier(S, i) \subseteq T
           Met(T) == IF Total(f, T) <= d THEN Total(f, T) ELSE d
           Good == {T \in SUBSET S : Prefix(T) => Total(g, T) = Met(T)}
<1>1. \A T \in SUBSET S : IsFiniteSet(T) /\ Total(f, T) \in Nat
  <2> SUFFICES ASSUME NEW T \in SUBSET S PROVE IsFiniteSet(T) /\ Total(f, T) \in Nat
    OBVIOUS
  <2>1. IsFiniteSet(T)
    BY FS_Subset
  <2>. QED
    BY <2>1, TotalNat
<1>2. \A i \in S : g[i] = Portion(f, S, d, i)
  BY DEF Portions
<1>3. \A i \in S : g[i] \in Nat
  BY <1>2, PortionBounds
<1> HIDE DEF g
<1>4. ASSUME NEW T \in SUBSET S, \A U \in SUBSET T : U # T => U \in Good, Prefix(T)
      PROVE  Total(g, T) = Met(T)
  <2>1. CASE T = {}
    BY <2>1, TotalEmpty
  <2>2. CASE T # {}
    <3>0. IsFiniteSet(T) /\ T \subseteq Int
      BY <1>1
    <3>1. PICK x \in T : \A y \in T : y <= x
      BY <2>2, <3>0, FiniteMaximum
    <3>2. T \ {x} = Earlier(S, x)
      <4>1. Earlier(S, x) \subseteq T
        BY <1>4
      <4>2. x \notin Earlier(S, x)
        BY <3>0 DEF Earlier
      <4>3. \A y \in T \ {x} : y < x
        BY <3>0, <3>1
      <4>. QED
        BY <4>1, <4>2, <4>3 DEF Earlier
    <3>3. Prefix(T \ {x})
      BY <3>0, <3>2, <1>4 DEF Earlier
    <3>4. T \ {x} \in SUBSET T /\ T \ {x} # T
      OBVIOUS
    <3>5. Total(g, T \ {x}) = Met(T \ {x})
      BY <1>4, <3>3, <3>4
    <3>6. Total(f, T) = f[x] + Total(f, T \ {x})
      <4>1. \A y \in T : f[y] \in Int
        OBVIOUS
      <4>. QED
        BY <3>0, <4>1, TotalRemove
    <3>7. Total(g, T) = g[x] + Total(g, T \ {x})
      <4>1. \A y \in T : g[y] \in Int
        BY <1>3
      <4>. QED
        BY <3>0, <4>1, TotalRemove
    <3>8. Total(f, T \ {x}) \in Nat /\ f[x] \in Nat
      BY <1>1
    <3>9. g[x] = IF Total(f, T \ {x}) >= d THEN 0
                 ELSE IF f[x] + Total(f, T \ {x}) <= d THEN f[x]
                 ELSE d - Total(f, T \ {x})
      BY <1>2, <3>2 DEF Portion
    <3>. QED
      BY <3>5, <3>6, <3>7, <3>8, <3>9
  <2>. QED
    BY <2>1, <2>2
<1>5. \A T \in SUBSET S : T \in Good
  <2>1. \A T \in SUBSET S : (\A U \in SUBSET T : U # T => U \in Good) => T \in Good
    BY <1>4
  <2> HIDE DEF Good
  <2>. QED
    BY <2>1, SubsetInduction
<1>6. Prefix(S)
  BY DEF Earlier
<1>7. Total(g, S) = Met(S)
  BY <1>5, <1>6
<1>. QED
  BY <1>1, <1>7 DEF g

(* Each row rounded by up to k: the total is off by up to k for each.      *)
LEMMA TotalNear ==
    ASSUME NEW f, NEW g, NEW S, IsFiniteSet(S), NEW k \in Nat,
           \A x \in S : f[x] \in Nat /\ g[x] \in Nat,
           \A x \in S : g[x] <= f[x] + k /\ f[x] <= g[x] + k
    PROVE  /\ Total(g, S) <= Total(f, S) + k * Cardinality(S)
           /\ Total(f, S) <= Total(g, S) + k * Cardinality(S)
<1> DEFINE Near(T) == /\ Total(g, T) <= Total(f, T) + k * Cardinality(T)
                      /\ Total(f, T) <= Total(g, T) + k * Cardinality(T)
           Good == {T \in SUBSET S : Near(T)}
<1>1. {} \in Good
  BY TotalEmpty, FS_EmptySet
<1>2. ASSUME NEW T \in SUBSET S, NEW x \in S \ T, T \in Good
      PROVE  T \cup {x} \in Good
  <2>1. IsFiniteSet(T) /\ x \notin T
    BY FS_Subset
  <2>2. Total(f, T \cup {x}) = f[x] + Total(f, T)
    <3>1. \A y \in T \cup {x} : f[y] \in Int
      OBVIOUS
    <3>. QED
      BY <2>1, <3>1, TotalAdd
  <2>3. Total(g, T \cup {x}) = g[x] + Total(g, T)
    <3>1. \A y \in T \cup {x} : g[y] \in Int
      OBVIOUS
    <3>. QED
      BY <2>1, <3>1, TotalAdd
  <2>4. Total(f, T) \in Nat /\ Total(g, T) \in Nat
    <3>1. (\A y \in T : f[y] \in Nat) /\ (\A y \in T : g[y] \in Nat)
      OBVIOUS
    <3>. QED
      BY <2>1, <3>1, TotalNat
  <2>5. Cardinality(T \cup {x}) = Cardinality(T) + 1 /\ Cardinality(T) \in Nat
    BY <2>1, FS_AddElement, FS_CardinalityType
  <2> DEFINE c == Cardinality(T)
             p == k * c
             q == k * Cardinality(T \cup {x})
  <2>6. \A a, b \in Nat : a * (b + 1) = a * b + a /\ a * b \in Nat
    OBVIOUS
  <2>7. q = p + k /\ p \in Nat
    BY <2>5, <2>6
  <2>8. Total(g, T) <= Total(f, T) + p /\ Total(f, T) <= Total(g, T) + p
    BY <1>2
  <2>9. f[x] \in Nat /\ g[x] \in Nat /\ g[x] <= f[x] + k /\ f[x] <= g[x] + k
    OBVIOUS
  <2> HIDE DEF p, q
  <2>10. /\ Total(g, T \cup {x}) <= Total(f, T \cup {x}) + q
         /\ Total(f, T \cup {x}) <= Total(g, T \cup {x}) + q
    BY <2>2, <2>3, <2>4, <2>7, <2>8, <2>9
  <2>. QED
    BY <2>10 DEF q
<1>3. S \in Good
  <2>1. \A T \in SUBSET S : \A x \in S \ T : T \in Good => T \cup {x} \in Good
    BY <1>2
  <2> HIDE DEF Good
  <2>. QED
    BY <1>1, <2>1, FiniteInduction
<1>. QED
  BY <1>3

(* A quantity put on a row, new or not, is put on the total.               *)
LEMMA TotalPut ==
    ASSUME NEW f, NEW g, NEW S, IsFiniteSet(S), \A y \in S : f[y] \in Int,
           NEW x, NEW d \in Int, \A y \in S \ {x} : g[y] = f[y],
           x \in S => g[x] = f[x] + d, x \notin S => g[x] = d
    PROVE  Total(g, S \cup {x}) = Total(f, S) + d
<1>1. Total(f, S) \in Int
  BY TotalInt
<1>2. CASE x \in S
  <2>1. S \cup {x} = S
    BY <1>2
  <2>2. \A y \in S : f[y] \in Int /\ g[y] \in Int
    BY <1>2
  <2>3. Total(g, S) = Total(f, S) + g[x] - f[x]
    BY <1>2, <2>2, TotalUpdate
  <2>4. f[x] \in Int /\ g[x] = f[x] + d
    BY <1>2
  <2>5. Total(g, S) = Total(f, S) + d
    BY <1>1, <2>3, <2>4
  <2>. QED
    BY <2>1, <2>5
<1>3. CASE x \notin S
  <2>1. \A y \in S \cup {x} : g[y] \in Int
    BY <1>3
  <2>2. Total(g, S \cup {x}) = g[x] + Total(g, S)
    BY <1>3, <2>1, TotalAdd
  <2>3. \A y \in S : g[y] = f[y]
    BY <1>3
  <2>4. Total(g, S) = Total(f, S)
    BY <2>3, TotalEqual
  <2>. QED
    BY <1>1, <1>3, <2>2, <2>4
<1>. QED
  BY <1>2, <1>3

(* One column that is nowhere above another: neither is its total, and if  *)
(* the totals are equal so are the columns.                                *)
LEMMA TotalAtMost ==
    ASSUME NEW f, NEW g, NEW S, IsFiniteSet(S),
           \A x \in S : f[x] \in Nat /\ g[x] \in Nat /\ f[x] <= g[x]
    PROVE  /\ Total(f, S) <= Total(g, S)
           /\ Total(f, S) = Total(g, S) => \A x \in S : f[x] = g[x]
<1> DEFINE h == [x \in S |-> g[x] - f[x]]
<1>1. \A x \in S : h[x] \in Nat /\ g[x] = f[x] + h[x]
  OBVIOUS
<1> HIDE DEF h
<1>2. Total(g, S) = Total(f, S) + Total(h, S)
  <2>1. \A x \in S : f[x] \in Int /\ h[x] \in Int /\ g[x] = f[x] + h[x]
    BY <1>1
  <2>. QED
    BY <2>1, TotalSum
<1>3. Total(f, S) \in Nat /\ Total(h, S) \in Nat
  <2>1. \A x \in S : f[x] \in Nat
    OBVIOUS
  <2>2. \A x \in S : h[x] \in Nat
    BY <1>1
  <2>. QED
    BY <2>1, <2>2, TotalNat
<1>4. ASSUME Total(h, S) = 0, NEW x \in S
      PROVE  h[x] = 0
  <2>1. Total(h, S) = h[x] + Total(h, S \ {x})
    <3>1. \A y \in S : h[y] \in Int
      BY <1>1
    <3>. QED
      BY <3>1, TotalRemove
  <2>2. Total(h, S \ {x}) \in Nat
    <3>1. IsFiniteSet(S \ {x}) /\ \A y \in S \ {x} : h[y] \in Nat
      BY <1>1, FS_Subset
    <3>. QED
      BY <3>1, TotalNat
  <2>. QED
    BY <1>1, <1>4, <2>1, <2>2
<1>. QED
  BY <1>1, <1>2, <1>3, <1>4

(* A total of rows of at most k is at most k times their number.           *)
LEMMA TotalBound ==
    ASSUME NEW f, NEW S, IsFiniteSet(S), NEW k \in Nat,
           \A x \in S : f[x] \in Nat /\ f[x] <= k
    PROVE  Total(f, S) <= k * Cardinality(S)
<1> DEFINE z == [x \in S |-> 0]
<1>1. \A x \in S : z[x] \in Nat /\ f[x] \in Nat
  OBVIOUS
<1>2. \A x \in S : f[x] <= z[x] + k /\ z[x] <= f[x] + k
  OBVIOUS
<1>3. Total(z, S) = 0
  <2>1. \A x \in S : z[x] = 0
    OBVIOUS
  <2> HIDE DEF z
  <2>. QED
    BY <2>1, TotalZero
<1> HIDE DEF z
<1>4. Total(f, S) <= Total(z, S) + k * Cardinality(S)
  BY <1>1, <1>2, TotalNear
<1>5. k * Cardinality(S) \in Nat
  <2>1. Cardinality(S) \in Nat
    BY FS_CardinalityType
  <2>2. \A a, b \in Nat : a * b \in Nat
    OBVIOUS
  <2>. QED
    BY <2>1, <2>2
<1>. QED
  BY <1>3, <1>4, <1>5
=============================================================================
