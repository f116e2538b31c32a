----------------------------- MODULE FiniteSums ------------------------------
(***************************************************************************)
(* Sums over finite sets, for every set: what one term contributes, what a *)
(* changed term changes, and that a sum of sums can be taken apart.  The   *)
(* provers cannot instantiate an induction theorem over a predicate, so    *)
(* induction is stated over a set of good subsets, from the fact that a    *)
(* well-founded relation has minimal elements (WFMin).                     *)
(***************************************************************************)
EXTENDS Integers, Functions, FiniteSetTheorems, WellFoundedInduction, TLAPS

-----------------------------------------------------------------------------

\* Every set of natural numbers that has a member has a least one.
THEOREM LeastNumber ==
    ASSUME NEW T \in SUBSET Nat, T # {}
    PROVE  \E n \in T : \A m \in T : n <= m
<1>1. PICK n \in T : \A m \in T : ~ (<<m, n>> \in OpToRel(<, Nat))
  BY NatLessThanWellFounded, WFMin
<1>2. ASSUME NEW m \in T, m < n PROVE FALSE
  <2>1. <<m, n>> \in {ss \in Nat \X Nat : ss[1] < ss[2]}
    BY <1>2
  <2>2. <<m, n>> \in OpToRel(<, Nat)
    BY ONLY <2>1 DEF OpToRel
  <2> QED
    BY <1>1, <2>2
<1>3. \A m \in T : n <= m
  BY <1>2
<1> QED
  BY <1>3

\* Induction over the natural numbers, for a set instead of a predicate.
THEOREM InductionOnNumbers ==
    ASSUME NEW Good \in SUBSET Nat, 0 \in Good, \A n \in Good : n + 1 \in Good
    PROVE  Good = Nat
<1> DEFINE Bad == Nat \ Good
<1>1. SUFFICES ASSUME Bad # {} PROVE FALSE
  OBVIOUS
<1>2. \E n \in Bad : \A m \in Bad : n <= m
  BY <1>1, LeastNumber
<1>3. PICK n \in Bad : \A m \in Bad : n <= m
  BY <1>2
<1>4. n # 0 /\ n - 1 \in Nat
  OBVIOUS
<1>5. n - 1 \in Good
  BY <1>3, <1>4
<1> QED
  BY <1>4, <1>5

\* Induction over the subsets of a finite set, growing by one element.
THEOREM InductionOnSubsets ==
    ASSUME NEW S, IsFiniteSet(S), NEW Good, {} \in Good,
           \A T \in SUBSET S : \A x \in S \ T : T \in Good => T \cup {x} \in Good
    PROVE  \A T \in SUBSET S : T \in Good
<1> DEFINE Bad == (SUBSET S) \ Good
<1>1. SUFFICES ASSUME Bad # {} PROVE FALSE
  OBVIOUS
<1>2. \E T \in Bad : \A U \in Bad : ~ (<<U, T>> \in StrictSubsetOrdering(S))
  <2>1. Bad \subseteq FiniteSubsetsOf(S)
    BY FS_FiniteSubsetsOfFinite
  <2> HIDE DEF Bad
  <2> QED
    BY <1>1, <2>1, FS_StrictSubsetOrderingWellFounded, WFMin
<1>3. PICK T \in Bad : \A U \in Bad : ~ (<<U, T>> \in StrictSubsetOrdering(S))
  BY <1>2
<1>4. PICK x \in T : TRUE
  OBVIOUS
<1>5. T \ {x} \in SUBSET S /\ T \ {x} # T /\ T = (T \ {x}) \cup {x} /\ x \in S \ (T \ {x})
  BY <1>4
<1>6. <<T \ {x}, T>> \in StrictSubsetOrdering(S)
  BY <1>5 DEF StrictSubsetOrdering
<1>7. T \ {x} \in Good
  BY <1>3, <1>5, <1>6
<1> QED
  BY <1>3, <1>5, <1>7

-----------------------------------------------------------------------------

\* The element that the folds of the community modules take first.
Chosen(s) == CHOOSE x \in s : TRUE

\* g holds the partial sums of f over all subsets of S, as the folds compute them.
HoldsSums(g, f, S) ==
    g = [s \in SUBSET S |-> IF s = {} THEN 0 ELSE f[Chosen(s)] + g[s \ {Chosen(s)}]]

\* The sum of the community modules is a function that HoldsSums.
LEMMA SumIsFold ==
    ASSUME NEW f, NEW S
    PROVE  SumFunctionOnSet(f, S) = (CHOOSE g : HoldsSums(g, f, S))[S]
BY DEF SumFunctionOnSet, FoldFunctionOnSet, MapThenFoldSet, HoldsSums, Chosen

\* The recursive definition of a sum over a finite set has a solution: the partial sums
\* of sets of up to n + 1 elements are made of those of up to n.
LEMMA SumsExist ==
    ASSUME NEW f, NEW S, IsFiniteSet(S)
    PROVE  \E g : HoldsSums(g, f, S)
<1> DEFINE Small(n) == {s \in SUBSET S : Cardinality(s) <= n}
           Holds(g, n) == g = [s \in Small(n) |-> IF s = {} THEN 0
                                                  ELSE f[Chosen(s)] + g[s \ {Chosen(s)}]]
           Good == {n \in Nat : \E g : Holds(g, n)}
<1>c. \A s \in SUBSET S : /\ IsFiniteSet(s) /\ Cardinality(s) \in Nat
                          /\ s # {} => /\ Chosen(s) \in s
                                       /\ s \ {Chosen(s)} \in SUBSET S
                                       /\ Cardinality(s \ {Chosen(s)}) = Cardinality(s) - 1
  BY FS_Subset, FS_CardinalityType, FS_RemoveElement DEF Chosen
<1>1. 0 \in Good
  <2>1. \A s \in Small(0) : s = {}
    <3> SUFFICES ASSUME NEW s \in SUBSET S, Cardinality(s) <= 0 PROVE s = {}
      OBVIOUS
    <3>1. IsFiniteSet(s) /\ Cardinality(s) \in Nat
      BY <1>c
    <3>2. Cardinality(s) = 0
      BY <3>1
    <3> QED
      BY <3>1, <3>2, FS_EmptySet
  <2>2. Holds([s \in Small(0) |-> 0], 0)
    BY <2>1
  <2> QED
    BY <2>2
<1>2. \A n \in Good : n + 1 \in Good
  <2> SUFFICES ASSUME NEW n \in Good PROVE n + 1 \in Good
    OBVIOUS
  <2>n. n \in Nat /\ n + 1 \in Nat
    OBVIOUS
  <2>1. PICK g : Holds(g, n)
    OBVIOUS
  <2> DEFINE h == [s \in Small(n + 1) |-> IF s = {} THEN 0
                                          ELSE f[Chosen(s)] + g[s \ {Chosen(s)}]]
  <2>2. \A s \in Small(n) : s \in Small(n + 1) /\ h[s] = g[s]
    <3> TAKE s \in Small(n)
    <3>1. s \in Small(n + 1)
      <4>1. Cardinality(s) \in Nat /\ Cardinality(s) <= n /\ s \in SUBSET S
        BY <1>c
      <4>2. Cardinality(s) <= n + 1
        BY <4>1, <2>n
      <4> QED
        BY <4>1, <4>2
    <3> QED
      BY <3>1, <2>1
  <2>3. \A s \in Small(n + 1) : s # {} => h[s \ {Chosen(s)}] = g[s \ {Chosen(s)}]
    <3> SUFFICES ASSUME NEW s \in Small(n + 1), s # {} PROVE s \ {Chosen(s)} \in Small(n)
      BY <2>2
    <3> QED
      BY <1>c
  <2>4. Holds(h, n + 1)
    BY <2>3
  <2>5. \E k : Holds(k, n + 1)
    <3> HIDE DEF Holds, h
    <3> QED
      BY <2>4
  <2> QED
    BY <2>5, <2>n
<1>3. Good = Nat
  <2> HIDE DEF Good
  <2>1. Good \in SUBSET Nat
    BY DEF Good
  <2> QED
    BY <1>1, <1>2, <2>1, InductionOnNumbers
<1>4. PICK g : Holds(g, Cardinality(S))
  BY <1>3, <1>c
<1>5. Small(Cardinality(S)) = SUBSET S
  BY <1>c, FS_Subset
<1>6. HoldsSums(g, f, S)
  BY <1>4, <1>5 DEF HoldsSums
<1> QED
  BY <1>6

\* and only one.
LEMMA SumsAreUnique ==
    ASSUME NEW f, NEW S, IsFiniteSet(S), NEW g, HoldsSums(g, f, S), NEW T \in SUBSET S,
           NEW h, HoldsSums(h, f, T)
    PROVE  \A s \in SUBSET T : h[s] = g[s]
<1> DEFINE Bad == {s \in SUBSET T : h[s] # g[s]}
<1>1. SUFFICES ASSUME Bad # {} PROVE FALSE
  OBVIOUS
<1>2. IsFiniteSet(T)
  BY FS_Subset
<1>3. \E s \in Bad : \A u \in Bad : ~ (<<u, s>> \in StrictSubsetOrdering(T))
  <2>1. Bad \subseteq FiniteSubsetsOf(T)
    BY <1>2, FS_FiniteSubsetsOfFinite
  <2> HIDE DEF Bad
  <2> QED
    BY <1>1, <2>1, FS_StrictSubsetOrderingWellFounded, WFMin
<1>4. PICK s \in Bad : \A u \in Bad : ~ (<<u, s>> \in StrictSubsetOrdering(T))
  BY <1>3
<1>5. /\ h[s] = IF s = {} THEN 0 ELSE f[Chosen(s)] + h[s \ {Chosen(s)}]
      /\ g[s] = IF s = {} THEN 0 ELSE f[Chosen(s)] + g[s \ {Chosen(s)}]
  BY DEF HoldsSums
<1>6. s # {}
  BY <1>5
<1>7. Chosen(s) \in s
  BY <1>6 DEF Chosen
<1>8. <<s \ {Chosen(s)}, s>> \in StrictSubsetOrdering(T)
  BY <1>7 DEF StrictSubsetOrdering
<1>9. h[s \ {Chosen(s)}] = g[s \ {Chosen(s)}]
  BY <1>4, <1>8
<1> QED
  BY <1>5, <1>9

\* A sum takes the chosen element first.
LEMMA SumUnfolds ==
    ASSUME NEW f, NEW S, IsFiniteSet(S)
    PROVE  SumFunctionOnSet(f, S) = IF S = {} THEN 0
                                    ELSE f[Chosen(S)] + SumFunctionOnSet(f, S \ {Chosen(S)})
<1> DEFINE g == CHOOSE g : HoldsSums(g, f, S)
           T == S \ {Chosen(S)}
           h == CHOOSE h : HoldsSums(h, f, T)
<1>1. HoldsSums(g, f, S)
  BY SumsExist
<1>2. T \in SUBSET S /\ IsFiniteSet(T)
  BY FS_Subset
<1>3. HoldsSums(h, f, T)
  BY <1>2, SumsExist
<1>4. h[T] = g[T]
  <2> HIDE DEF g, h, T
  <2> QED
    BY <1>1, <1>2, <1>3, SumsAreUnique
<1>5. SumFunctionOnSet(f, S) = g[S] /\ SumFunctionOnSet(f, T) = h[T]
  BY SumIsFold
<1>6. g[S] = IF S = {} THEN 0 ELSE f[Chosen(S)] + g[T]
  <2> HIDE DEF g
  <2> QED
    BY <1>1 DEF HoldsSums
<1> QED
  BY <1>4, <1>5, <1>6

-----------------------------------------------------------------------------

\* The sum over nothing is zero.
LEMMA SumOfNone == \A f : SumFunctionOnSet(f, {}) = 0
BY SumUnfolds, FS_EmptySet

\* A sum of integers is an integer.
LEMMA SumIsInteger ==
    ASSUME NEW S, IsFiniteSet(S), NEW f \in [S -> Int]
    PROVE  \A T \in SUBSET S : SumFunctionOnSet(f, T) \in Int
<1> DEFINE F(T) == SumFunctionOnSet(f, T)
           Good == {n \in Nat : \A T \in SUBSET S : Cardinality(T) = n => F(T) \in Int}
<1>c. \A T \in SUBSET S : IsFiniteSet(T) /\ Cardinality(T) \in Nat
  BY FS_Subset, FS_CardinalityType
<1>u. \A T \in SUBSET S : F(T) = IF T = {} THEN 0 ELSE f[Chosen(T)] + F(T \ {Chosen(T)})
  BY <1>c, SumUnfolds
<1> HIDE DEF F
<1>1. 0 \in Good
  BY <1>c, <1>u, FS_EmptySet
<1>2. \A n \in Good : n + 1 \in Good
  <2> SUFFICES ASSUME NEW n \in Good, NEW T \in SUBSET S, Cardinality(T) = n + 1
               PROVE  F(T) \in Int
    OBVIOUS
  <2>n. n \in Nat
    OBVIOUS
  <2>g. \A U \in SUBSET S : Cardinality(U) = n => F(U) \in Int
    OBVIOUS
  <2> HIDE DEF Good
  <2>1. T # {}
    BY <2>n, FS_EmptySet
  <2>2. Chosen(T) \in T
    BY <2>1 DEF Chosen
  <2>3. Cardinality(T \ {Chosen(T)}) = Cardinality(T) - 1
    BY <1>c, <2>2, FS_RemoveElement
  <2>4. F(T \ {Chosen(T)}) \in Int
    BY <2>3, <2>g, <2>n
  <2> QED
    BY <2>1, <2>2, <2>4, <1>u
<1>3. Good = Nat
  <2> HIDE DEF Good
  <2>1. Good \in SUBSET Nat
    BY DEF Good
  <2> QED
    BY <1>1, <1>2, <2>1, InductionOnNumbers
<1>4. \A T \in SUBSET S : F(T) \in Int
  BY <1>3, <1>c
<1> QED
  BY <1>4 DEF F

\* Any element may be taken first.
LEMMA SumTakesAny ==
    ASSUME NEW S, IsFiniteSet(S), NEW f \in [S -> Int]
    PROVE  \A T \in SUBSET S : \A x \in T :
              SumFunctionOnSet(f, T) = f[x] + SumFunctionOnSet(f, T \ {x})
<1> DEFINE F(T) == SumFunctionOnSet(f, T)
           Splits(T) == \A x \in T : F(T) = f[x] + F(T \ {x})
           Good == {n \in Nat : \A T \in SUBSET S : Cardinality(T) = n => Splits(T)}
<1>c. \A T \in SUBSET S : IsFiniteSet(T) /\ Cardinality(T) \in Nat
  BY FS_Subset, FS_CardinalityType
<1>u. \A T \in SUBSET S : F(T) = IF T = {} THEN 0 ELSE f[Chosen(T)] + F(T \ {Chosen(T)})
  BY <1>c, SumUnfolds
<1>i. \A T \in SUBSET S : F(T) \in Int
  BY SumIsInteger
<1> HIDE DEF F
<1>1. 0 \in Good
  <2>1. \A T \in SUBSET S : Cardinality(T) = 0 => T = {}
    BY <1>c, FS_EmptySet
  <2> QED
    BY <2>1
<1>2. \A n \in Good : n + 1 \in Good
  <2> SUFFICES ASSUME NEW n \in Good, NEW T \in SUBSET S, Cardinality(T) = n + 1,
                      NEW x \in T
               PROVE  F(T) = f[x] + F(T \ {x})
    OBVIOUS
  <2>n. n \in Nat
    OBVIOUS
  <2>g. \A U \in SUBSET S : Cardinality(U) = n => Splits(U)
    OBVIOUS
  <2> HIDE DEF Good
  <2>1. PICK c \in T : F(T) = f[c] + F(T \ {c})
    BY <1>u DEF Chosen
  <2>r. \A y \in T : Cardinality(T \ {y}) = Cardinality(T) - 1
    BY <1>c, FS_RemoveElement
  <2>2. Cardinality(T \ {c}) = n /\ Cardinality(T \ {x}) = n
    BY <2>n, <2>r
  <2>3. CASE x # c
    <3>1. F(T \ {c}) = f[x] + F((T \ {c}) \ {x})
      BY <2>2, <2>3, <2>g
    <3>2. F(T \ {x}) = f[c] + F((T \ {x}) \ {c})
      BY <2>2, <2>3, <2>g
    <3>3. (T \ {x}) \ {c} = (T \ {c}) \ {x} /\ (T \ {c}) \ {x} \in SUBSET S
      OBVIOUS
    <3>4. F((T \ {c}) \ {x}) \in Int /\ f[x] \in Int /\ f[c] \in Int
      BY <3>3, <1>i
    <3>5. F((T \ {x}) \ {c}) = F((T \ {c}) \ {x})
      BY <3>3
    <3> QED
      BY <3>1, <3>2, <3>4, <3>5, <2>1
  <2> QED
    BY <2>1, <2>3
<1>3. Good = Nat
  <2> HIDE DEF Good
  <2>1. Good \in SUBSET Nat
    BY DEF Good
  <2> QED
    BY <1>1, <1>2, <2>1, InductionOnNumbers
<1>4. \A T \in SUBSET S : Splits(T)
  BY <1>3, <1>c
<1> QED
  BY <1>4 DEF F

-----------------------------------------------------------------------------

\* The sum of equal terms is equal.
LEMMA SumOfSame ==
    ASSUME NEW S, IsFiniteSet(S), NEW f \in [S -> Int], NEW g \in [S -> Int],
           NEW U \in SUBSET S, \A x \in U : f[x] = g[x]
    PROVE  SumFunctionOnSet(f, U) = SumFunctionOnSet(g, U)
<1> DEFINE Good == {T \in SUBSET U : SumFunctionOnSet(f, T) = SumFunctionOnSet(g, T)}
<1>0. IsFiniteSet(U)
  BY FS_Subset
<1>1. {} \in Good
  BY SumOfNone
<1>2. ASSUME NEW T \in SUBSET U, NEW x \in U \ T, T \in Good PROVE T \cup {x} \in Good
  <2>1. T \cup {x} \in SUBSET S /\ x \in T \cup {x} /\ (T \cup {x}) \ {x} = T
    OBVIOUS
  <2>2. /\ SumFunctionOnSet(f, T \cup {x}) = f[x] + SumFunctionOnSet(f, T)
        /\ SumFunctionOnSet(g, T \cup {x}) = g[x] + SumFunctionOnSet(g, T)
    BY <2>1, SumTakesAny
  <2> QED
    BY <1>2, <2>2
<1>3. \A T \in SUBSET U : T \in Good
  <2> HIDE DEF Good
  <2> QED
    BY <1>0, <1>1, <1>2, InductionOnSubsets
<1> QED
  BY <1>3

\* The sum of all values of a function.
LEMMA SumOfAll ==
    ASSUME NEW S, NEW f, DOMAIN f = S
    PROVE  SumFunction(f) = SumFunctionOnSet(f, S)
BY DEF SumFunction

\* The sum of natural numbers is one, and no less than any of its terms.
THEOREM SumIsNatural ==
    ASSUME NEW S, IsFiniteSet(S), NEW f \in [S -> Nat]
    PROVE  /\ SumFunction(f) \in Nat
           /\ \A x \in S : SumFunction(f) >= f[x]
<1> DEFINE Good == {T \in SUBSET S : SumFunctionOnSet(f, T) \in Nat}
<1>0. f \in [S -> Int]
  OBVIOUS
<1>1. {} \in Good
  BY SumOfNone
<1>2. ASSUME NEW T \in SUBSET S, NEW x \in S \ T, T \in Good PROVE T \cup {x} \in Good
  <2>1. T \cup {x} \in SUBSET S /\ x \in T \cup {x} /\ (T \cup {x}) \ {x} = T
    OBVIOUS
  <2>2. SumFunctionOnSet(f, T \cup {x}) = f[x] + SumFunctionOnSet(f, T)
    BY <1>0, <2>1, SumTakesAny
  <2>3. f[x] \in Nat /\ SumFunctionOnSet(f, T) \in Nat
    BY <1>2
  <2> QED
    BY <2>1, <2>2, <2>3
<1>3. \A T \in SUBSET S : T \in Good
  <2> HIDE DEF Good
  <2> QED
    BY <1>1, <1>2, InductionOnSubsets
<1>4. ASSUME NEW x \in S PROVE SumFunctionOnSet(f, S) >= f[x]
  <2>1. SumFunctionOnSet(f, S) = f[x] + SumFunctionOnSet(f, S \ {x})
    BY <1>0, SumTakesAny
  <2>2. SumFunctionOnSet(f, S \ {x}) \in Nat /\ f[x] \in Nat
    BY <1>3
  <2> QED
    BY <2>1, <2>2
<1> QED
  BY <1>3, <1>4, SumOfAll

\* Changing one term changes the sum by as much.
THEOREM SumOfChange ==
    ASSUME NEW S, IsFiniteSet(S), NEW f \in [S -> Int], NEW g \in [S -> Int],
           NEW x \in S, \A y \in S \ {x} : g[y] = f[y]
    PROVE  /\ SumFunction(f) \in Int
           /\ SumFunction(g) = SumFunction(f) - f[x] + g[x]
<1>1. /\ SumFunctionOnSet(f, S) = f[x] + SumFunctionOnSet(f, S \ {x})
      /\ SumFunctionOnSet(g, S) = g[x] + SumFunctionOnSet(g, S \ {x})
  BY SumTakesAny
<1>2. S \ {x} \in SUBSET S
  OBVIOUS
<1>3. SumFunctionOnSet(g, S \ {x}) = SumFunctionOnSet(f, S \ {x})
  BY <1>2, SumOfSame
<1>4. SumFunctionOnSet(f, S \ {x}) \in Int /\ f[x] \in Int /\ g[x] \in Int
  BY <1>2, SumIsInteger
<1>5. SumFunction(f) = SumFunctionOnSet(f, S) /\ SumFunction(g) = SumFunctionOnSet(g, S)
  BY SumOfAll
<1> QED
  BY <1>1, <1>3, <1>4, <1>5

\* A sum of zeros is zero.
THEOREM SumOfZeros ==
    ASSUME NEW S, IsFiniteSet(S), NEW f \in [S -> Int], \A x \in S : f[x] = 0
    PROVE  SumFunction(f) = 0
<1> DEFINE Good == {T \in SUBSET S : SumFunctionOnSet(f, T) = 0}
<1>1. {} \in Good
  BY SumOfNone
<1>2. ASSUME NEW T \in SUBSET S, NEW x \in S \ T, T \in Good PROVE T \cup {x} \in Good
  <2>1. T \cup {x} \in SUBSET S /\ x \in T \cup {x} /\ (T \cup {x}) \ {x} = T
    OBVIOUS
  <2>2. SumFunctionOnSet(f, T \cup {x}) = f[x] + SumFunctionOnSet(f, T)
    BY <2>1, SumTakesAny
  <2> QED
    BY <1>2, <2>1, <2>2
<1>3. \A T \in SUBSET S : T \in Good
  <2> HIDE DEF Good
  <2> QED
    BY <1>1, <1>2, InductionOnSubsets
<1> QED
  BY <1>3, SumOfAll

\* The sum of a sum of two terms is the sum of both.
THEOREM SumOfSums ==
    ASSUME NEW S, IsFiniteSet(S), NEW f \in [S -> Int], NEW g \in [S -> Int]
    PROVE  /\ SumFunction([x \in S |-> f[x] + g[x]]) = SumFunction(f) + SumFunction(g)
           /\ SumFunction(f) \in Int /\ SumFunction(g) \in Int
<1> DEFINE h == [x \in S |-> f[x] + g[x]]
           Good == {T \in SUBSET S : SumFunctionOnSet(h, T)
                                        = SumFunctionOnSet(f, T) + SumFunctionOnSet(g, T)}
<1>0. h \in [S -> Int]
  OBVIOUS
<1>1. {} \in Good
  BY SumOfNone
<1>2. ASSUME NEW T \in SUBSET S, NEW x \in S \ T, T \in Good PROVE T \cup {x} \in Good
  <2>1. T \cup {x} \in SUBSET S /\ x \in T \cup {x} /\ (T \cup {x}) \ {x} = T
    OBVIOUS
  <2>2. h[x] = f[x] + g[x] /\ f[x] \in Int /\ g[x] \in Int
    OBVIOUS
  <2>3. SumFunctionOnSet(h, T) = SumFunctionOnSet(f, T) + SumFunctionOnSet(g, T)
    BY <1>2
  <2> HIDE DEF h
  <2>4. /\ SumFunctionOnSet(f, T \cup {x}) = f[x] + SumFunctionOnSet(f, T)
        /\ SumFunctionOnSet(g, T \cup {x}) = g[x] + SumFunctionOnSet(g, T)
        /\ SumFunctionOnSet(h, T \cup {x}) = h[x] + SumFunctionOnSet(h, T)
    BY <1>0, <2>1, SumTakesAny
  <2>5. SumFunctionOnSet(f, T) \in Int /\ SumFunctionOnSet(g, T) \in Int
    BY SumIsInteger
  <2>6. SumFunctionOnSet(h, T \cup {x})
           = SumFunctionOnSet(f, T \cup {x}) + SumFunctionOnSet(g, T \cup {x})
    BY <2>2, <2>3, <2>4, <2>5
  <2> QED
    BY <2>1, <2>6
<1>3. \A T \in SUBSET S : T \in Good
  <2> HIDE DEF Good
  <2> QED
    BY <1>1, <1>2, InductionOnSubsets
<1>4. /\ SumFunction(h) = SumFunctionOnSet(h, S)
      /\ SumFunction(f) = SumFunctionOnSet(f, S)
      /\ SumFunction(g) = SumFunctionOnSet(g, S)
  BY SumOfAll
<1> QED
  BY <1>3, <1>4, SumIsInteger

=============================================================================
