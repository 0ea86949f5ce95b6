---------------------------- MODULE DataInduction ----------------------------
(***************************************************************************)
(* Induction over numbers, with a set in the place of a predicate, and     *)
(* what it proves about SumFunctionOnSet of the community modules, the sum *)
(* of a function over a finite set that the properties of                  *)
(* SubscriptionHolds use.  The library defines the sum by a recursive      *)
(* function on subsets that takes the members in an order of its own;      *)
(* these lemmas say that the recursion has a solution and that the order   *)
(* does not matter.                                                        *)
(***************************************************************************)
EXTENDS FiniteSetsExt, FiniteSetTheorems, TLAPS

-----------------------------------------------------------------------------
(* Induction. *)

\* A set of natural numbers that has a member has a least one.
LEMMA LeastPlace ==
    ASSUME NEW S \in SUBSET Nat, S # {}
    PROVE  \E j \in S : \A k \in S : j <= k
<1>1. PICK x \in S : \A y \in S : ~(<<y, x>> \in OpToRel(<, Nat))
    BY NatLessThanWellFounded, WFMin
<1>2. ASSUME NEW y \in S
      PROVE  x <= y
    <2>1. ~(<<y, x>> \in OpToRel(<, Nat))
        BY <1>1
    <2>2. x \in Nat /\ y \in Nat
        OBVIOUS
    <2>3. ~(y < x)
        BY <2>1, <2>2 DEF OpToRel
    <2> QED
        BY <2>2, <2>3
<1> QED
    BY <1>2

\* A set that holds 0, and with n also n + 1, holds every natural number.
LEMMA NatSet ==
    ASSUME NEW S, 0 \in S, \A n \in Nat : n \in S => n + 1 \in S
    PROVE  \A n \in Nat : n \in S
<1> DEFINE D == Nat \ S
<1> SUFFICES ASSUME NEW m \in D PROVE FALSE
    OBVIOUS
<1>1. PICK n \in D : \A k \in D : n <= k
    BY LeastPlace
<1>2. n \in Nat /\ n # 0 /\ n - 1 \in Nat /\ ~(n <= n - 1)
    OBVIOUS
<1>3. n - 1 \notin D
    BY <1>1, <1>2
<1>4. n - 1 + 1 = n
    BY <1>2
<1> QED
    BY <1>2, <1>3, <1>4

\* A set that holds n + 1, and with k + 1 also k, holds all of 1..n + 1.
LEMMA DownInduction ==
    ASSUME NEW n \in Nat, NEW S, n + 1 \in S, \A k \in 1..n : k + 1 \in S => k \in S
    PROVE  \A k \in 1..(n + 1) : k \in S
<1> DEFINE D == {d \in 0..n : n + 1 - d \notin S}
<1> SUFFICES ASSUME NEW k \in 1..(n + 1), k \notin S PROVE FALSE
    OBVIOUS
<1>1. n + 1 - k \in D /\ D \subseteq Nat
    <2>1. n + 1 - k \in 0..n /\ n + 1 - (n + 1 - k) = k
        OBVIOUS
    <2> QED
        BY <2>1
<1>2. PICK x \in D : \A y \in D : x <= y
    BY <1>1, LeastPlace
<1>3. x \in 0..n /\ n + 1 - x \notin S
    OBVIOUS
<1>4. x # 0
    BY <1>3
<1>5. x - 1 \in 0..n /\ ~(x <= x - 1)
    BY <1>3, <1>4
<1>6. x - 1 \notin D
    BY <1>2, <1>5
<1>7. n + 1 - (x - 1) \in S
    BY <1>5, <1>6
<1>8. n + 1 - (x - 1) = (n + 1 - x) + 1 /\ n + 1 - x \in 1..n
    BY <1>3, <1>4
<1> QED
    BY <1>3, <1>7, <1>8

-----------------------------------------------------------------------------
(* The recursion. *)

\* The member that the sum takes next, and what the sum of T is if g knows the
\* sums of smaller sets.
Taken(T) == CHOOSE x \in T : TRUE
SumAt(f, g, T) == IF T = {} THEN 0 ELSE f[Taken(T)] + g[T \ {Taken(T)}]

\* A function that solves the recursion on the subsets of S.
Sums(f, g, S) == g = [T \in SUBSET S |-> SumAt(f, g, T)]

\* Without the member taken next a finite set is smaller.
LEMMA TakenFacts ==
    ASSUME NEW T, IsFiniteSet(T), T # {}
    PROVE  /\ Taken(T) \in T
           /\ IsFiniteSet(T \ {Taken(T)})
           /\ Cardinality(T) \in Nat /\ Cardinality(T) > 0
           /\ Cardinality(T \ {Taken(T)}) = Cardinality(T) - 1
<1>1. Taken(T) \in T
    BY DEF Taken
<1>2. Cardinality(T) \in Nat /\ Cardinality(T) # 0
    BY FS_CardinalityType, FS_EmptySet
<1> QED
    BY <1>1, <1>2, FS_RemoveElement

\* The recursion has a solution.
LEMMA SumsExist ==
    ASSUME NEW f, NEW S, IsFiniteSet(S)
    PROVE  \E g : Sums(f, g, S)
<1> DEFINE Up(n) == {T \in SUBSET S : Cardinality(T) <= n}
           G(n) == \E g : g = [T \in Up(n) |-> SumAt(f, g, T)]
           N == {n \in Nat : G(n)}
<1>1. \A T \in SUBSET S : IsFiniteSet(T) /\ Cardinality(T) \in Nat
    BY FS_Subset, FS_CardinalityType
<1>2. 0 \in N
    <2> DEFINE e == [T \in Up(0) |-> 0]
    <2>1. \A T \in Up(0) : T = {}
        BY <1>1, FS_EmptySet
    <2>2. \A T \in Up(0) : SumAt(f, e, T) = 0
        BY <2>1 DEF SumAt
    <2>3. e = [T \in Up(0) |-> SumAt(f, e, T)]
        BY <2>2
    <2>4. G(0)
        BY <2>3
    <2> QED
        BY <2>4
<1>3. ASSUME NEW n \in Nat, n \in N PROVE n + 1 \in N
    <2>1. PICK g : g = [T \in Up(n) |-> SumAt(f, g, T)]
        BY <1>3
    <2> DEFINE h == [T \in Up(n + 1) |-> SumAt(f, g, T)]
    <2>2. \A T \in Up(n) : T \in Up(n + 1) /\ h[T] = g[T]
        <3>1. \A T \in Up(n) : T \in Up(n + 1)
            BY <1>1
        <3>2. \A T \in Up(n) : g[T] = SumAt(f, g, T)
            BY <2>1
        <3> QED
            BY <3>1, <3>2
    <2>3. ASSUME NEW T \in Up(n + 1) PROVE SumAt(f, g, T) = SumAt(f, h, T)
        <3>1. CASE T = {}
            BY <3>1 DEF SumAt
        <3>2. CASE T # {}
            <4>1. /\ T \ {Taken(T)} \in SUBSET S
                  /\ Cardinality(T) \in Nat
                  /\ Cardinality(T \ {Taken(T)}) = Cardinality(T) - 1
                BY <1>1, <3>2, TakenFacts
            <4>2. T \ {Taken(T)} \in Up(n)
                BY <4>1
            <4> HIDE DEF h, Up
            <4> QED
                BY <2>2, <4>2 DEF SumAt
        <3> QED
            BY <3>1, <3>2
    <2>4. h = [T \in Up(n + 1) |-> SumAt(f, h, T)]
        <3> DEFINE k == [T \in Up(n + 1) |-> SumAt(f, h, T)]
        <3>1. \A T \in Up(n + 1) : h[T] = k[T]
            BY <2>3
        <3> QED
            BY <3>1
    <2>5. G(n + 1)
        BY <2>4
    <2> QED
        BY <2>5
<1>4. Cardinality(S) \in Nat /\ \A T \in SUBSET S : T \in Up(Cardinality(S))
    BY <1>1, FS_Subset
<1>5. Up(Cardinality(S)) = SUBSET S
    BY <1>4
<1>6. G(Cardinality(S))
    <2> HIDE DEF G
    <2>1. \A n \in Nat : n \in N
        <3> HIDE DEF N
        <3> QED
            BY <1>2, <1>3, NatSet
    <2> QED
        BY <1>4, <2>1
<1>7. \E g : g = [T \in SUBSET S |-> SumAt(f, g, T)]
    BY <1>5, <1>6
<1> QED
    BY <1>7 DEF Sums

\* SumFunctionOnSet is the value of a solution at the whole set.
LEMMA SumUnfolds ==
    ASSUME NEW f, NEW S, IsFiniteSet(S)
    PROVE  \E g : Sums(f, g, S) /\ SumFunctionOnSet(f, S) = g[S]
<1> DEFINE c == CHOOSE g : Sums(f, g, S)
<1>1. Sums(f, c, S)
    BY SumsExist
<1>2. SumFunctionOnSet(f, S) = c[S]
    BY DEF SumFunctionOnSet, FoldFunctionOnSet, MapThenFoldSet, Sums, SumAt, Taken
<1> HIDE DEF c
<1> QED
    BY <1>1, <1>2

\* Solutions for two functions that are ordered on T, on sets that both contain
\* T, are ordered at T; and they are natural numbers.
LEMMA SumsOrdered ==
    ASSUME NEW S, IsFiniteSet(S), NEW R, NEW T \in SUBSET S, T \subseteq R,
           NEW f, NEW e, \A x \in T : f[x] \in Nat /\ e[x] \in Nat /\ f[x] <= e[x],
           NEW g, Sums(f, g, S), NEW h, Sums(e, h, R)
    PROVE  g[T] \in Nat /\ h[T] \in Nat /\ g[T] <= h[T]
<1> DEFINE Ok(U) == g[U] \in Nat /\ h[U] \in Nat /\ g[U] <= h[U]
           N == {n \in Nat : \A U \in SUBSET T : Cardinality(U) = n => Ok(U)}
<1>1. \A U \in SUBSET T : /\ IsFiniteSet(U) /\ Cardinality(U) \in Nat
                          /\ g[U] = SumAt(f, g, U) /\ h[U] = SumAt(e, h, U)
    <2>1. \A U \in SUBSET T : U \in SUBSET S /\ U \in SUBSET R
        OBVIOUS
    <2>2. \A U \in SUBSET T : IsFiniteSet(U) /\ Cardinality(U) \in Nat
        BY <2>1, FS_Subset, FS_CardinalityType
    <2>3. \A U \in SUBSET S : g[U] = SumAt(f, g, U)
        BY DEF Sums
    <2>4. \A U \in SUBSET R : h[U] = SumAt(e, h, U)
        BY DEF Sums
    <2> QED
        BY <2>1, <2>2, <2>3, <2>4
<1>2. 0 \in N
    <2>1. \A U \in SUBSET T : Cardinality(U) = 0 => U = {}
        BY <1>1, FS_EmptySet
    <2>2. g[{}] = 0 /\ h[{}] = 0
        BY <1>1 DEF SumAt
    <2> QED
        BY <2>1, <2>2
<1>3. ASSUME NEW n \in Nat, n \in N PROVE n + 1 \in N
    <2> SUFFICES ASSUME NEW U \in SUBSET T, Cardinality(U) = n + 1 PROVE Ok(U)
        OBVIOUS
    <2> DEFINE x == Taken(U)
    <2>1. U # {}
        BY <1>1, FS_EmptySet
    <2>2. x \in U /\ Cardinality(U \ {x}) = n /\ U \ {x} \in SUBSET T
        BY <1>1, <2>1, TakenFacts
    <2>3. Ok(U \ {x})
        BY <1>3, <2>2
    <2>4. g[U] = f[x] + g[U \ {x}] /\ h[U] = e[x] + h[U \ {x}]
        BY <1>1, <2>1 DEF SumAt
    <2>5. f[x] \in Nat /\ e[x] \in Nat /\ f[x] <= e[x]
        BY <2>2
    <2> HIDE DEF x
    <2> QED
        BY <2>3, <2>4, <2>5
<1>4. \A n \in Nat : n \in N
    <2> HIDE DEF N
    <2> QED
        BY <1>2, <1>3, NatSet
<1> QED
    BY <1>1, <1>4

\* A solution does not depend on which member is taken first.
LEMMA SumsTakeAny ==
    ASSUME NEW S, IsFiniteSet(S), NEW f, \A x \in S : f[x] \in Nat, NEW g, Sums(f, g, S),
           NEW T \in SUBSET S, NEW y \in T
    PROVE  g[T] = f[y] + g[T \ {y}]
<1> DEFINE Ok(U) == \A x \in U : g[U] = f[x] + g[U \ {x}]
           N == {n \in Nat : \A U \in SUBSET S : Cardinality(U) = n => Ok(U)}
<1>1. \A U \in SUBSET S : /\ IsFiniteSet(U) /\ Cardinality(U) \in Nat
                          /\ g[U] = SumAt(f, g, U)
    BY FS_Subset, FS_CardinalityType DEF Sums
<1>2. \A U \in SUBSET S : g[U] \in Nat
    BY SumsOrdered
<1>3. 0 \in N
    BY <1>1, FS_EmptySet
<1>4. ASSUME NEW n \in Nat, n \in N PROVE n + 1 \in N
    <2> SUFFICES ASSUME NEW U \in SUBSET S, Cardinality(U) = n + 1, NEW x \in U
                 PROVE  g[U] = f[x] + g[U \ {x}]
        OBVIOUS
    <2> DEFINE t == Taken(U)
    <2>1. t \in U /\ g[U] = f[t] + g[U \ {t}]
        BY <1>1, TakenFacts DEF SumAt
    <2>2. CASE x = t
        BY <2>1, <2>2
    <2>3. CASE x # t
        <3>1. /\ U \ {t} \in SUBSET S /\ Cardinality(U \ {t}) = n /\ x \in U \ {t}
              /\ U \ {x} \in SUBSET S /\ Cardinality(U \ {x}) = n /\ t \in U \ {x}
            <4>1. IsFiniteSet(U)
                BY <1>1
            <4>2. \A z \in U : Cardinality(U \ {z}) = Cardinality(U) - 1
                BY <4>1, FS_RemoveElement
            <4>3. Cardinality(U \ {t}) = n /\ Cardinality(U \ {x}) = n
                <5> HIDE DEF t
                <5> QED
                    BY <2>1, <4>2
            <4> QED
                BY <2>1, <2>3, <4>3
        <3>2. Ok(U \ {t}) /\ Ok(U \ {x})
            BY <1>4, <3>1
        <3>3. g[U \ {t}] = f[x] + g[(U \ {t}) \ {x}] /\ g[U \ {x}] = f[t] + g[(U \ {x}) \ {t}]
            BY <3>1, <3>2
        <3>4. (U \ {t}) \ {x} = (U \ {x}) \ {t}
            OBVIOUS
        <3>5. f[x] \in Nat /\ f[t] \in Nat /\ g[(U \ {t}) \ {x}] \in Nat
            BY <1>2, <2>1
        <3> HIDE DEF t
        <3> QED
            BY <2>1, <3>3, <3>4, <3>5
    <2> QED
        BY <2>2, <2>3
<1>5. \A n \in Nat : n \in N
    <2> HIDE DEF N
    <2> QED
        BY <1>3, <1>4, NatSet
<1> QED
    BY <1>1, <1>5

-----------------------------------------------------------------------------
(* The sum. *)

\* The sum of natural numbers is one, over no members it is 0.
LEMMA SumType ==
    ASSUME NEW S, IsFiniteSet(S), NEW f, \A x \in S : f[x] \in Nat
    PROVE  /\ SumFunctionOnSet(f, S) \in Nat
           /\ S = {} => SumFunctionOnSet(f, S) = 0
<1>1. PICK g : Sums(f, g, S) /\ SumFunctionOnSet(f, S) = g[S]
    BY SumUnfolds
<1>2. g[S] \in Nat
    <2>1. S \in SUBSET S /\ S \subseteq S /\ \A x \in S : f[x] \in Nat /\ f[x] <= f[x]
        OBVIOUS
    <2> QED
        BY <1>1, <2>1, SumsOrdered
<1>3. g[S] = SumAt(f, g, S)
    BY <1>1 DEF Sums
<1> QED
    BY <1>1, <1>2, <1>3 DEF SumAt

\* A function that is nowhere greater has no greater sum.
LEMMA SumMonotone ==
    ASSUME NEW S, IsFiniteSet(S), NEW f, NEW e,
           \A x \in S : f[x] \in Nat /\ e[x] \in Nat /\ f[x] <= e[x]
    PROVE  SumFunctionOnSet(f, S) <= SumFunctionOnSet(e, S)
<1>1. PICK g : Sums(f, g, S) /\ SumFunctionOnSet(f, S) = g[S]
    BY SumUnfolds
<1>2. PICK h : Sums(e, h, S) /\ SumFunctionOnSet(e, S) = h[S]
    BY SumUnfolds
<1>3. S \in SUBSET S /\ S \subseteq S
    OBVIOUS
<1>4. g[S] <= h[S]
    BY <1>1, <1>2, <1>3, SumsOrdered
<1> QED
    BY <1>1, <1>2, <1>4

\* The sum depends on the values at the members only.
LEMMA SumCongruent ==
    ASSUME NEW S, IsFiniteSet(S), NEW f, NEW e, \A x \in S : f[x] \in Nat /\ e[x] = f[x]
    PROVE  SumFunctionOnSet(f, S) = SumFunctionOnSet(e, S)
<1>1. \A x \in S : e[x] \in Nat /\ f[x] \in Nat /\ f[x] <= e[x] /\ e[x] <= f[x]
    OBVIOUS
<1>2. /\ SumFunctionOnSet(f, S) <= SumFunctionOnSet(e, S)
      /\ SumFunctionOnSet(e, S) <= SumFunctionOnSet(f, S)
    BY <1>1, SumMonotone
<1>3. SumFunctionOnSet(f, S) \in Nat /\ SumFunctionOnSet(e, S) \in Nat
    BY <1>1, SumType
<1> QED
    BY <1>2, <1>3

\* Any member can be taken out of the sum.
LEMMA SumTakeOut ==
    ASSUME NEW S, IsFiniteSet(S), NEW f, \A x \in S : f[x] \in Nat, NEW y \in S
    PROVE  SumFunctionOnSet(f, S) = f[y] + SumFunctionOnSet(f, S \ {y})
<1> DEFINE R == S \ {y}
<1>0. R \in SUBSET S /\ R \in SUBSET R /\ IsFiniteSet(R) /\ S \in SUBSET S
    BY FS_RemoveElement
<1>1. PICK g : Sums(f, g, S) /\ SumFunctionOnSet(f, S) = g[S]
    BY SumUnfolds
<1>2. PICK h : Sums(f, h, R) /\ SumFunctionOnSet(f, R) = h[R]
    BY <1>0, SumUnfolds
<1>3. g[S] = f[y] + g[R]
    BY <1>0, <1>1, SumsTakeAny
<1>4. \A x \in R : f[x] \in Nat /\ f[x] <= f[x]
    OBVIOUS
<1> HIDE DEF R
<1>5. g[R] \in Nat /\ h[R] \in Nat /\ g[R] <= h[R]
    BY <1>0, <1>1, <1>2, <1>4, SumsOrdered
<1>6. h[R] <= g[R]
    BY <1>0, <1>1, <1>2, <1>4, SumsOrdered
<1>7. g[R] = h[R]
    BY <1>5, <1>6
<1> QED
    BY <1>1, <1>2, <1>3, <1>7 DEF R

\* A new value at one member changes the sum by the difference.
LEMMA SumChanged ==
    ASSUME NEW S, IsFiniteSet(S), NEW f, NEW e, NEW y \in S,
           \A x \in S : f[x] \in Nat /\ e[x] \in Nat,
           \A x \in S : x # y => e[x] = f[x]
    PROVE  /\ SumFunctionOnSet(e, S) = SumFunctionOnSet(f, S) - f[y] + e[y]
           /\ f[y] <= SumFunctionOnSet(f, S)
<1>1. IsFiniteSet(S \ {y}) /\ \A x \in S \ {y} : f[x] \in Nat /\ e[x] = f[x]
    BY FS_RemoveElement
<1>2. SumFunctionOnSet(f, S \ {y}) = SumFunctionOnSet(e, S \ {y})
    BY <1>1, SumCongruent
<1>3. /\ SumFunctionOnSet(f, S) = f[y] + SumFunctionOnSet(f, S \ {y})
      /\ SumFunctionOnSet(e, S) = e[y] + SumFunctionOnSet(e, S \ {y})
    BY SumTakeOut
<1>4. SumFunctionOnSet(f, S \ {y}) \in Nat /\ f[y] \in Nat /\ e[y] \in Nat
    BY <1>1, SumType
<1> QED
    BY <1>2, <1>3, <1>4

\* A new member adds its value.
LEMMA SumExtended ==
    ASSUME NEW S, IsFiniteSet(S), NEW R, NEW y \in R, y \notin S, R = S \cup {y},
           NEW f, NEW e, \A x \in S : f[x] \in Nat /\ e[x] = f[x], e[y] \in Nat
    PROVE  SumFunctionOnSet(e, R) = SumFunctionOnSet(f, S) + e[y]
<1>1. IsFiniteSet(R) /\ R \ {y} = S /\ \A x \in R : e[x] \in Nat
    BY FS_AddElement
<1>2. SumFunctionOnSet(e, R) = e[y] + SumFunctionOnSet(e, R \ {y})
    BY <1>1, SumTakeOut
<1>3. SumFunctionOnSet(f, S) = SumFunctionOnSet(e, S) /\ SumFunctionOnSet(f, S) \in Nat
    BY SumCongruent, SumType
<1> QED
    BY <1>1, <1>2, <1>3
=============================================================================
