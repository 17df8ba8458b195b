---------------------------- MODULE DataLemmas ----------------------------
(***************************************************************************)
(* Facts about the data the models compute with, for every size of it:     *)
(* induction over the naturals and over finite sets, stated for sets       *)
(* instead of predicates; from it the largest element, what a sum over a   *)
(* set and a left fold compute; and dividing by basis points.              *)
(***************************************************************************)
EXTENDS Integers, SequencesExt, WellFoundedInduction, FiniteSetTheorems, TLAPS

\* A non-empty set of natural numbers has a least element.
LEMMA LeastExists ==
  ASSUME NEW S \in SUBSET Nat, S # {}
  PROVE  \E x \in S : \A y \in S : x <= y
<1>1. \E x \in S : \A y \in S : ~(<<y, x>> \in OpToRel(<, Nat))
  BY WFMin, NatLessThanWellFounded
<1>2. ASSUME NEW x \in S, NEW y \in S, ~(<<y, x>> \in OpToRel(<, Nat))
      PROVE  x <= y
  <2>1. x \in Nat /\ y \in Nat OBVIOUS
  <2>2. ~(y < x) BY <1>2, <2>1 DEF OpToRel
  <2> QED BY <2>1, <2>2
<1> QED BY <1>1, <1>2

\* A set that holds 0 and the successor of each of its numbers below n holds
\* every number up to n.
LEMMA UpTo ==
  ASSUME NEW n \in Nat, NEW S, 0 \in S, \A k \in 0..(n - 1) : k \in S => k + 1 \in S
  PROVE  \A k \in 0..n : k \in S
<1> DEFINE T == {k \in 0..n : k \notin S}
<1>1. SUFFICES ASSUME T # {} PROVE FALSE OBVIOUS
<1>2. PICK k \in T : \A j \in T : k <= j
  <2>1. T \in SUBSET Nat OBVIOUS
  <2> HIDE DEF T
  <2> QED BY <1>1, <2>1, LeastExists
<1>3. k # 0 /\ k \in 0..n /\ k - 1 \in 0..(n - 1) OBVIOUS
<1>4. k - 1 \notin T BY <1>2, <1>3
<1>5. k - 1 \in S BY <1>3, <1>4
<1>6. (k - 1) + 1 \in S BY <1>3, <1>5
<1> QED BY <1>3, <1>6

\* A set of natural numbers that holds 0 and every successor is Nat.
LEMMA AllNaturals ==
  ASSUME NEW S, 0 \in S, \A k \in Nat : k \in S => k + 1 \in S
  PROVE  \A k \in Nat : k \in S
<1> SUFFICES ASSUME NEW n \in Nat PROVE n \in S OBVIOUS
<1>1. \A k \in 0..n : k \in S BY UpTo
<1> QED BY <1>1

\* A set without one of its elements has one element less.
LEMMA RemovedOne ==
  ASSUME NEW T, IsFiniteSet(T), NEW x \in T
  PROVE  Cardinality(T \ {x}) = Cardinality(T) - 1
<1> DEFINE n == Cardinality(T \ {x})
<1>1. n = IF x \in T THEN Cardinality(T) - 1 ELSE Cardinality(T) BY FS_RemoveElement
<1> QED BY <1>1

\* A set that holds a subset of a finite S as soon as it holds the subset without
\* any one of its elements holds every subset of S.
LEMMA AllSubsets ==
  ASSUME NEW S, IsFiniteSet(S), NEW P,
         \A T \in SUBSET S : (\A x \in T : T \ {x} \in P) => T \in P
  PROVE  \A T \in SUBSET S : T \in P
<1> DEFINE Q == {k \in Nat : \A T \in SUBSET S : Cardinality(T) = k => T \in P}
<1>1. 0 \in Q
  <2> SUFFICES ASSUME NEW T \in SUBSET S, Cardinality(T) = 0 PROVE T \in P OBVIOUS
  <2>1. IsFiniteSet(T) BY FS_Subset
  <2>2. T = {} BY <2>1, FS_EmptySet
  <2> QED BY <2>2
<1>2. ASSUME NEW k \in Nat, k \in Q PROVE k + 1 \in Q
  <2> SUFFICES ASSUME NEW T \in SUBSET S, Cardinality(T) = k + 1, NEW x \in T
               PROVE  T \ {x} \in P
    OBVIOUS
  <2>1. IsFiniteSet(T) BY FS_Subset
  <2>2. Cardinality(T \ {x}) = k BY <2>1, RemovedOne
  <2> QED BY <1>2, <2>2
<1>3. \A k \in Nat : k \in Q
  <2> HIDE DEF Q
  <2> QED BY <1>1, <1>2, AllNaturals
<1> SUFFICES ASSUME NEW T \in SUBSET S PROVE T \in P OBVIOUS
<1>4. IsFiniteSet(T) BY FS_Subset
<1>5. Cardinality(T) \in Nat BY <1>4, FS_CardinalityType
<1> QED BY <1>3, <1>5

(***************************************************************************)
(* The recursion of Folds!MapThenFoldSet: a function on the subsets of S   *)
(* that takes off one element, the one pick names, and adds it by step.    *)
(***************************************************************************)
Peels(g, S, V, base, pick, step) ==
  /\ g \in [SUBSET S -> V]
  /\ \A T \in SUBSET S :
       g[T] = IF T = {} THEN base ELSE step[<<pick[T], g[T \ {pick[T]}]>>]

LEMMA PeelExists ==
  ASSUME NEW S, IsFiniteSet(S), NEW V, NEW base \in V,
         NEW pick, \A T \in (SUBSET S) \ {{}} : pick[T] \in T,
         NEW step \in [S \X V -> V]
  PROVE  \E g : Peels(g, S, V, base, pick, step)
<1> DEFINE Small(n) == {T \in SUBSET S : Cardinality(T) <= n}
           Right(n, g) ==
             /\ g \in [Small(n) -> V]
             /\ \A T \in Small(n) :
                  g[T] = IF T = {} THEN base ELSE step[<<pick[T], g[T \ {pick[T]}]>>]
           Q == {n \in Nat : \E g : Right(n, g)}
<1>0. \A T \in SUBSET S : IsFiniteSet(T) /\ Cardinality(T) \in Nat
  <2> SUFFICES ASSUME NEW T \in SUBSET S PROVE IsFiniteSet(T) /\ Cardinality(T) \in Nat
    OBVIOUS
  <2> QED BY FS_Subset, FS_CardinalityType
<1>1. \A T \in SUBSET S : T # {} => /\ pick[T] \in T /\ pick[T] \in S
                                    /\ T \ {pick[T]} \in SUBSET S
                                    /\ Cardinality(T \ {pick[T]}) = Cardinality(T) - 1
  <2> SUFFICES ASSUME NEW T \in SUBSET S
               PROVE  T # {} => /\ pick[T] \in T
                                /\ Cardinality(T \ {pick[T]}) = Cardinality(T) - 1
    OBVIOUS
  <2>1. IsFiniteSet(T) /\ Cardinality(T) \in Nat BY <1>0
  <2>2. T # {} => pick[T] \in T OBVIOUS
  <2>3. T # {} => Cardinality(T \ {pick[T]}) = Cardinality(T) - 1
    BY <2>1, <2>2, RemovedOne
  <2> QED BY <2>1, <2>2, <2>3
<1>2. 0 \in Q
  <2>1. \A T \in Small(0) : T = {}
    <3> SUFFICES ASSUME NEW T \in Small(0) PROVE T = {} OBVIOUS
    <3>1. IsFiniteSet(T) /\ Cardinality(T) = 0 BY <1>0
    <3> QED BY <3>1, FS_EmptySet
  <2>2. Right(0, [T \in Small(0) |-> base]) BY <2>1
  <2> HIDE DEF Right
  <2> QED BY <2>2
<1>3. ASSUME NEW n \in Nat, n \in Q PROVE n + 1 \in Q
  <2>1. PICK g : Right(n, g) BY <1>3
  <2> DEFINE h == [T \in Small(n + 1) |->
                     IF T = {} THEN base ELSE step[<<pick[T], g[T \ {pick[T]}]>>]]
  <2>2. \A T \in Small(n) : T \in Small(n + 1) BY <1>0
  <2>8. \A T \in Small(n) : h[T] = g[T] BY <2>1, <2>2
  <2>3. \A T \in Small(n + 1) : T # {} => T \ {pick[T]} \in Small(n) BY <1>0, <1>1
  <2>4. \A T \in Small(n + 1) : h[T] \in V
    <3> SUFFICES ASSUME NEW T \in Small(n + 1), T # {} PROVE h[T] \in V OBVIOUS
    <3>1. g[T \ {pick[T]}] \in V BY <2>1, <2>3
    <3>2. <<pick[T], g[T \ {pick[T]}]>> \in S \X V BY <1>1, <3>1
    <3> QED BY <3>2
  <2>5. h \in [Small(n + 1) -> V] BY <2>4
  <2>6. \A T \in Small(n + 1) :
          h[T] = IF T = {} THEN base ELSE step[<<pick[T], h[T \ {pick[T]}]>>]
    BY <2>3, <2>8
  <2>7. Right(n + 1, h) BY <2>5, <2>6
  <2> HIDE DEF Right
  <2> QED BY <2>7
<1>4. \A n \in Nat : n \in Q
  <2> HIDE DEF Q
  <2> QED BY <1>2, <1>3, AllNaturals
<1>5. Cardinality(S) \in Nat BY FS_CardinalityType
<1>6. PICK g : Right(Cardinality(S), g) BY <1>4, <1>5
<1>7. Small(Cardinality(S)) = SUBSET S BY FS_Subset
<1>8. Peels(g, S, V, base, pick, step) BY <1>6, <1>7 DEF Peels
<1> QED BY <1>8

(***************************************************************************)
(* Functions!SumFunctionOnSet.                                             *)
(***************************************************************************)
Choice(T) == CHOOSE x \in T : TRUE

Sums(g, f, S) ==
  g = [T \in SUBSET S |-> IF T = {} THEN 0 ELSE f[Choice(T)] + g[T \ {Choice(T)}]]

\* The sum over a finite set is what the recursion that defines it returns.
LEMMA SumUnfolds ==
  ASSUME NEW S, IsFiniteSet(S), NEW f, \A i \in S : f[i] \in Int
  PROVE  \E g \in [SUBSET S -> Int] : Sums(g, f, S) /\ SumFunctionOnSet(f, S) = g[S]
<1> DEFINE pick == [T \in SUBSET S |-> Choice(T)]
           step == [p \in S \X Int |-> f[p[1]] + p[2]]
<1>1. \A T \in (SUBSET S) \ {{}} : pick[T] \in T BY Zenon DEF Choice
<1>2. step \in [S \X Int -> Int] OBVIOUS
<1>3. PICK g : Peels(g, S, Int, 0, pick, step)
  <2>1. 0 \in Int OBVIOUS
  <2> HIDE DEF pick, step
  <2> QED BY <1>1, <1>2, <2>1, PeelExists, Zenon
<1>4. g \in [SUBSET S -> Int] BY <1>3 DEF Peels
<1>5. ASSUME NEW T \in SUBSET S
      PROVE  g[T] = IF T = {} THEN 0 ELSE f[Choice(T)] + g[T \ {Choice(T)}]
  <2>1. CASE T = {} BY <1>3, <2>1 DEF Peels
  <2>2. CASE T # {}
    <3>1. pick[T] = Choice(T) /\ Choice(T) \in S BY <1>1, <2>2
    <3>2. g[T \ {Choice(T)}] \in Int BY <1>4
    <3>3. g[T] = step[<<pick[T], g[T \ {pick[T]}]>>]
      <4> HIDE DEF pick, step
      <4> QED BY <1>3, <2>2 DEF Peels
    <3> QED BY <2>2, <3>1, <3>2, <3>3
  <2> QED BY <2>1, <2>2
<1>6. Sums(g, f, S) BY <1>4, <1>5 DEF Sums
<1> DEFINE h == CHOOSE h : Sums(h, f, S)
<1>7. Sums(h, f, S) BY <1>6, Zenon
<1>8. SumFunctionOnSet(f, S) = h[S]
  BY Zenon DEF SumFunctionOnSet, FoldFunctionOnSet, MapThenFoldSet, Sums, Choice
<1>9. h \in [SUBSET S -> Int]
  <2> DEFINE P == {T \in SUBSET S : h[T] \in Int}
  <2> HIDE DEF h
  <2>1. ASSUME NEW T \in SUBSET S, \A x \in T : T \ {x} \in P PROVE T \in P
    <3>1. h[T] = IF T = {} THEN 0 ELSE f[Choice(T)] + h[T \ {Choice(T)}] BY <1>7 DEF Sums
    <3>2. CASE T = {} BY <3>1, <3>2
    <3>3. CASE T # {}
      <4>1. Choice(T) \in T BY <1>1, <3>3
      <4>2. f[Choice(T)] \in Int /\ h[T \ {Choice(T)}] \in Int BY <2>1, <4>1
      <4> QED BY <3>1, <3>3, <4>2
    <3> QED BY <3>2, <3>3
  <2>2. \A T \in SUBSET S : T \in P
    <3> HIDE DEF P
    <3> QED BY <2>1, AllSubsets
  <2> QED BY <1>7, <2>2 DEF Sums
<1> QED BY <1>7, <1>8, <1>9

\* A sum over a finite set is an integer.
LEMMA SumType ==
  ASSUME NEW S, IsFiniteSet(S), NEW f, \A i \in S : f[i] \in Int
  PROVE  SumFunctionOnSet(f, S) \in Int
<1>1. PICK g \in [SUBSET S -> Int] : Sums(g, f, S) /\ SumFunctionOnSet(f, S) = g[S]
  BY SumUnfolds
<1> QED BY <1>1

\* A sum of natural numbers is one.
LEMMA SumNatural ==
  ASSUME NEW S, IsFiniteSet(S), NEW f, \A i \in S : f[i] \in Nat
  PROVE  SumFunctionOnSet(f, S) \in Nat
<1>1. PICK g \in [SUBSET S -> Int] : Sums(g, f, S) /\ SumFunctionOnSet(f, S) = g[S]
  <2>1. \A i \in S : f[i] \in Int OBVIOUS
  <2> QED BY <2>1, SumUnfolds
<1> DEFINE P == {T \in SUBSET S : g[T] \in Nat}
<1>2. ASSUME NEW T \in SUBSET S, \A x \in T : T \ {x} \in P PROVE T \in P
  <2>1. g[T] = IF T = {} THEN 0 ELSE f[Choice(T)] + g[T \ {Choice(T)}] BY <1>1 DEF Sums
  <2>2. CASE T = {} BY <2>1, <2>2
  <2>3. CASE T # {}
    <3>1. Choice(T) \in T BY <2>3, Zenon DEF Choice
    <3>2. f[Choice(T)] \in Nat /\ g[T \ {Choice(T)}] \in Nat BY <1>2, <3>1
    <3> QED BY <2>1, <2>3, <3>2
  <2> QED BY <2>2, <2>3
<1>3. \A T \in SUBSET S : T \in P
  <2> HIDE DEF P
  <2> QED BY <1>2, AllSubsets
<1> QED BY <1>1, <1>3

\* Two functions that agree on a finite set have the same sum over it, by whatever
\* recursion it is computed.
LEMMA SumsAgree ==
  ASSUME NEW S, IsFiniteSet(S), NEW f, NEW e, \A i \in S : f[i] = e[i],
         NEW A, NEW B, S \subseteq A, S \subseteq B,
         NEW g, Sums(g, f, A), NEW h, Sums(h, e, B)
  PROVE  g[S] = h[S]
<1> DEFINE P == {T \in SUBSET S : g[T] = h[T]}
<1>1. ASSUME NEW T \in SUBSET S, \A x \in T : T \ {x} \in P PROVE T \in P
  <2>1. /\ g[T] = IF T = {} THEN 0 ELSE f[Choice(T)] + g[T \ {Choice(T)}]
        /\ h[T] = IF T = {} THEN 0 ELSE e[Choice(T)] + h[T \ {Choice(T)}]
    BY DEF Sums
  <2>2. CASE T = {} BY <2>1, <2>2
  <2>3. CASE T # {}
    <3>1. Choice(T) \in T BY <2>3, Zenon DEF Choice
    <3>2. T \ {Choice(T)} \in P BY <1>1, <3>1
    <3> QED BY <2>1, <2>3, <3>1, <3>2
  <2> QED BY <2>2, <2>3
<1>2. \A T \in SUBSET S : T \in P
  <2> HIDE DEF P
  <2> QED BY <1>1, AllSubsets
<1> QED BY <1>2

LEMMA SumSame ==
  ASSUME NEW S, IsFiniteSet(S), NEW f, NEW e,
         \A i \in S : f[i] \in Int /\ f[i] = e[i]
  PROVE  SumFunctionOnSet(f, S) = SumFunctionOnSet(e, S)
<1>1. PICK g \in [SUBSET S -> Int] : Sums(g, f, S) /\ SumFunctionOnSet(f, S) = g[S]
  BY SumUnfolds
<1>2. PICK h \in [SUBSET S -> Int] : Sums(h, e, S) /\ SumFunctionOnSet(e, S) = h[S]
  BY SumUnfolds
<1> QED BY <1>1, <1>2, SumsAgree

LEMMA SumEmpty == \A f : SumFunctionOnSet(f, {}) = 0
<1> SUFFICES ASSUME NEW f PROVE SumFunctionOnSet(f, {}) = 0 OBVIOUS
<1>1. IsFiniteSet({}) BY FS_EmptySet
<1>2. PICK g \in [SUBSET {} -> Int] : Sums(g, f, {}) /\ SumFunctionOnSet(f, {}) = g[{}]
  BY <1>1, SumUnfolds
<1> QED BY <1>2 DEF Sums

\* The order in which the recursion takes the elements does not matter: any one
\* may be taken off first.
AnyFirst(g, f, S) == \A T \in SUBSET S : \A x \in T : g[T] = f[x] + g[T \ {x}]

LEMMA SumsInAnyOrder ==
  ASSUME NEW S, IsFiniteSet(S), NEW f, \A i \in S : f[i] \in Int
  PROVE  \E g \in [SUBSET S -> Int] :
           Sums(g, f, S) /\ SumFunctionOnSet(f, S) = g[S] /\ AnyFirst(g, f, S)
<1>0. PICK g \in [SUBSET S -> Int] : Sums(g, f, S) /\ SumFunctionOnSet(f, S) = g[S]
  BY SumUnfolds
<1> DEFINE P == {T \in SUBSET S : \A x \in T : g[T] = f[x] + g[T \ {x}]}
<1>1. ASSUME NEW T \in SUBSET S, \A x \in T : T \ {x} \in P PROVE T \in P
  <2> SUFFICES ASSUME NEW x \in T PROVE g[T] = f[x] + g[T \ {x}] OBVIOUS
  <2> DEFINE y == Choice(T)
  <2>1. y \in T BY Zenon DEF Choice
  <2>2. g[T] = f[y] + g[T \ {y}] BY <1>0 DEF Sums
  <2> HIDE DEF y
  <2>3. CASE x = y BY <2>2, <2>3
  <2>4. CASE x # y
    <3>1. T \ {y} \in P /\ x \in T \ {y} BY <1>1, <2>1, <2>4
    <3>2. g[T \ {y}] = f[x] + g[(T \ {y}) \ {x}] BY <3>1
    <3>3. T \ {x} \in P /\ y \in T \ {x} BY <1>1, <2>1, <2>4
    <3>4. g[T \ {x}] = f[y] + g[(T \ {x}) \ {y}] BY <3>3
    <3>5. (T \ {x}) \ {y} = (T \ {y}) \ {x} OBVIOUS
    <3>6. f[x] \in Int /\ f[y] \in Int /\ g[(T \ {x}) \ {y}] \in Int BY <2>1
    <3> DEFINE rest == g[(T \ {y}) \ {x}]
    <3>7. g[T] = f[y] + (f[x] + rest) BY <2>2, <3>2
    <3>8. g[T \ {x}] = f[y] + rest BY <3>4, <3>5
    <3>9. rest \in Int BY <3>5, <3>6
    <3> HIDE DEF rest
    <3> QED BY <3>6, <3>7, <3>8, <3>9
  <2> QED BY <2>3, <2>4
<1>2. \A T \in SUBSET S : T \in P
  <2> HIDE DEF P
  <2> QED BY <1>1, AllSubsets
<1> QED BY <1>0, <1>2 DEF AnyFirst

\* One element more adds its value.
LEMMA SumAdd ==
  ASSUME NEW S, IsFiniteSet(S), NEW x, x \notin S, NEW f, \A i \in S \cup {x} : f[i] \in Int
  PROVE  SumFunctionOnSet(f, S \cup {x}) = f[x] + SumFunctionOnSet(f, S)
<1> DEFINE A == S \cup {x}
<1>1. IsFiniteSet(A) BY FS_AddElement
<1>2. PICK g \in [SUBSET A -> Int] :
        Sums(g, f, A) /\ SumFunctionOnSet(f, A) = g[A] /\ AnyFirst(g, f, A)
  <2>1. \A i \in A : f[i] \in Int OBVIOUS
  <2> HIDE DEF A
  <2> QED BY <1>1, <2>1, SumsInAnyOrder
<1>4. g[A] = f[x] + g[A \ {x}] BY <1>2 DEF AnyFirst
<1>3. PICK h \in [SUBSET S -> Int] : Sums(h, f, S) /\ SumFunctionOnSet(f, S) = h[S]
  BY SumUnfolds
<1>5. A \ {x} = S OBVIOUS
<1>6. g[S] = h[S] BY <1>2, <1>3, SumsAgree
<1> QED BY <1>2, <1>3, <1>4, <1>5, <1>6

\* One value changed changes the sum by as much.
LEMMA SumChanged ==
  ASSUME NEW S, IsFiniteSet(S), NEW x \in S, NEW f, NEW e,
         \A i \in S : f[i] \in Int /\ e[i] \in Int,
         \A i \in S \ {x} : f[i] = e[i]
  PROVE  SumFunctionOnSet(e, S) = SumFunctionOnSet(f, S) - f[x] + e[x]
<1> DEFINE T == S \ {x}
<1>1. IsFiniteSet(T) /\ x \notin T /\ S = T \cup {x} BY FS_RemoveElement
<1> HIDE DEF T
<1>2. SumFunctionOnSet(f, S) = f[x] + SumFunctionOnSet(f, T) BY <1>1, SumAdd
<1>3. SumFunctionOnSet(e, S) = e[x] + SumFunctionOnSet(e, T) BY <1>1, SumAdd
<1>4. SumFunctionOnSet(f, T) = SumFunctionOnSet(e, T) BY <1>1, SumSame DEF T
<1>5. SumFunctionOnSet(f, T) \in Int BY <1>1, SumType
<1>6. f[x] \in Int /\ e[x] \in Int OBVIOUS
<1> QED BY <1>2, <1>3, <1>4, <1>5, <1>6

\* The sum of differences.
LEMMA SumMinus ==
  ASSUME NEW S, IsFiniteSet(S), NEW f, NEW e, NEW d,
         \A i \in S : f[i] \in Int /\ e[i] \in Int /\ d[i] = f[i] - e[i]
  PROVE  SumFunctionOnSet(d, S) = SumFunctionOnSet(f, S) - SumFunctionOnSet(e, S)
<1> DEFINE P == {T \in SUBSET S :
                   SumFunctionOnSet(d, T) = SumFunctionOnSet(f, T) - SumFunctionOnSet(e, T)}
<1>1. ASSUME NEW T \in SUBSET S, \A x \in T : T \ {x} \in P PROVE T \in P
  <2>1. CASE T = {} BY <2>1, SumEmpty
  <2>2. ASSUME NEW x \in T PROVE T \in P
    <3> DEFINE R == T \ {x}
    <3>1. IsFiniteSet(R) /\ x \notin R /\ T = R \cup {x} /\ R \in SUBSET S
      BY FS_Subset
    <3>2. R \in P BY <1>1
    <3>3. \A i \in R \cup {x} : f[i] \in Int /\ e[i] \in Int /\ d[i] \in Int /\ d[i] = f[i] - e[i]
      OBVIOUS
    <3> HIDE DEF R
    <3>4. /\ SumFunctionOnSet(f, T) = f[x] + SumFunctionOnSet(f, R)
          /\ SumFunctionOnSet(e, T) = e[x] + SumFunctionOnSet(e, R)
          /\ SumFunctionOnSet(d, T) = d[x] + SumFunctionOnSet(d, R)
      BY <3>1, <3>3, SumAdd
    <3>5. SumFunctionOnSet(f, R) \in Int /\ SumFunctionOnSet(e, R) \in Int
      BY <3>1, <3>3, SumType
    <3> QED BY <3>2, <3>3, <3>4, <3>5
  <2> QED BY <2>1, <2>2
<1>2. \A T \in SUBSET S : T \in P
  <2> HIDE DEF P
  <2> QED BY <1>1, AllSubsets
<1> QED BY <1>2

\* The sum of as many times each value.
LEMMA SumTimes ==
  ASSUME NEW S, IsFiniteSet(S), NEW c \in Int, NEW f, NEW d,
         \A i \in S : f[i] \in Int /\ d[i] = c * f[i]
  PROVE  SumFunctionOnSet(d, S) = c * SumFunctionOnSet(f, S)
<1> DEFINE P == {T \in SUBSET S : SumFunctionOnSet(d, T) = c * SumFunctionOnSet(f, T)}
<1>1. ASSUME NEW T \in SUBSET S, \A x \in T : T \ {x} \in P PROVE T \in P
  <2>1. CASE T = {} BY <2>1, SumEmpty
  <2>2. ASSUME NEW x \in T PROVE T \in P
    <3> DEFINE R == T \ {x}
    <3>1. IsFiniteSet(R) /\ x \notin R /\ T = R \cup {x} /\ R \in SUBSET S
      BY FS_Subset
    <3>2. R \in P BY <1>1
    <3>3. \A i \in R \cup {x} : f[i] \in Int /\ d[i] \in Int OBVIOUS
    <3> HIDE DEF R
    <3>4. /\ SumFunctionOnSet(f, T) = f[x] + SumFunctionOnSet(f, R)
          /\ SumFunctionOnSet(d, T) = d[x] + SumFunctionOnSet(d, R)
      BY <3>1, <3>3, SumAdd
    <3>5. SumFunctionOnSet(f, R) \in Int BY <3>1, <3>3, SumType
    <3>6. c * (f[x] + SumFunctionOnSet(f, R)) = c * f[x] + c * SumFunctionOnSet(f, R)
      BY <3>3, <3>5
    <3> QED BY <3>2, <3>4, <3>6
  <2> QED BY <2>1, <2>2
<1>2. \A T \in SUBSET S : T \in P
  <2> HIDE DEF P
  <2> QED BY <1>1, AllSubsets
<1> QED BY <1>2

\* Smaller values have the smaller sum.
LEMMA SumAtMost ==
  ASSUME NEW S, IsFiniteSet(S), NEW f, NEW e,
         \A i \in S : f[i] \in Int /\ e[i] \in Int /\ f[i] <= e[i]
  PROVE  SumFunctionOnSet(f, S) <= SumFunctionOnSet(e, S)
<1> DEFINE d == [i \in S |-> e[i] - f[i]]
<1>1. \A i \in S : d[i] \in Nat /\ d[i] = e[i] - f[i] OBVIOUS
<1> HIDE DEF d
<1>2. SumFunctionOnSet(d, S) \in Nat BY <1>1, SumNatural
<1>3. SumFunctionOnSet(d, S) = SumFunctionOnSet(e, S) - SumFunctionOnSet(f, S)
  BY <1>1, SumMinus
<1>4. SumFunctionOnSet(e, S) \in Int /\ SumFunctionOnSet(f, S) \in Int BY SumType
<1> QED BY <1>2, <1>3, <1>4

\* The sum of as many times one number.
LEMMA SumConstant ==
  ASSUME NEW S, IsFiniteSet(S), NEW c \in Int, NEW f, \A i \in S : f[i] = c
  PROVE  SumFunctionOnSet(f, S) = c * Cardinality(S)
<1> DEFINE P == {T \in SUBSET S : SumFunctionOnSet(f, T) = c * Cardinality(T)}
<1>1. ASSUME NEW T \in SUBSET S, \A x \in T : T \ {x} \in P PROVE T \in P
  <2>1. CASE T = {}
    <3>1. Cardinality(T) = 0 BY <2>1, FS_EmptySet
    <3>2. SumFunctionOnSet(f, T) = 0 BY <2>1, SumEmpty
    <3> QED BY <3>1, <3>2
  <2>2. ASSUME NEW x \in T PROVE T \in P
    <3> DEFINE R == T \ {x}
    <3>1. IsFiniteSet(R) /\ IsFiniteSet(T) /\ x \notin R /\ T = R \cup {x} BY FS_Subset
    <3>2. R \in P BY <1>1
    <3>3. Cardinality(R) = Cardinality(T) - 1 /\ Cardinality(T) \in Nat
      BY <3>1, RemovedOne, FS_CardinalityType
    <3>4. \A i \in R \cup {x} : f[i] \in Int /\ f[i] = c OBVIOUS
    <3> HIDE DEF R
    <3>5. SumFunctionOnSet(f, T) = c + SumFunctionOnSet(f, R) BY <3>1, <3>4, SumAdd
    <3>6. SumFunctionOnSet(f, T) = c + c * (Cardinality(T) - 1) BY <3>2, <3>3, <3>5
    <3>7. c + c * (Cardinality(T) - 1) = c * Cardinality(T) BY <3>3
    <3> QED BY <3>6, <3>7
  <2> QED BY <2>1, <2>2
<1>2. \A T \in SUBSET S : T \in P
  <2> HIDE DEF P
  <2> QED BY <1>1, AllSubsets
<1> QED BY <1>2

\* Elements whose value is 0 may be left out.
LEMMA SumSupport ==
  ASSUME NEW S, IsFiniteSet(S), NEW f, \A i \in S : f[i] \in Int,
         NEW R \in SUBSET S, \A i \in S \ R : f[i] = 0
  PROVE  SumFunctionOnSet(f, R) = SumFunctionOnSet(f, S)
<1> DEFINE P == {T \in SUBSET S : SumFunctionOnSet(f, R \cap T) = SumFunctionOnSet(f, T)}
<1>1. ASSUME NEW T \in SUBSET S, \A x \in T : T \ {x} \in P PROVE T \in P
  <2>1. CASE T = {}
    <3>1. R \cap T = T BY <2>1
    <3> QED BY <3>1
  <2>2. ASSUME NEW x \in T PROVE T \in P
    <3> DEFINE U == T \ {x}
    <3>1. IsFiniteSet(U) /\ IsFiniteSet(R \cap U) /\ x \notin U /\ T = U \cup {x}
          /\ x \notin R \cap U
      BY FS_Subset
    <3>2. U \in P BY <1>1
    <3>3. \A i \in U \cup {x} : f[i] \in Int OBVIOUS
    <3>4. R \cap T = IF x \in R THEN (R \cap U) \cup {x} ELSE R \cap U OBVIOUS
    <3>5. x \notin R => f[x] = 0 OBVIOUS
    <3> HIDE DEF U
    <3>6. SumFunctionOnSet(f, T) = f[x] + SumFunctionOnSet(f, U) BY <3>1, <3>3, SumAdd
    <3>7. SumFunctionOnSet(f, (R \cap U) \cup {x}) = f[x] + SumFunctionOnSet(f, R \cap U)
      BY <3>1, <3>3, SumAdd
    <3>8. SumFunctionOnSet(f, U) \in Int BY <3>1, <3>3, SumType
    <3> QED BY <3>2, <3>4, <3>5, <3>6, <3>7, <3>8
  <2> QED BY <2>1, <2>2
<1>2. \A T \in SUBSET S : T \in P
  <2> HIDE DEF P
  <2> QED BY <1>1, AllSubsets
<1>3. R \cap S = R OBVIOUS
<1> QED BY <1>2, <1>3

\* Two parts of the first n numbers.
LEMMA Partition ==
  ASSUME NEW n \in Nat, NEW A, NEW B, A \cup B = 1..n, A \cap B = {}
  PROVE  Cardinality(A) + Cardinality(B) = n
<1>1. IsFiniteSet(1..n) /\ Cardinality(1..n) = n BY FS_Interval
<1>2. IsFiniteSet(A) /\ IsFiniteSet(B)
  <2>1. A \subseteq 1..n /\ B \subseteq 1..n OBVIOUS
  <2> QED BY <1>1, <2>1, FS_Subset
<1>3. Cardinality(A \cup B) = Cardinality(A) + Cardinality(B) - Cardinality(A \cap B)
  BY <1>2, FS_Union
<1>4. Cardinality(A \cap B) = 0 BY FS_EmptySet
<1>5. Cardinality(A) \in Nat /\ Cardinality(B) \in Nat BY <1>2, FS_CardinalityType
<1>6. Cardinality(A \cup B) = n BY <1>1
<1> QED BY <1>3, <1>4, <1>5, <1>6

\* How many of the first n numbers there can be.
LEMMA CountBound ==
  ASSUME NEW n \in Nat, NEW A \in SUBSET (1..n)
  PROVE  Cardinality(A) \in 0..n
<1>1. IsFiniteSet(1..n) /\ Cardinality(1..n) = n BY FS_Interval
<1>2. Cardinality(A) <= n /\ IsFiniteSet(A) BY <1>1, FS_Subset
<1> QED BY <1>2, FS_CardinalityType

\* Three disjoint parts of them are no more than n.
LEMMA ThreeParts ==
  ASSUME NEW n \in Nat, NEW A, NEW B, NEW C, A \subseteq 1..n, B \subseteq 1..n, C \subseteq 1..n,
         A \cap B = {}, (A \cup B) \cap C = {}
  PROVE  Cardinality(A) + Cardinality(B) + Cardinality(C) <= n
<1>1. IsFiniteSet(1..n) /\ Cardinality(1..n) = n
  <2>1. 1 \in Int /\ n \in Int /\ n - 1 + 1 = n OBVIOUS
  <2>2. IsFiniteSet(1..n) BY <2>1, FS_Interval
  <2>3. Cardinality(1..n) = IF 1 > n THEN 0 ELSE n - 1 + 1 BY <2>1, FS_Interval
  <2> QED BY <2>2, <2>3
<1>2. IsFiniteSet(A) /\ IsFiniteSet(B) /\ IsFiniteSet(C) BY <1>1, FS_Subset
<1>3. IsFiniteSet(A \cup B) BY <1>2, FS_Union
<1>4. Cardinality(A \cap B) = 0 /\ Cardinality((A \cup B) \cap C) = 0
  <2>1. Cardinality({}) = 0 BY FS_EmptySet
  <2> QED BY <2>1, Zenon
<1>5. Cardinality(A \cup B) = Cardinality(A) + Cardinality(B) - Cardinality(A \cap B)
  BY <1>2, FS_Union
<1>6. Cardinality((A \cup B) \cup C)
        = Cardinality(A \cup B) + Cardinality(C) - Cardinality((A \cup B) \cap C)
  BY <1>2, <1>3, FS_Union
<1>7. Cardinality((A \cup B) \cup C) <= n
  <2>1. (A \cup B) \cup C \in SUBSET (1..n) OBVIOUS
  <2> QED BY <1>1, <2>1, FS_Subset
<1>8. Cardinality(A) \in Nat /\ Cardinality(B) \in Nat /\ Cardinality(C) \in Nat
  BY <1>2, FS_CardinalityType
<1>9. Cardinality(A \cup B) = Cardinality(A) + Cardinality(B) BY <1>4, <1>5, <1>8
<1>10. Cardinality((A \cup B) \cup C) = Cardinality(A \cup B) + Cardinality(C)
  BY <1>4, <1>6, <1>8, <1>9
<1> QED BY <1>7, <1>8, <1>9, <1>10

\* Y is X and a second copy of it n further on.
Twice(X, Y, n) ==
  /\ X \subseteq 1..n /\ Y \subseteq 1..(2 * n)
  /\ \A i \in 1..n : (i \in X <=> i \in Y) /\ (i \in X <=> n + i \in Y)

\* The sum over both copies is twice the sum.
LEMMA SumTwice ==
  ASSUME NEW n \in Nat, NEW X, NEW Y, Twice(X, Y, n), NEW f, NEW d,
         \A i \in X : f[i] \in Int /\ d[i] = f[i] /\ d[n + i] = f[i]
  PROVE  SumFunctionOnSet(d, Y) = 2 * SumFunctionOnSet(f, X)
<1> DEFINE Copies(T) == {i \in 1..(2 * n) : i \in T \/ i - n \in T}
           P == {T \in SUBSET X : SumFunctionOnSet(d, Copies(T)) = 2 * SumFunctionOnSet(f, T)}
<1>0. X \subseteq 1..n /\ IsFiniteSet(X)
  <2>1. 1 \in Int /\ n \in Int OBVIOUS
  <2>2. IsFiniteSet(1..n) BY <2>1, FS_Interval
  <2> QED BY <2>2, FS_Subset DEF Twice
<1>1. ASSUME NEW T \in SUBSET X, \A x \in T : T \ {x} \in P PROVE T \in P
  <2>1. CASE T = {}
    <3>1. Copies(T) = {} BY <2>1
    <3>2. SumFunctionOnSet(d, {}) = 0 /\ SumFunctionOnSet(f, {}) = 0 BY SumEmpty
    <3>3. SumFunctionOnSet(d, Copies(T)) = 2 * SumFunctionOnSet(f, T)
      <4> HIDE DEF Copies
      <4> QED BY <2>1, <3>1, <3>2
    <3> QED BY <3>3
  <2>2. ASSUME NEW x \in T PROVE T \in P
    <3> DEFINE R == T \ {x}
               U == Copies(R)
    <3>1. x \in 1..n /\ R \in SUBSET (1..n) /\ x \notin R BY <1>0
    <3>2. R \in P BY <1>1
    <3>3. x \notin U /\ n + x \notin U \cup {x} BY <3>1
    <3>4. Copies(T) = (U \cup {x}) \cup {n + x}
      <4>1. ASSUME NEW i \in 1..(2 * n)
            PROVE  (i \in T \/ i - n \in T) <=> (i \in R \/ i - n \in R \/ i = x \/ i = n + x)
        <5>1. i \in T <=> i \in R \/ i = x OBVIOUS
        <5>2. i - n \in T <=> i - n \in R \/ i - n = x OBVIOUS
        <5>3. i - n = x <=> i = n + x BY <3>1
        <5> QED BY <5>1, <5>2, <5>3
      <4>2. x \in 1..(2 * n) /\ n + x \in 1..(2 * n) BY <3>1
      <4> HIDE DEF R
      <4> QED BY <4>1, <4>2
    <3>5. IsFiniteSet(U) /\ IsFiniteSet(U \cup {x})
      <4>1. 1 \in Int /\ 2 * n \in Int OBVIOUS
      <4>2. IsFiniteSet(1..(2 * n)) BY <4>1, FS_Interval
      <4>3. IsFiniteSet(U) BY <4>2, FS_Subset
      <4> HIDE DEF U
      <4> QED BY <4>3, FS_AddElement
    <3>6. \A i \in (U \cup {x}) \cup {n + x} : d[i] \in Int
      <4> SUFFICES ASSUME NEW i \in (U \cup {x}) \cup {n + x} PROVE d[i] \in Int OBVIOUS
      <4>1. i \in X \/ i - n \in X BY <3>1
      <4>2. i \in Int BY <3>1
      <4>3. i - n \in X => i = n + (i - n) BY <4>2
      <4> QED BY <4>1, <4>3
    <3>7. d[x] = f[x] /\ d[n + x] = f[x] /\ f[x] \in Int OBVIOUS
    <3>8. IsFiniteSet(R) /\ T = R \cup {x} /\ (\A i \in R \cup {x} : f[i] \in Int) BY <1>0, FS_Subset
    <3>9. SumFunctionOnSet(d, U) = 2 * SumFunctionOnSet(f, R) BY <3>2
    <3> HIDE DEF Copies, U, R
    <3>10. SumFunctionOnSet(f, T) = f[x] + SumFunctionOnSet(f, R) BY <3>1, <3>8, SumAdd
    <3>11. SumFunctionOnSet(d, U \cup {x}) = d[x] + SumFunctionOnSet(d, U)
      BY <3>3, <3>5, <3>6, SumAdd
    <3>12. SumFunctionOnSet(d, (U \cup {x}) \cup {n + x}) = d[n + x] + SumFunctionOnSet(d, U \cup {x})
      BY <3>3, <3>5, <3>6, SumAdd
    <3>13. SumFunctionOnSet(f, R) \in Int BY <3>8, SumType
    <3>14. SumFunctionOnSet(d, Copies(T)) = 2 * SumFunctionOnSet(f, T)
      BY <3>4, <3>7, <3>9, <3>10, <3>11, <3>12, <3>13
    <3> QED BY <3>14
  <2> QED BY <2>1, <2>2
<1>2. \A T \in SUBSET X : T \in P
  <2> HIDE DEF P
  <2> QED BY <1>0, <1>1, AllSubsets
<1>3. Copies(X) = Y
  <2> SUFFICES ASSUME NEW i \in 1..(2 * n) PROVE i \in Y <=> (i \in X \/ i - n \in X)
    BY DEF Twice
  <2>1. CASE i \in 1..n
    <3>1. i - n \notin X BY <1>0, <2>1
    <3> QED BY <2>1, <3>1 DEF Twice
  <2>2. CASE i \notin 1..n
    <3>1. i - n \in 1..n /\ n + (i - n) = i BY <2>2
    <3>2. i \notin X BY <1>0, <2>2
    <3> QED BY <3>1, <3>2 DEF Twice
  <2> QED BY <2>1, <2>2
<1> QED BY <1>2, <1>3

LEMMA CardinalityTwice ==
  ASSUME NEW n \in Nat, NEW X, NEW Y, Twice(X, Y, n)
  PROVE  Cardinality(Y) = 2 * Cardinality(X) /\ Cardinality(X) \in Nat
<1> DEFINE one == [i \in X |-> 1]
           ones == [i \in Y |-> 1]
<1>1. IsFiniteSet(X) /\ IsFiniteSet(Y)
  <2>1. 1 \in Int /\ n \in Int /\ 2 * n \in Int OBVIOUS
  <2>2. IsFiniteSet(1..n) /\ IsFiniteSet(1..(2 * n)) BY <2>1, FS_Interval
  <2> QED BY <2>2, FS_Subset DEF Twice
<1>2. \A i \in X : one[i] \in Int /\ ones[i] = one[i] /\ ones[n + i] = one[i] BY DEF Twice
<1>3. (\A i \in X : one[i] = 1) /\ (\A i \in Y : ones[i] = 1) OBVIOUS
<1> HIDE DEF one, ones
<1>4. SumFunctionOnSet(ones, Y) = 2 * SumFunctionOnSet(one, X) BY <1>2, SumTwice
<1>5. 1 \in Int /\ Cardinality(X) \in Nat /\ Cardinality(Y) \in Nat BY <1>1, FS_CardinalityType
<1>6. SumFunctionOnSet(one, X) = 1 * Cardinality(X) BY <1>1, <1>3, <1>5, SumConstant
<1>7. SumFunctionOnSet(ones, Y) = 1 * Cardinality(Y) BY <1>1, <1>3, <1>5, SumConstant
<1> QED BY <1>4, <1>5, <1>6, <1>7

(***************************************************************************)
(* SequencesExt!FoldLeft takes the indices of a sequence from the last.    *)
(***************************************************************************)
\* The greatest number of an interval that starts at 1.
LEMMA MaxOfInterval ==
  ASSUME NEW n \in Nat, n # 0
  PROVE  Max(1..n) = n
<1>1. n \in 1..n /\ \A k \in 1..n : n >= k OBVIOUS
<1>2. \A x \in 1..n : (\A k \in 1..n : x >= k) => x = n OBVIOUS
<1>3. Max(1..n) = CHOOSE x \in 1..n : \A k \in 1..n : x >= k BY DEF Max
<1> QED BY <1>1, <1>2, <1>3

LEMMA MaxOfIndices ==
  ASSUME NEW n \in Nat, NEW T \in SUBSET (1..n), T # {}
  PROVE  Max(T) \in T
<1> DEFINE U == {k \in Nat : n - k \in T}
<1>1. PICK i \in T : TRUE OBVIOUS
<1>2. n - i \in U OBVIOUS
<1>3. PICK k \in U : \A j \in U : k <= j
  <2>1. U \in SUBSET Nat OBVIOUS
  <2> HIDE DEF U
  <2> QED BY <1>2, <2>1, LeastExists
<1>4. \A j \in T : n - j \in U OBVIOUS
<1>5. n - k \in T /\ \A j \in T : n - k >= j BY <1>3, <1>4
<1>6. Max(T) = CHOOSE x \in T : \A y \in T : x >= y BY DEF Max
<1> QED BY <1>5, <1>6, Zenon

(***************************************************************************)
(* The largest element.                                                    *)
(***************************************************************************)
\* A bounded non-empty set of natural numbers contains its maximum.
LEMMA MaxExists ==
  ASSUME NEW S \in SUBSET Nat, NEW K \in Nat, \A x \in S : x <= K, S # {}
  PROVE  Max(S) \in S /\ \A y \in S : y <= Max(S)
<1> DEFINE T == {n \in Nat : \E x \in S : n = K - x}
<1>1. T # {}
  <2>1. PICK x \in S : TRUE OBVIOUS
  <2>2. K - x \in T BY <2>1
  <2> QED BY <2>2
<1>2. PICK n \in T : \A m \in T : n <= m
  <2> HIDE DEF T
  <2>1. T \in SUBSET Nat BY DEF T
  <2> QED BY <1>1, <2>1, LeastExists
<1>3. PICK x \in S : n = K - x BY <1>2
<1>4. \A y \in S : x >= y
  <2> TAKE y \in S
  <2>1. K - y \in T OBVIOUS
  <2>2. n <= K - y BY <1>2, <2>1
  <2> QED BY <1>3, <2>2
<1>5. \E z \in S : \A y \in S : z >= y BY <1>4
<1> QED BY <1>5 DEF Max

\* The larger of two prices.
LEMMA MinExists ==
  ASSUME NEW S \in SUBSET Nat, S # {}
  PROVE  Min(S) \in S /\ \A y \in S : Min(S) <= y
<1>1. \E x \in S : \A y \in S : x <= y BY LeastExists
<1> QED BY <1>1 DEF Min

LEMMA MaxOfTwo ==
  ASSUME NEW a \in Int, NEW b \in Int
  PROVE  Max({a, b}) = IF a >= b THEN a ELSE b
<1>1. \E x \in {a, b} : \A y \in {a, b} : x >= y OBVIOUS
<1>2. Max({a, b}) \in {a, b} /\ \A y \in {a, b} : Max({a, b}) >= y BY <1>1 DEF Max
<1> QED BY <1>2

LEMMA MinOfTwo ==
  ASSUME NEW a \in Int, NEW b \in Int
  PROVE  Min({a, b}) = IF a <= b THEN a ELSE b
<1>1. \E x \in {a, b} : \A y \in {a, b} : x <= y OBVIOUS
<1>2. Min({a, b}) \in {a, b} /\ \A y \in {a, b} : Min({a, b}) <= y BY <1>1 DEF Min
<1> QED BY <1>2

(***************************************************************************)
(* The recursion of SequencesExt!FoldLeft over a sequence of length n: the *)
(* last of the indices is taken off first.                                 *)
(***************************************************************************)
Lefts(g, n, base, step) ==
  \A T \in SUBSET (1..n) :
    g[T] = IF T = {} THEN base ELSE step[<<Max(T), g[T \ {Max(T)}]>>]

LEMMA LeftExists ==
  ASSUME NEW n \in Nat, NEW V, NEW base \in V, NEW step \in [(1..n) \X V -> V]
  PROVE  \E g \in [SUBSET (1..n) -> V] : Lefts(g, n, base, step)
<1> DEFINE S == 1..n
           pick == [T \in SUBSET S |-> Max(T)]
<1>1. IsFiniteSet(S) BY FS_Interval
<1>2. \A T \in (SUBSET S) \ {{}} : pick[T] \in T
  <2> SUFFICES ASSUME NEW T \in SUBSET (1..n), T # {} PROVE Max(T) \in T OBVIOUS
  <2> QED BY MaxOfIndices
<1>3. PICK g : Peels(g, S, V, base, pick, step)
  <2> HIDE DEF S, pick
  <2> QED BY <1>1, <1>2, PeelExists DEF S
<1>4. g \in [SUBSET (1..n) -> V] BY <1>3 DEF Peels
<1>5. Lefts(g, n, base, step)
  <2> SUFFICES ASSUME NEW T \in SUBSET (1..n)
               PROVE  g[T] = IF T = {} THEN base ELSE step[<<Max(T), g[T \ {Max(T)}]>>]
    BY DEF Lefts
  <2>1. pick[T] = Max(T) OBVIOUS
  <2> HIDE DEF pick
  <2> QED BY <1>3, <2>1 DEF Peels
<1> QED BY <1>4, <1>5

\* The prefix of k + 1 indices without the last one is that of k.
LEMMA Prefix ==
  ASSUME NEW n \in Nat, NEW k \in 0..(n - 1)
  PROVE  /\ 1..(k + 1) \in SUBSET (1..n) /\ 1..(k + 1) # {}
         /\ Max(1..(k + 1)) = k + 1 /\ (1..(k + 1)) \ {k + 1} = 1..k
<1>1. Max(1..(k + 1)) = k + 1 BY MaxOfInterval
<1> QED BY <1>1

\* A function that follows this recursion as long as it stays in V, and what it
\* returns after each index.
Folded(c, n, V, base, step) ==
  /\ c[{}] = base
  /\ \A T \in SUBSET (1..n) :
       T # {} /\ c[T \ {Max(T)}] \in V => c[T] = step[<<Max(T), c[T \ {Max(T)}]>>]

Stepwise(h, n, V, base, step) ==
  /\ h \in [0..n -> V] /\ h[0] = base
  /\ \A k \in 0..(n - 1) : h[k + 1] = step[<<k + 1, h[k]>>]

InSteps(c, n, V, base, step) == \E h : Stepwise(h, n, V, base, step) /\ h[n] = c[1..n]

LEMMA FoldedInTurn ==
  ASSUME NEW n \in Nat, NEW V, NEW base \in V, NEW step \in [(1..n) \X V -> V],
         NEW c, Folded(c, n, V, base, step)
  PROVE  InSteps(c, n, V, base, step)
<1> DEFINE h == [k \in 0..n |-> c[1..k]]
           P == {k \in 0..n : h[k] \in V}
<1>1. 1..0 = {} OBVIOUS
<1>2. h[0] = base BY <1>1 DEF Folded
<1>3. ASSUME NEW k \in 0..(n - 1), h[k] \in V PROVE h[k + 1] = step[<<k + 1, h[k]>>]
  <2> DEFINE T == 1..(k + 1)
  <2>1. T \in SUBSET (1..n) /\ T # {} /\ Max(T) = k + 1 /\ T \ {k + 1} = 1..k BY Prefix
  <2>2. k \in 0..n /\ k + 1 \in 0..n /\ h[k] = c[1..k] /\ h[k + 1] = c[T] OBVIOUS
  <2> HIDE DEF T, h
  <2> QED BY <1>3, <2>1, <2>2 DEF Folded
<1>4. ASSUME NEW k \in 0..(n - 1), k \in P PROVE k + 1 \in P
  <2>1. h[k] \in V /\ k + 1 \in 1..n /\ k + 1 \in 0..n BY <1>4
  <2>2. h[k + 1] = step[<<k + 1, h[k]>>] BY <1>3, <2>1
  <2> HIDE DEF h
  <2> QED BY <2>1, <2>2
<1>5. \A k \in 0..n : k \in P
  <2>1. 0 \in P BY <1>2
  <2> HIDE DEF P
  <2> QED BY <1>4, <2>1, UpTo
<1>6. h \in [0..n -> V] BY <1>5
<1>7. h[n] = c[1..n] OBVIOUS
<1> HIDE DEF h
<1>8. \A k \in 0..(n - 1) : h[k + 1] = step[<<k + 1, h[k]>>] BY <1>3, <1>6
<1> QED BY <1>2, <1>6, <1>7, <1>8 DEF InSteps, Stepwise

(***************************************************************************)
(* Dividing by basis points.                                               *)
(***************************************************************************)
\* The quotients and remainders of two parts of a whole.
LEMMA Remainders ==
  ASSUME NEW g \in Nat, NEW a \in Nat, NEW b \in Nat, NEW c \in Nat, NEW d \in Nat,
         b < 10000, d < 10000, 10000 * a + b + 10000 * c + d = 10000 * g
  PROVE  \/ g = a + c /\ b = 0 /\ d = 0
         \/ g = a + c + 1 /\ b + d = 10000
<1> DEFINE k == g - (a + c)
<1>1. k \in Int /\ 10000 * k = b + d OBVIOUS
<1>2. k = 0 \/ k = 1
  <2> HIDE DEF k
  <2> QED BY <1>1
<1> QED BY <1>1, <1>2

\* Two parts of a whole by largest remainder, a tie going to the first: nothing is
\* lost or created, and each part is within half a unit of its exact share.
LEMMA DivideExact ==
  ASSUME NEW gross \in Nat, NEW node \in Nat, NEW exchange \in Nat,
         node + exchange = 10000 * gross
  PROVE  LET short == gross - (node \div 10000) - (exchange \div 10000)
             toNode == node % 10000 >= exchange % 10000
             p == (node \div 10000) + (IF toNode THEN short ELSE 0)
             q == (exchange \div 10000) + (IF toNode THEN 0 ELSE short)
         IN  /\ p \in Nat /\ q \in Nat /\ p + q = gross
             /\ 10000 * p <= node + 5000 /\ 10000 * p + 5000 >= node
             /\ 10000 * q <= exchange + 5000 /\ 10000 * q + 5000 >= exchange
<1> DEFINE a == node \div 10000
           b == node % 10000
           c == exchange \div 10000
           d == exchange % 10000
           p == a + (IF b >= d THEN gross - a - c ELSE 0)
           q == c + (IF b >= d THEN 0 ELSE gross - a - c)
           Right(x, y) == /\ x \in Nat /\ y \in Nat /\ x + y = gross
                          /\ 10000 * x <= node + 5000 /\ 10000 * x + 5000 >= node
                          /\ 10000 * y <= exchange + 5000 /\ 10000 * y + 5000 >= exchange
<1>1. /\ a \in Nat /\ b \in Nat /\ b < 10000 /\ node = 10000 * a + b
      /\ c \in Nat /\ d \in Nat /\ d < 10000 /\ exchange = 10000 * c + d
  OBVIOUS
<1> SUFFICES Right(p, q) OBVIOUS
<1> HIDE DEF a, b, c, d
<1>2. \/ gross = a + c /\ b = 0 /\ d = 0
      \/ gross = a + c + 1 /\ b + d = 10000
  BY <1>1, Remainders
<1>3. CASE gross = a + c /\ b = 0 /\ d = 0
  <2>1. p = a /\ q = c BY <1>1, <1>3
  <2> HIDE DEF p, q
  <2> QED BY <1>1, <1>3, <2>1
<1>4. CASE gross = a + c + 1 /\ b + d = 10000 /\ b >= d
  <2>1. p = a + 1 /\ q = c BY <1>1, <1>4
  <2> HIDE DEF p, q
  <2> QED BY <1>1, <1>4, <2>1
<1>5. CASE gross = a + c + 1 /\ b + d = 10000 /\ ~(b >= d)
  <2>1. p = a /\ q = c + 1 BY <1>1, <1>5
  <2> HIDE DEF p, q
  <2> QED BY <1>1, <1>5, <2>1
<1> HIDE DEF p, q
<1> QED BY <1>2, <1>3, <1>4, <1>5

(***************************************************************************)
(* Recursion on the naturals, and the prefixes of sequences of naturals.   *)
(***************************************************************************)
\* A function of the naturals that starts with base and goes on by step.
Iterates(f, V, base, step) ==
  f \in [Nat -> V] /\ f[0] = base /\ \A k \in Nat : f[k + 1] = step[f[k]]

\* There is one.
LEMMA RecursionExists ==
  ASSUME NEW V, NEW base \in V, NEW step \in [V -> V]
  PROVE  \E f : Iterates(f, V, base, step)
<1> DEFINE Upto(n, g) == /\ g \in [0..n -> V] /\ g[0] = base
                         /\ \A k \in 0..(n - 1) : g[k + 1] = step[g[k]]
           S == {n \in Nat : \E g : Upto(n, g)}
<1>1. 0 \in S
  <2>1. Upto(0, [k \in 0..0 |-> base]) OBVIOUS
  <2> QED BY <2>1
<1>2. ASSUME NEW n \in Nat, n \in S PROVE n + 1 \in S
  <2>1. PICK g : Upto(n, g) BY <1>2
  <2> DEFINE h == [k \in 0..(n + 1) |-> IF k = n + 1 THEN step[g[n]] ELSE g[k]]
  <2>2. n \in 0..n /\ \A k \in 0..(n + 1) : k # n + 1 => k \in 0..n OBVIOUS
  <2>3. g[n] \in V /\ step[g[n]] \in V BY <2>1, <2>2
  <2>4. h \in [0..(n + 1) -> V] BY <2>1, <2>2, <2>3
  <2>5. h[0] = base BY <2>1
  <2>6. ASSUME NEW k \in 0..((n + 1) - 1) PROVE h[k + 1] = step[h[k]]
    <3>1. k \in 0..n /\ k # n + 1 /\ k \in 0..(n + 1) /\ k + 1 \in 0..(n + 1) OBVIOUS
    <3>2. h[k] = g[k] BY <3>1
    <3>3. CASE k = n BY <3>1, <3>2, <3>3
    <3>4. CASE k # n
      <4>1. k \in 0..(n - 1) /\ k + 1 # n + 1 BY <3>1, <3>4
      <4>2. h[k + 1] = g[k + 1] BY <3>1, <4>1
      <4> QED BY <2>1, <3>2, <4>1, <4>2
    <3> QED BY <3>3, <3>4
  <2>7. Upto(n + 1, h)
    <3> HIDE DEF h
    <3> QED BY <2>4, <2>5, <2>6
  <2> HIDE DEF Upto
  <2> QED BY <2>7
<1>3. \A n \in Nat : \E g : Upto(n, g)
  <2> HIDE DEF Upto
  <2>1. \A n \in Nat : n \in S
    <3> HIDE DEF S
    <3> QED BY <1>1, <1>2, AllNaturals
  <2> QED BY <2>1
<1> DEFINE G == [n \in Nat |-> CHOOSE g : Upto(n, g)]
           f == [n \in Nat |-> G[n][n]]
<1>4. \A n \in Nat : Upto(n, G[n])
  <2> SUFFICES ASSUME NEW n \in Nat PROVE Upto(n, G[n]) OBVIOUS
  <2>1. G[n] = CHOOSE g : Upto(n, g) OBVIOUS
  <2> HIDE DEF Upto, G
  <2> QED BY <1>3, <2>1
<1>5. ASSUME NEW n \in Nat PROVE G[n + 1][n] = G[n][n]
  <2> DEFINE T == {k \in Nat : G[n + 1][k] = G[n][k]}
  <2>0. n + 1 \in Nat OBVIOUS
  <2>1. Upto(n, G[n]) /\ Upto(n + 1, G[n + 1])
    <3> HIDE DEF Upto, G
    <3> QED BY <1>4, <2>0
  <2> HIDE DEF G
  <2>2. 0 \in T BY <2>1
  <2>3. \A k \in 0..(n - 1) : k \in T => k + 1 \in T
    <3> SUFFICES ASSUME NEW k \in 0..(n - 1), k \in T PROVE k + 1 \in T OBVIOUS
    <3>1. k \in 0..((n + 1) - 1) OBVIOUS
    <3>2. G[n][k + 1] = step[G[n][k]] BY <2>1
    <3>3. G[n + 1][k + 1] = step[G[n + 1][k]] BY <2>1, <3>1
    <3> QED BY <3>2, <3>3
  <2>4. \A k \in 0..n : k \in T
    <3> HIDE DEF T
    <3> QED BY <2>2, <2>3, UpTo
  <2> QED BY <2>4
<1>6. f \in [Nat -> V]
  <2> SUFFICES ASSUME NEW n \in Nat PROVE G[n][n] \in V OBVIOUS
  <2>1. Upto(n, G[n]) BY <1>4
  <2> QED BY <2>1
<1>7. f[0] = base
  <2>1. Upto(0, G[0]) BY <1>4
  <2> HIDE DEF G
  <2> QED BY <2>1
<1>8. ASSUME NEW k \in Nat PROVE f[k + 1] = step[f[k]]
  <2>0. k + 1 \in Nat OBVIOUS
  <2>1. Upto(k + 1, G[k + 1])
    <3> HIDE DEF Upto, G
    <3> QED BY <1>4, <2>0
  <2>2. k \in 0..((k + 1) - 1) OBVIOUS
  <2>3. G[k + 1][k + 1] = step[G[k + 1][k]]
    <3> HIDE DEF G
    <3> QED BY <2>1, <2>2
  <2>4. f[k + 1] = G[k + 1][k + 1] /\ f[k] = G[k][k] OBVIOUS
  <2> HIDE DEF f, G
  <2> QED BY <1>5, <2>3, <2>4
<1> HIDE DEF f
<1>9. Iterates(f, V, base, step) BY <1>6, <1>7, <1>8 DEF Iterates
<1> QED BY <1>9

\* A finite set of sequences has a bound on their lengths.
LEMMA LongestExists ==
  ASSUME NEW P, IsFiniteSet(P), \A q \in P : Len(q) \in Nat
  PROVE  \E K \in Nat : \A q \in P : Len(q) < K
<1> DEFINE Q == {T \in SUBSET P : \E K \in Nat : \A q \in T : Len(q) < K}
<1>1. ASSUME NEW T \in SUBSET P, \A x \in T : T \ {x} \in Q PROVE T \in Q
  <2>1. CASE T = {} BY <2>1
  <2>2. CASE T # {}
    <3>1. PICK x \in T : TRUE BY <2>2
    <3>2. PICK K \in Nat : \A q \in T \ {x} : Len(q) < K BY <1>1, <3>1
    <3>3. PICK M \in Nat : M >= K /\ M > Len(x)
      <4>1. CASE K > Len(x) BY <4>1
      <4>2. CASE K <= Len(x)
        <5>1. Len(x) + 1 \in Nat /\ Len(x) + 1 >= K /\ Len(x) + 1 > Len(x) BY <3>1, <4>2
        <5> QED BY <5>1
      <4> QED BY <3>1, <4>1, <4>2
    <3>4. \A q \in T : Len(q) < M BY <3>2, <3>3
    <3> QED BY <3>4
  <2> QED BY <2>1, <2>2
<1>2. \A T \in SUBSET P : T \in Q
  <2> HIDE DEF Q
  <2> QED BY <1>1, AllSubsets
<1>3. P \in Q BY <1>2
<1> QED BY <1>3

\* The prefixes of a sequence.
LEMMA PrefixFacts ==
  ASSUME NEW pos \in Seq(Nat), NEW n \in 0..Len(pos)
  PROVE  /\ SubSeq(pos, 1, n) \in Seq(Nat) /\ Len(SubSeq(pos, 1, n)) = n
         /\ n = Len(pos) => SubSeq(pos, 1, n) = pos
         /\ n > 0 => /\ SubSeq(pos, 1, n) # <<>> /\ Last(SubSeq(pos, 1, n)) = pos[n]
                    /\ Front(SubSeq(pos, 1, n)) = SubSeq(pos, 1, n - 1)
         /\ n < Len(pos) => Append(SubSeq(pos, 1, n), pos[n + 1]) = SubSeq(pos, 1, n + 1)
<1> DEFINE q == SubSeq(pos, 1, n)
<1>0. Len(pos) \in Nat /\ \A i \in 1..Len(pos) : pos[i] \in Nat OBVIOUS
<1>1. q \in Seq(Nat) /\ Len(q) = n /\ \A i \in 1..n : q[i] = pos[i]
  <2>1. CASE n = 0 BY <2>1
  <2>2. CASE n # 0 BY <1>0, <2>2
  <2> QED BY <2>1, <2>2
<1> HIDE DEF q
<1>2. n = Len(pos) => q = pos BY <1>0, <1>1
<1>3. ASSUME n > 0 PROVE q # <<>> /\ Front(q) = SubSeq(pos, 1, n - 1) /\ Last(q) = pos[n]
  <2>1. n - 1 \in 0..Len(pos) BY <1>0, <1>3
  <2>2. SubSeq(pos, 1, n - 1) \in Seq(Nat) /\ Len(SubSeq(pos, 1, n - 1)) = n - 1
        /\ \A i \in 1..(n - 1) : SubSeq(pos, 1, n - 1)[i] = pos[i]
    BY <1>0, <2>1
  <2>3. Front(q) \in Seq(Nat) /\ Len(Front(q)) = n - 1
        /\ \A i \in 1..(n - 1) : Front(q)[i] = q[i]
    BY <1>1, <1>3 DEF Front
  <2>4. Front(q) = SubSeq(pos, 1, n - 1) BY <1>1, <2>2, <2>3
  <2>5. Last(q) = pos[n] BY <1>1, <1>3 DEF Last
  <2>6. q # <<>> BY <1>1, <1>3
  <2> QED BY <2>4, <2>5, <2>6
<1>4. ASSUME n < Len(pos) PROVE Append(q, pos[n + 1]) = SubSeq(pos, 1, n + 1)
  <2>1. n + 1 \in 1..Len(pos) /\ pos[n + 1] \in Nat BY <1>0, <1>4
  <2>2. SubSeq(pos, 1, n + 1) \in Seq(Nat) /\ Len(SubSeq(pos, 1, n + 1)) = n + 1
        /\ \A i \in 1..(n + 1) : SubSeq(pos, 1, n + 1)[i] = pos[i]
    BY <1>0, <2>1
  <2>3. Append(q, pos[n + 1]) \in Seq(Nat) /\ Len(Append(q, pos[n + 1])) = n + 1
        /\ \A i \in 1..(n + 1) : Append(q, pos[n + 1])[i] = IF i = n + 1 THEN pos[n + 1] ELSE q[i]
    BY <1>1, <2>1
  <2>4. \A i \in 1..(n + 1) : Append(q, pos[n + 1])[i] = pos[i]
    <3> SUFFICES ASSUME NEW i \in 1..(n + 1) PROVE Append(q, pos[n + 1])[i] = pos[i] OBVIOUS
    <3>1. i # n + 1 => i \in 1..n OBVIOUS
    <3> QED BY <1>1, <2>3, <3>1
  <2> QED BY <2>2, <2>3, <2>4
<1> QED BY <1>1, <1>2, <1>3, <1>4 DEF q

\* The whole of a sequence is its own prefix.
LEMMA WholePrefix ==
  ASSUME NEW pos \in Seq(Nat) PROVE SubSeq(pos, 1, Len(pos)) = pos
<1>1. Len(pos) \in 0..Len(pos) OBVIOUS
<1> QED BY <1>1, PrefixFacts

\* What a sequence with one more number extends.
LEMMA PrefixOfAppend ==
  ASSUME NEW pos \in Seq(Nat), NEW q \in Seq(Nat), NEW i \in Nat, IsPrefix(pos, Append(q, i))
  PROVE  IsPrefix(pos, q) \/ pos = Append(q, i)
<1>1. /\ Append(q, i) \in Seq(Nat) /\ Len(Append(q, i)) = Len(q) + 1
      /\ \A j \in 1..Len(q) : Append(q, i)[j] = q[j]
  OBVIOUS
<1>2. Len(pos) \in Nat /\ Len(q) \in Nat /\ Len(pos) <= Len(q) + 1
  BY <1>1 DEF IsPrefix
<1>3. SubSeq(pos, 1, Len(pos)) = SubSeq(Append(q, i), 1, Len(pos)) BY DEF IsPrefix
<1>4. SubSeq(pos, 1, Len(pos)) = pos BY WholePrefix
<1>5. CASE Len(pos) = Len(q) + 1
  <2>1. SubSeq(Append(q, i), 1, Len(pos)) = Append(q, i) BY <1>1, <1>5, WholePrefix
  <2> QED BY <1>3, <1>4, <2>1
<1>6. CASE Len(pos) <= Len(q)
  <2>1. SubSeq(Append(q, i), 1, Len(pos)) = SubSeq(q, 1, Len(pos))
    BY <1>1, <1>2, <1>6
  <2> QED BY <1>3, <1>6, <2>1 DEF IsPrefix
<1> QED BY <1>2, <1>5, <1>6

=============================================================================
