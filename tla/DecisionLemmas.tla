-------------------------- MODULE DecisionLemmas ---------------------------
(***************************************************************************)
(* What the operators of the auction and of the pacing compute.  The       *)
(* auction, for every bounded set of bids: it has exactly one winner, and  *)
(* its prices are natural numbers.  The pacing, for every finite set of    *)
(* nodes in every order: what a trimming loop takes and what slices it     *)
(* leaves.                                                                 *)
(***************************************************************************)
EXTENDS Auction, Pacing, DataLemmas

\* The bids of an auction nobody bids more than `bound` in.
BidsUpTo(bound) == [lid : Nat, ecpm : 0..bound]

(***************************************************************************)
(* The winner.                                                             *)
(***************************************************************************)
\* An auction with a bid has a winner, which beats every other bid.
LEMMA WinnerExists ==
  ASSUME NEW K \in Nat, NEW bids \in SUBSET BidsUpTo(K), bids # {}
  PROVE  /\ Winner(bids) \in bids
         /\ \A o \in bids \ {Winner(bids)} : Beats(Winner(bids), o)
<1> DEFINE prices == {b.ecpm : b \in bids}
<1>1. /\ prices \in SUBSET Nat /\ prices # {} /\ \A n \in prices : n <= K
  BY DEF BidsUpTo
<1>2. /\ Max(prices) \in prices /\ \A n \in prices : n <= Max(prices)
  <2> HIDE DEF prices
  <2> QED BY <1>1, MaxExists
<1> DEFINE ids == {b.lid : b \in {c \in bids : c.ecpm = Max(prices)}}
<1>3. ids \in SUBSET Nat /\ ids # {} BY <1>2 DEF BidsUpTo
<1>4. PICK id \in ids : \A n \in ids : id <= n
  <2> HIDE DEF ids
  <2> QED BY <1>3, LeastExists
<1>5. PICK w \in bids : w.lid = id /\ w.ecpm = Max(prices) BY <1>4
<1>6. ASSUME NEW o \in bids, o # w
      PROVE  Beats(w, o)
  <2>1. /\ o.ecpm \in Nat /\ w.ecpm \in Nat /\ o.lid \in Nat /\ w.lid \in Nat
        /\ o = [lid |-> o.lid, ecpm |-> o.ecpm] /\ w = [lid |-> w.lid, ecpm |-> w.ecpm]
    BY DEF BidsUpTo
  <2>2. o.ecpm <= w.ecpm BY <1>2, <1>5
  <2>3. CASE o.ecpm < w.ecpm BY <2>1, <2>3 DEF Beats
  <2>4. CASE o.ecpm = w.ecpm
    <3>1. o.lid \in ids BY <1>5, <2>4
    <3>2. w.lid <= o.lid BY <1>4, <1>5, <3>1
    <3>3. w.lid # o.lid BY <1>6, <2>1, <2>4
    <3> QED BY <2>1, <2>4, <3>2, <3>3 DEF Beats
  <2> QED BY <2>1, <2>2, <2>3, <2>4
<1>7. \E x \in bids : \A o \in bids \ {x} : Beats(x, o) BY <1>5, <1>6
<1> QED BY <1>7 DEF Winner

\* Whatever bid beats all the others is the winner.
LEMMA WinnerUnique ==
  ASSUME NEW K \in Nat, NEW bids \in SUBSET BidsUpTo(K), NEW w \in bids,
         \A o \in bids \ {w} : Beats(w, o)
  PROVE  Winner(bids) = w
<1>1. Winner(bids) \in bids /\ \A o \in bids \ {Winner(bids)} : Beats(Winner(bids), o)
  BY WinnerExists
<1>2. SUFFICES ASSUME Winner(bids) # w PROVE FALSE OBVIOUS
<1>3. Beats(w, Winner(bids)) /\ Beats(Winner(bids), w) BY <1>1, <1>2
<1>4. /\ w.ecpm \in Nat /\ w.lid \in Nat
      /\ Winner(bids).ecpm \in Nat /\ Winner(bids).lid \in Nat
  BY <1>1 DEF BidsUpTo
<1> QED BY <1>3, <1>4 DEF Beats

\* Highest is the largest eCPM of a set of bids, and zero of none.
LEMMA HighestBound ==
  ASSUME NEW K \in Nat, NEW bids \in SUBSET BidsUpTo(K)
  PROVE  /\ Highest(bids) \in {0} \cup {b.ecpm : b \in bids}
         /\ Highest(bids) \in Nat
         /\ \A b \in bids : b.ecpm <= Highest(bids)
<1> DEFINE prices == {0} \cup {b.ecpm : b \in bids}
<1>1. /\ prices \in SUBSET Nat /\ prices # {} /\ \A n \in prices : n <= K
  BY DEF BidsUpTo
<1>2. /\ Max(prices) \in prices /\ \A n \in prices : n <= Max(prices)
  <2> HIDE DEF prices
  <2> QED BY <1>1, MaxExists
<1> QED BY <1>1, <1>2 DEF Highest

\* An auction over natural floors clears at a natural price.
LEMMA PriceNatural ==
  ASSUME NEW K \in Nat, NEW bids \in SUBSET BidsUpTo(K), NEW floor \in Nat
  PROVE  ClearingPrice(bids, floor) \in Nat
<1>1. bids \ {Winner(bids)} \in SUBSET BidsUpTo(K) OBVIOUS
<1> DEFINE second == Highest(bids \ {Winner(bids)})
<1>2. second \in Nat BY <1>1, HighestBound
<1>3. ClearingPrice(bids, floor) = Max({second, floor}) + 1 BY DEF ClearingPrice
<1> HIDE DEF second
<1>4. Max({second, floor}) \in Nat BY <1>2, MaxOfTwo
<1> QED BY <1>3, <1>4

\* One bid per line item, as in a list of line items with distinct ids.
OnePerItem(bids) == \A a, b \in bids : a.lid = b.lid => a = b

\* The same bids, the winner's being one micro higher.
Raised(bids, lid) == {IF b.lid = lid THEN [b EXCEPT !.ecpm = @ + 1] ELSE b : b \in bids}

\* A winner that bids more still wins, against the same other bids.
LEMMA RaisedWins ==
  ASSUME NEW K \in Nat, NEW bids \in SUBSET BidsUpTo(K), bids # {}, OnePerItem(bids)
  PROVE  LET raised == Raised(bids, Winner(bids).lid)
         IN  /\ Winner(raised).lid = Winner(bids).lid
             /\ raised \ {Winner(raised)} = bids \ {Winner(bids)}
<1> DEFINE w == Winner(bids)
           w1 == [w EXCEPT !.ecpm = @ + 1]
           raised == Raised(bids, w.lid)
<1>1. w \in bids /\ \A o \in bids \ {w} : Beats(w, o) BY WinnerExists
<1> HIDE DEF w
<1>2. /\ w.lid \in Nat /\ w.ecpm \in 0..K
      /\ w1 = [lid |-> w.lid, ecpm |-> w.ecpm + 1]
  BY <1>1 DEF BidsUpTo
<1>3. \A b \in bids : b.lid = w.lid => b = w BY <1>1 DEF OnePerItem
<1>4. raised = (bids \ {w}) \cup {w1} BY <1>1, <1>3 DEF Raised
<1>5. w1 \notin bids BY <1>2, <1>3
<1>6. raised \in SUBSET BidsUpTo(K + 1)
  <2>1. w1 \in BidsUpTo(K + 1) BY <1>2 DEF BidsUpTo
  <2>2. bids \in SUBSET BidsUpTo(K + 1) BY DEF BidsUpTo
  <2> QED BY <1>4, <2>1, <2>2
<1>7. \A o \in raised \ {w1} : Beats(w1, o)
  <2> TAKE o \in raised \ {w1}
  <2>1. o \in bids \ {w} BY <1>4
  <2>2. Beats(w, o) /\ o.ecpm \in Nat /\ o.lid \in Nat BY <1>1, <2>1 DEF BidsUpTo
  <2> QED BY <1>2, <2>2 DEF Beats
<1>8. Winner(raised) = w1
  <2>1. w1 \in raised /\ K + 1 \in Nat BY <1>4
  <2> HIDE DEF raised, w1
  <2> QED BY <1>6, <1>7, <2>1, WinnerUnique
<1>9. raised \ {w1} = bids \ {w} BY <1>1, <1>4, <1>5
<1>10. w1.lid = w.lid BY <1>2
<1> QED BY <1>8, <1>9, <1>10 DEF w

(***************************************************************************)
(* Pacing.                                                                 *)
(***************************************************************************)
\* An order of the nodes S: each has one place in it.
Ranked(order, S) ==
  /\ DOMAIN order \subseteq Int
  /\ IsInjective(order)
  /\ \A e \in S : \E i \in DOMAIN order : order[i] = e

\* Largest first, and among equals in the dict's order, is a strict total order.
LEMMA EarlierIsAnOrder ==
  ASSUME NEW S, NEW slices \in [S -> Int], NEW order, Ranked(order, S)
  PROVE  /\ \A e, f \in S : e = f \/ Earlier(slices, order, e, f) \/ Earlier(slices, order, f, e)
         /\ \A e \in S : ~Earlier(slices, order, e, e)
         /\ \A e, f, g \in S :
              Earlier(slices, order, e, f) /\ Earlier(slices, order, f, g)
                => Earlier(slices, order, e, g)
<1>1. ASSUME NEW e \in S, NEW f \in S
      PROVE  e = f \/ Earlier(slices, order, e, f) \/ Earlier(slices, order, f, e)
  <2>1. PICK i \in DOMAIN order : order[i] = e BY DEF Ranked
  <2>2. PICK j \in DOMAIN order : order[j] = f BY DEF Ranked
  <2>3. i \in Int /\ j \in Int /\ slices[e] \in Int /\ slices[f] \in Int BY DEF Ranked
  <2>4. i = j => e = f BY <2>1, <2>2
  <2>5. i < j \/ j < i \/ i = j BY <2>3
  <2>6. slices[e] > slices[f] \/ slices[f] > slices[e] \/ slices[e] = slices[f] BY <2>3
  <2> QED BY <2>1, <2>2, <2>4, <2>5, <2>6 DEF Earlier
<1>2. ASSUME NEW e \in S PROVE ~Earlier(slices, order, e, e)
  <2>1. ~(slices[e] > slices[e]) OBVIOUS
  <2>2. \A i, j \in DOMAIN order : order[i] = e /\ order[j] = e => ~(i < j)
    BY DEF Ranked, IsInjective
  <2> QED BY <2>1, <2>2 DEF Earlier
<1>3. ASSUME NEW e \in S, NEW f \in S, NEW g \in S,
             Earlier(slices, order, e, f), Earlier(slices, order, f, g)
      PROVE  Earlier(slices, order, e, g)
  <2>1. slices[e] \in Int /\ slices[f] \in Int /\ slices[g] \in Int OBVIOUS
  <2>2. slices[e] >= slices[f] /\ slices[f] >= slices[g] BY <1>3, <2>1 DEF Earlier
  <2>3. CASE slices[e] > slices[g] BY <2>3 DEF Earlier
  <2>4. CASE slices[e] = slices[g]
    <3>1. slices[e] = slices[f] /\ slices[f] = slices[g] BY <2>1, <2>2, <2>4
    <3>2. PICK i \in DOMAIN order, j \in DOMAIN order : i < j /\ order[i] = e /\ order[j] = f
      BY <1>3, <2>1, <3>1 DEF Earlier
    <3>3. PICK k \in DOMAIN order, l \in DOMAIN order : k < l /\ order[k] = f /\ order[l] = g
      BY <1>3, <2>1, <3>1 DEF Earlier
    <3>4. j = k BY <3>2, <3>3 DEF Ranked, IsInjective
    <3>5. i < l BY <3>2, <3>3, <3>4 DEF Ranked
    <3> QED BY <2>4, <3>2, <3>3, <3>5 DEF Earlier
  <2> QED BY <2>1, <2>2, <2>3, <2>4
<1> QED BY <1>1, <1>2, <1>3

\* A non-empty finite set of nodes has one that every other comes before.
LEMMA LastExists ==
  ASSUME NEW S, IsFiniteSet(S), NEW slices \in [S -> Int], NEW order, Ranked(order, S)
  PROVE  \A T \in SUBSET S :
           T # {} => \E m \in T : \A e \in T \ {m} : Earlier(slices, order, e, m)
<1> DEFINE P == {T \in SUBSET S :
                   T # {} => \E m \in T : \A e \in T \ {m} : Earlier(slices, order, e, m)}
<1>1. ASSUME NEW T \in SUBSET S, \A x \in T : T \ {x} \in P PROVE T \in P
  <2> SUFFICES ASSUME NEW x \in T
               PROVE  \E m \in T : \A e \in T \ {m} : Earlier(slices, order, e, m)
    OBVIOUS
  <2>1. CASE T \ {x} = {} BY <2>1
  <2>2. CASE T \ {x} # {}
    <3>1. PICK m \in T \ {x} : \A e \in (T \ {x}) \ {m} : Earlier(slices, order, e, m)
      BY <1>1, <2>2
    <3>2. CASE Earlier(slices, order, x, m)
      <4>1. \A e \in T \ {m} : Earlier(slices, order, e, m) BY <3>1, <3>2
      <4> QED BY <4>1
    <3>3. CASE Earlier(slices, order, m, x)
      <4>1. \A e \in T \ {x} : Earlier(slices, order, e, x)
        BY <3>1, <3>3, EarlierIsAnOrder
      <4> QED BY <4>1
    <3>4. Earlier(slices, order, x, m) \/ Earlier(slices, order, m, x)
      BY <3>1, EarlierIsAnOrder
    <3> QED BY <3>2, <3>3, <3>4
  <2> QED BY <2>1, <2>2
<1>2. \A T \in SUBSET S : T \in P
  <2> HIDE DEF P
  <2> QED BY <1>1, AllSubsets
<1> QED BY <1>2

\* What the nodes of S give up when, walked in order, each is asked for what those
\* before it could not give.
Asking(S, slices, order, over, spare, given, taken) ==
  \A e \in S :
    /\ given[e] = SumFunctionOnSet(spare, {f \in S : Earlier(slices, order, f, e)})
    /\ taken[e] = Min({spare[e], Max({0, over - given[e]})})

\* Together they give up what is over, or all they can spare.
LEMMA TakenInAll ==
  ASSUME NEW S, IsFiniteSet(S), NEW slices \in [S -> Int], NEW order, Ranked(order, S),
         NEW over \in Nat, NEW spare, \A e \in S : spare[e] \in Nat,
         NEW given, NEW taken, Asking(S, slices, order, over, spare, given, taken)
  PROVE  SumFunctionOnSet(taken, S) = IF over <= SumFunctionOnSet(spare, S) THEN over
                                      ELSE SumFunctionOnSet(spare, S)
<1> DEFINE Closed(T) == \A e \in T : \A f \in S : Earlier(slices, order, f, e) => f \in T
           Least(n) == IF over <= n THEN over ELSE n
           P == {T \in SUBSET S :
                   Closed(T) => SumFunctionOnSet(taken, T) = Least(SumFunctionOnSet(spare, T))}
<1>1. ASSUME NEW e \in S
      PROVE  /\ given[e] \in Nat /\ taken[e] \in Nat /\ spare[e] \in Nat
             /\ taken[e] = LET left == IF over >= given[e] THEN over - given[e] ELSE 0
                           IN  IF spare[e] <= left THEN spare[e] ELSE left
  <2> DEFINE B == {f \in S : Earlier(slices, order, f, e)}
  <2>1. IsFiniteSet(B) BY FS_Subset
  <2>2. given[e] = SumFunctionOnSet(spare, B) BY DEF Asking
  <2>3. \A f \in B : spare[f] \in Nat OBVIOUS
  <2> HIDE DEF B
  <2>4. given[e] \in Nat BY <2>1, <2>2, <2>3, SumNatural
  <2> DEFINE left == Max({0, over - given[e]})
  <2>5. left = IF over >= given[e] THEN over - given[e] ELSE 0
    <3>1. over - given[e] \in Int BY <2>4
    <3>2. left = IF 0 >= over - given[e] THEN 0 ELSE over - given[e] BY <3>1, MaxOfTwo
    <3> QED BY <2>4, <3>2
  <2>6. taken[e] = Min({spare[e], left}) BY DEF Asking
  <2>7. left \in Int /\ spare[e] \in Int BY <2>4, <2>5
  <2> HIDE DEF left
  <2>8. taken[e] = IF spare[e] <= left THEN spare[e] ELSE left BY <2>6, <2>7, MinOfTwo
  <2> QED BY <2>4, <2>5, <2>7, <2>8
<1>2. ASSUME NEW T \in SUBSET S, \A x \in T : T \ {x} \in P PROVE T \in P
  <2> SUFFICES ASSUME Closed(T)
               PROVE  SumFunctionOnSet(taken, T) = Least(SumFunctionOnSet(spare, T))
    OBVIOUS
  <2>1. CASE T = {}
    <3>1. SumFunctionOnSet(taken, T) = 0 /\ SumFunctionOnSet(spare, T) = 0
      BY <2>1, SumEmpty
    <3> QED BY <3>1
  <2>2. CASE T # {}
    <3>1. PICK m \in T : \A e \in T \ {m} : Earlier(slices, order, e, m)
      BY <2>2, LastExists
    <3> DEFINE R == T \ {m}
    <3>2. ~Earlier(slices, order, m, m) BY EarlierIsAnOrder
    <3>3. R = {f \in S : Earlier(slices, order, f, m)} BY <3>1, <3>2
    <3>4. Closed(R)
      <4> SUFFICES ASSUME NEW e \in R, NEW f \in S, Earlier(slices, order, f, e)
                   PROVE  f \in R
        OBVIOUS
      <4>1. Earlier(slices, order, f, m) BY <3>1, EarlierIsAnOrder
      <4> QED BY <3>3, <4>1
    <3>5. SumFunctionOnSet(taken, R) = Least(SumFunctionOnSet(spare, R)) BY <1>2, <3>4
    <3>6. IsFiniteSet(R) /\ m \notin R /\ T = R \cup {m} BY FS_Subset
    <3>7. given[m] = SumFunctionOnSet(spare, R) BY <3>3 DEF Asking
    <3>8. m \in S /\ \A i \in R \cup {m} : taken[i] \in Int /\ spare[i] \in Int BY <1>1
    <3> HIDE DEF R
    <3>9. /\ SumFunctionOnSet(taken, T) = taken[m] + SumFunctionOnSet(taken, R)
          /\ SumFunctionOnSet(spare, T) = spare[m] + SumFunctionOnSet(spare, R)
      BY <3>6, <3>8, SumAdd
    <3>10. /\ given[m] \in Nat /\ spare[m] \in Nat
           /\ taken[m] = LET left == IF over >= given[m] THEN over - given[m] ELSE 0
                         IN  IF spare[m] <= left THEN spare[m] ELSE left
      BY <1>1, <3>8
    <3> QED BY <3>5, <3>7, <3>9, <3>10
  <2> QED BY <2>1, <2>2
<1>3. \A T \in SUBSET S : T \in P
  <2> HIDE DEF P
  <2> QED BY <1>2, AllSubsets
<1> QED BY <1>3

\* What a trimming loop leaves: nothing below keep or above what there was, and in
\* all the total, as long as what must be kept allows it.
LEMMA TrimLeaves ==
  ASSUME NEW S, IsFiniteSet(S), NEW slices \in [S -> Int], NEW order, Ranked(order, S),
         NEW keep \in Int, \A e \in S : slices[e] >= keep, NEW total \in Int,
         NEW left, left = Trim(slices, order, total, keep)
  PROVE  /\ left \in [S -> Int]
         /\ \A e \in S : keep <= left[e] /\ left[e] <= slices[e]
         /\ SumOf(left) = IF SumOf(slices) <= total THEN SumOf(slices)
                          ELSE IF keep * Cardinality(S) <= total THEN total
                          ELSE keep * Cardinality(S)
<1> DEFINE over == SumOf(slices) - total
           spare == [e \in S |-> slices[e] - keep]
           given == [e \in S |-> SumFunctionOnSet(spare, {f \in S : Earlier(slices, order, f, e)})]
           taken == [e \in S |-> Min({spare[e], Max({0, over - given[e]})})]
           kept == [e \in S |-> keep]
           limit == keep * Cardinality(S)
<1>1. SumOf(slices) \in Int
  <2>1. SumOf(slices) = SumFunctionOnSet(slices, S) BY DEF SumOf
  <2> QED BY <2>1, SumType
<1>3. \A e \in S : spare[e] \in Nat OBVIOUS
<1>4. SumFunctionOnSet(spare, S) = SumOf(slices) - limit
  <2>1. \A e \in S : slices[e] \in Int /\ kept[e] \in Int /\ spare[e] = slices[e] - kept[e]
    OBVIOUS
  <2>2. \A e \in S : kept[e] = keep OBVIOUS
  <2> HIDE DEF spare, kept
  <2>3. SumFunctionOnSet(spare, S) = SumFunctionOnSet(slices, S) - SumFunctionOnSet(kept, S)
    BY <2>1, SumMinus
  <2>4. SumFunctionOnSet(kept, S) = limit BY <2>2, SumConstant
  <2> QED BY <2>3, <2>4 DEF SumOf
<1>5. Asking(S, slices, order, over, spare, given, taken) BY DEF Asking
<1>6. limit \in Int /\ over \in Int
  <2>1. Cardinality(S) \in Nat BY FS_CardinalityType
  <2> QED BY <1>1, <2>1
<1>7. ASSUME NEW e \in S
      PROVE  given[e] \in Nat /\ taken[e] \in 0..spare[e] /\ (over <= 0 => taken[e] = 0)
  <2> DEFINE B == {f \in S : Earlier(slices, order, f, e)}
  <2>1. IsFiniteSet(B) BY FS_Subset
  <2>2. given[e] = SumFunctionOnSet(spare, B) OBVIOUS
  <2>3. \A f \in B : spare[f] \in Nat OBVIOUS
  <2>4. taken[e] = Min({spare[e], Max({0, over - given[e]})}) OBVIOUS
  <2> HIDE DEF B, spare, given, taken, over
  <2>5. given[e] \in Nat BY <2>1, <2>2, <2>3, SumNatural
  <2>6. over - given[e] \in Int BY <1>6, <2>5
  <2>7. Max({0, over - given[e]}) = IF 0 >= over - given[e] THEN 0 ELSE over - given[e]
    BY <2>6, MaxOfTwo
  <2> DEFINE n == Max({0, over - given[e]})
  <2>8. n \in Nat /\ (over <= 0 => n = 0) BY <1>6, <2>5, <2>6, <2>7
  <2>9. spare[e] \in Nat BY <1>3
  <2> HIDE DEF n
  <2>10. taken[e] = Min({spare[e], n}) BY <2>4 DEF n
  <2>11. taken[e] = IF spare[e] <= n THEN spare[e] ELSE n BY <2>8, <2>9, <2>10, MinOfTwo
  <2> QED BY <2>5, <2>8, <2>9, <2>11
<1>7a. left = [e \in S |-> slices[e] - taken[e]]
  <2>1. left = IF over <= 0 THEN slices ELSE [e \in S |-> slices[e] - taken[e]] BY DEF Trim
  <2> HIDE DEF over, taken, spare
  <2>2. CASE over <= 0
    <3>1. ASSUME NEW e \in S PROVE slices[e] - taken[e] = slices[e]
      <4>1. taken[e] = 0 /\ slices[e] \in Int BY <1>7, <2>2
      <4> QED BY <4>1
    <3>2. slices = [e \in S |-> slices[e] - taken[e]] BY <3>1
    <3> QED BY <2>1, <2>2, <3>2
  <2> QED BY <2>1, <2>2
<1>8. \A e \in S : keep <= left[e] /\ left[e] <= slices[e] /\ left[e] \in Int
  <2> SUFFICES ASSUME NEW e \in S
               PROVE  keep <= left[e] /\ left[e] <= slices[e] /\ left[e] \in Int
    OBVIOUS
  <2>1. left[e] = slices[e] - taken[e] BY <1>7a
  <2>2. spare[e] = slices[e] - keep OBVIOUS
  <2>3. taken[e] \in 0..spare[e] BY <1>7
  <2> HIDE DEF taken, spare
  <2> QED BY <2>1, <2>2, <2>3
<1>9. left \in [S -> Int] BY <1>7a, <1>8
<1>10. SumOf(left) = SumOf(slices) - SumFunctionOnSet(taken, S)
  <2> HIDE DEF over, spare, given, taken
  <2>1. ASSUME NEW e \in S
        PROVE  slices[e] \in Int /\ taken[e] \in Int /\ left[e] = slices[e] - taken[e]
    <3>1. spare[e] \in Nat /\ taken[e] \in 0..spare[e] BY <1>3, <1>7
    <3>2. left[e] = slices[e] - taken[e] BY <1>7a
    <3> QED BY <3>1, <3>2
  <2>2. SumFunctionOnSet(left, S) = SumFunctionOnSet(slices, S) - SumFunctionOnSet(taken, S)
    BY <2>1, SumMinus
  <2> QED BY <1>9, <2>2 DEF SumOf
<1>11. CASE over <= 0
  <2> HIDE DEF taken
  <2>1. \A e \in S : taken[e] = 0 BY <1>7, <1>11
  <2>2. SumFunctionOnSet(taken, S) = 0 * Cardinality(S) BY <2>1, SumConstant
  <2>3. SumFunctionOnSet(taken, S) = 0
    <3>1. Cardinality(S) \in Nat BY FS_CardinalityType
    <3> QED BY <2>2, <3>1
  <2> QED BY <1>1, <1>8, <1>9, <1>10, <1>11, <2>3
<1>12. CASE over > 0
  <2>1. over \in Nat BY <1>6, <1>12
  <2> HIDE DEF over, spare, given, taken
  <2>2. SumFunctionOnSet(taken, S) = IF over <= SumFunctionOnSet(spare, S) THEN over
                                     ELSE SumFunctionOnSet(spare, S)
    BY <1>3, <1>5, <2>1, TakenInAll
  <2>3. over = SumOf(slices) - total BY DEF over
  <2> HIDE DEF limit
  <2>4. SumOf(left) = IF limit <= total THEN total ELSE limit
    BY <1>1, <1>4, <1>6, <1>10, <2>2, <2>3
  <2>5. ~(SumOf(slices) <= total) BY <1>1, <1>12, <2>3
  <2> QED BY <1>8, <1>9, <2>4, <2>5 DEF limit
<1> HIDE DEF over
<1> QED BY <1>6, <1>11, <1>12

\* The largest slice a node may get.
Cap(total) == Max({MinSlice, Times(total, MaxNodeShare)})

LEMMA CapNumber ==
  ASSUME NEW total \in Nat
  PROVE  Cap(total) \in Nat /\ Cap(total) >= MinSlice
<1>1. PICK n \in Nat, d \in Nat \ {0} : MaxNodeShare = <<n, d>> BY PacingAssumption
<1>2. Times(total, MaxNodeShare) = (total * n) \div d BY <1>1 DEF Times
<1>3. total * n \in Int OBVIOUS
<1>4. Times(total, MaxNodeShare) \in Int BY <1>2, <1>3
<1>5. MinSlice \in Nat BY PacingAssumption
<1> QED BY <1>4, <1>5, MaxOfTwo DEF Cap

\* Every node's share of the delivery lies between the ramp and the cap.
LEMMA ProportionalBounds ==
  ASSUME NEW S, IsFiniteSet(S), NEW nodes \in [S -> Nat], NEW total \in Nat
  PROVE  /\ Proportional(nodes, total) \in [S -> Int]
         /\ \A e \in S : /\ MinSlice <= Proportional(nodes, total)[e]
                         /\ Proportional(nodes, total)[e] <= Cap(total)
<1> DEFINE weights == [e \in S |-> Weight(nodes[e])]
           sum == SumOf(weights)
           share(e) == (total * weights[e]) \div sum
<1>1. ASSUME NEW e \in S PROVE weights[e] \in Nat \ {0}
  <2>1. nodes[e] \in Int OBVIOUS
  <2>2. Max({1, nodes[e]}) = IF 1 >= nodes[e] THEN 1 ELSE nodes[e] BY <2>1, MaxOfTwo
  <2> QED BY <2>1, <2>2 DEF Weight
<1>2. ASSUME NEW e \in S PROVE sum \in Nat \ {0}
  <2> DEFINE R == S \ {e}
  <2>1. IsFiniteSet(R) /\ e \notin R /\ S = R \cup {e} BY FS_Subset
  <2>2. sum = SumFunctionOnSet(weights, S) BY DEF SumOf
  <2>3. (\A i \in R \cup {e} : weights[i] \in Int) /\ (\A i \in R : weights[i] \in Nat) BY <1>1
  <2> HIDE DEF R, weights
  <2>4. SumFunctionOnSet(weights, S) = weights[e] + SumFunctionOnSet(weights, R)
    BY <2>1, <2>3, SumAdd
  <2>5. SumFunctionOnSet(weights, R) \in Nat BY <2>1, <2>3, SumNatural
  <2> QED BY <1>1, <2>2, <2>4, <2>5
<1>3. Proportional(nodes, total) =
        [e \in S |-> Max({MinSlice, Min({Cap(total), share(e)})})]
  BY DEF Proportional, Cap
<1>4. MinSlice \in Nat /\ Cap(total) \in Nat /\ Cap(total) >= MinSlice
  BY PacingAssumption, CapNumber
<1>5. ASSUME NEW e \in S
      PROVE  /\ Max({MinSlice, Min({Cap(total), share(e)})}) \in Int
             /\ MinSlice <= Max({MinSlice, Min({Cap(total), share(e)})})
             /\ Max({MinSlice, Min({Cap(total), share(e)})}) <= Cap(total)
  <2> DEFINE n == share(e)  m == Min({Cap(total), n})
  <2> HIDE DEF weights, sum
  <2>1. n \in Int
    <3>1. weights[e] \in Nat \ {0} /\ sum \in Nat \ {0} BY <1>1, <1>2
    <3>2. total * weights[e] \in Int BY <3>1
    <3> QED BY <3>1, <3>2
  <2> HIDE DEF n
  <2>2. m = IF Cap(total) <= n THEN Cap(total) ELSE n BY <1>4, <2>1, MinOfTwo
  <2>3. m \in Int /\ m <= Cap(total) BY <1>4, <2>1, <2>2
  <2> HIDE DEF m
  <2>4. Max({MinSlice, m}) = IF MinSlice >= m THEN MinSlice ELSE m BY <1>4, <2>3, MaxOfTwo
  <2> QED BY <1>4, <2>3, <2>4 DEF m, n
<1> HIDE DEF share
<1> QED BY <1>3, <1>5

\* What the two loops leave of the shares.
LEMMA SlicesRight ==
  ASSUME NEW S, IsFiniteSet(S), NEW nodes \in [S -> Nat], NEW order, Ranked(order, S),
         NEW total \in Nat, NEW slices, slices = Slices(nodes, order, total)
  PROVE  /\ DOMAIN slices \subseteq S
         /\ \A e \in DOMAIN slices : slices[e] \in 1..Cap(total)
         /\ SumOf(slices) \in Int /\ SumOf(slices) <= total
         /\ MinSlice * Cardinality(S) > total => SumOf(slices) = total
         /\ MinSlice * Cardinality(S) <= total =>
              DOMAIN slices = S /\ \A e \in S : slices[e] >= MinSlice
<1> DEFINE shares == Proportional(nodes, total)
           ramped == Trim(shares, order, total, MinSlice)
           trimmed == Trim(ramped, order, total, 0)
           floor == MinSlice * Cardinality(S)
           served == {e \in S : trimmed[e] > 0}
<1>1. MinSlice \in Nat \ {0} /\ Cap(total) \in Nat /\ total \in Int
  BY PacingAssumption, CapNumber
<1>2. shares \in [S -> Int] /\ \A e \in S : MinSlice <= shares[e] /\ shares[e] <= Cap(total)
  BY ProportionalBounds
<1> HIDE DEF shares
<1>3. /\ ramped \in [S -> Int]
      /\ \A e \in S : MinSlice <= ramped[e] /\ ramped[e] <= shares[e]
      /\ SumOf(ramped) = IF SumOf(shares) <= total THEN SumOf(shares)
                         ELSE IF floor <= total THEN total ELSE floor
  BY <1>1, <1>2, TrimLeaves
<1> HIDE DEF ramped
<1>4. floor \in Int
  <2>1. Cardinality(S) \in Nat BY FS_CardinalityType
  <2> QED BY <1>1, <2>1
<1>5. SumOf(ramped) \in Int /\ SumOf(shares) \in Int
  <2>1. SumFunctionOnSet(ramped, S) \in Int BY <1>3, SumType
  <2>2. SumFunctionOnSet(shares, S) \in Int BY <1>2, SumType
  <2> QED BY <1>2, <1>3, <2>1, <2>2 DEF SumOf
<1>6. floor <= SumOf(ramped)
  <2> DEFINE least == [e \in S |-> MinSlice]
             rest == [e \in S |-> ramped[e] - MinSlice]
  <2>1. \A e \in S : /\ ramped[e] \in Int /\ least[e] \in Int
                     /\ rest[e] = ramped[e] - least[e]
    BY <1>1, <1>3
  <2>2. \A e \in S : least[e] = MinSlice OBVIOUS
  <2>3. \A e \in S : rest[e] \in Nat BY <1>1, <1>3
  <2> HIDE DEF least, rest
  <2>4. SumFunctionOnSet(rest, S) = SumFunctionOnSet(ramped, S) - SumFunctionOnSet(least, S)
    BY <2>1, SumMinus
  <2>5. SumFunctionOnSet(least, S) = floor BY <1>1, <2>2, SumConstant
  <2>6. SumFunctionOnSet(rest, S) \in Nat BY <2>3, SumNatural
  <2>7. SumOf(ramped) = SumFunctionOnSet(ramped, S) BY <1>3 DEF SumOf
  <2> HIDE DEF floor
  <2> QED BY <1>4, <1>5, <2>4, <2>5, <2>6, <2>7
<1>7. slices = IF SumOf(ramped) <= total THEN ramped
               ELSE [e \in {f \in DOMAIN trimmed : trimmed[f] > 0} |-> trimmed[e]]
  BY DEF Slices, ramped, shares
<1>8. CASE SumOf(ramped) <= total
  <2>1. slices = ramped BY <1>7, <1>8
  <2>2. \A e \in S : slices[e] \in 1..Cap(total) /\ slices[e] >= MinSlice
    BY <1>1, <1>2, <1>3, <2>1
  <2> HIDE DEF floor
  <2>3. ~(floor > total) BY <1>1, <1>4, <1>5, <1>6, <1>8
  <2> QED BY <1>3, <1>5, <1>8, <2>1, <2>2, <2>3 DEF floor
<1>9. CASE ~(SumOf(ramped) <= total)
  <2>1. /\ trimmed \in [S -> Int]
        /\ \A e \in S : 0 <= trimmed[e] /\ trimmed[e] <= ramped[e]
        /\ SumOf(trimmed) = IF SumOf(ramped) <= total THEN SumOf(ramped)
                            ELSE IF 0 * Cardinality(S) <= total THEN total
                            ELSE 0 * Cardinality(S)
    <3>1. \A e \in S : ramped[e] >= 0 BY <1>1, <1>3
    <3>2. trimmed = Trim(ramped, order, total, 0) OBVIOUS
    <3> HIDE DEF trimmed, served, floor
    <3>3. ASSUME NEW keep, keep = 0
          PROVE  /\ trimmed \in [S -> Int]
                 /\ \A e \in S : keep <= trimmed[e] /\ trimmed[e] <= ramped[e]
                 /\ SumOf(trimmed) = IF SumOf(ramped) <= total THEN SumOf(ramped)
                                     ELSE IF keep * Cardinality(S) <= total THEN total
                                     ELSE keep * Cardinality(S)
      <4>1. keep \in Int /\ \A e \in S : ramped[e] >= keep BY <3>1, <3>3
      <4>2. trimmed = Trim(ramped, order, total, keep) BY <3>2, <3>3
      <4>3. ramped \in [S -> Int] /\ total \in Int BY <1>1, <1>3
      <4> QED BY <4>1, <4>2, <4>3, TrimLeaves, SMTT(60)
    <3> QED BY <3>3
  <2> HIDE DEF trimmed
  <2>2. SumOf(trimmed) = total
    <3>1. Cardinality(S) \in Nat BY FS_CardinalityType
    <3>2. 0 * Cardinality(S) <= total BY <3>1
    <3> QED BY <1>9, <2>1, <3>2
  <2>3. slices = [e \in served |-> trimmed[e]] BY <1>7, <1>9, <2>1
  <2>4. \A e \in served : slices[e] \in 1..Cap(total)
    BY <1>1, <1>2, <1>3, <2>1, <2>3
  <2>5. SumOf(slices) = total
    <3>1. SumFunctionOnSet(trimmed, served) = SumFunctionOnSet(trimmed, S)
      <4>1. served \in SUBSET S /\ \A e \in S \ served : trimmed[e] = 0 BY <2>1
      <4>2. \A e \in S : trimmed[e] \in Int BY <2>1
      <4> HIDE DEF served
      <4> QED BY <4>1, <4>2, SumSupport
    <3>2. SumFunctionOnSet(slices, served) = SumFunctionOnSet(trimmed, served)
      <4>1. \A e \in served : slices[e] \in Int /\ slices[e] = trimmed[e] BY <2>1, <2>3
      <4>2. IsFiniteSet(served) BY FS_Subset
      <4> HIDE DEF served
      <4> QED BY <4>1, <4>2, SumSame
    <3>3. DOMAIN slices = served /\ DOMAIN trimmed = S BY <2>1, <2>3
    <3> HIDE DEF served
    <3> QED BY <2>2, <3>1, <3>2, <3>3 DEF SumOf
  <2>6. floor > total
    <3> HIDE DEF floor, ramped, trimmed, served
    <3> QED BY <1>1, <1>3, <1>4, <1>5, <1>9
  <2>7. ~(floor <= total) BY <1>1, <1>4, <2>6
  <2> QED BY <1>1, <2>3, <2>4, <2>5, <2>7
<1> QED BY <1>8, <1>9

\* The impressions of a period cost no more than the budget that remains.
LEMMA TotalAffordable ==
  ASSUME NEW remaining \in Nat, NEW price \in Int, NEW fraction \in Nat \X (Nat \ {0})
  PROVE  LET total == TotalImpressions(remaining, price, fraction)
             cost == Max({1, price})
         IN  total \in Nat /\ cost \in Nat \ {0} /\ total * cost <= remaining * 1000
<1> DEFINE cost == Max({1, price})
           part == IF fraction[1] > fraction[2] THEN <<1, 1>> ELSE fraction
           n == part[1]
           d == part[2]
           now == (remaining * n) \div d
           total == (now * 1000) \div cost
<1>1. cost \in Nat \ {0}
  <2>1. cost = IF 1 >= price THEN 1 ELSE price BY MaxOfTwo
  <2> QED BY <2>1
<1>2. n \in Nat /\ d \in Nat \ {0} /\ n <= d
  <2>1. fraction[1] \in Nat /\ fraction[2] \in Nat \ {0} OBVIOUS
  <2> QED BY <2>1
<1>3. TotalImpressions(remaining, price, fraction) = total BY DEF TotalImpressions, Times
<1> HIDE DEF cost, n, d
<1>4. now \in Nat /\ now <= remaining
  <2>1. remaining * n \in Nat BY <1>2
  <2>2. now \in Nat /\ now * d <= remaining * n BY <1>2, <2>1
  <2>3. remaining * n <= remaining * d BY <1>2
  <2> HIDE DEF now
  <2>4. now * d <= remaining * d BY <1>2, <2>1, <2>2, <2>3
  <2>5. ASSUME now >= remaining + 1 PROVE FALSE
    <3>1. now * d >= (remaining + 1) * d BY <1>2, <2>2, <2>5
    <3>2. (remaining + 1) * d = remaining * d + d BY <1>2
    <3>3. remaining * d \in Nat /\ now * d \in Nat BY <1>2, <2>2
    <3> QED BY <1>2, <2>4, <3>1, <3>2, <3>3
  <2> QED BY <2>2, <2>5
<1> HIDE DEF now
<1>5. total \in Nat /\ total * cost <= now * 1000 BY <1>1, <1>4
<1> HIDE DEF total
<1>6. total * cost <= remaining * 1000
  <2>1. total * cost \in Nat BY <1>1, <1>5
  <2> QED BY <1>4, <1>5, <2>1
<1> QED BY <1>1, <1>3, <1>5, <1>6 DEF cost

\* Every slice of an allocation is positive, and together they cost no more than
\* the budget that remains.
LEMMA AllocateRight ==
  ASSUME NEW S, IsFiniteSet(S), NEW nodes \in [S -> Nat], NEW order, Ranked(order, S),
         NEW remaining \in Nat, NEW price \in Int, NEW fraction \in Nat \X (Nat \ {0}),
         NEW slices, slices = Allocate(nodes, order, remaining, price, fraction)
  PROVE  /\ DOMAIN slices \subseteq S /\ \A e \in DOMAIN slices : slices[e] \in Nat \ {0}
         /\ SumOf(slices) \in Int /\ SumOf(slices) * Max({1, price}) <= remaining * 1000
<1> DEFINE total == TotalImpressions(remaining, price, fraction)
           cost == Max({1, price})
<1>1. total \in Nat /\ cost \in Nat \ {0} /\ total * cost <= remaining * 1000
  BY TotalAffordable
<1>2. slices = IF total <= 0 \/ DOMAIN nodes = {} THEN NoSlices ELSE Slices(nodes, order, total)
  BY DEF Allocate
<1> HIDE DEF total, cost
<1>3. CASE slices = NoSlices
  <2>1. DOMAIN slices = {} BY <1>3 DEF NoSlices
  <2>2. SumOf(slices) = 0 BY <2>1, SumEmpty DEF SumOf
  <2> QED BY <1>1, <2>1, <2>2 DEF cost
<1>4. CASE slices = Slices(nodes, order, total)
  <2>1. /\ DOMAIN slices \subseteq S /\ \A e \in DOMAIN slices : slices[e] \in 1..Cap(total)
        /\ SumOf(slices) \in Int /\ SumOf(slices) <= total
    BY <1>1, <1>4, SlicesRight
  <2>2. SumOf(slices) * cost <= total * cost BY <1>1, <2>1
  <2>3. SumOf(slices) * cost \in Int /\ total * cost \in Int BY <1>1, <2>1
  <2>4. SumOf(slices) * cost <= remaining * 1000 BY <1>1, <2>2, <2>3
  <2>5. \A e \in DOMAIN slices : slices[e] \in Nat \ {0} BY <1>1, <2>1, CapNumber
  <2> QED BY <2>1, <2>4, <2>5 DEF cost
<1> QED BY <1>2, <1>3, <1>4
=============================================================================
