-------------------------- MODULE AlgorithmProofs --------------------------
(***************************************************************************)
(* The stateless parts, for every input that may be given them.  The       *)
(* auction: its pricing and its trace, for every catalogue, turn and floor.*)
(* Pacing: the budget, the caps and the ramps.  Supply chains: what a      *)
(* chain that is accepted relies on.  Predicates: their readings, and what *)
(* a part gone wrong does.  Measurement: a batch sent twice.               *)
(* Answer integrity: stripping inverts composing, for every answer that    *)
(* does not quote the separator and whatever the creatives hold.           *)
(* Aggregation: the arithmetic of the ring, for every modulus and number   *)
(* of reports, and what one turn can do to a node's counters, for every    *)
(* spec.                                                                   *)
(***************************************************************************)
EXTENDS Algorithms, DecisionLemmas

-----------------------------------------------------------------------------
(* The calls.                                                               *)

\* The call that a behaviour is about is one that may be made, if it is not the
\* auction's, and what has been returned is what the function returns.
Asked ==
  \/ call = None
  \/ AllocateCalled \/ EvaluateCalled \/ VerifyChainCalled \/ AssessCalled
  \/ ComposeCalled \/ AggregateCalled \/ ReleaseCalled

AnswerRight ==
  /\ Returned("allocate") =>
       answer = Allocate(call.nodes, call.order, call.remaining, call.price, call.fraction)
  /\ Returned("evaluate") => answer = Readings(call.predicate, call.signal)
  /\ Returned("verify_chain") => answer = VerifyChain(call.chain, call.declarations)
  /\ Returned("assess") => answer = Assess(call.receipts)
  /\ Returned("compose") => answer = Compose(call.answer, call.shown, call.renderer)
  /\ Returned("aggregate") =>
       answer = IF SpecFault(call.spec) # "none" THEN [fault |-> SpecFault(call.spec)]
                ELSE [fault |-> "none", local |-> Locally(call.spec, call.turns)]
  /\ Returned("release") => answer = Published(call.spec, call.reports, call.told)

LEMMA Answered == SpecCalls => [](Asked /\ AnswerRight)
<1>1. InitCalls => Asked /\ AnswerRight
  BY DEF InitCalls, Asked, AnswerRight, Returned
<1>2. Asked /\ AnswerRight /\ [NextCalls]_<<vars, calls>> => (Asked /\ AnswerRight)'
  <2> SUFFICES ASSUME Asked, AnswerRight, [NextCalls]_<<vars, calls>>
               PROVE  Asked' /\ AnswerRight'
    OBVIOUS
  <2>1. call' = call
    BY DEF NextCalls, Auctioned, calls, Called, ReturnSlices, ReturnEvaluation, ReturnVerdict,
           ReturnReport, ReturnComposition, ReturnAggregate, ReturnRelease
  <2>2. Asked'
    BY <2>1 DEF Asked, AllocateCalled, EvaluateCalled, VerifyChainCalled, AssessCalled,
                ComposeCalled, AggregateCalled, ReleaseCalled
  <2>3. CASE answer' = answer BY <2>1, <2>2, <2>3 DEF AnswerRight, Returned
  <2>4. CASE ReturnSlices BY <2>1, <2>2, <2>4 DEF ReturnSlices, Called, AnswerRight, Returned
  <2>5. CASE ReturnEvaluation BY <2>1, <2>2, <2>5 DEF ReturnEvaluation, Called, AnswerRight, Returned
  <2>6. CASE ReturnVerdict BY <2>1, <2>2, <2>6 DEF ReturnVerdict, Called, AnswerRight, Returned
  <2>7. CASE ReturnReport BY <2>1, <2>2, <2>7 DEF ReturnReport, Called, AnswerRight, Returned
  <2>8. CASE ReturnComposition BY <2>1, <2>2, <2>8 DEF ReturnComposition, Called, AnswerRight, Returned
  <2>9. CASE ReturnAggregate BY <2>1, <2>2, <2>9 DEF ReturnAggregate, Called, AnswerRight, Returned
  <2>10. CASE ReturnRelease BY <2>1, <2>2, <2>10 DEF ReturnRelease, Called, AnswerRight, Returned
  <2>11. Auctioned => answer' = answer BY DEF Auctioned, calls
  <2>12. UNCHANGED <<vars, calls>> => answer' = answer BY DEF calls
  <2> QED
    BY <2>2, <2>3, <2>4, <2>5, <2>6, <2>7, <2>8, <2>9, <2>10, <2>11, <2>12 DEF NextCalls
<1> QED BY <1>1, <1>2, PTL DEF SpecCalls

-----------------------------------------------------------------------------
(* The auction.                                                             *)

\* A bundle has one item per id and bids no higher than MaxBid, the floor is a
\* natural, and a result is the trace of the bundle, the winner of its eligible bids
\* and their price.
ResultRight ==
  /\ items \in Bundles /\ turn.floor \in Nat
  /\ LET eligible == Eligible(items, turn)
     IN  result # None =>
           /\ result.trace = Trace(items, turn)
           /\ IF eligible = {} THEN result.winner = None
              ELSE /\ result.winner = Winner(eligible).lid
                   /\ result.price = ClearingPrice(eligible, turn.floor)

\* A result with a winner is one of eligible bids.
LEMMA ServedRight ==
  ASSUME ResultRight, Served
  PROVE  LET eligible == Eligible(items, turn)
         IN  /\ eligible # {}
             /\ result.winner = Winner(eligible).lid
             /\ result.price = ClearingPrice(eligible, turn.floor)
BY DEF ResultRight, Served

\* The eligible bids of a bundle, one per item and all up to MaxBid.
LEMMA EligibleBids ==
  ASSUME items \in Bundles
  PROVE  /\ Eligible(items, turn) \in SUBSET BidsUpTo(MaxBid)
         /\ OnePerItem(Eligible(items, turn))
<1>1. \A i \in items : i \in AllItems BY DEF Bundles
<1>2. \A i \in items : Bid(i) \in BidsUpTo(MaxBid)
  BY <1>1, AuctionAssumption DEF Bid, BidsUpTo
<1>3. \A i, j \in items : i.lid = j.lid => i = j BY DEF Bundles
<1>4. \A i, j \in items : Bid(i).lid = Bid(j).lid => Bid(i) = Bid(j)
  BY <1>3 DEF Bid
<1> QED BY <1>2, <1>4 DEF Eligible, OnePerItem

\* An auction that served did so with the right winner at the right price.
LEMMA AlwaysRight == Spec => []ResultRight
<1>1. Init => ResultRight
  <2> SUFFICES ASSUME Init PROVE ResultRight OBVIOUS
  <2>1. PICK t \in Turns, p \in Floors \cup {0} : turn = WithFloor(t, bundleFloor, p)
    BY DEF Init
  <2>2. bundleFloor \in Nat /\ p \in Nat BY AuctionAssumption DEF Init
  <2>3. turn.floor = Max({bundleFloor, p}) BY <2>1, AuctionAssumption DEF WithFloor
  <2>4. turn.floor \in Nat BY <2>2, <2>3, MaxOfTwo
  <2> QED BY <2>4 DEF Init, ResultRight
<1>2. ResultRight /\ [Next]_vars => ResultRight'
  <2> SUFFICES ASSUME ResultRight, [Next]_vars PROVE ResultRight' OBVIOUS
  <2>1. CASE Run
    <3>1. items' = items /\ turn' = turn BY <2>1 DEF Run
    <3>2. /\ result'.trace = Trace(items, turn)
          /\ IF Eligible(items, turn) = {} THEN result'.winner = None
             ELSE /\ result'.winner = Winner(Eligible(items, turn)).lid
                  /\ result'.price = ClearingPrice(Eligible(items, turn), turn.floor)
      <4>1. CASE Eligible(items, turn) = {} BY <2>1, <4>1 DEF Run
      <4>2. CASE Eligible(items, turn) # {} BY <2>1, <4>2 DEF Run
      <4> QED BY <4>1, <4>2
    <3> QED BY <3>1, <3>2 DEF ResultRight, Bundles, AllItems
  <2>2. CASE UNCHANGED vars BY <2>2 DEF vars, ResultRight, Bundles, AllItems
  <2> QED BY <2>1, <2>2 DEF Next
<1> QED BY <1>1, <1>2, PTL DEF Spec

\* Second price: raising the winner's bid changes neither the winner nor what it
\* pays, for every bundle and every turn (uap/auction.py run).
THEOREM SecondPrice == Spec => []PriceIgnoresOwnBid
<1>1. ResultRight => PriceIgnoresOwnBid
  <2> SUFFICES ASSUME ResultRight, Served PROVE PriceIgnoresOwnBid
    BY DEF PriceIgnoresOwnBid
  <2> DEFINE eligible == Eligible(items, turn)
  <2>1. /\ eligible \in SUBSET BidsUpTo(MaxBid) /\ OnePerItem(eligible) /\ eligible # {}
        /\ result.winner = Winner(eligible).lid
        /\ result.price = ClearingPrice(eligible, turn.floor)
    BY EligibleBids, ServedRight DEF ResultRight
  <2> HIDE DEF eligible
  <2>2. LET raised == Raised(eligible, result.winner)
        IN  /\ Winner(raised).lid = result.winner
            /\ raised \ {Winner(raised)} = eligible \ {Winner(eligible)}
    BY <2>1, RaisedWins, AuctionAssumption
  <2>3. ClearingPrice(Raised(eligible, result.winner), turn.floor) = result.price
    BY <2>1, <2>2 DEF ClearingPrice
  <2> QED BY <2>2, <2>3 DEF PriceIgnoresOwnBid, Raised, eligible
<1> QED BY <1>1, AlwaysRight, PTL

\* The winner never pays more than one micro above its bid, and whatever bid more
\* was eliminated before the auction (uap/auction.py run).
THEOREM PriceCovered == Spec => []WinnerCoversItsPrice
<1>1. ResultRight => WinnerCoversItsPrice
  <2> SUFFICES ASSUME ResultRight, Served PROVE WinnerCoversItsPrice
    BY DEF WinnerCoversItsPrice
  <2> DEFINE eligible == Eligible(items, turn)
             best == Winner(eligible)
  <2>1. /\ eligible \in SUBSET BidsUpTo(MaxBid) /\ eligible # {}
        /\ result.winner = best.lid
        /\ result.price = ClearingPrice(eligible, turn.floor)
    BY EligibleBids, ServedRight DEF ResultRight
  <2>2. best \in eligible /\ \A o \in eligible \ {best} : Beats(best, o)
    BY <2>1, WinnerExists, AuctionAssumption
  <2> HIDE DEF best
  <2>3. PICK w \in items : best = Bid(w) /\ Stage(w, turn) = "eligible"
    BY <2>2 DEF Eligible
  <2>4. w.lid = best.lid /\ NormalizeEcpm(w.pricing) = best.ecpm BY <2>3 DEF Bid
  <2>5. best.ecpm \in Nat /\ turn.floor \in Nat BY <2>1, <2>2 DEF BidsUpTo, ResultRight
  <2>6. turn.floor <= best.ecpm BY <2>3, <2>4, <2>5 DEF Stage
  <2>7. \A o \in eligible : o.ecpm \in Nat /\ o.ecpm <= best.ecpm
    BY <2>1, <2>2, <2>5 DEF Beats, BidsUpTo
  <2>8. result.price <= best.ecpm + 1
    <3> DEFINE second == Highest(eligible \ {best})
    <3>1. eligible \ {best} \in SUBSET BidsUpTo(MaxBid) BY <2>1
    <3>2. /\ second \in {0} \cup {b.ecpm : b \in eligible \ {best}}
          /\ second \in Nat
      BY <3>1, HighestBound, AuctionAssumption
    <3> HIDE DEF second, eligible
    <3>3. second <= best.ecpm BY <2>5, <2>7, <3>2
    <3>4. result.price = Max({second, turn.floor}) + 1
      BY <2>1 DEF ClearingPrice, second, best
    <3> QED BY <2>5, <2>6, <3>2, <3>3, <3>4, MaxOfTwo
  <2>9. \A o \in items : NormalizeEcpm(o.pricing) > best.ecpm => Stage(o, turn) # "eligible"
    <3> SUFFICES ASSUME NEW o \in items, Stage(o, turn) = "eligible"
                 PROVE  ~(NormalizeEcpm(o.pricing) > best.ecpm)
      OBVIOUS
    <3>1. Bid(o) \in eligible BY DEF Eligible
    <3>2. Bid(o).ecpm = NormalizeEcpm(o.pricing) BY DEF Bid
    <3> HIDE DEF eligible
    <3> QED BY <2>5, <2>7, <3>1, <3>2
  <2> QED BY <2>1, <2>4, <2>8, <2>9 DEF WinnerCoversItsPrice
<1> QED BY <1>1, AlwaysRight, PTL

\* The trace names exactly one winner when the auction served and none when it did
\* not, and accounts for every line item once (uap/auction.py run, whose trace
\* exchange.py _resolve_local replays).
THEOREM TraceNamesIt == Spec => []TraceNamesTheWinner
<1>1. ResultRight => TraceNamesTheWinner
  <2> SUFFICES ASSUME ResultRight, result # None PROVE TraceNamesTheWinner
    BY DEF TraceNamesTheWinner
  <2> DEFINE eligible == Eligible(items, turn)
             outcome(i) == IF Stage(i, turn) # "eligible" THEN Stage(i, turn)
                           ELSE IF Bid(i) = Winner(eligible) THEN "won" ELSE "lost"
             entry(i) == [lid |-> i.lid, ecpm |-> NormalizeEcpm(i.pricing), outcome |-> outcome(i)]
  <2>1. result.trace = {entry(i) : i \in items} BY DEF ResultRight, Trace
  <2>2. \A i, j \in items : i.lid = j.lid => i = j BY DEF ResultRight, Bundles
  <2>3. \A i \in items : outcome(i) = "won" <=> Stage(i, turn) = "eligible" /\ Bid(i) = Winner(eligible)
    BY DEF Stage
  <2>4. {t.lid : t \in {u \in result.trace : u.outcome = "won"}}
          = {i.lid : i \in {j \in items : outcome(j) = "won"}}
    <3> HIDE DEF outcome
    <3>1. \A i \in items : entry(i).lid = i.lid /\ entry(i).outcome = outcome(i) OBVIOUS
    <3> HIDE DEF entry
    <3> QED BY <2>1, <3>1
  <2>5. eligible = {Bid(i) : i \in {j \in items : Stage(j, turn) = "eligible"}} BY DEF Eligible
  <2>6. {i.lid : i \in {j \in items : outcome(j) = "won"}} = IF Served THEN {result.winner} ELSE {}
    <3>1. CASE eligible = {}
      <4>1. ~Served BY <3>1 DEF ResultRight, Served
      <4> HIDE DEF outcome, eligible
      <4>2. \A i \in items : outcome(i) # "won" BY <2>3, <2>5, <3>1
      <4> QED BY <4>1, <4>2
    <3>2. CASE eligible # {}
      <4>1. Winner(eligible) \in eligible /\ eligible \in SUBSET BidsUpTo(MaxBid)
        BY <3>2, EligibleBids, WinnerExists, AuctionAssumption DEF ResultRight
      <4>2. Winner(eligible).lid \in Nat BY <4>1 DEF BidsUpTo
      <4>3. Served /\ result.winner = Winner(eligible).lid
        BY <3>2, <4>2, AuctionAssumption DEF ResultRight, Served
      <4>4. PICK w \in items : Stage(w, turn) = "eligible" /\ Bid(w) = Winner(eligible)
        <5> HIDE DEF eligible
        <5> QED BY <2>5, <4>1
      <4>5. \A i \in items : Bid(i).lid = i.lid BY DEF Bid
      <4> HIDE DEF outcome, eligible
      <4>6. \A i \in items : outcome(i) = "won" <=> i = w BY <2>2, <2>3, <4>4, <4>5
      <4>7. {i.lid : i \in {j \in items : outcome(j) = "won"}} = {w.lid} BY <4>6
      <4> QED BY <4>3, <4>4, <4>5, <4>7
    <3> QED BY <3>1, <3>2
  <2>7. ASSUME NEW i \in items
        PROVE  Cardinality({t \in result.trace : t.lid = i.lid}) = 1
    <3> HIDE DEF outcome
    <3>1. {t \in result.trace : t.lid = i.lid} = {entry(i)}
      <4>1. \A j \in items : entry(j).lid = j.lid OBVIOUS
      <4> HIDE DEF entry
      <4> QED BY <2>1, <2>2, <4>1
    <3> HIDE DEF entry
    <3> QED BY <3>1, FS_Singleton
  <2> HIDE DEF eligible, outcome, entry
  <2> QED BY <2>4, <2>6, <2>7 DEF TraceNamesTheWinner
<1> QED BY <1>1, AlwaysRight, PTL

-----------------------------------------------------------------------------
(* Pacing.                                                                  *)

\* What has been returned of an allocation.
Allocated ==
  LET S == DOMAIN call.nodes
      floor == MinSlice * Cardinality(S)
  IN  /\ Total \in Nat
      /\ floor \in Nat
      /\ Max({1, call.price}) \in Nat \ {0}
      /\ Total * Max({1, call.price}) <= call.remaining * 1000
      /\ call.remaining \in Nat
      /\ DOMAIN answer \subseteq S
      /\ \A e \in DOMAIN answer : answer[e] \in 1..Cap(Total)
      /\ SumOf(answer) \in Int /\ SumOf(answer) <= Total
      /\ Total > 0 /\ floor > Total => SumOf(answer) = Total
      /\ Total > 0 /\ floor <= Total => DOMAIN answer = S /\ \A e \in S : answer[e] >= MinSlice

LEMMA AllocationRight == Asked /\ AnswerRight /\ Returned("allocate") => Allocated
<1> SUFFICES ASSUME Asked, AnswerRight, Returned("allocate") PROVE Allocated OBVIOUS
<1>1. AllocateCalled
  BY DEF Asked, Returned, AllocateCalled, EvaluateCalled, VerifyChainCalled, AssessCalled,
         ComposeCalled, AggregateCalled, ReleaseCalled
<1>0. PICK S \in SUBSET Nodes, b \in Budgets, p \in Prices, f \in Fractions :
        \E n \in [S -> Deliveries], o \in Orders(S) :
          call = [fn |-> "allocate", nodes |-> n, order |-> o, remaining |-> b,
                  price |-> p, fraction |-> f]
  BY <1>1 DEF AllocateCalled
<1>2. PICK n \in [S -> Deliveries], o \in Orders(S) :
        call = [fn |-> "allocate", nodes |-> n, order |-> o, remaining |-> b,
                price |-> p, fraction |-> f]
  BY <1>0
<1>3. IsFiniteSet(S) /\ n \in [S -> Nat] /\ DOMAIN n = S
      /\ b \in Nat /\ p \in Int /\ f \in Nat \X (Nat \ {0})
  BY CallsAssumption, FS_Subset
<1>4. Cardinality(S) \in Nat BY <1>3, FS_CardinalityType
<1>5. Ranked(o, S)
  <2> DEFINE k == Cardinality(S)
  <2>1. o \in [1..k -> S] /\ IsInjective(o) BY DEF Orders
  <2>2. IsFiniteSet(1..k) /\ Cardinality(1..k) = k
    <3>1. 1 \in Int /\ k \in Int /\ k - 1 + 1 = k BY <1>4
    <3>2. IsFiniteSet(1..k) BY <3>1, FS_Interval
    <3>3. Cardinality(1..k) = IF 1 > k THEN 0 ELSE k - 1 + 1 BY <3>1, FS_Interval
    <3> QED BY <1>4, <3>2, <3>3
  <2>3. o \in Injection(1..k, S) BY <2>1 DEF Injection
  <2>4. o \in Surjection(1..k, S) BY <1>3, <2>2, <2>3, FS_Injection
  <2>5. \A e \in S : \E i \in 1..k : o[i] = e BY <2>4 DEF Surjection
  <2> QED BY <1>4, <2>1, <2>5 DEF Ranked
<1>6. Total = TotalImpressions(b, p, f) BY <1>2 DEF Total
<1>7. /\ Total \in Nat /\ Max({1, p}) \in Nat \ {0} /\ Total * Max({1, p}) <= b * 1000
  BY <1>3, <1>6, TotalAffordable
<1>8. answer = Allocate(n, o, b, p, f) BY <1>2 DEF AnswerRight
<1>9. MinSlice \in Nat BY PacingAssumption
<1>10. MinSlice * Cardinality(S) \in Nat BY <1>4, <1>9
<1>11. DOMAIN call.nodes = S /\ call.price = p /\ call.remaining = b BY <1>2, <1>3
<1>12. CASE Total <= 0 \/ S = {}
  <2>1. answer = NoSlices BY <1>3, <1>6, <1>8, <1>12 DEF Allocate
  <2>2. DOMAIN answer = {} BY <2>1 DEF NoSlices
  <2>3. SumOf(answer) = 0 BY <2>2, SumEmpty DEF SumOf
  <2>4. Total > 0 => S = {} BY <1>7, <1>12
  <2>5. Cardinality({}) = 0 BY FS_EmptySet
  <2>6. Total > 0 => MinSlice * Cardinality(S) = 0 BY <1>9, <2>4, <2>5
  <2> HIDE DEF Total
  <2> QED BY <1>3, <1>7, <1>10, <1>11, <2>2, <2>3, <2>4, <2>6 DEF Allocated
<1>13. CASE ~(Total <= 0 \/ S = {})
  <2>1. answer = Slices(n, o, Total) BY <1>3, <1>6, <1>8, <1>13 DEF Allocate
  <2>2. /\ DOMAIN answer \subseteq S
        /\ \A e \in DOMAIN answer : answer[e] \in 1..Cap(Total)
        /\ SumOf(answer) \in Int /\ SumOf(answer) <= Total
        /\ MinSlice * Cardinality(S) > Total => SumOf(answer) = Total
        /\ MinSlice * Cardinality(S) <= Total =>
             DOMAIN answer = S /\ \A e \in S : answer[e] >= MinSlice
    BY <1>3, <1>5, <1>7, <2>1, SlicesRight
  <2> QED BY <1>3, <1>7, <1>10, <1>11, <2>2 DEF Allocated
<1> QED BY <1>12, <1>13

\* No call of allocate hands out impressions that cost more than the budget that
\* remains (uap/pacing.py allocate, its assertion).
THEOREM BudgetKept == SpecCalls => []NeverOverBudget
<1>1. Asked /\ AnswerRight => NeverOverBudget
  <2> SUFFICES ASSUME Asked, AnswerRight, Returned("allocate")
               PROVE  /\ (SumOf(answer) * Max({1, call.price})) \div 1000 <= call.remaining
                      /\ SumOf(answer) <= Total
    BY DEF NeverOverBudget
  <2> DEFINE sum == SumOf(answer)  cost == Max({1, call.price})
  <2>1. /\ sum \in Int /\ cost \in Nat \ {0} /\ Total \in Nat /\ call.remaining \in Nat
        /\ sum <= Total /\ Total * cost <= call.remaining * 1000
    BY AllocationRight DEF Allocated
  <2> HIDE DEF sum, cost
  <2>2. sum * cost <= Total * cost BY <2>1
  <2>3. sum * cost \in Int /\ Total * cost \in Int BY <2>1
  <2>4. sum * cost <= call.remaining * 1000 BY <2>1, <2>2, <2>3
  <2>5. (sum * cost) \div 1000 <= call.remaining BY <2>1, <2>3, <2>4
  <2> QED BY <2>1, <2>5 DEF sum, cost
<1> QED BY <1>1, Answered, PTL

\* A slice is positive and at most the cap, and nothing the budget covers is kept
\* back from the nodes when it cannot pay every ramp (uap/pacing.py allocate).
THEOREM CapsKept == SpecCalls => []CapAndRamps
<1>1. Asked /\ AnswerRight => CapAndRamps
  BY AllocationRight DEF Allocated, CapAndRamps, Cap
<1> QED BY <1>1, Answered, PTL

\* A budget that covers every ramp pays every ramp (uap/pacing.py allocate).
THEOREM RampsPaid == SpecCalls => []RampsIntact
<1>1. Asked /\ AnswerRight => RampsIntact
  BY AllocationRight DEF Allocated, RampsIntact
<1> QED BY <1>1, Answered, PTL

-----------------------------------------------------------------------------
(* Supply chains.                                                           *)

\* An anchor stands at one place of AnchorStrength.
LEMMA AnchorsDiffer ==
  /\ DOMAIN AnchorStrength = 1..5
  /\ \A v, w \in 1..5 : AnchorStrength[v] = AnchorStrength[w] => v = w
BY DEF AnchorStrength

LEMMA AcceptedChain ==
  ASSUME NEW chain, NEW declarations, chain.nodes \in Seq(Range(chain.nodes)),
         VerifyChain(chain, declarations).ok
  PROVE  LET nodes == chain.nodes
             verdict == VerifyChain(chain, declarations)
         IN  /\ verdict.resolved + verdict.unresolvable = Len(nodes)
             /\ verdict.paymentHops \in 1..Len(nodes)
             /\ \A i \in DOMAIN nodes : \E s \in Strengths(nodes[i]) :
                  s >= Min({w \in DOMAIN AnchorStrength : AnchorStrength[w] = verdict.weakest})
             /\ \A held \in SUBSET DOMAIN declarations :
                  VerifyChain(chain, [a \in held |-> declarations[a]]).ok
<1> DEFINE nodes == chain.nodes
           n == Len(nodes)
           D(d) == {i \in DOMAIN nodes : Resolves(nodes[i], d)}
           U(d) == {i \in DOMAIN nodes : Named(nodes[i]) /\ nodes[i].asi \notin DOMAIN d}
           P == {i \in DOMAIN nodes : Named(nodes[i]) /\ nodes[i].hp = 1}
           strengths == UNION {Strengths(nodes[i]) : i \in {j \in DOMAIN nodes : Named(nodes[j])}}
           Fine(d) == /\ Len(nodes) <= MaxHops /\ chain.complete /\ Cardinality(P) > 0
                      /\ \A i \in DOMAIN nodes : Accepted(nodes[i], d) /\ ~Loops(nodes, i)
           weakest == AnchorStrength[Min(strengths \cup {Len(AnchorStrength)})]
           verdict == VerifyChain(chain, declarations)
<1>1. \A d : nodes # <<>> =>
        VerifyChain(chain, d) = [ok |-> Fine(d), resolved |-> Cardinality(D(d)),
                                 unresolvable |-> Cardinality(U(d)),
                                 paymentHops |-> Cardinality(P), weakest |-> weakest]
  BY DEF VerifyChain
<1>2. nodes # <<>> BY DEF VerifyChain
<1>3. n \in Nat /\ DOMAIN nodes = 1..n OBVIOUS
<1> HIDE DEF nodes
<1>4. /\ Fine(declarations) /\ verdict.resolved = Cardinality(D(declarations))
      /\ verdict.unresolvable = Cardinality(U(declarations))
      /\ verdict.paymentHops = Cardinality(P) /\ verdict.weakest = weakest
  <2> HIDE DEF Fine, P, D, U, weakest
  <2> QED BY <1>1, <1>2
<1>5. verdict.resolved + verdict.unresolvable = n
  <2>1. D(declarations) \cup U(declarations) = 1..n BY <1>3, <1>4 DEF Accepted, Held, Resolves
  <2>2. D(declarations) \cap U(declarations) = {} BY DEF Resolves, Held
  <2> QED BY <1>3, <1>4, <2>1, <2>2, Partition
<1>6. verdict.paymentHops \in 1..n
  <2>1. P \in SUBSET (1..n) BY <1>3
  <2> HIDE DEF P
  <2>2. Cardinality(P) \in 0..n BY <1>3, <2>1, CountBound
  <2> QED BY <1>3, <1>4, <2>2
<1>7. ASSUME NEW i \in DOMAIN nodes
      PROVE  \E s \in Strengths(nodes[i]) :
               s >= Min({w \in DOMAIN AnchorStrength : AnchorStrength[w] = verdict.weakest})
  <2>1. Len(AnchorStrength) = 5 BY DEF AnchorStrength
  <2>2. \A j \in DOMAIN nodes : Strengths(nodes[j]) \subseteq 1..5 BY AnchorsDiffer DEF Strengths
  <2>3. Named(nodes[i]) /\ Strengths(nodes[i]) # {} BY <1>4 DEF Accepted
  <2>4. PICK s \in Strengths(nodes[i]) : TRUE BY <2>3
  <2> DEFINE S == strengths \cup {5}
             m == Min(S)
  <2>5. S \in SUBSET (1..5) /\ s \in S BY <2>2, <2>3, <2>4
  <2> HIDE DEF S
  <2>6. m \in S /\ m <= s
    <3>1. S \in SUBSET Nat /\ S # {} BY <2>5
    <3> QED BY <2>5, <3>1, MinExists
  <2>7. weakest = AnchorStrength[m] BY <2>1 DEF S
  <2> HIDE DEF m, weakest
  <2>8. {w \in DOMAIN AnchorStrength : AnchorStrength[w] = verdict.weakest} = {m}
    BY <1>4, <2>5, <2>6, <2>7, AnchorsDiffer
  <2>9. Min({m}) = m BY <2>5, <2>6 DEF Min
  <2>10. s \in 1..5 /\ m \in 1..5 BY <2>5, <2>6
  <2> QED BY <2>4, <2>6, <2>8, <2>9, <2>10
<1>8. ASSUME NEW held \in SUBSET DOMAIN declarations
      PROVE  VerifyChain(chain, [a \in held |-> declarations[a]]).ok
  <2> DEFINE d == [a \in held |-> declarations[a]]
  <2>1. DOMAIN d = held /\ \A a \in held : d[a] = declarations[a] OBVIOUS
  <2> HIDE DEF d
  <2>2. \A i \in DOMAIN nodes : Accepted(nodes[i], d)
    BY <1>4, <2>1 DEF Accepted, Held, Resolves
  <2>3. Fine(d) BY <1>4, <2>2
  <2>4. VerifyChain(chain, d).ok
    <3> HIDE DEF Fine, P, D, U, weakest
    <3> QED BY <1>1, <1>2, <2>3
  <2> QED BY <2>4 DEF d
<1> QED BY <1>5, <1>6, <1>7, <1>8 DEF nodes

\* A chain that is accepted is vouched for, hop by hop, whatever was held
\* (uap/supply_chain.py verify_chain).
THEOREM ChainVouched == SpecCalls => []AcceptedIsVouchedFor
<1>1. Asked /\ AnswerRight => AcceptedIsVouchedFor
  <2> SUFFICES ASSUME Asked, AnswerRight, Returned("verify_chain"), answer.ok
               PROVE  AcceptedIsVouchedFor
    BY DEF AcceptedIsVouchedFor
  <2>1. answer = VerifyChain(call.chain, call.declarations) BY DEF AnswerRight
  <2>2. VerifyChainCalled
    BY DEF Asked, Returned, AllocateCalled, EvaluateCalled, VerifyChainCalled, AssessCalled,
           ComposeCalled, AggregateCalled, ReleaseCalled
  <2>3. call.chain.nodes \in Seq(Range(call.chain.nodes))
    BY <2>2, CallsAssumption DEF VerifyChainCalled
  <2> QED BY <2>1, <2>3, AcceptedChain DEF AcceptedIsVouchedFor
<1> QED BY <1>1, Answered, PTL

-----------------------------------------------------------------------------
(* Predicates.                                                              *)

Outcomes == {"yes", "no", "raises"}

\* What an evaluation relies on of a predicate: the parts are there.
Closed(p) ==
  /\ <<>> \in DOMAIN p
  /\ \A q \in DOMAIN p : /\ Branches(p[q]) => p[q].arg \in Nat
                         /\ \A i \in Parts(p[q]) : Append(q, i) \in DOMAIN p

\* A term has one of three outcomes.
LEMMA TermType == ASSUME NEW node, NEW signal PROVE Term(node, signal) \in Outcomes
BY DEF Term, Outcomes, Answer, UnknownTerm

\* And so has its closure.
LEMMA CompiledTermType ==
  ASSUME NEW node, NEW signal PROVE CompiledTerm(node, signal) \in Outcomes
BY TermType DEF CompiledTerm, Outcomes, Answer

\* The first part that is not `same` decides.
LEMMA DecisiveFirst ==
  ASSUME NEW I \in SUBSET Nat, NEW parts \in [I -> Outcomes], NEW same \in {"yes", "no"}
  PROVE  \/ (\A i \in I : parts[i] = same) /\ Decisive(parts, same) = same
         \/ \E i \in I : /\ parts[i] # same /\ Decisive(parts, same) = parts[i]
                         /\ \A j \in I : j < i => parts[j] = same
<1> DEFINE other == {i \in DOMAIN parts : parts[i] # same}
<1>1. CASE other = {} BY <1>1 DEF Decisive
<1>2. CASE other # {}
  <2>1. other \in SUBSET Nat OBVIOUS
  <2>2. Min(other) \in other /\ \A y \in other : Min(other) <= y
    <3> HIDE DEF other
    <3> QED BY <1>2, <2>1, MinExists
  <2>3. Decisive(parts, same) = parts[Min(other)] BY <1>2 DEF Decisive
  <2> DEFINE i == Min(other)
  <2>4. i \in I /\ parts[i] # same BY <2>2
  <2>5. \A j \in I : j < i => parts[j] = same
    <3> SUFFICES ASSUME NEW j \in I, j < i, parts[j] # same PROVE FALSE OBVIOUS
    <3>1. j \in other OBVIOUS
    <3>2. i <= j BY <2>2, <3>1
    <3> HIDE DEF i
    <3> QED BY <2>4, <3>2
  <2> QED BY <2>3, <2>4, <2>5
<1> QED BY <1>1, <1>2

\* all() and any() over outcomes come to one.
LEMMA DecisiveType ==
  ASSUME NEW I \in SUBSET Nat, NEW parts \in [I -> Outcomes], NEW same \in {"yes", "no"}
  PROVE  Decisive(parts, same) \in Outcomes
BY DecisiveFirst DEF Outcomes

\* The parts of an operator are numbered.
LEMMA PartsNumbered ==
  ASSUME NEW p, Closed(p), NEW q \in DOMAIN p PROVE Parts(p[q]) \in SUBSET Nat
BY DEF Closed, Parts

\* A level over outcomes has outcomes.
LEMMA LevelType ==
  ASSUME NEW p, Closed(p), NEW terms \in [DOMAIN p -> Outcomes],
         NEW inner \in [DOMAIN p -> Outcomes]
  PROVE  OneLevel(p, terms, inner) \in [DOMAIN p -> Outcomes]
<1> SUFFICES ASSUME NEW q \in DOMAIN p PROVE OneLevel(p, terms, inner)[q] \in Outcomes
  BY DEF OneLevel
<1> DEFINE parts == [i \in Parts(p[q]) |-> inner[Append(q, i)]]
<1>1. \A i \in Parts(p[q]) : Append(q, i) \in DOMAIN p BY DEF Closed
<1>2. parts \in [Parts(p[q]) -> Outcomes] BY <1>1
<1>3. Same(p[q].op) \in {"yes", "no"} BY DEF Same
<1>4. Decisive(parts, Same(p[q].op)) \in Outcomes
  <2> HIDE DEF parts
  <2> QED BY <1>2, <1>3, PartsNumbered, DecisiveType
<1>5. Negated(inner[Append(q, 1)]) \in Outcomes BY DEF Negated, Outcomes
<1>6. terms[q] \in Outcomes OBVIOUS
<1> QED BY <1>4, <1>5, <1>6 DEF OneLevel, Outcomes

\* What a predicate comes to, read to each number of levels.
Levels(p, terms, read) ==
  /\ read \in [Nat -> [DOMAIN p -> Outcomes]]
  /\ \A q \in DOMAIN p : read[0][q] = "no"
  /\ \A k \in Nat : read[k + 1] = OneLevel(p, terms, read[k])
  /\ \A k \in Nat : Reading(p, terms, k) = read[k][<<>>]

\* A reading goes up level by level.
LEMMA ReadingUnfolds ==
  ASSUME NEW p, Closed(p), NEW terms \in [DOMAIN p -> Outcomes]
  PROVE  \E read : Levels(p, terms, read)
<1> DEFINE V == [DOMAIN p -> Outcomes]
           base == [q \in DOMAIN p |-> "no"]
           step == [v \in V |-> OneLevel(p, terms, v)]
           Def(f) == f = [k \in Nat |-> IF k = 0 THEN base ELSE OneLevel(p, terms, f[k - 1])]
           read == CHOOSE f : Def(f)
<1>1. base \in V BY DEF Outcomes
<1>2. step \in [V -> V] BY LevelType
<1>0. PICK f : Iterates(f, V, base, step)
  <2> HIDE DEF V, base, step
  <2> QED BY <1>1, <1>2, RecursionExists
<1>3. f \in [Nat -> V] /\ f[0] = base /\ \A k \in Nat : f[k + 1] = step[f[k]]
  <2> HIDE DEF V, base, step
  <2> QED BY <1>0 DEF Iterates
<1>4. \A k \in Nat : f[k + 1] = OneLevel(p, terms, f[k]) BY <1>3
<1>5. Def(f)
  <2> SUFFICES ASSUME NEW k \in Nat
               PROVE  f[k] = IF k = 0 THEN base ELSE OneLevel(p, terms, f[k - 1])
    BY <1>3
  <2>1. CASE k = 0 BY <1>3, <2>1
  <2>2. CASE k # 0
    <3>1. k - 1 \in Nat /\ (k - 1) + 1 = k BY <2>2
    <3>2. f[(k - 1) + 1] = OneLevel(p, terms, f[k - 1]) BY <1>4, <3>1
    <3> QED BY <2>2, <3>1, <3>2
  <2> QED BY <2>1, <2>2
<1>6. Def(read) BY <1>5
<1>7. read[0] = base BY <1>6
<1>8. ASSUME NEW k \in Nat PROVE read[k + 1] = OneLevel(p, terms, read[k])
  <2> HIDE DEF read, base
  <2>1. k + 1 \in Nat /\ k + 1 # 0 /\ (k + 1) - 1 = k OBVIOUS
  <2> QED BY <1>6, <2>1
<1>9. \A k \in Nat : Reading(p, terms, k) = read[k][<<>>] BY DEF Reading
<1>10. \A k \in Nat : read[k] \in V
  <2> DEFINE S == {k \in Nat : read[k] \in V}
  <2>1. 0 \in S BY <1>1, <1>7
  <2>2. \A k \in Nat : k \in S => k + 1 \in S
    <3> SUFFICES ASSUME NEW k \in Nat, k \in S PROVE k + 1 \in S OBVIOUS
    <3> HIDE DEF read
    <3>1. read[k] \in V OBVIOUS
    <3>2. read[k + 1] = OneLevel(p, terms, read[k]) BY <1>8
    <3> QED BY <3>1, <3>2, LevelType
  <2>3. \A k \in Nat : k \in S
    <3> HIDE DEF S
    <3> QED BY <2>1, <2>2, AllNaturals
  <2> QED BY <2>3
<1>11. read \in [Nat -> V]
  <2> HIDE DEF V, base
  <2> QED BY <1>6, <1>10
<1>12. \A q \in DOMAIN p : read[0][q] = "no" BY <1>7
<1> HIDE DEF read
<1> QED BY <1>8, <1>9, <1>11, <1>12 DEF Levels

\* One level of a predicate, by what the node is.
LEMMA LevelCases ==
  ASSUME NEW p, NEW terms, NEW inner, NEW q \in DOMAIN p
  PROVE  LET v == OneLevel(p, terms, inner)[q]
         IN  /\ p[q].op = "malformed" => v = "no"
             /\ p[q].op \in {"all", "any"} /\ p[q].kind # "list" => v = "no"
             /\ Branches(p[q]) =>
                  v = Decisive([i \in Parts(p[q]) |-> inner[Append(q, i)]], Same(p[q].op))
             /\ p[q].op = "not" => v = Negated(inner[Append(q, 1)])
             /\ p[q].op \notin {"malformed", "all", "any", "not"} => v = terms[q]
BY DEF OneLevel, Branches

\* Where every node below a number of levels is malformed, more levels read the same.
LEMMA DeepEnough ==
  ASSUME NEW p, IsPredicate(p), NEW terms \in [DOMAIN p -> Outcomes],
         NEW D \in Nat, \A r \in Understood(p) : Len(r) < D, NEW K \in Nat, D <= K
  PROVE  Reading(p, terms, K) = Reading(p, terms, D)
<1>1. Closed(p) BY DEF IsPredicate, Closed
<1>2. PICK read : Levels(p, terms, read) BY <1>1, ReadingUnfolds
<1> DEFINE S == {k \in Nat : \A j \in Nat : \A q \in DOMAIN p :
                   Len(q) + k >= D => read[k][q] = read[k + j][q]}
<1>3. \A q \in DOMAIN p : Len(q) \in Nat BY DEF IsPredicate
<1>4. 0 \in S
  <2> SUFFICES ASSUME NEW j \in Nat, NEW q \in DOMAIN p, Len(q) + 0 >= D
               PROVE  read[0][q] = read[0 + j][q]
    OBVIOUS
  <2>1. p[q].op = "malformed" BY <1>3 DEF Understood
  <2>2. read[0][q] = "no" BY <1>2 DEF Levels
  <2>3. CASE j = 0 BY <2>3
  <2>4. CASE j # 0
    <3>1. j - 1 \in Nat /\ (j - 1) + 1 = j /\ 0 + j = j BY <2>4
    <3>2. read[(j - 1) + 1] = OneLevel(p, terms, read[j - 1]) BY <1>2, <3>1 DEF Levels
    <3>3. OneLevel(p, terms, read[j - 1])[q] = "no" BY <2>1 DEF OneLevel
    <3> QED BY <2>2, <3>1, <3>2, <3>3
  <2> QED BY <2>3, <2>4
<1>5. ASSUME NEW k \in Nat, k \in S PROVE k + 1 \in S
  <2> SUFFICES ASSUME NEW j \in Nat, NEW q \in DOMAIN p, Len(q) + (k + 1) >= D
               PROVE  read[k + 1][q] = read[(k + 1) + j][q]
    OBVIOUS
  <2>1. k + j \in Nat /\ (k + 1) + j = (k + j) + 1 OBVIOUS
  <2>2. /\ read[k + 1] = OneLevel(p, terms, read[k])
        /\ read[(k + j) + 1] = OneLevel(p, terms, read[k + j])
    BY <1>2, <2>1 DEF Levels
  <2>3. ASSUME NEW i \in Parts(p[q])
        PROVE  read[k][Append(q, i)] = read[k + j][Append(q, i)]
    <3>1. Append(q, i) \in DOMAIN p BY <1>1 DEF Closed
    <3>2. q \in Seq(Nat) BY DEF IsPredicate
    <3>3. Len(Append(q, i)) = Len(q) + 1 BY <3>2
    <3>4. Len(Append(q, i)) + k >= D BY <1>3, <3>3
    <3> QED BY <1>5, <3>1, <3>4
  <2>4. [i \in Parts(p[q]) |-> read[k][Append(q, i)]]
          = [i \in Parts(p[q]) |-> read[k + j][Append(q, i)]]
    BY <2>3
  <2>5. p[q].op = "not" => read[k][Append(q, 1)] = read[k + j][Append(q, 1)]
    BY <2>3 DEF Parts
  <2>6. OneLevel(p, terms, read[k])[q] = OneLevel(p, terms, read[k + j])[q]
    BY <2>4, <2>5 DEF OneLevel
  <2> QED BY <2>1, <2>2, <2>6
<1>6. D \in S
  <2>1. \A k \in Nat : k \in S
    <3> HIDE DEF S
    <3> QED BY <1>4, <1>5, AllNaturals
  <2> QED BY <2>1
<1>7. <<>> \in DOMAIN p /\ Len(<<>>) = 0 BY DEF IsPredicate
<1>8. K - D \in Nat /\ D + (K - D) = K OBVIOUS
<1>9. read[D][<<>>] = read[D + (K - D)][<<>>]
  <2>1. Len(<<>>) + D >= D BY <1>7
  <2>2. \A j \in Nat : \A q \in DOMAIN p : Len(q) + D >= D => read[D][q] = read[D + j][q]
    BY <1>6
  <2> QED BY <1>7, <1>8, <2>1, <2>2
<1> QED BY <1>2, <1>8, <1>9 DEF Levels

\* Depth is a bound on the positions it looks at, and so is height.
LEMMA LongestIs ==
  ASSUME NEW p, IsPredicate(p), NEW T \in SUBSET DOMAIN p, NEW Z \in SUBSET {0},
         NEW q \in T
  PROVE  LET m == Max(Z \cup {Len(r) + 1 : r \in T})
         IN  m \in Nat /\ \A r \in T : Len(r) < m
<1> DEFINE W == Z \cup {Len(r) + 1 : r \in T}
<1>1. IsFiniteSet(DOMAIN p) /\ \A r \in DOMAIN p : Len(r) \in Nat BY DEF IsPredicate
<1>2. PICK K \in Nat : \A r \in DOMAIN p : Len(r) < K BY <1>1, LongestExists
<1>3. W \in SUBSET Nat /\ \A x \in W : x <= K
  <2> SUFFICES ASSUME NEW x \in W PROVE x \in Nat /\ x <= K OBVIOUS
  <2>1. CASE x \in Z BY <2>1
  <2>2. CASE x \notin Z
    <3>1. PICK r \in T : x = Len(r) + 1 BY <2>2
    <3>2. Len(r) \in Nat /\ Len(r) < K BY <1>1, <1>2
    <3> QED BY <3>1, <3>2
  <2> QED BY <2>1, <2>2
<1>4. W # {} BY <1>1
<1>5. Max(W) \in W /\ \A y \in W : y <= Max(W)
  <2> HIDE DEF W
  <2> QED BY <1>3, <1>4, MaxExists
<1>6. \A r \in T : Len(r) + 1 \in W OBVIOUS
<1>7. Max(W) \in Nat BY <1>3, <1>5
<1>8. \A r \in T : Len(r) < Max(W)
  <2> SUFFICES ASSUME NEW r \in T PROVE Len(r) < Max(W) OBVIOUS
  <2>1. Len(r) + 1 <= Max(W) BY <1>5, <1>6
  <2> HIDE DEF W
  <2> QED BY <1>1, <1>7, <2>1
<1> QED BY <1>7, <1>8

\* A valid predicate is malformed below the levels that are evaluated.
LEMMA ValidIsShallow ==
  ASSUME NEW p, IsPredicate(p), Valid(p)
  PROVE  \A r \in Understood(p) : Len(r) < MaxDepth
<1> SUFFICES ASSUME NEW r \in Understood(p) PROVE Len(r) < MaxDepth OBVIOUS
<1>1. Understood(p) \in SUBSET DOMAIN p BY DEF Understood
<1>2. Depth(p) \in Nat /\ Len(r) < Depth(p)
  BY <1>1, LongestIs, {0} \in SUBSET {0} DEF Depth
<1>3. Len(r) \in Nat BY <1>1 DEF IsPredicate
<1> QED BY <1>2, <1>3, PredicateAssumption DEF Valid

\* No depth guard cuts a valid predicate.
LEMMA NothingCut ==
  ASSUME NEW p, IsPredicate(p), Valid(p), NEW terms \in [DOMAIN p -> Outcomes]
  PROVE  Reading(p, terms, MaxDepth + 1) = Reading(p, terms, Height(p))
<1>1. \A r \in Understood(p) : Len(r) < MaxDepth BY ValidIsShallow
<1>2. MaxDepth \in Nat BY PredicateAssumption
<1>3. Reading(p, terms, MaxDepth + 1) = Reading(p, terms, MaxDepth)
  BY <1>1, <1>2, DeepEnough
<1>4. Height(p) \in Nat /\ \A r \in DOMAIN p : Len(r) < Height(p)
  <2>1. <<>> \in DOMAIN p BY DEF IsPredicate
  <2>2. {} \cup {Len(r) + 1 : r \in DOMAIN p} = {Len(r) + 1 : r \in DOMAIN p} OBVIOUS
  <2> QED BY <2>1, <2>2, LongestIs, {} \in SUBSET {0} DEF Height
<1>5. \A r \in Understood(p) : Len(r) < Height(p) BY <1>4 DEF Understood
<1>6. CASE MaxDepth <= Height(p)
  <2>1. Reading(p, terms, Height(p)) = Reading(p, terms, MaxDepth)
    BY <1>1, <1>2, <1>4, <1>6, DeepEnough
  <2> QED BY <1>3, <2>1
<1>7. CASE Height(p) <= MaxDepth
  <2>1. Reading(p, terms, MaxDepth) = Reading(p, terms, Height(p))
    BY <1>2, <1>4, <1>5, <1>7, DeepEnough
  <2> QED BY <1>3, <2>1
<1> QED BY <1>2, <1>4, <1>6, <1>7

\* What the assumption says of a signal.
SignalRight(signal) ==
  /\ {"intents", "commercial", "risk", "value", "cached"} \subseteq DOMAIN signal
  /\ signal.cached \in {Missing, Prepare(signal).cached}

\* Preparing a signal changes nothing that a term looks at.
LEMMA PreparedSame ==
  ASSUME NEW signal, SignalRight(signal)
  PROVE  LET ready == Prepare(signal)
         IN  /\ IntentIds(ready) = IntentIds(signal)
             /\ ready.intents = signal.intents /\ ready.commercial = signal.commercial
             /\ ready.risk = signal.risk /\ ready.value = signal.value
<1> DEFINE ids == {signal.intents[i].id : i \in DOMAIN signal.intents}
           ready == Prepare(signal)
<1>1. /\ ready.cached = ids
      /\ ready.intents = signal.intents /\ ready.commercial = signal.commercial
      /\ ready.risk = signal.risk /\ ready.value = signal.value
  BY DEF SignalRight, Prepare
<1>2. IntentIds(ready) = ids BY <1>1 DEF IntentIds
<1>3. signal.cached \in {Missing, ids} BY <1>1 DEF SignalRight
<1>4. IntentIds(signal) = ids BY <1>3 DEF IntentIds
<1> QED BY <1>1, <1>2, <1>4

\* The closure of a term that could be built returns what the interpreter does.
LEMMA TermsSame ==
  ASSUME NEW node, NEW signal, SignalRight(signal), ~FreezeRaises(node)
  PROVE  CompiledTerm(node, Prepare(signal)) = Term(node, signal)
<1> DEFINE ready == Prepare(signal)
<1>1. /\ IntentIds(ready) = IntentIds(signal)
      /\ ready.intents = signal.intents /\ ready.commercial = signal.commercial
      /\ ready.risk = signal.risk /\ ready.value = signal.value
  BY PreparedSame
<1> HIDE DEF ready
<1>2. Intents(node, ready) = Intents(node, signal) BY <1>1 DEF Intents
<1>3. InList(node, ready) = InList(node, signal) BY <1>1 DEF InList
<1>4. \A id : Confidence(ready, id) = Confidence(signal, id) BY <1>1 DEF Confidence
<1>5. Term(node, ready) = Term(node, signal)
  BY <1>1, <1>2, <1>3, <1>4 DEF Term
<1>6. CASE node.op \in {"intent_any", "intent_all"} /\ node.kind = "list"
  <2>1. Unhashable \notin node.arg BY <1>6 DEF FreezeRaises
  <2>2. Term(node, signal) = Answer(Intents(node, signal))
    BY <1>6, <2>1 DEF Term, Answer, Listed
  <2>3. CompiledTerm(node, ready) = Answer(Intents(node, ready))
    BY <1>6 DEF CompiledTerm, Listed
  <2> QED BY <1>2, <2>2, <2>3 DEF ready
<1>7. CASE node.op = "commercial_intent_gte" /\ node.kind = "number"
  <2>1. Term(node, signal) = Answer(AtLeast(signal.commercial, node.arg))
    BY <1>7 DEF Term, Answer, Listed
  <2>2. CompiledTerm(node, ready) = Answer(AtLeast(ready.commercial, node.arg))
    BY <1>7 DEF CompiledTerm
  <2> QED BY <1>1, <2>1, <2>2 DEF ready
<1>8. CASE node.op \in Listed /\ node.kind = "list"
  <2>1. Term(node, signal) = Answer(InList(node, signal))
    BY <1>8 DEF Term, Answer, Listed
  <2>2. CompiledTerm(node, ready) = Answer(InList(node, ready))
    BY <1>8 DEF CompiledTerm, Listed
  <2> QED BY <1>3, <2>1, <2>2 DEF ready
<1>9. CASE ~(\/ node.op \in {"intent_any", "intent_all"} /\ node.kind = "list"
             \/ node.op = "commercial_intent_gte" /\ node.kind = "number"
             \/ node.op \in Listed /\ node.kind = "list")
  <2>1. CompiledTerm(node, ready) = Term(node, ready) BY <1>9 DEF CompiledTerm
  <2> QED BY <1>5, <2>1 DEF ready
<1> QED BY <1>6, <1>7, <1>8, <1>9

\* One meaning of every predicate that is accepted.
LEMMA OneMeaning ==
  ASSUME NEW p, IsPredicate(p), Valid(p), ~CompileRaises(p), NEW signal, SignalRight(signal)
  PROVE  /\ Compiled(p, Prepare(signal)) = Evaluate(p, signal)
         /\ Evaluate(p, signal) = Reading(p, Terms(p, signal), Height(p))
<1>1. Terms(p, signal) \in [DOMAIN p -> Outcomes] BY TermType DEF Terms
<1>2. ASSUME NEW q \in DOMAIN p PROVE ~FreezeRaises(p[q])
  <2> SUFFICES ASSUME FreezeRaises(p[q]) PROVE FALSE OBVIOUS
  <2>1. p[q].op # "malformed" BY DEF FreezeRaises, Listed
  <2>2. Len(q) < MaxDepth BY <2>1, ValidIsShallow DEF Understood
  <2>3. Len(q) \in Nat BY DEF IsPredicate
  <2>4. Len(q) <= MaxDepth BY <2>2, <2>3, PredicateAssumption
  <2> QED BY <2>4 DEF CompileRaises
<1>3. [q \in DOMAIN p |-> CompiledTerm(p[q], Prepare(signal))] = Terms(p, signal)
  BY <1>2, TermsSame DEF Terms
<1>4. Compiled(p, Prepare(signal)) = Evaluate(p, signal) BY <1>3 DEF Compiled, Evaluate
<1> QED BY <1>1, <1>4, NothingCut DEF Evaluate

\* Under an even number of negations a part gone wrong never widens, under an odd
\* number it never narrows.
Narrower(even, w, o) == IF even THEN w = "yes" => o # "no" ELSE w = "no" => o # "yes"

\* Of two lists of parts that differ in one, the outcomes differ as that one does.
LEMMA DecisiveNarrower ==
  ASSUME NEW I \in SUBSET Nat, NEW w \in [I -> Outcomes], NEW o \in [I -> Outcomes],
         NEW same \in {"yes", "no"}, NEW j \in I, \A i \in I \ {j} : w[i] = o[i],
         NEW even \in BOOLEAN, Narrower(even, w[j], o[j])
  PROVE  Narrower(even, Decisive(w, same), Decisive(o, same))
<1> DEFINE First(v, i) == /\ v[i] # same /\ Decisive(v, same) = v[i]
                          /\ \A h \in I : h < i => v[h] = same
           None1(v) == (\A i \in I : v[i] = same) /\ Decisive(v, same) = same
<1>1. None1(w) \/ \E a \in I : First(w, a) BY DecisiveFirst
<1>2. None1(o) \/ \E b \in I : First(o, b) BY DecisiveFirst
<1>3. CASE None1(w) /\ None1(o) BY <1>3 DEF Narrower
<1>4. CASE None1(w) /\ ~None1(o)
  <2>1. PICK b \in I : First(o, b) BY <1>2, <1>4
  <2>2. b = j BY <1>4, <2>1
  <2>3. Decisive(w, same) = w[j] /\ Decisive(o, same) = o[j] BY <1>4, <2>1, <2>2
  <2> QED BY <2>3
<1>5. CASE ~None1(w) /\ None1(o)
  <2>1. PICK a \in I : First(w, a) BY <1>1, <1>5
  <2>2. a = j BY <1>5, <2>1
  <2>3. Decisive(w, same) = w[j] /\ Decisive(o, same) = o[j] BY <1>5, <2>1, <2>2
  <2> QED BY <2>3
<1>6. CASE ~None1(w) /\ ~None1(o)
  <2>1. PICK a \in I : First(w, a) BY <1>1, <1>6
  <2>2. PICK b \in I : First(o, b) BY <1>2, <1>6
  <2>3. CASE a = b
    <3>1. CASE a = j BY <2>1, <2>2, <2>3, <3>1
    <3>2. CASE a # j
      <4>1. Decisive(w, same) = Decisive(o, same) BY <2>1, <2>2, <2>3, <3>2
      <4> QED BY <4>1 DEF Narrower
    <3> QED BY <3>1, <3>2
  <2>4. CASE a < b
    <3>1. o[a] = same BY <2>2, <2>4
    <3>2. a = j BY <2>1, <3>1
    <3>3. Decisive(w, same) = w[j] /\ o[j] = same BY <2>1, <3>1, <3>2
    <3>4. Decisive(o, same) # same BY <2>2
    <3>5. w[j] # same BY <2>1, <3>2
    <3> QED BY <3>3, <3>4, <3>5 DEF Narrower
  <2>5. CASE b < a
    <3>1. w[b] = same BY <2>1, <2>5
    <3>2. b = j BY <2>2, <3>1
    <3>3. Decisive(o, same) = o[j] /\ w[j] = same BY <2>2, <3>1, <3>2
    <3>4. Decisive(w, same) # same BY <2>1
    <3>5. o[j] # same BY <2>2, <3>2
    <3> QED BY <3>3, <3>4, <3>5 DEF Narrower
  <2>6. a \in Nat /\ b \in Nat OBVIOUS
  <2> QED BY <2>3, <2>4, <2>5, <2>6
<1> QED BY <1>3, <1>4, <1>5, <1>6

\* Every operator above a position is there, and the next number of the position is
\* one of its parts.
LEMMA PathThere ==
  ASSUME NEW p, IsPredicate(p), NEW pos \in DOMAIN p
  PROVE  \A n \in 0..Len(pos) :
           /\ SubSeq(pos, 1, n) \in DOMAIN p
           /\ n < Len(pos) => pos[n + 1] \in Parts(p[SubSeq(pos, 1, n)])
<1>1. pos \in Seq(Nat) /\ Len(pos) \in Nat BY DEF IsPredicate
<1> DEFINE S == {m \in 0..Len(pos) : SubSeq(pos, 1, Len(pos) - m) \in DOMAIN p}
<1>2. ASSUME NEW n \in 0..Len(pos), n > 0, SubSeq(pos, 1, n) \in DOMAIN p
      PROVE  /\ SubSeq(pos, 1, n - 1) \in DOMAIN p
             /\ pos[n] \in Parts(p[SubSeq(pos, 1, n - 1)])
  <2>1. /\ SubSeq(pos, 1, n) # <<>> /\ Front(SubSeq(pos, 1, n)) = SubSeq(pos, 1, n - 1)
        /\ Last(SubSeq(pos, 1, n)) = pos[n]
    BY <1>1, <1>2, PrefixFacts
  <2> QED BY <1>2, <2>1 DEF IsPredicate
<1>3. 0 \in S
  <2>1. Len(pos) \in 0..Len(pos) /\ Len(pos) - 0 = Len(pos) /\ 0 \in 0..Len(pos) BY <1>1
  <2>2. SubSeq(pos, 1, Len(pos)) = pos BY <1>1, WholePrefix
  <2> QED BY <2>1, <2>2
<1>4. \A m \in 0..(Len(pos) - 1) : m \in S => m + 1 \in S
  <2> SUFFICES ASSUME NEW m \in 0..(Len(pos) - 1), m \in S PROVE m + 1 \in S OBVIOUS
  <2>1. /\ Len(pos) - m \in 0..Len(pos) /\ Len(pos) - m > 0 /\ m + 1 \in 0..Len(pos)
        /\ (Len(pos) - m) - 1 = Len(pos) - (m + 1)
    BY <1>1
  <2>2. SubSeq(pos, 1, Len(pos) - m) \in DOMAIN p OBVIOUS
  <2>3. SubSeq(pos, 1, (Len(pos) - m) - 1) \in DOMAIN p BY <1>2, <2>1, <2>2
  <2> QED BY <2>1, <2>3
<1>5. \A m \in 0..Len(pos) : m \in S
  <2> HIDE DEF S
  <2> QED BY <1>1, <1>3, <1>4, UpTo
<1>6. \A n \in 0..Len(pos) : SubSeq(pos, 1, n) \in DOMAIN p
  <2> SUFFICES ASSUME NEW n \in 0..Len(pos) PROVE SubSeq(pos, 1, n) \in DOMAIN p OBVIOUS
  <2>1. Len(pos) - n \in 0..Len(pos) /\ Len(pos) - (Len(pos) - n) = n BY <1>1
  <2>2. SubSeq(pos, 1, Len(pos) - (Len(pos) - n)) \in DOMAIN p BY <1>5, <2>1
  <2> QED BY <2>1, <2>2
<1> SUFFICES ASSUME NEW n \in 0..Len(pos), n < Len(pos)
             PROVE  pos[n + 1] \in Parts(p[SubSeq(pos, 1, n)])
  BY <1>6
<1>7. n + 1 \in 0..Len(pos) /\ n + 1 > 0 /\ (n + 1) - 1 = n BY <1>1
<1> QED BY <1>2, <1>6, <1>7

\* Whether the number of negations at and below each operator on the way is even.
Evens(p, pos) ==
  [n \in 0..Len(pos) |->
     Cardinality({m \in n..(Len(pos) - 1) : p[SubSeq(pos, 1, m)].op = "not"}) % 2 = 0]

\* Each negation on the way turns it.
LEMMA EvensStep ==
  ASSUME NEW p, NEW pos \in Seq(Nat)
  PROVE  /\ Evens(p, pos)[Len(pos)]
         /\ Evens(p, pos)[0] <=> Negations(p, pos) % 2 = 0
         /\ \A n \in 0..Len(pos) : Evens(p, pos)[n] \in BOOLEAN
         /\ \A n \in 0..Len(pos) : n < Len(pos) =>
              (Evens(p, pos)[n] <=> IF p[SubSeq(pos, 1, n)].op = "not" THEN ~Evens(p, pos)[n + 1]
                                    ELSE Evens(p, pos)[n + 1])
<1> DEFINE L == Len(pos)
           N(n) == {m \in n..(L - 1) : p[SubSeq(pos, 1, m)].op = "not"}
<1>1. L \in Nat OBVIOUS
<1>2. \A n \in 0..L : Evens(p, pos)[n] = (Cardinality(N(n)) % 2 = 0) BY DEF Evens
<1>3. N(L) = {} BY <1>1
<1>4. Evens(p, pos)[L]
  <2>1. Cardinality({}) = 0 /\ 0 % 2 = 0 BY FS_EmptySet
  <2>2. L \in 0..L BY <1>1
  <2> HIDE DEF N
  <2> QED BY <1>2, <1>3, <2>1, <2>2
<1>5. Evens(p, pos)[0] <=> Negations(p, pos) % 2 = 0
  <2>1. 0 \in 0..L BY <1>1
  <2> QED BY <1>2, <2>1 DEF Negations
<1>6. \A n \in 0..L : IsFiniteSet(N(n)) /\ Cardinality(N(n)) \in Nat
  <2> SUFFICES ASSUME NEW n \in 0..L PROVE IsFiniteSet(N(n)) /\ Cardinality(N(n)) \in Nat OBVIOUS
  <2>1. IsFiniteSet(n..(L - 1)) BY <1>1, FS_Interval
  <2>2. N(n) \in SUBSET (n..(L - 1)) OBVIOUS
  <2> HIDE DEF N
  <2> QED BY <2>1, <2>2, FS_Subset, FS_CardinalityType
<1>7. ASSUME NEW n \in 0..L, n < L
      PROVE  Evens(p, pos)[n] <=> IF p[SubSeq(pos, 1, n)].op = "not" THEN ~Evens(p, pos)[n + 1]
                                  ELSE Evens(p, pos)[n + 1]
  <2>1. n + 1 \in 0..L BY <1>1, <1>7
  <2>2. CASE p[SubSeq(pos, 1, n)].op = "not"
    <3>1. N(n) = N(n + 1) \cup {n} BY <1>1, <1>7, <2>2
    <3>2. n \notin N(n + 1) OBVIOUS
    <3>3. Cardinality(N(n)) = Cardinality(N(n + 1)) + 1
      <4> HIDE DEF N
      <4> QED BY <1>6, <2>1, <3>1, <3>2, FS_AddElement
    <3>4. \A c \in Nat : (c + 1) % 2 = 0 <=> ~(c % 2 = 0) OBVIOUS
    <3> HIDE DEF N
    <3> QED BY <1>2, <1>6, <2>1, <2>2, <3>3, <3>4
  <2>3. CASE p[SubSeq(pos, 1, n)].op # "not"
    <3>1. N(n) = N(n + 1) BY <1>1, <1>7, <2>3
    <3> HIDE DEF N
    <3> QED BY <1>2, <2>1, <2>3, <3>1
  <2> QED BY <2>2, <2>3
<1>8. \A n \in 0..L : Evens(p, pos)[n] \in BOOLEAN BY <1>2
<1> QED BY <1>4, <1>5, <1>7, <1>8

\* The way to a position, and the positions that are not on it, in a predicate
\* with the part at that position replaced.
OnTheWay(pos) == {SubSeq(pos, 1, n) : n \in 0..Len(pos)}

LEMMA ReplacedThere ==
  ASSUME NEW p, IsPredicate(p), NEW pos \in DOMAIN p, NEW node, Parts(node) = {},
         ~Branches(node)
  PROVE  LET w == Replaced(p, pos, node)
         IN  /\ Closed(w) /\ DOMAIN w \subseteq DOMAIN p
             /\ pos \in DOMAIN w /\ w[pos] = node
             /\ \A q \in DOMAIN w : q # pos => w[q] = p[q]
             /\ \A q \in DOMAIN w : q # pos => \A i \in Parts(p[q]) :
                  /\ Append(q, i) \in DOMAIN w
                  /\ Append(q, i) \in OnTheWay(pos) => q \in OnTheWay(pos)
             /\ OnTheWay(pos) \subseteq DOMAIN w
<1> DEFINE w == Replaced(p, pos, node)
<1>1. pos \in Seq(Nat) /\ Len(pos) \in Nat BY DEF IsPredicate
<1>2. DOMAIN w = {r \in DOMAIN p : r = pos \/ ~IsPrefix(pos, r)} BY DEF Replaced
<1>3. /\ DOMAIN w \subseteq DOMAIN p /\ pos \in DOMAIN w /\ w[pos] = node
      /\ \A q \in DOMAIN w : q # pos => w[q] = p[q]
  BY DEF Replaced
<1> HIDE DEF w
<1>4. ASSUME NEW q \in DOMAIN w, q # pos, NEW i \in Parts(p[q])
      PROVE  /\ Append(q, i) \in DOMAIN w
             /\ Append(q, i) \in OnTheWay(pos) => q \in OnTheWay(pos)
  <2>1. q \in DOMAIN p /\ ~IsPrefix(pos, q) BY <1>2, <1>4
  <2>2. q \in Seq(Nat) /\ Len(q) \in Nat /\ i \in Nat /\ Append(q, i) \in DOMAIN p
    BY <2>1 DEF IsPredicate, Parts
  <2>3. Append(q, i) \in DOMAIN w BY <1>1, <1>2, <2>1, <2>2, PrefixOfAppend
  <2>4. ASSUME Append(q, i) \in OnTheWay(pos) PROVE q \in OnTheWay(pos)
    <3>1. PICK n \in 0..Len(pos) : Append(q, i) = SubSeq(pos, 1, n) BY <2>4 DEF OnTheWay
    <3>2. Len(SubSeq(pos, 1, n)) = n BY <1>1, PrefixFacts
    <3>3. Len(Append(q, i)) = Len(q) + 1 BY <2>2
    <3>4. n > 0 /\ n - 1 \in 0..Len(pos) BY <1>1, <2>2, <3>1, <3>2, <3>3
    <3>5. Front(Append(q, i)) = SubSeq(pos, 1, n - 1) BY <1>1, <3>1, <3>4, PrefixFacts
    <3>6. Front(Append(q, i)) = q BY <2>2, <3>3 DEF Front
    <3> QED BY <3>4, <3>5, <3>6 DEF OnTheWay
  <2> QED BY <2>3, <2>4
<1>5. ASSUME NEW n \in 0..Len(pos) PROVE SubSeq(pos, 1, n) \in DOMAIN w
  <2>1. SubSeq(pos, 1, n) \in DOMAIN p BY PathThere
  <2>2. SubSeq(pos, 1, n) \in Seq(Nat) /\ Len(SubSeq(pos, 1, n)) = n BY <1>1, PrefixFacts
  <2>3. CASE n = Len(pos)
    <3>1. SubSeq(pos, 1, n) = pos BY <1>1, <2>3, PrefixFacts
    <3> QED BY <1>3, <3>1
  <2>4. CASE n < Len(pos)
    <3>1. ~IsPrefix(pos, SubSeq(pos, 1, n)) BY <1>1, <2>2, <2>4 DEF IsPrefix
    <3> QED BY <1>2, <2>1, <3>1
  <2> QED BY <1>1, <2>3, <2>4
<1>6. OnTheWay(pos) \subseteq DOMAIN w BY <1>5 DEF OnTheWay
<1>7. Closed(w)
  <2>1. <<>> \in DOMAIN w
    <3>1. 0 \in 0..Len(pos) BY <1>1
    <3>2. SubSeq(pos, 1, 0) \in Seq(Nat) /\ Len(SubSeq(pos, 1, 0)) = 0
      BY <1>1, <3>1, PrefixFacts
    <3>3. SubSeq(pos, 1, 0) = <<>> BY <3>2
    <3> QED BY <1>5, <3>1, <3>3
  <2>2. ASSUME NEW q \in DOMAIN w
        PROVE  /\ Branches(w[q]) => w[q].arg \in Nat
               /\ \A i \in Parts(w[q]) : Append(q, i) \in DOMAIN w
    <3>1. CASE q = pos BY <1>3, <3>1
    <3>2. CASE q # pos
      <4>1. w[q] = p[q] /\ q \in DOMAIN p BY <1>3, <3>2
      <4>2. Branches(p[q]) => p[q].arg \in Nat BY <4>1 DEF IsPredicate
      <4> QED BY <1>4, <3>2, <4>1, <4>2
    <3> QED BY <3>1, <3>2
  <2> QED BY <2>1, <2>2 DEF Closed
<1> QED BY <1>3, <1>4, <1>6, <1>7 DEF w

\* A part that comes to "no" narrows what it is in, or widens it, level by level.
LEMMA WrongNarrows ==
  ASSUME NEW p, IsPredicate(p), NEW pos \in DOMAIN p, NEW signal,
         NEW node \in {Malformed, Unknown}, NEW K \in Nat
  PROVE  LET w == Replaced(p, pos, node)
         IN  Narrower(Evens(p, pos)[0], Reading(w, Terms(w, signal), K),
                      Reading(p, Terms(p, signal), K))
<1> DEFINE w == Replaced(p, pos, node)
           tw == Terms(w, signal)
           tp == Terms(p, signal)
           L == Len(pos)
           At(n) == SubSeq(pos, 1, n)
           even == Evens(p, pos)
<1>1. pos \in Seq(Nat) /\ L \in Nat BY DEF IsPredicate
<1>2. Parts(node) = {} /\ ~Branches(node) /\ node.op \in {"malformed", "unknown"}
  BY DEF Malformed, Unknown, Parts, Branches
<1>3. /\ Closed(w) /\ DOMAIN w \subseteq DOMAIN p /\ pos \in DOMAIN w /\ w[pos] = node
      /\ \A q \in DOMAIN w : q # pos => w[q] = p[q]
      /\ \A q \in DOMAIN w : q # pos => \A i \in Parts(p[q]) :
           /\ Append(q, i) \in DOMAIN w
           /\ Append(q, i) \in OnTheWay(pos) => q \in OnTheWay(pos)
      /\ OnTheWay(pos) \subseteq DOMAIN w
  BY <1>2, ReplacedThere
<1>4. Closed(p) BY DEF IsPredicate, Closed
<1> HIDE DEF w
<1>5. tw \in [DOMAIN w -> Outcomes] /\ tp \in [DOMAIN p -> Outcomes] BY TermType DEF Terms
<1>6. \A q \in DOMAIN w : q # pos => tw[q] = tp[q] BY <1>3 DEF Terms
<1>7. node.op = "unknown" => tw[pos] = "no" BY <1>3 DEF Terms, Term, Listed, UnknownTerm
<1> HIDE DEF tw, tp
<1>8. PICK rw : Levels(w, tw, rw) BY <1>3, <1>5, ReadingUnfolds
<1>9. PICK rp : Levels(p, tp, rp) BY <1>4, <1>5, ReadingUnfolds
<1>10. ASSUME NEW k \in Nat
       PROVE  /\ rw[k] \in [DOMAIN w -> Outcomes] /\ rp[k] \in [DOMAIN p -> Outcomes]
              /\ rw[k + 1] = OneLevel(w, tw, rw[k]) /\ rp[k + 1] = OneLevel(p, tp, rp[k])
              /\ Reading(w, tw, k) = rw[k][<<>>] /\ Reading(p, tp, k) = rp[k][<<>>]
  BY <1>8, <1>9 DEF Levels
<1>11. (\A q \in DOMAIN w : rw[0][q] = "no") /\ (\A q \in DOMAIN p : rp[0][q] = "no")
  BY <1>8, <1>9 DEF Levels
<1>12. /\ even[L] /\ (even[0] <=> Negations(p, pos) % 2 = 0)
       /\ \A n \in 0..L : even[n] \in BOOLEAN
       /\ \A n \in 0..L : n < L =>
            (even[n] <=> IF p[At(n)].op = "not" THEN ~even[n + 1] ELSE even[n + 1])
  BY <1>1, EvensStep
<1>13. \A n \in 0..L : At(n) \in OnTheWay(pos) BY DEF OnTheWay
<1>14. \A n \in 0..L : n < L => /\ At(n) # pos /\ At(n + 1) = Append(At(n), pos[n + 1])
                                /\ pos[n + 1] \in Parts(p[At(n)])
  <2> SUFFICES ASSUME NEW n \in 0..L, n < L
               PROVE  /\ At(n) # pos /\ At(n + 1) = Append(At(n), pos[n + 1])
                      /\ pos[n + 1] \in Parts(p[At(n)])
    OBVIOUS
  <2>1. Len(At(n)) = n /\ At(n + 1) = Append(At(n), pos[n + 1]) BY <1>1, PrefixFacts
  <2>2. At(n) # pos BY <1>1, <2>1
  <2> QED BY <2>1, <2>2, PathThere
<1>15. At(L) = pos BY <1>1, WholePrefix
<1> HIDE DEF even
<1> DEFINE Aside(k) == \A q \in DOMAIN w : q \notin OnTheWay(pos) => rw[k][q] = rp[k][q]
           Along(k) == \A n \in 0..L : Narrower(even[n], rw[k][At(n)], rp[k][At(n)])
           S == {k \in Nat : Aside(k) /\ Along(k)}
<1>16. 0 \in S
  <2>1. Aside(0) BY <1>3, <1>11
  <2>2. Along(0) BY <1>3, <1>11, <1>13 DEF Narrower
  <2> QED BY <2>1, <2>2
<1>17. ASSUME NEW k \in Nat, Aside(k) PROVE Aside(k + 1)
  <2> SUFFICES ASSUME NEW q \in DOMAIN w, q \notin OnTheWay(pos)
               PROVE  rw[k + 1][q] = rp[k + 1][q]
    OBVIOUS
  <2>1. q # pos
    <3>1. L \in 0..L BY <1>1
    <3> QED BY <1>13, <1>15, <3>1
  <2>2. w[q] = p[q] /\ q \in DOMAIN p /\ tw[q] = tp[q] BY <1>3, <1>6, <2>1
  <2>3. \A i \in Parts(p[q]) : rw[k][Append(q, i)] = rp[k][Append(q, i)]
    BY <1>3, <1>17, <2>1
  <2>4. [i \in Parts(p[q]) |-> rw[k][Append(q, i)]] = [i \in Parts(p[q]) |-> rp[k][Append(q, i)]]
    BY <2>3
  <2>5. p[q].op = "not" => rw[k][Append(q, 1)] = rp[k][Append(q, 1)] BY <2>3 DEF Parts
  <2>6. OneLevel(w, tw, rw[k])[q] = OneLevel(p, tp, rp[k])[q]
    BY <2>2, <2>4, <2>5 DEF OneLevel
  <2> QED BY <1>10, <2>6
<1>18. ASSUME NEW k \in Nat, Aside(k), Along(k) PROVE Along(k + 1)
  <2> SUFFICES ASSUME NEW n \in 0..L
               PROVE  Narrower(even[n], rw[k + 1][At(n)], rp[k + 1][At(n)])
    OBVIOUS
  <2>1. rw[k + 1] = OneLevel(w, tw, rw[k]) /\ rp[k + 1] = OneLevel(p, tp, rp[k]) BY <1>10
  <2>2. CASE n = L
    <3>1. OneLevel(w, tw, rw[k])[pos] = "no" BY <1>2, <1>3, <1>7 DEF OneLevel
    <3> QED BY <1>12, <1>15, <2>1, <2>2, <3>1 DEF Narrower
  <2>3. CASE n < L
    <3> DEFINE q == At(n)
               i == pos[n + 1]
    <3>1. q # pos /\ q \in OnTheWay(pos) /\ i \in Parts(p[q]) /\ Append(q, i) = At(n + 1)
          /\ n + 1 \in 0..L
      BY <1>1, <1>13, <1>14, <2>3
    <3>2. q \in DOMAIN w /\ w[q] = p[q] /\ q \in DOMAIN p BY <1>3, <3>1
    <3>3. Narrower(even[n + 1], rw[k][Append(q, i)], rp[k][Append(q, i)]) BY <1>18, <3>1
    <3>4. \A j \in Parts(p[q]) : Append(q, j) \in DOMAIN w /\ Append(q, j) \in DOMAIN p
      BY <1>3, <3>1, <3>2
    <3>5. ASSUME NEW j \in Parts(p[q]), j # i PROVE Append(q, j) \notin OnTheWay(pos)
      <4> SUFFICES ASSUME NEW m \in 0..L, Append(q, j) = At(m) PROVE FALSE BY DEF OnTheWay
      <4>1. q \in Seq(Nat) /\ Len(q) = n BY <1>1, PrefixFacts
      <4>2. Len(At(m)) = m BY <1>1, PrefixFacts
      <4>3. j \in Nat BY <1>4, <3>2, PartsNumbered
      <4>4. Len(Append(q, j)) = n + 1 BY <4>1, <4>3
      <4>5. Append(q, j) = Append(q, i) BY <3>1, <4>2, <4>4
      <4>6. i \in Nat BY <1>4, <3>1, <3>2, PartsNumbered
      <4>7. Append(q, j)[n + 1] = j /\ Append(q, i)[n + 1] = i BY <4>1, <4>3, <4>6
      <4> QED BY <3>5, <4>5, <4>7
    <3>6. \A j \in Parts(p[q]) \ {i} : rw[k][Append(q, j)] = rp[k][Append(q, j)]
      BY <1>18, <3>4, <3>5
    <3>7. CASE p[q].op = "not"
      <4>1. i = 1 BY <3>1, <3>7 DEF Parts
      <4>2. OneLevel(w, tw, rw[k])[q] = Negated(rw[k][Append(q, i)])
        BY <3>2, <3>7, <4>1 DEF OneLevel
      <4>3. OneLevel(p, tp, rp[k])[q] = Negated(rp[k][Append(q, i)])
        BY <3>2, <3>7, <4>1 DEF OneLevel
      <4>4. even[n] = ~even[n + 1] BY <1>12, <2>3, <3>1, <3>7
      <4>5. rw[k][Append(q, i)] \in Outcomes /\ rp[k][Append(q, i)] \in Outcomes
        BY <1>10, <3>1, <3>4
      <4> HIDE DEF q, i
      <4>6. Narrower(~even[n + 1], Negated(rw[k][Append(q, i)]), Negated(rp[k][Append(q, i)]))
        BY <3>3, <4>5 DEF Narrower, Negated, Outcomes
      <4> QED BY <2>1, <4>2, <4>3, <4>4, <4>6 DEF q
    <3>8. CASE p[q].op # "not"
      <4> DEFINE vw == [j \in Parts(p[q]) |-> rw[k][Append(q, j)]]
                 vp == [j \in Parts(p[q]) |-> rp[k][Append(q, j)]]
                 I == Parts(p[q])
      <4>1. Branches(p[q]) BY <3>1, <3>8 DEF Parts
      <4>2. OneLevel(w, tw, rw[k])[q] = Decisive(vw, Same(p[q].op))
        BY <3>2, <4>1 DEF OneLevel, Branches
      <4>3. OneLevel(p, tp, rp[k])[q] = Decisive(vp, Same(p[q].op))
        BY <3>2, <4>1 DEF OneLevel, Branches
      <4>4. even[n] = even[n + 1] BY <1>12, <2>3, <3>1, <3>8
      <4>5. vw \in [I -> Outcomes] /\ vp \in [I -> Outcomes] BY <1>10, <3>4
      <4>6. I \in SUBSET Nat BY <1>4, <3>2, PartsNumbered
      <4>7. Same(p[q].op) \in {"yes", "no"} BY DEF Same
      <4>8. even[n + 1] \in BOOLEAN BY <1>12, <3>1
      <4>9. i \in I /\ (\A j \in I \ {i} : vw[j] = vp[j]) /\ Narrower(even[n + 1], vw[i], vp[i])
        BY <3>1, <3>3, <3>6
      <4> HIDE DEF vw, vp, I, q, i
      <4>10. Narrower(even[n + 1], Decisive(vw, Same(p[q].op)), Decisive(vp, Same(p[q].op)))
        BY <4>5, <4>6, <4>7, <4>8, <4>9, DecisiveNarrower
      <4> QED BY <2>1, <4>2, <4>3, <4>4, <4>10 DEF q
    <3> QED BY <3>7, <3>8
  <2> QED BY <1>1, <2>2, <2>3
<1>19. K \in S
  <2>1. \A k \in Nat : k \in S => k + 1 \in S
    <3> HIDE DEF Aside, Along
    <3> QED BY <1>17, <1>18
  <2>2. \A k \in Nat : k \in S
    <3> HIDE DEF S
    <3> QED BY <1>16, <2>1, AllNaturals
  <2> QED BY <2>2
<1>20. Narrower(even[0], rw[K][At(0)], rp[K][At(0)])
  <2>1. 0 \in 0..L BY <1>1
  <2> QED BY <1>19, <2>1
<1>21. At(0) = <<>>
  <2>1. 0 \in 0..L BY <1>1
  <2>2. At(0) \in Seq(Nat) /\ Len(At(0)) = 0 BY <1>1, <2>1, PrefixFacts
  <2> QED BY <2>2
<1>22. Narrower(even[0], Reading(w, tw, K), Reading(p, tp, K)) BY <1>10, <1>20, <1>21
<1> QED BY <1>22 DEF w, tw, tp, even

\* What is asked of evaluate is a predicate and a signal that may occur.
LEMMA PredicateAsked ==
  ASSUME Asked, Returned("evaluate")
  PROVE  IsPredicate(call.predicate) /\ SignalRight(call.signal)
<1>1. EvaluateCalled
  BY DEF Asked, Returned, AllocateCalled, EvaluateCalled, VerifyChainCalled, AssessCalled,
         ComposeCalled, AggregateCalled, ReleaseCalled
<1> QED BY <1>1, CallsAssumption DEF EvaluateCalled, SignalRight

\* A predicate accepted at load means the same to the interpreter, to its closure and
\* to a reader without a depth guard, whatever its shape and whatever the bounds
\* (uap/predicate.py evaluate, validate, compile_predicate).
THEOREM OneMeaningOfPredicates == SpecCalls => []ReadingsAgree
<1>1. Asked /\ AnswerRight => ReadingsAgree
  <2> SUFFICES ASSUME Asked, AnswerRight, Returned("evaluate"), answer.valid,
                      ~CompileRaises(call.predicate)
               PROVE  ReadingsAgree
    BY DEF ReadingsAgree
  <2> DEFINE p == call.predicate
             signal == call.signal
  <2>1. answer = Readings(p, signal) BY DEF AnswerRight
  <2>2. /\ Valid(p) /\ answer.interpreted = Evaluate(p, signal)
        /\ answer.compiled = Compiled(p, Prepare(signal))
    BY <2>1 DEF Readings
  <2>3. IsPredicate(p) /\ SignalRight(signal) BY PredicateAsked
  <2> HIDE DEF p, signal
  <2>4. /\ Compiled(p, Prepare(signal)) = Evaluate(p, signal)
        /\ Evaluate(p, signal) = Reading(p, Terms(p, signal), Height(p))
    BY <2>2, <2>3, OneMeaning DEF p
  <2> QED BY <2>2, <2>4 DEF ReadingsAgree, p, signal
<1> QED BY <1>1, Answered, PTL

\* A part gone wrong below an even number of negations never widens a predicate,
\* whatever its shape, valid or not (uap/predicate.py evaluate, _term).
THEOREM WrongOnlyNarrows == SpecCalls => []WrongNeverWidensUnnegated
<1>1. Asked /\ AnswerRight => WrongNeverWidensUnnegated
  <2> SUFFICES ASSUME Asked, AnswerRight, Returned("evaluate"),
                      NEW pos \in DOMAIN call.predicate, NEW node \in {Malformed, Unknown},
                      Negations(call.predicate, pos) % 2 = 0,
                      Evaluate(Replaced(call.predicate, pos, node), call.signal) = "yes"
               PROVE  answer.interpreted # "no"
    BY DEF WrongNeverWidensUnnegated
  <2> DEFINE p == call.predicate
             signal == call.signal
             w == Replaced(p, pos, node)
  <2>1. IsPredicate(p) BY PredicateAsked
  <2>2. answer.interpreted = Evaluate(p, signal) BY DEF AnswerRight, Readings
  <2>3. pos \in DOMAIN p /\ MaxDepth + 1 \in Nat BY PredicateAssumption
  <2>4. Evens(p, pos)[0]
    <3>1. pos \in Seq(Nat) BY <2>1 DEF IsPredicate
    <3> QED BY <3>1, EvensStep
  <2> HIDE DEF p, signal
  <2>5. Narrower(Evens(p, pos)[0], Reading(w, Terms(w, signal), MaxDepth + 1),
                 Reading(p, Terms(p, signal), MaxDepth + 1))
    BY <2>1, <2>3, WrongNarrows
  <2>6. Evaluate(w, signal) = "yes" BY DEF p, signal
  <2> QED BY <2>2, <2>4, <2>5, <2>6 DEF Narrower, Evaluate
<1> QED BY <1>1, Answered, PTL

-----------------------------------------------------------------------------
(* Measurement.                                                             *)

\* A batch sent twice.
LEMMA SentTwice ==
  ASSUME NEW receipts, receipts \in Seq(Range(receipts)), NEW twice, twice = receipts \o receipts
  PROVE  LET n == Len(receipts)
         IN  /\ n \in Nat /\ DOMAIN receipts = 1..n
             /\ Len(twice) = 2 * n /\ DOMAIN twice = 1..(2 * n)
             /\ \A i \in 1..n : twice[i] = receipts[i] /\ twice[n + i] = receipts[i]
<1> DEFINE n == Len(receipts)
<1>1. n \in Nat /\ DOMAIN receipts = 1..n OBVIOUS
<1>2. Len(twice) = n + n /\ DOMAIN twice = 1..(n + n) OBVIOUS
<1>3. \A i \in 1..(n + n) : twice[i] = IF i <= n THEN receipts[i] ELSE receipts[i - n] OBVIOUS
<1> HIDE DEF n
<1>4. n + n = 2 * n BY <1>1
<1>5. ASSUME NEW i \in 1..n PROVE twice[i] = receipts[i] /\ twice[n + i] = receipts[i]
  <2>1. i \in 1..(n + n) /\ n + i \in 1..(n + n) /\ i <= n /\ ~(n + i <= n) /\ (n + i) - n = i
    BY <1>1
  <2> QED BY <1>3, <2>1
<1> QED BY <1>1, <1>2, <1>4, <1>5 DEF n

\* A relative spread below the limit stays below it: both sides of the test grow
\* with the square of the number of dwells.
LEMMA SpreadTwice ==
  ASSUME NEW n \in Int, NEW S \in Int, NEW Q \in Int, S > 0, 400 * (n * Q - S * S) < S * S
  PROVE  400 * ((2 * n) * (2 * Q) - (2 * S) * (2 * S)) < (2 * S) * (2 * S)
<1>1. n * Q \in Int /\ S * S \in Int OBVIOUS
<1>2. (2 * n) * (2 * Q) = 4 * (n * Q) /\ (2 * S) * (2 * S) = 4 * (S * S) OBVIOUS
<1> QED BY <1>1, <1>2

\* What assess says of the dwells of a batch sent twice.
LEMMA DwellsTwice ==
  ASSUME NEW receipts, receipts \in Seq(Range(receipts)),
         \A i \in DOMAIN receipts : receipts[i].ms # Unreported => receipts[i].ms \in Int,
         NEW twice, twice = receipts \o receipts
  PROVE  LET once == Dwells(receipts)
             again == Dwells(twice)
         IN  /\ Cardinality(DOMAIN once) \in Nat
             /\ Cardinality(DOMAIN again) = 2 * Cardinality(DOMAIN once)
             /\ Range(again) = Range(once)
             /\ TooTight(once) => TooTight(again)
<1> DEFINE n == Len(receipts)
           once == Dwells(receipts)
           again == Dwells(twice)
           X == DOMAIN once
           Y == DOMAIN again
           square == [i \in X |-> once[i] * once[i]]
           squares == [i \in Y |-> again[i] * again[i]]
<1>1. /\ n \in Nat /\ DOMAIN receipts = 1..n /\ DOMAIN twice = 1..(2 * n)
      /\ \A i \in 1..n : twice[i] = receipts[i] /\ twice[n + i] = receipts[i]
  BY SentTwice
<1>2. /\ X = {i \in 1..n : receipts[i].ms # Unreported}
      /\ Y = {i \in 1..(2 * n) : twice[i].ms # Unreported}
      /\ \A i \in X : once[i] = receipts[i].ms
      /\ \A i \in Y : again[i] = twice[i].ms
  BY <1>1 DEF Dwells
<1> HIDE DEF n, once, again, X, Y
<1>3. Twice(X, Y, n)
  <2>1. X \subseteq 1..n /\ Y \subseteq 1..(2 * n) BY <1>2
  <2>2. ASSUME NEW i \in 1..n PROVE (i \in X <=> i \in Y) /\ (i \in X <=> n + i \in Y)
    <3>1. i \in 1..(2 * n) /\ n + i \in 1..(2 * n) BY <1>1
    <3> QED BY <1>1, <1>2, <3>1
  <2> QED BY <2>1, <2>2 DEF Twice
<1>4. ASSUME NEW i \in X
      PROVE  once[i] \in Int /\ again[i] = once[i] /\ again[n + i] = once[i] /\ i \in Y /\ n + i \in Y
  <2>1. i \in 1..n /\ i \in Y /\ n + i \in Y BY <1>3 DEF Twice
  <2> QED BY <1>1, <1>2, <2>1
<1>5. Cardinality(Y) = 2 * Cardinality(X) /\ Cardinality(X) \in Nat
  BY <1>1, <1>3, CardinalityTwice
<1>6. Range(again) = Range(once)
  <2>1. ASSUME NEW i \in Y PROVE \E j \in X : again[i] = once[j]
    <3>1. i \in 1..(2 * n) BY <1>2
    <3>2. CASE i \in 1..n
      <4>1. i \in X BY <1>3, <3>2 DEF Twice
      <4> QED BY <1>4, <4>1
    <3>3. CASE i \notin 1..n
      <4>1. i - n \in 1..n /\ n + (i - n) = i BY <1>1, <3>1, <3>3
      <4>2. i - n \in X BY <1>3, <4>1 DEF Twice
      <4> QED BY <1>4, <4>1, <4>2
    <3> QED BY <3>2, <3>3
  <2>2. ASSUME NEW j \in X PROVE \E i \in Y : again[i] = once[j] BY <1>4
  <2> QED BY <2>1, <2>2 DEF Range, X, Y
<1>7. ASSUME TooTight(once) PROVE TooTight(again)
  <2> DEFINE S == SumFunctionOnSet(once, X)
             Q == SumFunctionOnSet(square, X)
  <2>1. SumFunctionOnSet(again, Y) = 2 * S BY <1>1, <1>3, <1>4, SumTwice
  <2>2. SumFunctionOnSet(squares, Y) = 2 * Q
    <3>1. ASSUME NEW i \in X
          PROVE  square[i] \in Int /\ squares[i] = square[i] /\ squares[n + i] = square[i]
      BY <1>4
    <3> HIDE DEF square, squares
    <3> QED BY <1>1, <1>3, <3>1, SumTwice
  <2>3. IsFiniteSet(X)
    <3>1. 1 \in Int /\ n \in Int BY <1>1
    <3>2. IsFiniteSet(1..n) BY <3>1, FS_Interval
    <3> QED BY <1>3, <3>2, FS_Subset DEF Twice
  <2>4. S \in Int /\ Q \in Int
    <3>1. \A i \in X : once[i] \in Int /\ square[i] \in Int BY <1>4
    <3> HIDE DEF square
    <3> QED BY <2>3, <3>1, SumType
  <2>5. S > 0 /\ 400 * (Cardinality(X) * Q - S * S) < S * S BY <1>7 DEF TooTight, X
  <2> HIDE DEF square, squares, S, Q
  <2>6. Cardinality(X) \in Int BY <1>5
  <2>7. 400 * ((2 * Cardinality(X)) * (2 * Q) - (2 * S) * (2 * S)) < (2 * S) * (2 * S)
    BY <2>4, <2>5, <2>6, SpreadTwice
  <2>8. 2 * S > 0 BY <2>4, <2>5
  <2> QED BY <1>5, <2>1, <2>2, <2>7, <2>8 DEF TooTight, Y, squares
<1> QED BY <1>5, <1>6, <1>7 DEF X, Y, once, again

\* A node gains nothing by repeating its receipts (uap/measurement.py assess).
THEOREM RepetitionTold == SpecCalls => []RepeatingClearsNothing
<1>1. Asked /\ AnswerRight => RepeatingClearsNothing
  <2> SUFFICES ASSUME Asked, AnswerRight, Returned("assess")
               PROVE  LET twice == Assess(call.receipts \o call.receipts)
                      IN  /\ answer.anomalies \subseteq twice.anomalies
                          /\ twice.viewable * answer.impressions = answer.viewable * twice.impressions
                          /\ answer.givt + answer.sivt + answer.unclassified <= answer.impressions
                          /\ answer.viewable <=
                               Cardinality({i \in DOMAIN Dwells(call.receipts) : call.receipts[i].viewable})
    BY DEF RepeatingClearsNothing
  <2> DEFINE r == call.receipts
             rr == r \o r
             n == Len(r)
             seen == {i \in DOMAIN r : MeetsMrc(r[i])}
             seenTwice == {i \in DOMAIN rr : MeetsMrc(rr[i])}
             dwelt == {i \in DOMAIN Dwells(r) : r[i].viewable}
             once == Dwells(r)
             again == Dwells(rr)
  <2>1. AssessCalled
    BY DEF Asked, Returned, AllocateCalled, EvaluateCalled, VerifyChainCalled, AssessCalled,
           ComposeCalled, AggregateCalled, ReleaseCalled
  <2>2. r \in Batches BY <2>1 DEF AssessCalled
  <2>3. r \in Seq(Range(r)) /\ \A i \in DOMAIN r : r[i].ms # Unreported => r[i].ms \in Int
    BY <2>2, CallsAssumption
  <2>4. answer = Assess(r) BY DEF AnswerRight
  <2>5. rr = r \o r OBVIOUS
  <2> HIDE DEF r, rr
  <2>6. /\ n \in Nat /\ DOMAIN r = 1..n /\ Len(rr) = 2 * n /\ DOMAIN rr = 1..(2 * n)
        /\ \A i \in 1..n : rr[i] = r[i] /\ rr[n + i] = r[i]
    BY <2>3, <2>5, SentTwice
  <2>7. /\ Cardinality(DOMAIN once) \in Nat
        /\ Cardinality(DOMAIN again) = 2 * Cardinality(DOMAIN once)
        /\ Range(again) = Range(once)
        /\ TooTight(once) => TooTight(again)
    BY <2>3, <2>5, DwellsTwice
  <2> HIDE DEF n, once, again
  <2>8. Cardinality(seenTwice) = 2 * Cardinality(seen) /\ Cardinality(seen) \in Nat
    <3>1. Twice(seen, seenTwice, n)
      <4>1. seen \subseteq 1..n /\ seenTwice \subseteq 1..(2 * n) BY <2>6
      <4>2. ASSUME NEW i \in 1..n
            PROVE  (i \in seen <=> i \in seenTwice) /\ (i \in seen <=> n + i \in seenTwice)
        <5>1. i \in 1..(2 * n) /\ n + i \in 1..(2 * n) BY <2>6
        <5>2. rr[i] = r[i] /\ rr[n + i] = r[i] BY <2>6
        <5> QED BY <2>6, <5>1, <5>2
      <4> HIDE DEF seen, seenTwice
      <4> QED BY <4>1, <4>2 DEF Twice
    <3> HIDE DEF seen, seenTwice
    <3> QED BY <2>6, <3>1, CardinalityTwice
  <2>9. Assess(r).anomalies \subseteq Assess(rr).anomalies
    <3>1. ASSUME NEW i \in DOMAIN r, r[i].tier = 0, r[i].class = "valid"
          PROVE  \E j \in DOMAIN rr : rr[j].tier = 0 /\ rr[j].class = "valid"
      <4>1. i \in DOMAIN rr /\ rr[i] = r[i] BY <2>6
      <4> QED BY <3>1, <4>1
    <3>2. Cardinality(DOMAIN once) >= MinSample => Cardinality(DOMAIN again) >= MinSample
      BY <2>7, MeasurementAssumption
    <3>3. Assess(r).anomalies =
            {a \in {"tier 0 valid", "tight", "identical"} :
               CASE a = "tier 0 valid" ->
                      \E i \in DOMAIN r : r[i].tier = 0 /\ r[i].class = "valid"
                 [] a = "tight" -> Cardinality(DOMAIN once) >= MinSample /\ TooTight(once)
                 [] a = "identical" -> /\ Cardinality(DOMAIN once) >= MinSample
                                       /\ Cardinality({once[i] : i \in DOMAIN once}) = 1}
      BY DEF Assess, once
    <3>4. Assess(rr).anomalies =
            {a \in {"tier 0 valid", "tight", "identical"} :
               CASE a = "tier 0 valid" ->
                      \E i \in DOMAIN rr : rr[i].tier = 0 /\ rr[i].class = "valid"
                 [] a = "tight" -> Cardinality(DOMAIN again) >= MinSample /\ TooTight(again)
                 [] a = "identical" -> /\ Cardinality(DOMAIN again) >= MinSample
                                       /\ Cardinality({again[i] : i \in DOMAIN again}) = 1}
      BY DEF Assess, again
    <3>5. ASSUME NEW a \in Assess(r).anomalies PROVE a \in Assess(rr).anomalies
      <4>1. CASE a = "tier 0 valid" BY <3>1, <3>3, <3>4, <3>5, <4>1
      <4>2. CASE a = "tight" BY <2>7, <3>2, <3>3, <3>4, <3>5, <4>2
      <4>3. CASE a = "identical" BY <2>7, <3>2, <3>3, <3>4, <3>5, <4>3 DEF Range
      <4>4. a \in {"tier 0 valid", "tight", "identical"} BY <3>3
      <4> QED BY <4>1, <4>2, <4>3, <4>4
    <3> QED BY <3>5
  <2>10. /\ answer.viewable = Cardinality(seen) /\ answer.impressions = n
         /\ Assess(rr).viewable = Cardinality(seenTwice) /\ Assess(rr).impressions = 2 * n
    BY <2>4, <2>6 DEF Assess, n
  <2>11. answer.givt + answer.sivt + answer.unclassified <= n
    <3> DEFINE A == {i \in DOMAIN r : r[i].class = "givt"}
               B == {i \in DOMAIN r : r[i].class = "sivt"}
               C == {i \in DOMAIN r : r[i].class \notin {"givt", "sivt", "valid"}}
    <3>1. answer.givt = Cardinality(A) /\ answer.sivt = Cardinality(B) /\ answer.unclassified = Cardinality(C)
      BY <2>4 DEF Assess
    <3>2. /\ A \subseteq 1..n /\ B \subseteq 1..n /\ C \subseteq 1..n
          /\ A \cap B = {} /\ (A \cup B) \cap C = {}
      BY <2>6
    <3> HIDE DEF A, B, C
    <3> QED BY <2>6, <3>1, <3>2, ThreeParts
  <2>12. Cardinality(seen) <= Cardinality(dwelt)
    <3>1. seen \subseteq dwelt BY DEF MeetsMrc, Dwells
    <3>2. IsFiniteSet(dwelt)
      <4>1. 1 \in Int /\ n \in Int BY <2>6
      <4>2. IsFiniteSet(1..n) BY <4>1, FS_Interval
      <4>3. dwelt \subseteq 1..n BY <2>6 DEF Dwells
      <4> HIDE DEF dwelt
      <4> QED BY <4>2, <4>3, FS_Subset
    <3> HIDE DEF seen, dwelt
    <3> QED BY <3>1, <3>2, FS_Subset
  <2>13. Assess(rr).viewable * answer.impressions = answer.viewable * Assess(rr).impressions
    <3> HIDE DEF seen, seenTwice
    <3>1. (2 * Cardinality(seen)) * n = Cardinality(seen) * (2 * n) BY <2>6, <2>8
    <3> QED BY <2>8, <2>10, <3>1
  <2>14. /\ answer.anomalies \subseteq Assess(rr).anomalies
         /\ answer.givt + answer.sivt + answer.unclassified <= answer.impressions
         /\ answer.viewable <= Cardinality(dwelt)
    BY <2>4, <2>9, <2>10, <2>11, <2>12
  <2> HIDE DEF dwelt
  <2> QED BY <2>13, <2>14 DEF r, rr, dwelt
<1> QED BY <1>1, Answered, PTL

-----------------------------------------------------------------------------
(* Answer integrity.                                                        *)

\* The marker has no border: no marker of a composed text begins inside the
\* answer, not even one that ends in the marker that composing adds.
LEMMA MarkerFollowsAnswer ==
  ASSUME NEW Token, NEW organic \in Seq(Token), NEW rest \in Seq(Token),
         Marker \in Seq(Token), ~HasMarker(organic)
  PROVE  LET text == organic \o Marker \o rest
         IN  /\ text \in Seq(Token)
             /\ Len(organic) + 1 \in DOMAIN text /\ MarkerAt(text, Len(organic) + 1)
             /\ \A j \in 1..Len(organic) : ~MarkerAt(text, j)
<1> DEFINE text == organic \o Marker \o rest
<1>1. /\ text \in Seq(Token) /\ Len(organic) \in Nat
      /\ Len(Marker) = 3 /\ Len(text) = Len(organic) + 3 + Len(rest) /\ Len(rest) \in Nat
  BY DEF Marker
<1>2. \A i \in 1..Len(organic) : text[i] = organic[i]
  OBVIOUS
<1>3. /\ text[Len(organic) + 1] = "nl" /\ text[Len(organic) + 2] = "nl"
      /\ text[Len(organic) + 3] = "sep"
  <2>1. /\ text[Len(organic) + 1] = Marker[1] /\ text[Len(organic) + 2] = Marker[2]
        /\ text[Len(organic) + 3] = Marker[3]
    BY <1>1
  <2>2. Marker[1] = "nl" /\ Marker[2] = "nl" /\ Marker[3] = "sep"
    BY DEF Marker
  <2> QED BY <2>1, <2>2
<1>4. MarkerAt(text, Len(organic) + 1)
  BY <1>1, <1>3 DEF MarkerAt
<1>5. ASSUME NEW j \in 1..Len(organic), MarkerAt(text, j)
      PROVE  FALSE
  <2>1. text[j] = "nl" /\ text[j + 1] = "nl" /\ text[j + 2] = "sep"
    BY <1>5 DEF MarkerAt
  <2>2. j + 2 # Len(organic) + 1 /\ j + 2 # Len(organic) + 2
    BY <2>1, <1>3
  <2>3. j + 2 <= Len(organic)
    BY <2>2, <1>1
  <2>4. MarkerAt(organic, j)
    BY <2>1, <2>3, <1>1, <1>2 DEF MarkerAt
  <2> QED BY <2>4 DEF HasMarker
<1> QED BY <1>1, <1>4, <1>5

\* strip_ad_block gives back the answer from under any sponsored block.
LEMMA StripsTheBlock ==
  ASSUME NEW Token, NEW organic \in Seq(Token), NEW rest \in Seq(Token),
         Marker \in Seq(Token), ~HasMarker(organic)
  PROVE  StripAdBlock(organic \o Marker \o rest) = organic
<1> DEFINE text == organic \o Marker \o rest
           first == Len(organic) + 1
<1>1. /\ text \in Seq(Token) /\ first \in DOMAIN text /\ MarkerAt(text, first)
      /\ \A j \in 1..Len(organic) : ~MarkerAt(text, j)
  BY MarkerFollowsAnswer
<1>2. HasMarker(text)
  BY <1>1 DEF HasMarker
<1>3. \A i \in DOMAIN text :
        MarkerAt(text, i) /\ (\A j \in 1..(i - 1) : ~MarkerAt(text, j)) => i = first
  <2> SUFFICES ASSUME NEW i \in DOMAIN text, MarkerAt(text, i),
                      \A j \in 1..(i - 1) : ~MarkerAt(text, j), i # first
               PROVE  FALSE
    OBVIOUS
  <2>1. i \in Nat /\ 1 <= i /\ Len(organic) \in Nat
    BY DEF MarkerAt
  <2>2. CASE i < first
    BY <1>1, <2>1, <2>2
  <2>3. CASE i > first
    BY <1>1, <2>1, <2>3
  <2> QED BY <2>1, <2>2, <2>3
<1>4. FirstMarker(text) = first
  BY <1>1, <1>3 DEF FirstMarker
<1>5. StripAdBlock(text) = SubSeq(text, 1, Len(organic))
  BY <1>2, <1>4 DEF StripAdBlock
<1>6. SubSeq(text, 1, Len(organic)) = organic
  <2>1. Len(SubSeq(text, 1, Len(organic))) = Len(organic)
    BY <1>1
  <2>2. \A i \in 1..Len(organic) : SubSeq(text, 1, Len(organic))[i] = organic[i]
    BY <1>1
  <2>3. SubSeq(text, 1, Len(organic)) \in Seq(Token)
    BY <1>1
  <2> QED BY <2>1, <2>2, <2>3
<1> QED BY <1>5, <1>6

\* compose then strip_ad_block: the answer, byte for byte, whatever the
\* placements hold and whichever renderer escapes them.
THEOREM ComposeThenStrip ==
  ASSUME NEW Token, NEW organic \in Seq(Token), NEW placements, NEW renderer,
         Marker \in Seq(Token), Shown(placements) # <<>> => AdBlock(placements, renderer) \in Seq(Token),
         ~HasMarker(organic)
  PROVE  StripAdBlock(Composed(organic, placements, renderer)) = organic
<1>1. CASE Shown(placements) = <<>>
  BY <1>1 DEF Composed, StripAdBlock
<1>2. CASE Shown(placements) # <<>>
  <2>1. Composed(organic, placements, renderer) = organic \o Marker \o AdBlock(placements, renderer)
    BY <1>2 DEF Composed
  <2> QED BY <1>2, <2>1, StripsTheBlock
<1> QED BY <1>1, <1>2

\* A commitment to one answer is met by no other, whatever is sold under either:
\* verify_answer_commitment says "same" exactly when the answer shown is the one
\* committed to before selection.
THEOREM CommitmentBinds ==
  ASSUME NEW Token, NEW committed \in Seq(Token), NEW organic \in Seq(Token),
         NEW placements, NEW renderer,
         Marker \in Seq(Token), Shown(placements) # <<>> => AdBlock(placements, renderer) \in Seq(Token),
         ~HasMarker(organic), Raises \notin Seq(Token),
         IsCanonicalAnswer(committed), IsCanonicalAnswer(organic)
  PROVE  VerifyAnswerCommitment(Composed(organic, placements, renderer), AnswerDigest(committed))
           = "same" <=> organic = committed
<1>1. StripAdBlock(Composed(organic, placements, renderer)) = organic
  BY ComposeThenStrip
<1>2. AnswerDigest(organic) = organic /\ AnswerDigest(committed) = committed
  BY DEF AnswerDigest
<1>3. organic # Raises
  OBVIOUS
<1> QED BY <1>1, <1>2, <1>3 DEF VerifyAnswerCommitment

\* verify_composition never blames the answer when the answer is the one that was
\* composed, and always does when it is not and the block does not make up for it.
THEOREM BlameIsRight ==
  ASSUME NEW Token, NEW committed \in Seq(Token), NEW organic \in Seq(Token),
         NEW issued, NEW shown, NEW renderer,
         Marker \in Seq(Token), Shown(shown) # <<>> => AdBlock(shown, renderer) \in Seq(Token),
         Shown(issued) # <<>> => AdBlock(issued, renderer) \in Seq(Token), Raises \notin Seq(Token),
         ~HasMarker(organic), ~HasMarker(committed),
         Compose(committed, issued, renderer) # Raises
  PROVE  VerifyComposition(Composed(organic, shown, renderer), committed, issued, renderer)
           = "answer" <=> organic # committed
<1> DEFINE text == Composed(organic, shown, renderer)
           expected == Compose(committed, issued, renderer)
<1>1. StripAdBlock(text) = organic
  BY ComposeThenStrip
<1>2. expected = Composed(committed, issued, renderer)
  BY DEF Compose
<1>3. StripAdBlock(expected) = committed
  BY <1>2, ComposeThenStrip
<1>4. text = expected => organic = committed
  BY <1>1, <1>3
<1>5. VerifyComposition(text, committed, issued, renderer) =
        IF text = expected THEN "exact" ELSE IF organic # committed THEN "answer" ELSE "block"
  BY <1>1, Zenon DEF VerifyComposition
<1> QED BY <1>4, <1>5

\* The surface, the answers and the placements of a call that composes.
LEMMA ComposedOf ==
  ASSUME Asked, AnswerRight, Returned("compose")
  PROVE  /\ call.answer \in Answers /\ call.committed \in Answers
         /\ call.shown \in Decisions /\ call.issued \in Decisions
         /\ call.renderer \in SurfaceRenderers
         /\ answer = Compose(call.answer, call.shown, call.renderer)
<1>1. ComposeCalled
  BY DEF Asked, Returned, AllocateCalled, EvaluateCalled, VerifyChainCalled, AssessCalled,
         ComposeCalled, AggregateCalled, ReleaseCalled
<1> QED BY <1>1 DEF ComposeCalled, AnswerRight

LEMMA TextsOf ==
  ASSUME Asked, AnswerRight, Returned("compose"), answer # Raises
  PROVE  /\ call.answer \in Seq(Tokens) /\ call.committed \in Seq(Tokens)
         /\ Marker \in Seq(Tokens) /\ Raises \notin Seq(Tokens)
         /\ Shown(call.shown) # <<>> => AdBlock(call.shown, call.renderer) \in Seq(Tokens)
         /\ Shown(call.issued) # <<>> => AdBlock(call.issued, call.renderer) \in Seq(Tokens)
         /\ answer = Composed(call.answer, call.shown, call.renderer)
<1>1. Marker \in Seq(Tokens) BY CallsAssumption DEF Marker
<1>2. answer = Compose(call.answer, call.shown, call.renderer) BY ComposedOf
<1>3. answer = Composed(call.answer, call.shown, call.renderer) BY <1>2 DEF Compose
<1> QED BY <1>1, <1>3, ComposedOf, CallsAssumption

\* Stripping what a surface composed gives the answer that was committed to back,
\* for every call (uap/integrity.py compose, strip_ad_block).
THEOREM AnswerRecovered == SpecCalls => []StripRecoversAnswer
<1>1. Asked /\ AnswerRight => StripRecoversAnswer
  <2> SUFFICES ASSUME Asked, AnswerRight, Returned("compose"), answer # Raises, Clean(call.answer)
               PROVE  StripRecoversAnswer
    BY DEF StripRecoversAnswer
  <2>1. StripAdBlock(answer) = call.answer
    <3>1. /\ call.answer \in Seq(Tokens) /\ Marker \in Seq(Tokens)
          /\ Shown(call.shown) # <<>> => AdBlock(call.shown, call.renderer) \in Seq(Tokens)
          /\ answer = Composed(call.answer, call.shown, call.renderer)
      BY TextsOf
    <3> QED BY <3>1, ComposeThenStrip DEF Clean
  <2>2. AnswerDigest(call.answer) = call.answer /\ call.answer # Raises
    BY TextsOf DEF Clean, AnswerDigest
  <2> QED BY <2>1, <2>2 DEF StripRecoversAnswer, VerifyAnswerCommitment
<1> QED BY <1>1, Answered, PTL

\* The verifier blames the answer exactly when another was shown and the block only
\* when other creatives were, for every call (uap/integrity.py verify_composition).
THEOREM BlameTold == SpecCalls => []VerifierTellsWhatChanged
<1>1. Asked /\ AnswerRight => VerifierTellsWhatChanged
  <2> DEFINE expected == Compose(call.committed, call.issued, call.renderer)
             verdict == VerifyComposition(answer, call.committed, call.issued, call.renderer)
  <2> SUFFICES ASSUME Asked, AnswerRight, Returned("compose"), answer # Raises,
                      Clean(call.answer), Clean(call.committed), expected # Raises
               PROVE  /\ verdict = "answer" <=> call.answer # call.committed
                      /\ verdict = "exact" => VerifyAnswerCommitment(answer, call.committed) = "same"
                      /\ verdict = "block" => /\ call.answer = call.committed
                                              /\ Shown(call.issued) # Shown(call.shown)
    BY DEF VerifierTellsWhatChanged
  <2>1. /\ call.answer \in Seq(Tokens) /\ call.committed \in Seq(Tokens)
        /\ Marker \in Seq(Tokens) /\ Raises \notin Seq(Tokens)
        /\ Shown(call.shown) # <<>> => AdBlock(call.shown, call.renderer) \in Seq(Tokens)
        /\ Shown(call.issued) # <<>> => AdBlock(call.issued, call.renderer) \in Seq(Tokens)
        /\ answer = Composed(call.answer, call.shown, call.renderer)
    BY TextsOf
  <2>2. verdict = "answer" <=> call.answer # call.committed
    BY <2>1, BlameIsRight DEF Clean
  <2>3. VerifyAnswerCommitment(answer, AnswerDigest(call.committed)) = "same"
          <=> call.answer = call.committed
    BY <2>1, CommitmentBinds DEF Clean
  <2>4. AnswerDigest(call.committed) = call.committed BY DEF Clean, AnswerDigest
  <2>5. expected = Composed(call.committed, call.issued, call.renderer) BY DEF Compose
  <2>6. verdict = IF answer = expected THEN "exact"
                  ELSE IF StripAdBlock(answer) # call.committed THEN "answer" ELSE "block"
    BY DEF VerifyComposition
  <2>7. ASSUME Shown(call.issued) = Shown(call.shown), call.answer = call.committed
        PROVE  answer = expected
    BY <2>1, <2>5, <2>7 DEF Composed, AdBlock
  <2> HIDE DEF expected, verdict
  <2> QED BY <2>2, <2>3, <2>4, <2>6, <2>7
<1> QED BY <1>1, Answered, PTL

-----------------------------------------------------------------------------
(* The ring of the shares.                                                  *)

Ring == 0..(Modulus - 1)

Multiple(d) == \E k \in Int : d = k * Modulus

-----------------------------------------------------------------------------
(* Residues.                                                                *)

\* A number is its residue and a multiple of the modulus.
LEMMA Residue ==
  ASSUME NEW a \in Int
  PROVE  a % Modulus \in Ring /\ a % Modulus \in Int /\ Multiple(a - (a % Modulus))
<1>1. a % Modulus \in Ring /\ a = Modulus * (a \div Modulus) + (a % Modulus)
  BY RingAssumption DEF Ring
<1>2. a \div Modulus \in Int /\ a - (a % Modulus) = (a \div Modulus) * Modulus
  BY <1>1, RingAssumption DEF Ring
<1>3. a % Modulus \in Int BY <1>1, RingAssumption DEF Ring
<1> QED BY <1>1, <1>2, <1>3 DEF Multiple

\* Multiples are closed under sum and difference.
LEMMA MultiplesAdd ==
  ASSUME NEW c \in Int, NEW d \in Int, Multiple(c), Multiple(d)
  PROVE  Multiple(c + d) /\ Multiple(c - d)
<1>1. PICK i \in Int : c = i * Modulus BY DEF Multiple
<1>2. PICK j \in Int : d = j * Modulus BY DEF Multiple
<1>3. c + d = (i + j) * Modulus /\ c - d = (i - j) * Modulus BY <1>1, <1>2, RingAssumption
<1> QED BY <1>3 DEF Multiple

\* Two members of the ring that differ by a multiple are the same.
LEMMA SameInRing ==
  ASSUME NEW a \in Ring, NEW b \in Ring, Multiple(a - b)
  PROVE  a = b
<1>1. PICK k \in Int : a - b = k * Modulus BY DEF Multiple
<1>2. a - b < Modulus /\ b - a < Modulus BY RingAssumption DEF Ring
<1>3. CASE k >= 1
  <2>1. k * Modulus >= Modulus BY <1>3, RingAssumption
  <2> QED BY <1>1, <1>2, <2>1, RingAssumption DEF Ring
<1>4. CASE k <= -1
  <2>1. k * Modulus <= -Modulus BY <1>4, RingAssumption
  <2> QED BY <1>1, <1>2, <2>1, RingAssumption DEF Ring
<1>5. CASE k = 0 BY <1>1, <1>5, RingAssumption DEF Ring
<1> QED BY <1>3, <1>4, <1>5

\* Numbers that differ by a multiple have the same residue.
LEMMA SameResidue ==
  ASSUME NEW a \in Int, NEW b \in Int, Multiple(a - b)
  PROVE  a % Modulus = b % Modulus
<1> DEFINE x == a % Modulus  y == b % Modulus
<1>1. x \in Ring /\ y \in Ring /\ Multiple(a - x) /\ Multiple(b - y) BY Residue
<1>2. x \in Int /\ y \in Int BY <1>1, RingAssumption DEF Ring
<1> HIDE DEF x, y
<1>3. Multiple((a - b) - (a - x)) BY <1>1, <1>2, MultiplesAdd
<1>4. Multiple(((a - b) - (a - x)) + (b - y)) BY <1>1, <1>2, <1>3, MultiplesAdd
<1>5. ((a - b) - (a - x)) + (b - y) = x - y BY <1>2
<1>6. Multiple(x - y) BY <1>4, <1>5
<1>7. x = y BY <1>1, <1>6, SameInRing
<1> QED BY <1>7 DEF x, y

\* A member of the ring is its own residue, and so is every number it differs
\* from by a multiple.
LEMMA ResidueIs ==
  ASSUME NEW a \in Int, NEW r \in Ring, Multiple(a - r)
  PROVE  a % Modulus = r
<1> DEFINE x == a % Modulus
<1>1. x \in Ring /\ Multiple(a - x) BY Residue
<1>2. x \in Int /\ r \in Int BY <1>1, RingAssumption DEF Ring
<1> HIDE DEF x
<1>3. Multiple((a - r) - (a - x)) BY <1>1, <1>2, MultiplesAdd
<1>4. (a - r) - (a - x) = x - r BY <1>2
<1>5. x = r BY <1>1, <1>3, <1>4, SameInRing
<1> QED BY <1>5 DEF x

\* A sum may be reduced at any of its terms.
LEMMA ResidueOfSum ==
  ASSUME NEW a \in Int, NEW b \in Int
  PROVE  ((a % Modulus) + b) % Modulus = (a + b) % Modulus
<1> DEFINE x == a % Modulus
<1>1. x \in Ring /\ Multiple(a - x) BY Residue
<1>2. x \in Int BY <1>1, RingAssumption DEF Ring
<1> HIDE DEF x
<1>3. (a + b) - (x + b) = a - x BY <1>2
<1>4. (a + b) % Modulus = (x + b) % Modulus BY <1>1, <1>2, <1>3, SameResidue
<1> QED BY <1>4 DEF x

-----------------------------------------------------------------------------
(* Shares.                                                                  *)

\* secret_share and reconstruct: whatever the mask, the two shares of a vector
\* reconstruct to it.
THEOREM SharesReconstruct ==
  ASSUME NEW S, NEW v \in [S -> Ring], NEW mask \in [S -> Ring]
  PROVE  Reconstruct(SecretShare(v, mask)) = v
<1> DEFINE rest == [j \in S |-> (v[j] - mask[j]) % Modulus]
<1>1. SecretShare(v, mask) = <<mask, rest>> BY DEF SecretShare
<1>2. Reconstruct(<<mask, rest>>) = [j \in S |-> (mask[j] + rest[j]) % Modulus]
  BY DEF Reconstruct
<1>3. ASSUME NEW j \in S PROVE (mask[j] + rest[j]) % Modulus = v[j]
  <2> DEFINE d == v[j] - mask[j]
  <2>1. v[j] \in Ring /\ mask[j] \in Ring /\ v[j] \in Int /\ mask[j] \in Int /\ d \in Int
    BY RingAssumption DEF Ring
  <2>2. ((d % Modulus) + mask[j]) % Modulus = (d + mask[j]) % Modulus BY <2>1, ResidueOfSum
  <2>3. d + mask[j] = v[j] BY <2>1
  <2>4. v[j] % Modulus = v[j] BY <2>1, RingAssumption DEF Ring
  <2>5. d % Modulus \in Int BY <2>1, RingAssumption
  <2>6. mask[j] + rest[j] = (d % Modulus) + mask[j] BY <2>1, <2>5
  <2> QED BY <2>2, <2>3, <2>4, <2>6
<1> QED BY <1>1, <1>2, <1>3

\* "Any single share is uniform noise": whatever the node's vector, each second
\* share is that of exactly one mask, so with a mask drawn uniformly it is as
\* likely as any other; and the first share is the mask itself.
THEOREM OneShareSaysNothing ==
  ASSUME NEW S, NEW v \in [S -> Ring], NEW share \in [S -> Ring]
  PROVE  \E mask \in [S -> Ring] :
           /\ SecretShare(v, mask) = <<mask, share>>
           /\ \A other \in [S -> Ring] :
                SecretShare(v, other)[2] = share => other = mask
<1> DEFINE mask == [j \in S |-> (v[j] - share[j]) % Modulus]
<1>1. ASSUME NEW j \in S
      PROVE  /\ v[j] \in Int /\ share[j] \in Ring /\ share[j] \in Int
             /\ mask[j] \in Ring /\ mask[j] \in Int
             /\ Multiple((v[j] - share[j]) - mask[j])
  <2>1. v[j] \in Int /\ share[j] \in Ring /\ share[j] \in Int BY RingAssumption DEF Ring
  <2>2. v[j] - share[j] \in Int BY <2>1
  <2>3. mask[j] \in Ring /\ Multiple((v[j] - share[j]) - mask[j]) BY <2>2, Residue
  <2> QED BY <2>1, <2>3, RingAssumption DEF Ring
<1>2. mask \in [S -> Ring] BY <1>1
<1> HIDE DEF mask
<1>3. ASSUME NEW j \in S PROVE (v[j] - mask[j]) % Modulus = share[j]
  <2>1. (v[j] - mask[j]) - share[j] = (v[j] - share[j]) - mask[j] BY <1>1
  <2>2. v[j] - mask[j] \in Int BY <1>1
  <2> QED BY <1>1, <2>1, <2>2, ResidueIs
<1>4. SecretShare(v, mask) = <<mask, share>> BY <1>3 DEF SecretShare
<1>5. ASSUME NEW other \in [S -> Ring], SecretShare(v, other)[2] = share
      PROVE  other = mask
  <2>1. ASSUME NEW j \in S PROVE other[j] = mask[j]
    <3>1. share[j] = (v[j] - other[j]) % Modulus BY <1>5 DEF SecretShare
    <3>2. other[j] \in Ring /\ other[j] \in Int BY RingAssumption DEF Ring
    <3>3. v[j] - other[j] \in Int BY <1>1, <3>2
    <3>4. Multiple((v[j] - other[j]) - share[j]) BY <3>1, <3>3, Residue
    <3>5. (v[j] - other[j]) - share[j] \in Int /\ (v[j] - share[j]) - mask[j] \in Int
      BY <1>1, <3>2
    <3>6. Multiple(((v[j] - share[j]) - mask[j]) - ((v[j] - other[j]) - share[j]))
      BY <1>1, <3>4, <3>5, MultiplesAdd
    <3>7. ((v[j] - share[j]) - mask[j]) - ((v[j] - other[j]) - share[j]) = other[j] - mask[j]
      BY <1>1, <3>2
    <3> QED BY <1>1, <3>2, <3>6, <3>7, SameInRing
  <2> QED BY <1>2, <2>1
<1> QED BY <1>2, <1>4, <1>5

-----------------------------------------------------------------------------
(* Publication.                                                             *)

\* Two sums that hold a total between them, modulo the ring, hold it still after
\* one more number is added to it in two parts, each sum reduced by itself.
LEMMA PartsAddUp ==
  ASSUME NEW a \in Ring, NEW b \in Ring, NEW total \in Int, NEW n \in Int, NEW mask \in Ring,
         (a + b) % Modulus = total % Modulus
  PROVE  (((a + mask) % Modulus) + ((b + ((n - mask) % Modulus)) % Modulus)) % Modulus
           = (total + n) % Modulus
<1> DEFINE p == (n - mask) % Modulus
           x == (a + mask) % Modulus
           y == (b + p) % Modulus
<1>1. a \in Int /\ b \in Int /\ mask \in Int /\ n - mask \in Int BY RingAssumption DEF Ring
<1>2. p \in Int /\ Multiple((n - mask) - p) BY <1>1, Residue
<1> HIDE DEF p
<1>3. x \in Int /\ Multiple((a + mask) - x)
  <2>1. a + mask \in Int BY <1>1
  <2> QED BY <2>1, Residue
<1>4. b + p \in Int BY <1>1, <1>2
<1>5. y \in Int /\ Multiple((b + p) - y) BY <1>4, Residue
<1> HIDE DEF x, y
<1>6. Multiple((a + b) - total)
  <2> DEFINE r == (a + b) % Modulus
  <2>1. a + b \in Int BY <1>1
  <2>2. r \in Int /\ Multiple((a + b) - r) BY <2>1, Residue
  <2>3. Multiple(total - (total % Modulus)) BY Residue
  <2>4. r = total % Modulus OBVIOUS
  <2> HIDE DEF r
  <2>5. Multiple(total - r) BY <2>3, <2>4
  <2>6. Multiple(((a + b) - r) - (total - r)) BY <2>1, <2>2, <2>5, MultiplesAdd
  <2>7. ((a + b) - r) - (total - r) = (a + b) - total BY <2>1, <2>2
  <2> QED BY <2>6, <2>7
<1>7. Multiple(((n - mask) - p) + ((a + mask) - x)) BY <1>1, <1>2, <1>3, MultiplesAdd
<1>8. Multiple((((n - mask) - p) + ((a + mask) - x)) + ((b + p) - y))
  BY <1>1, <1>2, <1>3, <1>5, <1>7, MultiplesAdd
<1>9. Multiple(((((n - mask) - p) + ((a + mask) - x)) + ((b + p) - y)) - ((a + b) - total))
  BY <1>1, <1>2, <1>3, <1>5, <1>6, <1>8, MultiplesAdd
<1>10. ((((n - mask) - p) + ((a + mask) - x)) + ((b + p) - y)) - ((a + b) - total)
         = (total + n) - (x + y)
  BY <1>1, <1>2, <1>3, <1>5
<1>11. (total + n) % Modulus = (x + y) % Modulus
  <2>1. total + n \in Int /\ x + y \in Int BY <1>3, <1>5
  <2> QED BY <1>9, <1>10, <2>1, SameResidue
<1> QED BY <1>11 DEF x, y, p

\* One cell of the sums after another node's shares.
LEMMA AddsUpAt ==
  ASSUME NEW S, NEW left \in [S -> Ring], NEW right \in [S -> Ring], NEW total \in [S -> Int],
         NEW v \in [S -> Int], NEW noise \in [S -> Int], NEW mask \in [S -> Ring], NEW j \in S,
         NEW shares, shares = SecretShare(Finalise(v, noise), mask),
         (left[j] + right[j]) % Modulus = total[j] % Modulus
  PROVE  (Collected(left, shares[1])[j] + Collected(right, shares[2])[j]) % Modulus
           = (total[j] + (v[j] + noise[j])) % Modulus
<1> DEFINE report == [i \in S |-> (v[i] + noise[i]) % Modulus]
           rest == [i \in S |-> (report[i] - mask[i]) % Modulus]
           one == [i \in S |-> (left[i] + mask[i]) % Modulus]
           two == [i \in S |-> (right[i] + rest[i]) % Modulus]
<1>1. shares = <<mask, rest>> BY DEF SecretShare, Finalise
<1>2. Collected(left, mask) = one /\ Collected(right, rest) = two BY DEF Collected
<1>3. report[j] \in Int BY RingAssumption
<1>4. (one[j] + two[j]) % Modulus = (total[j] + report[j]) % Modulus BY <1>3, PartsAddUp
<1>5. v[j] + noise[j] \in Int OBVIOUS
<1>6. (report[j] + total[j]) % Modulus = ((v[j] + noise[j]) + total[j]) % Modulus
  BY <1>5, ResidueOfSum
<1>7. /\ report[j] + total[j] = total[j] + report[j]
      /\ (v[j] + noise[j]) + total[j] = total[j] + (v[j] + noise[j])
  BY <1>3, <1>5
<1>8. (one[j] + two[j]) % Modulus = (total[j] + (v[j] + noise[j])) % Modulus
  BY <1>4, <1>6, <1>7
<1> HIDE DEF one, two, rest, report
<1> QED BY <1>1, <1>2, <1>8

\* A node's report is added by the two aggregators without either seeing it: if
\* their sums reconstructed to the total of the reports so far, in the ring, they
\* do after both have added their share of one more noisy vector.
THEOREM AggregatorsAddUp ==
  ASSUME NEW S, NEW left \in [S -> Ring], NEW right \in [S -> Ring], NEW total \in [S -> Int],
         NEW v \in [S -> Int], NEW noise \in [S -> Int], NEW mask \in [S -> Ring],
         Reconstruct(<<left, right>>) = [j \in S |-> total[j] % Modulus]
  PROVE  LET shares == SecretShare(Finalise(v, noise), mask)
         IN  Reconstruct(<<Collected(left, shares[1]), Collected(right, shares[2])>>)
               = [j \in S |-> (total[j] + (v[j] + noise[j])) % Modulus]
<1> DEFINE shares == SecretShare(Finalise(v, noise), mask)
           one == Collected(left, shares[1])
           two == Collected(right, shares[2])
<1>1. DOMAIN one = S BY DEF Collected
<1>2. Reconstruct(<<one, two>>) = [j \in S |-> (one[j] + two[j]) % Modulus]
  BY <1>1 DEF Reconstruct
<1>3. ASSUME NEW j \in S
      PROVE  (one[j] + two[j]) % Modulus = (total[j] + (v[j] + noise[j])) % Modulus
  <2>1. (left[j] + right[j]) % Modulus = total[j] % Modulus BY DEF Reconstruct
  <2>2. shares = SecretShare(Finalise(v, noise), mask) OBVIOUS
  <2> HIDE DEF shares
  <2> QED BY <2>1, <2>2, AddsUpAt
<1> HIDE DEF one, two
<1> QED BY <1>2, <1>3 DEF one, two

\* release and dequantise: of a total that fits in half the ring, what is read
\* back from its residue is the total itself, negative ones included, and it is
\* published unless it is below the floor.
THEOREM PublishedIsTheTotal ==
  ASSUME NEW S, NEW total \in [S -> Int], NEW j \in S, NEW s, s.k \in Int,
         total[j] > -(Modulus \div 2), total[j] <= Modulus \div 2
  PROVE  /\ Signed(total[j] % Modulus) = total[j]
         /\ Release([i \in S |-> total[i] % Modulus], s)[j]
              = IF total[j] < s.k THEN Absent ELSE total[j]
<1> DEFINE n == total[j]
<1>0. n \in Int /\ n > -(Modulus \div 2) /\ n <= Modulus \div 2 OBVIOUS
<1>4. ASSUME Signed(n % Modulus) = n
      PROVE  Release([i \in S |-> total[i] % Modulus], s)[j] = IF n < s.k THEN Absent ELSE n
  BY <1>0, <1>4 DEF Release
<1> HIDE DEF n
<1>1. Modulus \div 2 \in Nat /\ 2 * (Modulus \div 2) <= Modulus /\ Modulus < 2 * (Modulus \div 2) + 2
  BY RingAssumption
<1>2. ASSUME n >= 0 PROVE Signed(n % Modulus) = n
  <2>1. n \in Ring BY <1>0, <1>1, <1>2, RingAssumption DEF Ring
  <2>2. n - n = 0 * Modulus BY <1>0, RingAssumption
  <2>3. Multiple(n - n) BY <2>2 DEF Multiple
  <2>4. n % Modulus = n BY <1>0, <2>1, <2>3, ResidueIs
  <2> QED BY <1>0, <1>1, <2>4 DEF Signed
<1>3. ASSUME n < 0 PROVE Signed(n % Modulus) = n
  <2>1. n + Modulus \in Ring BY <1>0, <1>1, <1>3, RingAssumption DEF Ring
  <2>2. n - (n + Modulus) = (-1) * Modulus BY <1>0, RingAssumption
  <2>3. Multiple(n - (n + Modulus)) BY <2>2 DEF Multiple
  <2>4. n % Modulus = n + Modulus BY <1>0, <2>1, <2>3, ResidueIs
  <2>5. n + Modulus > Modulus \div 2 BY <1>0, <1>1, RingAssumption
  <2> QED BY <1>0, <2>4, <2>5, RingAssumption DEF Signed
<1>5. Signed(n % Modulus) = n BY <1>0, <1>2, <1>3
<1> QED BY <1>4, <1>5 DEF n

\* The share that report i of the nodes gives aggregator a.
ShareOf(reports, i, a) ==
  SecretShare(Finalise(reports[i].vector, reports[i].noise), reports[i].mask)[a]

\* The recursion of the fold in CollectedBy.
Collects(g, reports, a, zero) ==
  g = [T \in SUBSET (DOMAIN reports) |->
         IF T = {} THEN zero
         ELSE Collected(g[T \ {Max(T)}], ShareOf(reports, Max(T), a))]

\* h is what aggregator a has after each of the reports.
InTurn(h, reports, cells, a) ==
  /\ h \in [0..Len(reports) -> [cells -> Ring]]
  /\ h[0] = [j \in cells |-> 0]
  /\ \A k \in 0..(Len(reports) - 1) : h[k + 1] = Collected(h[k], ShareOf(reports, k + 1, a))
  /\ CollectedBy(a, reports) = h[Len(reports)]

\* An aggregator has what it is sent added one report after the other.
LEMMA CollectedInTurn ==
  ASSUME NEW reports, reports \in Seq(Range(reports)), NEW cells,
         cells = 0..(Cardinality(DOMAIN reports[1].vector) - 1), NEW a,
         \A i \in DOMAIN reports : ShareOf(reports, i, a) \in [cells -> Ring]
  PROVE  \E h : InTurn(h, reports, cells, a)
<1> DEFINE n == Len(reports)
           V == [cells -> Ring]
           zero == Nothing(Cardinality(DOMAIN reports[1].vector))
           step == [p \in (1..n) \X V |-> Collected(p[2], ShareOf(reports, p[1], a))]
           c == CHOOSE g : Collects(g, reports, a, zero)
<1>1. n \in Nat /\ DOMAIN reports = 1..n OBVIOUS
<1>2. zero = [j \in cells |-> 0] /\ zero \in V
  BY RingAssumption DEF Nothing, Ring
<1>3. ASSUME NEW v \in V, NEW i \in 1..n PROVE Collected(v, ShareOf(reports, i, a)) \in V
  <2>1. ShareOf(reports, i, a) \in [cells -> Ring] BY <1>1
  <2>2. \A j \in cells : (v[j] + ShareOf(reports, i, a)[j]) % Modulus \in Ring
    BY <2>1, RingAssumption DEF Ring
  <2> QED BY <2>2 DEF Collected
<1>4. step \in [(1..n) \X V -> V]
  <2> HIDE DEF V, n
  <2> QED BY <1>3
<1>5. PICK g \in [SUBSET (1..n) -> V] : Lefts(g, n, zero, step)
  <2> HIDE DEF V, step, zero, n
  <2> QED BY <1>1, <1>2, <1>4, LeftExists
<1>6. Collects(g, reports, a, zero)
  <2>1. ASSUME NEW T \in SUBSET (1..n)
        PROVE  g[T] = IF T = {} THEN zero
                      ELSE Collected(g[T \ {Max(T)}], ShareOf(reports, Max(T), a))
    <3>1. g[T] = IF T = {} THEN zero ELSE step[<<Max(T), g[T \ {Max(T)}]>>] BY <1>5 DEF Lefts
    <3>2. CASE T # {}
      <4>1. Max(T) \in T BY <1>1, <3>2, MaxOfIndices
      <4>2. Max(T) \in 1..n /\ g[T \ {Max(T)}] \in V BY <4>1
      <4>3. step[<<Max(T), g[T \ {Max(T)}]>>]
              = Collected(g[T \ {Max(T)}], ShareOf(reports, Max(T), a))
        <5> HIDE DEF V, n
        <5> QED BY <4>2
      <4> HIDE DEF step, n
      <4> QED BY <3>1, <3>2, <4>3
    <3> QED BY <3>1, <3>2
  <2> HIDE DEF n, step, V, zero
  <2> QED BY <1>1, <2>1 DEF Collects
<1>7. Collects(c, reports, a, zero) BY <1>6, Zenon
<1>8. CollectedBy(a, reports) = c[DOMAIN reports]
  BY Zenon DEF CollectedBy, FoldLeft, MapThenFoldSet, Collects, ShareOf
<1> HIDE DEF c, zero
<1>9. c[{}] = zero
  <2>1. {} \in SUBSET (DOMAIN reports) OBVIOUS
  <2> QED BY <1>7, <2>1 DEF Collects
<1>10. \A k \in 0..(n - 1) : c[1..(k + 1)] = Collected(c[1..k], ShareOf(reports, k + 1, a))
  <2> SUFFICES ASSUME NEW k \in 0..(n - 1)
               PROVE  c[1..(k + 1)] = Collected(c[1..k], ShareOf(reports, k + 1, a))
    OBVIOUS
  <2> DEFINE T == 1..(k + 1)
  <2>1. T \in SUBSET (1..n) /\ T # {} /\ Max(T) = k + 1 /\ T \ {k + 1} = 1..k BY <1>1, Prefix
  <2> HIDE DEF T, n
  <2>2. c[T] = Collected(c[T \ {Max(T)}], ShareOf(reports, Max(T), a))
    BY <1>1, <1>7, <2>1 DEF Collects
  <2> QED BY <2>1, <2>2 DEF T
<1> DEFINE h == [k \in 0..n |-> c[1..k]]
           P == {k \in 0..n : h[k] \in V}
<1>11. 1..0 = {} OBVIOUS
<1>12. h[0] = zero BY <1>1, <1>9, <1>11
<1>13. ASSUME NEW k \in 0..(n - 1) PROVE h[k + 1] = Collected(h[k], ShareOf(reports, k + 1, a))
  BY <1>1, <1>10
<1>14. \A k \in 0..n : h[k] \in V
  <2>1. 0 \in P BY <1>1, <1>2, <1>12
  <2>2. ASSUME NEW k \in 0..(n - 1), k \in P PROVE k + 1 \in P
    <3>1. k + 1 \in 1..n /\ k + 1 \in 0..n /\ h[k] \in V BY <1>1, <2>2
    <3>2. h[k + 1] = Collected(h[k], ShareOf(reports, k + 1, a)) BY <1>13
    <3> HIDE DEF h, V, n
    <3> QED BY <1>3, <3>1, <3>2
  <2>3. \A k \in 0..n : k \in P
    <3> HIDE DEF P, n
    <3> QED BY <1>1, <2>1, <2>2, UpTo
  <2> QED BY <2>3
<1>15. h \in [0..n -> V]
  <2> HIDE DEF V
  <2> QED BY <1>14
<1>16. CollectedBy(a, reports) = h[n]
  BY <1>1, <1>8
<1> HIDE DEF h
<1>17. InTurn(h, reports, cells, a) BY <1>2, <1>12, <1>13, <1>15, <1>16 DEF InTurn
<1> QED BY <1>17

\* A round of reports: as many cells in each, and masks from the ring.
Round(reports, cells) ==
  /\ reports \in Seq(Range(reports)) /\ reports # <<>>
  /\ cells = 0..(Cardinality(DOMAIN reports[1].vector) - 1)
  /\ \A i \in DOMAIN reports : /\ reports[i].vector \in [cells -> Int]
                               /\ reports[i].noise \in [cells -> Int]
                               /\ reports[i].mask \in [cells -> Ring]

\* What the nodes reported in cell j.
Reported(reports, j) ==
  [i \in DOMAIN reports |-> reports[i].vector[j] + reports[i].noise[j]]

LEMMA RoundNumbers ==
  ASSUME NEW reports, NEW cells, Round(reports, cells), NEW j \in cells,
         NEW i \in DOMAIN reports
  PROVE  /\ Reported(reports, j)[i] = reports[i].vector[j] + reports[i].noise[j]
         /\ Reported(reports, j)[i] \in Int
<1>1. Reported(reports, j)[i] = reports[i].vector[j] + reports[i].noise[j] BY DEF Reported
<1>2. reports[i].vector \in [cells -> Int] /\ reports[i].noise \in [cells -> Int] BY DEF Round
<1>3. reports[i].vector[j] \in Int /\ reports[i].noise[j] \in Int BY <1>2
<1> QED BY <1>1, <1>3

\* Both shares of a report are vectors of the ring.
LEMMA ShareType ==
  ASSUME NEW reports, NEW cells, Round(reports, cells), NEW i \in DOMAIN reports, NEW a \in {1, 2}
  PROVE  ShareOf(reports, i, a) \in [cells -> Ring]
<1> DEFINE v == Finalise(reports[i].vector, reports[i].noise)
           rest == [j \in cells |-> (v[j] - reports[i].mask[j]) % Modulus]
<1>1. /\ reports[i].vector \in [cells -> Int] /\ reports[i].noise \in [cells -> Int]
      /\ reports[i].mask \in [cells -> Ring]
  BY DEF Round
<1>2. v = [j \in cells |-> (reports[i].vector[j] + reports[i].noise[j]) % Modulus]
  BY <1>1 DEF Finalise
<1>3. \A j \in cells : v[j] \in Int /\ reports[i].mask[j] \in Int
  BY <1>1, <1>2, RingAssumption DEF Ring
<1>4. rest \in [cells -> Ring]
  <2> SUFFICES ASSUME NEW j \in cells PROVE (v[j] - reports[i].mask[j]) % Modulus \in Ring
    OBVIOUS
  <2>1. v[j] - reports[i].mask[j] \in Int BY <1>3
  <2> QED BY <2>1, Residue
<1>5. SecretShare(v, reports[i].mask) = <<reports[i].mask, rest>> BY <1>2 DEF SecretShare
<1> HIDE DEF v, rest
<1>6. ShareOf(reports, i, a) = <<reports[i].mask, rest>>[a] BY <1>5 DEF ShareOf, v
<1> QED BY <1>1, <1>4, <1>6

\* What the exchange reconstructs is the sum of what the nodes reported, in the
\* ring, cell by cell: the masks cancel, whatever they are.
LEMMA MasksCancel ==
  ASSUME NEW reports, NEW cells, Round(reports, cells)
  PROVE  Reconstruct(<<CollectedBy(1, reports), CollectedBy(2, reports)>>)
           = [j \in cells |-> SumFunctionOnSet(Reported(reports, j), DOMAIN reports) % Modulus]
<1> DEFINE n == Len(reports)
           total == [k \in 0..n |-> [j \in cells |-> SumFunctionOnSet(Reported(reports, j), 1..k)]]
<1>1. n \in Nat /\ DOMAIN reports = 1..n BY DEF Round
<1>0. /\ reports \in Seq(Range(reports))
      /\ cells = 0..(Cardinality(DOMAIN reports[1].vector) - 1)
  BY DEF Round
<1>2. /\ \A i \in DOMAIN reports : ShareOf(reports, i, 1) \in [cells -> Ring]
      /\ \A i \in DOMAIN reports : ShareOf(reports, i, 2) \in [cells -> Ring]
  BY ShareType
<1>3. PICK left : InTurn(left, reports, cells, 1) BY <1>0, <1>2, CollectedInTurn
<1>4. PICK right : InTurn(right, reports, cells, 2) BY <1>0, <1>2, CollectedInTurn
<1>5. ASSUME NEW j \in cells, NEW i \in 1..n
      PROVE  /\ Reported(reports, j)[i] = reports[i].vector[j] + reports[i].noise[j]
             /\ Reported(reports, j)[i] \in Int
  BY <1>1, RoundNumbers
<1>6. ASSUME NEW j \in cells, NEW k \in 0..n
      PROVE  SumFunctionOnSet(Reported(reports, j), 1..k) \in Int
  <2>1. IsFiniteSet(1..k) BY <1>1, FS_Interval
  <2>2. \A i \in 1..k : i \in 1..n BY <1>1
  <2> QED BY <1>5, <2>1, <2>2, SumType
<1>7. \A k \in 0..n : total[k] \in [cells -> Int] BY <1>6
<1>8. ASSUME NEW j \in cells, NEW k \in 0..(n - 1)
      PROVE  total[k + 1][j] = total[k][j] + (reports[k + 1].vector[j] + reports[k + 1].noise[j])
  <2> DEFINE f == Reported(reports, j)
  <2>1. IsFiniteSet(1..k) /\ k + 1 \notin 1..k /\ 1..(k + 1) = (1..k) \cup {k + 1}
    <3>1. k \in Int /\ 1 \in Int BY <1>1
    <3>2. IsFiniteSet(1..k) BY <3>1, FS_Interval
    <3>3. k + 1 \notin 1..k /\ 1..(k + 1) = (1..k) \cup {k + 1} BY <1>1
    <3> QED BY <3>2, <3>3
  <2>2. \A i \in (1..k) \cup {k + 1} : i \in 1..n BY <1>1
  <2>3. \A i \in (1..k) \cup {k + 1} : f[i] \in Int BY <1>5, <2>2
  <2>4. k \in 0..n /\ k + 1 \in 0..n /\ k + 1 \in 1..n BY <1>1
  <2>5. f[k + 1] = reports[k + 1].vector[j] + reports[k + 1].noise[j] BY <1>5, <2>4
  <2>6. f[k + 1] \in Int BY <1>5, <2>4
  <2>7. SumFunctionOnSet(f, 1..k) \in Int BY <1>6, <2>4
  <2> HIDE DEF f
  <2>8. SumFunctionOnSet(f, 1..(k + 1)) = f[k + 1] + SumFunctionOnSet(f, 1..k)
    BY <2>1, <2>3, SumAdd
  <2>9. total[k][j] = SumFunctionOnSet(f, 1..k) /\ total[k + 1][j] = SumFunctionOnSet(f, 1..(k + 1))
    BY <2>4 DEF f
  <2> HIDE DEF total
  <2> QED BY <2>5, <2>6, <2>7, <2>8, <2>9
<1> DEFINE P == {k \in 0..n : \A j \in cells : (left[k][j] + right[k][j]) % Modulus = total[k][j] % Modulus}
<1>9. 0 \in P
  <2>1. 1..0 = {} /\ 0 \in 0..n BY <1>1
  <2>2. \A j \in cells : total[0][j] = 0 BY <2>1, SumEmpty
  <2>3. \A j \in cells : left[0][j] = 0 /\ right[0][j] = 0 BY <1>3, <1>4 DEF InTurn
  <2> HIDE DEF total
  <2> QED BY <2>1, <2>2, <2>3
<1>10. ASSUME NEW k \in 0..(n - 1), k \in P PROVE k + 1 \in P
  <2>1. k \in 0..n /\ k + 1 \in 0..n /\ k + 1 \in 1..n BY <1>1
  <2> DEFINE v == reports[k + 1].vector  e == reports[k + 1].noise  m == reports[k + 1].mask
             shares == SecretShare(Finalise(v, e), m)
  <2>2. v \in [cells -> Int] /\ e \in [cells -> Int] /\ m \in [cells -> Ring]
    BY <1>1, <2>1 DEF Round
  <2>3. left[k] \in [cells -> Ring] /\ right[k] \in [cells -> Ring] /\ total[k] \in [cells -> Int]
    BY <1>3, <1>4, <1>7, <2>1 DEF InTurn
  <2>4. \A j \in cells : (left[k][j] + right[k][j]) % Modulus = total[k][j] % Modulus
    BY <1>10
  <2>5. left[k + 1] = Collected(left[k], shares[1]) /\ right[k + 1] = Collected(right[k], shares[2])
    BY <1>3, <1>4 DEF ShareOf, InTurn
  <2>6. \A j \in cells : total[k + 1][j] = total[k][j] + (v[j] + e[j]) BY <1>8
  <2>8. shares = SecretShare(Finalise(v, e), m) OBVIOUS
  <2> DEFINE l == left[k]  r == right[k]  sum == total[k]
  <2> HIDE DEF v, e, m, total, shares
  <2>7. \A j \in cells :
          (Collected(left[k], shares[1])[j] + Collected(right[k], shares[2])[j]) % Modulus
            = (total[k][j] + (v[j] + e[j])) % Modulus
    <3> HIDE DEF l, r, sum, P, n
    <3>1. /\ l \in [cells -> Ring] /\ r \in [cells -> Ring] /\ sum \in [cells -> Int]
          /\ \A j \in cells : (l[j] + r[j]) % Modulus = sum[j] % Modulus
      BY <2>3, <2>4 DEF l, r, sum
    <3>2. ASSUME NEW j \in cells
          PROVE  (Collected(l, shares[1])[j] + Collected(r, shares[2])[j]) % Modulus
                   = (sum[j] + (v[j] + e[j])) % Modulus
      <4>1. (l[j] + r[j]) % Modulus = sum[j] % Modulus BY <3>1
      <4>2. l \in [cells -> Ring] /\ r \in [cells -> Ring] /\ sum \in [cells -> Int] BY <3>1
      <4> QED BY <2>2, <2>8, <4>1, <4>2, AddsUpAt, SMTT(60)
    <3> QED BY <3>2 DEF l, r, sum
  <2> QED BY <2>1, <2>5, <2>6, <2>7
<1>11. n \in P
  <2> HIDE DEF P, n
  <2>1. \A k \in 0..n : k \in P BY <1>1, <1>9, <1>10, UpTo
  <2> QED BY <1>1, <2>1
<1>12. \A j \in cells : total[n][j] = SumFunctionOnSet(Reported(reports, j), DOMAIN reports)
  BY <1>1
<1>13. left[n] \in [cells -> Ring] BY <1>1, <1>3 DEF InTurn
<1> HIDE DEF total
<1>14. Reconstruct(<<left[n], right[n]>>) = [j \in cells |-> (left[n][j] + right[n][j]) % Modulus]
  BY <1>13 DEF Reconstruct
<1>15. CollectedBy(1, reports) = left[n] /\ CollectedBy(2, reports) = right[n]
  BY <1>3, <1>4 DEF InTurn
<1>16. ASSUME NEW j \in cells
       PROVE  (left[n][j] + right[n][j]) % Modulus
                = SumFunctionOnSet(Reported(reports, j), DOMAIN reports) % Modulus
  BY <1>11, <1>12
<1> HIDE DEF n, P
<1>17. [j \in cells |-> (left[n][j] + right[n][j]) % Modulus]
         = [j \in cells |-> SumFunctionOnSet(Reported(reports, j), DOMAIN reports) % Modulus]
  BY <1>16
<1> QED BY <1>14, <1>15, <1>17

\* What is published is the sum of what the nodes reported, whatever their masks
\* (uap/aggregate.py secret_share, reconstruct, release; federated.py
\* average_updates).
THEOREM TotalReleased == SpecCalls => []ReleasedIsTheTotal
<1>1. Asked /\ AnswerRight => ReleasedIsTheTotal
  <2> SUFFICES ASSUME Asked, AnswerRight, Returned("release"), NEW j \in DOMAIN answer.counters,
                      Fits(TrueTotal(j))
               PROVE  /\ answer.counters[j] = IF TrueTotal(j) < call.spec.k THEN Absent ELSE TrueTotal(j)
                      /\ IF Len(call.reports) >= GradientSpec.participants
                         THEN answer.update[j] = TrueTotal(j)
                         ELSE answer.update = "UAP_FED_COHORT_TOO_SMALL"
    BY DEF ReleasedIsTheTotal
  <2> DEFINE reports == call.reports
             cells == 0..(Cardinality(DOMAIN reports[1].vector) - 1)
             sum == [i \in cells |-> SumFunctionOnSet(Reported(reports, i), DOMAIN reports)]
             total == Reconstruct(<<CollectedBy(1, reports), CollectedBy(2, reports)>>)
  <2>1. ReleaseCalled
    BY DEF Asked, Returned, AllocateCalled, EvaluateCalled, VerifyChainCalled, AssessCalled,
           ComposeCalled, AggregateCalled, ReleaseCalled
  <2>2. call.reports \in Reports /\ call.spec \in Specs BY <2>1 DEF ReleaseCalled
  <2>3. Round(reports, cells) /\ call.spec.k \in Int
    BY <2>2, CallsAssumption DEF Round, Ring
  <2>4. total = [i \in cells |-> sum[i] % Modulus]
    <3>1. total = [i \in cells |-> SumFunctionOnSet(Reported(reports, i), DOMAIN reports) % Modulus]
      <4> HIDE DEF cells
      <4> QED BY <2>3, MasksCancel
    <3> QED BY <3>1
  <2>5. answer = Published(call.spec, reports, call.told) BY DEF AnswerRight
  <2>6. answer.counters = Release(total, call.spec) /\ answer.update = Averaged(total, Len(reports), GradientSpec)
    BY <2>5 DEF Published
  <2>7. sum \in [cells -> Int]
    <3> SUFFICES ASSUME NEW i \in cells
                 PROVE  SumFunctionOnSet(Reported(reports, i), DOMAIN reports) \in Int
      OBVIOUS
    <3> HIDE DEF cells, reports
    <3>1. \A m \in DOMAIN reports : Reported(reports, i)[m] \in Int BY <2>3, RoundNumbers
    <3>2. DOMAIN reports = 1..Len(reports) /\ Len(reports) \in Nat BY <2>3 DEF Round
    <3>3. IsFiniteSet(DOMAIN reports) BY <3>2, FS_Interval
    <3> QED BY <3>1, <3>3, SumType
  <2>8. DOMAIN total = cells BY <2>4
  <2>9. j \in cells BY <2>6, <2>8 DEF Release
  <2>10. sum[j] = TrueTotal(j) BY <2>9 DEF TrueTotal, Reported
  <2> HIDE DEF sum, total, cells
  <2>11. /\ Signed(sum[j] % Modulus) = sum[j]
         /\ Release([i \in cells |-> sum[i] % Modulus], call.spec)[j]
              = IF sum[j] < call.spec.k THEN Absent ELSE sum[j]
    BY <2>3, <2>7, <2>9, <2>10, PublishedIsTheTotal DEF Fits
  <2>12. Averaged(total, Len(reports), GradientSpec) =
           IF Len(reports) < GradientSpec.participants THEN "UAP_FED_COHORT_TOO_SMALL"
           ELSE [i \in cells |-> Signed(total[i])]
    BY <2>8 DEF Averaged
  <2>13. Len(reports) \in Nat /\ GradientSpec.participants \in Nat
    BY <2>3, CallsAssumption DEF Round
  <2>14. total[j] = sum[j] % Modulus BY <2>4, <2>9
  <2> HIDE DEF reports
  <2> QED BY <2>4, <2>6, <2>9, <2>10, <2>11, <2>12, <2>13, <2>14 DEF reports
<1> QED BY <1>1, Answered, PTL

-----------------------------------------------------------------------------
(* Influence.                                                               *)

\* A spec that is not refused: at least one cell.
Usable(s) == /\ Cells(s) \in Nat \ {0} /\ s.bound \in Nat
             /\ Len(Metrics(s)) \in Nat /\ Width(s) = Cells(s) * Len(Metrics(s))

\* A turn that adds at most one to each metric.
Counted(users, t) == t.user \in users /\ t.error \in Int /\ Range(t.metrics) \subseteq {0, 1}

Counters(s) == 0..(Width(s) - 1)

Places(s) == 0..(Cells(s) - 1)

MetricsOf(s) == 0..(Len(Metrics(s)) - 1)

Local(s, users) == [counts : [Counters(s) -> Int], seen : [users -> Nat]]

\* By how much the counters of metric m are ahead.
Ahead(s, m, local, other) ==
  [c \in Places(s) |-> local.counts[m * Cells(s) + c] - other.counts[m * Cells(s) + c]]

\* A node, and the same node had u's turns never happened: everyone else has been
\* counted as often, no counter is behind, and those of a metric are together ahead
\* by no more than u's counted turns.
Neighbours(s, users, u, local, other) ==
  /\ local \in Local(s, users) /\ other \in Local(s, users)
  /\ \A w \in users \ {u} : local.seen[w] = other.seen[w]
  /\ local.seen[u] <= s.bound
  /\ \A j \in Counters(s) : other.counts[j] <= local.counts[j]
  /\ \A m \in MetricsOf(s) :
       SumFunctionOnSet(Ahead(s, m, local, other), Places(s)) <= local.seen[u]

\* Where the counter of a metric and a cell is, and back.
LEMMA Placed ==
  ASSUME NEW s, Usable(s), NEW m \in MetricsOf(s), NEW c \in Places(s)
  PROVE  /\ m * Cells(s) + c \in Counters(s)
         /\ (m * Cells(s) + c) % Cells(s) = c
         /\ (m * Cells(s) + c) \div Cells(s) = m
<1> DEFINE n == Cells(s)
           M == Len(Metrics(s))
           x == m * n + c
           q == x \div n
           r == x % n
<1>1. n \in Nat \ {0} /\ M \in Nat /\ m \in 0..(M - 1) /\ c \in 0..(n - 1)
  BY DEF Usable, MetricsOf, Places
<1>2. Width(s) = n * M BY DEF Usable
<1> HIDE DEF n, M
<1>3. x \in Nat /\ x <= n * M - 1
  <2>1. m * n <= (M - 1) * n BY <1>1
  <2>2. (M - 1) * n = n * M - n BY <1>1
  <2>3. m * n \in Nat /\ n * M \in Nat BY <1>1
  <2> QED BY <1>1, <2>1, <2>2, <2>3
<1>4. q \in Int /\ r \in 0..(n - 1) /\ x = n * q + r
  <2> HIDE DEF x
  <2> QED BY <1>1, <1>3
<1> HIDE DEF q, r
<1>5. n * (q - m) = c - r
  <2>1. n * (q - m) = n * q - m * n BY <1>1, <1>4
  <2> QED BY <1>1, <1>4, <2>1
<1>6. q = m
  <2>1. ~(q - m >= 1)
    <3> SUFFICES ASSUME q - m >= 1 PROVE FALSE OBVIOUS
    <3>1. n * (q - m) >= n BY <1>1, <1>4
    <3> QED BY <1>1, <1>4, <1>5, <3>1
  <2>2. ~(q - m <= -1)
    <3> SUFFICES ASSUME q - m <= -1 PROVE FALSE OBVIOUS
    <3>1. n * (q - m) <= -n BY <1>1, <1>4
    <3> QED BY <1>1, <1>4, <1>5, <3>1
  <2> QED BY <1>1, <1>4, <2>1, <2>2
<1>7. r = c BY <1>1, <1>4, <1>5, <1>6
<1>8. x \in Counters(s) BY <1>1, <1>2, <1>3 DEF Counters
<1> HIDE DEF x
<1> QED BY <1>6, <1>7, <1>8 DEF x, n, q, r

\* A turn counts at most once in each metric, and in one place.
LEMMA Increment ==
  ASSUME NEW s, Usable(s), NEW users, NEW t, Counted(users, t), NEW cell
  PROVE  /\ Increments(s, cell, t.metrics) \in [Counters(s) -> {0, 1}]
         /\ \A m \in MetricsOf(s) : \A c \in Places(s) \ {cell} :
              Increments(s, cell, t.metrics)[m * Cells(s) + c] = 0
<1> DEFINE inc == Increments(s, cell, t.metrics)
<1>1. ASSUME NEW name, name \in DOMAIN t.metrics PROVE t.metrics[name] \in {0, 1}
  BY <1>1 DEF Counted, Range
<1>2. inc \in [Counters(s) -> {0, 1}]
  <2> SUFFICES ASSUME NEW j \in Counters(s)
               PROVE  (IF j % Cells(s) = cell /\ Metrics(s)[j \div Cells(s) + 1] \in DOMAIN t.metrics
                       THEN t.metrics[Metrics(s)[j \div Cells(s) + 1]] ELSE 0) \in {0, 1}
    BY DEF Increments, Counters
  <2> QED BY <1>1
<1>3. ASSUME NEW m \in MetricsOf(s), NEW c \in Places(s) \ {cell}
      PROVE  inc[m * Cells(s) + c] = 0
  <2> DEFINE j == m * Cells(s) + c
  <2>1. j \in Counters(s) /\ j % Cells(s) = c BY Placed
  <2> HIDE DEF j
  <2>2. inc[j] = 0 BY <2>1 DEF Increments, Counters
  <2> QED BY <2>2 DEF j
<1> QED BY <1>2, <1>3

\* A turn leaves the aggregate alone, or counts once more for its user.
LEMMA ObserveStep ==
  ASSUME NEW s, Usable(s), NEW users, NEW t, Counted(users, t), NEW local \in Local(s, users)
  PROVE  LET inc == Increments(s, Cell(s, t.signal), t.metrics)
         IN  /\ Observe(s, local, t) \in Local(s, users)
             /\ \/ /\ local.seen[t.user] >= s.bound \/ Cell(s, t.signal) = Absent
                   /\ Observe(s, local, t) = local
                \/ /\ local.seen[t.user] < s.bound /\ Cell(s, t.signal) # Absent
                   /\ Observe(s, local, t) =
                        [counts |-> [j \in Counters(s) |-> local.counts[j] + inc[j]],
                         seen |-> [local.seen EXCEPT ![t.user] = local.seen[t.user] + 1]]
<1> DEFINE inc == Increments(s, Cell(s, t.signal), t.metrics)
           after == [counts |-> [j \in Counters(s) |-> local.counts[j] + inc[j]],
                     seen |-> [local.seen EXCEPT ![t.user] = local.seen[t.user] + 1]]
<1>1. local.seen[t.user] \in Nat /\ s.bound \in Nat BY DEF Local, Counted, Usable
<1>2. DOMAIN local.counts = Counters(s) BY DEF Local
<1>3. inc \in [Counters(s) -> {0, 1}] BY Increment
<1>4. after \in Local(s, users)
  <2>1. \A j \in Counters(s) : local.counts[j] + inc[j] \in Int
    <3> HIDE DEF inc
    <3> QED BY <1>3 DEF Local
  <2>2. [local.seen EXCEPT ![t.user] = local.seen[t.user] + 1] \in [users -> Nat]
    <3>1. local.seen \in [users -> Nat] BY DEF Local
    <3>2. local.seen[t.user] + 1 \in Nat BY <1>1
    <3> QED BY <3>1, <3>2, Zenon
  <2> HIDE DEF inc
  <2> QED BY <2>1, <2>2 DEF Local
<1>5. CASE local.seen[t.user] >= s.bound \/ Cell(s, t.signal) = Absent BY <1>5 DEF Observe
<1>6. CASE ~(local.seen[t.user] >= s.bound) /\ Cell(s, t.signal) # Absent
  <2>1. Observe(s, local, t) = after BY <1>2, <1>6 DEF Observe, Added
  <2> HIDE DEF after
  <2> QED BY <1>1, <1>4, <1>6, <2>1 DEF after
<1> QED BY <1>5, <1>6

\* The places of a metric, and those of the gradient, are finite in number.
LEMMA PlacesFinite ==
  ASSUME NEW s, Usable(s)
  PROVE  IsFiniteSet(Places(s)) /\ IsFiniteSet(0..Cells(s))
<1> DEFINE hi == Cells(s)
<1>1. hi \in Int /\ hi - 1 \in Int BY DEF Usable
<1>2. Places(s) = 0..(hi - 1) BY DEF Places
<1> HIDE DEF hi
<1>3. \A k \in Int : IsFiniteSet(0..k) BY FS_Interval
<1>4. IsFiniteSet(0..(hi - 1)) /\ IsFiniteSet(0..hi) BY <1>1, <1>3
<1> QED BY <1>2, <1>4 DEF hi

\* How far a metric is ahead is a number.
LEMMA AheadIsNumber ==
  ASSUME NEW s, Usable(s), NEW users, NEW m \in MetricsOf(s),
         NEW local \in Local(s, users), NEW other \in Local(s, users)
  PROVE  SumFunctionOnSet(Ahead(s, m, local, other), Places(s)) \in Int
<1>1. IsFiniteSet(Places(s)) BY PlacesFinite
<1>2. ASSUME NEW c \in Places(s) PROVE Ahead(s, m, local, other)[c] \in Int
  <2>1. m * Cells(s) + c \in Counters(s) BY Placed
  <2>2. local.counts[m * Cells(s) + c] \in Int /\ other.counts[m * Cells(s) + c] \in Int
    BY <2>1 DEF Local
  <2> QED BY <2>2 DEF Ahead
<1> QED BY <1>1, <1>2, SumType

\* What one more turn of u's does to how far a metric is ahead: one place more, or
\* none.
LEMMA AheadByOne ==
  ASSUME NEW s, Usable(s), NEW users, NEW t, Counted(users, t), NEW m \in MetricsOf(s),
         NEW cell, NEW local \in Local(s, users), NEW other \in Local(s, users),
         NEW after \in Local(s, users),
         \A j \in Counters(s) :
           after.counts[j] = local.counts[j] + Increments(s, cell, t.metrics)[j]
  PROVE  SumFunctionOnSet(Ahead(s, m, after, other), Places(s))
           <= SumFunctionOnSet(Ahead(s, m, local, other), Places(s)) + 1
<1> DEFINE inc == Increments(s, cell, t.metrics)
           before == Ahead(s, m, local, other)
           later == Ahead(s, m, after, other)
           At(c) == m * Cells(s) + c
<1>1. IsFiniteSet(Places(s)) BY PlacesFinite
<1>2. inc \in [Counters(s) -> {0, 1}] /\ \A c \in Places(s) \ {cell} : inc[At(c)] = 0
  BY Increment
<1>3. ASSUME NEW c \in Places(s)
      PROVE  before[c] \in Int /\ later[c] = before[c] + inc[At(c)] /\ inc[At(c)] \in {0, 1}
  <2> DEFINE j == At(c)
  <2>1. j \in Counters(s) BY Placed
  <2>2. before[c] = local.counts[j] - other.counts[j] /\ later[c] = after.counts[j] - other.counts[j]
    BY DEF Ahead
  <2> HIDE DEF j, inc, before, later
  <2>3. local.counts[j] \in Int /\ other.counts[j] \in Int BY <2>1 DEF Local
  <2>4. after.counts[j] = local.counts[j] + inc[j] /\ inc[j] \in {0, 1} BY <1>2, <2>1 DEF inc
  <2> QED BY <2>2, <2>3, <2>4 DEF j
<1> HIDE DEF inc, before, later, At
<1>4. SumFunctionOnSet(before, Places(s)) \in Int BY <1>1, <1>3, SumType
<1>5. CASE cell \in Places(s)
  <2>1. \A c \in Places(s) \ {cell} : before[c] = later[c] BY <1>2, <1>3
  <2>2. SumFunctionOnSet(later, Places(s))
          = SumFunctionOnSet(before, Places(s)) - before[cell] + later[cell]
    BY <1>1, <1>3, <1>5, <2>1, SumChanged
  <2>3. later[cell] <= before[cell] + 1 /\ before[cell] \in Int /\ later[cell] \in Int
    BY <1>3, <1>5
  <2> QED BY <1>4, <2>2, <2>3 DEF before, later
<1>6. CASE cell \notin Places(s)
  <2>1. \A c \in Places(s) : later[c] = before[c] BY <1>2, <1>3, <1>6
  <2>2. SumFunctionOnSet(later, Places(s)) = SumFunctionOnSet(before, Places(s))
    BY <1>1, <1>3, <2>1, SumSame
  <2> QED BY <1>4, <2>2 DEF before, later
<1> QED BY <1>5, <1>6

\* Before any turn.
LEMMA NeighboursAtFirst ==
  ASSUME NEW s, Usable(s), NEW users, NEW u \in users, NEW empty,
         empty = [counts |-> [j \in Counters(s) |-> 0], seen |-> [w \in users |-> 0]]
  PROVE  Neighbours(s, users, u, empty, empty)
<1>1. empty \in Local(s, users) BY DEF Local
<1>2. ASSUME NEW m \in MetricsOf(s)
      PROVE  SumFunctionOnSet(Ahead(s, m, empty, empty), Places(s)) = 0
  <2>1. \A c \in Places(s) : Ahead(s, m, empty, empty)[c] = 0
    <3> SUFFICES ASSUME NEW c \in Places(s) PROVE Ahead(s, m, empty, empty)[c] = 0 OBVIOUS
    <3>1. m * Cells(s) + c \in Counters(s) BY Placed
    <3>2. empty.counts[m * Cells(s) + c] = 0 BY <3>1
    <3> QED BY <3>2 DEF Ahead
  <2>2. IsFiniteSet(Places(s)) BY PlacesFinite
  <2>3. 0 \in Int /\ 0 * Cardinality(Places(s)) = 0 BY <2>2, FS_CardinalityType
  <2> QED BY <2>1, <2>2, <2>3, SumConstant
<1>3. empty.seen[u] = 0 /\ s.bound \in Nat BY DEF Usable
<1>4. \A j \in Counters(s) : empty.counts[j] <= empty.counts[j] BY <1>1 DEF Local
<1> QED BY <1>1, <1>2, <1>3, <1>4 DEF Neighbours

\* "Each user contributes at most contribution_bound events": a node and the node
\* had u's turns never happened stay neighbours through every turn, u's own, which
\* only the first sees, and anybody else's, which both see.
THEOREM InfluenceStep ==
  ASSUME NEW s, Usable(s), NEW users, NEW u \in users, NEW t, Counted(users, t),
         NEW local, NEW other, Neighbours(s, users, u, local, other)
  PROVE  Neighbours(s, users, u, Observe(s, local, t),
                    IF t.user = u THEN other ELSE Observe(s, other, t))
<1> DEFINE inc == Increments(s, Cell(s, t.signal), t.metrics)
           one == Observe(s, local, t)
           two == Observe(s, other, t)
           After(a) == [counts |-> [j \in Counters(s) |-> a.counts[j] + inc[j]],
                        seen |-> [a.seen EXCEPT ![t.user] = a.seen[t.user] + 1]]
<1>1. t.user \in users /\ s.bound \in Nat /\ inc \in [Counters(s) -> {0, 1}]
  BY Increment DEF Counted, Usable
<1>2. /\ local \in Local(s, users) /\ other \in Local(s, users)
      /\ \A w \in users \ {u} : local.seen[w] = other.seen[w]
      /\ local.seen[u] <= s.bound
      /\ \A j \in Counters(s) : other.counts[j] <= local.counts[j]
      /\ \A m \in MetricsOf(s) :
           SumFunctionOnSet(Ahead(s, m, local, other), Places(s)) <= local.seen[u]
  BY DEF Neighbours
<1>3. /\ local.seen \in [users -> Nat] /\ other.seen \in [users -> Nat]
      /\ local.counts \in [Counters(s) -> Int] /\ other.counts \in [Counters(s) -> Int]
  BY <1>2 DEF Local
<1>4. /\ one \in Local(s, users)
      /\ \/ (local.seen[t.user] >= s.bound \/ Cell(s, t.signal) = Absent) /\ one = local
         \/ /\ local.seen[t.user] < s.bound /\ Cell(s, t.signal) # Absent
            /\ one = After(local)
  BY <1>2, ObserveStep
<1>5. /\ two \in Local(s, users)
      /\ \/ (other.seen[t.user] >= s.bound \/ Cell(s, t.signal) = Absent) /\ two = other
         \/ /\ other.seen[t.user] < s.bound /\ Cell(s, t.signal) # Absent
            /\ two = After(other)
  BY <1>2, ObserveStep
<1> HIDE DEF one, two, inc
<1>6. ASSUME t.user = u PROVE Neighbours(s, users, u, one, other)
  <2>1. CASE one = local BY <2>1
  <2>2. CASE local.seen[u] < s.bound /\ one = After(local)
    <3>1. one.seen[u] = local.seen[u] + 1 /\ local.seen[u] \in Nat
          /\ \A w \in users \ {u} : one.seen[w] = local.seen[w]
      BY <1>3, <1>6, <2>2
    <3>2. \A j \in Counters(s) : one.counts[j] = local.counts[j] + inc[j] BY <2>2
    <3>3. ASSUME NEW j \in Counters(s) PROVE other.counts[j] <= one.counts[j]
      <4>1. local.counts[j] \in Int /\ other.counts[j] \in Int /\ inc[j] \in {0, 1}
            /\ other.counts[j] <= local.counts[j]
        BY <1>1, <1>2, <1>3
      <4> QED BY <3>2, <4>1
    <3>4. ASSUME NEW m \in MetricsOf(s)
          PROVE  SumFunctionOnSet(Ahead(s, m, one, other), Places(s)) <= one.seen[u]
      <4>1. SumFunctionOnSet(Ahead(s, m, one, other), Places(s))
              <= SumFunctionOnSet(Ahead(s, m, local, other), Places(s)) + 1
        BY <1>2, <1>4, <3>2, AheadByOne DEF inc
      <4>2. SumFunctionOnSet(Ahead(s, m, local, other), Places(s)) <= local.seen[u] BY <1>2
      <4>3. \A a \in {local, one} : SumFunctionOnSet(Ahead(s, m, a, other), Places(s)) \in Int
        BY <1>2, <1>4, AheadIsNumber
      <4> QED BY <3>1, <4>1, <4>2, <4>3
    <3>5. one.seen[u] <= s.bound BY <1>1, <2>2, <3>1
    <3> QED BY <1>2, <1>4, <3>1, <3>3, <3>4, <3>5 DEF Neighbours
  <2> HIDE DEF After
  <2> QED BY <1>4, <1>6, <2>1, <2>2
<1>7. ASSUME t.user # u PROVE Neighbours(s, users, u, one, two)
  <2>1. local.seen[t.user] = other.seen[t.user] /\ other.seen[t.user] \in Nat BY <1>1, <1>2, <1>3, <1>7
  <2>2. CASE one = local /\ two = other BY <2>2
  <2>3. CASE one = After(local) /\ two = After(other)
    <3>1. /\ \A w \in users \ {u} : one.seen[w] = two.seen[w]
          /\ one.seen[u] = local.seen[u]
      BY <1>1, <1>2, <1>3, <1>7, <2>3
    <3>2. \A j \in Counters(s) : /\ one.counts[j] = local.counts[j] + inc[j]
                                 /\ two.counts[j] = other.counts[j] + inc[j]
      BY <2>3
    <3>3. ASSUME NEW j \in Counters(s)
          PROVE  /\ two.counts[j] <= one.counts[j]
                 /\ one.counts[j] - two.counts[j] = local.counts[j] - other.counts[j]
      <4>1. local.counts[j] \in Int /\ other.counts[j] \in Int /\ inc[j] \in {0, 1}
            /\ other.counts[j] <= local.counts[j]
        BY <1>1, <1>2, <1>3
      <4> QED BY <3>2, <4>1
    <3>4. ASSUME NEW m \in MetricsOf(s) PROVE Ahead(s, m, one, two) = Ahead(s, m, local, other)
      <4>1. ASSUME NEW c \in Places(s)
            PROVE  one.counts[m * Cells(s) + c] - two.counts[m * Cells(s) + c]
                     = local.counts[m * Cells(s) + c] - other.counts[m * Cells(s) + c]
        <5>1. m * Cells(s) + c \in Counters(s) BY Placed
        <5> QED BY <3>3, <5>1
      <4> QED BY <4>1 DEF Ahead
    <3> QED BY <1>2, <1>4, <1>5, <3>1, <3>3, <3>4 DEF Neighbours
  <2>4. (one = local /\ two = other) \/ (one = After(local) /\ two = After(other))
    <3>1. ~(local.seen[t.user] >= s.bound /\ local.seen[t.user] < s.bound) BY <1>1, <2>1
    <3> HIDE DEF After
    <3> QED BY <1>4, <1>5, <2>1, <3>1
  <2> HIDE DEF After
  <2> QED BY <2>2, <2>3, <2>4
<1> QED BY <1>6, <1>7 DEF one, two

\* The recursion of the fold in Others, and what is kept after each turn.
Sifts(g, turns, u) ==
  g = [T \in SUBSET (DOMAIN turns) |->
         IF T = {} THEN <<>>
         ELSE IF turns[Max(T)].user = u THEN g[T \ {Max(T)}]
         ELSE Append(g[T \ {Max(T)}], turns[Max(T)])]

KeptInTurn(q, turns, u) ==
  /\ q \in [0..Len(turns) -> Seq(Range(turns))]
  /\ q[0] = <<>> /\ q[Len(turns)] = Others(turns, u)
  /\ \A k \in 0..(Len(turns) - 1) :
       q[k + 1] = IF turns[k + 1].user = u THEN q[k] ELSE Append(q[k], turns[k + 1])

LEMMA OthersInTurn ==
  ASSUME NEW turns, turns \in Seq(Range(turns)), NEW u
  PROVE  \E q : KeptInTurn(q, turns, u)
<1> DEFINE n == Len(turns)
           V == Seq(Range(turns))
           step == [p \in (1..n) \X V |-> IF turns[p[1]].user = u THEN p[2]
                                          ELSE Append(p[2], turns[p[1]])]
           c == CHOOSE g : Sifts(g, turns, u)
<1>1. n \in Nat /\ DOMAIN turns = 1..n /\ \A i \in 1..n : turns[i] \in Range(turns)
  BY DEF Range
<1>2. <<>> \in V OBVIOUS
<1>3. ASSUME NEW v \in V, NEW i \in 1..n
      PROVE  /\ Append(v, turns[i]) \in V
             /\ step[<<i, v>>] = IF turns[i].user = u THEN v ELSE Append(v, turns[i])
  <2>1. turns[i] \in Range(turns) BY <1>1
  <2>2. Append(v, turns[i]) \in V BY <2>1
  <2> HIDE DEF V, n
  <2> QED BY <2>2
<1>4. step \in [(1..n) \X V -> V]
  <2> HIDE DEF V, n
  <2>1. \A p \in (1..n) \X V : (IF turns[p[1]].user = u THEN p[2] ELSE Append(p[2], turns[p[1]])) \in V
    BY <1>3
  <2> QED BY <2>1
<1>5. PICK g \in [SUBSET (1..n) -> V] : Lefts(g, n, <<>>, step)
  <2> HIDE DEF V, step, n
  <2> QED BY <1>1, <1>2, <1>4, LeftExists
<1>6. Sifts(g, turns, u)
  <2>1. ASSUME NEW T \in SUBSET (1..n)
        PROVE  g[T] = IF T = {} THEN <<>>
                      ELSE IF turns[Max(T)].user = u THEN g[T \ {Max(T)}]
                      ELSE Append(g[T \ {Max(T)}], turns[Max(T)])
    <3>1. g[T] = IF T = {} THEN <<>> ELSE step[<<Max(T), g[T \ {Max(T)}]>>] BY <1>5 DEF Lefts
    <3> HIDE DEF step, V
    <3>2. CASE T # {}
      <4>1. Max(T) \in T BY <1>1, <3>2, MaxOfIndices
      <4>2. Max(T) \in 1..n /\ g[T \ {Max(T)}] \in V BY <4>1
      <4> HIDE DEF n
      <4> QED BY <1>3, <3>1, <3>2, <4>2
    <3> QED BY <3>1, <3>2
  <2> HIDE DEF n, step, V
  <2> QED BY <1>1, <2>1 DEF Sifts
<1>7. Sifts(c, turns, u) BY <1>6, Zenon
<1>8. Others(turns, u) = c[DOMAIN turns]
  BY Zenon DEF Others, FoldLeft, MapThenFoldSet, Sifts
<1> HIDE DEF c, step, V
<1>9. c[{}] = <<>>
  <2>1. {} \in SUBSET (DOMAIN turns) OBVIOUS
  <2> QED BY <1>7, <2>1 DEF Sifts
<1>10. ASSUME NEW T \in SUBSET (1..n), T # {}, c[T \ {Max(T)}] \in V
       PROVE  c[T] = step[<<Max(T), c[T \ {Max(T)}]>>]
  <2>1. Max(T) \in 1..n BY <1>1, <1>10, MaxOfIndices
  <2>2. c[T] = IF turns[Max(T)].user = u THEN c[T \ {Max(T)}]
               ELSE Append(c[T \ {Max(T)}], turns[Max(T)])
    BY <1>1, <1>7, <1>10 DEF Sifts
  <2> HIDE DEF n
  <2> QED BY <1>3, <1>10, <2>1, <2>2
<1>11. PICK h : Stepwise(h, n, V, <<>>, step) /\ h[n] = c[1..n]
  <2>1. Folded(c, n, V, <<>>, step) BY <1>9, <1>10 DEF Folded
  <2> HIDE DEF n
  <2>2. n \in Nat BY <1>1
  <2>3. InSteps(c, n, V, <<>>, step) BY <1>2, <1>4, <2>1, <2>2, FoldedInTurn
  <2> QED BY <2>3 DEF InSteps
<1>12. ASSUME NEW k \in 0..(n - 1)
       PROVE  h[k + 1] = IF turns[k + 1].user = u THEN h[k] ELSE Append(h[k], turns[k + 1])
  <2>1. k + 1 \in 1..n /\ k \in 0..n /\ h[k] \in V BY <1>1, <1>11 DEF Stepwise
  <2> QED BY <1>3, <1>11, <2>1 DEF Stepwise
<1>13. h \in [0..n -> V] /\ h[0] = <<>> BY <1>11 DEF Stepwise
<1> QED BY <1>1, <1>8, <1>11, <1>12, <1>13 DEF KeptInTurn, V

Empty(s, users) == [counts |-> Nothing(Width(s)), seen |-> [u \in users |-> 0]]

\* The recursion of the fold in Binned, and what a node has after each turn.
Watches(g, s, users, turns) ==
  g = [T \in SUBSET (DOMAIN turns) |->
         IF T = {} THEN Empty(s, users) ELSE Observe(s, g[T \ {Max(T)}], turns[Max(T)])]

BinnedAfter(h, s, users, turns) ==
  /\ h \in [0..Len(turns) -> Local(s, users)]
  /\ h[0] = Empty(s, users) /\ Binned(s, users, turns) = h[Len(turns)].counts
  /\ \A k \in 0..(Len(turns) - 1) : h[k + 1] = Observe(s, h[k], turns[k + 1])

LEMMA BinnedInTurn ==
  ASSUME NEW s, Usable(s), NEW users, NEW turns, turns \in Seq(Range(turns)),
         \A i \in DOMAIN turns : Counted(users, turns[i])
  PROVE  \E h : BinnedAfter(h, s, users, turns)
<1> DEFINE n == Len(turns)
           V == Local(s, users)
           base == Empty(s, users)
           step == [p \in (1..n) \X V |-> Observe(s, p[2], turns[p[1]])]
           c == CHOOSE g : Watches(g, s, users, turns)
<1>1. n \in Nat /\ DOMAIN turns = 1..n OBVIOUS
<1>2. base \in V BY DEF Empty, Nothing, Local, Counters
<1>3. ASSUME NEW v \in V, NEW i \in 1..n
      PROVE  Observe(s, v, turns[i]) \in V /\ step[<<i, v>>] = Observe(s, v, turns[i])
  <2>1. Observe(s, v, turns[i]) \in V BY <1>1, ObserveStep
  <2> HIDE DEF V, n
  <2> QED BY <2>1
<1>4. step \in [(1..n) \X V -> V]
  <2> HIDE DEF V, n
  <2>1. \A p \in (1..n) \X V : Observe(s, p[2], turns[p[1]]) \in V BY <1>3
  <2> QED BY <2>1
<1> HIDE DEF V, base
<1>5. PICK g \in [SUBSET (1..n) -> V] : Lefts(g, n, base, step)
  <2> HIDE DEF step, n
  <2> QED BY <1>1, <1>2, <1>4, LeftExists
<1>6. Watches(g, s, users, turns)
  <2>1. ASSUME NEW T \in SUBSET (1..n)
        PROVE  g[T] = IF T = {} THEN base ELSE Observe(s, g[T \ {Max(T)}], turns[Max(T)])
    <3>1. g[T] = IF T = {} THEN base ELSE step[<<Max(T), g[T \ {Max(T)}]>>] BY <1>5 DEF Lefts
    <3> HIDE DEF step
    <3>2. CASE T # {}
      <4>1. Max(T) \in T BY <1>1, <3>2, MaxOfIndices
      <4>2. Max(T) \in 1..n /\ g[T \ {Max(T)}] \in V BY <4>1
      <4> HIDE DEF n
      <4> QED BY <1>3, <3>1, <3>2, <4>2
    <3> QED BY <3>1, <3>2
  <2> HIDE DEF n, step
  <2> QED BY <1>1, <2>1 DEF Watches, base
<1>7. Watches(c, s, users, turns) BY <1>6, Zenon
<1>8. Binned(s, users, turns) = c[DOMAIN turns].counts
  BY Zenon DEF Binned, Empty, FoldLeft, MapThenFoldSet, Watches
<1> HIDE DEF c, step
<1>9. c[{}] = base
  <2>1. {} \in SUBSET (DOMAIN turns) OBVIOUS
  <2> QED BY <1>7, <2>1 DEF Watches, base
<1>10. ASSUME NEW T \in SUBSET (1..n), T # {}, c[T \ {Max(T)}] \in V
       PROVE  c[T] = step[<<Max(T), c[T \ {Max(T)}]>>]
  <2>1. Max(T) \in 1..n BY <1>1, <1>10, MaxOfIndices
  <2>2. c[T] = Observe(s, c[T \ {Max(T)}], turns[Max(T)]) BY <1>1, <1>7, <1>10 DEF Watches
  <2> HIDE DEF n
  <2> QED BY <1>3, <1>10, <2>1, <2>2
<1>11. PICK h : Stepwise(h, n, V, base, step) /\ h[n] = c[1..n]
  <2>1. Folded(c, n, V, base, step) BY <1>9, <1>10 DEF Folded
  <2> HIDE DEF n
  <2>2. n \in Nat BY <1>1
  <2>3. InSteps(c, n, V, base, step) BY <1>2, <1>4, <2>1, <2>2, FoldedInTurn
  <2> QED BY <2>3 DEF InSteps
<1>12. ASSUME NEW k \in 0..(n - 1) PROVE h[k + 1] = Observe(s, h[k], turns[k + 1])
  <2>1. k + 1 \in 1..n /\ k \in 0..n /\ h[k] \in V BY <1>1, <1>11 DEF Stepwise
  <2> QED BY <1>3, <1>11, <2>1 DEF Stepwise
<1>13. h \in [0..n -> V] /\ h[0] = base BY <1>11 DEF Stepwise
<1> QED BY <1>1, <1>8, <1>11, <1>12, <1>13 DEF BinnedAfter, V, base

LEMMA LearnedStep ==
  ASSUME NEW s, NEW users, NEW t, Counted(users, t), NEW w, NEW g \in [0..Cells(s) -> Int]
  PROVE  Learned(s, w, g, t) \in [0..Cells(s) -> Int]
<1> DEFINE features == Features(s, t.signal)
           moved == [j \in 0..Cells(s) |-> t.error * features[j]]
<1>1. \A j \in 0..Cells(s) : features[j] \in {0, 1} BY DEF Features
<1>2. t.error \in Int BY DEF Counted
<1>3. \A j \in 0..Cells(s) : moved[j] \in Int /\ g[j] + moved[j] \in Int
  <2> TAKE j \in 0..Cells(s)
  <2> HIDE DEF features
  <2>1. features[j] \in {0, 1} /\ g[j] \in Int BY <1>1
  <2>2. t.error * features[j] \in Int BY <1>2, <2>1
  <2> QED BY <2>1, <2>2
<1>4. Learned(s, w, g, t) = IF t.user # w THEN g ELSE [j \in 0..Cells(s) |-> g[j] + moved[j]]
  BY DEF Learned, Added
<1> HIDE DEF moved
<1> QED BY <1>3, <1>4

\* The recursion of the fold in Gradient, and the gradient after each turn.
Learns(g, s, w, turns) ==
  g = [T \in SUBSET (DOMAIN turns) |->
         IF T = {} THEN Nothing(Cells(s) + 1) ELSE Learned(s, w, g[T \ {Max(T)}], turns[Max(T)])]

GradientAfter(h, s, w, turns) ==
  /\ h \in [0..Len(turns) -> [0..Cells(s) -> Int]]
  /\ h[0] = Nothing(Cells(s) + 1) /\ Gradient(s, w, turns) = h[Len(turns)]
  /\ \A k \in 0..(Len(turns) - 1) : h[k + 1] = Learned(s, w, h[k], turns[k + 1])

LEMMA GradientInTurn ==
  ASSUME NEW s, Usable(s), NEW users, NEW w, NEW turns, turns \in Seq(Range(turns)),
         \A i \in DOMAIN turns : Counted(users, turns[i])
  PROVE  \E h : GradientAfter(h, s, w, turns)
<1> DEFINE n == Len(turns)
           V == [0..Cells(s) -> Int]
           base == Nothing(Cells(s) + 1)
           step == [p \in (1..n) \X V |-> Learned(s, w, p[2], turns[p[1]])]
           c == CHOOSE g : Learns(g, s, w, turns)
<1>1. n \in Nat /\ DOMAIN turns = 1..n OBVIOUS
<1>2. base \in V BY DEF Nothing, Usable
<1>3. ASSUME NEW v \in V, NEW i \in 1..n
      PROVE  Learned(s, w, v, turns[i]) \in V /\ step[<<i, v>>] = Learned(s, w, v, turns[i])
  <2>1. Learned(s, w, v, turns[i]) \in V 
    BY <1>1, LearnedStep
  <2> HIDE DEF V, n
  <2> QED BY <2>1
<1>4. step \in [(1..n) \X V -> V]
  <2> HIDE DEF V, n
  <2>1. \A p \in (1..n) \X V : Learned(s, w, p[2], turns[p[1]]) \in V BY <1>3
  <2> QED BY <2>1
<1> HIDE DEF V, base
<1>5. PICK g \in [SUBSET (1..n) -> V] : Lefts(g, n, base, step)
  <2> HIDE DEF step, n
  <2> QED BY <1>1, <1>2, <1>4, LeftExists
<1>6. Learns(g, s, w, turns)
  <2>1. ASSUME NEW T \in SUBSET (1..n)
        PROVE  g[T] = IF T = {} THEN base ELSE Learned(s, w, g[T \ {Max(T)}], turns[Max(T)])
    <3>1. g[T] = IF T = {} THEN base ELSE step[<<Max(T), g[T \ {Max(T)}]>>] BY <1>5 DEF Lefts
    <3> HIDE DEF step
    <3>2. CASE T # {}
      <4>1. Max(T) \in T BY <1>1, <3>2, MaxOfIndices
      <4>2. Max(T) \in 1..n /\ g[T \ {Max(T)}] \in V BY <4>1
      <4> HIDE DEF n
      <4> QED BY <1>3, <3>1, <3>2, <4>2
    <3> QED BY <3>1, <3>2
  <2> HIDE DEF n, step
  <2> QED BY <1>1, <2>1 DEF Learns, base
<1>7. Learns(c, s, w, turns) BY <1>6, Zenon
<1>8. Gradient(s, w, turns) = c[DOMAIN turns]
  BY Zenon DEF Gradient, FoldLeft, MapThenFoldSet, Learns
<1> HIDE DEF c, step
<1>9. c[{}] = base
  <2>1. {} \in SUBSET (DOMAIN turns) OBVIOUS
  <2> QED BY <1>7, <2>1 DEF Learns, base
<1>10. ASSUME NEW T \in SUBSET (1..n), T # {}, c[T \ {Max(T)}] \in V
       PROVE  c[T] = step[<<Max(T), c[T \ {Max(T)}]>>]
  <2>1. Max(T) \in 1..n BY <1>1, <1>10, MaxOfIndices
  <2>2. c[T] = Learned(s, w, c[T \ {Max(T)}], turns[Max(T)]) BY <1>1, <1>7, <1>10 DEF Learns
  <2> HIDE DEF n
  <2> QED BY <1>3, <1>10, <2>1, <2>2
<1>11. PICK h : Stepwise(h, n, V, base, step) /\ h[n] = c[1..n]
  <2>1. Folded(c, n, V, base, step) BY <1>9, <1>10 DEF Folded
  <2> HIDE DEF n
  <2>2. n \in Nat BY <1>1
  <2>3. InSteps(c, n, V, base, step) BY <1>2, <1>4, <2>1, <2>2, FoldedInTurn
  <2> QED BY <2>3 DEF InSteps
<1>12. ASSUME NEW k \in 0..(n - 1) PROVE h[k + 1] = Learned(s, w, h[k], turns[k + 1])
  <2>1. k + 1 \in 1..n /\ k \in 0..n /\ h[k] \in V BY <1>1, <1>11 DEF Stepwise
  <2> QED BY <1>3, <1>11, <2>1 DEF Stepwise
<1>13. h \in [0..n -> V] /\ h[0] = base BY <1>11 DEF Stepwise
<1> QED BY <1>1, <1>8, <1>11, <1>12, <1>13 DEF GradientAfter, V, base

\* How many of the first k turns are not u's: the turns of the others are found, in
\* their order, at these places of what is kept.
Counting(at, turns, kept, u) ==
  /\ at \in [0..Len(turns) -> 0..Len(kept)]
  /\ at[0] = 0 /\ at[Len(turns)] = Len(kept)
  /\ \A k \in 0..(Len(turns) - 1) :
       IF turns[k + 1].user = u THEN at[k + 1] = at[k]
       ELSE /\ at[k + 1] = at[k] + 1 /\ kept[at[k] + 1] = turns[k + 1]

LEMMA OthersCounted ==
  ASSUME NEW turns, turns \in Seq(Range(turns)), NEW u, NEW kept, kept = Others(turns, u)
  PROVE  /\ kept \in Seq(Range(turns))
         /\ \A i \in DOMAIN kept : kept[i].user # u
         /\ \E at : Counting(at, turns, kept, u)
<1> DEFINE n == Len(turns)
           V == Seq(Range(turns))
<1>1. n \in Nat OBVIOUS
<1>2. PICK q : KeptInTurn(q, turns, u) BY OthersInTurn
<1>3. /\ q \in [0..n -> V] /\ q[0] = <<>> /\ q[n] = kept
      /\ \A k \in 0..(n - 1) :
           q[k + 1] = IF turns[k + 1].user = u THEN q[k] ELSE Append(q[k], turns[k + 1])
  BY <1>2 DEF KeptInTurn
<1>4. \A k \in 0..(n - 1) : k \in 0..n /\ k + 1 \in 0..n /\ turns[k + 1] \in Range(turns)
  BY <1>1 DEF Range
<1>5. ASSUME NEW k \in 0..(n - 1)
      PROVE  IF turns[k + 1].user = u THEN q[k + 1] = q[k]
             ELSE /\ Len(q[k + 1]) = Len(q[k]) + 1 /\ q[k + 1][Len(q[k]) + 1] = turns[k + 1]
                  /\ \A i \in 1..Len(q[k]) : q[k + 1][i] = q[k][i]
  <2>1. q[k] \in V /\ turns[k + 1] \in Range(turns) BY <1>3, <1>4
  <2>2. q[k + 1] = IF turns[k + 1].user = u THEN q[k] ELSE Append(q[k], turns[k + 1]) BY <1>3
  <2> HIDE DEF n
  <2> QED BY <2>1, <2>2
\* What is kept after k turns is the beginning of what is kept in the end.
<1> DEFINE Begins(k) == /\ Len(q[k]) \in 0..Len(kept)
                        /\ \A i \in 1..Len(q[k]) : kept[i] = q[k][i]
           P == {d \in 0..n : Begins(n - d)}
<1>6. \A k \in 0..n : Len(q[k]) \in Nat /\ q[k] \in V BY <1>3
<1>7. 0 \in P
  <2>1. q[n - 0] = kept /\ Len(kept) \in Nat BY <1>1, <1>3, <1>6
  <2> HIDE DEF n
  <2> QED BY <1>1, <2>1
<1>8. ASSUME NEW d \in 0..(n - 1), d \in P PROVE d + 1 \in P
  <2> DEFINE k == n - (d + 1)
  <2>1. k \in 0..(n - 1) /\ k + 1 = n - d /\ d + 1 \in 0..n /\ k \in 0..n BY <1>1
  <2>2. Begins(k + 1) BY <1>8, <2>1
  <2> HIDE DEF n, k
  <2>3. Len(q[k]) \in Nat /\ Len(kept) \in Nat BY <1>1, <1>3, <1>6, <2>1
  <2>4. Begins(k)
    <3>1. CASE turns[k + 1].user = u
      <4>1. q[k + 1] = q[k] BY <1>5, <2>1, <3>1
      <4> QED BY <2>2, <4>1
    <3>2. CASE turns[k + 1].user # u
      <4>1. /\ Len(q[k + 1]) = Len(q[k]) + 1
            /\ \A i \in 1..Len(q[k]) : q[k + 1][i] = q[k][i]
        BY <1>5, <2>1, <3>2
      <4> QED BY <2>2, <2>3, <4>1
    <3> QED BY <3>1, <3>2
  <2> HIDE DEF Begins
  <2> QED BY <2>1, <2>4 DEF k
<1>9. ASSUME NEW k \in 0..n PROVE Begins(k)
  <2>1. \A d \in 0..n : d \in P
    <3> HIDE DEF P, n
    <3> QED BY <1>1, <1>7, <1>8, UpTo
  <2>2. n - k \in 0..n /\ n - (n - k) = k BY <1>1
  <2>3. n - k \in P BY <2>1, <2>2
  <2> HIDE DEF Begins, n
  <2> QED BY <2>2, <2>3
\* None of them is u's.
<1> DEFINE Q == {k \in 0..n : \A i \in DOMAIN q[k] : q[k][i].user # u}
<1>10. 0 \in Q BY <1>1, <1>3
<1>11. ASSUME NEW k \in 0..(n - 1), k \in Q PROVE k + 1 \in Q
  <2>1. DOMAIN q[k] = 1..Len(q[k]) /\ DOMAIN q[k + 1] = 1..Len(q[k + 1]) /\ Len(q[k]) \in Nat
    BY <1>4, <1>6
  <2>2. CASE turns[k + 1].user = u BY <1>4, <1>5, <1>11, <2>2
  <2>3. CASE turns[k + 1].user # u
    <3>1. /\ Len(q[k + 1]) = Len(q[k]) + 1 /\ q[k + 1][Len(q[k]) + 1] = turns[k + 1]
          /\ \A i \in 1..Len(q[k]) : q[k + 1][i] = q[k][i]
      BY <1>5, <2>3
    <3>2. ASSUME NEW i \in 1..(Len(q[k]) + 1) PROVE q[k + 1][i].user # u
      <4>1. i = Len(q[k]) + 1 \/ i \in 1..Len(q[k]) BY <2>1
      <4>2. \A m \in 1..Len(q[k]) : q[k][m].user # u BY <1>11, <2>1
      <4> QED BY <2>3, <3>1, <4>1, <4>2
    <3> QED BY <1>4, <2>1, <3>1, <3>2
  <2> QED BY <2>2, <2>3
<1>12. n \in Q
  <2>1. \A k \in 0..n : k \in Q
    <3> HIDE DEF Q, n
    <3> QED BY <1>1, <1>10, <1>11, UpTo
  <2> QED BY <1>1, <2>1
<1> DEFINE at == [k \in 0..n |-> Len(q[k])]
<1>13. Counting(at, turns, kept, u)
  <2>1. at \in [0..n -> 0..Len(kept)] BY <1>9
  <2>2. at[0] = 0 /\ at[n] = Len(kept) BY <1>1, <1>3
  <2>3. ASSUME NEW k \in 0..(n - 1)
        PROVE  IF turns[k + 1].user = u THEN at[k + 1] = at[k]
               ELSE /\ at[k + 1] = at[k] + 1 /\ kept[at[k] + 1] = turns[k + 1]
    <3>1. at[k] = Len(q[k]) /\ at[k + 1] = Len(q[k + 1]) /\ Len(q[k]) \in Nat BY <1>4, <1>6
    <3>2. Begins(k + 1) BY <1>4, <1>9
    <3> HIDE DEF at, n
    <3> QED BY <1>5, <3>1, <3>2
  <2> HIDE DEF at
  <2> QED BY <2>1, <2>2, <2>3 DEF Counting
<1>14. kept \in V /\ \A i \in DOMAIN kept : kept[i].user # u BY <1>1, <1>3, <1>12
<1> QED BY <1>13, <1>14

\* A sequence of turns that may be fed to a node.
Fed(users, turns) ==
  turns \in Seq(Range(turns)) /\ \A i \in DOMAIN turns : Counted(users, turns[i])

LEMMA FedWithout ==
  ASSUME NEW users, NEW turns, Fed(users, turns), NEW u, NEW kept, kept = Others(turns, u)
  PROVE  Fed(users, kept)
<1>1. turns \in Seq(Range(turns)) BY DEF Fed
<1>2. kept \in Seq(Range(turns)) BY <1>1, OthersCounted
<1>3. ASSUME NEW i \in DOMAIN kept PROVE Counted(users, kept[i])
  <2>1. kept[i] \in Range(turns) BY <1>2
  <2>2. PICK m \in DOMAIN turns : turns[m] = kept[i] BY <2>1 DEF Range
  <2>3. \A j \in DOMAIN turns : Counted(users, turns[j]) BY DEF Fed
  <2> QED BY <2>2, <2>3
<1>4. kept \in Seq(Range(kept)) BY <1>2 DEF Range
<1> QED BY <1>3, <1>4 DEF Fed

\* Had u's turns never happened, whatever was interleaved with them: the two nodes
\* are neighbours in the end.
LEMMA NeighboursAtLast ==
  ASSUME NEW s, Usable(s), NEW users, NEW turns, Fed(users, turns), NEW u \in users,
         NEW kept, kept = Others(turns, u)
  PROVE  \E local, other : /\ Neighbours(s, users, u, local, other)
                           /\ local.counts = Binned(s, users, turns)
                           /\ other.counts = Binned(s, users, kept)
<1>1. turns \in Seq(Range(turns)) /\ \A i \in DOMAIN turns : Counted(users, turns[i]) BY DEF Fed
<1>2. Fed(users, kept) BY FedWithout
<1>3. kept \in Seq(Range(kept)) /\ \A i \in DOMAIN kept : Counted(users, kept[i]) BY <1>2 DEF Fed
<1>4. PICK h : BinnedAfter(h, s, users, turns) BY <1>1, BinnedInTurn
<1>5. PICK g : BinnedAfter(g, s, users, kept) BY <1>3, BinnedInTurn
<1>6. PICK at : Counting(at, turns, kept, u) BY <1>1, OthersCounted
<1> DEFINE n == Len(turns)
           P == {k \in 0..n : Neighbours(s, users, u, h[k], g[at[k]])}
<1>7. n \in Nat /\ Len(kept) \in Nat /\ DOMAIN turns = 1..n /\ DOMAIN kept = 1..Len(kept)
  BY <1>1, <1>3
<1>8. 0 \in P
  <2>1. at[0] = 0 /\ h[0] = Empty(s, users) /\ g[0] = Empty(s, users)
    BY <1>4, <1>5, <1>6 DEF Counting, BinnedAfter
  <2>2. Empty(s, users) = [counts |-> [j \in Counters(s) |-> 0], seen |-> [w \in users |-> 0]]
    BY DEF Empty, Nothing, Counters
  <2>3. Neighbours(s, users, u, Empty(s, users), Empty(s, users)) BY <2>2, NeighboursAtFirst
  <2> QED BY <1>7, <2>1, <2>3
<1>9. ASSUME NEW k \in 0..(n - 1), k \in P PROVE k + 1 \in P
  <2> DEFINE t == turns[k + 1]
  <2>1. k \in 0..n /\ k + 1 \in 0..n /\ k + 1 \in DOMAIN turns BY <1>7
  <2>2. Counted(users, t) BY <1>1, <2>1
  <2>3. Neighbours(s, users, u, h[k], g[at[k]]) BY <1>9
  <2>4. h[k + 1] = Observe(s, h[k], t) BY <1>4 DEF BinnedAfter
  <2>5. g[at[k + 1]] = IF t.user = u THEN g[at[k]] ELSE Observe(s, g[at[k]], t)
    <3>1. at[k] \in 0..Len(kept) /\ at[k + 1] \in 0..Len(kept) BY <1>6, <2>1 DEF Counting
    <3>2. IF t.user = u THEN at[k + 1] = at[k]
          ELSE at[k + 1] = at[k] + 1 /\ kept[at[k] + 1] = t
      BY <1>6 DEF Counting
    <3>3. CASE t.user = u BY <3>2, <3>3
    <3>4. CASE t.user # u
      <4>1. at[k] \in 0..(Len(kept) - 1) BY <1>7, <3>1, <3>2, <3>4
      <4>2. g[at[k] + 1] = Observe(s, g[at[k]], kept[at[k] + 1]) BY <1>5, <4>1 DEF BinnedAfter
      <4> QED BY <3>2, <3>4, <4>2
    <3> QED BY <3>3, <3>4
  <2> HIDE DEF t
  <2>6. Neighbours(s, users, u, Observe(s, h[k], t),
                   IF t.user = u THEN g[at[k]] ELSE Observe(s, g[at[k]], t))
    BY <2>2, <2>3, InfluenceStep
  <2> QED BY <2>1, <2>4, <2>5, <2>6
<1>10. n \in P
  <2>1. \A k \in 0..n : k \in P
    <3> HIDE DEF P, n
    <3> QED BY <1>7, <1>8, <1>9, UpTo
  <2> QED BY <1>7, <2>1
<1>11. h[n].counts = Binned(s, users, turns) /\ g[Len(kept)].counts = Binned(s, users, kept)
       /\ at[n] = Len(kept)
  BY <1>4, <1>5, <1>6 DEF BinnedAfter, Counting
<1> QED BY <1>10, <1>11

\* The gradients of the others are what they were, and u has none.
LEMMA GradientsWithout ==
  ASSUME NEW s, Usable(s), NEW users, NEW turns, Fed(users, turns), NEW u,
         NEW kept, kept = Others(turns, u), NEW w
  PROVE  /\ Gradient(s, w, turns) \in [0..Cells(s) -> Int]
         /\ Gradient(s, w, kept) = IF w = u THEN Nothing(Cells(s) + 1) ELSE Gradient(s, w, turns)
<1>1. turns \in Seq(Range(turns)) /\ \A i \in DOMAIN turns : Counted(users, turns[i]) BY DEF Fed
<1>2. Fed(users, kept) BY FedWithout
<1>3. kept \in Seq(Range(kept)) /\ \A i \in DOMAIN kept : Counted(users, kept[i]) BY <1>2 DEF Fed
<1>4. PICK h : GradientAfter(h, s, w, turns) BY <1>1, GradientInTurn
<1>5. PICK g : GradientAfter(g, s, w, kept) BY <1>3, GradientInTurn
<1> DEFINE n == Len(turns)
           m == Len(kept)
<1>7. n \in Nat /\ m \in Nat /\ DOMAIN turns = 1..n /\ DOMAIN kept = 1..m BY <1>1, <1>3
<1>8. /\ h \in [0..n -> [0..Cells(s) -> Int]] /\ h[n] = Gradient(s, w, turns)
      /\ g[m] = Gradient(s, w, kept)
      /\ h[0] = Nothing(Cells(s) + 1) /\ g[0] = Nothing(Cells(s) + 1)
  BY <1>4, <1>5 DEF GradientAfter
<1>9. CASE w = u
  <2> DEFINE Q == {k \in 0..m : g[k] = Nothing(Cells(s) + 1)}
  <2>1. 0 \in Q BY <1>7, <1>8
  <2>2. ASSUME NEW k \in 0..(m - 1), k \in Q PROVE k + 1 \in Q
    <3>1. k + 1 \in DOMAIN kept /\ k + 1 \in 0..m BY <1>7
    <3>2. kept[k + 1].user # w BY <1>1, <1>9, <3>1, OthersCounted
    <3>3. g[k + 1] = Learned(s, w, g[k], kept[k + 1]) BY <1>5 DEF GradientAfter
    <3>4. g[k + 1] = g[k] BY <3>2, <3>3 DEF Learned
    <3> QED BY <2>2, <3>1, <3>4
  <2>3. \A k \in 0..m : k \in Q
    <3> HIDE DEF Q, m
    <3> QED BY <1>7, <2>1, <2>2, UpTo
  <2>4. m \in Q BY <1>7, <2>3
  <2> QED BY <1>7, <1>8, <1>9, <2>4
<1>10. CASE w # u
  <2>1. PICK at : Counting(at, turns, kept, u) BY <1>1, OthersCounted
  <2> DEFINE P == {k \in 0..n : h[k] = g[at[k]]}
  <2>2. 0 \in P
    <3>1. at[0] = 0 BY <2>1 DEF Counting
    <3> QED BY <1>7, <1>8, <3>1
  <2>3. ASSUME NEW k \in 0..(n - 1), k \in P PROVE k + 1 \in P
    <3> DEFINE t == turns[k + 1]
    <3>1. k \in 0..n /\ k + 1 \in 0..n BY <1>7
    <3>2. h[k + 1] = Learned(s, w, h[k], t) BY <1>4 DEF GradientAfter
    <3>3. at[k] \in 0..m /\ at[k + 1] \in 0..m BY <2>1, <3>1 DEF Counting
    <3>4. IF t.user = u THEN at[k + 1] = at[k]
          ELSE at[k + 1] = at[k] + 1 /\ kept[at[k] + 1] = t
      BY <2>1 DEF Counting
    <3> HIDE DEF t, m
    <3>5. CASE t.user = u
      <4>1. h[k + 1] = h[k] BY <1>10, <3>2, <3>5 DEF Learned
      <4> QED BY <2>3, <3>1, <3>4, <3>5, <4>1
    <3>6. CASE t.user # u
      <4>1. at[k] \in 0..(m - 1) BY <1>7, <3>3, <3>4, <3>6
      <4>2. g[at[k] + 1] = Learned(s, w, g[at[k]], kept[at[k] + 1])
        BY <1>5, <4>1 DEF GradientAfter, m
      <4> QED BY <2>3, <3>1, <3>2, <3>4, <3>6, <4>2
    <3> QED BY <3>5, <3>6
  <2>4. n \in P
    <3>1. \A k \in 0..n : k \in P
      <4> HIDE DEF P, n
      <4> QED BY <1>7, <2>2, <2>3, UpTo
    <3> QED BY <1>7, <3>1
  <2>5. at[n] = m BY <2>1 DEF Counting
  <2> QED BY <1>7, <1>8, <1>10, <2>4, <2>5
<1> QED BY <1>7, <1>8, <1>9, <1>10

LEMMA SquareIsNatural == \A n \in Int : n * n \in Nat
<1> SUFFICES ASSUME NEW n \in Int PROVE n * n \in Nat OBVIOUS
<1>1. CASE n >= 0 BY <1>1
<1>2. CASE n < 0
  <2>1. -n \in Nat /\ (-n) * (-n) = n * n BY <1>2
  <2> QED BY <2>1
<1> QED BY <1>1, <1>2

\* A clipped gradient is no longer than the clip norm.
LEMMA ClippedIsShort ==
  ASSUME NEW S, IsFiniteSet(S), NEW v \in [S -> Int], NEW clip \in Nat
  PROVE  /\ Clipped(v, clip) \in [S -> Int]
         /\ Square(Clipped(v, clip)) <= clip * clip
<1> DEFINE N == Square(v)
           C == clip * clip
           fits(j) == {c \in 0..clip : c * c * N <= v[j] * v[j] * C}
           scaled == [j \in S |-> Max(fits(j))]
           short == [j \in S |-> IF v[j] < 0 THEN -scaled[j] ELSE scaled[j]]
           squares == [j \in S |-> v[j] * v[j]]
           ends == [j \in S |-> short[j] * short[j]]
           left == [j \in S |-> N * ends[j]]
           right == [j \in S |-> C * squares[j]]
<1>1. \A j \in S : v[j] \in Int /\ v[j] * v[j] \in Nat
  <2> TAKE j \in S
  <2>1. v[j] \in Int OBVIOUS
  <2> QED BY <2>1, SquareIsNatural
<1>2. N = SumFunctionOnSet(squares, S) BY DEF Square
<1>3. \A j \in S : squares[j] \in Nat BY <1>1
<1>4. N \in Nat
  <2> HIDE DEF squares, N
  <2> QED BY <1>2, <1>3, SumNatural
<1>5. C \in Nat BY SquareIsNatural
<1>6. Clipped(v, clip) = IF N <= C THEN v ELSE short
  BY DEF Clipped
<1>7. CASE N <= C BY <1>6, <1>7
<1>8. CASE ~(N <= C)
  <2> HIDE DEF N, C
  <2>1. ASSUME NEW j \in S
        PROVE  scaled[j] \in Nat /\ scaled[j] * scaled[j] * N <= v[j] * v[j] * C
    <3>1. 0 \in fits(j)
      <4>1. v[j] * v[j] * C \in Nat BY <1>1, <1>5
      <4>2. 0 * 0 * N = 0 BY <1>4
      <4> QED BY <4>1, <4>2
    <3>2. fits(j) \in SUBSET Nat /\ \A x \in fits(j) : x <= clip OBVIOUS
    <3>3. Max(fits(j)) \in fits(j)
      <4> DEFINE F == fits(j)
      <4> HIDE DEF fits
      <4>1. F \in SUBSET Nat /\ F # {} /\ \A x \in F : x <= clip BY <3>1, <3>2
      <4> HIDE DEF F
      <4>2. Max(F) \in F BY <4>1, MaxExists
      <4> QED BY <4>2 DEF F
    <3>4. scaled[j] \in fits(j)
      <4> HIDE DEF fits
      <4> QED BY <3>3
    <3> HIDE DEF scaled
    <3> QED BY <3>4
  <2> HIDE DEF scaled
  <2>2. ASSUME NEW j \in S PROVE short[j] \in Int /\ ends[j] = scaled[j] * scaled[j]
    <3>1. scaled[j] \in Nat /\ short[j] = IF v[j] < 0 THEN -scaled[j] ELSE scaled[j] BY <2>1
    <3>2. ends[j] = short[j] * short[j] OBVIOUS
    <3>3. (-scaled[j]) * (-scaled[j]) = scaled[j] * scaled[j] /\ -scaled[j] \in Int BY <3>1
    <3> HIDE DEF short, ends
    <3> QED BY <3>1, <3>2, <3>3
  <2>3. ASSUME NEW j \in S
        PROVE  /\ ends[j] \in Int /\ squares[j] \in Int
               /\ left[j] \in Int /\ right[j] \in Int /\ left[j] <= right[j]
    <3>1. ends[j] = scaled[j] * scaled[j] /\ scaled[j] \in Nat BY <2>1, <2>2
    <3>2. squares[j] = v[j] * v[j] /\ v[j] * v[j] \in Nat BY <1>1
    <3>3. left[j] = N * ends[j] /\ right[j] = C * squares[j] OBVIOUS
    <3>4. scaled[j] * scaled[j] * N <= v[j] * v[j] * C BY <2>1
    <3> DEFINE a == scaled[j] * scaled[j]
               b == v[j] * v[j]
    <3>5. a \in Int /\ b \in Int BY <3>1, <3>2
    <3> HIDE DEF ends, squares, left, right, a, b
    <3>6. a * N = N * a /\ b * C = C * b BY <1>4, <1>5, <3>5
    <3>7. left[j] = N * a /\ right[j] = C * b BY <3>1, <3>2, <3>3 DEF a, b
    <3>8. a * N <= b * C BY <3>4 DEF a, b
    <3>9. N * a \in Int /\ C * b \in Int BY <1>4, <1>5, <3>5
    <3> QED BY <3>1, <3>2, <3>5, <3>6, <3>7, <3>8, <3>9 DEF a, b
  <2> DEFINE A == SumFunctionOnSet(ends, S)
  <2>4. (\A j \in S : left[j] = N * ends[j]) /\ (\A j \in S : right[j] = C * squares[j]) OBVIOUS
  <2> HIDE DEF ends, squares, left, right
  <2>5. A \in Int BY <2>3, SumType
  <2>6. SumFunctionOnSet(left, S) = N * A BY <1>4, <2>3, <2>4, SumTimes
  <2>7. SumFunctionOnSet(right, S) = C * N BY <1>2, <1>5, <2>3, <2>4, SumTimes
  <2>8. SumFunctionOnSet(left, S) <= SumFunctionOnSet(right, S) BY <2>3, SumAtMost
  <2>9. A <= C
    <3> HIDE DEF A
    <3> SUFFICES ASSUME A >= C + 1 PROVE FALSE BY <1>5, <2>5
    <3>1. N * A >= N * (C + 1) BY <1>4, <1>5, <2>5
    <3>2. N * (C + 1) = C * N + N BY <1>4, <1>5
    <3>3. N > 0 BY <1>4, <1>5, <1>8
    <3>4. N * A \in Int /\ C * N \in Int BY <1>4, <1>5, <2>5
    <3> QED BY <1>4, <2>6, <2>7, <2>8, <3>1, <3>2, <3>3, <3>4
  <2>10. Square(short) = A BY DEF Square, ends
  <2>11. short \in [S -> Int] BY <2>2
  <2> HIDE DEF short, A
  <2> QED BY <1>6, <1>8, <2>9, <2>10, <2>11 DEF C
<1> QED BY <1>7, <1>8

\* No gradient, nothing to clip.
LEMMA ClippedNothing ==
  ASSUME NEW S, IsFiniteSet(S), NEW v, v = [j \in S |-> 0], NEW clip \in Nat
  PROVE  Clipped(v, clip) = v
<1> DEFINE squares == [j \in S |-> v[j] * v[j]]
<1>1. \A j \in S : squares[j] = 0 OBVIOUS
<1>2. Square(v) = SumFunctionOnSet(squares, S) BY DEF Square
<1> HIDE DEF squares
<1>3. SumFunctionOnSet(squares, S) = 0 * Cardinality(S) BY <1>1, SumConstant
<1>4. 0 * Cardinality(S) = 0 BY FS_CardinalityType
<1>5. clip * clip \in Nat BY SquareIsNatural
<1> QED BY <1>2, <1>3, <1>4, <1>5 DEF Clipped

\* Without u's turns, the update lacks u's clipped gradient and nothing else.
LEMMA UpdateWithout ==
  ASSUME NEW s, Usable(s), NEW users, IsFiniteSet(users), NEW turns, Fed(users, turns),
         NEW u \in users, NEW kept, kept = Others(turns, u), NEW clip \in Nat,
         NEW j \in 0..Cells(s)
  PROVE  Update(s, users, turns, clip)[j] - Update(s, users, kept, clip)[j]
           = Clipped(Gradient(s, u, turns), clip)[j]
<1> DEFINE S == 0..Cells(s)
           before == [w \in users |-> Clipped(Gradient(s, w, turns), clip)]
           after == [w \in users |-> Clipped(Gradient(s, w, kept), clip)]
           f == [w \in users |-> before[w][j]]
           e == [w \in users |-> after[w][j]]
<1>1. IsFiniteSet(S) BY PlacesFinite
<1>2. \A w : /\ Gradient(s, w, turns) \in [S -> Int]
             /\ Gradient(s, w, kept) = IF w = u THEN Nothing(Cells(s) + 1) ELSE Gradient(s, w, turns)
  <2> TAKE w
  <2> HIDE DEF S
  <2> QED BY GradientsWithout DEF S
<1>3. Nothing(Cells(s) + 1) = [c \in S |-> 0] BY DEF Nothing, Usable
<1>4. Update(s, users, turns, clip)[j] = SumFunctionOnSet(f, users)
      /\ Update(s, users, kept, clip)[j] = SumFunctionOnSet(e, users)
  BY DEF Update
<1>5. \A w \in users : before[w] \in [S -> Int]
  <2> HIDE DEF S
  <2> QED BY <1>1, <1>2, ClippedIsShort
<1>6. \A w \in users \ {u} : after[w] = before[w] BY <1>2
<1>7. after[u] = [c \in S |-> 0]
  <2> DEFINE zero == [c \in S |-> 0]
  <2>1. Gradient(s, u, kept) = zero BY <1>2, <1>3
  <2>2. Clipped(zero, clip) = zero
    <3> HIDE DEF zero
    <3>1. zero = [c \in S |-> 0] BY DEF zero
    <3> HIDE DEF S
    <3> QED BY <1>1, <3>1, ClippedNothing
  <2> HIDE DEF zero, S
  <2>3. after[u] = Clipped(Gradient(s, u, kept), clip) OBVIOUS
  <2> QED BY <2>1, <2>2, <2>3 DEF zero
<1> HIDE DEF before, after
<1>8. \A w \in users : f[w] \in Int /\ e[w] \in Int
  <2> TAKE w \in users
  <2>1. before[w] \in [S -> Int] /\ j \in S BY <1>5
  <2>2. after[w] \in [S -> Int] BY <1>6, <1>7, <2>1
  <2> QED BY <2>1, <2>2
<1>9. e[u] = 0 /\ f[u] = before[u][j] /\ \A w \in users \ {u} : f[w] = e[w]
  BY <1>6, <1>7
<1> HIDE DEF f, e
<1>10. SumFunctionOnSet(e, users) = SumFunctionOnSet(f, users) - f[u] + e[u]
  BY <1>8, <1>9, SumChanged
<1>11. SumFunctionOnSet(f, users) \in Int /\ SumFunctionOnSet(e, users) \in Int BY <1>8, SumType
<1>12. before[u] = Clipped(Gradient(s, u, turns), clip) BY DEF before
<1>13. f[u] \in Int BY <1>8
<1> QED BY <1>4, <1>9, <1>10, <1>11, <1>12, <1>13

\* "Each user contributes at most contribution_bound events, which is what bounds
\* sensitivity": whatever a node was fed, the counters of one metric would be no
\* further than the bound, and the update no further than the clip norm, from what
\* they are had any one person's turns never happened.
THEOREM OnePersonBounded == SpecCalls => []InfluenceBounded
<1>1. Asked /\ AnswerRight => InfluenceBounded
  <2> SUFFICES ASSUME Asked, AnswerRight, Returned("aggregate"), answer.fault = "none",
                      NEW u \in People
               PROVE  LET local == answer.local
                          cells == Cells(call.spec)
                          rest == Without(u)
                          Of(v, m) == [c \in 0..(cells - 1) |-> v[m * cells + c]]
                          shift == [j \in DOMAIN local.update |-> local.update[j] - rest.update[j]]
                      IN  /\ \A m \in 0..(Len(Metrics(call.spec)) - 1) :
                               Moved(Of(local.counts, m), Of(rest.counts, m)) <= call.spec.bound
                          /\ Square(shift) <= GradientSpec.clip * GradientSpec.clip
    BY DEF InfluenceBounded
  <2> DEFINE s == call.spec
             turns == call.turns
             kept == Others(turns, u)
             clip == GradientSpec.clip
             local == answer.local
             rest == Without(u)
             Of(v, m) == [c \in 0..(Cells(s) - 1) |-> v[m * Cells(s) + c]]
             shift == [j \in DOMAIN local.update |-> local.update[j] - rest.update[j]]
             short == Clipped(Gradient(s, u, turns), clip)
  <2>1. AggregateCalled
    BY DEF Asked, Returned, AllocateCalled, EvaluateCalled, VerifyChainCalled, AssessCalled,
           ComposeCalled, AggregateCalled, ReleaseCalled
  <2>2. s \in Specs /\ turns \in Observed BY <2>1 DEF AggregateCalled
  <2>3. /\ answer = IF SpecFault(s) # "none" THEN [fault |-> SpecFault(s)]
                    ELSE [fault |-> "none", local |-> Locally(s, turns)]
    BY DEF AnswerRight
  <2>4. SpecFault(s) = "none" /\ local = Locally(s, turns) BY <2>3
  <2>5. /\ local.counts = Binned(s, People, turns)
        /\ local.update = Update(s, People, turns, clip)
        /\ rest.counts = Binned(s, People, kept)
        /\ rest.update = Update(s, People, kept, clip)
    BY <2>4 DEF Locally, Without
  <2>6. Usable(s)
    <3>1. Cells(s) \in Nat \ {0} /\ Metrics(s) \in Seq(Range(Metrics(s))) /\ s.bound \in Int
      BY <2>2, <2>4, CallsAssumption
    <3>2. s.bound >= 1 BY <2>4, <3>1 DEF SpecFault
    <3> QED BY <3>1, <3>2 DEF Usable, Width
  <2>7. Fed(People, turns) /\ IsFiniteSet(People) /\ clip \in Nat
    BY <2>2, CallsAssumption DEF Fed, Counted
  <2> HIDE DEF s, turns, kept, clip, local, rest
  <2>8. PICK one, two : /\ Neighbours(s, People, u, one, two)
                        /\ one.counts = local.counts /\ two.counts = rest.counts
    BY <2>5, <2>6, <2>7, NeighboursAtLast DEF kept
  <2>9. ASSUME NEW m \in MetricsOf(s) PROVE Moved(Of(local.counts, m), Of(rest.counts, m)) <= s.bound
    <3> DEFINE v == Of(local.counts, m)
               w == Of(rest.counts, m)
               moved == [j \in Places(s) |-> IF v[j] > w[j] THEN v[j] - w[j] ELSE w[j] - v[j]]
               ahead == Ahead(s, m, one, two)
    <3>1. Moved(v, w) = SumFunctionOnSet(moved, Places(s)) BY DEF Moved, Places
    <3>2. ASSUME NEW c \in Places(s) PROVE moved[c] \in Int /\ moved[c] = ahead[c]
      <4> DEFINE j == m * Cells(s) + c
      <4>1. j \in Counters(s) BY <2>6, Placed
      <4>2. two.counts[j] <= one.counts[j] /\ one \in Local(s, People) /\ two \in Local(s, People)
        BY <2>8, <4>1 DEF Neighbours
      <4>3. one.counts[j] \in Int /\ two.counts[j] \in Int BY <4>1, <4>2 DEF Local
      <4>4. v[c] = one.counts[j] /\ w[c] = two.counts[j] BY <2>8 DEF Places
      <4>5. ahead[c] = one.counts[j] - two.counts[j] BY DEF Ahead
      <4>6. moved[c] = IF v[c] > w[c] THEN v[c] - w[c] ELSE w[c] - v[c] OBVIOUS
      <4> HIDE DEF j, v, w, moved, ahead
      <4> QED BY <4>2, <4>3, <4>4, <4>5, <4>6
    <3>3. IsFiniteSet(Places(s)) BY <2>6, PlacesFinite
    <3> HIDE DEF moved, ahead
    <3>4. SumFunctionOnSet(moved, Places(s)) = SumFunctionOnSet(ahead, Places(s))
      BY <3>2, <3>3, SumSame
    <3>5. /\ SumFunctionOnSet(ahead, Places(s)) <= one.seen[u] /\ one.seen[u] <= s.bound
          /\ one \in Local(s, People) /\ two \in Local(s, People)
      BY <2>8 DEF Neighbours, ahead
    <3>6. SumFunctionOnSet(ahead, Places(s)) \in Int /\ one.seen[u] \in Int /\ s.bound \in Int
      <4>1. SumFunctionOnSet(ahead, Places(s)) \in Int BY <2>6, <3>5, AheadIsNumber DEF ahead
      <4>2. one.seen \in [People -> Nat] BY <3>5 DEF Local
      <4> QED BY <2>6, <4>1, <4>2 DEF Usable
    <3> HIDE DEF Of
    <3> QED BY <3>1, <3>4, <3>5, <3>6
  <2>10. Square(shift) <= clip * clip
    <3>1. DOMAIN local.update = 0..Cells(s) BY <2>5 DEF Update
    <3>2. ASSUME NEW j \in 0..Cells(s) PROVE local.update[j] - rest.update[j] = short[j]
      BY <2>5, <2>6, <2>7, UpdateWithout DEF kept
    <3>3. Gradient(s, u, turns) \in [0..Cells(s) -> Int] BY <2>6, <2>7, GradientsWithout
    <3>4. IsFiniteSet(0..Cells(s)) BY <2>6, PlacesFinite
    <3>5. short \in [0..Cells(s) -> Int] /\ Square(short) <= clip * clip
      BY <2>7, <3>3, <3>4, ClippedIsShort
    <3> HIDE DEF short
    <3>6. shift = short BY <3>1, <3>2, <3>5
    <3> HIDE DEF shift
    <3> QED BY <3>5, <3>6
  <2> QED BY <2>9, <2>10 DEF s, turns, kept, clip, local, rest, MetricsOf
<1> QED BY <1>1, Answered, PTL

=============================================================================
