----------------------------- MODULE Algorithms -----------------------------
(***************************************************************************)
(* The functions of the repository that keep no state, each called once    *)
(* per behaviour: the auction (AuctionCheck), or one of the calls below.   *)
(* `call` is the function called with its arguments, `answer` what it      *)
(* returned; both are None where they do not apply.                        *)
(***************************************************************************)
EXTENDS AuctionCheck, Pacing, Predicate, SupplyChain, Measurement, Integrity, Aggregate

CONSTANTS Nodes,                       \* entities that may be enrolled
          Deliveries,                  \* verified impressions a node may have
          Budgets, Prices, Fractions,
          Predicates, Signals,         \* functions from an index: their members
                                       \* are of different kinds
          Chains, Declarations,        \* supply chains, sets of declarations
          Batches,                     \* sequences of receipts
          Tokens,                      \* what texts are made of
          Answers, Decisions,          \* texts, and sequences of placements
          SurfaceRenderers,            \* what a surface may ask compose for
          Specs, GradientSpec, People, \* aggregation specs, and whose turns are binned
          Observed,                    \* sequences of turns
          Reports, Told                \* sequences of nodes' reports, and the live count
                                       \* they are told

ASSUME CallsAssumption ==
  /\ IsFiniteSet(Nodes) /\ Deliveries \subseteq Nat
  /\ Budgets \subseteq Nat /\ Prices \subseteq Int /\ Fractions \subseteq Nat \X (Nat \ {0})
  /\ \A p \in DOMAIN Predicates : IsPredicate(Predicates[p])
  /\ \A s \in DOMAIN Signals :
       /\ {"intents", "commercial", "risk", "value", "cached"} \subseteq DOMAIN Signals[s]
       /\ Signals[s].cached \in {Missing, Prepare(Signals[s]).cached}
  /\ \A b \in Batches : /\ b \in Seq(Range(b))
                        /\ \A i \in DOMAIN b : b[i].ms # Unreported => b[i].ms \in Int
  /\ \A c \in Chains : c.nodes \in Seq(Range(c.nodes))
  /\ {"nl", "sep"} \subseteq Tokens
  /\ Answers \subseteq Seq(Tokens) /\ Raises \notin Seq(Tokens)
  /\ \A p \in Decisions, r \in SurfaceRenderers :
       Shown(p) # <<>> => AdBlock(p, r) \in Seq(Tokens)
  /\ GradientSpec.participants \in Nat /\ GradientSpec.clip \in Nat
  /\ \A s \in Specs : /\ s.k \in Int /\ s.bound \in Int
                      /\ SpecFault(s) = "none" => /\ Cells(s) \in Nat \ {0}
                                                /\ Metrics(s) \in Seq(Range(Metrics(s)))
  /\ IsFiniteSet(People)
  /\ \A turns \in Observed :
       /\ turns \in Seq(Range(turns))
       /\ \A i \in DOMAIN turns : /\ turns[i].user \in People /\ turns[i].error \in Int
                                 /\ Range(turns[i].metrics) \subseteq {0, 1}
  /\ \A reports \in Reports :
       /\ reports \in Seq(Range(reports)) /\ reports # <<>>
       /\ LET cells == 0..(Cardinality(DOMAIN reports[1].vector) - 1)
          IN  \A i \in DOMAIN reports : /\ reports[i].vector \in [cells -> Int]
                                       /\ reports[i].noise \in [cells -> Int]
                                       /\ reports[i].mask \in [cells -> 0..(Modulus - 1)]

VARIABLES call, answer

calls == <<call, answer>>

Orders(S) == {f \in [1..Cardinality(S) -> S] : IsInjective(f)}

NoAuction ==
  /\ items = {} /\ result = None
  /\ turn = (CHOOSE t \in Turns : TRUE) /\ bundleFloor = (CHOOSE f \in Floors : TRUE)

AllocateCalled ==
  \E S \in SUBSET Nodes, b \in Budgets, p \in Prices, f \in Fractions :
    \E n \in [S -> Deliveries], o \in Orders(S) :
      call = [fn |-> "allocate", nodes |-> n, order |-> o, remaining |-> b,
              price |-> p, fraction |-> f]

EvaluateCalled ==
  \E p \in DOMAIN Predicates, s \in DOMAIN Signals :
    call = [fn |-> "evaluate", predicate |-> Predicates[p], signal |-> Signals[s]]

VerifyChainCalled ==
  \E c \in Chains, d \in Declarations :
    call = [fn |-> "verify_chain", chain |-> c, declarations |-> d]

AssessCalled == \E b \in Batches : call = [fn |-> "assess", receipts |-> b]

\* A surface shows `answer` under `shown`; the receipt commits to `committed`
\* and to the placements `issued`.
ComposeCalled ==
  \E a, b \in Answers, p, q \in Decisions, r \in SurfaceRenderers :
    call = [fn |-> "compose", committed |-> a, issued |-> p, answer |-> b, shown |-> q,
            renderer |-> r]

AggregateCalled ==
  \E s \in Specs, t \in Observed :
    call = [fn |-> "aggregate", spec |-> s, turns |-> t]

\* A report is the node's [vector, noise, mask]: its counters, or its update.
ReleaseCalled ==
  \E s \in Specs, r \in Reports, n \in Told :
    /\ SpecFault(s) = "none"
    /\ call = [fn |-> "release", spec |-> s, reports |-> r, told |-> n]

InitCalls ==
  \/ Init /\ call = None /\ answer = None
  \/ /\ NoAuction /\ answer = None
     /\ \/ AllocateCalled \/ EvaluateCalled \/ VerifyChainCalled \/ AssessCalled
        \/ ComposeCalled \/ AggregateCalled \/ ReleaseCalled

Locally(s, turns) ==
  [counts |-> Binned(s, People, turns), update |-> Update(s, People, turns, GradientSpec.clip)]

Auctioned == call = None /\ Run /\ UNCHANGED calls

Called(fn) == call # None /\ answer = None /\ call.fn = fn /\ UNCHANGED <<vars, call>>

ReturnSlices ==
  /\ Called("allocate")
  /\ answer' = Allocate(call.nodes, call.order, call.remaining, call.price, call.fraction)

ReturnEvaluation == Called("evaluate") /\ answer' = Readings(call.predicate, call.signal)

ReturnVerdict ==
  /\ Called("verify_chain")
  /\ answer' = VerifyChain(call.chain, call.declarations)

ReturnReport == Called("assess") /\ answer' = Assess(call.receipts)

ReturnComposition ==
  /\ Called("compose")
  /\ answer' = Compose(call.answer, call.shown, call.renderer)

\* What a node holds after those turns, before its noise; or the refusal.
ReturnAggregate ==
  /\ Called("aggregate")
  /\ answer' = IF SpecFault(call.spec) # "none" THEN [fault |-> SpecFault(call.spec)]
               ELSE [fault |-> "none", local |-> Locally(call.spec, call.turns)]

\* What aggregator a, 1 or 2, has when every node has sent it its share.
CollectedBy(a, reports) ==
  LET Shares(r) == SecretShare(Finalise(r.vector, r.noise), r.mask)
  IN  FoldLeft(LAMBDA sum, r : Collected(sum, Shares(r)[a]),
               Nothing(Cardinality(DOMAIN reports[1].vector)), reports)

\* Every node shares its report, each aggregator adds up the shares it is sent,
\* and the exchange reconstructs and publishes.
Published(spec, reports, told) ==
  LET total == Reconstruct(<<CollectedBy(1, reports), CollectedBy(2, reports)>>)
  IN  [counters |-> Release(total, spec),
       update |-> Averaged(total, Len(reports), GradientSpec),
       sharers |-> NoiseSharers(spec, told)]

ReturnRelease ==
  Called("release") /\ answer' = Published(call.spec, call.reports, call.told)

NextCalls ==
  \/ Auctioned \/ ReturnSlices \/ ReturnEvaluation \/ ReturnVerdict \/ ReturnReport
  \/ ReturnComposition \/ ReturnAggregate \/ ReturnRelease

SpecCalls == InitCalls /\ [][NextCalls]_<<vars, calls>>

Returned(fn) == call # None /\ answer # None /\ call.fn = fn

-----------------------------------------------------------------------------
(* Pacing.                                                                  *)

Total == TotalImpressions(call.remaining, call.price, call.fraction)

\* The assertion at the end of allocate, strengthened to what SPEC.md 8.2 asks
\* and to the period: the slices of one call never cost more than the share of
\* the remaining budget this period covers, whichever loop trimmed them.
NeverOverBudget ==
  Returned("allocate") =>
    /\ (SumOf(answer) * Max({1, call.price})) \div 1000 <= call.remaining
    /\ SumOf(answer) <= Total

\* No phantom slices and no lost ones: a listed node has a positive slice, one
\* node never holds more than the larger of its ramp and its share of the
\* period, and when the ramps cannot all be funded every impression the budget
\* covers is still handed out.
CapAndRamps ==
  Returned("allocate") =>
    /\ \A e \in DOMAIN answer :
         answer[e] \in 1..Max({MinSlice, Times(Total, MaxNodeShare)})
    /\ Total > 0 /\ Total < MinSlice * Cardinality(DOMAIN call.nodes)
         => SumOf(answer) = Total

\* "Trimming largest-first keeps small nodes' ramps intact": whenever the budget
\* funds every ramp, every enrolled node has at least its ramp.
RampsIntact ==
  Returned("allocate") /\ Total > 0 /\ Total >= MinSlice * Cardinality(DOMAIN call.nodes) =>
    \A e \in DOMAIN call.nodes : e \in DOMAIN answer /\ answer[e] >= MinSlice

\* "Allocation is proportional to each node's recent verified delivery, floored
\* at a minimum ..., and capped": a node that delivered more should never hold
\* the smaller slice.
MoreDeliveryNeverLess ==
  Returned("allocate") =>
    \A e, f \in DOMAIN answer : call.nodes[e] > call.nodes[f] => answer[e] >= answer[f]

-----------------------------------------------------------------------------
(* Predicates.                                                              *)

Height(p) == Max({Len(q) + 1 : q \in DOMAIN p})

\* A predicate the node accepts at load has one meaning: its closure over the
\* prepared signal, the interpreter, and the predicate read without any depth
\* guard agree.  The guard of evaluate and compile_predicate counts levels
\* differently from depth(); were the bounds to cross, a predicate that passed
\* validation would be cut, and a cut under a negation matches everybody.
ReadingsAgree ==
  Returned("evaluate") /\ answer.valid /\ ~CompileRaises(call.predicate) =>
    /\ answer.compiled = answer.interpreted
    /\ answer.interpreted = Reading(call.predicate, Terms(call.predicate, call.signal),
                                   Height(call.predicate))

Unknown == [op |-> "unknown", kind |-> "other", arg |-> Missing]

\* The predicate with the node at `pos`, and all below it, replaced.
Replaced(p, pos, node) ==
  [q \in {r \in DOMAIN p : r = pos \/ ~IsPrefix(pos, r)} |-> IF q = pos THEN node ELSE p[q]]

Negations(p, pos) == Cardinality({n \in 0..(Len(pos) - 1) : p[SubSeq(pos, 1, n)].op = "not"})

\* "A predicate can never widen targeting by being wrong" (predicate.py), where
\* it is so: a part gone wrong, malformed or under an unknown operator, below an
\* even number of negations, none included, never makes a predicate match a
\* signal that it did not match.
WrongNeverWidensUnnegated ==
  Returned("evaluate") =>
    \A pos \in DOMAIN call.predicate, node \in {Malformed, Unknown} :
      /\ Negations(call.predicate, pos) % 2 = 0
      /\ Evaluate(Replaced(call.predicate, pos, node), call.signal) = "yes"
      => answer.interpreted # "no"

\* "Never raises" (the docstring of evaluate).
EvaluateNeverRaises == Returned("evaluate") => answer.interpreted # "raises"

\* "An unknown operator, a malformed term, or a missing signal field evaluates
\* the containing term to False. A predicate can never widen targeting by being
\* wrong": as it is written, negations included.
WrongNeverWidens ==
  Returned("evaluate") =>
    \A pos \in DOMAIN call.predicate, node \in {Malformed, Unknown} :
      Evaluate(Replaced(call.predicate, pos, node), call.signal) = "yes"
        => answer.interpreted # "no"

-----------------------------------------------------------------------------
(* Supply chains.                                                           *)

\* What a buyer relies on when a chain is accepted: each hop is either vouched
\* for by the seller list of the system it names or reported as unresolved, the
\* anchor reported is no stronger than any hop's, somebody is paid, and nothing
\* the buyer did not hold could have been needed to accept it: with fewer
\* declarations the chain is accepted too.
AcceptedIsVouchedFor ==
  Returned("verify_chain") /\ answer.ok =>
    LET nodes == call.chain.nodes
    IN  /\ answer.resolved + answer.unresolvable = Len(nodes)
        /\ answer.paymentHops \in 1..Len(nodes)
        /\ \A i \in DOMAIN nodes : \E s \in Strengths(nodes[i]) :
             s >= Min({w \in DOMAIN AnchorStrength : AnchorStrength[w] = answer.weakest})
        /\ \A held \in SUBSET DOMAIN call.declarations :
             VerifyChain(call.chain, [a \in held |-> call.declarations[a]]).ok

\* "A chain is only as good as its weakest hop", of a chain that is refused too.
WeakestIsABound ==
  Returned("verify_chain") =>
    \A i \in DOMAIN call.chain.nodes : \A s \in Strengths(call.chain.nodes[i]) :
      s >= Min({w \in DOMAIN AnchorStrength : AnchorStrength[w] = answer.weakest})

-----------------------------------------------------------------------------
(* Measurement.                                                             *)

\* Fabricating more of the same does not help a node: repeating a batch of
\* receipts clears no anomaly and leaves every rate what it was, and viewable
\* impressions are no more than those with a measured dwell.
RepeatingClearsNothing ==
  Returned("assess") =>
    LET twice == Assess(call.receipts \o call.receipts)
    IN  /\ answer.anomalies \subseteq twice.anomalies
        /\ twice.viewable * answer.impressions = answer.viewable * twice.impressions
        /\ answer.givt + answer.sivt + answer.unclassified <= answer.impressions
        /\ answer.viewable <=
             Cardinality({i \in DOMAIN Dwells(call.receipts) : call.receipts[i].viewable})

-----------------------------------------------------------------------------
(* Answer integrity.                                                        *)

Clean(text) == IsCanonicalAnswer(text) /\ ~HasMarker(text)

\* Whatever the creatives hold and whichever surface renders them, separators in
\* the creative text included, stripping what the user saw gives back the answer
\* byte for byte, so its digest is the one the receipt committed to, and the
\* guard before generate() finds no creative in it that the answer did not hold.
StripRecoversAnswer ==
  Returned("compose") /\ answer # Raises /\ Clean(call.answer) =>
    LET stripped == StripAdBlock(answer)
    IN  /\ stripped = call.answer
        /\ VerifyAnswerCommitment(answer, AnswerDigest(call.answer)) = "same"
        /\ CreativeFound(<<stripped>>, call.shown) => CreativeFound(<<call.answer>>, call.shown)

\* A dispute is decided by what the verifier says has changed: it must blame the
\* answer exactly when another answer was shown, and the block exactly when the
\* answer is the committed one and the creatives rendered differently.
VerifierTellsWhatChanged ==
  Returned("compose") /\ answer # Raises /\ Clean(call.answer) /\ Clean(call.committed) =>
    LET expected == Compose(call.committed, call.issued, call.renderer)
        verdict == VerifyComposition(answer, call.committed, call.issued, call.renderer)
    IN  expected # Raises =>
          /\ verdict = "answer" <=> call.answer # call.committed
          /\ verdict = "exact" => VerifyAnswerCommitment(answer, call.committed) = "same"
          /\ verdict = "block" => /\ call.answer = call.committed
                                  /\ Shown(call.issued) # Shown(call.shown)

\* "Recover the organic answer": of any canonical answer, one that quotes the
\* separator included.
StripRecoversAnyAnswer ==
  Returned("compose") /\ answer # Raises => StripAdBlock(answer) = call.answer

\* "Fail closed if creative text reached the model context": the guard finds the
\* creative in a composed turn that is fed back whole.
GuardSeesComposedTurn ==
  Returned("compose") /\ answer # Raises =>
    \A i \in DOMAIN call.shown :
      Shown(call.shown) # <<>> /\ Len(call.shown[i].headline) > MinNeedle
        => CreativeFound(<<answer>>, <<call.shown[i]>>)

-----------------------------------------------------------------------------
(* Aggregation.                                                             *)

Moved(v, w) ==
  SumFunctionOnSet([j \in DOMAIN v |-> IF v[j] > w[j] THEN v[j] - w[j] ELSE w[j] - v[j]], DOMAIN v)

\* The turns that are not u's, in their order.
Others(turns, u) ==
  FoldLeft(LAMBDA kept, t : IF t.user = u THEN kept ELSE Append(kept, t), <<>>, turns)

Without(u) == Locally(call.spec, Others(call.turns, u))

\* "Each user contributes at most contribution_bound events, which is what bounds
\* sensitivity": had one user's turns never happened, whatever was interleaved
\* with them, the counters of each metric would differ by no more than the bound
\* (a turn counts once in a metric) and the update by no more than the clip norm.
InfluenceBounded ==
  Returned("aggregate") /\ answer.fault = "none" =>
    \A u \in People :
      LET local == answer.local
          cells == Cells(call.spec)
          rest == Without(u)
          Of(v, m) == [c \in 0..(cells - 1) |-> v[m * cells + c]]
          shift == [j \in DOMAIN local.update |-> local.update[j] - rest.update[j]]
      IN  /\ \A m \in 0..(Len(Metrics(call.spec)) - 1) :
               Moved(Of(local.counts, m), Of(rest.counts, m)) <= call.spec.bound
          /\ Square(shift) <= GradientSpec.clip * GradientSpec.clip

\* "This is the L1 sensitivity": over all the counters of the vector that is sent.
BoundIsTheSensitivity ==
  Returned("aggregate") /\ answer.fault = "none" =>
    \A u \in People : Moved(answer.local.counts, Without(u).counts) <= call.spec.bound

\* What the nodes reported, noise included, without any ring.
TrueTotal(j) ==
  LET reports == call.reports
  IN  SumFunctionOnSet([i \in DOMAIN reports |-> reports[i].vector[j] + reports[i].noise[j]],
                       DOMAIN reports)

Fits(n) == n > -(Modulus \div 2) /\ n <= Modulus \div 2

\* The masks cancel and the ring shows neither in what is published: a counter
\* whose noisy total fits in half the ring, negative ones included, is published
\* as that total, or suppressed when it is below the floor; a ranking update is
\* that total, or refused when too few reported.
ReleasedIsTheTotal ==
  Returned("release") =>
    LET enough == Len(call.reports) >= GradientSpec.participants
    IN  \A j \in DOMAIN answer.counters :
          Fits(TrueTotal(j)) =>
            /\ answer.counters[j] = IF TrueTotal(j) < call.spec.k THEN Absent ELSE TrueTotal(j)
            /\ IF enough THEN answer.update[j] = TrueTotal(j)
               ELSE answer.update = "UAP_FED_COHORT_TOO_SMALL"

\* "Wide enough that a real histogram never wraps": and an update?
NothingWraps ==
  Returned("release") => \A j \in DOMAIN answer.counters : Fits(TrueTotal(j))

\* "Nodes MUST calibrate to min_participants, not to a live count they cannot
\* verify": when as many nodes report as were declared, their shares of the noise
\* make at least the whole of it.
NoiseIsWhole ==
  Returned("release") /\ Len(call.reports) >= call.spec.participants =>
    Len(call.reports) >= answer.sharers

\* "Cells below the k floor" and the declared cohort: counters assembled from
\* fewer nodes than declared are not published.
CohortReported ==
  Returned("release") /\ (\E j \in DOMAIN answer.counters : answer.counters[j] # Absent) =>
    Len(call.reports) >= call.spec.participants

=============================================================================
