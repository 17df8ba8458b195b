---------------------------- MODULE MCAlgorithms ----------------------------
(***************************************************************************)
(* Small inputs for every function.                                        *)
(***************************************************************************)
EXTENDS Algorithms, TLC

CONSTANTS S1, S2,       \* two signals
          A, B, C, D    \* four nodes

-----------------------------------------------------------------------------
(* Auction: three line items, one per pricing model, each with the caps,    *)
(* targeting and categories that some turn eliminates.                      *)

Item(l, model, bid, cats, targeting, limit, share) ==
  [lid |-> l, pricing |-> [model |-> model, bid |-> bid], advertiser |-> l,
   categories |-> cats, targeting |-> targeting,
   perConversation |-> limit, perNode |-> None, share |-> share]

MCCatalogue ==
  [l \in 1..3 |->
     CASE l = 1 -> {Item(1, "cpm", b, {"travel"}, t, None, sh) :
                      b \in {20, 30}, t \in {None, {S1}, Oversize}, sh \in {None, 1}}
       [] l = 2 -> {Item(2, "cpc", b, {"finance"}, {S1, S2}, lim, None) :
                      b \in {2, 3}, lim \in {None, 0, 1}}
       [] l = 3 -> {Item(3, m, b, {"travel"}, None, None, None) :
                      m \in {"cpa", "flat"}, b \in {25, 30}}]

Steward == [permitted |-> TRUE, positions |-> {"post_answer"}, formats |-> {},
            blockedCategories |-> {"finance"}]

Turn(s, blocked, steward, n) ==
  [signal |-> s, format |-> "card", position |-> "post_answer",
   blockedAdvertisers |-> blocked, blockedCategories |-> {},
   allowedFormats |-> {"card"}, steward |-> steward, floor |-> 0,
   seen |-> [l \in 1..3 |-> n], shown |-> [l \in 1..3 |-> n]]

MCTurns == {Turn(s, blocked, steward, n) :
              s \in {S1, S2}, blocked \in {{}, {3}},
              steward \in {None, Steward, [Steward EXCEPT !.permitted = FALSE]}, n \in {0, 1}}

MCFloors == {0, 24, 29}

-----------------------------------------------------------------------------
(* Pacing: ramps of 2 impressions, a cap of one half, up to four nodes, and *)
(* budgets from nothing to more than the ramps, at two prices per mille.    *)

MCHalf == <<1, 2>>
MCFractions == {<<0, 1>>, <<1, 4>>, <<1, 1>>, <<2, 1>>}
MCNodesSymmetry == Permutations({A, B, C, D})

-----------------------------------------------------------------------------
(* Predicates: every term, then two levels of operators over pairs of them, *)
(* and a third over one; a depth of 2 and 3 terms are allowed.              *)

P(op, kind, arg) == [op |-> op, kind |-> kind, arg |-> arg]

\* The predicate of an operator over those parts.
Tree(node, parts) ==
  [q \in {<<>>} \cup UNION {{<<i>> \o r : r \in DOMAIN parts[i]} : i \in DOMAIN parts} |->
     IF q = <<>> THEN node ELSE parts[Head(q)][Tail(q)]]

List(op, parts) == Tree(P(op, "list", Len(parts)), parts)

Not(p) == Tree(P("not", "object", Missing), <<p>>)

Leaves ==
  <<Malformed, P("unknown", "list", {"i1"}),
    P("intent_any", "list", {"i1", "i2"}), P("intent_any", "list", {"i1", Unhashable}),
    P("intent_any", "list", {Missing}),
    P("intent_all", "list", {"i1", "i2"}), P("intent_all", "list", {}),
    P("intent_all", "other", "i1"),
    P("intent_confidence_gte", "object", [id |-> "i1", value |-> 5]),
    P("commercial_intent_gte", "number", 5), P("commercial_intent_gte", "other", "5"),
    P("locale_any", "list", {"en", Missing}), P("locale_any", "list", {"fr", Unhashable}),
    P("geo_any", "list", {"ch", Missing}), P("turn_bucket_any", "list", {"early"}),
    P("brand_risk_max", "other", "medium"), P("brand_risk_max", "list", {}),
    P("all", "list", 0), P("any", "list", 0), P("all", "other", Missing)>>

Leaf(l) == Tree(Leaves[l], <<>>)

Level(shape, l, r) ==
  CASE shape = "leaf" -> Leaf(l)
    [] shape = "not" -> Not(Leaf(l))
    [] OTHER -> List(shape, <<Leaf(l), Leaf(r)>>)

Over(shape, p, l) ==
  CASE shape = "bare" -> p
    [] shape = "not" -> Not(p)
    [] OTHER -> List(shape, <<p, Leaf(l)>>)

Shapes == {"all", "any", "not", "leaf"}
Outer == {"all", "any", "not", "bare"}

MCPredicates ==
  [c \in Shapes \X (1..Len(Leaves)) \X (1..Len(Leaves)) \X Outer \X {"not", "bare"} |->
     Over(c[5], Over(c[4], Level(c[1], c[2], c[3]), 3), 3)]

Signal(intents, commercial, locale, geo, risk) ==
  [intents |-> intents, commercial |-> commercial, risk |-> risk, cached |-> Missing,
   value |-> [locale_any |-> locale, geo_any |-> geo, surface_any |-> Missing,
              format_any |-> Missing, turn_bucket_any |-> geo]]

Intent(id, c) == [id |-> id, confidence |-> c]

MCSignals ==
  <<Signal(<<Intent("i1", 7), Intent("i2", 2)>>, 7, "en", "ch", "low"),
    Signal(<<Intent("i2", Missing), Intent("i1", Missing), Intent("i1", 9)>>, 2, "fr", "early",
           "high"),
    Signal(<<Intent(Missing, 1)>>, Missing, Missing, Missing, Missing),
    Signal(<<>>, 5, "fr", Missing, "medium")>>

-----------------------------------------------------------------------------
(* Chains of up to two hops through two systems, and every seller list.     *)

Hop(asi, sid, hp, anchor, tier) ==
  [asi |-> asi, sid |-> sid, hp |-> hp, anchor |-> anchor, tier |-> tier]

Hops == {Hop(a, s, hp, n, t) : a \in {"x", "y", Undeclared}, s \in {"s"}, hp \in {0, 1},
                               n \in {"none", "domain", "other"}, t \in {Undeclared, 2}}

MCChains ==
  {[complete |-> c, nodes |-> n] : c \in BOOLEAN, n \in {<<>>} \cup {<<h>> : h \in Hops}}
  \cup {[complete |-> TRUE, nodes |-> <<g, h>>] : g, h \in Hops}
  \cup {[complete |-> TRUE, nodes |-> [i \in 1..3 |-> Hop("x", <<"s", "t", "u">>[i], 1, "domain", Undeclared)]]}

Sellers == {<<>>} \cup {"s" :> [anchor |-> n, tier |-> t] : n \in {"none", "domain"}, t \in {1, 2}}

MCDeclarations ==
  {<<>>} \cup {"x" :> s : s \in Sellers}
         \cup {"x" :> s @@ "y" :> ("s" :> [anchor |-> "none", tier |-> Undeclared]) : s \in Sellers}

-----------------------------------------------------------------------------
(* Batches of up to four receipts; three dwells make a sample.              *)

Receipt(tier, standard, viewable, pct, ms, class) ==
  [tier |-> tier, standard |-> standard, viewable |-> viewable, pct |-> pct, ms |-> ms,
   class |-> class]

Receipts ==
  {Receipt(0, "mrc_display", TRUE, 50, 10, "valid"), Receipt(1, "mrc_display", TRUE, 49, 11, "sivt"),
   Receipt(1, "delivered_only", FALSE, Unreported, Unreported, "givt"),
   Receipt(2, "mrc_video", TRUE, Unreported, Unreported, "unclassified"),
   Receipt(2, "mrc_video", TRUE, Unreported, 20, "valid"),
   Receipt(2, "audible_playback", TRUE, 100, 0, "valid")}

MCBatches == UNION {[1..n -> Receipts] : n \in 0..4}

-----------------------------------------------------------------------------
(* Answers of up to two tokens and longer ones that hold a marker, end in   *)
(* half of one, or are not canonical; creatives with markup, separators and *)
(* unsafe links.                                                            *)

MCTokens ==
  {"w", "x", "b", "l", "nl", "cr", "sep", "nfd", "nfc", "ctl", "md", "lead", "\\", "dash", "[", "]", "url"}

MCAnswers ==
  UNION {[1..n -> {"w", "nl", "sep"}] : n \in 0..2}
    \cup {<<"nl", "nl", "sep">>, <<"w", "nl", "nl">>, <<"w", "nl", "nl", "sep">>, <<"w", "cr", "nl">>, <<"nfd">>, <<"nfc">>, <<"w", "cr">>}

Creative(headline, body, brand, actions) ==
  [headline |-> headline, body |-> body, brand |-> brand, actions |-> actions]

Plain == Creative(<<"w", "x">>, <<>>, <<"b">>, <<>>)
Marked == Creative(<<"md", "x", "md">>, <<"lead", "x">>, <<>>, <<[label |-> <<"l">>, https |-> TRUE]>>)
Forged == Creative(<<"x", "nl", "nl", "sep">>, <<"sep", "cr", "ctl">>, <<>>, <<>>)
Unsafe == Creative(<<"x">>, <<>>, <<>>, <<[label |-> <<"l">>, https |-> FALSE]>>)

MCDecisions ==
  {<<>>, <<Plain>>, <<Marked>>, <<Forged>>, <<Unsafe>>, <<Creative(<<>>, <<"x">>, <<>>, <<>>)>>,
   <<Plain, Forged>>}

-----------------------------------------------------------------------------
(* Two users and up to four turns of five kinds; specs with one and two   *)
(* metrics, a dimension of paths and one of buckets, and ones refused; a    *)
(* ring of 16, and up to three nodes with totals beyond its half.           *)

Dimension(f, depth, values, buckets) ==
  [field |-> f, depth |-> depth, values |-> values, buckets |-> buckets]

Paths == Dimension("intents", 2, <<<<"t", "h">>, <<"t">>>>, Absent)
Strength == Dimension("commercial_intent", 2, Absent, <<0, 5, 10>>)

ASpec(dimensions, metrics, bound, k) ==
  [dimensions |-> dimensions, metrics |-> metrics, bound |-> bound, epsilon |-> 5,
   k |-> k, participants |-> 2]

MCSpecs ==
  {ASpec(<<Paths, Strength>>, <<>>, 1, 2), ASpec(<<Strength>>, <<"impressions", "clicks">>, 2, 3),
   ASpec(<<Dimension("locale", 2, <<"en">>, Absent)>>, <<"clicks">>, 2, 2),
   ASpec(<<>>, <<>>, 1, 2), ASpec(<<Dimension("geo", 2, <<"ch">>, Absent)>>, <<>>, 1, 2),
   ASpec(<<Dimension("locale", 2, Absent, Absent)>>, <<>>, 1, 2),
   ASpec(<<Strength>>, <<>>, 0, 2), [ASpec(<<Strength>>, <<>>, 1, 2) EXCEPT !.epsilon = 101],
   ASpec(<<Paths, Paths, Strength>>, <<>>, 1, 2)}

ASSUME { SpecFault(s) : s \in MCSpecs } =
  {"none", "UAP_AGG_NO_DIMENSIONS", "UAP_AGG_FIELD_NOT_BINNABLE", "UAP_AGG_OPEN_DIMENSION",
   "UAP_AGG_BAD_BOUND", "UAP_AGG_BAD_EPSILON", "UAP_AGG_TOO_WIDE"}

MCGradientSpec == [model |-> "m", clip |-> 5, epsilon |-> 10, delta |-> 1, participants |-> 2]

ASSUME GradientFault(MCGradientSpec) = "none"

ATurn(u, signal, clicks, error) ==
  [user |-> u, signal |-> signal, error |-> error,
   metrics |-> [impressions |-> 1, clicks |-> clicks]]

ATurns ==
  {ATurn(u, [intents |-> <<<<"t", "h", "x">>>>, commercial_intent |-> 5, locale |-> "en"], 1, -4) :
     u \in {"u", "v"}}
  \cup {ATurn("u", [intents |-> <<<<"t", "z">>, <<"t">>>>, commercial_intent |-> 9, locale |-> "fr"], 0, 4),
        ATurn("u", [intents |-> <<>>, locale |-> "en"], 1, 4),
        ATurn("v", [intents |-> <<>>, commercial_intent |-> 4], 0, 3)}

MCObserved ==
  UNION {[1..n -> ATurns] : n \in 0..3} \cup [1..4 -> {t \in ATurns : t.signal.intents # <<>>}]

AReport(a, b, noise, mask) ==
  [vector |-> [j \in 0..1 |-> IF j = 0 THEN a ELSE b], noise |-> [j \in 0..1 |-> noise],
   mask |-> [j \in 0..1 |-> mask]]

\* Updates are signed, counters are not.
MCReports ==
  UNION {[1..n -> {AReport(a, b, noise, mask) : a \in {0, 3, 5}, b \in {-4, 1}, noise \in {-1, 0},
                                               mask \in {0, 9}}] : n \in 1..2}
  \cup [1..3 -> {AReport(a, 1, 0, 13) : a \in 0..5}]

=============================================================================
