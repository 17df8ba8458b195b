---------------------------- MODULE MCExchange ----------------------------
(***************************************************************************)
(* Small exchanges.  Two runs share one module: one with hosted decisions  *)
(* only, one with bundles and allocations only; their cfgs choose.         *)
(***************************************************************************)
EXTENDS Exchange

CONSTANTS E1, E2, B1, B2, C1, C2, A1, A2, Card,
          Budget   \* of line item 1, in micros

\* One impression's worth of budget is 2 micros at a CPM of 2000.
MCItem == [l \in LineItems |->
  [ecpm |-> 1000 * (l + 1), cpm |-> IF l = 1 THEN 2000 ELSE None,
   budget |-> IF l = 1 THEN Budget ELSE None, share |-> IF l = 2 THEN 1 ELSE None,
   format |-> Card]]
MCQuarter == <<1, 4>>
MCWhole == <<1, 1>>

\* A receipt with nothing wrong in it, and its variants with one thing wrong.
Good(k, n, local, c, a, won, lost) ==
  [key |-> k, nonce |-> n, local |-> local, creative |-> c, shown |-> a,
   attested |-> TRUE, view |-> "rendered", tier |-> 1, late |-> FALSE,
   trace |-> [won |-> {won}, lost |-> lost]]
Unfit(r) == {[r EXCEPT !.attested = FALSE], [r EXCEPT !.view = "unrendered"],
             [r EXCEPT !.view = "overclaimed"], [r EXCEPT !.tier = 0]}
Misreported(r) == {[r EXCEPT !.trace = None], [r EXCEPT !.trace.lost = 9000],
                   [r EXCEPT !.trace.won = {}]}

Ask(rid, e, a, sensitive, floors) ==
  [rid |-> rid, entity |-> e, answer |-> a, sensitive |-> sensitive,
   placements |-> [i \in DOMAIN floors |-> [relevant |-> LineItems, floor |-> floors[i]]]]

\* The second asker is the other entity, or nobody when there is only one.
Asker2 == IF E2 \in Entities THEN E2 ELSE None
HostedRequests == {Ask("q1", E1, A1, FALSE, <<0, 2500>>), Ask("q2", Asker2, A2, FALSE, <<0>>),
                   Ask("q3", E1, A1, TRUE, <<0>>), Ask("q4", E1, None, FALSE, <<0>>),
                   Ask("held", E1, A1, FALSE, <<0>>)}
HostedReceipts ==
  LET issued == {HostedNonce(1, 1), HostedNonce(1, 2), HostedNonce(2, 1)}
      good == {Good(k, nonce, None, c, A1, 2, 2000) :
                 k \in Entities, nonce \in issued, c \in {C1, C2}}
      other == {Good(k, HostedNonce(n, 1), None, C1, A2, 2, 2000) :
                  k \in Entities, n \in 1..2}
  IN  good \cup other \cup Misreported(Good(E1, HostedNonce(1, 1), None, C1, A1, 2, 2000))

Claim(k, e, b, l, index) ==
  Good(k, DeriveLocalNonce(b, e, l, index), [bundle |-> b, lid |-> l, index |-> index],
       C1, A1, l, 0)
LocalReceipts ==
  UNION {{Claim(e, e, B1, l, i) : l \in LineItems, i \in 0..1}
         \cup {Claim(e, f, B1, 1, 0) : f \in Entities}
         \cup Unfit(Claim(e, e, B1, 1, 0))
         \cup {[Claim(e, e, B1, 1, 0) EXCEPT !.trace = None]}
         \cup {[Claim(e, e, B1, 1, 0) EXCEPT !.late = TRUE],
               [Claim(e, e, B1, 1, 0) EXCEPT !.local.bundle = None],
               [Claim(e, e, B1, 1, 0) EXCEPT !.local.index = -1]} : e \in Entities}
\* Honest receipts of turns where a rival bid as much as line item 1.
OwnReceipts == {[Claim(e, e, b, 1, i) EXCEPT !.trace.lost = 2000] : e \in Entities, b \in BundleIds, i \in 0..1}

MCSymmetry == Permutations({E1, E2})
=============================================================================
