------------------------------ MODULE MCServer ------------------------------
(***************************************************************************)
(* Handler threads on one small exchange.                                  *)
(***************************************************************************)
EXTENDS ExchangeServer

CONSTANTS E1, B1, C1, A1, A2, Card, T1, T2

MCItem == [l \in LineItems |-> [ecpm |-> 3000, cpm |-> 2000, budget |-> 16, share |-> None, format |-> Card]]
MCQuarter == <<1, 4>>
MCWhole == <<1, 1>>

Receipt1(n, local) ==
  [key |-> E1, nonce |-> n, local |-> local, creative |-> C1, shown |-> A1, attested |-> TRUE,
   view |-> "rendered", tier |-> 1, late |-> FALSE,
   trace |-> IF local = None THEN None ELSE [won |-> {1}, lost |-> 0]]
Hosted == Receipt1(HostedNonce(1, 1), None)
Local(i) == Receipt1(DeriveLocalNonce(B1, E1, 1, i), [bundle |-> B1, lid |-> 1, index |-> i])

MCReceipts == {Hosted, Local(0), Local(1), [Hosted EXCEPT !.shown = A2]}
MCRequests == {[rid |-> "q1", entity |-> E1, answer |-> A1, sensitive |-> FALSE,
                placements |-> <<[relevant |-> LineItems, floor |-> 0]>>]}
=============================================================================
