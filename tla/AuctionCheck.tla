---------------------------- MODULE AuctionCheck ----------------------------
(***************************************************************************)
(* One auction per behaviour: an operator's turn and a bundle are chosen,  *)
(* then the auction runs and the exchange replays its trace.               *)
(***************************************************************************)
EXTENDS Auction, FiniteSets

CONSTANTS Catalogue,     \* the possible line items, keyed by line item id
          Turns,         \* the turns that may arrive, without their floor
          Floors,        \* floors an exchange or a placement may set
          MaxBid         \* no line item bids more: a finite list has a largest bid

AllItems == UNION {Catalogue[l] : l \in DOMAIN Catalogue}

ASSUME AuctionAssumption ==
  /\ MaxBid \in Nat /\ Floors \subseteq Nat /\ None \notin Nat
  /\ \A t \in Turns : "floor" \in DOMAIN t
  /\ \A i \in AllItems : i.lid \in Nat /\ NormalizeEcpm(i.pricing) \in 0..MaxBid

VARIABLES items,         \* the line items of the bundle
          turn,          \* the turn, its floor being the larger of the two
          bundleFloor,   \* bundle["floor_cpm_micros"]
          result         \* None before the auction, then its result

vars == <<items, turn, bundleFloor, result>>

Bundles == {S \in SUBSET AllItems : \A i, j \in S : i.lid = j.lid => i = j}

\* floor = max(int(floor_cpm_micros), int(placement floor or 0))
WithFloor(t, bundle, placement) == [t EXCEPT !.floor = Max({bundle, placement})]

Init ==
  /\ items \in Bundles
  /\ bundleFloor \in Floors
  /\ \E t \in Turns, placementFloor \in Floors \cup {0} :
       turn = WithFloor(t, bundleFloor, placementFloor)
  /\ result = None

Run ==
  LET eligible == Eligible(items, turn)
  IN  /\ result = None
      /\ result' = IF eligible = {}
                   THEN [winner |-> None, price |-> 0, trace |-> Trace(items, turn)]
                   ELSE [winner |-> Winner(eligible).lid,
                         price |-> ClearingPrice(eligible, turn.floor),
                         trace |-> Trace(items, turn)]
      /\ UNCHANGED <<items, turn, bundleFloor>>

Next == Run

Spec == Init /\ [][Next]_vars

-----------------------------------------------------------------------------
(* How the exchange reads the price off a receipt's trace.                  *)

ReplayPrice(trace, floor) ==
  Max({floor} \cup {t.ecpm : t \in {u \in trace : u.outcome = "lost"}}) + 1

Served == result # None /\ result.winner # None

\* The exchange accepts a trace only when exactly one entry won and it is the
\* line item the receipt names (exchange.py _resolve_local): every auction that
\* serves must produce such a trace, and one that does not serve must not.  It
\* accounts for every line item, whatever eliminated it.
TraceNamesTheWinner ==
  result # None =>
    /\ {t.lid : t \in {u \in result.trace : u.outcome = "won"}} =
         IF Served THEN {result.winner} ELSE {}
    /\ \A i \in items : Cardinality({t \in result.trace : t.lid = i.lid}) = 1

\* Second price: what the winner pays must not depend on what it bid, and
\* bidding more must never lose.  The auction is run again with the winner's bid
\* raised, the classical criterion auction.run's clearing rule exists to meet.
PriceIgnoresOwnBid ==
  Served =>
    LET eligible == Eligible(items, turn)
        raised == {IF b.lid = result.winner THEN [b EXCEPT !.ecpm = @ + 1] ELSE b : b \in eligible}
    IN  /\ Winner(raised).lid = result.winner
        /\ ClearingPrice(raised, turn.floor) = result.price

\* No winner clears more than one micro above its own bid (the surplus micro of
\* `max(second, floor) + 1` at a tie), and no surviving item outbid it.
WinnerCoversItsPrice ==
  Served =>
    \E w \in items :
      /\ w.lid = result.winner
      /\ result.price <= NormalizeEcpm(w.pricing) + 1
      /\ \A o \in items : NormalizeEcpm(o.pricing) > NormalizeEcpm(w.pricing)
                            => Stage(o, turn) # "eligible"

\* The exchange "derives the clearing price" of a local receipt from its trace
\* and the bundle's floor; the node cleared against the larger of the bundle's
\* and the placement's floor.  The two prices should be one.
ReplayAgrees ==
  Served => ReplayPrice(result.trace, bundleFloor) = result.price

=============================================================================
