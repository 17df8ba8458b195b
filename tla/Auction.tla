------------------------------ MODULE Auction ------------------------------
(***************************************************************************)
(* The auction both profiles run: uap/auction.py.                          *)
(*                                                                         *)
(* A line item is a record                                                 *)
(*   [lid, pricing: [model, bid], advertiser, categories, targeting,       *)
(*    perConversation, perNode, share]                                     *)
(* with `lid` a number (the code orders ids as strings), `targeting` None, *)
(* Oversize (a predicate Appendix A refuses) or the set of signals it      *)
(* matches, and None for an absent cap.  A turn is a record                *)
(*   [signal, format, position, blockedAdvertisers, blockedCategories,     *)
(*    allowedFormats, steward, floor, seen, shown]                         *)
(* where `seen` and `shown` are frequency_state and pacing_state.          *)
(***************************************************************************)
EXTENDS Integers, FiniteSetsExt

CONSTANTS None,      \* an absent field
          Oversize   \* a targeting predicate beyond the Appendix A bounds

(***************************************************************************)
(* eCPM in micros with the default pCTR = 1/100 and pCVR = 1/1000.         *)
(***************************************************************************)
NormalizeEcpm(pricing) ==
  CASE pricing.model = "cpm" -> pricing.bid
    [] pricing.model = "cpc" -> (pricing.bid * 1000) \div 100
    [] pricing.model = "cpa" -> (pricing.bid * 1000) \div 1000
    [] OTHER -> 0

Allows(allowed, x) == allowed = {} \/ x \in allowed   \* an empty list is no list

PolicyOk(item, turn) ==
  /\ item.advertiser \notin turn.blockedAdvertisers
  /\ item.categories \cap turn.blockedCategories = {}
  /\ Allows(turn.allowedFormats, turn.format)
  /\ turn.steward # None =>
       /\ turn.steward.permitted
       /\ Allows(turn.steward.positions, turn.position)
       /\ Allows(turn.steward.formats, turn.format)
       /\ item.categories \cap turn.steward.blockedCategories = {}

\* `per_conversation or per_node_user_per_day`: a zero is passed over.
FrequencyLimit(item) ==
  IF item.perConversation \in {None, 0} THEN item.perNode ELSE item.perConversation

Reached(count, limit) == limit # None /\ count >= limit

\* Mutant of Stage: the floor is forgotten.
StageWithoutFloor(item, turn) ==
  IF ~PolicyOk(item, turn) \/ item.targeting = Oversize THEN "eliminated_policy"
  ELSE IF item.targeting # None /\ turn.signal \notin item.targeting THEN "eliminated_targeting"
  ELSE "eligible"

(***************************************************************************)
(* The fixed elimination order: the first stage an item fails names its    *)
(* outcome; an item that passes them all is "eligible".                    *)
(***************************************************************************)
Stage(item, turn) ==
  IF ~PolicyOk(item, turn) \/ item.targeting = Oversize THEN "eliminated_policy"
  ELSE IF item.targeting # None /\ turn.signal \notin item.targeting THEN "eliminated_targeting"
  ELSE IF Reached(turn.seen[item.lid], FrequencyLimit(item)) THEN "eliminated_frequency"
  ELSE IF Reached(turn.shown[item.lid], item.share) THEN "eliminated_pacing"
  ELSE IF NormalizeEcpm(item.pricing) < turn.floor THEN "eliminated_floor"
  ELSE "eligible"

Bid(item) == [lid |-> item.lid, ecpm |-> NormalizeEcpm(item.pricing)]

Eligible(items, turn) == {Bid(i) : i \in {j \in items : Stage(j, turn) = "eligible"}}

\* eligible.sort(key=lambda e: (-e[0], e[1])): best eCPM first, then lowest id.
Beats(a, b) == a.ecpm > b.ecpm \/ (a.ecpm = b.ecpm /\ a.lid < b.lid)

Winner(eligible) == CHOOSE w \in eligible : \A o \in eligible \ {w} : Beats(w, o)

Highest(bids) == Max({0} \cup {b.ecpm : b \in bids})

\* Mutant of ClearingPrice: the winner pays its own bid.
FirstPrice(eligible, floor) == Max({Highest(eligible), floor}) + 1

\* What the second-price winner of a non-empty auction pays.
ClearingPrice(eligible, floor) ==
  Max({Highest(eligible \ {Winner(eligible)}), floor}) + 1

\* Mutant of Trace: every bid equal to the best is "won".
TraceByPrice(items, turn) ==
  LET eligible == Eligible(items, turn)
      outcome(i) == IF Stage(i, turn) # "eligible" THEN Stage(i, turn)
                    ELSE IF NormalizeEcpm(i.pricing) = Highest(eligible) THEN "won" ELSE "lost"
  IN  {[lid |-> i.lid, ecpm |-> NormalizeEcpm(i.pricing), outcome |-> outcome(i)] : i \in items}

\* The trace a receipt carries: every item with its eCPM and its outcome.
Trace(items, turn) ==
  LET eligible == Eligible(items, turn)
      outcome(i) == IF Stage(i, turn) # "eligible" THEN Stage(i, turn)
                    ELSE IF Bid(i) = Winner(eligible) THEN "won" ELSE "lost"
  IN  {[lid |-> i.lid, ecpm |-> NormalizeEcpm(i.pricing), outcome |-> outcome(i)] : i \in items}
=============================================================================
