------------------------------- MODULE Pacing -------------------------------
(***************************************************************************)
(* Budget-safe allocation: uap/pacing.py.                                  *)
(*                                                                         *)
(* `nodes` is the dict the exchange passes: a function from each enrolled  *)
(* entity to its verified impressions, with `order`, the sequence of its   *)
(* keys (sorting a dict's keys is stable, so insertion order breaks ties). *)
(* Fractions are pairs <<numerator, denominator>>; the code multiplies by  *)
(* a float, which is exact for the dyadic fractions used here.             *)
(***************************************************************************)
EXTENDS Integers, SequencesExt

CONSTANTS MinSlice,       \* MIN_SLICE = 10: every enrolled node gets a ramp
          MaxNodeShare    \* MAX_NODE_SHARE = 0.25, as the pair <<1, 4>>

ASSUME PacingAssumption ==
  /\ MinSlice \in Nat \ {0}
  /\ MaxNodeShare \in (Nat \X (Nat \ {0}))

NoSlices == [e \in {} |-> 0]

SumOf(f) == SumFunctionOnSet(f, DOMAIN f)

Times(n, fraction) == (n * fraction[1]) \div fraction[2]

\* int(remaining * min(1.0, max(0.0, period_fraction))) * 1000 // price
TotalImpressions(remaining, price, fraction) ==
  (Times(remaining, IF fraction[1] > fraction[2] THEN <<1, 1>> ELSE fraction) * 1000)
    \div Max({1, price})

Weight(delivered) == Max({1, delivered})

\* Mutant of Proportional: the per-node cap is lost.
ProportionalUncapped(nodes, total) ==
  LET weights == [e \in DOMAIN nodes |-> Weight(nodes[e])]
  IN  [e \in DOMAIN nodes |-> Max({MinSlice, (total * weights[e]) \div SumOf(weights)})]

\* Proportional to delivery, clamped to [MIN_SLICE, cap].
Proportional(nodes, total) ==
  LET weights == [e \in DOMAIN nodes |-> Weight(nodes[e])]
      cap == Max({MinSlice, Times(total, MaxNodeShare)})
      sum == SumOf(weights)
  IN  [e \in DOMAIN nodes |-> Max({MinSlice, Min({cap, (total * weights[e]) \div sum})})]

\* sorted(slices, key=slices.get, reverse=True): e is trimmed before f.
Earlier(slices, order, e, f) ==
  \/ slices[e] > slices[f]
  \/ /\ slices[e] = slices[f]
     /\ \E i, j \in DOMAIN order : i < j /\ order[i] = e /\ order[j] = f

(***************************************************************************)
(* One trimming loop: walking the nodes largest first, each gives up what  *)
(* is still over, down to `keep`.  What node e is asked for is what those  *)
(* before it could not give.                                               *)
(***************************************************************************)
Trim(slices, order, total, keep) ==
  LET over == SumOf(slices) - total
      spare == [e \in DOMAIN slices |-> slices[e] - keep]
      given(e) == SumFunctionOnSet(spare, {f \in DOMAIN slices : Earlier(slices, order, f, e)})
  IN  IF over <= 0 THEN slices
      ELSE [e \in DOMAIN slices |-> slices[e] - Min({spare[e], Max({0, over - given(e)})})]

\* Mutant of Slices: the second trimming loop is forgotten.
SlicesKeepingRamps(nodes, order, total) == Trim(Proportional(nodes, total), order, total, MinSlice)
\* Mutant of Slices: the ramps are trimmed with everything else.
SlicesTrimmedFlat(nodes, order, total) ==
  LET slices == Trim(Proportional(nodes, total), order, total, 0)
  IN  [e \in {f \in DOMAIN slices : slices[f] > 0} |-> slices[e]]

\* Trim to the ramps; if the budget cannot fund even those, trim them too and
\* drop the nodes left with nothing.
Slices(nodes, order, total) ==
  LET ramped == Trim(Proportional(nodes, total), order, total, MinSlice)
      trimmed == Trim(ramped, order, total, 0)
  IN  IF SumOf(ramped) <= total THEN ramped
      ELSE [e \in {f \in DOMAIN trimmed : trimmed[f] > 0} |-> trimmed[e]]

Allocate(nodes, order, remaining, price, fraction) ==
  LET total == TotalImpressions(remaining, price, fraction)
  IN  IF total <= 0 \/ DOMAIN nodes = {} THEN NoSlices ELSE Slices(nodes, order, total)
=============================================================================
