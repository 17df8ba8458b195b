---------------------------- MODULE Measurement ----------------------------
(***************************************************************************)
(* Viewability and traffic quality: uap/measurement.py.                    *)
(*                                                                         *)
(* A receipt is [tier, standard, viewable, pct, ms, class]: its trust tier *)
(* and its viewability block.  A field not given is Unreported.            *)
(***************************************************************************)
EXTENDS Integers, SequencesExt

CONSTANTS MinSample,    \* 30 dwells make a distribution
          Unreported

ASSUME MeasurementAssumption == MinSample \in Nat

\* MRC_THRESHOLDS: percent, and tenths of a second where the code has milliseconds
\* (the tight-dwell test does not depend on the unit).
MrcThresholds ==
  [mrc_display |-> <<50, 10>>, mrc_video |-> <<50, 20>>,
   mrc_large_display |-> <<30, 10>>, audible_playback |-> <<100, 0>>]

\* Mutant of MeetsMrc: a claim without evidence stands.
MeetsMrcUnsupported(r) ==
  /\ r.standard \in DOMAIN MrcThresholds /\ r.viewable
  /\ r.ms # Unreported => r.ms >= MrcThresholds[r.standard][2]
  /\ r.pct # Unreported => r.pct >= MrcThresholds[r.standard][1]

MeetsMrc(r) ==
  /\ r.standard \in DOMAIN MrcThresholds /\ r.viewable
  /\ r.ms # Unreported /\ r.ms >= MrcThresholds[r.standard][2]
  /\ r.pct # Unreported => r.pct >= MrcThresholds[r.standard][1]

\* pstdev(dwells) / mean(dwells) < 0.05, over integers: with n dwells, sum S and
\* sum of squares Q, (n Q - S^2) / S^2 < 1/400.
TooTight(dwells) ==
  LET n == Cardinality(DOMAIN dwells)
      S == SumFunctionOnSet(dwells, DOMAIN dwells)
      Q == SumFunctionOnSet([i \in DOMAIN dwells |-> dwells[i] * dwells[i]], DOMAIN dwells)
  IN  S > 0 /\ 400 * (n * Q - S * S) < S * S

\* The dwells that were reported, by the position of their receipt.
Dwells(receipts) ==
  [i \in {j \in DOMAIN receipts : receipts[j].ms # Unreported} |-> receipts[i].ms]

Assess(receipts) ==
  LET Count(P(_)) == Cardinality({i \in DOMAIN receipts : P(receipts[i])})
      dwells == Dwells(receipts)
      sampled == Cardinality(DOMAIN dwells) >= MinSample
  IN  [impressions |-> Len(receipts),
       viewable |-> Count(MeetsMrc),
       givt |-> Count(LAMBDA r : r.class = "givt"),
       sivt |-> Count(LAMBDA r : r.class = "sivt"),
       unclassified |-> Count(LAMBDA r : r.class \notin {"givt", "sivt", "valid"}),
       anomalies |->
         {a \in {"tier 0 valid", "tight", "identical"} :
            CASE a = "tier 0 valid" ->
                   \E i \in DOMAIN receipts : receipts[i].tier = 0 /\ receipts[i].class = "valid"
              [] a = "tight" -> sampled /\ TooTight(dwells)
              [] a = "identical" -> sampled /\ Cardinality({dwells[i] : i \in DOMAIN dwells}) = 1}]

=============================================================================
