----------------------------- MODULE MCBuySide -----------------------------
(***************************************************************************)
(* Two campaigns and two line items of one advertiser.  A creative is      *)
(* rejected when it is submitted before its domain is verified.            *)
(***************************************************************************)
EXTENDS BuySide, TLC
CONSTANTS Brand, Home, Fit, L1, L2, C1, C2, R1, R2
MCAdvertiser == [l \in LineItems |-> Brand]
MCFlaws == [x \in Contents |-> {}]
MCHost == [x \in Contents |-> Home]
MCSymmetry == Permutations({L1, L2}) \cup Permutations({C1, C2}) \cup Permutations({R1, R2})
=============================================================================
