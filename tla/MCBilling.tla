----------------------------- MODULE MCBilling -----------------------------
(***************************************************************************)
(* One advertiser, two payees, amounts of a few micros.                    *)
(***************************************************************************)
EXTENDS Billing
CONSTANTS Adv, P1, P2
MCSymmetry == Permutations({P1, P2})
=============================================================================
