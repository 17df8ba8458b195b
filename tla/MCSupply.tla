------------------------------ MODULE MCSupply ------------------------------
(***************************************************************************)
(* A node and its exchange: a capped line item, and one without a budget.  *)
(***************************************************************************)
EXTENDS Supply

CONSTANTS Capped1, Free1, T1, T2

MCOneEach == {{Capped1}, {Free1}}   \* a bundle carries one of the two, the other is paused
MCCapped == {{Capped1}}
MCOneThread == {T1}
MCTwoThreads == {T1, T2}
MCSymmetry == Permutations({T1, T2})
=============================================================================
