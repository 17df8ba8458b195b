------------------------------ MODULE Delivery ------------------------------
(***************************************************************************)
(* What a node and its exchange owe each other: an impression rendered by  *)
(* the node is owed, and the exchange decides about it once, for good,     *)
(* however often the node asks.  Every decision to pay earns one unit.     *)
(***************************************************************************)
EXTENDS Naturals, FiniteSets

CONSTANT Impressions
VARIABLES owed, paid, refused, earned

Judged == paid \cup refused

Init == owed = {} /\ paid = {} /\ refused = {} /\ earned = 0

Render(i) ==
  /\ i \notin owed \cup Judged
  /\ owed' = owed \cup {i}
  /\ UNCHANGED <<paid, refused, earned>>

\* A batch is answered: all it names that is still owed is decided.
Judge(yes, no) ==
  /\ yes \cup no # {} /\ yes \cap no = {}
  /\ owed' = owed \ (yes \cup no)
  /\ paid' = paid \cup yes
  /\ refused' = refused \cup no
  /\ earned' = earned + Cardinality(yes)

Next ==
  \/ \E i \in Impressions : Render(i)
  \/ \E yes, no \in SUBSET owed : Judge(yes, no)

Spec == Init /\ [][Next]_<<owed, paid, refused, earned>>
=============================================================================
