--------------------------- MODULE MCConversation ---------------------------
(***************************************************************************)
(* Two users, one whose client strips, with two turns and one; an ad every *)
(* second turn; one line item whose block speaks of what it sells.         *)
(***************************************************************************)
EXTENDS Conversation
CONSTANTS U, V, L
MCTurns == [u \in Users |-> IF u = U THEN 2 ELSE 1]
MCLimit == [l \in {L} |-> 1]
MCAdSays == [l \in {L} |-> "intent"]
=============================================================================
