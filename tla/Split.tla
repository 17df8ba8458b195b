------------------------------- MODULE Split -------------------------------
(***************************************************************************)
(* The revenue split of exchange.py, without a model steward, as every     *)
(* caller asks for it: <<serving node's part, exchange's part>>.           *)
(***************************************************************************)
EXTENDS Integers

CONSTANT TakeRateBps   \* take_rate_bps: 2000 by default

ASSUME SplitAssumption == TakeRateBps \in 0..10000

\* Mutant of Settle: the remainder always goes to the exchange.
SettleForExchange(gross) ==
  <<(gross * (10000 - TakeRateBps)) \div 10000, gross - (gross * (10000 - TakeRateBps)) \div 10000>>

\* Largest remainder; on a tie the first party, the serving node, gets the micro.
Settle(gross) ==
  LET node == gross * (10000 - TakeRateBps)
      exchange == gross * TakeRateBps
      short == gross - (node \div 10000) - (exchange \div 10000)
      toNode == node % 10000 >= exchange % 10000
  IN  <<(node \div 10000) + (IF toNode THEN short ELSE 0),
        (exchange \div 10000) + (IF toNode THEN 0 ELSE short)>>

\* One part of a settlement, within half a micro of its exact share in 1/10000.
Rounded(part, share) == 10000 * part <= share + 5000 /\ 10000 * part + 5000 >= share
=============================================================================
