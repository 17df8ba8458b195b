------------------------------ MODULE Billing ------------------------------
(***************************************************************************)
(* Disputes, credits, make-goods and clawbacks: uap/billing.py, on the     *)
(* accounts, invoices and payouts of module Settlement.                    *)
(***************************************************************************)
EXTENDS Settlement

CONSTANTS Makes,        \* CPMs a make-good may be sized at
          MaxDisputes   \* bound of the model

ASSUME BillingAssumption == Makes \subseteq Nat \ {0} /\ MaxDisputes \in Nat

VARIABLES disputes,
          owedBack,     \* owed_back_micros of each account
          credited,     \* _credited_to_advertisers
          clawed        \* _clawed_back_from_payees

billingVars == <<disputes, owedBack, credited, clawed>>
vars == <<settlementVars, billingVars>>

TERMINAL == {"upheld", "partially_upheld", "rejected", "withdrawn", "expired"}

Init == SettlementInit /\ disputes = <<>> /\ owedBack = Zero /\ credited = 0 /\ clawed = 0

Minimum2(a, b) == IF a < b THEN a ELSE b

\* Amounts credited are not disputable again.
Outstanding(i) == invoices[i].total + invoices[i].credits

\* Within the window of 60 days; after it the call raises.
OpenDispute(i, amount) ==
  /\ invoices[i].status \in {"issued", "disputed"}
  /\ amount <= Outstanding(i) /\ Len(disputes) < MaxDisputes
  /\ disputes' = Append(disputes,
       [invoice |-> i, status |-> "open", disputed |-> amount, upheld |-> 0, overdue |-> FALSE,
        remedy |-> "none", clawback |-> 0, split |-> FALSE, owed |-> 0, made |-> 0])
  /\ invoices' = [invoices EXCEPT ![i] = [@ EXCEPT !.status = "disputed"]]
  /\ UNCHANGED <<accounts, balances, payouts, accruals, owedBack, credited, clawed>>

\* _live: an expired dispute passes.
Live(d) == disputes[d].status \notin TERMINAL \/ disputes[d].status = "expired"

Settled(inv) == [inv EXCEPT !.status = IF inv.total = 0 THEN "paid" ELSE "issued"]

\* Mutant of Restored: it does not look for other disputes of the invoice.
RestoredAlways(ds, invs, i) == [invs EXCEPT ![i] = Settled(@)]

\* _restore_invoice, the disputes being ds.
Restored(ds, invs, i) ==
  IF \E d \in DOMAIN ds : ds[d].invoice = i /\ ds[d].status \notin TERMINAL THEN invs
  ELSE [invs EXCEPT ![i] = Settled(@)]

Close(d, s) ==
  /\ disputes' = [disputes EXCEPT ![d] = [@ EXCEPT !.status = s]]
  /\ invoices' = Restored(disputes', invoices, disputes[d].invoice)
  /\ UNCHANGED <<accounts, balances, payouts, accruals, owedBack, credited, clawed>>

Withdraw(d) == Live(d) /\ Close(d, "withdrawn")

\* The 30 days of adjudication pass; nothing looks at the deadline of a dispute
\* that is closed.
Overdue(d) ==
  /\ Live(d) /\ ~disputes[d].overdue
  /\ disputes' = [disputes EXCEPT ![d] = [@ EXCEPT !.overdue = TRUE]]
  /\ UNCHANGED <<settlementVars, owedBack, credited, clawed>>

\* The cited receipts that fail are worth `failed`, the others `verified`.
Adjudicate(d, failed, verified) ==
  LET upheld == Minimum2(failed, disputes[d].disputed)
      s == IF upheld = 0 THEN "rejected" ELSE IF verified = 0 THEN "upheld" ELSE "partially_upheld"
  IN  /\ Live(d) /\ ~disputes[d].overdue
      /\ IF s = "rejected" THEN Close(d, s)
         ELSE /\ disputes' = [disputes EXCEPT ![d] = [@ EXCEPT !.status = s, !.upheld = upheld]]
              /\ UNCHANGED <<settlementVars, owedBack, credited, clawed>>

\* reverify raises: the dispute is left under review.
AdjudicateRaises(d) ==
  /\ Live(d) /\ ~disputes[d].overdue
  /\ disputes' = [disputes EXCEPT ![d] = [@ EXCEPT !.status = "under_review"]]
  /\ UNCHANGED <<settlementVars, owedBack, credited, clawed>>

\* Called by adjudicate once the deadline has passed; expire itself does not look
\* at it, "The adjudication window closed" is its precondition.
Expire(d) ==
  /\ Live(d) /\ disputes[d].overdue
  /\ disputes' = [disputes EXCEPT ![d] =
       [@ EXCEPT !.status = "expired", !.upheld = disputes[d].disputed]]
  /\ UNCHANGED <<settlementVars, owedBack, credited, clawed>>

-----------------------------------------------------------------------------
(* Remedies.  The split table reversed is that of the first payout ever    *)
(* issued; without a payout nobody is reversed.                            *)

\* Mutant of Shares: only the serving node is reversed.
SharesOfNode(amount) == <<(amount * (10000 - TakeRateBps)) \div 10000, 0>>

Shares(amount) == <<(amount * (10000 - TakeRateBps)) \div 10000, (amount * TakeRateBps) \div 10000>>

Clawback(amount) ==
  IF payouts = <<>> THEN UNCHANGED <<pending, owedBack, clawed>>
  ELSE LET p == payouts[1].party
           share == Shares(amount)[1]
           take == Minimum2(share, pending[p])
       IN  /\ clawed' = clawed + share + Shares(amount)[2]
           /\ IF status[p] = "none" THEN UNCHANGED <<pending, owedBack>>
              ELSE /\ pending' = [pending EXCEPT ![p] = @ - take]
                   /\ owedBack' = [owedBack EXCEPT ![p] = @ + share - take]

\* Mutant of Resolvable: a dispute that has its remedy may be given another.
ResolvableAgain(d) == disputes[d].status \in {"upheld", "partially_upheld", "expired"}

Resolvable(d) ==
  /\ disputes[d].status \in {"upheld", "partially_upheld", "expired"}
  /\ disputes[d].remedy = "none"

Lowered(inv, amount) == [inv EXCEPT !.credits = @ - amount, !.total = AtLeastZero(@ - amount)]

Credit(d) ==
  LET x == disputes[d]
      i == x.invoice
      lowered == [invoices EXCEPT ![i] = Lowered(@, x.upheld)]
  IN  /\ Resolvable(d)
      /\ Clawback(x.upheld)
      /\ credited' = credited + x.upheld
      /\ disputes' = [disputes EXCEPT ![d] =
           [@ EXCEPT !.remedy = "credit", !.split = payouts # <<>>, !.clawback = clawed' - clawed]]
      /\ invoices' = Restored(disputes', lowered, i)
      /\ UNCHANGED <<accounts, settled, disbursed, payouts, accruals>>

MakeGood(d, cpm) ==
  LET n == (disputes[d].upheld * 1000) \div cpm
  IN  /\ Resolvable(d)
      /\ disputes' = [disputes EXCEPT ![d] =
           [@ EXCEPT !.remedy = "make_good", !.owed = IF n = 0 THEN 1 ELSE n]]
      /\ invoices' = Restored(disputes', invoices, disputes[d].invoice)
      /\ UNCHANGED <<accounts, balances, payouts, accruals, owedBack, credited, clawed>>

DeliverMakeGood(d, n) ==
  /\ disputes[d].remedy = "make_good"
  /\ disputes' = [disputes EXCEPT ![d] = [@ EXCEPT !.made = Minimum2(disputes[d].owed, disputes[d].made + n)]]
  /\ UNCHANGED <<settlementVars, owedBack, credited, clawed>>

BillingNext ==
  \/ \E i \in DOMAIN invoices, g \in Amounts : OpenDispute(i, g)
  \/ \E d \in DOMAIN disputes :
       \/ Withdraw(d) \/ Overdue(d) \/ AdjudicateRaises(d) \/ Expire(d) \/ Credit(d)
       \/ \E f, v \in Amounts \cup {0} : Adjudicate(d, f, v)
       \/ \E cpm \in Makes : MakeGood(d, cpm)
       \/ DeliverMakeGood(d, 1)

Next == (SettlementNext /\ UNCHANGED billingVars) \/ BillingNext

Spec == Init /\ [][Next]_vars

-----------------------------------------------------------------------------
DisputeRecord ==
  [invoice : Nat, status : TERMINAL \cup {"open", "under_review"}, disputed : Nat, upheld : Nat,
   overdue : BOOLEAN, remedy : {"none", "credit", "make_good"}, clawback : Nat, split : BOOLEAN,
   owed : Nat, made : Nat]

TypeOK ==
  /\ SettlementTypeOK
  /\ disputes \in Seq(DisputeRecord)
  /\ owedBack \in [Accounts -> Nat] /\ credited \in Nat /\ clawed \in Nat

\* "An invoice is only disputed while a dispute is actually open on it"
\* (_restore_invoice), and as long as one is: no withdrawal, rejection or remedy
\* of another dispute of the invoice makes the amount collectible.
OpenDisputeHoldsInvoice ==
  \A d \in DOMAIN disputes :
    disputes[d].status \notin TERMINAL => invoices[disputes[d].invoice].status = "disputed"

Credits == {d \in DOMAIN disputes : disputes[d].remedy = "credit"}
Unmatched == {d \in Credits : ~disputes[d].split}

\* Billing.imbalance: what the exchange absorbs.  In whatever order credits,
\* payouts and calls on credited disputes come, it is never less than the credits
\* given before the first payout, which nobody is reversed for, and more than
\* those by no more than a micro for each other credit: no clawback is for more
\* than its credit.  That it should be zero is ImbalanceZero, below.
AbsorbedIsBounded ==
  credited - clawed - SumFunctionOnSet([d \in DOMAIN disputes |-> disputes[d].upheld], Unmatched)
    \in 0..Cardinality(Credits \ Unmatched)

\* A dispute has one remedy: once it is credited or made good no later call, in
\* any state the dispute can still reach, changes that or moves its amounts.
RemedyIsFinal ==
  [][\A d \in DOMAIN disputes :
       disputes[d].remedy # "none" =>
         /\ disputes'[d].remedy = disputes[d].remedy
         /\ disputes'[d].clawback = disputes[d].clawback
         /\ disputes'[d].upheld = disputes[d].upheld]_vars

-----------------------------------------------------------------------------
(* What the documents promise and the code does not keep.                   *)

\* billing.py: "`Billing.imbalance()` reports the running difference and the tests
\* assert it stays zero", SPEC.md 10.4: a credit "MUST be matched by a clawback".
ImbalanceZero == credited = clawed

CreditsOn(i) ==
  SumFunctionOnSet([d \in DOMAIN disputes |-> disputes[d].upheld],
                   {d \in DOMAIN disputes : disputes[d].invoice = i /\ disputes[d].remedy = "credit"})

\* SPEC.md 10.2: "The same amount MUST NOT be credited twice": no invoice is
\* credited more than it was issued for.
CreditedOnce == \A i \in DOMAIN invoices : CreditsOn(i) <= invoices[i].issued

\* billing.py: a credit is matched "by a clawback from the parties paid for the
\* same impressions": the payee reversed is the one the invoice's impressions
\* were served by.
ClawbackFromServer ==
  [][\A d \in DOMAIN disputes, p \in Payees :
       /\ disputes[d].remedy = "none" /\ disputes'[d].remedy = "credit"
       /\ pending'[p] < pending[p] \/ owedBack'[p] > owedBack[p]
         => p = invoices[disputes[d].invoice].served]_vars
=============================================================================
