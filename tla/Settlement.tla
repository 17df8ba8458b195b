----------------------------- MODULE Settlement -----------------------------
(***************************************************************************)
(* Accounts, invoices and payouts: uap/settlement.py.  Every entity has at *)
(* most one account (by_entity), so an account is named by its entity.     *)
(* Spend authorisation is left out: check_spend changes nothing, and only  *)
(* fund, which it reads, moves an advertiser's settled balance.            *)
(***************************************************************************)
EXTENDS Split, SequencesExt

CONSTANTS
  Advertisers, Payees,   \* entities of kind advertiser, and of a kind in PAYEE_KINDS
  OnHold,                \* payees whose payout configuration says on_hold
  Minimum,               \* minimum_micros of a payout
  Amounts,               \* gross amounts of impressions, invoices and payouts
  Adjustments,           \* adjustments an invoice may be issued with, 0 for none
  Withholdings,          \* amounts withheld from a payout
  MaxAccruals, MaxInvoices, MaxPayouts   \* bounds of the model

Accounts == Advertisers \cup Payees

ASSUME SettlementAssumption ==
  /\ Minimum \in Nat
  /\ Amounts \subseteq Nat \ {0} /\ Adjustments \subseteq Int /\ Withholdings \subseteq Nat
  /\ OnHold \subseteq Payees /\ Advertisers \cap Payees = {}
  /\ MaxAccruals \in Nat /\ MaxInvoices \in Nat /\ MaxPayouts \in Nat

VARIABLES
  status,      \* of each account, "none" before create_account
  form,        \* payees with a tax form on file
  pending, settled, disbursed,   \* the balance of each account
  invoices, payouts,
  accruals     \* how many impressions were accrued

accounts == <<status, form>>
balances == <<pending, settled, disbursed>>
settlementVars == <<accounts, balances, invoices, payouts, accruals>>

Zero == [a \in Accounts |-> 0]

SettlementInit ==
  /\ status = [a \in Accounts |-> "none"] /\ form = {}
  /\ pending = Zero /\ settled = Zero /\ disbursed = Zero
  /\ invoices = <<>> /\ payouts = <<>> /\ accruals = 0

\* Mutant of AtLeastZero: no clamp.
Unclamped(n) == n

AtLeastZero(n) == IF n < 0 THEN 0 ELSE n

CreateAccount(a) ==
  /\ status[a] = "none"          \* else UAP_ACCOUNT_EXISTS
  /\ status' = [status EXCEPT ![a] = "pending_verification"]
  /\ UNCHANGED <<form, balances, invoices, payouts, accruals>>

\* A tax form is kept when a later verification does not name one.
VerifyAccount(a, withForm) ==
  /\ status[a] # "none"
  /\ status' = [status EXCEPT ![a] = "active"]
  /\ form' = IF withForm /\ a \in Payees THEN form \cup {a} ELSE form
  /\ UNCHANGED <<balances, invoices, payouts, accruals>>

\* A billable verdict of `gross`, served by p: each side that has an account.
Accrue(gross, p, advertiser) ==
  LET has(a) == status[a] # "none"
      due == [a \in Accounts |-> IF ~has(a) THEN 0
                                 ELSE IF a = advertiser THEN gross
                                 ELSE IF a = p THEN Settle(gross)[1] ELSE 0]
  IN  /\ accruals < MaxAccruals /\ accruals' = accruals + 1
      /\ pending' = [a \in Accounts |-> pending[a] + due[a]]
      /\ UNCHANGED <<accounts, settled, disbursed, invoices, payouts>>

\* `served` is who the invoiced impressions were served by: the code keeps no
\* such field, the receipts behind the lines say it.
IssueInvoice(a, amount, adjustment, served) ==
  /\ status[a] # "none" /\ Len(invoices) < MaxInvoices
  /\ invoices' = Append(invoices,
       [account |-> a, status |-> "issued", issued |-> AtLeastZero(amount + adjustment),
        total |-> AtLeastZero(amount + adjustment),
        credits |-> IF adjustment < 0 THEN adjustment ELSE 0,   \* negative adjustments
        served |-> served])
  /\ UNCHANGED <<accounts, balances, payouts, accruals>>

\* Settlement.dispute_invoice.  The amounts it writes, held_micros and
\* collectible_micros, are read by nothing and never released: left out.
DisputeInvoice(i, amount) ==
  /\ invoices[i].status \in {"issued", "disputed"}
  /\ amount <= invoices[i].total
  /\ invoices' = [invoices EXCEPT ![i] = [@ EXCEPT !.status = "disputed"]]
  /\ UNCHANGED <<accounts, balances, payouts, accruals>>

PayoutStatus(p, net) ==
  IF p \in OnHold \/ p \notin form THEN "held"
  ELSE IF net < Minimum THEN "rolled_over" ELSE "pending"

\* A payout of p over the split table of an amount served by `party`; a table
\* that does not list p pays it the whole amount.
IssuePayout(p, gross, party, withheld) ==
  LET share == IF party = p THEN Settle(gross)[1] ELSE gross
      net == AtLeastZero(share - withheld)
      s == PayoutStatus(p, net)
  IN  /\ status[p] # "none" /\ Len(payouts) < MaxPayouts
      /\ payouts' = Append(payouts, [account |-> p, status |-> s, net |-> net, party |-> party])
      /\ IF s = "pending"
         THEN /\ pending' = [pending EXCEPT ![p] = AtLeastZero(@ - share)]
              /\ settled' = [settled EXCEPT ![p] = @ + net]
         ELSE UNCHANGED <<pending, settled>>
      /\ UNCHANGED <<accounts, disbursed, invoices, accruals>>

\* Mutant of MarkSent: a payout that is not pending is sent too.
MarkSentAny(k) ==
  LET p == payouts[k]
  IN  /\ payouts' = [payouts EXCEPT ![k] = [@ EXCEPT !.status = "sent"]]
      /\ settled' = [settled EXCEPT ![p.account] = AtLeastZero(@ - p.net)]
      /\ disbursed' = [disbursed EXCEPT ![p.account] = @ + p.net]
      /\ UNCHANGED <<accounts, pending, invoices, accruals>>

MarkSent(k) ==
  LET p == payouts[k]
  IN  /\ p.status = "pending"
      /\ payouts' = [payouts EXCEPT ![k] = [@ EXCEPT !.status = "sent"]]
      /\ settled' = [settled EXCEPT ![p.account] = AtLeastZero(@ - p.net)]
      /\ disbursed' = [disbursed EXCEPT ![p.account] = @ + p.net]
      /\ UNCHANGED <<accounts, pending, invoices, accruals>>

SettlementNext ==
  \/ \E a \in Accounts : CreateAccount(a) \/ \E f \in BOOLEAN : VerifyAccount(a, f)
  \/ \E g \in Amounts, p \in Payees, a \in Advertisers : Accrue(g, p, a)
  \/ \E a \in Advertisers, g \in Amounts, d \in Adjustments, p \in Payees : IssueInvoice(a, g, d, p)
  \/ \E i \in DOMAIN invoices, g \in Amounts : DisputeInvoice(i, g)
  \/ \E p, party \in Payees, g \in Amounts, w \in Withholdings : IssuePayout(p, g, party, w)
  \/ \E k \in DOMAIN payouts : MarkSent(k)

-----------------------------------------------------------------------------
InvoiceRecord ==
  [account : Advertisers, status : {"issued", "disputed", "paid"}, issued : Nat, total : Nat,
   credits : Int, served : Payees]
PayoutRecord ==
  [account : Payees, status : {"held", "rolled_over", "pending", "sent"}, net : Nat, party : Payees]

SettlementTypeOK ==
  /\ status \in [Accounts -> {"none", "pending_verification", "active"}] /\ form \subseteq Payees
  /\ pending \in [Accounts -> Nat] /\ settled \in [Accounts -> Nat] /\ disbursed \in [Accounts -> Nat]
  /\ invoices \in Seq(InvoiceRecord) /\ payouts \in Seq(PayoutRecord)
  /\ accruals \in Nat

NetOf(p, s) ==
  SumFunctionOnSet([k \in DOMAIN payouts |-> payouts[k].net],
                   {k \in DOMAIN payouts : payouts[k].account = p /\ payouts[k].status = s})

\* Whatever is paid out, held, rolled over or clawed back in between: what is
\* settled for a payee is exactly its payouts that can be sent, what is disbursed
\* exactly those that were, so no payout is sent twice and the clamp of mark_sent
\* at zero never swallows a micro.
PayoutsBacked ==
  \A p \in Payees : settled[p] = NetOf(p, "pending") /\ disbursed[p] = NetOf(p, "sent")
=============================================================================
