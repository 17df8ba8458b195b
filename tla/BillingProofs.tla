--------------------------- MODULE BillingProofs ---------------------------
(***************************************************************************)
(* What billing guarantees of every sequence of calls, for every set of    *)
(* accounts and amounts.                                                   *)
(***************************************************************************)
EXTENDS Billing, DataLemmas, SequenceTheorems

(***************************************************************************)
(* Amounts.                                                                *)
(***************************************************************************)
\* The clamp at zero and the smaller of two amounts are amounts.
LEMMA Clamped == ASSUME NEW n \in Int PROVE AtLeastZero(n) \in Nat
BY DEF AtLeastZero

LEMMA Smaller ==
  ASSUME NEW a \in Nat, NEW b \in Nat
  PROVE  Minimum2(a, b) \in Nat /\ Minimum2(a, b) <= a /\ Minimum2(a, b) <= b
BY DEF Minimum2

\* Settlement is exact, and each share is within a micro of its rate (DivideExact).
LEMMA SettleExact ==
  ASSUME NEW gross \in Nat
  PROVE  LET s == Settle(gross)
         IN  /\ s \in Nat \X Nat
             /\ s[1] + s[2] = gross
             /\ Rounded(s[1], gross * (10000 - TakeRateBps))
             /\ Rounded(s[2], gross * TakeRateBps)
<1> DEFINE node == gross * (10000 - TakeRateBps)
           exchange == gross * TakeRateBps
<1>1. node \in Nat /\ exchange \in Nat /\ node + exchange = 10000 * gross
  BY SplitAssumption
<1> HIDE DEF node, exchange
<1> QED BY <1>1, DivideExact DEF Settle, Rounded, node, exchange

\* The floors of a clawback cover the amount but for one micro.
LEMMA SharesCover ==
  ASSUME NEW amount \in Nat
  PROVE  /\ Shares(amount)[1] \in Nat /\ Shares(amount)[2] \in Nat
         /\ amount - (Shares(amount)[1] + Shares(amount)[2]) \in 0..1
<1> DEFINE node == amount * (10000 - TakeRateBps)
           exchange == amount * TakeRateBps
<1>1. /\ node \in Nat /\ exchange \in Nat /\ node + exchange = 10000 * amount
  BY SplitAssumption
<1>2. Shares(amount) = <<node \div 10000, exchange \div 10000>> BY DEF Shares
<1> HIDE DEF node, exchange
<1> DEFINE a == node \div 10000
           b == node % 10000
           c == exchange \div 10000
           d == exchange % 10000
<1>3. /\ a \in Nat /\ b \in Nat /\ b < 10000 /\ node = 10000 * a + b
      /\ c \in Nat /\ d \in Nat /\ d < 10000 /\ exchange = 10000 * c + d
  BY <1>1
<1>4. Shares(amount)[1] = a /\ Shares(amount)[2] = c BY <1>2
<1> HIDE DEF a, b, c, d
<1>5. amount = a + c \/ amount = a + c + 1 BY <1>1, <1>3, Remainders
<1> QED BY <1>3, <1>4, <1>5

(***************************************************************************)
(* Sequences of records.                                                   *)
(***************************************************************************)
\* Replacing one element of a sequence.
LEMMA Replaced ==
  ASSUME NEW S, NEW s \in Seq(S), NEW i \in DOMAIN s, NEW x \in S
  PROVE  /\ [s EXCEPT ![i] = x] \in Seq(S)
         /\ DOMAIN [s EXCEPT ![i] = x] = DOMAIN s
         /\ [s EXCEPT ![i] = x][i] = x
         /\ \A j \in DOMAIN s : j # i => [s EXCEPT ![i] = x][j] = s[j]
<1>1. DOMAIN s = 1..Len(s) BY LenProperties
<1> QED BY <1>1, ExceptSeq

\* Adding one element to a sequence.
LEMMA Added ==
  ASSUME NEW S, NEW s \in Seq(S), NEW x \in S
  PROVE  /\ Append(s, x) \in Seq(S)
         /\ DOMAIN s \subseteq DOMAIN Append(s, x)
         /\ DOMAIN Append(s, x) = DOMAIN s \cup {Len(s) + 1}
         /\ Append(s, x)[Len(s) + 1] = x
         /\ \A j \in DOMAIN s : Append(s, x)[j] = s[j]
<1>1. Len(s) \in Nat /\ DOMAIN s = 1..Len(s) BY LenProperties
<1>2. Append(s, x) \in Seq(S) /\ Len(Append(s, x)) = Len(s) + 1 BY AppendProperties
<1>3. DOMAIN Append(s, x) = 1..Len(s) + 1 BY <1>2, LenProperties
<1>4. 1..Len(s) + 1 = (1..Len(s)) \cup {Len(s) + 1} BY <1>1
<1> QED BY <1>1, <1>2, <1>3, <1>4, AppendProperties

(***************************************************************************)
(* The settlement's own calls.                                             *)
(***************************************************************************)
\* A call of the settlement adds an invoice or marks one disputed.
InvoicesHeld ==
  \A i \in DOMAIN invoices :
    /\ i \in DOMAIN invoices'
    /\ invoices'[i].status \in {invoices[i].status, "disputed"}

LEMMA InvoiceCalls ==
  ASSUME SettlementTypeOK, SettlementNext
  PROVE  invoices' \in Seq(InvoiceRecord) /\ InvoicesHeld
<1>1. invoices \in Seq(InvoiceRecord) BY DEF SettlementTypeOK
<1>2. CASE UNCHANGED invoices BY <1>1, <1>2 DEF InvoicesHeld
<1>3. ASSUME NEW a \in Advertisers, NEW g \in Amounts, NEW d \in Adjustments, NEW p \in Payees,
             IssueInvoice(a, g, d, p)
      PROVE  invoices' \in Seq(InvoiceRecord) /\ InvoicesHeld
  <2>1. g \in Nat /\ d \in Int BY SettlementAssumption
  <2>2. AtLeastZero(g + d) \in Nat BY <2>1, Clamped
  <2> DEFINE x == [account |-> a, status |-> "issued", issued |-> AtLeastZero(g + d),
                   total |-> AtLeastZero(g + d), credits |-> IF d < 0 THEN d ELSE 0, served |-> p]
  <2>3. x \in InvoiceRecord BY <2>1, <2>2 DEF InvoiceRecord
  <2>4. invoices' = Append(invoices, x) BY <1>3 DEF IssueInvoice
  <2> HIDE DEF x
  <2> QED BY <1>1, <2>3, <2>4, Added DEF InvoicesHeld
<1>4. ASSUME NEW i \in DOMAIN invoices, NEW g \in Amounts, DisputeInvoice(i, g)
      PROVE  invoices' \in Seq(InvoiceRecord) /\ InvoicesHeld
  <2> DEFINE x == [invoices[i] EXCEPT !.status = "disputed"]
  <2>1. invoices[i] \in InvoiceRecord BY <1>1, <1>4, LenProperties, ElementOfSeq
  <2>2. x \in InvoiceRecord /\ x.status = "disputed" BY <2>1 DEF InvoiceRecord
  <2>3. invoices' = [invoices EXCEPT ![i] = x] BY <1>4 DEF DisputeInvoice
  <2> HIDE DEF x
  <2> QED BY <1>1, <2>2, <2>3, Replaced DEF InvoicesHeld
<1>5. \A a \in Accounts, f \in BOOLEAN : CreateAccount(a) \/ VerifyAccount(a, f) => UNCHANGED invoices
  BY DEF CreateAccount, VerifyAccount
<1>6. \A g, p, q, a, w : Accrue(g, p, a) \/ IssuePayout(p, g, q, w) => UNCHANGED invoices
  <2>1. \A g, p, a : Accrue(g, p, a) => UNCHANGED invoices BY DEF Accrue
  <2>2. ASSUME NEW g, NEW p, NEW q, NEW w, IssuePayout(p, g, q, w) PROVE UNCHANGED invoices
    BY <2>2 DEF IssuePayout
  <2> QED BY Zenon, <2>1, <2>2
<1>7. \A k : MarkSent(k) => UNCHANGED invoices BY Zenon DEF MarkSent
<1> QED BY Zenon, <1>2, <1>3, <1>4, <1>5, <1>6, <1>7 DEF SettlementNext

\* The split of an amount, in the whole micros settle returns.
LEMMA Parts == ASSUME NEW g \in Amounts PROVE g \in Nat /\ Settle(g)[1] \in Nat
<1>1. g \in Nat BY SettlementAssumption
<1>2. Settle(g) \in Nat \X Nat BY <1>1, SettleExact
<1> QED BY <1>1, <1>2

LEMMA SettlementTypes ==
  ASSUME SettlementTypeOK, SettlementNext
  PROVE  SettlementTypeOK'
<1> USE DEF SettlementTypeOK, accounts, balances
<1>1. invoices' \in Seq(InvoiceRecord) BY InvoiceCalls
<1>2. ASSUME NEW a \in Accounts, CreateAccount(a) \/ \E f \in BOOLEAN : VerifyAccount(a, f)
      PROVE  SettlementTypeOK'
  BY <1>1, <1>2 DEF CreateAccount, VerifyAccount
<1>3. ASSUME NEW g \in Amounts, NEW p \in Payees, NEW advertiser \in Advertisers,
             Accrue(g, p, advertiser)
      PROVE  SettlementTypeOK'
  <2>1. g \in Nat /\ Settle(g)[1] \in Nat BY Parts
  <2> DEFINE due == [a \in Accounts |-> IF ~(status[a] # "none") THEN 0
                                        ELSE IF a = advertiser THEN g
                                        ELSE IF a = p THEN Settle(g)[1] ELSE 0]
  <2>2. due \in [Accounts -> Nat] BY <2>1
  <2>3. pending' = [a \in Accounts |-> pending[a] + due[a]] BY <1>3 DEF Accrue
  <2> HIDE DEF due
  <2>4. pending' \in [Accounts -> Nat] BY <2>2, <2>3
  <2> QED BY <1>1, <1>3, <2>4 DEF Accrue
<1>4. ASSUME NEW p \in Payees, NEW party \in Payees, NEW g \in Amounts, NEW w \in Withholdings,
             IssuePayout(p, g, party, w)
      PROVE  SettlementTypeOK'
  <2> DEFINE share == IF party = p THEN Settle(g)[1] ELSE g
             net == AtLeastZero(share - w)
             x == [account |-> p, status |-> PayoutStatus(p, net), net |-> net, party |-> party]
  <2>1. share \in Nat /\ w \in Nat BY Parts, SettlementAssumption
  <2>2. payouts' = Append(payouts, x)
        /\ \/ /\ pending' = [pending EXCEPT ![p] = AtLeastZero(@ - share)]
              /\ settled' = [settled EXCEPT ![p] = @ + net]
           \/ UNCHANGED <<pending, settled>>
    BY <1>4 DEF IssuePayout
  <2> HIDE DEF share
  <2>3. net \in Nat
    <3>1. share - w \in Int BY ONLY <2>1
    <3> QED BY ONLY <3>1, Clamped
  <2> HIDE DEF net
  <2>4. x \in PayoutRecord BY <2>3 DEF PayoutRecord, PayoutStatus
  <2> HIDE DEF x
  <2>5. payouts' \in Seq(PayoutRecord) BY <2>2, <2>4, Added
  <2>6. p \in Accounts BY DEF Accounts
  <2>7. AtLeastZero(pending[p] - share) \in Nat
    <3>1. pending[p] - share \in Int BY <2>1, <2>6
    <3> QED BY ONLY <3>1, Clamped
  <2>8. pending' \in [Accounts -> Nat] /\ settled' \in [Accounts -> Nat]
    BY <2>2, <2>3, <2>6, <2>7
  <2> QED BY <1>1, <1>4, <2>5, <2>8 DEF IssuePayout
<1>5. ASSUME NEW k \in DOMAIN payouts, MarkSent(k)
      PROVE  SettlementTypeOK'
  <2>1. payouts[k] \in PayoutRecord BY LenProperties, ElementOfSeq
  <2> DEFINE x == [payouts[k] EXCEPT !.status = "sent"]
             a == payouts[k].account
  <2>2. x \in PayoutRecord /\ a \in Accounts /\ payouts[k].net \in Nat
    BY <2>1 DEF PayoutRecord, Accounts
  <2>3. payouts' = [payouts EXCEPT ![k] = x] BY <1>5 DEF MarkSent
  <2> HIDE DEF x
  <2>4. payouts' \in Seq(PayoutRecord) BY <2>2, <2>3, Replaced
  <2>5. /\ settled' = [settled EXCEPT ![a] = AtLeastZero(@ - payouts[k].net)]
        /\ disbursed' = [disbursed EXCEPT ![a] = @ + payouts[k].net]
    BY <1>5 DEF MarkSent
  <2> HIDE DEF a
  <2>6. AtLeastZero(settled[a] - payouts[k].net) \in Nat
    <3>1. settled[a] - payouts[k].net \in Int BY <2>2
    <3> QED BY ONLY <3>1, Clamped
  <2>7. settled' \in [Accounts -> Nat] /\ disbursed' \in [Accounts -> Nat]
    BY <2>2, <2>5, <2>6
  <2> QED BY <1>1, <1>5, <2>4, <2>7 DEF MarkSent
<1>6. ASSUME NEW a \in Advertisers, NEW g \in Amounts, NEW d \in Adjustments, NEW p \in Payees,
             IssueInvoice(a, g, d, p)
      PROVE  SettlementTypeOK'
  BY <1>1, <1>6 DEF IssueInvoice
<1>7. ASSUME NEW i \in DOMAIN invoices, NEW g \in Amounts, DisputeInvoice(i, g)
      PROVE  SettlementTypeOK'
  BY <1>1, <1>7 DEF DisputeInvoice
<1> QED BY <1>2, <1>3, <1>4, <1>5, <1>6, <1>7 DEF SettlementNext

(***************************************************************************)
(* The inductive invariant.  That a remedied dispute is closed, and that an *)
(* expired one is past its deadline and upheld in full, is what keeps a    *)
(* later call from reopening a dispute or moving its amounts.              *)
(***************************************************************************)
\* A credit given under some split table is clawed back but for a micro, one given
\* before the first payout not at all.
Covered(dispute) ==
  dispute.remedy = "credit" =>
    IF dispute.split THEN dispute.upheld - dispute.clawback \in 0..1 ELSE dispute.clawback = 0

Sound(dispute) ==
  /\ dispute.status = "expired" => dispute.overdue /\ dispute.upheld = dispute.disputed
  /\ dispute.remedy # "none" => dispute.status \in TERMINAL
  /\ Covered(dispute)

DisputesSound ==
  \A d \in DOMAIN disputes : Sound(disputes[d]) /\ disputes[d].invoice \in DOMAIN invoices

Inv == TypeOK /\ DisputesSound /\ OpenDisputeHoldsInvoice

\* What a call may make of one dispute.
Successor(old, new) ==
  /\ new \in DisputeRecord /\ Sound(new) /\ new.invoice = old.invoice
  /\ new.status \notin TERMINAL => old.status \notin TERMINAL
  /\ old.remedy # "none" =>
       new.remedy = old.remedy /\ new.clawback = old.clawback /\ new.upheld = old.upheld

DisputeStep(d) ==
  \/ Withdraw(d) \/ Overdue(d) \/ AdjudicateRaises(d) \/ Expire(d) \/ Credit(d)
  \/ \E f, v \in Amounts \cup {0} : Adjudicate(d, f, v)
  \/ \E cpm \in Makes : MakeGood(d, cpm)
  \/ DeliverMakeGood(d, 1)

\* What is credited from a dispute is what its clawback covers.
LEMMA ClawedBack ==
  ASSUME TypeOK, NEW d \in DOMAIN disputes, Credit(d)
  PROVE  /\ clawed' - clawed \in Nat
         /\ IF payouts # <<>> THEN disputes[d].upheld - (clawed' - clawed) \in 0..1
                              ELSE clawed' - clawed = 0
         /\ pending' \in [Accounts -> Nat] /\ owedBack' \in [Accounts -> Nat]
         /\ credited' \in Nat /\ clawed' \in Nat
<1> DEFINE u == disputes[d].upheld
           share == Shares(u)[1]
           rest == Shares(u)[2]
<1>1. disputes[d] \in DisputeRecord BY LenProperties, ElementOfSeq DEF TypeOK
<1>2. u \in Nat BY <1>1 DEF DisputeRecord
<1>3. share \in Nat /\ rest \in Nat /\ u - (share + rest) \in 0..1 BY <1>2, SharesCover
<1>4. Clawback(u) /\ credited' = credited + u BY DEF Credit
<1>5. /\ clawed \in Nat /\ credited \in Nat
      /\ pending \in [Accounts -> Nat] /\ owedBack \in [Accounts -> Nat]
  BY DEF TypeOK, SettlementTypeOK
<1> HIDE DEF u
<1>6. CASE payouts = <<>>
  <2>1. UNCHANGED <<pending, owedBack, clawed>> BY <1>4, <1>6 DEF Clawback
  <2> QED BY <1>2, <1>4, <1>5, <1>6, <2>1
<1>7. CASE payouts # <<>>
  <2> DEFINE p == payouts[1].party
             take == Minimum2(share, pending[p])
  <2>1. clawed' = clawed + share + rest BY <1>4, <1>7 DEF Clawback
  <2>2. \/ UNCHANGED <<pending, owedBack>>
        \/ /\ pending' = [pending EXCEPT ![p] = @ - take]
           /\ owedBack' = [owedBack EXCEPT ![p] = @ + share - take]
    BY <1>4, <1>7 DEF Clawback
  <2>3. p \in Accounts
    <3>1. payouts \in Seq(PayoutRecord) BY DEF TypeOK, SettlementTypeOK
    <3>2. 1 \in 1..Len(payouts) BY <1>7, <3>1
    <3>3. payouts[1] \in PayoutRecord BY <3>1, <3>2, ElementOfSeq
    <3> QED BY <3>3 DEF PayoutRecord, Accounts
  <2> HIDE DEF share, rest, p
  <2>4. pending[p] \in Nat /\ owedBack[p] \in Nat BY <1>5, <2>3
  <2>5. take \in Nat /\ take <= share /\ take <= pending[p] BY <1>3, <2>4, Smaller
  <2> HIDE DEF take
  <2>6. pending[p] - take \in Nat /\ owedBack[p] + share - take \in Nat
    BY <1>3, <2>4, <2>5
  <2>7. pending' \in [Accounts -> Nat] /\ owedBack' \in [Accounts -> Nat]
    BY <1>5, <2>2, <2>3, <2>6
  <2>8. clawed' \in Nat /\ clawed' - clawed = share + rest BY <1>3, <1>5, <2>1
  <2>9. credited' \in Nat BY <1>2, <1>4, <1>5
  <2> QED BY <1>3, <1>7, <2>7, <2>8, <2>9 DEF u
<1> QED BY <1>6, <1>7

\* Every call on a dispute replaces it by a successor.
LEMMA OneDispute ==
  ASSUME Inv, NEW d \in DOMAIN disputes, DisputeStep(d)
  PROVE  \E x : Successor(disputes[d], x) /\ disputes' = [disputes EXCEPT ![d] = x]
<1> DEFINE old == disputes[d]
<1>1. disputes \in Seq(DisputeRecord) BY DEF Inv, TypeOK
<1>2. old \in DisputeRecord BY <1>1, LenProperties, ElementOfSeq
<1>3. Sound(old) BY DEF Inv, DisputesSound
<1>4. Live(d) /\ old.remedy # "none" => old.status = "expired"
  BY <1>3 DEF Live, Sound
<1>5. CASE Withdraw(d)
  <2> DEFINE x == [old EXCEPT !.status = "withdrawn"]
  <2>1. disputes' = [disputes EXCEPT ![d] = x] BY <1>5 DEF Withdraw, Close
  <2>2. Successor(old, x)
    BY <1>2, <1>3 DEF Successor, Sound, Covered, DisputeRecord, TERMINAL
  <2> QED BY <2>1, <2>2
<1>6. CASE Overdue(d)
  <2> DEFINE x == [old EXCEPT !.overdue = TRUE]
  <2>1. disputes' = [disputes EXCEPT ![d] = x] BY <1>6 DEF Overdue
  <2>2. Successor(old, x)
    BY <1>2, <1>3 DEF Successor, Sound, Covered, DisputeRecord
  <2> QED BY <2>1, <2>2
<1>7. CASE AdjudicateRaises(d)
  <2> DEFINE x == [old EXCEPT !.status = "under_review"]
  <2>1. disputes' = [disputes EXCEPT ![d] = x] /\ Live(d) /\ ~old.overdue
    BY <1>7 DEF AdjudicateRaises
  <2>2. old.status \notin TERMINAL /\ old.remedy = "none"
    BY <1>3, <2>1 DEF Live, Sound
  <2>3. Successor(old, x)
    BY <1>2, <1>3, <2>2 DEF Successor, Sound, Covered, DisputeRecord
  <2> QED BY <2>1, <2>3
<1>8. CASE Expire(d)
  <2> DEFINE x == [old EXCEPT !.status = "expired", !.upheld = old.disputed]
  <2>1. disputes' = [disputes EXCEPT ![d] = x] /\ Live(d) /\ old.overdue BY <1>8 DEF Expire
  <2>2. old.remedy # "none" => old.upheld = old.disputed BY <1>3, <1>4, <2>1 DEF Sound
  <2>3. x \in DisputeRecord BY <1>2 DEF DisputeRecord, TERMINAL
  <2>4. Sound(x)
    BY <1>2, <1>3, <2>1, <2>2 DEF Sound, Covered, DisputeRecord, TERMINAL
  <2>5. Successor(old, x)
    BY <1>2, <2>2, <2>3, <2>4 DEF Successor, DisputeRecord, TERMINAL
  <2> QED BY <2>1, <2>5
<1>9. CASE Credit(d)
  <2> DEFINE x == [old EXCEPT !.remedy = "credit", !.split = payouts # <<>>,
                              !.clawback = clawed' - clawed]
  <2>1. disputes' = [disputes EXCEPT ![d] = x] BY <1>9 DEF Credit
  <2>2. old.remedy = "none" /\ old.status \in {"upheld", "partially_upheld", "expired"}
    BY <1>9 DEF Credit, Resolvable
  <2>3. /\ clawed' - clawed \in Nat
        /\ IF payouts # <<>> THEN old.upheld - (clawed' - clawed) \in 0..1
                             ELSE clawed' - clawed = 0
    BY <1>9, ClawedBack DEF Inv
  <2>4. x \in DisputeRecord BY <1>2, <2>3 DEF DisputeRecord
  <2>5. /\ x.upheld = old.upheld /\ x.clawback = clawed' - clawed /\ x.split = (payouts # <<>>)
        /\ x.status = old.status /\ x.overdue = old.overdue /\ x.disputed = old.disputed
        /\ x.invoice = old.invoice
    BY <1>2 DEF DisputeRecord
  <2> HIDE DEF x
  <2>6. Covered(x) BY <2>3, <2>5 DEF Covered
  <2>7. Sound(x) BY <1>3, <2>2, <2>5, <2>6 DEF Sound, TERMINAL
  <2>8. Successor(old, x) BY <2>2, <2>4, <2>5, <2>7 DEF Successor
  <2> QED BY <2>1, <2>8
<1>10. ASSUME NEW f \in Amounts \cup {0}, NEW v \in Amounts \cup {0}, Adjudicate(d, f, v)
       PROVE  \E x : Successor(old, x) /\ disputes' = [disputes EXCEPT ![d] = x]
  <2> DEFINE u == Minimum2(f, old.disputed)
             s == IF u = 0 THEN "rejected" ELSE IF v = 0 THEN "upheld" ELSE "partially_upheld"
  <2>1. Live(d) /\ ~old.overdue BY <1>10 DEF Adjudicate
  <2>2. old.status \notin TERMINAL /\ old.remedy = "none" BY <1>3, <2>1 DEF Live, Sound
  <2>3. PICK w \in {u, old.upheld} :
          disputes' = [disputes EXCEPT ![d] = [@ EXCEPT !.status = s, !.upheld = w]]
    <3>1. CASE s = "rejected"
      <4>1. disputes' = [disputes EXCEPT ![d] = [@ EXCEPT !.status = s]]
        BY <1>10, <3>1 DEF Adjudicate, Close
      <4>2. [old EXCEPT !.status = s] = [old EXCEPT !.status = s, !.upheld = old.upheld]
        BY <1>2 DEF DisputeRecord
      <4> QED BY <4>1, <4>2
    <3>2. CASE s # "rejected" BY <1>10, <3>2 DEF Adjudicate
    <3> QED BY <3>1, <3>2
  <2> DEFINE x == [old EXCEPT !.status = s, !.upheld = w]
  <2>4. s \in {"rejected", "upheld", "partially_upheld"} OBVIOUS
  <2>5. w \in Nat
    <3>1. f \in Nat /\ old.disputed \in Nat BY <1>2, SettlementAssumption DEF DisputeRecord
    <3>2. u \in Nat BY <3>1, Smaller
    <3>3. old.upheld \in Nat BY <1>2 DEF DisputeRecord
    <3> QED BY <2>3, <3>2, <3>3
  <2>6. disputes' = [disputes EXCEPT ![d] = x] BY <2>3
  <2> HIDE DEF s, u
  <2>7. x \in DisputeRecord BY <1>2, <2>4, <2>5 DEF DisputeRecord, TERMINAL
  <2>8. x.status = s /\ x.remedy = "none" /\ x.invoice = old.invoice
    BY <1>2, <2>2 DEF DisputeRecord
  <2> HIDE DEF x
  <2>9. Sound(x) BY <2>4, <2>8 DEF Sound, Covered
  <2>10. Successor(old, x) BY <2>2, <2>7, <2>8, <2>9 DEF Successor
  <2> QED BY <2>6, <2>10
<1>11. ASSUME NEW cpm \in Makes, MakeGood(d, cpm)
       PROVE  \E x : Successor(old, x) /\ disputes' = [disputes EXCEPT ![d] = x]
  <2> DEFINE n == (old.upheld * 1000) \div cpm
             owed == IF n = 0 THEN 1 ELSE n
             x == [old EXCEPT !.remedy = "make_good", !.owed = owed]
  <2>1. disputes' = [disputes EXCEPT ![d] = x] BY <1>11 DEF MakeGood
  <2>2. old.remedy = "none" /\ old.status \in {"upheld", "partially_upheld", "expired"}
    BY <1>11 DEF MakeGood, Resolvable
  <2>3. owed \in Nat
    <3>1. old.upheld * 1000 \in Nat BY <1>2 DEF DisputeRecord
    <3>2. cpm \in Nat /\ cpm > 0 BY BillingAssumption
    <3>3. \A k \in Nat : k \div cpm \in Nat BY <3>2
    <3> QED BY <3>1, <3>3
  <2> HIDE DEF owed
  <2>4. x \in DisputeRecord BY <1>2, <2>3 DEF DisputeRecord
  <2>5. /\ x.remedy = "make_good" /\ x.upheld = old.upheld /\ x.status = old.status
        /\ x.overdue = old.overdue /\ x.disputed = old.disputed /\ x.invoice = old.invoice
    BY <1>2 DEF DisputeRecord
  <2> HIDE DEF x
  <2>6. Sound(x) BY <1>3, <2>2, <2>5 DEF Sound, Covered, TERMINAL
  <2>7. Successor(old, x) BY <2>2, <2>4, <2>5, <2>6 DEF Successor
  <2> QED BY <2>1, <2>7
<1>12. CASE DeliverMakeGood(d, 1)
  <2> DEFINE made == Minimum2(old.owed, old.made + 1)
             x == [old EXCEPT !.made = made]
  <2>1. disputes' = [disputes EXCEPT ![d] = x] BY <1>12 DEF DeliverMakeGood
  <2>2. made \in Nat
    <3>1. old.owed \in Nat /\ old.made + 1 \in Nat BY <1>2 DEF DisputeRecord
    <3> QED BY <3>1, Smaller
  <2> HIDE DEF made
  <2>3. Successor(old, x)
    BY <1>2, <1>3, <2>2 DEF Successor, Sound, Covered, DisputeRecord
  <2> QED BY <2>1, <2>3
<1> QED BY <1>5, <1>6, <1>7, <1>8, <1>9, <1>10, <1>11, <1>12 DEF DisputeStep

\* An invoice keeps its status unless no dispute of it is open any more.
InvoicesFollow ==
  /\ invoices' \in Seq(InvoiceRecord) /\ DOMAIN invoices' = DOMAIN invoices
  /\ \A j \in DOMAIN invoices :
       invoices'[j].status # invoices[j].status =>
         ~\E e \in DOMAIN disputes' : disputes'[e].invoice = j /\ disputes'[e].status \notin TERMINAL

\* _restore_invoice, applied to invoices whose amounts alone may have changed.
LEMMA RestoredFollows ==
  ASSUME TypeOK, NEW i \in DOMAIN invoices, NEW invs \in Seq(InvoiceRecord),
         DOMAIN invs = DOMAIN invoices,
         \A j \in DOMAIN invoices : invs[j].status = invoices[j].status,
         invoices' = Restored(disputes', invs, i)
  PROVE  InvoicesFollow
<1>1. CASE \E e \in DOMAIN disputes' : disputes'[e].invoice = i /\ disputes'[e].status \notin TERMINAL
  <2>1. invoices' = invs BY <1>1 DEF Restored
  <2> QED BY <2>1 DEF InvoicesFollow
<1>2. CASE ~\E e \in DOMAIN disputes' : disputes'[e].invoice = i /\ disputes'[e].status \notin TERMINAL
  <2> DEFINE x == Settled(invs[i])
  <2>1. invs[i] \in InvoiceRecord BY LenProperties, ElementOfSeq
  <2>2. x \in InvoiceRecord BY <2>1 DEF Settled, InvoiceRecord
  <2>3. invoices' = [invs EXCEPT ![i] = x] BY <1>2 DEF Restored
  <2> HIDE DEF x
  <2>4. /\ invoices' \in Seq(InvoiceRecord) /\ DOMAIN invoices' = DOMAIN invs
        /\ \A j \in DOMAIN invs : j # i => invoices'[j] = invs[j]
    BY <2>2, <2>3, Replaced
  <2> QED BY <1>2, <2>4 DEF InvoicesFollow
<1> QED BY <1>1, <1>2

LEMMA InvoiceStep ==
  ASSUME Inv, NEW d \in DOMAIN disputes, DisputeStep(d)
  PROVE  InvoicesFollow
<1> DEFINE i == disputes[d].invoice
           u == disputes[d].upheld
<1>1. invoices \in Seq(InvoiceRecord) BY DEF Inv, TypeOK, SettlementTypeOK
<1>2. i \in DOMAIN invoices BY DEF Inv, DisputesSound
<1>3. CASE UNCHANGED invoices BY <1>1, <1>3 DEF InvoicesFollow
<1>4. CASE invoices' = Restored(disputes', invoices, i)
  BY <1>1, <1>2, <1>4, RestoredFollows DEF Inv
<1>5. CASE Credit(d)
  <2> DEFINE x == Lowered(invoices[i], u)
             lowered == [invoices EXCEPT ![i] = x]
  <2>1. invoices' = Restored(disputes', lowered, i) BY <1>5 DEF Credit
  <2>2. disputes[d] \in DisputeRecord BY LenProperties, ElementOfSeq DEF Inv, TypeOK
  <2>3. invoices[i] \in InvoiceRecord BY <1>1, <1>2, LenProperties, ElementOfSeq
  <2>4. x \in InvoiceRecord /\ x.status = invoices[i].status
    <3>1. u \in Nat BY <2>2 DEF DisputeRecord
    <3>2. invoices[i].credits \in Int /\ invoices[i].total \in Nat BY <2>3 DEF InvoiceRecord
    <3>3. invoices[i].credits - u \in Int /\ invoices[i].total - u \in Int BY <3>1, <3>2
    <3>4. AtLeastZero(invoices[i].total - u) \in Nat BY ONLY <3>3, Clamped
    <3> HIDE DEF i, u
    <3> QED BY <2>3, <3>3, <3>4 DEF Lowered, InvoiceRecord
  <2> HIDE DEF x
  <2>5. /\ lowered \in Seq(InvoiceRecord) /\ DOMAIN lowered = DOMAIN invoices
        /\ lowered[i] = x /\ \A j \in DOMAIN invoices : j # i => lowered[j] = invoices[j]
    BY <1>1, <1>2, <2>4, Replaced
  <2> HIDE DEF lowered, i
  <2> QED BY <1>2, <2>1, <2>4, <2>5, RestoredFollows DEF Inv
<1>6. ASSUME NEW f \in Amounts \cup {0}, NEW v \in Amounts \cup {0}, Adjudicate(d, f, v)
      PROVE  InvoicesFollow
  BY <1>3, <1>4, <1>6 DEF Adjudicate, Close, settlementVars
<1>7. ASSUME NEW cpm \in Makes, MakeGood(d, cpm)
      PROVE  InvoicesFollow
  BY <1>4, <1>7 DEF MakeGood
<1> QED BY <1>3, <1>4, <1>5, <1>6, <1>7
        DEF DisputeStep, Withdraw, Close, Overdue, AdjudicateRaises, Expire, DeliverMakeGood,
            settlementVars

(***************************************************************************)
(* The invariant is inductive.                                             *)
(***************************************************************************)
\* A call on a dispute preserves the invariant.
LEMMA DisputeKeeps ==
  ASSUME Inv, NEW d \in DOMAIN disputes, DisputeStep(d)
  PROVE  Inv'
<1>1. disputes \in Seq(DisputeRecord) BY DEF Inv, TypeOK
<1>2. PICK x : Successor(disputes[d], x) /\ disputes' = [disputes EXCEPT ![d] = x]
  BY OneDispute
<1>3. /\ disputes' \in Seq(DisputeRecord) /\ DOMAIN disputes' = DOMAIN disputes
      /\ disputes'[d] = x /\ \A e \in DOMAIN disputes : e # d => disputes'[e] = disputes[e]
  BY <1>1, <1>2, Replaced DEF Successor
<1>4. InvoicesFollow BY InvoiceStep
<1>5. TypeOK'
  <2>1. /\ UNCHANGED <<accounts, settled, disbursed, payouts, accruals>>
        /\ pending' \in [Accounts -> Nat] /\ owedBack' \in [Accounts -> Nat]
        /\ credited' \in Nat /\ clawed' \in Nat
    <3>1. CASE Credit(d)
      <4>1. UNCHANGED <<accounts, settled, disbursed, payouts, accruals>> BY <3>1 DEF Credit
      <4> QED BY <3>1, <4>1, ClawedBack DEF Inv
    <3>2. CASE UNCHANGED <<accounts, balances, payouts, accruals, owedBack, credited, clawed>>
      BY <3>2 DEF balances, Inv, TypeOK, SettlementTypeOK
    <3>3. Credit(d) \/ UNCHANGED <<accounts, balances, payouts, accruals, owedBack, credited, clawed>>
      BY DEF DisputeStep, Withdraw, Overdue, AdjudicateRaises, Expire, Adjudicate, MakeGood,
             DeliverMakeGood, Close, settlementVars
    <3> QED BY <3>1, <3>2, <3>3
  <2> QED BY <1>3, <1>4, <2>1 DEF Inv, TypeOK, SettlementTypeOK, InvoicesFollow, accounts
<1>6. DisputesSound' BY <1>2, <1>3, <1>4 DEF Inv, DisputesSound, Successor, InvoicesFollow, Sound
<1>7. OpenDisputeHoldsInvoice'
  <2> SUFFICES ASSUME NEW e \in DOMAIN disputes', disputes'[e].status \notin TERMINAL
               PROVE  invoices'[disputes'[e].invoice].status = "disputed"
    BY DEF OpenDisputeHoldsInvoice
  <2>1. /\ disputes'[e].invoice = disputes[e].invoice /\ disputes[e].status \notin TERMINAL
        /\ e \in DOMAIN disputes
    BY <1>2, <1>3 DEF Successor
  <2>2. disputes[e].invoice \in DOMAIN invoices BY <2>1 DEF Inv, DisputesSound
  <2>3. invoices[disputes[e].invoice].status = "disputed"
    BY <2>1 DEF Inv, OpenDisputeHoldsInvoice
  <2> QED BY <1>4, <2>1, <2>2, <2>3 DEF InvoicesFollow
<1> QED BY <1>5, <1>6, <1>7 DEF Inv

\* Opening a dispute preserves it.
LEMMA OpenKeeps ==
  ASSUME Inv, NEW i \in DOMAIN invoices, NEW amount \in Amounts, OpenDispute(i, amount)
  PROVE  Inv'
<1> DEFINE d == [invoice |-> i, status |-> "open", disputed |-> amount, upheld |-> 0,
                 overdue |-> FALSE, remedy |-> "none", clawback |-> 0, split |-> FALSE,
                 owed |-> 0, made |-> 0]
           x == [invoices[i] EXCEPT !.status = "disputed"]
<1>1. disputes \in Seq(DisputeRecord) /\ invoices \in Seq(InvoiceRecord)
  BY DEF Inv, TypeOK, SettlementTypeOK
<1>2. invoices[i] \in InvoiceRecord /\ i \in Nat BY <1>1, LenProperties, ElementOfSeq
<1>3. disputes' = Append(disputes, d) /\ invoices' = [invoices EXCEPT ![i] = x]
  BY DEF OpenDispute
<1>4. d \in DisputeRecord BY <1>2, SettlementAssumption DEF DisputeRecord
<1>5. d.invoice = i /\ Sound(d) BY DEF Sound, Covered
<1>6. x \in InvoiceRecord /\ x.status = "disputed" BY <1>2 DEF InvoiceRecord
<1> HIDE DEF d, x
<1>7. /\ disputes' \in Seq(DisputeRecord)
      /\ DOMAIN disputes' = DOMAIN disputes \cup {Len(disputes) + 1}
      /\ disputes'[Len(disputes) + 1] = d
      /\ \A e \in DOMAIN disputes : disputes'[e] = disputes[e]
  BY <1>1, <1>3, <1>4, Added
<1>8. /\ invoices' \in Seq(InvoiceRecord) /\ DOMAIN invoices' = DOMAIN invoices
      /\ invoices'[i].status = "disputed"
      /\ \A j \in DOMAIN invoices : j # i => invoices'[j] = invoices[j]
  BY <1>1, <1>3, <1>6, Replaced
<1>9. TypeOK'
  BY <1>7, <1>8 DEF Inv, TypeOK, SettlementTypeOK, OpenDispute, accounts, balances
<1>10. DisputesSound' BY <1>5, <1>7, <1>8 DEF Inv, DisputesSound, Sound
<1>11. OpenDisputeHoldsInvoice'
  BY <1>5, <1>7, <1>8 DEF Inv, DisputesSound, OpenDisputeHoldsInvoice
<1> QED BY <1>9, <1>10, <1>11 DEF Inv

\* So does a call of the settlement.
LEMMA SettlementKeeps ==
  ASSUME Inv, SettlementNext, UNCHANGED billingVars
  PROVE  Inv'
<1>1. SettlementTypeOK' BY SettlementTypes DEF Inv, TypeOK
<1>2. InvoicesHeld BY InvoiceCalls DEF Inv, TypeOK
<1>3. TypeOK' BY <1>1 DEF Inv, TypeOK, billingVars
<1>4. DisputesSound' BY <1>2 DEF Inv, DisputesSound, Sound, InvoicesHeld, billingVars
<1>5. OpenDisputeHoldsInvoice'
  BY <1>2 DEF Inv, DisputesSound, OpenDisputeHoldsInvoice, InvoicesHeld, billingVars
<1> QED BY <1>3, <1>4, <1>5 DEF Inv

\* Every call is one of these.
LEMMA BillingCases ==
  ASSUME Next
  PROVE  \/ SettlementNext /\ UNCHANGED billingVars
         \/ \E i \in DOMAIN invoices, g \in Amounts : OpenDispute(i, g)
         \/ \E d \in DOMAIN disputes : DisputeStep(d)
BY Zenon DEF Next, BillingNext, DisputeStep

\* The invariant holds in every reachable state.
THEOREM BillingInvariant == Spec => []Inv
<1>1. Init => Inv
  <2> SUFFICES ASSUME Init PROVE Inv OBVIOUS
  <2>1. /\ <<>> \in Seq(InvoiceRecord) /\ <<>> \in Seq(PayoutRecord)
        /\ <<>> \in Seq(DisputeRecord)
    OBVIOUS
  <2>2. Zero \in [Accounts -> Nat] BY DEF Zero
  <2>3. TypeOK BY <2>1, <2>2 DEF Init, SettlementInit, TypeOK, SettlementTypeOK
  <2>4. DOMAIN disputes = {} BY DEF Init
  <2> QED BY <2>3, <2>4 DEF Inv, DisputesSound, OpenDisputeHoldsInvoice
<1>2. Inv /\ [Next]_vars => Inv'
  <2> SUFFICES ASSUME Inv, [Next]_vars PROVE Inv' OBVIOUS
  <2>1. CASE UNCHANGED vars
    BY <2>1 DEF vars, settlementVars, billingVars, accounts, balances, Inv, TypeOK,
                SettlementTypeOK, DisputesSound, OpenDisputeHoldsInvoice, Sound
  <2>2. CASE Next BY <2>2, BillingCases, SettlementKeeps, OpenKeeps, DisputeKeeps
  <2> QED BY <2>1, <2>2
<1> QED BY <1>1, <1>2, PTL DEF Spec

\* Accounts, invoices, payouts and disputes stay well formed; no balance goes
\* below zero.
THEOREM BillingTypes == Spec => []TypeOK
BY BillingInvariant, PTL DEF Inv

\* As long as a dispute is open its invoice is disputed, whatever becomes of the
\* other disputes of the invoice (_restore_invoice).
THEOREM OpenHolds == Spec => []OpenDisputeHoldsInvoice
BY BillingInvariant, PTL DEF Inv

\* A credit given under a split table is clawed back but for one micro, one given
\* before the first payout is not clawed back (_clawback, _original_splits).
THEOREM CreditsCovered == Spec => [](\A d \in DOMAIN disputes : Covered(disputes[d]))
<1>1. Inv => \A d \in DOMAIN disputes : Covered(disputes[d]) BY DEF Inv, DisputesSound, Sound
<1> QED BY <1>1, BillingInvariant, PTL

(***************************************************************************)
(* The imbalance.                                                          *)
(***************************************************************************)
\* What the clawback of a credit left uncovered.
Uncovered(dispute) ==
  IF dispute.remedy = "credit" THEN dispute.upheld - dispute.clawback ELSE 0

UncoveredSum ==
  SumFunctionOnSet([d \in DOMAIN disputes |-> Uncovered(disputes[d])], DOMAIN disputes)

LEMMA UncoveredType ==
  ASSUME NEW dispute \in DisputeRecord
  PROVE  Uncovered(dispute) \in Int
BY DEF Uncovered, DisputeRecord

\* A call on a dispute moves the imbalance by what it leaves uncovered there.
LEMMA BalanceMoves ==
  ASSUME Inv, NEW d \in DOMAIN disputes, DisputeStep(d),
         disputes[d] \in DisputeRecord, disputes'[d] \in DisputeRecord
  PROVE  credited' - clawed' =
           credited - clawed - Uncovered(disputes[d]) + Uncovered(disputes'[d])
<1> DEFINE old == disputes[d]
           new == disputes'[d]
<1>1. /\ credited \in Nat /\ clawed \in Nat
      /\ old.upheld \in Nat /\ old.clawback \in Nat /\ new.upheld \in Nat /\ new.clawback \in Nat
  BY DEF Inv, TypeOK, DisputeRecord
<1>2. PICK x : Successor(old, x) /\ disputes' = [disputes EXCEPT ![d] = x] BY OneDispute
<1>3. disputes \in Seq(DisputeRecord) BY DEF Inv, TypeOK
<1>4. new = x BY <1>2, <1>3, Replaced DEF Successor
<1>5. CASE old.remedy # "none"
  <2>1. new.remedy = old.remedy /\ new.clawback = old.clawback /\ new.upheld = old.upheld
    BY <1>2, <1>4, <1>5 DEF Successor
  <2>2. ~Credit(d) BY <1>5 DEF Credit, Resolvable
  <2>3. UNCHANGED <<credited, clawed>>
    BY <2>2 DEF DisputeStep, Withdraw, Overdue, AdjudicateRaises, Expire, Adjudicate, MakeGood,
                DeliverMakeGood, Close
  <2> HIDE DEF old, new
  <2>4. Uncovered(new) = Uncovered(old) BY <2>1 DEF Uncovered
  <2>5. Uncovered(old) \in Int BY UncoveredType DEF old
  <2>6. credited' - clawed' = credited - clawed - Uncovered(old) + Uncovered(new)
    BY <1>1, <2>3, <2>4, <2>5
  <2> QED BY <2>6 DEF old, new
<1>6. CASE old.remedy = "none" /\ Credit(d)
  <2>1. /\ credited' = credited + old.upheld
        /\ disputes' = [disputes EXCEPT ![d] =
             [@ EXCEPT !.remedy = "credit", !.split = payouts # <<>>, !.clawback = clawed' - clawed]]
    BY <1>6 DEF Credit
  <2>2. new = [old EXCEPT !.remedy = "credit", !.split = payouts # <<>>,
                          !.clawback = clawed' - clawed]
    BY <1>3, <2>1
  <2>3. clawed' \in Nat BY <1>6, ClawedBack DEF Inv
  <2>4. new.remedy = "credit" /\ new.upheld = old.upheld /\ new.clawback = clawed' - clawed
    BY <2>2 DEF DisputeRecord
  <2> HIDE DEF old, new
  <2>5. Uncovered(old) = 0 BY <1>6 DEF Uncovered
  <2>6. Uncovered(new) = old.upheld - (clawed' - clawed) BY <2>4 DEF Uncovered
  <2>7. credited' - clawed' = credited - clawed - Uncovered(old) + Uncovered(new)
    BY <1>1, <2>1, <2>3, <2>5, <2>6
  <2> QED BY <2>7 DEF old, new
<1>7. CASE old.remedy = "none" /\ ~Credit(d)
  <2>1. UNCHANGED <<credited, clawed>>
    BY <1>7 DEF DisputeStep, Withdraw, Overdue, AdjudicateRaises, Expire, Adjudicate, MakeGood,
                DeliverMakeGood, Close
  <2>2. new.remedy # "credit"
    <3>1. ASSUME NEW s, disputes' = [disputes EXCEPT ![d] = [@ EXCEPT !.status = s]]
          PROVE  new.remedy # "credit"
      BY <1>3, <1>7, <3>1 DEF DisputeRecord
    <3>2. ASSUME NEW s, NEW u,
                 disputes' = [disputes EXCEPT ![d] = [@ EXCEPT !.status = s, !.upheld = u]]
          PROVE  new.remedy # "credit"
      BY <1>3, <1>7, <3>2 DEF DisputeRecord
    <3>3. CASE Withdraw(d) \/ AdjudicateRaises(d) \/ Expire(d)
               \/ \E f, v \in Amounts \cup {0} : Adjudicate(d, f, v)
      BY <3>1, <3>2, <3>3 DEF Withdraw, AdjudicateRaises, Expire, Adjudicate, Close
    <3>4. CASE Overdue(d)
      <4>1. new = [old EXCEPT !.overdue = TRUE] BY <1>3, <3>4 DEF Overdue
      <4> QED BY <1>7, <4>1 DEF DisputeRecord
    <3>5. CASE DeliverMakeGood(d, 1)
      <4>1. old.remedy = "make_good" BY <3>5 DEF DeliverMakeGood
      <4> QED BY <1>7, <4>1
    <3>6. ASSUME NEW cpm \in Makes, MakeGood(d, cpm) PROVE new.remedy # "credit"
      <4> DEFINE n == (old.upheld * 1000) \div cpm
                 owed == IF n = 0 THEN 1 ELSE n
      <4>1. disputes' = [disputes EXCEPT ![d] = [@ EXCEPT !.remedy = "make_good", !.owed = owed]]
        BY <3>6 DEF MakeGood
      <4> HIDE DEF owed
      <4>2. new = [old EXCEPT !.remedy = "make_good", !.owed = owed] BY <1>3, <4>1
      <4>3. new.remedy = "make_good" BY <4>2 DEF DisputeRecord
      <4> QED BY <4>3
    <3> QED BY <1>7, <3>3, <3>4, <3>5, <3>6 DEF DisputeStep
  <2> HIDE DEF old, new
  <2>3. Uncovered(new) = 0 /\ Uncovered(old) = 0 BY <1>7, <2>2 DEF Uncovered
  <2>4. credited' - clawed' = credited - clawed - Uncovered(old) + Uncovered(new)
    BY <1>1, <2>1, <2>3
  <2> QED BY <2>4 DEF old, new
<1> QED BY <1>5, <1>6, <1>7

Balanced == credited - clawed = UncoveredSum

LEMMA BalanceKept ==
  ASSUME Inv, Balanced, [Next]_vars
  PROVE  Balanced'
<1>0. /\ disputes \in Seq(DisputeRecord) /\ Len(disputes) \in Nat
      /\ DOMAIN disputes = 1..Len(disputes) /\ IsFiniteSet(DOMAIN disputes)
  BY LenProperties, FS_Interval DEF Inv, TypeOK
<1>1. \A e \in DOMAIN disputes : disputes[e] \in DisputeRecord /\ Uncovered(disputes[e]) \in Int
  BY <1>0, UncoveredType
<1>2. credited \in Nat /\ clawed \in Nat BY DEF Inv, TypeOK
<1> DEFINE f == [e \in DOMAIN disputes |-> Uncovered(disputes[e])]
<1>3. CASE UNCHANGED <<disputes, credited, clawed>>
  BY <1>3 DEF Balanced, UncoveredSum
<1>4. ASSUME NEW i \in DOMAIN invoices, NEW amount \in Amounts, OpenDispute(i, amount)
      PROVE  Balanced'
  <2> DEFINE x == [invoice |-> i, status |-> "open", disputed |-> amount, upheld |-> 0,
                   overdue |-> FALSE, remedy |-> "none", clawback |-> 0, split |-> FALSE,
                   owed |-> 0, made |-> 0]
             n == Len(disputes) + 1
  <2>1. disputes' = Append(disputes, x) /\ UNCHANGED <<credited, clawed>> BY <1>4 DEF OpenDispute
  <2>2. Uncovered(x) = 0 BY DEF Uncovered
  <2> HIDE DEF x
  <2>3. /\ DOMAIN disputes' = (DOMAIN disputes) \cup {n} /\ n \notin DOMAIN disputes
        /\ disputes'[n] = x /\ \A e \in DOMAIN disputes : disputes'[e] = disputes[e]
    BY <1>0, <2>1
  <2>4. PICK g : g = f' OBVIOUS
  <2>5. g[n] = 0 /\ \A e \in DOMAIN disputes : g[e] = f[e] BY <2>2, <2>3, <2>4
  <2>6. /\ \A e \in DOMAIN disputes : f[e] \in Int /\ f[e] = g[e]
        /\ \A e \in (DOMAIN disputes) \cup {n} : g[e] \in Int
    BY <1>1, <2>5
  <2> HIDE DEF f, n
  <2>7. SumFunctionOnSet(g, (DOMAIN disputes) \cup {n}) =
          g[n] + SumFunctionOnSet(g, DOMAIN disputes)
    BY <1>0, <2>3, <2>6, SumAdd
  <2>8. SumFunctionOnSet(f, DOMAIN disputes) = SumFunctionOnSet(g, DOMAIN disputes)
    BY <1>0, <2>6, SumSame
  <2>9. SumFunctionOnSet(f, DOMAIN disputes) \in Int BY <1>0, <2>6, SumType
  <2>10. SumFunctionOnSet(f', DOMAIN disputes') = SumFunctionOnSet(f, DOMAIN disputes)
    BY <2>3, <2>4, <2>5, <2>7, <2>8, <2>9
  <2> QED BY <2>1, <2>10 DEF Balanced, UncoveredSum, f
<1>5. ASSUME NEW d \in DOMAIN disputes, DisputeStep(d)
      PROVE  Balanced'
  <2>1. PICK x : Successor(disputes[d], x) /\ disputes' = [disputes EXCEPT ![d] = x]
    BY <1>5, OneDispute
  <2>2. /\ DOMAIN disputes' = DOMAIN disputes
        /\ disputes'[d] = x /\ \A e \in DOMAIN disputes : e # d => disputes'[e] = disputes[e]
        /\ x \in DisputeRecord
    BY <1>0, <2>1, Replaced DEF Successor
  <2>3. PICK g : g = f' OBVIOUS
  <2>4. /\ \A e \in DOMAIN disputes : f[e] \in Int /\ g[e] \in Int
        /\ \A e \in (DOMAIN disputes) \ {d} : f[e] = g[e]
        /\ f[d] = Uncovered(disputes[d]) /\ g[d] = Uncovered(disputes'[d])
    BY <1>1, <2>2, <2>3, UncoveredType
  <2>5. credited' - clawed' =
          credited - clawed - Uncovered(disputes[d]) + Uncovered(disputes'[d])
    BY <1>1, <1>5, <2>2, BalanceMoves
  <2> HIDE DEF f
  <2>6. SumFunctionOnSet(g, DOMAIN disputes) =
          SumFunctionOnSet(f, DOMAIN disputes) - f[d] + g[d]
    <3> DEFINE D == DOMAIN disputes
    <3>1. IsFiniteSet(D) /\ d \in D BY <1>0
    <3>2. \A e \in D : f[e] \in Int /\ g[e] \in Int BY <2>4
    <3>3. \A e \in D \ {d} : f[e] = g[e] BY <2>4
    <3> HIDE DEF D
    <3>4. SumFunctionOnSet(g, D) = SumFunctionOnSet(f, D) - f[d] + g[d]
      BY ONLY <3>1, <3>2, <3>3, SumChanged
    <3> QED BY <3>4 DEF D
  <2>7. credited - clawed = SumFunctionOnSet(f, DOMAIN disputes)
    BY DEF Balanced, UncoveredSum, f
  <2>8. credited' - clawed' = SumFunctionOnSet(f', DOMAIN disputes')
    BY <2>2, <2>3, <2>4, <2>5, <2>6, <2>7
  <2> QED BY <2>8 DEF Balanced, UncoveredSum, f
<1> QED BY <1>3, <1>4, <1>5, BillingCases DEF vars, billingVars

\* A sum of which one part is known and the terms of another are zero or one.
LEMMA SumApart ==
  ASSUME NEW D, IsFiniteSet(D), NEW U \in SUBSET D, NEW M \in SUBSET D, M \cap U = {},
         NEW f, NEW u, \A i \in D : f[i] \in Int, \A i \in U : f[i] = u[i],
         \A i \in M : f[i] \in 0..1, \A i \in D \ (M \cup U) : f[i] = 0
  PROVE  SumFunctionOnSet(f, D) - SumFunctionOnSet(u, U) \in 0..Cardinality(M)
<1> DEFINE e == [i \in D |-> IF i \in U THEN f[i] ELSE 0]
           rest == [i \in D |-> IF i \in U THEN 0 ELSE f[i]]
           one == [i \in D |-> IF i \in M THEN 1 ELSE 0]
<1>1. \A i \in D : e[i] \in Int /\ rest[i] = f[i] - e[i] OBVIOUS
<1>2. \A i \in D : rest[i] \in Nat /\ one[i] \in Int /\ rest[i] <= one[i]
  <2> SUFFICES ASSUME NEW i \in D PROVE rest[i] \in Nat /\ one[i] \in Int /\ rest[i] <= one[i]
    OBVIOUS
  <2>1. CASE i \in U BY <2>1
  <2>2. CASE i \in M BY <2>2
  <2>3. CASE i \notin M \cup U BY <2>3
  <2> QED BY <2>1, <2>2, <2>3
<1>3. \A i \in D \ U : e[i] = 0 OBVIOUS
<1>4. \A i \in U : e[i] \in Int /\ e[i] = u[i] OBVIOUS
<1>5. (\A i \in D \ M : one[i] = 0) /\ (\A i \in M : one[i] = 1) OBVIOUS
<1>6. IsFiniteSet(U) /\ IsFiniteSet(M) BY FS_Subset
<1> HIDE DEF e, rest, one
<1>7. SumFunctionOnSet(e, U) = SumFunctionOnSet(e, D)
  <2>1. \A i \in D : e[i] \in Int BY <1>1
  <2> QED BY <1>3, <2>1, SumSupport
<1>8. SumFunctionOnSet(e, U) = SumFunctionOnSet(u, U) BY <1>4, <1>6, SumSame
<1>9. SumFunctionOnSet(rest, D) = SumFunctionOnSet(f, D) - SumFunctionOnSet(e, D)
  BY <1>1, SumMinus
<1>10. SumFunctionOnSet(rest, D) \in Nat
  <2>1. \A i \in D : rest[i] \in Nat BY <1>2
  <2> QED BY <2>1, SumNatural
<1>11. SumFunctionOnSet(rest, D) <= SumFunctionOnSet(one, D)
  <2>1. \A i \in D : rest[i] \in Int /\ one[i] \in Int /\ rest[i] <= one[i] BY <1>2
  <2> QED BY <2>1, SumAtMost
<1>12. SumFunctionOnSet(one, M) = SumFunctionOnSet(one, D)
  <2>1. \A i \in D : one[i] \in Int BY <1>2
  <2> QED BY <1>5, <2>1, SumSupport
<1>13. SumFunctionOnSet(one, M) = 1 * Cardinality(M)
  <2>1. 1 \in Int OBVIOUS
  <2> QED BY <1>5, <1>6, <2>1, SumConstant
<1>14. Cardinality(M) \in Nat BY <1>6, FS_CardinalityType
<1>15. SumFunctionOnSet(f, D) \in Int /\ SumFunctionOnSet(e, D) \in Int
  <2>1. \A i \in D : e[i] \in Int BY <1>1
  <2> QED BY <2>1, SumType
<1>16. SumFunctionOnSet(rest, D) \in 0..Cardinality(M)
  BY <1>10, <1>11, <1>12, <1>13, <1>14
<1>17. SumFunctionOnSet(rest, D) = SumFunctionOnSet(f, D) - SumFunctionOnSet(u, U)
  BY <1>7, <1>8, <1>9, <1>15
<1> QED BY <1>16, <1>17

\* From what each credit left uncovered to what the exchange absorbs in all.
LEMMA AbsorbedInAll ==
  ASSUME Inv, Balanced
  PROVE  AbsorbedIsBounded
<1> DEFINE D == DOMAIN disputes
           M == Credits \ Unmatched
           f == [d \in D |-> Uncovered(disputes[d])]
           u == [d \in D |-> disputes[d].upheld]
<1>1. disputes \in Seq(DisputeRecord) /\ IsFiniteSet(D)
  BY LenProperties, FS_Interval DEF Inv, TypeOK
<1>2. \A d \in D : /\ disputes[d] \in DisputeRecord /\ Uncovered(disputes[d]) \in Int
                  /\ Covered(disputes[d])
  <2>1. \A d \in D : disputes[d] \in DisputeRecord BY <1>1, LenProperties, ElementOfSeq
  <2> QED BY <2>1, UncoveredType DEF Inv, DisputesSound, Sound
<1>3. Unmatched \in SUBSET D /\ M \in SUBSET D /\ M \cap Unmatched = {}
  BY DEF Credits, Unmatched
<1>4. \A d \in D : f[d] \in Int BY <1>2
<1>5. \A d \in Unmatched : f[d] = u[d]
  BY <1>2 DEF Credits, Unmatched, Covered, Uncovered, DisputeRecord
<1>6. \A d \in M : f[d] \in 0..1
  BY <1>2 DEF Credits, Unmatched, Covered, Uncovered, DisputeRecord
<1>7. \A d \in D \ (M \cup Unmatched) : f[d] = 0
  BY DEF Credits, Unmatched, Uncovered
<1>8. SumFunctionOnSet(f, D) = credited - clawed BY DEF Balanced, UncoveredSum
<1>9. SumFunctionOnSet(f, D) - SumFunctionOnSet(u, Unmatched) \in 0..Cardinality(M)
  <2> HIDE DEF D, M, f, u
  <2> QED BY <1>1, <1>3, <1>4, <1>5, <1>6, <1>7, SumApart
<1> QED BY <1>8, <1>9 DEF AbsorbedIsBounded

\* What the exchange absorbs (Billing.imbalance) is what was credited before the
\* first payout and at most a micro for each credit given after it, however many
\* disputes, payouts and repeated calls there are (resolve, _clawback).
THEOREM ImbalanceBounded == Spec => []AbsorbedIsBounded
<1>1. Init => Balanced
  <2> SUFFICES ASSUME Init PROVE Balanced OBVIOUS
  <2>1. DOMAIN disputes = {} /\ credited = 0 /\ clawed = 0 BY DEF Init
  <2>2. UncoveredSum = 0 BY <2>1, SumEmpty DEF UncoveredSum
  <2> QED BY <2>1, <2>2 DEF Balanced
<1> QED BY <1>1, AbsorbedInAll, BalanceKept, BillingInvariant, PTL DEF Spec

\* Every credit is given once some payout exists, and of an amount whose shares are
\* whole micros.
CreditsWhole ==
  \A d \in DOMAIN disputes :
    disputes[d].remedy = "none" /\ disputes'[d].remedy = "credit" =>
      payouts # <<>> /\ (disputes[d].upheld * TakeRateBps) % 10000 = 0

\* The shares of such an amount are all of it.
LEMMA SharesWhole ==
  ASSUME NEW amount \in Nat, (amount * TakeRateBps) % 10000 = 0
  PROVE  Shares(amount)[1] + Shares(amount)[2] = amount
<1> DEFINE node == amount * (10000 - TakeRateBps)
           exchange == amount * TakeRateBps
<1>1. /\ node \in Nat /\ exchange \in Nat /\ node + exchange = 10000 * amount
  BY SplitAssumption
<1>2. Shares(amount) = <<node \div 10000, exchange \div 10000>> BY DEF Shares
<1>3. exchange % 10000 = 0 OBVIOUS
<1> HIDE DEF node, exchange
<1> DEFINE a == node \div 10000
           b == node % 10000
           c == exchange \div 10000
<1>4. /\ a \in Nat /\ b \in Nat /\ b < 10000 /\ node = 10000 * a + b
      /\ c \in Nat /\ exchange = 10000 * c
  BY <1>1, <1>3
<1>5. Shares(amount)[1] = a /\ Shares(amount)[2] = c BY <1>2
<1> HIDE DEF a, b, c
<1>6. 10000 * a + b + 10000 * c + 0 = 10000 * amount BY <1>1, <1>4
<1>7. 0 \in Nat /\ 0 < 10000 OBVIOUS
<1>8. \/ amount = a + c
      \/ amount = a + c + 1 /\ b + 0 = 10000
  BY ONLY <1>4, <1>6, <1>7, Remainders
<1> QED BY <1>4, <1>5, <1>8

\* As long as credits are so, what is credited is what is clawed back: the imbalance
\* is zero, as its docstring says, whatever else is called in between
\* (Billing.imbalance).  What MCBillingImbalance violates takes a credit that is not.
THEOREM LedgerBalances == Spec /\ [][CreditsWhole]_vars => []ImbalanceZero
<1>1. Init => ImbalanceZero BY DEF Init, ImbalanceZero
<1>2. Inv /\ ImbalanceZero /\ [Next]_vars /\ [CreditsWhole]_vars => ImbalanceZero'
  <2> SUFFICES ASSUME Inv, ImbalanceZero, [Next]_vars, [CreditsWhole]_vars
               PROVE  ImbalanceZero'
    OBVIOUS
  <2>1. CASE UNCHANGED <<credited, clawed>> BY <2>1 DEF ImbalanceZero
  <2>2. ASSUME NEW d \in DOMAIN disputes, Credit(d)
        PROVE  ImbalanceZero'
    <3> DEFINE amount == disputes[d].upheld
               s == payouts # <<>>
               c == clawed' - clawed
    <3>1. disputes \in Seq(DisputeRecord) /\ disputes[d] \in DisputeRecord
      BY LenProperties, ElementOfSeq DEF Inv, TypeOK
    <3>2. disputes' = [disputes EXCEPT ![d] =
            [@ EXCEPT !.remedy = "credit", !.split = s, !.clawback = c]]
      BY <2>2 DEF Credit
    <3>3. disputes[d].remedy = "none" /\ credited' = credited + amount /\ Clawback(amount)
      BY <2>2 DEF Credit, Resolvable
    <3> HIDE DEF s, c
    <3>4. disputes'[d] = [disputes[d] EXCEPT !.remedy = "credit", !.split = s, !.clawback = c]
      BY <3>1, <3>2
    <3>5. disputes'[d].remedy = "credit" BY <3>1, <3>4 DEF DisputeRecord
    <3>6. CreditsWhole BY <3>3, <3>5 DEF CreditsWhole, vars, billingVars
    <3>7. payouts # <<>> /\ (amount * TakeRateBps) % 10000 = 0
      BY <3>3, <3>5, <3>6 DEF CreditsWhole
    <3>8. amount \in Nat BY <3>1 DEF DisputeRecord
    <3> HIDE DEF amount
    <3>9. clawed' = clawed + Shares(amount)[1] + Shares(amount)[2] BY <3>3, <3>7 DEF Clawback
    <3>10. Shares(amount)[1] \in Nat /\ Shares(amount)[2] \in Nat BY <3>8, SharesCover
    <3>11. Shares(amount)[1] + Shares(amount)[2] = amount BY <3>7, <3>8, SharesWhole
    <3>12. credited \in Nat /\ clawed \in Nat BY DEF Inv, TypeOK
    <3> QED BY <3>3, <3>8, <3>9, <3>10, <3>11, <3>12 DEF ImbalanceZero
  <2>3. ASSUME NEW d \in DOMAIN disputes, DisputeStep(d), ~Credit(d)
        PROVE  UNCHANGED <<credited, clawed>>
    BY <2>3 DEF DisputeStep, Withdraw, Overdue, AdjudicateRaises, Expire, Adjudicate, MakeGood,
                DeliverMakeGood, Close
  <2>4. ASSUME NEW i \in DOMAIN invoices, NEW g \in Amounts, OpenDispute(i, g)
        PROVE  UNCHANGED <<credited, clawed>>
    BY <2>4 DEF OpenDispute
  <2> QED BY <2>1, <2>2, <2>3, <2>4, BillingCases DEF vars, billingVars
<1> QED BY <1>1, <1>2, BillingInvariant, PTL DEF Spec

(***************************************************************************)
(* What is credited.  Two disputes of an invoice opened before either is   *)
(* credited are each measured against all of it (MCBillingTwice): when     *)
(* every dispute is opened after those before it are finished, what is     *)
(* credited and what is left to pay always add up to what was issued.      *)
(***************************************************************************)
\* No call will credit this dispute any more.
Finished(dispute) == dispute.remedy # "none" \/ dispute.status \in {"rejected", "withdrawn"}

SettledFirst ==
  \A n \in DOMAIN disputes' \ DOMAIN disputes, d \in DOMAIN disputes :
    disputes[d].invoice = disputes'[n].invoice => Finished(disputes[d])

\* What one dispute took off invoice i.
Taken(dispute, i) ==
  IF dispute.invoice = i /\ dispute.remedy = "credit" THEN dispute.upheld ELSE 0
TakenSum(i) == SumFunctionOnSet([d \in DOMAIN disputes |-> Taken(disputes[d], i)], DOMAIN disputes)

\* An unfinished dispute is for no more than its invoice still asks, and is alone.
Alone ==
  /\ \A d \in DOMAIN disputes :
       /\ disputes[d].upheld <= disputes[d].disputed
       /\ ~Finished(disputes[d]) => disputes[d].disputed <= invoices[disputes[d].invoice].total
  /\ \A d, e \in DOMAIN disputes :
       disputes[d].invoice = disputes[e].invoice /\ d # e =>
         Finished(disputes[d]) \/ Finished(disputes[e])

Accounted ==
  \A i \in DOMAIN invoices :
    invoices[i].credits <= 0 /\ TakenSum(i) + invoices[i].total = invoices[i].issued

CreditInv == Inv /\ Alone /\ Accounted

\* An invoice keeps what it was issued for and what it asks, unless it is credited.
Amount(inv) == <<inv.issued, inv.total, inv.credits>>
AmountsKept ==
  /\ DOMAIN invoices \subseteq DOMAIN invoices'
  /\ \A i \in DOMAIN invoices : Amount(invoices'[i]) = Amount(invoices[i])

LEMMA RestoredKeeps ==
  ASSUME NEW invs \in Seq(InvoiceRecord), NEW i \in DOMAIN invs, NEW ds
  PROVE  /\ DOMAIN Restored(ds, invs, i) = DOMAIN invs
         /\ \A j \in DOMAIN invs : Amount(Restored(ds, invs, i)[j]) = Amount(invs[j])
<1> DEFINE x == Settled(invs[i])
           new == [invs EXCEPT ![i] = x]
<1>1. invs[i] \in InvoiceRecord BY LenProperties, ElementOfSeq
<1>2. x \in InvoiceRecord /\ Amount(x) = Amount(invs[i])
  BY <1>1 DEF Settled, InvoiceRecord, Amount
<1> HIDE DEF x
<1>3. /\ DOMAIN new = DOMAIN invs /\ new[i] = x
      /\ \A j \in DOMAIN invs : j # i => new[j] = invs[j]
  BY <1>2, Replaced
<1>4. Restored(ds, invs, i) \in {invs, new} BY DEF Restored, x
<1> HIDE DEF new
<1> QED BY <1>2, <1>3, <1>4

\* A settlement call leaves the amounts of the invoices there are alone, and an
\* invoice it adds is not credited yet.
NewInvoice(inv) == inv.credits <= 0 /\ inv.total = inv.issued

LEMMA SettlementAmounts ==
  ASSUME SettlementTypeOK, SettlementNext
  PROVE  AmountsKept /\ \A i \in DOMAIN invoices' \ DOMAIN invoices : NewInvoice(invoices'[i])
<1>1. invoices \in Seq(InvoiceRecord) BY DEF SettlementTypeOK
<1>2. CASE UNCHANGED invoices BY <1>2 DEF AmountsKept
<1>3. ASSUME NEW a \in Advertisers, NEW g \in Amounts, NEW d \in Adjustments, NEW p \in Payees,
             IssueInvoice(a, g, d, p)
      PROVE  AmountsKept /\ \A i \in DOMAIN invoices' \ DOMAIN invoices : NewInvoice(invoices'[i])
  <2>1. g \in Nat /\ d \in Int BY SettlementAssumption
  <2>2. AtLeastZero(g + d) \in Nat BY <2>1, Clamped
  <2> DEFINE x == [account |-> a, status |-> "issued", issued |-> AtLeastZero(g + d),
                   total |-> AtLeastZero(g + d), credits |-> IF d < 0 THEN d ELSE 0, served |-> p]
  <2>3. x \in InvoiceRecord BY <2>1, <2>2 DEF InvoiceRecord
  <2>4. NewInvoice(x) BY <2>1 DEF NewInvoice
  <2>5. invoices' = Append(invoices, x) BY <1>3 DEF IssueInvoice
  <2> HIDE DEF x
  <2> QED BY <1>1, <2>3, <2>4, <2>5, Added DEF AmountsKept
<1>4. ASSUME NEW i \in DOMAIN invoices, NEW g \in Amounts, DisputeInvoice(i, g)
      PROVE  AmountsKept /\ DOMAIN invoices' = DOMAIN invoices
  <2> DEFINE x == [invoices[i] EXCEPT !.status = "disputed"]
  <2>1. invoices[i] \in InvoiceRecord BY <1>1, <1>4, LenProperties, ElementOfSeq
  <2>2. x \in InvoiceRecord /\ Amount(x) = Amount(invoices[i]) BY <2>1 DEF InvoiceRecord, Amount
  <2>3. invoices' = [invoices EXCEPT ![i] = x] BY <1>4 DEF DisputeInvoice
  <2> HIDE DEF x
  <2> QED BY <1>1, <2>2, <2>3, Replaced DEF AmountsKept
<1>5. \A a \in Accounts, f \in BOOLEAN : CreateAccount(a) \/ VerifyAccount(a, f) => UNCHANGED invoices
  BY DEF CreateAccount, VerifyAccount
<1>6. \A g, p, q, a, w : Accrue(g, p, a) \/ IssuePayout(p, g, q, w) => UNCHANGED invoices
  <2>1. \A g, p, a : Accrue(g, p, a) => UNCHANGED invoices BY DEF Accrue
  <2>2. ASSUME NEW g, NEW p, NEW q, NEW w, IssuePayout(p, g, q, w) PROVE UNCHANGED invoices
    BY <2>2 DEF IssuePayout
  <2> QED BY Zenon, <2>1, <2>2
<1>7. \A k : MarkSent(k) => UNCHANGED invoices BY Zenon DEF MarkSent
<1> QED BY Zenon, <1>2, <1>3, <1>4, <1>5, <1>6, <1>7 DEF SettlementNext

\* What a call on a dispute makes of it: what it disputes stands, and only a
\* credit, of a dispute that had no remedy, takes anything off its invoice.
DisputeMoved(d, old, new) ==
  /\ new \in DisputeRecord /\ new.invoice = old.invoice
  /\ new.disputed = old.disputed /\ new.upheld <= new.disputed
  /\ Finished(old) => Finished(new)
  /\ IF Credit(d) THEN ~Finished(old) /\ new.remedy = "credit" /\ new.upheld = old.upheld
     ELSE \A i : Taken(new, i) = Taken(old, i)

LEMMA MovesDispute ==
  ASSUME Inv, NEW d \in DOMAIN disputes, DisputeStep(d),
         disputes[d].upheld <= disputes[d].disputed
  PROVE  /\ DOMAIN disputes' = DOMAIN disputes
         /\ \A e \in DOMAIN disputes : e # d => disputes'[e] = disputes[e]
         /\ DisputeMoved(d, disputes[d], disputes'[d])
<1> DEFINE old == disputes[d]
           new == disputes'[d]
<1>1. disputes \in Seq(DisputeRecord) /\ old \in DisputeRecord
  BY LenProperties, ElementOfSeq DEF Inv, TypeOK
<1>2. PICK x : Successor(old, x) /\ disputes' = [disputes EXCEPT ![d] = x] BY OneDispute
<1>3. /\ DOMAIN disputes' = DOMAIN disputes
      /\ \A e \in DOMAIN disputes : e # d => disputes'[e] = disputes[e]
      /\ Successor(old, new)
  BY <1>1, <1>2, Replaced DEF Successor
<1>4. \A y : disputes' = [disputes EXCEPT ![d] = y] => new = y BY <1>1
<1>5. Sound(old) BY DEF Inv, DisputesSound
<1>6. /\ new \in DisputeRecord /\ new.invoice = old.invoice
      /\ old.remedy # "none" => new.remedy = old.remedy /\ new.upheld = old.upheld
  BY <1>3 DEF Successor
<1> SUFFICES DisputeMoved(d, old, new) BY <1>3
<1>7. ASSUME old.upheld <= old.disputed, new.disputed = old.disputed, new.upheld <= old.disputed,
             new.remedy = old.remedy \/ new.remedy = "make_good",
             old.remedy = "none" => old.status \notin {"rejected", "withdrawn"}, ~Credit(d)
      PROVE  DisputeMoved(d, old, new)
  <2> HIDE DEF old, new
  <2>1. Finished(old) => Finished(new) BY <1>6, <1>7 DEF Finished
  <2>2. \A i : Taken(new, i) = Taken(old, i) BY <1>6, <1>7 DEF Taken
  <2> QED BY <1>6, <1>7, <2>1, <2>2 DEF DisputeMoved
<1>8. Live(d) /\ old.remedy = "none" => old.status \notin {"rejected", "withdrawn"}
  BY DEF Live, TERMINAL
<1>9. CASE Credit(d)
  <2> DEFINE s == payouts # <<>>
             c == clawed' - clawed
  <2>1. disputes' = [disputes EXCEPT ![d] = [@ EXCEPT !.remedy = "credit", !.split = s, !.clawback = c]]
    BY <1>9 DEF Credit
  <2>2. old.remedy = "none" /\ old.status \in {"upheld", "partially_upheld", "expired"}
    BY <1>9 DEF Credit, Resolvable
  <2> HIDE DEF s, c
  <2>3. new = [old EXCEPT !.remedy = "credit", !.split = s, !.clawback = c] BY <1>1, <2>1
  <2>4. new.remedy = "credit" /\ new.upheld = old.upheld /\ new.disputed = old.disputed
    BY <1>1, <2>3 DEF DisputeRecord
  <2> QED BY <1>6, <1>9, <2>2, <2>4 DEF DisputeMoved, Finished
<1>10. CASE ~Credit(d)
  <2>1. ASSUME NEW s, Live(d), disputes' = [disputes EXCEPT ![d] = [@ EXCEPT !.status = s]]
        PROVE  DisputeMoved(d, old, new)
    <3>1. new = [old EXCEPT !.status = s] BY <1>1, <2>1
    <3>2. new.disputed = old.disputed /\ new.upheld = old.upheld /\ new.remedy = old.remedy
      BY <1>1, <3>1 DEF DisputeRecord
    <3> QED BY <1>7, <1>8, <1>10, <2>1, <3>2
  <2>2. ASSUME NEW s, NEW u, Live(d), u <= old.disputed,
               disputes' = [disputes EXCEPT ![d] = [@ EXCEPT !.status = s, !.upheld = u]]
        PROVE  DisputeMoved(d, old, new)
    <3>1. new = [old EXCEPT !.status = s, !.upheld = u] BY <1>1, <2>2
    <3>2. new.disputed = old.disputed /\ new.upheld = u /\ new.remedy = old.remedy
      BY <1>1, <3>1 DEF DisputeRecord
    <3> QED BY <1>7, <1>8, <1>10, <2>2, <3>2
  <2>3. CASE Withdraw(d) \/ AdjudicateRaises(d)
    BY <2>1, <2>3 DEF Withdraw, AdjudicateRaises, Close
  <2>4. CASE Expire(d)
    <3>1. old.disputed <= old.disputed BY <1>1 DEF DisputeRecord
    <3> QED BY <2>2, <2>4, <3>1 DEF Expire
  <2>5. ASSUME NEW f \in Amounts \cup {0}, NEW v \in Amounts \cup {0}, Adjudicate(d, f, v)
        PROVE  DisputeMoved(d, old, new)
    <3> DEFINE u == Minimum2(f, old.disputed)
               s == IF u = 0 THEN "rejected" ELSE IF v = 0 THEN "upheld" ELSE "partially_upheld"
    <3>1. Live(d) BY <2>5 DEF Adjudicate
    <3>2. f \in Nat /\ old.disputed \in Nat BY <1>1, SettlementAssumption DEF DisputeRecord
    <3>3. u <= old.disputed BY <3>2, Smaller
    <3>4. \/ disputes' = [disputes EXCEPT ![d] = [@ EXCEPT !.status = s]]
          \/ disputes' = [disputes EXCEPT ![d] = [@ EXCEPT !.status = s, !.upheld = u]]
      BY <2>5 DEF Adjudicate, Close
    <3> HIDE DEF s, u
    <3> QED BY <2>1, <2>2, <3>1, <3>3, <3>4
  <2>6. CASE Overdue(d)
    <3>1. new = [old EXCEPT !.overdue = TRUE] /\ Live(d) BY <1>1, <2>6 DEF Overdue
    <3>2. new.disputed = old.disputed /\ new.upheld = old.upheld /\ new.remedy = old.remedy
      BY <1>1, <3>1 DEF DisputeRecord
    <3> QED BY <1>7, <1>8, <1>10, <3>1, <3>2
  <2>7. ASSUME NEW cpm \in Makes, MakeGood(d, cpm)
        PROVE  DisputeMoved(d, old, new)
    <3> DEFINE n == (old.upheld * 1000) \div cpm
               owed == IF n = 0 THEN 1 ELSE n
    <3>1. disputes' = [disputes EXCEPT ![d] = [@ EXCEPT !.remedy = "make_good", !.owed = owed]]
          /\ Resolvable(d)
      BY <2>7 DEF MakeGood
    <3> HIDE DEF owed
    <3>2. new = [old EXCEPT !.remedy = "make_good", !.owed = owed] BY <1>1, <3>1
    <3>3. new.disputed = old.disputed /\ new.upheld = old.upheld /\ new.remedy = "make_good"
      BY <1>1, <3>2 DEF DisputeRecord
    <3>4. old.status \notin {"rejected", "withdrawn"} BY <3>1 DEF Resolvable
    <3> QED BY <1>7, <1>10, <3>3, <3>4
  <2>8. CASE DeliverMakeGood(d, 1)
    <3> DEFINE made == Minimum2(old.owed, old.made + 1)
    <3>1. disputes' = [disputes EXCEPT ![d] = [@ EXCEPT !.made = made]] /\ old.remedy = "make_good"
      BY <2>8 DEF DeliverMakeGood
    <3> HIDE DEF made
    <3>2. new = [old EXCEPT !.made = made] BY <1>1, <3>1
    <3>3. new.disputed = old.disputed /\ new.upheld = old.upheld /\ new.remedy = old.remedy
      BY <1>1, <3>2 DEF DisputeRecord
    <3> QED BY <1>7, <1>10, <3>1, <3>3
  <2> QED BY <1>10, <2>3, <2>4, <2>5, <2>6, <2>7, <2>8 DEF DisputeStep
<1> QED BY <1>9, <1>10

\* What a call on a dispute makes of the amounts of the invoices.
LEMMA CreditAmounts ==
  ASSUME Inv, NEW d \in DOMAIN disputes, DisputeStep(d)
  PROVE  LET i == disputes[d].invoice
             u == disputes[d].upheld
         IN  /\ DOMAIN invoices' = DOMAIN invoices
             /\ \A j \in DOMAIN invoices : j # i => Amount(invoices'[j]) = Amount(invoices[j])
             /\ invoices'[i].issued = invoices[i].issued
             /\ IF Credit(d)
                THEN /\ invoices'[i].credits = invoices[i].credits - u
                     /\ invoices'[i].total = AtLeastZero(invoices[i].total - u)
                ELSE Amount(invoices'[i]) = Amount(invoices[i])
<1> DEFINE i == disputes[d].invoice
           u == disputes[d].upheld
<1>1. invoices \in Seq(InvoiceRecord) BY DEF Inv, TypeOK, SettlementTypeOK
<1>2. i \in DOMAIN invoices BY DEF Inv, DisputesSound
<1>3. CASE ~Credit(d)
  <2>1. CASE UNCHANGED invoices BY <1>2, <1>3, <2>1 DEF Amount
  <2>2. CASE invoices' = Restored(disputes', invoices, i)
    <3>1. /\ DOMAIN invoices' = DOMAIN invoices
          /\ \A j \in DOMAIN invoices : Amount(invoices'[j]) = Amount(invoices[j])
      BY <1>1, <1>2, <2>2, RestoredKeeps
    <3> QED BY <1>2, <1>3, <3>1 DEF Amount
  <2>3. ASSUME NEW f \in Amounts \cup {0}, NEW v \in Amounts \cup {0}, Adjudicate(d, f, v)
        PROVE  UNCHANGED invoices \/ invoices' = Restored(disputes', invoices, i)
    BY <2>3 DEF Adjudicate, Close, settlementVars
  <2>4. ASSUME NEW cpm \in Makes, MakeGood(d, cpm)
        PROVE  invoices' = Restored(disputes', invoices, i)
    BY <2>4 DEF MakeGood
  <2> QED BY <1>3, <2>1, <2>2, <2>3, <2>4
          DEF DisputeStep, Withdraw, Close, Overdue, AdjudicateRaises, Expire, DeliverMakeGood,
              settlementVars
<1>4. CASE Credit(d)
  <2> DEFINE x == Lowered(invoices[i], u)
             lowered == [invoices EXCEPT ![i] = x]
  <2>1. invoices' = Restored(disputes', lowered, i) BY <1>4 DEF Credit
  <2>2. disputes[d] \in DisputeRecord /\ invoices[i] \in InvoiceRecord
    BY <1>1, <1>2, LenProperties, ElementOfSeq DEF Inv, TypeOK
  <2>3. /\ x \in InvoiceRecord /\ x.issued = invoices[i].issued
        /\ x.credits = invoices[i].credits - u
        /\ x.total = AtLeastZero(invoices[i].total - u)
    <3>1. u \in Nat BY <2>2 DEF DisputeRecord
    <3>2. invoices[i].credits \in Int /\ invoices[i].total \in Nat BY <2>2 DEF InvoiceRecord
    <3>3. invoices[i].credits - u \in Int /\ invoices[i].total - u \in Int BY <3>1, <3>2
    <3>4. AtLeastZero(invoices[i].total - u) \in Nat BY ONLY <3>3, Clamped
    <3> HIDE DEF i, u
    <3> QED BY <2>2, <3>3, <3>4 DEF Lowered, InvoiceRecord
  <2> HIDE DEF x
  <2>4. /\ lowered \in Seq(InvoiceRecord) /\ DOMAIN lowered = DOMAIN invoices
        /\ lowered[i] = x /\ \A j \in DOMAIN invoices : j # i => lowered[j] = invoices[j]
    BY <1>1, <1>2, <2>3, Replaced
  <2> HIDE DEF lowered
  <2>5. /\ DOMAIN invoices' = DOMAIN lowered
        /\ \A j \in DOMAIN lowered : Amount(invoices'[j]) = Amount(lowered[j])
    BY <1>2, <2>1, <2>4, RestoredKeeps
  <2>6. Amount(invoices'[i]) = Amount(x) BY <1>2, <2>4, <2>5
  <2>7. /\ invoices'[i].issued = x.issued /\ invoices'[i].total = x.total
        /\ invoices'[i].credits = x.credits
    BY <2>6 DEF Amount
  <2> QED BY <1>4, <2>3, <2>4, <2>5, <2>7
<1> QED BY <1>3, <1>4

\* The sum of what was taken follows the disputes.
LEMMA TakenMoves ==
  ASSUME disputes \in Seq(DisputeRecord), NEW d \in DOMAIN disputes,
         DOMAIN disputes' = DOMAIN disputes, disputes'[d] \in DisputeRecord,
         \A e \in DOMAIN disputes : e # d => disputes'[e] = disputes[e],
         NEW i
  PROVE  /\ TakenSum(i) \in Int
         /\ TakenSum(i)' = TakenSum(i) - Taken(disputes[d], i) + Taken(disputes'[d], i)
<1> DEFINE D == DOMAIN disputes
           f == [e \in D |-> Taken(disputes[e], i)]
<1>1. D = 1..Len(disputes) /\ IsFiniteSet(D) BY LenProperties, FS_Interval
<1>2. \A e \in D : disputes[e] \in DisputeRecord /\ disputes'[e] \in DisputeRecord
  BY LenProperties, ElementOfSeq
<1>3. \A x \in DisputeRecord : Taken(x, i) \in Int BY DEF Taken, DisputeRecord
<1>4. PICK g : g = [e \in D |-> Taken(disputes'[e], i)] OBVIOUS
<1>5. /\ \A e \in D : f[e] \in Int /\ g[e] \in Int
      /\ \A e \in D \ {d} : f[e] = g[e]
      /\ f[d] = Taken(disputes[d], i) /\ g[d] = Taken(disputes'[d], i)
  BY <1>2, <1>3, <1>4
<1>6. TakenSum(i) = SumFunctionOnSet(f, D) /\ TakenSum(i)' = SumFunctionOnSet(g, D)
  BY <1>4 DEF TakenSum
<1>7. d \in D OBVIOUS
<1> HIDE DEF D, f
<1>8. SumFunctionOnSet(f, D) \in Int BY <1>1, <1>5, SumType
<1>9. SumFunctionOnSet(g, D) = SumFunctionOnSet(f, D) - f[d] + g[d]
  <2>1. IsFiniteSet(D) /\ d \in D BY <1>1, <1>7
  <2>2. \A e \in D : f[e] \in Int /\ g[e] \in Int BY <1>5
  <2>3. \A e \in D \ {d} : f[e] = g[e] BY <1>5
  <2> QED BY ONLY <2>1, <2>2, <2>3, SumChanged
<1> QED BY <1>5, <1>6, <1>8, <1>9

LEMMA TakenOpened ==
  ASSUME disputes \in Seq(DisputeRecord), NEW x \in DisputeRecord, x.remedy = "none",
         disputes' = Append(disputes, x), NEW i
  PROVE  TakenSum(i)' = TakenSum(i)
<1> DEFINE D == DOMAIN disputes
           n == Len(disputes) + 1
           f == [e \in D |-> Taken(disputes[e], i)]
<1>1. /\ Len(disputes) \in Nat /\ D = 1..Len(disputes) /\ IsFiniteSet(D)
      /\ DOMAIN disputes' = D \cup {n} /\ disputes'[n] = x
      /\ \A e \in D : disputes'[e] = disputes[e]
  <2>1. Len(disputes) \in Nat /\ D = 1..Len(disputes) BY LenProperties
  <2>2. IsFiniteSet(D) BY <2>1, FS_Interval
  <2> QED BY <2>1, <2>2, Added
<1>2. n \notin D BY <1>1
<1>3. \A e \in D : Taken(disputes[e], i) \in Int
  <2>1. \A e \in D : disputes[e] \in DisputeRecord BY LenProperties, ElementOfSeq
  <2> QED BY <2>1 DEF Taken, DisputeRecord
<1>4. PICK g : g = [e \in D \cup {n} |-> Taken(disputes'[e], i)] OBVIOUS
<1>5. /\ \A e \in D : f[e] \in Int /\ f[e] = g[e]
      /\ g[n] = 0 /\ \A e \in D \cup {n} : g[e] \in Int
  BY <1>1, <1>3, <1>4 DEF Taken
<1>6. TakenSum(i) = SumFunctionOnSet(f, D) /\ TakenSum(i)' = SumFunctionOnSet(g, D \cup {n})
  BY <1>1, <1>4 DEF TakenSum
<1>7. IsFiniteSet(D) BY <1>1
<1> HIDE DEF D, f, n
<1>8. SumFunctionOnSet(g, D \cup {n}) = g[n] + SumFunctionOnSet(g, D)
  BY <1>2, <1>5, <1>7, SumAdd
<1>9. SumFunctionOnSet(f, D) = SumFunctionOnSet(g, D) BY <1>5, <1>7, SumSame
<1>10. SumFunctionOnSet(f, D) \in Int BY <1>5, <1>7, SumType
<1> QED BY <1>5, <1>6, <1>8, <1>9, <1>10

\* An invoice that has no dispute yet has nothing taken off.
LEMMA NothingTaken ==
  ASSUME disputes \in Seq(DisputeRecord), NEW i, \A d \in DOMAIN disputes : disputes[d].invoice # i
  PROVE  TakenSum(i) = 0
<1> DEFINE D == DOMAIN disputes
           f == [e \in D |-> Taken(disputes[e], i)]
<1>1. IsFiniteSet(D) BY LenProperties, FS_Interval
<1>2. \A e \in D : f[e] = 0 BY DEF Taken
<1>3. TakenSum(i) = SumFunctionOnSet(f, D) BY DEF TakenSum
<1> HIDE DEF D, f
<1>4. {} \in SUBSET D /\ (\A e \in D : f[e] \in Int) /\ \A e \in D \ {} : f[e] = 0 BY <1>2
<1>5. SumFunctionOnSet(f, {}) = SumFunctionOnSet(f, D) BY <1>1, <1>4, SumSupport
<1> QED BY <1>3, <1>5, SumEmpty

\* Every call preserves the invariant, the disputes being opened one at a time.
LEMMA CreditOpens ==
  ASSUME CreditInv, NEW i \in DOMAIN invoices, NEW amount \in Amounts, OpenDispute(i, amount),
         SettledFirst
  PROVE  Alone' /\ Accounted'
<1> DEFINE x == [invoice |-> i, status |-> "open", disputed |-> amount, upheld |-> 0,
                 overdue |-> FALSE, remedy |-> "none", clawback |-> 0, split |-> FALSE,
                 owed |-> 0, made |-> 0]
           y == [invoices[i] EXCEPT !.status = "disputed"]
           n == Len(disputes) + 1
<1>1. disputes \in Seq(DisputeRecord) /\ invoices \in Seq(InvoiceRecord)
  BY DEF CreditInv, Inv, TypeOK, SettlementTypeOK
<1>2. invoices[i] \in InvoiceRecord /\ i \in Nat BY <1>1, LenProperties, ElementOfSeq
<1>3. amount \in Nat /\ amount <= Outstanding(i) BY SettlementAssumption DEF OpenDispute
<1>4. x \in DisputeRecord BY <1>2, <1>3 DEF DisputeRecord
<1>5. disputes' = Append(disputes, x) /\ invoices' = [invoices EXCEPT ![i] = y] BY DEF OpenDispute
<1>6. /\ x.invoice = i /\ x.disputed = amount /\ x.upheld = 0 /\ x.remedy = "none" OBVIOUS
<1>7. y \in InvoiceRecord /\ Amount(y) = Amount(invoices[i]) BY <1>2 DEF InvoiceRecord, Amount
<1> HIDE DEF x, y
<1>8. /\ DOMAIN invoices' = DOMAIN invoices
      /\ \A j \in DOMAIN invoices : Amount(invoices'[j]) = Amount(invoices[j])
  BY <1>1, <1>5, <1>7, Replaced
<1>9. \A j \in DOMAIN invoices : /\ invoices'[j].total = invoices[j].total
                                 /\ invoices'[j].issued = invoices[j].issued
                                 /\ invoices'[j].credits = invoices[j].credits
  BY <1>8 DEF Amount
<1>10. /\ DOMAIN disputes' = DOMAIN disputes \cup {n} /\ n \notin DOMAIN disputes
       /\ disputes'[n] = x /\ \A e \in DOMAIN disputes : disputes'[e] = disputes[e]
  BY <1>1, <1>4, <1>5, Added, LenProperties
<1> HIDE DEF n
<1>11. Accounted'
  <2>1. \A j : TakenSum(j)' = TakenSum(j) BY <1>1, <1>4, <1>5, <1>6, TakenOpened
  <2> QED BY <1>8, <1>9, <2>1 DEF CreditInv, Accounted
<1>12. amount <= invoices[i].total
  <2>1. invoices[i].credits \in Int /\ invoices[i].total \in Nat BY <1>2 DEF InvoiceRecord
  <2>2. invoices[i].credits <= 0 BY DEF CreditInv, Accounted
  <2> QED BY <1>3, <2>1, <2>2 DEF Outstanding
<1>13. \A d \in DOMAIN disputes : disputes[d].invoice = i => Finished(disputes[d])
  BY <1>6, <1>10 DEF SettledFirst
<1>14. \A d \in DOMAIN disputes : disputes[d].invoice \in DOMAIN invoices
  BY DEF CreditInv, Inv, DisputesSound
<1>15. Alone'
  <2>1. ASSUME NEW d \in DOMAIN disputes'
        PROVE  /\ disputes'[d].upheld <= disputes'[d].disputed
               /\ ~Finished(disputes'[d]) =>
                    disputes'[d].disputed <= invoices'[disputes'[d].invoice].total
    <3>1. CASE d \in DOMAIN disputes
      BY <1>9, <1>10, <1>14, <3>1 DEF CreditInv, Alone
    <3>2. CASE d = n BY <1>3, <1>6, <1>9, <1>10, <1>12, <3>2
    <3> QED BY <1>10, <2>1, <3>1, <3>2
  <2>2. ASSUME NEW d \in DOMAIN disputes', NEW e \in DOMAIN disputes',
               disputes'[d].invoice = disputes'[e].invoice, d # e
        PROVE  Finished(disputes'[d]) \/ Finished(disputes'[e])
    <3>1. CASE d \in DOMAIN disputes /\ e \in DOMAIN disputes
      BY <1>10, <2>2, <3>1 DEF CreditInv, Alone
    <3>2. CASE d = n BY <1>6, <1>10, <1>13, <2>2, <3>2
    <3>3. CASE e = n BY <1>6, <1>10, <1>13, <2>2, <3>3
    <3> QED BY <1>10, <2>2, <3>1, <3>2, <3>3
  <2> QED BY <2>1, <2>2 DEF Alone
<1> QED BY <1>11, <1>15

LEMMA CreditKeeps ==
  ASSUME CreditInv, NEW d \in DOMAIN disputes, DisputeStep(d)
  PROVE  Alone' /\ Accounted'
<1> DEFINE old == disputes[d]
           new == disputes'[d]
           u == old.upheld
<1> PICK i : i = disputes[d].invoice OBVIOUS
<1>0. Inv BY DEF CreditInv
<1>1. disputes \in Seq(DisputeRecord) /\ invoices \in Seq(InvoiceRecord)
  BY <1>0 DEF Inv, TypeOK, SettlementTypeOK
<1>2. old \in DisputeRecord BY <1>1, LenProperties, ElementOfSeq
<1>3. i \in DOMAIN invoices BY <1>0 DEF Inv, DisputesSound
<1>4. invoices[i] \in InvoiceRecord BY <1>1, <1>3, LenProperties, ElementOfSeq
<1>5. u <= old.disputed BY DEF CreditInv, Alone
<1>6. /\ DOMAIN disputes' = DOMAIN disputes
      /\ \A e \in DOMAIN disputes : e # d => disputes'[e] = disputes[e]
      /\ DisputeMoved(d, old, new)
  BY <1>0, <1>5, MovesDispute
<1>7. /\ new \in DisputeRecord /\ new.invoice = i /\ new.disputed = old.disputed
      /\ new.upheld <= new.disputed /\ (Finished(old) => Finished(new))
  BY <1>6 DEF DisputeMoved
<1>8. /\ DOMAIN invoices' = DOMAIN invoices
      /\ \A j \in DOMAIN invoices : j # i => Amount(invoices'[j]) = Amount(invoices[j])
      /\ invoices'[i].issued = invoices[i].issued
      /\ IF Credit(d) THEN /\ invoices'[i].credits = invoices[i].credits - u
                           /\ invoices'[i].total = AtLeastZero(invoices[i].total - u)
         ELSE Amount(invoices'[i]) = Amount(invoices[i])
  BY <1>0, CreditAmounts
<1>9. \A j \in DOMAIN invoices : j # i => /\ invoices'[j].total = invoices[j].total
                                          /\ invoices'[j].issued = invoices[j].issued
                                          /\ invoices'[j].credits = invoices[j].credits
  BY <1>8 DEF Amount
<1>10. \A j : /\ TakenSum(j) \in Int
              /\ TakenSum(j)' = TakenSum(j) - Taken(old, j) + Taken(new, j)
  BY <1>1, <1>6, <1>7, TakenMoves
<1>11. \A j : Taken(old, j) \in Int /\ Taken(new, j) \in Int
  BY <1>2, <1>7 DEF Taken, DisputeRecord
<1>12. \A j : j # i => Taken(old, j) = 0 /\ Taken(new, j) = 0 BY <1>7 DEF Taken
<1>13. \A j \in DOMAIN invoices : invoices[j].credits <= 0
                                   /\ TakenSum(j) + invoices[j].total = invoices[j].issued
  BY DEF CreditInv, Accounted
<1>14. /\ invoices[i].credits \in Int /\ invoices[i].total \in Nat /\ invoices[i].issued \in Nat
       /\ u \in Nat /\ old.disputed \in Nat
  BY <1>2, <1>4 DEF InvoiceRecord, DisputeRecord
<1>15. \A e \in DOMAIN disputes : disputes[e].invoice \in DOMAIN invoices
  BY <1>0 DEF Inv, DisputesSound
<1>16. \A e \in DOMAIN disputes :
         /\ disputes[e].upheld <= disputes[e].disputed
         /\ ~Finished(disputes[e]) => disputes[e].disputed <= invoices[disputes[e].invoice].total
         /\ disputes[e].invoice = i /\ e # d => Finished(disputes[e]) \/ Finished(old)
  BY DEF CreditInv, Alone
<1>17. Credit(d) => ~Finished(old) /\ new.remedy = "credit" /\ new.upheld = u
  BY <1>6 DEF DisputeMoved
<1>18. ~Credit(d) => \A j : Taken(new, j) = Taken(old, j) BY <1>6 DEF DisputeMoved
<1>19. \A e, f \in DOMAIN disputes' :
         disputes'[e].invoice = disputes'[f].invoice /\ e # f =>
           Finished(disputes'[e]) \/ Finished(disputes'[f])
  <2>1. \A e \in DOMAIN disputes : /\ disputes'[e].invoice = disputes[e].invoice
                                   /\ Finished(disputes[e]) => Finished(disputes'[e])
    <3>1. ASSUME NEW e \in DOMAIN disputes, e = d
          PROVE  /\ disputes'[e].invoice = disputes[e].invoice
                 /\ Finished(disputes[e]) => Finished(disputes'[e])
      BY <1>7, <3>1
    <3> QED BY <1>6, <3>1
  <2> HIDE DEF old, new, u
  <2> QED BY <1>6, <2>1 DEF CreditInv, Alone
<1> HIDE DEF old, new, u
<1>20. CASE Credit(d)
  <2>1. u <= invoices[i].total
    <3>1. old.disputed <= invoices[i].total BY <1>16, <1>17, <1>20 DEF old
    <3> QED BY <1>5, <1>14, <3>1
  <2>2. invoices'[i].total = invoices[i].total - u
    BY <1>8, <1>14, <1>20, <2>1 DEF AtLeastZero
  <2>3. Taken(old, i) = 0 /\ Taken(new, i) = u
    BY <1>7, <1>17, <1>20 DEF Taken, Finished
  <2>4. Accounted'
    <3>1. TakenSum(i)' + invoices'[i].total = invoices'[i].issued /\ invoices'[i].credits <= 0
      BY <1>3, <1>8, <1>10, <1>13, <1>14, <1>20, <2>2, <2>3
    <3>2. \A j \in DOMAIN invoices : j # i => TakenSum(j)' = TakenSum(j) BY <1>10, <1>12
    <3> QED BY <1>8, <1>9, <1>13, <3>1, <3>2 DEF Accounted
  <2>5. \A e \in DOMAIN disputes' :
          /\ disputes'[e].upheld <= disputes'[e].disputed
          /\ ~Finished(disputes'[e]) =>
               disputes'[e].disputed <= invoices'[disputes'[e].invoice].total
    <3>1. Finished(new) BY <1>17, <1>20 DEF Finished
    <3>2. \A e \in DOMAIN disputes : e # d /\ disputes[e].invoice = i => Finished(disputes[e])
      BY <1>16, <1>17, <1>20
    <3>3. ASSUME NEW e \in DOMAIN disputes, e # d
          PROVE  /\ disputes'[e].upheld <= disputes'[e].disputed
                 /\ ~Finished(disputes'[e]) =>
                      disputes'[e].disputed <= invoices'[disputes'[e].invoice].total
      <4>1. disputes'[e] = disputes[e] BY <1>6, <3>3
      <4> QED BY <1>9, <1>15, <1>16, <3>2, <3>3, <4>1
    <3>4. disputes'[d].upheld <= disputes'[d].disputed /\ Finished(disputes'[d])
      BY <1>7, <3>1 DEF new
    <3> QED BY <1>6, <3>3, <3>4
  <2> QED BY <1>19, <2>4, <2>5 DEF Alone
<1>21. CASE ~Credit(d)
  <2>1. \A j \in DOMAIN invoices : /\ invoices'[j].total = invoices[j].total
                                   /\ invoices'[j].issued = invoices[j].issued
                                   /\ invoices'[j].credits = invoices[j].credits
    BY <1>8, <1>9, <1>21 DEF Amount
  <2>2. \A j : TakenSum(j)' = TakenSum(j) BY <1>10, <1>11, <1>18, <1>21
  <2>3. Accounted' BY <1>8, <1>13, <2>1, <2>2 DEF Accounted
  <2>4. ASSUME NEW e \in DOMAIN disputes
        PROVE  /\ disputes'[e].upheld <= disputes'[e].disputed
               /\ ~Finished(disputes'[e]) =>
                    disputes'[e].disputed <= invoices'[disputes'[e].invoice].total
    <3>1. CASE e = d
      <4>1. /\ new = disputes'[e] /\ old = disputes[e] /\ old.invoice = i BY <3>1 DEF old, new
      <4>2. ~Finished(old) => old.disputed <= invoices[i].total BY <1>16, <4>1
      <4> QED BY <1>3, <1>7, <2>1, <4>1, <4>2
    <3>2. CASE e # d BY <1>6, <1>15, <1>16, <2>1, <3>2
    <3> QED BY <3>1, <3>2
  <2> QED BY <1>6, <1>19, <2>3, <2>4 DEF Alone
<1> QED BY <1>20, <1>21

LEMMA CreditSettles ==
  ASSUME CreditInv, SettlementNext, UNCHANGED billingVars
  PROVE  Alone' /\ Accounted'
<1>1. /\ AmountsKept /\ disputes' = disputes
      /\ \A i \in DOMAIN invoices' \ DOMAIN invoices : NewInvoice(invoices'[i])
  BY SettlementAmounts DEF CreditInv, Inv, TypeOK, billingVars
<1>2. /\ DOMAIN invoices \subseteq DOMAIN invoices'
      /\ \A i \in DOMAIN invoices : /\ invoices'[i].total = invoices[i].total
                                    /\ invoices'[i].issued = invoices[i].issued
                                    /\ invoices'[i].credits = invoices[i].credits
  BY <1>1 DEF AmountsKept, Amount
<1>3. \A d \in DOMAIN disputes : disputes[d].invoice \in DOMAIN invoices
  BY DEF CreditInv, Inv, DisputesSound
<1>4. Alone' BY <1>1, <1>2, <1>3 DEF CreditInv, Alone
<1>5. \A i : TakenSum(i)' = TakenSum(i) BY <1>1 DEF TakenSum
<1>6. ASSUME NEW i \in DOMAIN invoices'
      PROVE  invoices'[i].credits <= 0 /\ TakenSum(i)' + invoices'[i].total = invoices'[i].issued
  <2>1. CASE i \in DOMAIN invoices BY <1>2, <1>5, <2>1 DEF CreditInv, Accounted
  <2>2. CASE i \notin DOMAIN invoices
    <3>1. NewInvoice(invoices'[i]) BY <1>1, <1>6, <2>2
    <3>2. TakenSum(i)' = 0
      <4>1. disputes \in Seq(DisputeRecord) BY DEF CreditInv, Inv, TypeOK
      <4>2. \A d \in DOMAIN disputes : disputes[d].invoice # i BY <1>3, <2>2
      <4> QED BY <1>5, <4>1, <4>2, NothingTaken
    <3>3. invoices'[i].total \in Nat
      <4>1. invoices' \in Seq(InvoiceRecord) BY InvoiceCalls DEF CreditInv, Inv, TypeOK
      <4>2. invoices'[i] \in InvoiceRecord BY <1>6, <4>1, LenProperties, ElementOfSeq
      <4> QED BY <4>2 DEF InvoiceRecord
    <3> QED BY <3>1, <3>2, <3>3 DEF NewInvoice
  <2> QED BY <2>1, <2>2
<1> QED BY <1>4, <1>6 DEF Accounted

\* What an invoice was credited is the sum of what its disputes took.
LEMMA CreditsAreTaken ==
  ASSUME Inv, NEW i
  PROVE  CreditsOn(i) = TakenSum(i)
<1> DEFINE D == DOMAIN disputes
           R == {d \in D : disputes[d].invoice = i /\ disputes[d].remedy = "credit"}
           f == [d \in D |-> disputes[d].upheld]
           g == [d \in D |-> Taken(disputes[d], i)]
<1>1. disputes \in Seq(DisputeRecord) BY DEF Inv, TypeOK
<1>2. IsFiniteSet(D) BY <1>1, LenProperties, FS_Interval
<1>3. \A d \in D : disputes[d].upheld \in Nat /\ Taken(disputes[d], i) \in Int
  <2>1. \A d \in D : disputes[d] \in DisputeRecord BY <1>1, LenProperties, ElementOfSeq
  <2> QED BY <2>1 DEF Taken, DisputeRecord
<1>4. /\ R \in SUBSET D /\ (\A d \in D : g[d] \in Int) /\ (\A d \in D \ R : g[d] = 0)
      /\ \A d \in R : f[d] \in Int /\ f[d] = g[d]
  BY <1>3 DEF Taken
<1>5. CreditsOn(i) = SumFunctionOnSet(f, R) /\ TakenSum(i) = SumFunctionOnSet(g, D)
  BY DEF CreditsOn, TakenSum
<1> HIDE DEF D, R, f, g
<1>6. SumFunctionOnSet(g, R) = SumFunctionOnSet(g, D) BY <1>2, <1>4, SumSupport
<1>7. IsFiniteSet(R) BY <1>2, <1>4, FS_Subset
<1>8. SumFunctionOnSet(f, R) = SumFunctionOnSet(g, R) BY <1>4, <1>7, SumSame
<1> QED BY <1>5, <1>6, <1>8

\* SPEC.md 10.2, "The same amount MUST NOT be credited twice", as far as it goes: if
\* a dispute is only opened once those before it on the invoice are finished, no
\* invoice is credited more than it was issued for, whatever is adjudicated,
\* expired, withdrawn and remedied in what order.
THEOREM CreditedOneAtATime == Spec /\ [][SettledFirst]_vars => []CreditedOnce
<1>1. Init => Alone /\ Accounted
  BY DEF Init, SettlementInit, Alone, Accounted
<1>2. Inv /\ Inv' /\ Alone /\ Accounted /\ [Next]_vars /\ [SettledFirst]_vars
        => Alone' /\ Accounted'
  <2> SUFFICES ASSUME CreditInv, [Next]_vars, [SettledFirst]_vars
               PROVE  Alone' /\ Accounted'
    BY DEF CreditInv
  <2>1. CASE UNCHANGED vars
    <3>1. UNCHANGED <<disputes, invoices>>
      BY <2>1 DEF vars, settlementVars, billingVars
    <3> QED BY <3>1 DEF CreditInv, Alone, Accounted, TakenSum
  <2>2. CASE Next /\ SettledFirst
    BY <2>2, BillingCases, CreditSettles, CreditOpens, CreditKeeps
  <2> QED BY <2>1, <2>2
<1>3. Inv /\ Accounted => CreditedOnce
  <2> SUFFICES ASSUME Inv, Accounted, NEW i \in DOMAIN invoices
               PROVE  CreditsOn(i) <= invoices[i].issued
    BY DEF CreditedOnce
  <2>1. invoices \in Seq(InvoiceRecord) BY DEF Inv, TypeOK, SettlementTypeOK
  <2>2. invoices[i] \in InvoiceRecord BY <2>1, LenProperties, ElementOfSeq
  <2>3. invoices[i].total \in Nat /\ invoices[i].issued \in Nat BY <2>2 DEF InvoiceRecord
  <2>4. TakenSum(i) \in Int
    <3>1. disputes \in Seq(DisputeRecord) BY DEF Inv, TypeOK
    <3> DEFINE f == [d \in DOMAIN disputes |-> Taken(disputes[d], i)]
    <3>2. IsFiniteSet(DOMAIN disputes) BY <3>1, LenProperties, FS_Interval
    <3>3. \A d \in DOMAIN disputes : disputes[d] \in DisputeRecord
      BY <3>1, LenProperties, ElementOfSeq
    <3>4. \A d \in DOMAIN disputes : f[d] \in Int BY <3>3 DEF Taken, DisputeRecord
    <3>5. TakenSum(i) = SumFunctionOnSet(f, DOMAIN disputes) BY DEF TakenSum
    <3> HIDE DEF f
    <3> QED BY <3>2, <3>4, <3>5, SumType
  <2> QED BY <2>3, <2>4, CreditsAreTaken DEF Accounted
<1> QED BY <1>1, <1>2, <1>3, BillingInvariant, PTL DEF Spec

(***************************************************************************)
(* The balances of the payees.                                             *)
(***************************************************************************)
Nets == [k \in DOMAIN payouts |-> payouts[k].net]
Those(p, s) == {k \in DOMAIN payouts : payouts[k].account = p /\ payouts[k].status = s}

\* The payouts, as the sums below need them.
LEMMA PayoutData ==
  ASSUME SettlementTypeOK
  PROVE  /\ payouts \in Seq(PayoutRecord) /\ Len(payouts) \in Nat
         /\ DOMAIN payouts = 1..Len(payouts)
         /\ \A k \in DOMAIN payouts :
              payouts[k] \in PayoutRecord /\ Nets[k] = payouts[k].net /\ Nets[k] \in Nat
         /\ \A p, s : IsFiniteSet(Those(p, s)) /\ Those(p, s) \subseteq DOMAIN payouts
         /\ \A p, s : SumFunctionOnSet(Nets, Those(p, s)) \in Nat
<1>1. /\ payouts \in Seq(PayoutRecord) /\ Len(payouts) \in Nat
      /\ DOMAIN payouts = 1..Len(payouts)
  BY LenProperties DEF SettlementTypeOK
<1>2. \A k \in DOMAIN payouts :
        payouts[k] \in PayoutRecord /\ Nets[k] = payouts[k].net /\ Nets[k] \in Nat
  <2> SUFFICES ASSUME NEW k \in DOMAIN payouts
               PROVE  payouts[k] \in PayoutRecord /\ payouts[k].net \in Nat
    BY DEF Nets
  <2>1. payouts[k] \in PayoutRecord BY <1>1
  <2> QED BY <2>1 DEF PayoutRecord
<1>3. \A p, s : IsFiniteSet(Those(p, s)) /\ Those(p, s) \subseteq DOMAIN payouts
  <2> TAKE p, s
  <2>1. Those(p, s) \subseteq DOMAIN payouts BY DEF Those
  <2>2. IsFiniteSet(DOMAIN payouts) BY <1>1, FS_Interval
  <2> QED BY <2>1, <2>2, FS_Subset
<1>4. \A p, s : SumFunctionOnSet(Nets, Those(p, s)) \in Nat
  <2> TAKE p, s
  <2>1. \A k \in Those(p, s) : Nets[k] \in Nat BY <1>2, <1>3
  <2> QED BY <1>3, <2>1, SumNatural
<1> QED BY <1>1, <1>2, <1>3, <1>4

\* A payout more: only the sum it counts in grows, by its net.
LEMMA PayoutAdds ==
  ASSUME SettlementTypeOK, NEW x \in PayoutRecord, payouts' = Append(payouts, x)
  PROVE  \A p, s : NetOf(p, s)' =
                     NetOf(p, s) + (IF x.account = p /\ x.status = s THEN x.net ELSE 0)
<1> DEFINE n == Len(payouts) + 1
<1>1. /\ DOMAIN payouts' = (DOMAIN payouts) \cup {n} /\ n \notin DOMAIN payouts
      /\ payouts'[n] = x /\ \A k \in DOMAIN payouts : payouts'[k] = payouts[k]
  BY PayoutData
<1> HIDE DEF n
<1>2. PICK f : f = Nets OBVIOUS
<1>3. PICK g : g = Nets' OBVIOUS
<1>4. x.net \in Nat /\ g[n] = x.net /\ \A k \in DOMAIN payouts : g[k] = f[k] /\ f[k] \in Nat
  BY <1>1, <1>2, <1>3, PayoutData DEF Nets, PayoutRecord
<1> SUFFICES ASSUME NEW p, NEW s
             PROVE  NetOf(p, s)' =
                      NetOf(p, s) + (IF x.account = p /\ x.status = s THEN x.net ELSE 0)
  OBVIOUS
<1>5. PICK S : S = Those(p, s) OBVIOUS
<1>6. IsFiniteSet(S) /\ S \subseteq DOMAIN payouts /\ n \notin S BY <1>1, <1>5, PayoutData
<1>7. SumFunctionOnSet(f, S) = SumFunctionOnSet(g, S) /\ SumFunctionOnSet(f, S) \in Nat
  <2>1. \A k \in S : f[k] \in Int /\ f[k] = g[k] BY <1>4, <1>6
  <2> QED BY <1>2, <1>5, <1>6, <2>1, SumSame, PayoutData
<1>8. NetOf(p, s) = SumFunctionOnSet(f, S) BY <1>2, <1>5 DEF NetOf, Nets, Those
<1>9. NetOf(p, s)' = SumFunctionOnSet(g, Those(p, s)') BY <1>3 DEF NetOf, Nets, Those
<1>10. CASE x.account = p /\ x.status = s
  <2>1. Those(p, s)' = S \cup {n} BY <1>1, <1>5, <1>10 DEF Those
  <2>2. \A k \in S \cup {n} : g[k] \in Int BY <1>4, <1>6
  <2>3. SumFunctionOnSet(g, S \cup {n}) = g[n] + SumFunctionOnSet(g, S)
    BY <1>6, <2>2, SumAdd
  <2> QED BY <1>4, <1>7, <1>8, <1>9, <1>10, <2>1, <2>3
<1>11. CASE ~(x.account = p /\ x.status = s)
  <2>1. Those(p, s)' = S BY <1>1, <1>5, <1>11 DEF Those
  <2> QED BY <1>7, <1>8, <1>9, <1>11, <2>1
<1> QED BY <1>10, <1>11

\* A payout marked sent leaves the pending ones of its account for the sent ones.
LEMMA PayoutMoves ==
  ASSUME SettlementTypeOK, NEW k \in DOMAIN payouts, payouts[k].status = "pending",
         NEW a, a = payouts[k].account, NEW net, net = payouts[k].net,
         NEW x \in PayoutRecord, x.account = a, x.net = net, x.status = "sent",
         payouts' = [payouts EXCEPT ![k] = x]
  PROVE  /\ a \in Payees /\ net \in Nat
         /\ NetOf(a, "pending") \in Nat /\ NetOf(a, "sent") \in Nat
         /\ net <= NetOf(a, "pending")
         /\ NetOf(a, "pending")' = NetOf(a, "pending") - net
         /\ NetOf(a, "sent")' = NetOf(a, "sent") + net
         /\ \A p, s : p # a => NetOf(p, s)' = NetOf(p, s)
<1>1. payouts[k] \in PayoutRecord /\ a \in Payees /\ net \in Nat BY PayoutData DEF PayoutRecord
<1>2. x.account = a /\ x.net = net /\ x.status = "sent" OBVIOUS
<1>3. /\ DOMAIN payouts' = DOMAIN payouts
      /\ payouts'[k] = x /\ \A j \in DOMAIN payouts : j # k => payouts'[j] = payouts[j]
  BY PayoutData
<1>4. PICK f : f = Nets OBVIOUS
<1>5. Nets' = f
  <2>1. \A j \in DOMAIN payouts : payouts'[j].net = payouts[j].net BY <1>2, <1>3
  <2> QED BY <1>3, <1>4, <2>1 DEF Nets
<1>6. \A p, s : /\ NetOf(p, s) = SumFunctionOnSet(f, Those(p, s))
                /\ NetOf(p, s)' = SumFunctionOnSet(f, Those(p, s)')
  BY <1>4, <1>5 DEF NetOf, Nets, Those
<1>7. \A j \in DOMAIN payouts : f[j] \in Nat BY <1>4, PayoutData
<1>8. f[k] = net BY <1>4, PayoutData
<1>9. \A p, s : p # a => NetOf(p, s)' = NetOf(p, s)
  <2> SUFFICES ASSUME NEW p, NEW s, p # a PROVE NetOf(p, s)' = NetOf(p, s) OBVIOUS
  <2>1. Those(p, s)' = Those(p, s) BY <1>2, <1>3 DEF Those
  <2> QED BY <1>6, <2>1
<1>10. PICK S : S = Those(a, "pending") OBVIOUS
<1>11. PICK T : T = Those(a, "sent") OBVIOUS
<1>12. /\ k \in S /\ k \notin T
       /\ Those(a, "pending")' = S \ {k} /\ Those(a, "sent")' = T \cup {k}
  BY <1>2, <1>3, <1>10, <1>11 DEF Those
<1>13. /\ IsFiniteSet(S) /\ IsFiniteSet(T) /\ S \subseteq DOMAIN payouts /\ T \subseteq DOMAIN payouts
       /\ SumFunctionOnSet(f, S) \in Nat /\ SumFunctionOnSet(f, T) \in Nat
  BY <1>4, <1>10, <1>11, PayoutData
<1>14. SumFunctionOnSet(f, T \cup {k}) = f[k] + SumFunctionOnSet(f, T)
  <2>1. \A j \in T \cup {k} : f[j] \in Int BY <1>7, <1>13
  <2> QED BY <1>12, <1>13, <2>1, SumAdd
<1>15. /\ SumFunctionOnSet(f, S) = f[k] + SumFunctionOnSet(f, S \ {k})
       /\ SumFunctionOnSet(f, S \ {k}) \in Nat
  <2> DEFINE U == S \ {k}
  <2>1. IsFiniteSet(U) /\ k \notin U /\ S = U \cup {k} BY <1>12, <1>13, FS_RemoveElement
  <2>2. \A j \in U \cup {k} : f[j] \in Int BY <1>7, <1>13
  <2>3. \A j \in U : f[j] \in Nat BY <1>7, <1>13
  <2> HIDE DEF U
  <2>4. SumFunctionOnSet(f, U \cup {k}) = f[k] + SumFunctionOnSet(f, U) BY <2>1, <2>2, SumAdd
  <2>5. SumFunctionOnSet(f, U) \in Nat BY <2>1, <2>3, SumNatural
  <2> QED BY <2>1, <2>4, <2>5 DEF U
<1>16. /\ NetOf(a, "pending") \in Nat /\ NetOf(a, "sent") \in Nat
       /\ net <= NetOf(a, "pending")
       /\ NetOf(a, "pending")' = NetOf(a, "pending") - net
       /\ NetOf(a, "sent")' = NetOf(a, "sent") + net
  <2>1. /\ NetOf(a, "pending") = SumFunctionOnSet(f, S) /\ NetOf(a, "sent") = SumFunctionOnSet(f, T)
        /\ NetOf(a, "pending")' = SumFunctionOnSet(f, S \ {k})
        /\ NetOf(a, "sent")' = SumFunctionOnSet(f, T \cup {k})
    BY <1>6, <1>10, <1>11, <1>12
  <2> QED BY <1>1, <1>8, <1>13, <1>14, <1>15, <2>1
<1> QED BY <1>1, <1>9, <1>16

\* Every call but issue_payout and mark_sent leaves the payouts and what is
\* settled and disbursed alone.
LEMMA PayoutCases ==
  ASSUME [Next]_vars
  PROVE  \/ \E p \in Payees, g \in Amounts, party \in Payees, w \in Withholdings :
              IssuePayout(p, g, party, w)
         \/ \E k \in DOMAIN payouts : MarkSent(k)
         \/ UNCHANGED <<payouts, settled, disbursed>>
<1>1. CASE UNCHANGED vars BY <1>1 DEF vars, settlementVars, balances
<1>2. CASE SettlementNext
  <2>1. ASSUME NEW a, CreateAccount(a) \/ \E f \in BOOLEAN : VerifyAccount(a, f)
        PROVE  UNCHANGED <<payouts, settled, disbursed>>
    BY <2>1 DEF CreateAccount, VerifyAccount, balances
  <2>2. ASSUME NEW g, NEW p, NEW a, Accrue(g, p, a)
        PROVE  UNCHANGED <<payouts, settled, disbursed>>
    BY <2>2 DEF Accrue
  <2>3. ASSUME NEW a, NEW g, NEW d, NEW p, IssueInvoice(a, g, d, p)
        PROVE  UNCHANGED <<payouts, settled, disbursed>>
    BY <2>3 DEF IssueInvoice, balances
  <2>4. ASSUME NEW i, NEW g, DisputeInvoice(i, g)
        PROVE  UNCHANGED <<payouts, settled, disbursed>>
    BY <2>4 DEF DisputeInvoice, balances
  <2> QED BY <1>2, <2>1, <2>2, <2>3, <2>4 DEF SettlementNext
<1>3. ASSUME NEW i, NEW g, OpenDispute(i, g)
      PROVE  UNCHANGED <<payouts, settled, disbursed>>
  BY <1>3 DEF OpenDispute, balances
<1>4. ASSUME NEW d, DisputeStep(d)
      PROVE  UNCHANGED <<payouts, settled, disbursed>>
  BY <1>4 DEF DisputeStep, Withdraw, Overdue, AdjudicateRaises, Expire, Credit, Adjudicate, MakeGood,
              DeliverMakeGood, Close, settlementVars, balances
<1> QED BY <1>1, <1>2, <1>3, <1>4, BillingCases

\* What is settled for a payee is the sum of its payouts that can be sent, what is
\* disbursed the sum of those that were, whatever is accrued, disputed or clawed
\* back in between: mark_sent never takes more than there is (issue_payout,
\* mark_sent).
THEOREM PayoutsCovered == Spec => []PayoutsBacked
<1>1. Init => PayoutsBacked
  <2> SUFFICES ASSUME Init, NEW p \in Payees
               PROVE  settled[p] = NetOf(p, "pending") /\ disbursed[p] = NetOf(p, "sent")
    BY DEF PayoutsBacked
  <2>1. DOMAIN payouts = {} /\ settled[p] = 0 /\ disbursed[p] = 0
    BY DEF Init, SettlementInit, Zero, Accounts
  <2>2. \A s : Those(p, s) = {} BY <2>1 DEF Those
  <2>3. \A s : NetOf(p, s) = 0 BY <2>2, SumEmpty DEF NetOf, Those
  <2> QED BY <2>1, <2>3
<1>2. PayoutsBacked /\ Inv /\ [Next]_vars => PayoutsBacked'
  <2> SUFFICES ASSUME PayoutsBacked, Inv, [Next]_vars PROVE PayoutsBacked' OBVIOUS
  <2>0. /\ SettlementTypeOK /\ settled \in [Accounts -> Nat] /\ disbursed \in [Accounts -> Nat]
        /\ Payees \subseteq Accounts
    BY DEF Inv, TypeOK, SettlementTypeOK, Accounts
  <2>1. CASE UNCHANGED <<payouts, settled, disbursed>>
    BY <2>1 DEF PayoutsBacked, NetOf
  <2>2. ASSUME NEW p \in Payees, NEW g \in Amounts, NEW party \in Payees, NEW w \in Withholdings,
               IssuePayout(p, g, party, w)
        PROVE  PayoutsBacked'
    <3> DEFINE share == IF party = p THEN Settle(g)[1] ELSE g
               net == AtLeastZero(share - w)
               s == PayoutStatus(p, net)
               x == [account |-> p, status |-> s, net |-> net, party |-> party]
    <3>1. /\ payouts' = Append(payouts, x) /\ UNCHANGED disbursed
          /\ settled' = IF s = "pending" THEN [settled EXCEPT ![p] = @ + net] ELSE settled
      BY <2>2 DEF IssuePayout
    <3>2. share - w \in Int
      <4>1. share \in Nat /\ w \in Nat BY Parts, SettlementAssumption
      <4> HIDE DEF share
      <4> QED BY <4>1
    <3>3. net \in Nat BY ONLY <3>2, Clamped
    <3>4. s \in {"held", "rolled_over", "pending"} BY DEF PayoutStatus
    <3> HIDE DEF net, s
    <3>5. /\ x \in PayoutRecord /\ x.account = p /\ x.status = s /\ x.net = net
      BY <3>3, <3>4 DEF PayoutRecord
    <3> HIDE DEF x
    <3>6. \A q, t : NetOf(q, t)' = NetOf(q, t) + (IF p = q /\ s = t THEN net ELSE 0)
      BY <2>0, <3>1, <3>5, PayoutAdds
    <3> SUFFICES ASSUME NEW q \in Payees
                 PROVE  settled'[q] = NetOf(q, "pending")' /\ disbursed'[q] = NetOf(q, "sent")'
      BY DEF PayoutsBacked
    <3>7. settled[q] = NetOf(q, "pending") /\ disbursed[q] = NetOf(q, "sent")
      BY DEF PayoutsBacked
    <3>8. settled[q] \in Nat /\ disbursed[q] \in Nat BY <2>0
    <3>9. settled'[q] = settled[q] + (IF p = q /\ s = "pending" THEN net ELSE 0)
      BY <2>0, <3>1, <3>3, <3>8
    <3>10. NetOf(q, "sent")' = NetOf(q, "sent") + 0 BY <3>4, <3>6
    <3>11. NetOf(q, "pending")' = NetOf(q, "pending") + (IF p = q /\ s = "pending" THEN net ELSE 0)
      BY <3>6
    <3> QED BY <3>1, <3>7, <3>8, <3>9, <3>10, <3>11
  <2>3. ASSUME NEW k \in DOMAIN payouts, MarkSent(k)
        PROVE  PayoutsBacked'
    <3>0. PICK a, net : a = payouts[k].account /\ net = payouts[k].net OBVIOUS
    <3> DEFINE x == [payouts[k] EXCEPT !.status = "sent"]
    <3>1. /\ payouts[k].status = "pending" /\ payouts' = [payouts EXCEPT ![k] = x]
          /\ settled' = [settled EXCEPT ![a] = AtLeastZero(@ - net)]
          /\ disbursed' = [disbursed EXCEPT ![a] = @ + net]
      BY <2>3, <3>0 DEF MarkSent
    <3>2. /\ a \in Payees /\ net \in Nat
          /\ NetOf(a, "pending") \in Nat /\ NetOf(a, "sent") \in Nat
          /\ net <= NetOf(a, "pending")
          /\ NetOf(a, "pending")' = NetOf(a, "pending") - net
          /\ NetOf(a, "sent")' = NetOf(a, "sent") + net
          /\ \A p, s : p # a => NetOf(p, s)' = NetOf(p, s)
      <4>1. payouts[k] \in PayoutRecord BY <2>0, PayoutData
      <4>2. x \in PayoutRecord /\ x.account = a /\ x.net = net /\ x.status = "sent"
        BY <3>0, <4>1 DEF PayoutRecord
      <4>3. PICK y : y = x OBVIOUS
      <4>4. /\ y \in PayoutRecord /\ y.account = a /\ y.net = net /\ y.status = "sent"
            /\ payouts' = [payouts EXCEPT ![k] = y] /\ payouts[k].status = "pending"
        BY <3>1, <4>2, <4>3
      <4> HIDE DEF x
      <4>5. SettlementTypeOK /\ a = payouts[k].account /\ net = payouts[k].net BY <2>0, <3>0
      <4> QED BY ONLY <4>4, <4>5, k \in DOMAIN payouts, PayoutMoves, ZenonT(60)
    <3> HIDE DEF x
    <3>3. settled[a] = NetOf(a, "pending") /\ disbursed[a] = NetOf(a, "sent")
      BY <3>2 DEF PayoutsBacked
    <3>4. AtLeastZero(settled[a] - net) = settled[a] - net BY <3>2, <3>3 DEF AtLeastZero
    <3> SUFFICES ASSUME NEW q \in Payees
                 PROVE  settled'[q] = NetOf(q, "pending")' /\ disbursed'[q] = NetOf(q, "sent")'
      BY DEF PayoutsBacked
    <3>5. CASE q = a
      <4>1. settled'[a] = settled[a] - net /\ disbursed'[a] = disbursed[a] + net
        BY <2>0, <3>1, <3>2, <3>4
      <4> QED BY <3>2, <3>3, <3>5, <4>1
    <3>6. CASE q # a
      <4>1. settled'[q] = settled[q] /\ disbursed'[q] = disbursed[q] BY <2>0, <3>1, <3>6
      <4>2. settled[q] = NetOf(q, "pending") /\ disbursed[q] = NetOf(q, "sent")
        BY DEF PayoutsBacked
      <4> QED BY <3>2, <3>6, <4>1, <4>2
    <3> QED BY <3>5, <3>6
  <2> QED BY <2>1, <2>2, <2>3, PayoutCases
<1> QED BY <1>1, <1>2, BillingInvariant, PTL DEF Spec

\* What a step may do to the disputes that have their remedy.
RemediesKept ==
  \A d \in DOMAIN disputes :
    disputes[d].remedy # "none" =>
      /\ disputes'[d].remedy = disputes[d].remedy
      /\ disputes'[d].clawback = disputes[d].clawback
      /\ disputes'[d].upheld = disputes[d].upheld

\* A dispute that was credited or made good stays so, with its amounts
\* (UAP_DISPUTE_ALREADY_RESOLVED, and _live).
THEOREM RemedyOnce == Spec => RemedyIsFinal
<1>1. Inv /\ [Next]_vars => [RemediesKept]_vars
  <2> SUFFICES ASSUME Inv, Next PROVE RemediesKept OBVIOUS
  <2>1. disputes \in Seq(DisputeRecord) BY DEF Inv, TypeOK
  <2>2. CASE UNCHANGED disputes BY <2>2 DEF RemediesKept
  <2>3. ASSUME NEW i \in DOMAIN invoices, NEW g \in Amounts, OpenDispute(i, g)
        PROVE  RemediesKept
    BY <2>1, <2>3 DEF OpenDispute, RemediesKept
  <2>4. ASSUME NEW d \in DOMAIN disputes, DisputeStep(d)
        PROVE  RemediesKept
    <3>1. PICK x : Successor(disputes[d], x) /\ disputes' = [disputes EXCEPT ![d] = x]
      BY <2>4, OneDispute
    <3>2. /\ disputes'[d] = x /\ \A e \in DOMAIN disputes : e # d => disputes'[e] = disputes[e]
      BY <2>1, <3>1, Replaced DEF Successor
    <3> QED BY <3>1, <3>2 DEF RemediesKept, Successor
  <2> QED BY <2>2, <2>3, <2>4, BillingCases DEF billingVars
<1> QED BY <1>1, BillingInvariant, PTL DEF Spec, RemedyIsFinal, RemediesKept
=============================================================================
