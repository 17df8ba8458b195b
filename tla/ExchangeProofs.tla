--------------------------- MODULE ExchangeProofs ---------------------------
(***************************************************************************)
(* What the exchange guarantees of every sequence of calls, for every set  *)
(* of line items, entities, requests and receipts; and that the server in  *)
(* front of it, with one handler thread, keeps the calls whole.            *)
(***************************************************************************)
EXTENDS ExchangeServer, DecisionLemmas, SequenceTheorems

(***************************************************************************)
(* Amounts.                                                                *)
(***************************************************************************)
\* Settlement is exact, and each share is within a micro of its rate (DivideExact).
LEMMA SettleExact ==
  ASSUME NEW gross \in Nat
  PROVE  LET s == Settle(gross)
         IN  /\ s \in Nat \X Nat
             /\ s[1] + s[2] = gross
             /\ Rounded(s[1], gross * (10000 - TakeRateBps))
             /\ Rounded(s[2], gross * TakeRateBps)
<1> DEFINE node == gross * (10000 - TakeRateBps)
           exchange == gross * TakeRateBps
<1>1. node \in Nat /\ exchange \in Nat /\ node + exchange = 10000 * gross
  BY SplitAssumption
<1> HIDE DEF node, exchange
<1> QED BY <1>1, DivideExact DEF Settle, Rounded, node, exchange

(***************************************************************************)
(* Hosted decisions.                                                       *)
(***************************************************************************)
\* What decide records for a placement it fills is a well-formed entry.
LEMMA OpenEntryType ==
  ASSUME NEW request \in Requests, NEW i \in Filled(request),
         request.answer # None, creative \in [LineItems -> Creatives]
  PROVE  OpenEntry(request, request.placements[i]) \in Entry
<1> DEFINE placement == request.placements[i]
           bids == BidsFor(placement)
<1>1. request \in Request BY ExchangeAssumption
<1>2. placement.relevant \in SUBSET LineItems /\ placement.floor \in Nat
  <2>1. request.placements \in Seq([relevant : SUBSET LineItems, floor : Nat])
    BY <1>1 DEF Request
  <2>2. i \in 1..Len(request.placements) BY <2>1 DEF Filled
  <2>3. placement \in [relevant : SUBSET LineItems, floor : Nat]
    BY <2>1, <2>2, ElementOfSeq
  <2> HIDE DEF placement
  <2> QED BY <2>3
<1>3. FloorOf(placement) \in Nat BY <1>2, ExchangeAssumption DEF FloorOf
<1>4. bids \in SUBSET [lid : LineItems, ecpm : 0..MaxBid]
  <2>1. \A l \in LineItems : Item[l].ecpm \in 0..MaxBid BY ExchangeAssumption
  <2>2. bids \subseteq {[lid |-> l, ecpm |-> Item[l].ecpm] : l \in LineItems}
    BY <1>2 DEF BidsFor, Bids
  <2> HIDE DEF bids
  <2> QED BY <2>1, <2>2
<1>5. bids \in SUBSET BidsUpTo(MaxBid)
  <2>1. LineItems \subseteq Nat BY ExchangeAssumption
  <2> HIDE DEF bids
  <2> QED BY <1>4, <2>1 DEF BidsUpTo
<1>6. bids # {} BY DEF Filled
<1> HIDE DEF bids
<1>7. Winner(bids) \in bids BY <1>5, <1>6, WinnerExists, ExchangeAssumption
<1>8. Winner(bids).lid \in LineItems BY <1>4, <1>7
<1>9. ClearingPrice(bids, FloorOf(placement)) \in Nat
  BY <1>3, <1>5, PriceNatural, ExchangeAssumption
<1>10. Highest(bids \ {Winner(bids)}) \in Nat
  <2>1. bids \ {Winner(bids)} \in SUBSET BidsUpTo(MaxBid) BY <1>5
  <2> QED BY <2>1, HighestBound, ExchangeAssumption
<1>11. request.answer \in Answers /\ request.entity \in Entities \cup {None}
  BY <1>1 DEF Request
<1> QED BY <1>8, <1>9, <1>10, <1>11 DEF OpenEntry, Entry, TraceSummary, bids

(***************************************************************************)
(* The inductive invariant.  TypeOK alone is not inductive: an open nonce  *)
(* has an entry because NonceLifecycle says decisions recorded one, and a  *)
(* fresh nonce is unspent because every spent hosted nonce was issued.     *)
(***************************************************************************)
\* Every spent nonce was derived for some bundle or issued by decide.
SpentKnown == \A n \in spentNonces : n[1] = None => n \in IssuedNonces

\* The spent set is the set of nonces of the paid receipts.
SpentIsLogged == spentNonces = {log[i].receipt.nonce : i \in DOMAIN log}

Inv == TypeOK /\ NonceLifecycle /\ SpentKnown /\ SpentIsLogged

\* Every step decides, bills, or leaves decisions, nonces and books alone.
LEMMA StepCases ==
  ASSUME [Next]_vars
  PROVE  \/ \E request \in Requests : Decide(request)
         \/ \E r \in Receipts : Accept(r)
         \/ UNCHANGED <<decisions, openNonces, books>>
<1>1. CASE UNCHANGED vars BY <1>1 DEF vars
<1>2. ASSUME NEW e \in Entities, NEW t \in Tiers, Enrol(e, t) \/ VerifyAccount(e, t)
      PROVE  UNCHANGED <<decisions, openNonces, books>>
  BY <1>2 DEF Enrol, VerifyAccount
<1>3. ASSUME NEW l \in LineItems, AddLineItem(l) \/ WithdrawLineItem(l) \/ \E c \in Creatives : ReplaceCreative(l, c)
      PROVE  UNCHANGED <<decisions, openNonces, books>>
  BY <1>3 DEF AddLineItem, WithdrawLineItem, ReplaceCreative
<1>4. ASSUME NEW b \in BundleIds, NEW formats, IssueBundle(b, formats)
      PROVE  UNCHANGED <<decisions, openNonces, books>>
  BY <1>4 DEF IssueBundle
<1>5. ASSUME NEW b \in BundleIds, NEW e \in Entities, IssueAllocation(b, e)
      PROVE  UNCHANGED <<decisions, openNonces, books>>
  BY <1>5 DEF IssueAllocation
<1>6. ASSUME NEW r \in Receipts, Reject(r)
      PROVE  UNCHANGED <<decisions, openNonces, books>>
  BY <1>6 DEF Reject
<1> QED BY <1>1, <1>2, <1>3, <1>4, <1>5, <1>6 DEF Next, Calls, VerifyReceipt

\* What decide does to the nonces: those of the placements it fills are new.
LEMMA DecideNonces ==
  ASSUME Inv, NEW request \in Requests, Decide(request)
  PROVE  \/ UNCHANGED <<decisions, openNonces>>
         \/ LET n == Len(decisions) + 1
                new == {HostedNonce(n, i) : i \in Filled(request)}
            IN  /\ decisions' \in Seq([1..MaxPlacements -> Entry \cup {None}])
                /\ Len(decisions') = n
                /\ \A m \in 1..Len(decisions) : decisions'[m] = decisions[m]
                /\ openNonces' = openNonces \cup new
                /\ IssuedNonces' = IssuedNonces \cup new
                /\ new \cap (openNonces \cup IssuedNonces) = {}
                /\ new \subseteq Nonce
<1> DEFINE n == Len(decisions) + 1
           new == {HostedNonce(n, i) : i \in Filled(request)}
           entry == [i \in 1..MaxPlacements |->
                       IF i \in Filled(request) THEN OpenEntry(request, request.placements[i])
                                                ELSE None]
<1>1. SUFFICES ASSUME request.rid \notin HoldoutIds
               PROVE  /\ decisions' \in Seq([1..MaxPlacements -> Entry \cup {None}])
                      /\ Len(decisions') = n
                      /\ \A m \in 1..Len(decisions) : decisions'[m] = decisions[m]
                      /\ openNonces' = openNonces \cup new
                      /\ IssuedNonces' = IssuedNonces \cup new
                      /\ new \cap (openNonces \cup IssuedNonces) = {}
                      /\ new \subseteq Nonce
  BY DEF Decide
<1>2. decisions' = Append(decisions, entry) /\ openNonces' = openNonces \cup new
  BY <1>1 DEF Decide
<1>3. decisions \in Seq([1..MaxPlacements -> Entry \cup {None}]) BY DEF Inv, TypeOK
<1>4. entry \in [1..MaxPlacements -> Entry \cup {None}]
  BY OpenEntryType DEF Decide, Inv, TypeOK
<1>5. Filled(request) \subseteq 1..MaxPlacements
  <2>1. request \in Request BY ExchangeAssumption
  <2>2. Len(request.placements) <= MaxPlacements /\ Len(request.placements) \in Nat
        /\ MaxPlacements \in Nat
    BY <2>1, ExchangeAssumption DEF Request
  <2>3. DOMAIN request.placements = 1..Len(request.placements) BY <2>1 DEF Request
  <2> QED BY <2>2, <2>3 DEF Filled
<1>6. \A i \in 1..MaxPlacements : entry[i] # None <=> i \in Filled(request)
  <2>1. \A i \in Filled(request) : OpenEntry(request, request.placements[i]) \in Entry
    BY OpenEntryType DEF Decide, Inv, TypeOK
  <2>2. None \notin Entry BY ExchangeAssumption
  <2> QED BY <2>1, <2>2
<1> HIDE DEF entry
<1>7. /\ decisions' \in Seq([1..MaxPlacements -> Entry \cup {None}])
      /\ Len(decisions) \in Nat /\ Len(decisions') = n
      /\ \A m \in 1..Len(decisions) : decisions'[m] = decisions[m]
      /\ decisions'[n] = entry
      /\ DOMAIN decisions = 1..Len(decisions) /\ DOMAIN decisions' = 1..n
  BY <1>2, <1>3, <1>4, AppendProperties
<1>8. IssuedNonces' = IssuedNonces \cup new
  <2>1. \A q \in (DOMAIN decisions') \X (1..MaxPlacements) :
          decisions'[q[1]][q[2]] # None <=>
            \/ q \in (DOMAIN decisions) \X (1..MaxPlacements) /\ decisions[q[1]][q[2]] # None
            \/ q[1] = n /\ q[2] \in Filled(request)
    BY <1>6, <1>7
  <2>2. \A i \in Filled(request) : <<n, i>> \in (DOMAIN decisions') \X (1..MaxPlacements)
    BY <1>5, <1>7
  <2>3. ASSUME NEW x \in IssuedNonces' PROVE x \in IssuedNonces \cup new
    <3>1. PICK q \in (DOMAIN decisions') \X (1..MaxPlacements) :
                 decisions'[q[1]][q[2]] # None /\ x = HostedNonce(q[1], q[2])
      BY <2>3 DEF IssuedNonces
    <3> QED BY <2>1, <3>1 DEF IssuedNonces
  <2>4. ASSUME NEW x \in IssuedNonces PROVE x \in IssuedNonces'
    <3>1. PICK q \in (DOMAIN decisions) \X (1..MaxPlacements) :
                 decisions[q[1]][q[2]] # None /\ x = HostedNonce(q[1], q[2])
      BY <2>4 DEF IssuedNonces
    <3>2. q \in (DOMAIN decisions') \X (1..MaxPlacements) BY <1>7, <3>1
    <3> QED BY <2>1, <3>1, <3>2 DEF IssuedNonces
  <2>5. ASSUME NEW i \in Filled(request) PROVE HostedNonce(n, i) \in IssuedNonces'
    <3>1. decisions'[<<n, i>>[1]][<<n, i>>[2]] # None BY <2>1, <2>2
    <3>2. HostedNonce(n, i) = HostedNonce(<<n, i>>[1], <<n, i>>[2]) OBVIOUS
    <3> QED BY <2>2, <3>1, <3>2 DEF IssuedNonces
  <2> QED BY <2>3, <2>4, <2>5
<1>9. \A m \in IssuedNonces : m[3] \in 1..Len(decisions)
  BY <1>7 DEF IssuedNonces, HostedNonce
<1>10. new \cap (openNonces \cup IssuedNonces) = {}
  <2>1. openNonces \subseteq IssuedNonces BY DEF Inv, NonceLifecycle
  <2>2. \A m \in new : m[3] = n BY DEF HostedNonce
  <2> QED BY <1>7, <1>9, <2>1, <2>2
<1>11. new \subseteq Nonce
  <2>1. MaxPlacements \in Nat BY ExchangeAssumption
  <2> QED BY <1>5, <1>7, <2>1 DEF Nonce, HostedNonce
<1> QED BY <1>2, <1>7, <1>8, <1>10, <1>11

\* An issued nonce names a placement that decide filled.
LEMMA IssuedEntry ==
  ASSUME TypeOK, NEW n \in IssuedNonces
  PROVE  /\ n[1] = None /\ n = HostedNonce(n[3], n[4])
         /\ n[3] \in 1..Len(decisions) /\ n[4] \in 1..MaxPlacements
         /\ decisions[n[3]][n[4]] \in Entry
<1>1. PICK q \in (DOMAIN decisions) \X (1..MaxPlacements) :
             decisions[q[1]][q[2]] # None /\ n = HostedNonce(q[1], q[2])
  BY DEF IssuedNonces
<1>2. n[1] = None /\ n[3] = q[1] /\ n[4] = q[2] BY <1>1 DEF HostedNonce
<1>3. decisions \in Seq([1..MaxPlacements -> Entry \cup {None}]) BY DEF TypeOK
<1>4. q[1] \in 1..Len(decisions) /\ q[2] \in 1..MaxPlacements BY <1>1, <1>3
<1>5. decisions[q[1]] \in [1..MaxPlacements -> Entry \cup {None}]
  BY <1>3, <1>4, ElementOfSeq
<1> QED BY <1>1, <1>2, <1>4, <1>5

\* What an accepted receipt is billed against.
LEMMA BackingType ==
  ASSUME Inv, NEW r \in Receipts, Fault(r) = "ok"
  PROVE  /\ r \in Receipt /\ r.key \in keys /\ r.nonce \in Nonce \ spentNonces
         /\ Backing(r).lid \in LineItems /\ Backing(r).price \in Nat
         /\ Backing(r).entity \in Entities \cup {None}
         /\ IF r.local = None
            THEN r.nonce \in openNonces /\ Backing(r) = decisions[r.nonce[3]][r.nonce[4]]
            ELSE /\ r.local.bundle \in DOMAIN bundles /\ r.local.bundle # None
                 /\ r.local.lid \in bundles[r.local.bundle].items
                 /\ Backing(r).lid = r.local.lid /\ Backing(r).entity = r.key
                 /\ r.nonce = DeriveLocalNonce(r.local.bundle, r.key, r.local.lid, r.local.index)
<1>1. r \in Receipt BY ExchangeAssumption
<1>2. r.key \in keys /\ r.nonce \in Nonce \ spentNonces /\ ResolveFault(r) = "ok"
  BY <1>1 DEF Fault, Receipt
<1>3. CASE r.local = None
  <2>1. r.nonce \in openNonces BY <1>2, <1>3 DEF ResolveFault
  <2>2. r.nonce \in IssuedNonces BY <2>1 DEF Inv, NonceLifecycle
  <2>3. decisions[r.nonce[3]][r.nonce[4]] \in Entry BY <2>2, IssuedEntry DEF Inv
  <2>4. Backing(r) = decisions[r.nonce[3]][r.nonce[4]] BY <1>3 DEF Backing
  <2> QED BY <1>1, <1>2, <1>3, <2>1, <2>3, <2>4 DEF Entry
<1>4. CASE r.local # None
  <2>1. LocalFault(r) = "ok" BY <1>2, <1>4 DEF ResolveFault
  <2>2. /\ r.local \in LocalDecision /\ r.trace \in TraceSummary \cup {None}
        /\ r.key \in Entities
    BY <1>1, <1>4 DEF Receipt
  <2>3. /\ r.local.bundle \in DOMAIN bundles /\ r.local.bundle # None
        /\ r.local.lid \in bundles[r.local.bundle].items
        /\ r.nonce = DeriveLocalNonce(r.local.bundle, r.key, r.local.lid, r.local.index)
        /\ r.trace # None
    BY <2>1 DEF LocalFault
  <2>4. r.trace.lost \in Nat /\ Floor \in Nat BY <2>2, <2>3, ExchangeAssumption DEF TraceSummary
  <2>5. Backing(r) = LocalBacking(r) BY <1>4 DEF Backing
  <2>6. /\ Backing(r).lid = r.local.lid /\ Backing(r).entity = r.key
        /\ Backing(r).price \in Nat
    BY <2>4, <2>5 DEF LocalBacking
  <2> QED BY <1>1, <1>2, <1>4, <2>2, <2>3, <2>6 DEF LocalDecision
<1> QED BY <1>3, <1>4

\* The log entry of an accepted receipt.
Paid(r) == [receipt |-> r, lid |-> Backing(r).lid, entity |-> Backing(r).entity,
            gross |-> Gross(Backing(r)), splits |-> Settle(Gross(Backing(r)))]

\* What accepting a receipt does to the nonces and the log.
Marked(r) ==
  /\ Fault(r) = "ok" /\ UNCHANGED decisions /\ log' = Append(log, Paid(r))
  /\ spentNonces' = spentNonces \cup {r.nonce} /\ openNonces' = openNonces \ {r.nonce}

LEMMA AcceptMarks == ASSUME NEW r, Accept(r) PROVE Marked(r)
BY DEF Accept, Bill, Paid, Marked

\* The log then has one well-formed entry more.
LEMMA MarkLogs ==
  ASSUME Inv, NEW r \in Receipts, Marked(r)
  PROVE  /\ Gross(Backing(r)) \in Nat /\ Paid(r) \in LogEntry
         /\ log' \in Seq(LogEntry) /\ Len(log) \in Nat /\ Len(log') = Len(log) + 1
         /\ \A i \in 1..Len(log) : log'[i] = log[i]
         /\ log'[Len(log')] = Paid(r)
         /\ DOMAIN log = 1..Len(log) /\ DOMAIN log' = 1..Len(log')
<1>1. Fault(r) = "ok" /\ UNCHANGED decisions /\ log' = Append(log, Paid(r)) BY DEF Marked
<1>2. Gross(Backing(r)) \in Nat
  <2>1. Backing(r).price \in Nat BY <1>1, BackingType
  <2> QED BY <2>1 DEF Gross
<1>3. Settle(Gross(Backing(r))) \in Nat \X Nat BY <1>2, SettleExact
<1>4. Paid(r) \in LogEntry BY <1>1, <1>2, <1>3, BackingType DEF Paid, LogEntry
<1>5. log \in Seq(LogEntry) BY DEF Inv, TypeOK
<1> QED BY <1>1, <1>2, <1>4, <1>5, AppendProperties

LEMMA AcceptLogs ==
  ASSUME Inv, NEW r \in Receipts, Accept(r)
  PROVE  /\ Fault(r) = "ok" /\ UNCHANGED decisions
         /\ Paid(r) \in LogEntry
         /\ log' \in Seq(LogEntry) /\ Len(log) \in Nat /\ Len(log') = Len(log) + 1
         /\ \A i \in 1..Len(log) : log'[i] = log[i]
         /\ log'[Len(log')] = Paid(r)
         /\ DOMAIN log = 1..Len(log) /\ DOMAIN log' = 1..Len(log')
<1>1. Marked(r) BY AcceptMarks
<1> QED BY <1>1, MarkLogs DEF Marked

\* It moves the nonce from the open ones, or from those that derive from a bundle,
\* to the spent ones, which the log lists.
LEMMA MarkNonces ==
  ASSUME Inv, NEW r \in Receipts, Marked(r)
  PROVE  /\ NonceLifecycle' /\ SpentKnown' /\ SpentIsLogged'
         /\ openNonces' \subseteq Nonce /\ spentNonces' \subseteq Nonce
<1>1. /\ spentNonces' = spentNonces \cup {r.nonce} /\ openNonces' = openNonces \ {r.nonce}
      /\ Fault(r) = "ok" /\ UNCHANGED decisions
  BY DEF Marked
<1>2. IssuedNonces' = IssuedNonces BY <1>1 DEF IssuedNonces
<1>3. ASSUME r.local = None PROVE NonceLifecycle' /\ SpentKnown'
  <2>1. r.nonce \in openNonces BY <1>1, <1>3, BackingType
  <2> QED BY <1>1, <1>2, <2>1 DEF Inv, NonceLifecycle, SpentKnown
<1>4. ASSUME r.local # None PROVE NonceLifecycle' /\ SpentKnown'
  <2>1. r.nonce[1] # None BY <1>1, <1>4, BackingType DEF DeriveLocalNonce
  <2>2. \A m \in IssuedNonces : m[1] = None BY IssuedEntry DEF Inv
  <2>3. r.nonce \notin IssuedNonces BY <2>1, <2>2
  <2> QED BY <1>1, <1>2, <2>1, <2>3 DEF Inv, NonceLifecycle, SpentKnown
<1>5. NonceLifecycle' /\ SpentKnown' BY <1>3, <1>4
<1>6. SpentIsLogged'
  <2>1. /\ Len(log) \in Nat /\ DOMAIN log = 1..Len(log) /\ DOMAIN log' = 1..Len(log) + 1
        /\ \A i \in 1..Len(log) : log'[i] = log[i]
        /\ log'[Len(log) + 1] = Paid(r)
    BY MarkLogs
  <2>2. Paid(r).receipt = r BY DEF Paid
  <2> QED BY <1>1, <2>1, <2>2 DEF Inv, SpentIsLogged
<1>7. openNonces' \subseteq Nonce /\ spentNonces' \subseteq Nonce
  <2>1. r.nonce \in Nonce BY <1>1, BackingType
  <2> QED BY <1>1, <2>1 DEF Inv, TypeOK
<1> QED BY <1>5, <1>6, <1>7

\* The part of TypeOK that registration and bundles can disturb.
RegistryOK ==
  /\ enrolled \in Seq(Entities) /\ tier \in [Entities -> Tiers \cup {0}]
  /\ keys \subseteq Entities /\ items \subseteq LineItems
  /\ creative \in [LineItems -> Creatives]
  /\ DOMAIN bundles \subseteq BundleIds
  /\ \A b \in DOMAIN bundles : bundles[b].items \subseteq LineItems
  /\ holdout \in Nat

\* Bundles are only ever added, so what one holds never changes, and no entity
\* loses its key.
LEMMA RegistryStep ==
  ASSUME RegistryOK, [Next]_vars
  PROVE  /\ RegistryOK'
         /\ keys \subseteq keys'
         /\ \A b \in DOMAIN bundles : b \in DOMAIN bundles' /\ bundles'[b] = bundles[b]
<1> USE DEF RegistryOK, registry
<1>1. CASE UNCHANGED vars BY <1>1 DEF vars
<1>2. ASSUME NEW e \in Entities, NEW t \in Tiers, SetTier(e, t)
      PROVE  enrolled' \in Seq(Entities) /\ tier' \in [Entities -> Tiers \cup {0}]
  BY <1>2, AppendProperties DEF SetTier
<1>3. ASSUME NEW e \in Entities, NEW t \in Tiers, Enrol(e, t)
      PROVE  RegistryOK' /\ keys \subseteq keys' /\ bundles' = bundles
  <2>1. SetTier(e, t) /\ keys' = keys \cup {e} /\ UNCHANGED <<items, creative, bundles, holdout>>
    BY <1>3 DEF Enrol
  <2> QED BY <1>2, <2>1
<1>4. ASSUME NEW e \in Entities, NEW t \in Tiers, VerifyAccount(e, t)
      PROVE  RegistryOK' /\ keys \subseteq keys' /\ bundles' = bundles
  <2>1. SetTier(e, t) /\ UNCHANGED <<keys, items, creative, bundles, holdout>>
    BY <1>4 DEF VerifyAccount
  <2> QED BY <1>2, <2>1
<1>5. ASSUME NEW l \in LineItems, AddLineItem(l) \/ WithdrawLineItem(l)
      PROVE  RegistryOK' /\ keys \subseteq keys' /\ bundles' = bundles
  BY <1>5 DEF AddLineItem, WithdrawLineItem
<1>6. ASSUME NEW l \in LineItems, NEW c \in Creatives, ReplaceCreative(l, c)
      PROVE  RegistryOK' /\ keys \subseteq keys' /\ bundles' = bundles
  BY <1>6 DEF ReplaceCreative
<1>7. ASSUME NEW b \in BundleIds, NEW formats, IssueBundle(b, formats)
      PROVE  /\ RegistryOK' /\ keys \subseteq keys'
             /\ \A d \in DOMAIN bundles : d \in DOMAIN bundles' /\ bundles'[d] = bundles[d]
  <2> DEFINE new == [items |-> {l \in items : Allows(formats, Item[l].format)}, sent |-> creative]
  <2>1. /\ b \notin DOMAIN bundles /\ bundles' = Updated(bundles, [d \in {b} |-> new])
        /\ UNCHANGED <<enrolled, tier, keys, items, creative, holdout>>
    BY <1>7 DEF IssueBundle
  <2>2. new.items \subseteq LineItems OBVIOUS
  <2> HIDE DEF new
  <2>3. /\ DOMAIN bundles' = DOMAIN bundles \cup {b} /\ bundles'[b] = new
        /\ \A d \in DOMAIN bundles : bundles'[d] = bundles[d]
    BY <2>1 DEF Updated
  <2> QED BY <2>1, <2>2, <2>3
<1>8. ASSUME NEW b \in BundleIds, NEW e \in Entities, IssueAllocation(b, e)
      PROVE  RegistryOK' /\ keys \subseteq keys' /\ bundles' = bundles
  BY <1>8 DEF IssueAllocation
<1>9. ASSUME NEW request \in Requests, Decide(request)
      PROVE  RegistryOK' /\ keys \subseteq keys' /\ bundles' = bundles
  BY <1>9 DEF Decide
<1>10. ASSUME NEW r \in Receipts, VerifyReceipt(r)
       PROVE  RegistryOK' /\ keys \subseteq keys' /\ bundles' = bundles
  BY <1>10 DEF VerifyReceipt, Accept, Reject
<1> QED BY <1>1, <1>3, <1>4, <1>5, <1>6, <1>7, <1>8, <1>9, <1>10 DEF Next, Calls

\* Accepting a receipt keeps every type.
LEMMA AcceptTypes ==
  ASSUME Inv, NEW r \in Receipts, Accept(r)
  PROVE  /\ spentNonces' = spentNonces \cup {r.nonce} /\ spentNonces' \subseteq Nonce
         /\ openNonces' = openNonces \ {r.nonce}
         /\ delivered' \in [LineItems -> Nat] /\ spent' \in [LineItems -> Nat]
         /\ deliveredBy' \in [Entities \cup {None} -> Nat] /\ verifiedCount' \in Nat
<1>1. Fault(r) = "ok" /\ Bill(r, Backing(r)) BY DEF Accept
<1>2. /\ spentNonces' = spentNonces \cup {r.nonce} /\ openNonces' = openNonces \ {r.nonce}
      /\ delivered' = [delivered EXCEPT ![Backing(r).lid] = @ + 1]
      /\ spent' = [spent EXCEPT ![Backing(r).lid] = @ + Gross(Backing(r))]
      /\ deliveredBy' = [deliveredBy EXCEPT ![Backing(r).entity] = @ + 1]
      /\ verifiedCount' = verifiedCount + 1
  BY <1>1 DEF Bill
<1>3. Gross(Backing(r)) \in Nat
  <2>1. Backing(r).price \in Nat BY <1>1, BackingType
  <2> QED BY <2>1 DEF Gross
<1>4. /\ r.nonce \in Nonce /\ Backing(r).lid \in LineItems
      /\ Backing(r).entity \in Entities \cup {None}
  BY <1>1, BackingType
<1>5. /\ delivered \in [LineItems -> Nat] /\ spent \in [LineItems -> Nat]
      /\ deliveredBy \in [Entities \cup {None} -> Nat] /\ verifiedCount \in Nat
      /\ spentNonces \subseteq Nonce
  BY DEF Inv, TypeOK
<1>6. delivered' \in [LineItems -> Nat] BY <1>2, <1>4, <1>5
<1>7. spent' \in [LineItems -> Nat] BY <1>2, <1>3, <1>4, <1>5
<1>8. deliveredBy' \in [Entities \cup {None} -> Nat] BY <1>2, <1>4, <1>5
<1> QED BY <1>2, <1>4, <1>5, <1>6, <1>7, <1>8

\* TypeOK survives every step.
LEMMA TypeStep ==
  ASSUME Inv, [Next]_vars
  PROVE  TypeOK'
<1>1. RegistryOK' BY RegistryStep DEF Inv, TypeOK, RegistryOK
<1>2. CASE UNCHANGED <<decisions, openNonces, books>>
  BY <1>1, <1>2 DEF Inv, TypeOK, RegistryOK, books
<1>3. ASSUME NEW request \in Requests, Decide(request)
      PROVE  TypeOK'
  <2>1. UNCHANGED books BY <1>3 DEF Decide
  <2>2. /\ decisions' \in Seq([1..MaxPlacements -> Entry \cup {None}])
        /\ openNonces' \subseteq Nonce
    BY <1>3, DecideNonces DEF Inv, TypeOK
  <2> QED BY <1>1, <2>1, <2>2 DEF Inv, TypeOK, RegistryOK, books
<1>4. ASSUME NEW r \in Receipts, Accept(r)
      PROVE  TypeOK'
  <2>1. openNonces' \subseteq Nonce BY <1>4, AcceptTypes DEF Inv, TypeOK
  <2>2. decisions' = decisions /\ log' \in Seq(LogEntry) BY <1>4, AcceptLogs
  <2> QED BY <1>1, <1>4, <2>1, <2>2, AcceptTypes DEF Inv, TypeOK, RegistryOK
<1> QED BY <1>2, <1>3, <1>4, StepCases

\* A spent nonce is never open again, an issued one never forgotten.
LEMMA NonceStep ==
  ASSUME Inv, [Next]_vars
  PROVE  NonceLifecycle' /\ SpentKnown'
<1>1. CASE UNCHANGED <<decisions, openNonces, books>>
  <2>1. UNCHANGED <<IssuedNonces, openNonces, spentNonces>>
    BY <1>1 DEF books, IssuedNonces
  <2> QED BY <2>1 DEF Inv, NonceLifecycle, SpentKnown
<1>2. ASSUME NEW request \in Requests, Decide(request)
      PROVE  NonceLifecycle' /\ SpentKnown'
  <2>1. spentNonces' = spentNonces BY <1>2 DEF Decide, books
  <2>2. CASE UNCHANGED <<decisions, openNonces>>
    <3>1. UNCHANGED <<IssuedNonces, openNonces, spentNonces>>
      BY <2>1, <2>2 DEF IssuedNonces
    <3> QED BY <3>1 DEF Inv, NonceLifecycle, SpentKnown
  <2> DEFINE new == {HostedNonce(Len(decisions) + 1, i) : i \in Filled(request)}
  <2>3. CASE /\ openNonces' = openNonces \cup new
             /\ IssuedNonces' = IssuedNonces \cup new
             /\ new \cap (openNonces \cup IssuedNonces) = {}
    <3>1. \A m \in new : m[1] = None BY DEF HostedNonce
    <3> HIDE DEF new
    <3>2. new \cap spentNonces = {} BY <2>3, <3>1 DEF Inv, SpentKnown
    <3> QED BY <2>1, <2>3, <3>2 DEF Inv, NonceLifecycle, SpentKnown
  <2> QED BY <1>2, <2>2, <2>3, DecideNonces
<1>3. ASSUME NEW r \in Receipts, Accept(r)
      PROVE  NonceLifecycle' /\ SpentKnown'
  BY <1>3, AcceptMarks, MarkNonces
<1> QED BY <1>1, <1>2, <1>3, StepCases

\* The spent set and the log move together.
LEMMA LogStep ==
  ASSUME Inv, [Next]_vars
  PROVE  SpentIsLogged'
<1>1. CASE UNCHANGED <<decisions, openNonces, books>>
  BY <1>1 DEF Inv, SpentIsLogged, books
<1>2. ASSUME NEW request \in Requests, Decide(request)
      PROVE  SpentIsLogged'
  BY <1>2 DEF Decide, Inv, SpentIsLogged, books
<1>3. ASSUME NEW r \in Receipts, Accept(r)
      PROVE  SpentIsLogged'
  BY <1>3, AcceptMarks, MarkNonces
<1> QED BY <1>1, <1>2, <1>3, StepCases

LEMMA InvInit == Init => Inv
<1> SUFFICES ASSUME Init PROVE Inv OBVIOUS
<1>1. TypeOK
  <2>1. <<>> \in Seq(Entities) /\ <<>> \in Seq(LogEntry)
        /\ <<>> \in Seq([1..MaxPlacements -> Entry \cup {None}])
    OBVIOUS
  <2> QED BY <2>1 DEF Init, TypeOK, EmptyMap
<1>2. IssuedNonces = {} BY DEF Init, IssuedNonces
<1>3. DOMAIN log = {} BY DEF Init
<1> QED BY <1>1, <1>2, <1>3
        DEF Init, Inv, NonceLifecycle, SpentKnown, SpentIsLogged

\* The invariant holds in every reachable state.
THEOREM Invariant == Spec => []Inv
<1>1. Inv /\ [Next]_vars => Inv' BY TypeStep, NonceStep, LogStep DEF Inv
<1> QED BY <1>1, InvInit, PTL DEF Spec

\* Every reachable state is well formed (the state class Exchange keeps).
THEOREM TypeCorrect == Spec => []TypeOK
BY Invariant, PTL DEF Inv

\* A placement decided by decide is waiting or paid, never both, never lost.
THEOREM NoncesAccounted == Spec => []NonceLifecycle
BY Invariant, PTL DEF Inv

\* A receipt that passed the replay test is not in the log.
LEMMA MarkOnce ==
  ASSUME Inv, BilledOnce, NEW r \in Receipts, Marked(r)
  PROVE  BilledOnce'
<1>1. r.nonce \notin spentNonces BY BackingType DEF Marked
<1>2. \A i \in DOMAIN log : log[i].receipt.nonce # r.nonce BY <1>1 DEF Inv, SpentIsLogged
<1>3. /\ Len(log) \in Nat /\ DOMAIN log = 1..Len(log) /\ DOMAIN log' = 1..Len(log) + 1
      /\ \A i \in 1..Len(log) : log'[i] = log[i]
      /\ log'[Len(log) + 1] = Paid(r)
  BY MarkLogs
<1>4. Paid(r).receipt = r BY DEF Paid
<1> QED BY <1>2, <1>3, <1>4 DEF BilledOnce

\* Single use: verify_receipt never bills one nonce twice, whatever the receipts
\* and their order.
THEOREM SingleUse == Spec => []BilledOnce
<1>1. Init => BilledOnce BY DEF Init, BilledOnce
<1>2. BilledOnce /\ Inv /\ [Next]_vars => BilledOnce'
  <2> SUFFICES ASSUME BilledOnce, Inv, [Next]_vars PROVE BilledOnce' OBVIOUS
  <2>1. CASE UNCHANGED log BY <2>1 DEF BilledOnce
  <2>2. ASSUME NEW r \in Receipts, Accept(r) PROVE BilledOnce'
    BY <2>2, AcceptMarks, MarkOnce
  <2> QED BY <2>1, <2>2, StepCases DEF Decide, books
<1> QED BY <1>1, <1>2, Invariant, PTL DEF Spec

(***************************************************************************)
(* The books.                                                              *)
(***************************************************************************)
\* A set of indices that may gain the next index counts one more when it does.
LEMMA GrowsByOne ==
  ASSUME NEW k \in Nat, NEW S \in SUBSET (1..k)
  PROVE  /\ IsFiniteSet(S) /\ Cardinality(S) \in Nat /\ k + 1 \notin S
         /\ Cardinality(S \cup {k + 1}) = Cardinality(S) + 1
<1>1. IsFiniteSet(1..k) BY FS_Interval
<1>2. IsFiniteSet(S) BY <1>1, FS_Subset
<1>3. k + 1 \notin S OBVIOUS
<1> QED BY <1>2, <1>3, FS_CardinalityType, FS_AddElement

\* What a paid receipt adds to the set of the entries with some mark, and to
\* the sum of their amounts.
LEMMA EntryCounts ==
  ASSUME Inv, NEW r \in Receipts, Marked(r), NEW S \in SUBSET (DOMAIN log)
  PROVE  LET gross == [i \in DOMAIN log |-> log[i].gross]
             k == Len(log) + 1
         IN  /\ Cardinality(S) \in Nat /\ Cardinality(S \cup {k}) = Cardinality(S) + 1
             /\ SumFunctionOnSet(gross, S) \in Int
             /\ SumFunctionOnSet(gross', S) = SumFunctionOnSet(gross, S)
             /\ SumFunctionOnSet(gross', S \cup {k}) =
                  SumFunctionOnSet(gross, S) + Gross(Backing(r))
<1> DEFINE gross == [i \in DOMAIN log |-> log[i].gross]
           k == Len(log) + 1
           add == Gross(Backing(r))
<1>1. /\ Len(log) \in Nat /\ DOMAIN log = 1..Len(log) /\ DOMAIN log' = 1..k
      /\ \A i \in 1..Len(log) : log'[i] = log[i]
      /\ log'[k] = Paid(r) /\ Paid(r) \in LogEntry
  BY MarkLogs
<1>2. \A i \in DOMAIN log : gross[i] \in Nat
  <2>1. log \in Seq(LogEntry) BY DEF Inv, TypeOK
  <2>2. \A i \in DOMAIN log : log[i] \in LogEntry BY <2>1
  <2> QED BY <2>2 DEF LogEntry
<1>3. add \in Nat /\ gross'[k] = add /\ \A i \in S : gross'[i] = gross[i]
  <2>1. Paid(r).gross = add BY DEF Paid
  <2>2. Paid(r).gross \in Nat BY <1>1 DEF LogEntry
  <2> QED BY <1>1, <2>1, <2>2
<1>4. /\ IsFiniteSet(S) /\ Cardinality(S) \in Nat /\ k \notin S
      /\ Cardinality(S \cup {k}) = Cardinality(S) + 1
  BY <1>1, GrowsByOne
<1>5. PICK old : old = gross OBVIOUS
<1>6. PICK new : new = gross' OBVIOUS
<1>7. \A i \in S : old[i] \in Int /\ old[i] = new[i] BY <1>2, <1>3, <1>5, <1>6
<1>8. \A i \in S \cup {k} : new[i] \in Int BY <1>3, <1>6, <1>7
<1> HIDE DEF gross, k, add
<1>9. SumFunctionOnSet(old, S) \in Int BY <1>4, <1>7, SumType
<1>10. SumFunctionOnSet(new, S) = SumFunctionOnSet(old, S) BY <1>4, <1>7, SumSame
<1>11. SumFunctionOnSet(new, S \cup {k}) = new[k] + SumFunctionOnSet(new, S)
  BY <1>4, <1>8, SumAdd
<1>12. new[k] = add BY <1>3, <1>6
<1>13. SumFunctionOnSet(new, S \cup {k}) = SumFunctionOnSet(old, S) + add
  BY <1>3, <1>9, <1>10, <1>11, <1>12
<1> QED BY <1>4, <1>5, <1>6, <1>9, <1>10, <1>13 DEF gross, k, add

\* Counters that agree with the log.
Match(deliveries, spending, deliveriesBy, count) ==
  /\ count = Len(log) /\ count = Cardinality(spentNonces)
  /\ \A l \in LineItems : /\ deliveries[l] = Count(LAMBDA x : x.lid = l)
                          /\ spending[l] = GrossOf(l)
  /\ \A e \in Entities \cup {None} : deliveriesBy[e] = Count(LAMBDA x : x.entity = e)

RaisedBy(f, x, v) == [f EXCEPT ![x] = @ + v]

\* Billing one receipt moves every counter as it moves the log.
LEMMA MarkBooks ==
  ASSUME Inv, IsFiniteSet(spentNonces), NEW r \in Receipts, Marked(r), NEW b, b = Backing(r),
         NEW d \in [LineItems -> Nat], NEW s \in [LineItems -> Nat],
         NEW y \in [Entities \cup {None} -> Nat], NEW v, Match(d, s, y, v)
  PROVE  /\ Match(RaisedBy(d, b.lid, 1), RaisedBy(s, b.lid, Gross(b)), RaisedBy(y, b.entity, 1), v + 1)'
         /\ IsFiniteSet(spentNonces')
<1> DEFINE n == Len(log)
<1>1. /\ n \in Nat /\ DOMAIN log = 1..n /\ DOMAIN log' = 1..(n + 1) /\ Len(log') = n + 1
      /\ \A i \in 1..n : log'[i] = log[i]
      /\ log'[n + 1] = Paid(r) /\ Fault(r) = "ok" /\ spentNonces' = spentNonces \cup {r.nonce}
  BY MarkLogs DEF Marked
<1>2. Paid(r).lid = b.lid /\ Paid(r).entity = b.entity BY DEF Paid
<1>3. PICK d1, s1, y1, v1 :
        /\ d1 = RaisedBy(d, b.lid, 1) /\ s1 = RaisedBy(s, b.lid, Gross(b))
        /\ y1 = RaisedBy(y, b.entity, 1) /\ v1 = v + 1
  OBVIOUS
<1>4. /\ r.nonce \notin spentNonces /\ b.lid \in LineItems /\ b.entity \in Entities \cup {None}
  BY <1>1, BackingType
<1> HIDE DEF n
<1>6. IsFiniteSet(spentNonces') /\ v1 = Len(log') /\ v1 = Cardinality(spentNonces')
  <2>1. v = n /\ v = Cardinality(spentNonces) BY DEF Match, n
  <2>2. Cardinality(spentNonces') = Cardinality(spentNonces) + 1
    BY <1>1, <1>4, FS_AddElement
  <2> QED BY <1>1, <1>3, <2>1, <2>2, FS_AddElement
<1>7. ASSUME NEW l \in LineItems
      PROVE  d1[l] = Count(LAMBDA x : x.lid = l)' /\ s1[l] = GrossOf(l)'
  <2> DEFINE S == {i \in DOMAIN log : log[i].lid = l}
             gross == [i \in DOMAIN log |-> log[i].gross]
  <2>1. d[l] = Cardinality(S) /\ s[l] = SumFunctionOnSet(gross, S) BY DEF Match, Count, GrossOf
  <2>2. SUFFICES d1[l] = Cardinality(S') /\ s1[l] = SumFunctionOnSet(gross', S')
    BY DEF Count, GrossOf
  <2>3. S' = IF b.lid = l THEN S \cup {n + 1} ELSE S BY <1>1, <1>2
  <2>4. S \in SUBSET (DOMAIN log) OBVIOUS
  <2>5. PICK T : T = S OBVIOUS
  <2>6. /\ Cardinality(T \cup {n + 1}) = Cardinality(T) + 1
        /\ SumFunctionOnSet(gross', T) = SumFunctionOnSet(gross, T)
        /\ SumFunctionOnSet(gross', T \cup {n + 1}) = SumFunctionOnSet(gross, T) + Gross(b)
    BY <2>4, <2>5, EntryCounts DEF n
  <2> HIDE DEF S, gross
  <2>7. CASE b.lid = l
    <3>1. d1[l] = d[l] + 1 /\ s1[l] = s[l] + Gross(b) BY <1>3, <2>7 DEF RaisedBy
    <3> QED BY <2>1, <2>3, <2>5, <2>6, <2>7, <3>1
  <2>8. CASE b.lid # l
    <3>1. d1[l] = d[l] /\ s1[l] = s[l] BY <1>3, <2>8 DEF RaisedBy
    <3> QED BY <2>1, <2>3, <2>5, <2>6, <2>8, <3>1
  <2> QED BY <2>7, <2>8
<1>8. ASSUME NEW e \in Entities \cup {None}
      PROVE  y1[e] = Count(LAMBDA x : x.entity = e)'
  <2> DEFINE S == {i \in DOMAIN log : log[i].entity = e}
  <2>1. y[e] = Cardinality(S) BY DEF Match, Count
  <2>2. SUFFICES y1[e] = Cardinality(S') BY DEF Count
  <2>3. S' = IF b.entity = e THEN S \cup {n + 1} ELSE S BY <1>1, <1>2
  <2>4. S \in SUBSET (DOMAIN log) OBVIOUS
  <2>5. PICK T : T = S OBVIOUS
  <2>6. Cardinality(T \cup {n + 1}) = Cardinality(T) + 1 BY <2>4, <2>5, EntryCounts DEF n
  <2> HIDE DEF S
  <2>7. CASE b.entity = e
    <3>1. y1[e] = y[e] + 1 BY <1>3, <2>7 DEF RaisedBy
    <3> QED BY <2>1, <2>3, <2>5, <2>6, <2>7, <3>1
  <2>8. CASE b.entity # e
    <3>1. y1[e] = y[e] BY <1>3, <2>8 DEF RaisedBy
    <3> QED BY <2>1, <2>3, <2>5, <2>6, <2>8, <3>1
  <2> QED BY <2>7, <2>8
<1>9. Match(d1, s1, y1, v1)' BY <1>6, <1>7, <1>8 DEF Match
<1> QED BY <1>3, <1>6, <1>9

\* So does a call of the exchange.
LEMMA AcceptBooks ==
  ASSUME Inv, BooksMatchLog, IsFiniteSet(spentNonces), NEW r \in Receipts, Accept(r)
  PROVE  BooksMatchLog' /\ IsFiniteSet(spentNonces')
<1>1. PICK b, d, s, y, v :
        /\ b = Backing(r) /\ d = delivered /\ s = spent /\ y = deliveredBy /\ v = verifiedCount
  OBVIOUS
<1>2. d \in [LineItems -> Nat] /\ s \in [LineItems -> Nat] /\ y \in [Entities \cup {None} -> Nat]
  BY <1>1 DEF Inv, TypeOK
<1>3. Match(d, s, y, v) BY <1>1 DEF BooksMatchLog, Match
<1>4. PICK d1, s1, y1, v1 :
        /\ d1 = RaisedBy(d, b.lid, 1) /\ s1 = RaisedBy(s, b.lid, Gross(b))
        /\ y1 = RaisedBy(y, b.entity, 1) /\ v1 = v + 1
  OBVIOUS
<1>5. Match(d1, s1, y1, v1)' /\ IsFiniteSet(spentNonces')
  BY <1>1, <1>2, <1>3, <1>4, AcceptMarks, MarkBooks
<1>6. delivered' = d1 /\ spent' = s1 /\ deliveredBy' = y1 /\ verifiedCount' = v1
  BY <1>1, <1>4 DEF Accept, Bill, RaisedBy
<1> QED BY <1>5, <1>6 DEF BooksMatchLog, Match

\* The books of an exchange that has billed nothing.
LEMMA BooksInit == ASSUME Init PROVE BooksMatchLog /\ IsFiniteSet(spentNonces)
<1>1. DOMAIN log = {} /\ Len(log) = 0 /\ spentNonces = {} BY DEF Init
<1>2. IsFiniteSet({}) /\ Cardinality({}) = 0 BY FS_EmptySet
<1>3. \A l : GrossOf(l) = 0
  <2> TAKE l
  <2>1. {i \in DOMAIN log : log[i].lid = l} = {} BY <1>1
  <2> QED BY <2>1, SumEmpty DEF GrossOf
<1>4. verifiedCount = Len(log) /\ verifiedCount = Cardinality(spentNonces)
  BY <1>1, <1>2 DEF Init
<1>5. \A l \in LineItems : delivered[l] = Count(LAMBDA x : x.lid = l) /\ spent[l] = GrossOf(l)
  <2> TAKE l \in LineItems
  <2>1. delivered[l] = 0 /\ spent[l] = 0 BY DEF Init
  <2>2. {i \in DOMAIN log : log[i].lid = l} = {} BY <1>1
  <2>3. Count(LAMBDA x : x.lid = l) = 0 BY <1>2, <2>2 DEF Count
  <2> QED BY <1>3, <2>1, <2>3
<1>6. \A e \in Entities \cup {None} : deliveredBy[e] = Count(LAMBDA x : x.entity = e)
  <2> TAKE e \in Entities \cup {None}
  <2>1. deliveredBy[e] = 0 BY DEF Init
  <2>2. {i \in DOMAIN log : log[i].entity = e} = {} BY <1>1
  <2>3. Count(LAMBDA x : x.entity = e) = 0 BY <1>2, <2>2 DEF Count
  <2> QED BY <2>1, <2>3
<1> QED BY <1>1, <1>2, <1>4, <1>5, <1>6 DEF BooksMatchLog

\* The counters that pacing, allocation and settlement_record read agree with the
\* log of paid receipts after every call (_bill).
THEOREM BooksAgree == Spec => []BooksMatchLog
<1> DEFINE P == BooksMatchLog /\ IsFiniteSet(spentNonces)
<1>1. Init => P BY BooksInit
<1>2. P /\ Inv /\ [Next]_vars => P'
  <2> SUFFICES ASSUME P, Inv, [Next]_vars PROVE P' OBVIOUS
  <2>1. CASE UNCHANGED books
    BY <2>1 DEF books, BooksMatchLog, Count, GrossOf
  <2> QED BY <2>1, StepCases, AcceptBooks DEF Decide
<1> QED BY <1>1, <1>2, Invariant, PTL DEF Spec

(***************************************************************************)
(* What a paid receipt was paid for.                                       *)
(***************************************************************************)
\* One hosted entry is paid as decided.
AsDecided(entry) ==
  entry.receipt.local = None =>
    /\ entry.receipt.nonce \in IssuedNonces
    /\ LET d == decisions[entry.receipt.nonce[3]][entry.receipt.nonce[4]]
       IN  /\ entry.receipt.shown = d.answer /\ entry.receipt.creative = d.creative
           /\ entry.lid = d.lid /\ entry.entity = d.entity
           /\ entry.gross = d.price \div 1000

\* What decide recorded for an issued nonce never changes.
LEMMA DecisionsKept ==
  ASSUME Inv, [Next]_vars, NEW n \in IssuedNonces
  PROVE  n \in IssuedNonces' /\ decisions'[n[3]][n[4]] = decisions[n[3]][n[4]]
<1>1. CASE UNCHANGED decisions BY <1>1 DEF IssuedNonces
<1>2. ASSUME NEW request \in Requests, Decide(request)
      PROVE  n \in IssuedNonces' /\ decisions'[n[3]][n[4]] = decisions[n[3]][n[4]]
  <2>1. n[3] \in 1..Len(decisions) BY IssuedEntry DEF Inv
  <2>2. CASE UNCHANGED decisions BY <2>2 DEF IssuedNonces
  <2>3. CASE ~UNCHANGED decisions BY <1>2, <2>1, <2>3, DecideNonces
  <2> QED BY <2>2, <2>3
<1>3. ASSUME NEW r \in Receipts, Accept(r) PROVE UNCHANGED decisions
  BY <1>3, AcceptLogs
<1> QED BY <1>1, <1>2, <1>3, StepCases

\* An entry that is paid as decided stays so, whatever the exchange does next.
LEMMA EntryKept ==
  ASSUME Inv, [Next]_vars, NEW entry, AsDecided(entry)
  PROVE  AsDecided(entry)'
<1> DEFINE n == entry.receipt.nonce
<1>1. CASE entry.receipt.local = None
  <2>1. n \in IssuedNonces BY <1>1 DEF AsDecided
  <2>2. n \in IssuedNonces' /\ decisions'[n[3]][n[4]] = decisions[n[3]][n[4]]
    BY <2>1, DecisionsKept
  <2> QED BY <1>1, <2>2 DEF AsDecided
<1>2. CASE entry.receipt.local # None BY <1>2 DEF AsDecided
<1> QED BY <1>1, <1>2

\* The entry an accepted receipt adds is paid as decided.
LEMMA PaidRight ==
  ASSUME Inv, NEW r \in Receipts, Fault(r) = "ok"
  PROVE  AsDecided(Paid(r))
<1> SUFFICES ASSUME r.local = None PROVE AsDecided(Paid(r)) BY DEF AsDecided, Paid
<1> DEFINE d == decisions[r.nonce[3]][r.nonce[4]]
<1>1. r.nonce \in openNonces /\ Backing(r) = d BY BackingType
<1>2. r.nonce \in IssuedNonces BY <1>1 DEF Inv, NonceLifecycle
<1>3. d \in Entry BY <1>2, IssuedEntry DEF Inv
<1>4. d.answer # None BY <1>3, ExchangeAssumption DEF Entry
<1>5. ContentFault(r, d) = "ok" BY <1>1, BackingType DEF Fault
<1> HIDE DEF d
<1>6. r.creative = d.creative /\ r.shown = d.answer BY <1>4, <1>5 DEF ContentFault
<1> QED BY <1>1, <1>2, <1>6 DEF AsDecided, Paid, Gross, d

\* Commit before select: every hosted impression is paid at the price, to the
\* supply, for the creative and with the answer fixed when decide ran (I2).
THEOREM AnswerCommitted == Spec => []PaidAsDecided
<1> DEFINE P == \A i \in DOMAIN log : AsDecided(log[i])
<1>1. Init => P BY DEF Init
<1>2. P /\ Inv /\ [Next]_vars => P'
  <2> SUFFICES ASSUME P, Inv, [Next]_vars PROVE P' OBVIOUS
  <2>1. ASSUME NEW i \in DOMAIN log PROVE AsDecided(log[i])'
          \/ log'[i] # log[i]
    <3>1. CASE log'[i] = log[i]
      <4>1. PICK entry : entry = log[i] OBVIOUS
      <4>2. AsDecided(entry)' BY <4>1, EntryKept
      <4> QED BY <3>1, <4>1, <4>2
    <3> QED BY <3>1
  <2>2. CASE UNCHANGED log BY <2>1, <2>2
  <2>3. ASSUME NEW r \in Receipts, Accept(r)
        PROVE  P'
    <3>1. /\ Len(log) \in Nat /\ DOMAIN log = 1..Len(log) /\ DOMAIN log' = 1..Len(log) + 1
          /\ \A i \in 1..Len(log) : log'[i] = log[i]
          /\ log'[Len(log) + 1] = Paid(r) /\ Fault(r) = "ok" /\ UNCHANGED decisions
      BY <2>3, AcceptLogs
    <3>2. AsDecided(Paid(r)) BY <3>1, PaidRight
    <3>3. ASSUME NEW i \in DOMAIN log' PROVE AsDecided(log[i])'
      <4>1. CASE i \in DOMAIN log BY <2>1, <3>1, <4>1
      <4>2. CASE i = Len(log) + 1
        <5>1. log'[i] = Paid(r) BY <3>1, <4>2
        <5>2. PICK entry : entry = Paid(r) OBVIOUS
        <5>3. AsDecided(entry) BY <3>2, <5>2
        <5>4. AsDecided(entry)' BY <5>3, EntryKept
        <5> QED BY <5>1, <5>2, <5>4
      <4> QED BY <3>1, <4>1, <4>2
    <3> QED BY <3>3
  <2> QED BY <2>2, <2>3, StepCases DEF Decide, books
<1>3. P => PaidAsDecided BY DEF PaidAsDecided, AsDecided
<1> QED BY <1>1, <1>2, <1>3, Invariant, PTL DEF Spec

\* One local entry is paid to the owner of its nonce.
ToOwner(entry) ==
  LET r == entry.receipt IN
  r.local # None =>
    /\ r.nonce = DeriveLocalNonce(r.local.bundle, entry.entity, entry.lid, r.local.index)
    /\ entry.entity \in keys
    /\ r.local.bundle \in DOMAIN bundles /\ entry.lid \in bundles[r.local.bundle].items

\* Profile L pays the entity whose nonce it is: the signer of the receipt, for a
\* line item of the bundle the nonce names (_resolve_local).
THEOREM OwnerPaid == Spec => []LocalPaidToOwner
<1> DEFINE P == \A i \in DOMAIN log : ToOwner(log[i])
<1>1. Init => P BY DEF Init
<1>2. P /\ Inv /\ [Next]_vars => P'
  <2> SUFFICES ASSUME P, Inv, [Next]_vars PROVE P' OBVIOUS
  <2>1. /\ keys \subseteq keys'
        /\ \A b \in DOMAIN bundles : b \in DOMAIN bundles' /\ bundles'[b] = bundles[b]
    BY RegistryStep DEF Inv, TypeOK, RegistryOK
  <2>2. ASSUME NEW i \in DOMAIN log, log'[i] = log[i] PROVE ToOwner(log[i])'
    <3>1. ToOwner(log[i]) OBVIOUS
    <3> QED BY <2>1, <2>2, <3>1 DEF ToOwner
  <2>3. CASE UNCHANGED log BY <2>2, <2>3
  <2>4. ASSUME NEW r \in Receipts, Accept(r)
        PROVE  P'
    <3>1. /\ Len(log) \in Nat /\ DOMAIN log = 1..Len(log) /\ DOMAIN log' = 1..Len(log) + 1
          /\ \A i \in 1..Len(log) : log'[i] = log[i]
          /\ log'[Len(log) + 1] = Paid(r) /\ Fault(r) = "ok"
      BY <2>4, AcceptLogs
    <3>2. ToOwner(Paid(r)) BY <3>1, BackingType DEF ToOwner, Paid
    <3>3. ASSUME NEW i \in DOMAIN log' PROVE ToOwner(log[i])'
      <4>1. CASE i \in DOMAIN log BY <2>2, <3>1, <4>1
      <4>2. CASE i = Len(log) + 1
        <5>1. log'[i] = Paid(r) BY <3>1, <4>2
        <5> QED BY <2>1, <3>2, <5>1 DEF ToOwner
      <4> QED BY <3>1, <4>1, <4>2
    <3> QED BY <3>3
  <2> QED BY <2>3, <2>4, StepCases DEF Decide, books
<1>3. P => LocalPaidToOwner BY DEF LocalPaidToOwner, ToOwner
<1> QED BY <1>1, <1>2, <1>3, Invariant, PTL DEF Spec

\* Conservation: no settlement of an impression loses or creates a micro
\* (Exchange.settle, "the parts sum to the whole exactly").
THEOREM SplitsConserve == Spec => []SplitsExact
<1> DEFINE Exact(x) == /\ x.splits[1] + x.splits[2] = x.gross
                       /\ Rounded(x.splits[1], x.gross * (10000 - TakeRateBps))
                       /\ Rounded(x.splits[2], x.gross * TakeRateBps)
           P == \A i \in DOMAIN log : Exact(log[i])
<1>1. Init => P BY DEF Init
<1>2. P /\ Inv /\ [Next]_vars => P'
  <2> SUFFICES ASSUME P, Inv, [Next]_vars PROVE P' OBVIOUS
  <2>1. CASE UNCHANGED log BY <2>1
  <2>2. ASSUME NEW r \in Receipts, Accept(r)
        PROVE  P'
    <3>1. /\ Len(log) \in Nat /\ DOMAIN log = 1..Len(log) /\ DOMAIN log' = 1..Len(log) + 1
          /\ \A i \in 1..Len(log) : log'[i] = log[i]
          /\ log'[Len(log) + 1] = Paid(r) /\ Fault(r) = "ok"
      BY <2>2, AcceptLogs
    <3>2. Gross(Backing(r)) \in Nat
      <4>1. Backing(r).price \in Nat BY <3>1, BackingType
      <4> QED BY <4>1 DEF Gross
    <3>3. /\ Paid(r).splits = Settle(Gross(Backing(r)))
          /\ Paid(r).gross = Gross(Backing(r))
      BY DEF Paid
    <3>4. Exact(Paid(r))
      <4> DEFINE whole == Gross(Backing(r))
                 parts == Settle(whole)
      <4>1. whole \in Nat /\ Paid(r).splits = parts /\ Paid(r).gross = whole BY <3>2, <3>3
      <4> HIDE DEF whole
      <4>2. /\ parts[1] + parts[2] = whole
            /\ Rounded(parts[1], whole * (10000 - TakeRateBps))
            /\ Rounded(parts[2], whole * TakeRateBps)
        BY <4>1, SettleExact
      <4> HIDE DEF parts
      <4> QED BY <4>1, <4>2
    <3> HIDE DEF Exact
    <3>5. \A i \in DOMAIN log' : Exact(log'[i]) BY <3>1, <3>4
    <3> QED BY <3>5 DEF Exact
  <2> HIDE DEF P
  <2> QED BY <2>1, <2>2, StepCases DEF Decide, books
<1>3. P => SplitsExact BY DEF SplitsExact
<1> QED BY <1>1, <1>2, <1>3, Invariant, PTL DEF Spec

\* Whatever slice issue_allocation signs for a node, it records the same one to
\* check that node's receipts against.
THEOREM SignedRecorded == Spec => SignedIsRecorded
<1>1. [Next]_vars => [\A g \in granted' \ granted :
        g.slice > 0 => allocations'[<<g.bundle, g.entity, g.lid>>] = g.slice]_vars
  <2> SUFFICES ASSUME Next, NEW g \in granted' \ granted, g.slice > 0
               PROVE  allocations'[<<g.bundle, g.entity, g.lid>>] = g.slice
    OBVIOUS
  <2>1. PICK b \in BundleIds, e \in Entities : IssueAllocation(b, e)
    BY DEF Next, Calls, Enrol, VerifyAccount, AddLineItem, WithdrawLineItem,
           ReplaceCreative, IssueBundle, Decide,
           VerifyReceipt, Accept, Reject
  <2> DEFINE slices == [l \in Budgeted(b) |-> SlicesOf(l, e)]
             signed(l) == IF e \in DOMAIN slices[l] THEN slices[l][e] ELSE 0
  <2>2. PICK l \in Budgeted(b) :
               g = [bundle |-> b, entity |-> e, lid |-> l, slice |-> signed(l)]
    BY <2>1 DEF IssueAllocation
  <2>3. allocations' = Updated(allocations, Entries(b, slices))
    BY <2>1 DEF IssueAllocation, Record
  <2>4. e \in DOMAIN slices[l] /\ g.slice = slices[l][e] BY <2>2
  <2>5. l \in DOMAIN slices BY <2>2
  <2> HIDE DEF slices
  <2>6. /\ <<b, e, l>> \in DOMAIN Entries(b, slices)
        /\ Entries(b, slices)[<<b, e, l>>] = slices[l][e]
    BY <2>4, <2>5 DEF Entries
  <2>7. allocations'[<<b, e, l>>] = slices[l][e] BY <2>3, <2>6 DEF Updated
  <2>8. g.bundle = b /\ g.entity = e /\ g.lid = l BY <2>2
  <2> QED BY <2>4, <2>7, <2>8
<1> QED BY <1>1, PTL DEF Spec, SignedIsRecorded

(***************************************************************************)
(* Slices and budgets.  An allocation is affordable and what it records is *)
(* honoured as long as it stands: what MCExchangeBudget and MCExchangePaid *)
(* violate takes a second bundle, or a second allocation of the same one.  *)
(***************************************************************************)
\* The dict of enrolled entities names each once.
EnrolledOnce == \A i, j \in DOMAIN enrolled : enrolled[i] = enrolled[j] => i = j

LEMMA EnrolledStep ==
  ASSUME TypeOK, EnrolledOnce, [Next]_vars
  PROVE  EnrolledOnce'
<1>1. CASE UNCHANGED enrolled BY <1>1 DEF EnrolledOnce
<1>2. ASSUME NEW e \in Entities, NEW t \in Tiers, SetTier(e, t)
      PROVE  EnrolledOnce'
  <2>1. enrolled \in Seq(Entities) /\ DOMAIN enrolled = 1..Len(enrolled) /\ Len(enrolled) \in Nat
    BY LenProperties DEF TypeOK
  <2>2. CASE Contains(enrolled, e) BY <1>1, <1>2, <2>2 DEF SetTier
  <2>3. CASE ~Contains(enrolled, e)
    <3>1. enrolled' = Append(enrolled, e) BY <1>2, <2>3 DEF SetTier
    <3>2. /\ DOMAIN enrolled' = 1..Len(enrolled) + 1 /\ enrolled'[Len(enrolled) + 1] = e
          /\ \A i \in 1..Len(enrolled) : enrolled'[i] = enrolled[i]
      BY <2>1, <3>1
    <3>3. \A i \in 1..Len(enrolled) : enrolled[i] # e BY <2>3 DEF Contains
    <3> QED BY <2>1, <3>2, <3>3 DEF EnrolledOnce
  <2> QED BY <2>2, <2>3
<1>3. UNCHANGED enrolled \/ \E e \in Entities, t \in Tiers : SetTier(e, t)
  BY Zenon DEF Next, Calls, Enrol, VerifyAccount, AddLineItem, WithdrawLineItem, ReplaceCreative,
     IssueBundle, IssueAllocation, Decide, VerifyReceipt, Accept, Reject, registry, vars
<1> QED BY <1>1, <1>2, <1>3

\* What one call of issue_allocation hands out of a line item.
LEMMA SlicesAffordable ==
  ASSUME TypeOK, EnrolledOnce, NEW e \in Entities, NEW l \in LineItems, Item[l].budget # None
  PROVE  /\ \A f \in DOMAIN SlicesOf(l, e) : SlicesOf(l, e)[f] \in Nat \ {0}
         /\ SumOf(SlicesOf(l, e)) * Max({1, ExpectedPrice(l)}) <= Remaining(l) * 1000
<1>1. /\ Item[l].budget \in Nat /\ spent[l] \in Nat /\ ExpectedPrice(l) \in Int
      /\ PeriodFraction \in Nat \X (Nat \ {0})
  BY ExchangeAssumption DEF TypeOK, ExpectedPrice
<1>2. Remaining(l) \in Nat BY <1>1 DEF Remaining
<1> SUFFICES ASSUME NEW slices, slices = SlicesOf(l, e), NEW left, left = Remaining(l),
                    NEW price, price = ExpectedPrice(l)
             PROVE  /\ \A f \in DOMAIN slices : slices[f] \in Nat \ {0}
                    /\ SumOf(slices) * Max({1, price}) <= left * 1000
  OBVIOUS
<1>3. CASE enrolled = <<>>
  <2> DEFINE nodes == [f \in {e} |-> 0]
             order == <<e>>
  <2>1. IsFiniteSet({e}) /\ nodes \in [{e} -> Nat] BY FS_Singleton
  <2>2. Ranked(order, {e}) BY DEF Ranked, IsInjective
  <2>3. slices = Allocate(nodes, order, left, price, PeriodFraction) BY <1>3 DEF SlicesOf
  <2> HIDE DEF nodes, order
  <2>4. left \in Nat /\ price \in Int /\ PeriodFraction \in Nat \X (Nat \ {0}) BY <1>1, <1>2
  <2>5. /\ DOMAIN slices \subseteq {e} /\ \A f \in DOMAIN slices : slices[f] \in Nat \ {0}
        /\ SumOf(slices) \in Int /\ SumOf(slices) * Max({1, price}) <= left * 1000
    BY ONLY <2>1, <2>2, <2>3, <2>4, AllocateRight
  <2> QED BY ONLY <2>5
<1>4. CASE enrolled # <<>>
  <2> DEFINE S == ToSet(enrolled)
             nodes == [f \in S |-> deliveredBy[f]]
  <2>1. enrolled \in Seq(Entities) /\ DOMAIN enrolled = 1..Len(enrolled) /\ Len(enrolled) \in Nat
    BY LenProperties DEF TypeOK
  <2>2. S = {enrolled[i] : i \in 1..Len(enrolled)} BY <2>1 DEF ToSet
  <2>3. IsFiniteSet(S)
    <3>1. IsFiniteSet(1..Len(enrolled)) BY <2>1, FS_Interval
    <3>2. enrolled \in Surjection(1..Len(enrolled), S) BY <2>1, <2>2 DEF Surjection
    <3> QED BY <3>1, <3>2, FS_Surjection
  <2>4. nodes \in [S -> Nat]
    <3>1. \A i \in 1..Len(enrolled) : enrolled[i] \in Entities BY <2>1, ElementOfSeq
    <3>2. S \subseteq Entities BY <2>2, <3>1
    <3> QED BY <3>2 DEF TypeOK
  <2>5. Ranked(enrolled, S) BY <2>1, <2>2 DEF Ranked, IsInjective, EnrolledOnce
  <2>6. slices = Allocate(nodes, enrolled, left, price, PeriodFraction) BY <1>4 DEF SlicesOf
  <2> HIDE DEF S, nodes
  <2>7. left \in Nat /\ price \in Int /\ PeriodFraction \in Nat \X (Nat \ {0}) BY <1>1, <1>2
  <2>8. /\ DOMAIN slices \subseteq S /\ \A f \in DOMAIN slices : slices[f] \in Nat \ {0}
        /\ SumOf(slices) \in Int /\ SumOf(slices) * Max({1, price}) <= left * 1000
    BY ONLY <2>3, <2>4, <2>5, <2>6, <2>7, AllocateRight
  <2> QED BY ONLY <2>8
<1> QED BY <1>3, <1>4

LEMMA EnrolledInvariant == Spec => []EnrolledOnce
<1>1. Init => EnrolledOnce BY DEF Init, EnrolledOnce
<1>2. Inv => TypeOK BY DEF Inv
<1> QED BY <1>1, <1>2, EnrolledStep, Invariant, PTL DEF Spec

AffordableCall ==
  \A b \in BundleIds, e \in Entities :
    IssueAllocation(b, e) =>
      \A l \in Budgeted(b) :
        SumOf(SlicesOf(l, e)) * Max({1, ExpectedPrice(l)}) <= Remaining(l) * 1000

\* issue_allocation: the slices of one call, "summed across every enrolled node",
\* cost no more at the expected price than what remains of the budget, whoever is
\* enrolled, whatever was delivered before.
THEOREM AllocationAffordable == Spec => [][AffordableCall]_vars
<1>1. TypeOK /\ EnrolledOnce => AffordableCall
  <2> SUFFICES ASSUME TypeOK, EnrolledOnce, NEW b \in BundleIds, NEW e \in Entities,
                      IssueAllocation(b, e), NEW l \in Budgeted(b)
               PROVE  SumOf(SlicesOf(l, e)) * Max({1, ExpectedPrice(l)}) <= Remaining(l) * 1000
    BY DEF AffordableCall
  <2>1. l \in LineItems /\ Item[l].budget # None
    BY DEF Budgeted, TypeOK, IssueAllocation
  <2> QED BY <2>1, SlicesAffordable
<1> QED BY <1>1, TypeCorrect, EnrolledInvariant, PTL

\* No later allocation changes a slice that is recorded.
SlicesStand == \A k \in DOMAIN allocations : allocations'[k] = allocations[k]

\* What was signed, if anything, is what is recorded.
GrantedRecorded ==
  \A g \in granted :
    g.slice = 0 \/ /\ g.slice \in Nat /\ <<g.bundle, g.entity, g.lid>> \in DOMAIN allocations
                   /\ allocations[<<g.bundle, g.entity, g.lid>>] = g.slice

LEMMA GrantedStep ==
  ASSUME TypeOK, EnrolledOnce, GrantedRecorded, [Next]_vars, SlicesStand
  PROVE  GrantedRecorded'
<1>1. CASE UNCHANGED <<granted, allocations>> BY <1>1 DEF GrantedRecorded
<1>2. ASSUME NEW b \in BundleIds, NEW e \in Entities, IssueAllocation(b, e)
      PROVE  GrantedRecorded'
  <2> DEFINE slices == [l \in Budgeted(b) |-> SlicesOf(l, e)]
             signed(l) == IF e \in DOMAIN slices[l] THEN slices[l][e] ELSE 0
             New == {[bundle |-> b, entity |-> e, lid |-> l, slice |-> signed(l)] : l \in Budgeted(b)}
  <2>1. /\ allocations' = Updated(allocations, Entries(b, slices))
        /\ granted' = granted \cup New
    BY <1>2 DEF IssueAllocation, Record
  <2>2. \A l \in Budgeted(b) : \A f \in DOMAIN slices[l] : slices[l][f] \in Nat \ {0}
    <3>1. \A l \in Budgeted(b) : l \in LineItems /\ Item[l].budget # None
      BY <1>2 DEF Budgeted, TypeOK, IssueAllocation
    <3> QED BY <3>1, SlicesAffordable, ZenonT(60)
  <2>3. DOMAIN slices = Budgeted(b) OBVIOUS
  <2>4. ASSUME NEW l \in Budgeted(b), e \in DOMAIN slices[l]
        PROVE  /\ <<b, e, l>> \in DOMAIN allocations'
               /\ allocations'[<<b, e, l>>] = slices[l][e]
    <3> HIDE DEF slices
    <3>1. <<b, e, l>> \in DOMAIN Entries(b, slices) /\ Entries(b, slices)[<<b, e, l>>] = slices[l][e]
      BY <2>3, <2>4 DEF Entries
    <3> QED BY <2>1, <3>1 DEF Updated
  <2>5. DOMAIN allocations \subseteq DOMAIN allocations' BY <2>1 DEF Updated
  <2> HIDE DEF slices
  <2> SUFFICES ASSUME NEW g \in granted'
               PROVE  g.slice = 0 \/ /\ g.slice \in Nat
                                     /\ <<g.bundle, g.entity, g.lid>> \in DOMAIN allocations'
                                     /\ allocations'[<<g.bundle, g.entity, g.lid>>] = g.slice
    BY DEF GrantedRecorded
  <2>6. CASE g \in granted
    BY <2>5, <2>6 DEF GrantedRecorded, SlicesStand
  <2>7. CASE g \in New
    <3>1. PICK l \in Budgeted(b) :
            g = [bundle |-> b, entity |-> e, lid |-> l, slice |-> signed(l)]
      BY <2>7
    <3>2. g.bundle = b /\ g.entity = e /\ g.lid = l /\ g.slice = signed(l) BY <3>1
    <3> QED BY <2>2, <2>4, <3>2
  <2> QED BY <2>1, <2>6, <2>7
<1>3. \/ UNCHANGED <<granted, allocations>>
      \/ \E b \in BundleIds, e \in Entities : IssueAllocation(b, e)
  BY Zenon DEF Next, Calls, Enrol, VerifyAccount, AddLineItem, WithdrawLineItem, ReplaceCreative,
     IssueBundle, Decide, VerifyReceipt, Accept, Reject, vars
<1> QED BY <1>1, <1>2, <1>3

\* A receipt inside a slice that was signed is not past its slice.
InsideIsHonoured ==
  \A r \in Receipts : Fault(r) = "UAP_PACING_EXCEEDED" => ~InsideGranted(r)

\* SPEC.md 8.2, "A node that serves within its slice is therefore always paid", as
\* far as it goes: as long as no allocation call changes a slice on record, a
\* receipt inside a signed slice meets no UAP_PACING_EXCEEDED, however many nodes
\* enrol, bundles are issued and receipts are uploaded (AlwaysPaid, without that,
\* is what MCExchangePaid refutes).
THEOREM StandingSlicePaid == Spec /\ [][SlicesStand]_vars => []InsideIsHonoured
<1>1. Init => GrantedRecorded BY DEF Init, GrantedRecorded
<1>2. TypeOK /\ EnrolledOnce /\ GrantedRecorded /\ [Next]_vars /\ [SlicesStand]_vars
        => GrantedRecorded'
  <2>1. CASE UNCHANGED vars BY <2>1 DEF vars, GrantedRecorded
  <2>2. CASE SlicesStand BY <2>2, GrantedStep
  <2> QED BY <2>1, <2>2
<1>3. GrantedRecorded => InsideIsHonoured
  <2> SUFFICES ASSUME GrantedRecorded, NEW r \in Receipts, Fault(r) = "UAP_PACING_EXCEEDED",
                      InsideGranted(r)
               PROVE  FALSE
    BY DEF InsideIsHonoured
  <2>1. r \in Receipt BY ExchangeAssumption
  <2>2. r.local # None /\ LocalFault(r) = "UAP_PACING_EXCEEDED"
    BY DEF Fault, ResolveFault, ContentFault
  <2>3. r.local.index \in Int BY <2>1, <2>2 DEF Receipt, LocalDecision
  <2>4. /\ ~(r.local.index < 0)
        /\ Reached(r.local.index, ShareFor(r.local.bundle, r.key, r.local.lid))
    BY <2>2 DEF LocalFault
  <2>5. PICK g \in granted : /\ g.bundle = r.local.bundle /\ g.entity = r.key
                             /\ g.lid = r.local.lid /\ r.local.index < g.slice
    BY DEF InsideGranted
  <2>6. g.slice # 0 BY <2>3, <2>4, <2>5
  <2>7. g.slice \in Nat /\ ShareFor(r.local.bundle, r.key, r.local.lid) = g.slice
    BY <2>5, <2>6 DEF GrantedRecorded, ShareFor
  <2> QED BY <2>3, <2>4, <2>5, <2>7 DEF Reached
<1> QED BY <1>1, <1>2, <1>3, TypeCorrect, EnrolledInvariant, PTL DEF Spec

(***************************************************************************)
(* Creatives.  A stored bundle aliases the live line items; as long as no  *)
(* creative is submitted again, that does not show.                        *)
(***************************************************************************)
SentIsLive == \A b \in DOMAIN bundles : bundles[b].sent = creative

\* What verify_receipt answers.
Reasons == {"ok", "raises", "signature", "UAP_NONCE_SPENT: replay", "UAP_NONCE_SPENT: unknown",
            "malformed", "unknown bundle", "UAP_BUNDLE_EXPIRED", "not in bundle",
            "nonce does not derive", "UAP_PACING_EXCEEDED", "no winner in trace",
            "creative_digest", "integrity", "integrity: committed digest", "not rendered",
            "viewability", "UAP_TIER_INSUFFICIENT", "auction_trace"}
Refusal == [why : Reasons, receipt : Receipts]

\* A refusal for its creative, by what was in the bundle when it was sent.
RefusalRight(x) ==
  LET r == x.receipt
  IN  x.why = "creative_digest" /\ r.local # None =>
        /\ r.local.bundle \in DOMAIN bundles
        /\ r.creative # bundles[r.local.bundle].sent[r.local.lid]

CreativeInv ==
  /\ SentIsLive
  /\ rejections \in Seq(Refusal) /\ \A i \in DOMAIN rejections : RefusalRight(rejections[i])

LEMMA CreativeStep ==
  ASSUME CreativeInv, [Next]_vars, UNCHANGED creative
  PROVE  CreativeInv'
<1>1. CASE UNCHANGED <<bundles, rejections>>
  BY <1>1 DEF CreativeInv, SentIsLive, RefusalRight
<1>2. ASSUME NEW b \in BundleIds, NEW formats, IssueBundle(b, formats)
      PROVE  CreativeInv'
  <2> DEFINE new == [items |-> {l \in items : Allows(formats, Item[l].format)}, sent |-> creative]
  <2>1. /\ b \notin DOMAIN bundles /\ bundles' = Updated(bundles, [d \in {b} |-> new])
        /\ UNCHANGED rejections
    BY <1>2 DEF IssueBundle
  <2>2. new.sent = creative OBVIOUS
  <2> HIDE DEF new
  <2>3. /\ DOMAIN bundles' = DOMAIN bundles \cup {b} /\ bundles'[b] = new
        /\ \A d \in DOMAIN bundles : bundles'[d] = bundles[d]
    BY <2>1 DEF Updated
  <2>4. SentIsLive' BY <2>2, <2>3 DEF CreativeInv, SentIsLive
  <2>5. \A x : RefusalRight(x) => RefusalRight(x)' BY <2>3 DEF RefusalRight
  <2> QED BY <2>1, <2>4, <2>5 DEF CreativeInv
<1>3. ASSUME NEW r \in Receipts, Reject(r)
      PROVE  CreativeInv'
  <2> DEFINE x == [why |-> Fault(r), receipt |-> r]
  <2>1. rejections' = Append(rejections, x) /\ UNCHANGED <<creative, bundles>>
    BY <1>3 DEF Reject, registry
  <2>2. Fault(r) \in Reasons
    <3>1. LocalFault(r) \in Reasons BY DEF LocalFault, Reasons
    <3>2. ResolveFault(r) \in Reasons BY <3>1 DEF ResolveFault, Reasons
    <3>3. ContentFault(r, Backing(r)) \in Reasons BY DEF ContentFault, Reasons
    <3> QED BY <3>2, <3>3 DEF Fault, Reasons
  <2>3. x \in Refusal BY <2>2 DEF Refusal
  <2>4. RefusalRight(x)
    <3> SUFFICES ASSUME Fault(r) = "creative_digest", r.local # None
                 PROVE  /\ r.local.bundle \in DOMAIN bundles
                        /\ r.creative # bundles[r.local.bundle].sent[r.local.lid]
      BY DEF RefusalRight
    <3>1. LocalFault(r) = "ok" /\ ContentFault(r, Backing(r)) = "creative_digest"
      BY DEF Fault, ResolveFault, LocalFault
    <3>2. r.local.bundle \in DOMAIN bundles BY <3>1 DEF LocalFault
    <3>3. r.creative # Backing(r).creative BY <3>1 DEF ContentFault
    <3>4. Backing(r).creative = creative[r.local.lid] BY DEF Backing, LocalBacking
    <3> QED BY <3>2, <3>3, <3>4 DEF CreativeInv, SentIsLive
  <2> HIDE DEF x
  <2>5. /\ rejections' \in Seq(Refusal)
        /\ DOMAIN rejections' = DOMAIN rejections \cup {Len(rejections) + 1}
        /\ rejections'[Len(rejections) + 1] = x
        /\ \A i \in DOMAIN rejections : rejections'[i] = rejections[i]
    <3>1. rejections \in Seq(Refusal) BY DEF CreativeInv
    <3>2. Len(rejections) \in Nat /\ DOMAIN rejections = 1..Len(rejections)
      BY <3>1, LenProperties
    <3> QED BY <2>1, <2>3, <3>1, <3>2, AppendProperties
  <2>6. \A y : RefusalRight(y)' <=> RefusalRight(y) BY <2>1 DEF RefusalRight
  <2> QED BY <2>1, <2>4, <2>5, <2>6 DEF CreativeInv, SentIsLive
<1>4. \/ UNCHANGED <<bundles, rejections>>
      \/ \E b \in BundleIds, formats \in {{}, Formats} : IssueBundle(b, formats)
      \/ \E r \in Receipts : Reject(r)
  BY Zenon DEF Next, Calls, Enrol, VerifyAccount, AddLineItem, WithdrawLineItem, ReplaceCreative,
     IssueAllocation, Decide, VerifyReceipt, Accept, registry, vars
<1> QED BY <1>1, <1>2, <1>3, <1>4

\* verify_receipt: as long as no creative is replaced (BuySide.submit_creative), a
\* local receipt is refused for its creative only when it does not show the one in
\* the bundle as it was sent (RefusedCreativeNotIssued), however often line items
\* come and go.
THEOREM CreativeRefusalsRight == Spec /\ [][UNCHANGED creative]_vars => []RefusedCreativeNotIssued
<1>1. Init => CreativeInv
  <2> SUFFICES ASSUME Init PROVE CreativeInv OBVIOUS
  <2>1. DOMAIN bundles = {} BY DEF Init, EmptyMap
  <2>2. rejections = <<>> BY DEF Init
  <2> QED BY <2>1, <2>2 DEF CreativeInv, SentIsLive
<1>2. CreativeInv /\ [Next]_vars /\ [UNCHANGED creative]_vars => CreativeInv'
  <2>1. UNCHANGED vars => UNCHANGED creative BY DEF vars, registry
  <2> QED BY <2>1, CreativeStep
<1>3. CreativeInv => RefusedCreativeNotIssued
  BY DEF CreativeInv, RefusalRight, RefusedCreativeNotIssued
<1> QED BY <1>1, <1>2, <1>3, PTL DEF Spec

-----------------------------------------------------------------------------
(***************************************************************************)
(* The server with one handler thread.                                     *)
(***************************************************************************)
OneHandler == \E t : Threads = {t}

\* The phases of a handler after it marked the nonce.
Counting == {"read delivered", "write delivered", "read spent", "write spent",
             "read by", "write by", "read count", "write count"}
Phases == {"idle", "check", "mark"} \cup Counting

Backings == {NoBacking} \cup
  [answer : Answers \cup {None}, lid : LineItems, creative : Creatives, price : Nat,
   entity : Entities \cup {None}, trace : TraceSummary]
Job == [pc : Phases, receipt : Receipts \cup {None}, backing : Backings, read : Nat]

\* What a handler has found out so far still holds.
Working(t) ==
  LET j == thread[t]
  IN  /\ j.pc \in {"check", "mark"} => j.receipt \in Receipts /\ Room
      /\ j.pc = "check" => ReplayTest(j.receipt) = "ok"
      /\ j.pc = "mark" => Fault(j.receipt) = "ok" /\ j.backing = Backing(j.receipt)
      /\ j.pc \in Counting => /\ j.backing.lid \in LineItems /\ Gross(j.backing) \in Nat
                              /\ j.backing.entity \in Entities \cup {None}
      /\ j.pc = "write delivered" => j.read = delivered[j.backing.lid]
      /\ j.pc = "write spent" => j.read = spent[j.backing.lid]
      /\ j.pc = "write by" => j.read = deliveredBy[j.backing.entity]
      /\ j.pc = "write count" => j.read = verifiedCount

ServerInv == Inv /\ thread \in [Threads -> Job] /\ \A t \in Threads : Working(t)

\* A call that starts finds every thread idle.
LEMMA OneBusy ==
  ASSUME OneHandler, NEW t \in Threads
  PROVE  /\ At(t, "idle") => Busy = {}
         /\ ~At(t, "idle") => Busy = Threads
         /\ Threads = {t}
BY DEF OneHandler, Busy

\* Steps that leave alone what the invariant of the exchange is about.
LEMMA InvSame ==
  ASSUME Inv, UNCHANGED <<registry, bundles, decisions, openNonces, books, holdout>>
  PROVE  Inv'
<1>1. UNCHANGED <<enrolled, tier, keys, items, creative, spentNonces, log, delivered, spent,
                  deliveredBy, verifiedCount, IssuedNonces, bundles, decisions, openNonces, holdout>>
  BY DEF registry, books, IssuedNonces
<1> QED BY <1>1 DEF Inv, TypeOK, NonceLifecycle, SpentKnown, SpentIsLogged

\* A fault depends on nothing a handler writes before it bills.
LEMMA FaultSame ==
  ASSUME UNCHANGED <<registry, bundles, allocations, decisions, openNonces, spentNonces>>, NEW r
  PROVE  /\ Fault(r)' = Fault(r) /\ ReplayTest(r)' = ReplayTest(r) /\ Backing(r)' = Backing(r)
BY DEF registry, Fault, ReplayTest, Backing, ResolveFault, LocalFault, LocalBacking, ContentFault,
       ShareFor

\* What verify_receipt finds, in the two steps the server takes to find it.
CheckFault(r) == IF ResolveFault(r) # "ok" THEN ResolveFault(r) ELSE ContentFault(r, Backing(r))

LEMMA FaultInTwo ==
  ASSUME NEW r
  PROVE  Fault(r) = IF ReplayTest(r) # "ok" THEN ReplayTest(r) ELSE CheckFault(r)
BY DEF Fault, ReplayTest, CheckFault

LEMMA BackingInSet ==
  ASSUME Inv, NEW r \in Receipts, Fault(r) = "ok"
  PROVE  Backing(r) \in Backings
<1>1. CASE r.local = None
  <2>1. r.nonce \in openNonces /\ Backing(r) = decisions[r.nonce[3]][r.nonce[4]]
    BY <1>1, BackingType
  <2>2. Backing(r) \in Entry BY <2>1, IssuedEntry DEF Inv, NonceLifecycle
  <2> QED BY <2>2 DEF Entry, Backings
<1>2. CASE r.local # None
  <2>1. /\ r \in Receipt /\ Backing(r).lid \in LineItems /\ Backing(r).price \in Nat
        /\ Backing(r).entity \in Entities \cup {None} /\ Backing(r).lid = r.local.lid
    BY <1>2, BackingType
  <2>2. Backing(r) = LocalBacking(r) BY <1>2 DEF Backing
  <2>3. r.trace \in TraceSummary
    <3>1. r.trace # None BY <1>2 DEF Fault, ResolveFault, LocalFault
    <3> QED BY <2>1, <3>1 DEF Receipt
  <2>4. creative[r.local.lid] \in Creatives BY <2>1 DEF Inv, TypeOK
  <2>5. PICK price : price = (IF r.trace.lost > Floor THEN r.trace.lost ELSE Floor) + 1 OBVIOUS
  <2>6. Backing(r) = [answer |-> None, lid |-> r.local.lid, creative |-> creative[r.local.lid],
                      price |-> price, entity |-> r.key, trace |-> r.trace]
    BY <2>2, <2>5 DEF LocalBacking
  <2>7. price \in Nat /\ r.key \in Entities \cup {None} BY <2>1, <2>6
  <2> QED BY <2>1, <2>3, <2>4, <2>6, <2>7 DEF Backings
<1> QED BY <1>1, <1>2
-----------------------------------------------------------------------------
\* The handler's record after a rejected receipt.
LEMMA IdleJob == Idle \in Job
BY DEF Idle, Job, Phases, Backings

LEMMA Rejects ==
  ASSUME NEW t \in Threads, thread \in [Threads -> Job], NEW r, NEW why, RejectWith(t, r, why)
  PROVE  /\ thread' \in [Threads -> Job] /\ thread'[t] = Idle /\ thread'[t].pc = "idle"
         /\ rejections' = IF why = "raises" THEN rejections
                          ELSE Append(rejections, [why |-> why, receipt |-> r])
<1>1. Idle.pc = "idle" BY DEF Idle
<1> QED BY <1>1, IdleJob DEF RejectWith

LEMMA ReceiveKeeps ==
  ASSUME ServerInv, OneHandler, NEW t \in Threads, NEW r \in Receipts, Receive(t, r)
  PROVE  ServerInv'
<1>1. Inv' BY InvSame DEF ServerInv, Receive
<1>2. thread' \in [Threads -> Job] /\ Working(t)'
  <2>1. CASE ReplayTest(r) # "ok"
    <3>1. RejectWith(t, r, ReplayTest(r)) BY <2>1 DEF Receive
    <3>2. thread' \in [Threads -> Job] /\ thread'[t].pc = "idle" BY <3>1, Rejects DEF ServerInv
    <3> QED BY <3>2 DEF Working, Counting
  <2>2. CASE ReplayTest(r) = "ok"
    <3>1. /\ thread' = [thread EXCEPT ![t] = [pc |-> "check", receipt |-> r,
                                              backing |-> NoBacking, read |-> 0]]
          /\ UNCHANGED <<log, rejections, keys, spentNonces>>
      BY <2>2 DEF Receive, registry, books, Idle
    <3>2. Len(log) + Len(rejections) + 0 < MaxReceipts
      <4>1. Cardinality(Busy) = 0 BY OneBusy, FS_EmptySet DEF Receive
      <4> QED BY <4>1 DEF Receive
    <3>3. Room' BY <3>1, <3>2 DEF Room
    <3>4. ReplayTest(r)' = "ok" BY <2>2, <3>1 DEF ReplayTest
    <3>5. [pc |-> "check", receipt |-> r, backing |-> NoBacking, read |-> 0] \in Job
      BY DEF Job, Phases, Backings
    <3>6. /\ thread' \in [Threads -> Job]
           /\ thread'[t] = [pc |-> "check", receipt |-> r, backing |-> NoBacking, read |-> 0]
      BY <3>1, <3>5 DEF ServerInv
    <3> QED BY <3>3, <3>4, <3>6 DEF Working, Counting
  <2> QED BY <2>1, <2>2
<1> QED BY <1>1, <1>2, OneBusy DEF ServerInv

LEMMA CheckKeeps ==
  ASSUME ServerInv, OneHandler, NEW t \in Threads, Check(t)
  PROVE  ServerInv'
<1>0. thread \in [Threads -> Job] /\ Working(t) /\ thread[t].pc = "check"
  BY DEF ServerInv, Check, At
<1>1. Inv' BY InvSame DEF ServerInv, Check
<1>2. PICK r : r = thread[t].receipt OBVIOUS
<1>3. r \in Receipts /\ Room /\ ReplayTest(r) = "ok" BY <1>0, <1>2 DEF Working
<1>4. Fault(r) = CheckFault(r) BY <1>3, FaultInTwo
<1>5. thread' \in [Threads -> Job] /\ Working(t)'
  <2>1. CASE CheckFault(r) # "ok"
    <3>1. RejectWith(t, r, CheckFault(r)) BY <1>2, <2>1 DEF Check, CheckFault
    <3>2. thread' \in [Threads -> Job] /\ thread'[t].pc = "idle" BY <1>0, <3>1, Rejects
    <3> QED BY <3>2 DEF Working, Counting
  <2>2. CASE CheckFault(r) = "ok"
    <3>1. PICK b : b = Backing(r) OBVIOUS
    <3>2. /\ thread' = [thread EXCEPT ![t].pc = "mark", ![t].backing = b]
          /\ UNCHANGED <<rejections, log, registry, bundles, allocations, decisions, openNonces, spentNonces>>
      BY <1>2, <2>2, <3>1 DEF Check, CheckFault, books
    <3>3. b \in Backings BY <1>3, <1>4, <2>2, <3>1, BackingInSet DEF ServerInv
    <3>4. /\ thread' \in [Threads -> Job] /\ thread'[t].pc = "mark"
           /\ thread'[t].receipt = r /\ thread'[t].backing = b
      BY <1>0, <1>2, <3>2, <3>3 DEF Job, Phases
    <3>5. Room' BY <1>3, <3>2 DEF Room
    <3>6. Fault(r)' = "ok" /\ Backing(r)' = b BY <1>4, <2>2, <3>1, <3>2, FaultSame
    <3> QED BY <1>3, <3>4, <3>5, <3>6 DEF Working, Counting
  <2> QED BY <2>1, <2>2
<1> QED BY <1>1, <1>5, OneBusy DEF ServerInv

LEMMA MarkKeeps ==
  ASSUME ServerInv, OneHandler, NEW t \in Threads, Mark(t)
  PROVE  /\ ServerInv' /\ thread[t].receipt \in Receipts /\ Room
         /\ Marked(thread[t].receipt) /\ thread[t].backing = Backing(thread[t].receipt)
          /\ thread'[t].pc = "read delivered" /\ thread'[t].backing = thread[t].backing
<1>0. /\ Inv /\ thread \in [Threads -> Job] /\ Working(t) /\ thread[t].pc = "mark"
      /\ thread' = [thread EXCEPT ![t].pc = "read delivered"]
  BY DEF ServerInv, Mark, At, Goto
<1>1. PICK r, b : r = thread[t].receipt /\ b = thread[t].backing OBVIOUS
<1>2. r \in Receipts /\ Room /\ Fault(r) = "ok" /\ b = Backing(r) BY <1>0, <1>1 DEF Working
<1>3. Marked(r) BY <1>1, <1>2 DEF Mark, Marked, Paid, quiet
<1>4. Inv'
  <2>1. UNCHANGED <<registry, bundles, holdout, decisions, delivered, spent, deliveredBy, verifiedCount>>
    BY DEF Mark, quiet
  <2>2. log' \in Seq(LogEntry) BY <1>0, <1>2, <1>3, MarkLogs
  <2>3. /\ NonceLifecycle' /\ SpentKnown' /\ SpentIsLogged'
        /\ openNonces' \subseteq Nonce /\ spentNonces' \subseteq Nonce
    BY <1>0, <1>2, <1>3, MarkNonces
  <2>4. TypeOK' BY <1>0, <2>1, <2>2, <2>3 DEF Inv, TypeOK, registry
  <2> QED BY <2>3, <2>4 DEF Inv
<1>5. /\ thread' \in [Threads -> Job] /\ thread'[t].pc = "read delivered" /\ thread'[t].backing = b
  BY <1>0, <1>1 DEF Job, Phases, Counting
<1>6. Working(t)'
  <2>1. Gross(b) \in Nat BY <1>0, <1>2, <1>3, MarkLogs
  <2>2. b.lid \in LineItems /\ b.entity \in Entities \cup {None} BY <1>0, <1>2, BackingType
  <2> QED BY <1>5, <2>1, <2>2 DEF Working, Counting
<1> QED BY <1>1, <1>2, <1>3, <1>4, <1>5, <1>6, OneBusy DEF ServerInv

\* A handler that reads a counter.
LEMMA CounterKeeps ==
  ASSUME ServerInv, OneHandler, NEW t \in Threads,
         NEW pc \in Counting, NEW next \in Counting, NEW value \in Nat,
         ReadCounter(t, pc, value, next),
         /\ next = "write delivered" => value = delivered[thread[t].backing.lid]
         /\ next = "write spent" => value = spent[thread[t].backing.lid]
         /\ next = "write by" => value = deliveredBy[thread[t].backing.entity]
         /\ next = "write count" => value = verifiedCount
  PROVE  ServerInv' /\ thread'[t].pc = next /\ thread'[t].backing = thread[t].backing
<1>0. thread \in [Threads -> Job] /\ Working(t) /\ thread[t].pc = pc
  BY DEF ServerInv, ReadCounter, At
<1>1. Inv' BY InvSame DEF ServerInv, ReadCounter, quiet
<1>2. thread' = [thread EXCEPT ![t].pc = next, ![t].read = value]
      /\ UNCHANGED <<delivered, spent, deliveredBy, verifiedCount>>
  BY DEF ReadCounter, books
<1>3. PICK b : b = thread[t].backing OBVIOUS
<1>4. /\ thread' \in [Threads -> Job] /\ thread'[t].pc = next
      /\ thread'[t].backing = b /\ thread'[t].read = value
  BY <1>0, <1>2, <1>3 DEF Job, Phases
<1>5. b.lid \in LineItems /\ Gross(b) \in Nat /\ b.entity \in Entities \cup {None}
  BY <1>0, <1>3 DEF Working
<1>6. Working(t)' BY <1>2, <1>3, <1>4, <1>5 DEF Working, Counting
<1> QED BY <1>1, <1>3, <1>4, <1>6, OneBusy DEF ServerInv

\* Where the invariant of the exchange is kept, whatever number a counter is given.
LEMMA InvCounted ==
  ASSUME Inv, UNCHANGED <<quiet, openNonces, spentNonces, log>>,
         delivered' \in [LineItems -> Nat], spent' \in [LineItems -> Nat],
         deliveredBy' \in [Entities \cup {None} -> Nat], verifiedCount' \in Nat
  PROVE  Inv'
<1>1. UNCHANGED <<enrolled, tier, keys, items, creative, spentNonces, log, IssuedNonces, bundles,
                  decisions, openNonces, holdout>>
  BY DEF quiet, registry, IssuedNonces
<1> QED BY <1>1 DEF Inv, TypeOK, NonceLifecycle, SpentKnown, SpentIsLogged

LEMMA Given ==
  ASSUME NEW S, NEW f \in [S -> Nat], NEW x, NEW v \in Nat
  PROVE  [f EXCEPT ![x] = v] \in [S -> Nat]
OBVIOUS

\* What a counter is given is what it held, and the handler's part.
LEMMA WriteKeeps ==
  ASSUME ServerInv, OneHandler, NEW t \in Threads,
         WriteDelivered(t) \/ WriteSpent(t) \/ WriteBy(t) \/ WriteCount(t)
  PROVE  ServerInv'
<1>0. /\ Inv /\ thread \in [Threads -> Job] /\ Working(t)
      /\ delivered \in [LineItems -> Nat] /\ spent \in [LineItems -> Nat]
      /\ deliveredBy \in [Entities \cup {None} -> Nat] /\ verifiedCount \in Nat
  BY DEF ServerInv, Inv, TypeOK
<1>1. PICK b, n : b = thread[t].backing /\ n = thread[t].read OBVIOUS
<1>2. n \in Nat BY <1>0, <1>1 DEF Job
<1>3. thread[t].pc \in Counting BY DEF WriteDelivered, WriteSpent, WriteBy, WriteCount, At, Counting
<1>4. b.lid \in LineItems /\ Gross(b) \in Nat /\ b.entity \in Entities \cup {None}
  BY <1>0, <1>1, <1>3 DEF Working
<1>5. PICK l, e, g : l = b.lid /\ e = b.entity /\ g = Gross(b) OBVIOUS
<1>6. g \in Nat /\ n + 1 \in Nat /\ n + g \in Nat BY <1>2, <1>4, <1>5
<1>7. ASSUME WriteDelivered(t) PROVE Inv' /\ thread' \in [Threads -> Job] /\ Working(t)'
  <2>1. /\ thread' = [thread EXCEPT ![t].pc = "read spent"]
        /\ delivered' = [delivered EXCEPT ![l] = n + 1]
        /\ UNCHANGED <<quiet, openNonces, spentNonces, log, spent, deliveredBy, verifiedCount>>
    BY <1>1, <1>5, <1>7 DEF WriteDelivered, Goto
  <2>2. delivered' \in [LineItems -> Nat] BY <1>0, <1>6, <2>1, Given
  <2>3. Inv' BY <1>0, <2>1, <2>2, InvCounted
  <2>4. /\ thread' \in [Threads -> Job] /\ thread'[t].pc = "read spent" /\ thread'[t].backing = b
    BY <1>0, <1>1, <2>1 DEF Job, Phases, Counting
  <2> QED BY <1>4, <2>3, <2>4 DEF Working, Counting
<1>8. ASSUME WriteSpent(t) PROVE Inv' /\ thread' \in [Threads -> Job] /\ Working(t)'
  <2>1. /\ thread' = [thread EXCEPT ![t].pc = "read by"]
        /\ spent' = [spent EXCEPT ![l] = n + g]
        /\ UNCHANGED <<quiet, openNonces, spentNonces, log, delivered, deliveredBy, verifiedCount>>
    BY <1>1, <1>5, <1>8 DEF WriteSpent, Goto
  <2>2. spent' \in [LineItems -> Nat] BY <1>0, <1>6, <2>1, Given
  <2>3. Inv' BY <1>0, <2>1, <2>2, InvCounted
  <2>4. /\ thread' \in [Threads -> Job] /\ thread'[t].pc = "read by" /\ thread'[t].backing = b
    BY <1>0, <1>1, <2>1 DEF Job, Phases, Counting
  <2> QED BY <1>4, <2>3, <2>4 DEF Working, Counting
<1>9. ASSUME WriteBy(t) PROVE Inv' /\ thread' \in [Threads -> Job] /\ Working(t)'
  <2>1. /\ thread' = [thread EXCEPT ![t].pc = "read count"]
        /\ deliveredBy' = [deliveredBy EXCEPT ![e] = n + 1]
        /\ UNCHANGED <<quiet, openNonces, spentNonces, log, delivered, spent, verifiedCount>>
    BY <1>1, <1>5, <1>9 DEF WriteBy, Goto
  <2>2. deliveredBy' \in [Entities \cup {None} -> Nat] BY <1>0, <1>6, <2>1, Given
  <2>3. Inv' BY <1>0, <2>1, <2>2, InvCounted
  <2>4. /\ thread' \in [Threads -> Job] /\ thread'[t].pc = "read count" /\ thread'[t].backing = b
    BY <1>0, <1>1, <2>1 DEF Job, Phases, Counting
  <2> QED BY <1>4, <2>3, <2>4 DEF Working, Counting
<1>10. ASSUME WriteCount(t) PROVE Inv' /\ thread' \in [Threads -> Job] /\ Working(t)'
  <2>1. /\ thread' = [thread EXCEPT ![t] = Idle] /\ verifiedCount' = n + 1
        /\ UNCHANGED <<quiet, openNonces, spentNonces, log, delivered, spent, deliveredBy>>
    BY <1>1, <1>10 DEF WriteCount
  <2>2. verifiedCount' \in Nat BY <1>2, <2>1
  <2>3. Inv' BY <1>0, <2>1, <2>2, InvCounted
  <2>4. thread' \in [Threads -> Job] /\ thread'[t] = Idle BY <1>0, <2>1, IdleJob
  <2>5. thread'[t].pc = "idle" BY <2>4 DEF Idle
  <2> QED BY <2>3, <2>4, <2>5 DEF Working, Counting
<1> QED BY <1>7, <1>8, <1>9, <1>10, OneBusy DEF ServerInv

\* Reading any of the counters.
LEMMA ReadKeeps ==
  ASSUME ServerInv, OneHandler, NEW t \in Threads,
         ReadDelivered(t) \/ ReadSpent(t) \/ ReadBy(t) \/ ReadCount(t)
  PROVE  ServerInv'
<1>0. /\ Working(t) /\ delivered \in [LineItems -> Nat] /\ spent \in [LineItems -> Nat]
      /\ deliveredBy \in [Entities \cup {None} -> Nat] /\ verifiedCount \in Nat
  BY DEF ServerInv, Inv, TypeOK
<1>1. PICK b : b = thread[t].backing OBVIOUS
<1>2. thread[t].pc \in Counting
  BY DEF ReadDelivered, ReadSpent, ReadBy, ReadCount, ReadCounter, At, Counting
<1>3. b.lid \in LineItems /\ b.entity \in Entities \cup {None} BY <1>0, <1>1, <1>2 DEF Working
<1>4. delivered[b.lid] \in Nat /\ spent[b.lid] \in Nat /\ deliveredBy[b.entity] \in Nat
  BY <1>0, <1>3
<1>5. /\ {"read delivered", "read spent", "read by", "read count"} \subseteq Counting
      /\ {"write delivered", "write spent", "write by", "write count"} \subseteq Counting
  BY DEF Counting
<1>6. CASE ReadDelivered(t) BY <1>1, <1>4, <1>5, <1>6, CounterKeeps DEF ReadDelivered
<1>7. CASE ReadSpent(t) BY <1>1, <1>4, <1>5, <1>7, CounterKeeps DEF ReadSpent
<1>8. CASE ReadBy(t) BY <1>1, <1>4, <1>5, <1>8, CounterKeeps DEF ReadBy
<1>9. CASE ReadCount(t) BY <1>0, <1>5, <1>9, CounterKeeps DEF ReadCount
<1> QED BY <1>6, <1>7, <1>8, <1>9

\* Any other call finds the handler idle and leaves it so.
LEMMA OtherKeeps ==
  ASSUME ServerInv, OneHandler, OtherCall
  PROVE  ServerInv' /\ Busy = {} /\ UNCHANGED thread
<1>1. PICK t \in Threads : At(t, "idle") BY DEF OtherCall, Busy
<1>2. Busy = {} /\ UNCHANGED thread /\ Next BY <1>1, OneBusy DEF OtherCall, Next
<1>3. Inv' BY <1>2, TypeStep, NonceStep, LogStep DEF ServerInv, Inv
<1>4. Threads = {t} /\ thread[t].pc = "idle" BY <1>1, OneBusy DEF At
<1> QED BY <1>2, <1>3, <1>4 DEF ServerInv, Working, Counting

LEMMA ServerStep ==
  ASSUME ServerInv, OneHandler, [ServerNext]_allVars
  PROVE  ServerInv'
<1>1. CASE UNCHANGED allVars
  <2>1. UNCHANGED <<vars, thread, registry, books>> BY <1>1 DEF allVars, vars
  <2>2. Inv' BY <2>1, InvSame DEF ServerInv, vars
  <2>3. UNCHANGED <<Room, allocations, rejections, log, delivered, spent, deliveredBy, verifiedCount>>
    BY <2>1 DEF vars, Room, books
  <2>4. ASSUME NEW t \in Threads PROVE Working(t)'
    <3>1. PICK r : r = thread[t].receipt OBVIOUS
    <3>2. Fault(r)' = Fault(r) /\ ReplayTest(r)' = ReplayTest(r) /\ Backing(r)' = Backing(r)
      BY <2>1, FaultSame DEF vars, books
    <3> QED BY <2>1, <2>3, <3>1, <3>2 DEF ServerInv, Working
  <2> QED BY <2>1, <2>2, <2>4 DEF ServerInv
<1>2. CASE OtherCall BY <1>2, OtherKeeps
<1>3. ASSUME NEW t \in Threads, NEW r \in Receipts, Receive(t, r) PROVE ServerInv'
  BY <1>3, ReceiveKeeps
<1>4. ASSUME NEW t \in Threads, Check(t) \/ Mark(t) PROVE ServerInv' BY <1>4, CheckKeeps, MarkKeeps
<1>5. ASSUME NEW t \in Threads,
             \/ ReadDelivered(t) \/ WriteDelivered(t) \/ ReadSpent(t) \/ WriteSpent(t)
             \/ ReadBy(t) \/ WriteBy(t) \/ ReadCount(t) \/ WriteCount(t)
      PROVE  ServerInv'
  BY <1>5, ReadKeeps, WriteKeeps
<1> QED BY <1>1, <1>2, <1>3, <1>4, <1>5 DEF ServerNext

LEMMA ServerStart == ServerInit => ServerInv
<1> SUFFICES ASSUME ServerInit PROVE ServerInv OBVIOUS
<1>1. Inv BY InvInit DEF ServerInit
<1>2. thread \in [Threads -> Job] /\ \A t \in Threads : thread[t] = Idle
  BY IdleJob DEF ServerInit
<1>3. Idle.pc = "idle" BY DEF Idle
<1> QED BY <1>1, <1>2, <1>3 DEF ServerInv, Working, Counting
-----------------------------------------------------------------------------
(* What the counters are mapped to.                                         *)

LEMMA OneSum ==
  ASSUME OneHandler, NEW t \in Threads, NEW S \in SUBSET Threads
  PROVE  /\ Cardinality(S) = IF t \in S THEN 1 ELSE 0
         /\ \A f : f[t] \in Int => SumFunctionOnSet(f, S) = IF t \in S THEN f[t] ELSE 0
<1>1. S = {} \/ S = {t} BY DEF OneHandler
<1>2. CASE S = {} BY <1>2, FS_EmptySet, SumEmpty
<1>3. CASE S = {t}
  <2>1. Cardinality({t}) = 1 BY FS_Singleton
  <2>2. ASSUME NEW f, f[t] \in Int PROVE SumFunctionOnSet(f, {t}) = f[t]
    <3>1. IsFiniteSet({}) /\ t \notin {} /\ {t} = {} \cup {t} BY FS_EmptySet
    <3>2. SumFunctionOnSet(f, {} \cup {t}) = f[t] + SumFunctionOnSet(f, {}) BY <2>2, <3>1, SumAdd
    <3>3. SumFunctionOnSet(f, {}) = 0 BY SumEmpty
    <3> QED BY <2>2, <3>1, <3>2, <3>3
  <2> QED BY <1>3, <2>1, <2>2
<1> QED BY <1>1, <1>2, <1>3

\* The phases in which the handler has a counter yet to write.
OwesDelivered == {"read delivered", "write delivered"}
OwesSpent == OwesDelivered \cup {"read spent", "write spent"}
OwesBy == OwesSpent \cup {"read by", "write by"}

Owed(S, f, x, v) == [k \in S |-> f[k] + (IF x = k THEN v ELSE 0)]

\* A counter is raised by what is owed to one of its keys.
LEMMA OwedIsRaised ==
  ASSUME NEW S, NEW f \in [S -> Nat], NEW x, NEW v
  PROVE  Owed(S, f, x, v) = RaisedBy(f, x, v)
<1> DEFINE h == [k \in S |-> f[k] + (IF x = k THEN v ELSE 0)]
           e == [f EXCEPT ![x] = @ + v]
<1>1. DOMAIN e = S /\ DOMAIN h = S OBVIOUS
<1>2. ASSUME NEW k \in S PROVE h[k] = e[k]
  <2>1. CASE k = x BY <2>1
  <2>2. CASE k # x
    <3>1. h[k] = f[k] + 0 /\ f[k] \in Nat /\ e[k] = f[k] BY <2>2
    <3> QED BY <3>1
  <2> QED BY <2>1, <2>2
<1>3. h = [k \in S |-> h[k]] /\ e = [k \in S |-> e[k]] OBVIOUS
<1> HIDE DEF h, e
<1>4. h = e BY <1>2, <1>3
<1> QED BY <1>4 DEF h, e, Owed, RaisedBy

LEMMA OwedNothing ==
  ASSUME NEW S, NEW f \in [S -> Nat]
  PROVE  [k \in S |-> f[k] + 0] = f
OBVIOUS

\* A counter is mapped to what it holds and what the handler owes it.
MappedTo(t) ==
  LET j == thread[t]
      b == thread[t].backing
  IN  /\ DeliveredDone = IF j.pc \in OwesDelivered THEN RaisedBy(delivered, b.lid, 1) ELSE delivered
      /\ SpentDone = IF j.pc \in OwesSpent THEN RaisedBy(spent, b.lid, Gross(b)) ELSE spent
      /\ ByDone = IF j.pc \in OwesBy THEN RaisedBy(deliveredBy, b.entity, 1) ELSE deliveredBy
      /\ verifiedCount + Cardinality(ToCount) = verifiedCount + (IF j.pc \in Counting THEN 1 ELSE 0)
      /\ SplitsDone = IF j.pc \in Counting THEN Settle(Gross(b)) ELSE periodSplits

LEMMA Mapped ==
  ASSUME OneHandler, NEW t \in Threads, ServerInv
  PROVE  MappedTo(t)
<1>0. /\ delivered \in [LineItems -> Nat] /\ spent \in [LineItems -> Nat]
      /\ deliveredBy \in [Entities \cup {None} -> Nat] /\ verifiedCount \in Nat
  BY DEF ServerInv, Inv, TypeOK
<1>1. Threads = {t} BY OneBusy
<1>2. Working(t) BY DEF ServerInv
<1>3. /\ ToDelivered = {u \in Threads : thread[u].pc \in OwesDelivered}
      /\ ToSpend = {u \in Threads : thread[u].pc \in OwesSpent}
      /\ ToBy = {u \in Threads : thread[u].pc \in OwesBy}
      /\ ToCount = {u \in Threads : thread[u].pc \in Counting}
  BY DEF ToDelivered, ToSpend, ToBy, ToCount, Writing, OwesDelivered, OwesSpent, OwesBy, Counting
<1>4. OwesSpent \subseteq Counting BY DEF OwesSpent, OwesDelivered, Counting
<1>5. DeliveredDone =
       IF thread[t].pc \in OwesDelivered
       THEN RaisedBy(delivered, thread[t].backing.lid, 1)
       ELSE delivered
  <2>1. ASSUME NEW l \in LineItems
        PROVE  Cardinality({u \in ToDelivered : thread[u].backing.lid = l})
                 = IF thread[t].pc \in OwesDelivered /\ thread[t].backing.lid = l THEN 1 ELSE 0
    <3>1. PICK S \in SUBSET Threads : S = {u \in ToDelivered : thread[u].backing.lid = l} BY <1>3
    <3>2. t \in S <=> thread[t].pc \in OwesDelivered /\ thread[t].backing.lid = l BY <1>3, <3>1
    <3> QED BY <3>1, <3>2, OneSum
  <2>2. PICK x, v : x = thread[t].backing.lid /\ v = 1 OBVIOUS
  <2>3. CASE thread[t].pc \in OwesDelivered
    <3>1. DeliveredDone = Owed(LineItems, delivered, x, v) BY <2>1, <2>2, <2>3 DEF DeliveredDone, Owed
    <3> QED BY <1>0, <2>2, <2>3, <3>1, OwedIsRaised
  <2>4. CASE thread[t].pc \notin OwesDelivered
    <3>1. DeliveredDone = [k \in LineItems |-> delivered[k] + 0] BY <2>1, <2>4 DEF DeliveredDone
    <3> QED BY <1>0, <2>4, <3>1, OwedNothing
  <2> QED BY <2>3, <2>4
<1>6. SpentDone =
       IF thread[t].pc \in OwesSpent
       THEN RaisedBy(spent, thread[t].backing.lid, Gross(thread[t].backing))
       ELSE spent
  <2> DEFINE f == [u \in Threads |-> Gross(thread[u].backing)]
  <2>1. ASSUME NEW l \in LineItems
        PROVE  SumFunctionOnSet(f, {u \in ToSpend : thread[u].backing.lid = l})
                 = IF thread[t].pc \in OwesSpent /\ thread[t].backing.lid = l
                   THEN Gross(thread[t].backing) ELSE 0
    <3>1. PICK S \in SUBSET Threads : S = {u \in ToSpend : thread[u].backing.lid = l} BY <1>3
    <3>2. t \in S <=> thread[t].pc \in OwesSpent /\ thread[t].backing.lid = l BY <1>3, <3>1
    <3>3. PICK g : g = f OBVIOUS
    <3>4. g[t] = Gross(thread[t].backing) BY <3>3
    <3>5. CASE t \in S
      <4>1. thread[t].pc \in Counting BY <1>4, <3>2, <3>5
      <4>2. Gross(thread[t].backing) \in Nat BY <1>2, <4>1 DEF Working
      <4>3. g[t] \in Int BY <3>4, <4>2
      <4> QED BY <3>1, <3>2, <3>3, <3>4, <3>5, <4>3, OneSum
    <3>6. CASE t \notin S
      <4>1. S = {} BY <1>1, <3>6
      <4> QED BY <3>1, <3>2, <3>6, <4>1, SumEmpty
    <3> QED BY <3>5, <3>6
  <2>2. PICK x, v : x = thread[t].backing.lid /\ v = Gross(thread[t].backing) OBVIOUS
  <2>3. CASE thread[t].pc \in OwesSpent
    <3>1. SpentDone = Owed(LineItems, spent, x, v) BY <2>1, <2>2, <2>3 DEF SpentDone, Owed
    <3> QED BY <1>0, <2>2, <2>3, <3>1, OwedIsRaised
  <2>4. CASE thread[t].pc \notin OwesSpent
    <3>1. SpentDone = [k \in LineItems |-> spent[k] + 0] BY <2>1, <2>4 DEF SpentDone
    <3> QED BY <1>0, <2>4, <3>1, OwedNothing
  <2> QED BY <2>3, <2>4
<1>7. ByDone =
       IF thread[t].pc \in OwesBy
       THEN RaisedBy(deliveredBy, thread[t].backing.entity, 1)
       ELSE deliveredBy
  <2>1. ASSUME NEW e \in Entities \cup {None}
        PROVE  Cardinality({u \in ToBy : thread[u].backing.entity = e})
                 = IF thread[t].pc \in OwesBy /\ thread[t].backing.entity = e THEN 1 ELSE 0
    <3>1. PICK S \in SUBSET Threads : S = {u \in ToBy : thread[u].backing.entity = e} BY <1>3
    <3>2. t \in S <=> thread[t].pc \in OwesBy /\ thread[t].backing.entity = e BY <1>3, <3>1
    <3> QED BY <3>1, <3>2, OneSum
  <2>2. PICK x, v : x = thread[t].backing.entity /\ v = 1 OBVIOUS
  <2>3. CASE thread[t].pc \in OwesBy
    <3>1. ByDone = Owed(Entities \cup {None}, deliveredBy, x, v) BY <2>1, <2>2, <2>3 DEF ByDone, Owed
    <3> QED BY <1>0, <2>2, <2>3, <3>1, OwedIsRaised
  <2>4. CASE thread[t].pc \notin OwesBy
    <3>1. ByDone = [k \in Entities \cup {None} |-> deliveredBy[k] + 0] BY <2>1, <2>4 DEF ByDone
    <3> QED BY <1>0, <2>4, <3>1, OwedNothing
  <2> QED BY <2>3, <2>4
<1>8. Cardinality(ToCount) = IF thread[t].pc \in Counting THEN 1 ELSE 0
  <2>1. PICK S \in SUBSET Threads : S = ToCount BY <1>3
  <2>2. t \in S <=> thread[t].pc \in Counting BY <1>3, <2>1
  <2> QED BY <2>1, <2>2, OneSum
<1>9. SplitsDone = IF thread[t].pc \in Counting THEN Settle(Gross(thread[t].backing)) ELSE periodSplits
  <2>1. CASE thread[t].pc \in Counting
    <3>1. ToCount = {t} BY <1>1, <1>3, <2>1
    <3>2. (CHOOSE u \in {t} : TRUE) = t OBVIOUS
    <3> QED BY <2>1, <3>1, <3>2 DEF SplitsDone
  <2>2. CASE thread[t].pc \notin Counting
    <3>1. ToCount = {} BY <1>1, <1>3, <2>2
    <3> QED BY <2>2, <3>1 DEF SplitsDone
  <2> QED BY <2>1, <2>2
<1> QED BY <1>5, <1>6, <1>7, <1>8, <1>9 DEF MappedTo

LEMMA MappedNext ==
  ASSUME OneHandler, NEW t \in Threads
  PROVE  (ServerInv => MappedTo(t))'
<1>1. ServerInv => MappedTo(t) BY Mapped
<1> QED BY <1>1, PTL

mapped == <<DeliveredDone, SpentDone, ByDone, verifiedCount + Cardinality(ToCount), SplitsDone>>
counters == <<delivered, spent, deliveredBy, verifiedCount, periodSplits>>

\* A handler that owes nothing.
LEMMA Settled ==
  ASSUME OneHandler, NEW t \in Threads, ServerInv, thread[t].pc \notin Counting
  PROVE  mapped = counters
<1>1. MappedTo(t) BY Mapped
<1>2. verifiedCount \in Nat BY DEF ServerInv, Inv, TypeOK
<1>3. thread[t].pc \notin OwesDelivered \cup OwesSpent \cup OwesBy
  BY DEF OwesDelivered, OwesSpent, OwesBy, Counting
<1> QED BY <1>1, <1>2, <1>3 DEF MappedTo, mapped, counters

LEMMA SettledNext ==
  ASSUME OneHandler, NEW t \in Threads
  PROVE  (ServerInv /\ thread[t].pc \notin Counting => mapped = counters)'
<1>1. ServerInv /\ thread[t].pc \notin Counting => mapped = counters BY Settled
<1> QED BY <1>1, PTL

\* Marking the nonce is where the counters, as mapped, are raised.
LEMMA MarkCounts ==
  ASSUME ServerInv, OneHandler, NEW t \in Threads, Mark(t)
  PROVE  LET b == thread[t].backing
         IN  /\ DeliveredDone' = [DeliveredDone EXCEPT ![b.lid] = @ + 1]
             /\ SpentDone' = [SpentDone EXCEPT ![b.lid] = @ + Gross(b)]
             /\ ByDone' = [ByDone EXCEPT ![b.entity] = @ + 1]
             /\ (verifiedCount + Cardinality(ToCount))' = verifiedCount + Cardinality(ToCount) + 1
             /\ SplitsDone' = Settle(Gross(b))
<1>1. /\ ServerInv' /\ thread'[t].pc = "read delivered" /\ thread'[t].backing = thread[t].backing
      /\ thread[t].pc = "mark" /\ UNCHANGED <<delivered, spent, deliveredBy, verifiedCount>>
  BY MarkKeeps DEF Mark, At
<1>2. mapped = counters BY <1>1, Settled DEF Counting
<1>3. MappedTo(t)' BY <1>1, MappedNext
<1>4. /\ thread'[t].pc \in OwesDelivered /\ thread'[t].pc \in OwesSpent
      /\ thread'[t].pc \in OwesBy /\ thread'[t].pc \in Counting
  BY <1>1 DEF OwesDelivered, OwesSpent, OwesBy, Counting
<1>5. PICK b : b = thread[t].backing OBVIOUS
<1>6. /\ DeliveredDone' = RaisedBy(delivered, b.lid, 1) /\ SpentDone' = RaisedBy(spent, b.lid, Gross(b))
      /\ ByDone' = RaisedBy(deliveredBy, b.entity, 1)
      /\ (verifiedCount + Cardinality(ToCount))' = verifiedCount + 1 /\ SplitsDone' = Settle(Gross(b))
  BY <1>1, <1>3, <1>4, <1>5 DEF MappedTo
<1> QED BY <1>2, <1>5, <1>6 DEF mapped, counters, RaisedBy

\* Reading a counter, or writing it, does not change what it is mapped to.
LEMMA ReadStutters ==
  ASSUME ServerInv, ServerInv', OneHandler, NEW t \in Threads,
         ReadDelivered(t) \/ ReadSpent(t) \/ ReadBy(t) \/ ReadCount(t)
  PROVE  mapped' = mapped
<1>1. /\ UNCHANGED <<delivered, spent, deliveredBy, verifiedCount, periodSplits>>
      /\ \E next, value : thread' = [thread EXCEPT ![t].pc = next, ![t].read = value] /\
           \/ thread[t].pc = "read delivered" /\ next = "write delivered"
           \/ thread[t].pc = "read spent" /\ next = "write spent"
           \/ thread[t].pc = "read by" /\ next = "write by"
           \/ thread[t].pc = "read count" /\ next = "write count"
  BY DEF ReadDelivered, ReadSpent, ReadBy, ReadCount, ReadCounter, books, At
<1>2. thread \in [Threads -> Job] BY DEF ServerInv
<1>3. PICK next :
         /\ thread'[t].pc = next /\ thread'[t].backing = thread[t].backing
        /\ \/ thread[t].pc = "read delivered" /\ next = "write delivered"
           \/ thread[t].pc = "read spent" /\ next = "write spent"
           \/ thread[t].pc = "read by" /\ next = "write by"
           \/ thread[t].pc = "read count" /\ next = "write count"
  BY <1>1, <1>2 DEF Job
<1>4. /\ thread[t].pc \in OwesDelivered <=> next \in OwesDelivered
      /\ thread[t].pc \in OwesSpent <=> next \in OwesSpent
      /\ thread[t].pc \in OwesBy <=> next \in OwesBy
      /\ thread[t].pc \in Counting <=> next \in Counting
  BY <1>3 DEF OwesDelivered, OwesSpent, OwesBy, Counting
<1>5. MappedTo(t) /\ MappedTo(t)' BY Mapped, MappedNext
<1>6. PICK b, p : b = thread[t].backing /\ p = thread[t].pc OBVIOUS
<1> QED BY <1>1, <1>3, <1>4, <1>5, <1>6 DEF MappedTo, mapped

LEMMA WriteStutters ==
  ASSUME ServerInv, ServerInv', OneHandler, NEW t \in Threads,
         WriteDelivered(t) \/ WriteSpent(t) \/ WriteBy(t) \/ WriteCount(t)
  PROVE  mapped' = mapped
<1>1. MappedTo(t) /\ MappedTo(t)' BY Mapped, MappedNext
<1>2. thread \in [Threads -> Job] /\ Working(t) /\ verifiedCount \in Nat
  BY DEF ServerInv, Inv, TypeOK
<1>3. PICK b, n : b = thread[t].backing /\ n = thread[t].read OBVIOUS
<1>4. ASSUME WriteDelivered(t) PROVE mapped' = mapped
  <2>1. /\ thread[t].pc = "write delivered" /\ thread' = [thread EXCEPT ![t].pc = "read spent"]
        /\ delivered' = [delivered EXCEPT ![b.lid] = n + 1]
        /\ UNCHANGED <<spent, deliveredBy, verifiedCount, periodSplits>>
    BY <1>3, <1>4 DEF WriteDelivered, Goto, At
  <2>2. n = delivered[b.lid] BY <1>2, <1>3, <2>1 DEF Working
  <2>3. thread'[t].pc = "read spent" /\ thread'[t].backing = b BY <1>2, <1>3, <2>1 DEF Job
  <2>4. delivered' = RaisedBy(delivered, b.lid, 1) BY <2>1, <2>2 DEF RaisedBy
  <2>5. /\ thread[t].pc \in OwesDelivered /\ thread[t].pc \in OwesSpent
        /\ thread[t].pc \in OwesBy /\ thread[t].pc \in Counting
    BY <2>1 DEF OwesDelivered, OwesSpent, OwesBy, Counting
  <2>6. /\ thread'[t].pc \notin OwesDelivered /\ thread'[t].pc \in OwesSpent
        /\ thread'[t].pc \in OwesBy /\ thread'[t].pc \in Counting
    BY <2>3 DEF OwesDelivered, OwesSpent, OwesBy, Counting
  <2>7. /\ DeliveredDone = RaisedBy(delivered, b.lid, 1)
        /\ SpentDone = RaisedBy(spent, b.lid, Gross(b))
        /\ ByDone = RaisedBy(deliveredBy, b.entity, 1)
        /\ (verifiedCount + Cardinality(ToCount)) = verifiedCount + 1
        /\ SplitsDone = Settle(Gross(b))
    BY <1>1, <1>3, <2>5 DEF MappedTo
  <2>8. /\ DeliveredDone' = delivered'
        /\ SpentDone' = RaisedBy(spent', b.lid, Gross(b))
        /\ ByDone' = RaisedBy(deliveredBy', b.entity, 1)
        /\ (verifiedCount + Cardinality(ToCount))' = verifiedCount' + 1
        /\ SplitsDone' = Settle(Gross(b))
    BY <1>1, <2>3, <2>6 DEF MappedTo
  <2> QED BY <2>1, <2>4, <2>7, <2>8 DEF mapped
<1>5. ASSUME WriteSpent(t) PROVE mapped' = mapped
  <2>1. /\ thread[t].pc = "write spent" /\ thread' = [thread EXCEPT ![t].pc = "read by"]
        /\ spent' = [spent EXCEPT ![b.lid] = n + Gross(b)]
        /\ UNCHANGED <<delivered, deliveredBy, verifiedCount, periodSplits>>
    BY <1>3, <1>5 DEF WriteSpent, Goto, At
  <2>2. n = spent[b.lid] BY <1>2, <1>3, <2>1 DEF Working
  <2>3. thread'[t].pc = "read by" /\ thread'[t].backing = b BY <1>2, <1>3, <2>1 DEF Job
  <2>4. spent' = RaisedBy(spent, b.lid, Gross(b)) BY <2>1, <2>2 DEF RaisedBy
  <2>5. /\ thread[t].pc \notin OwesDelivered /\ thread[t].pc \in OwesSpent
        /\ thread[t].pc \in OwesBy /\ thread[t].pc \in Counting
    BY <2>1 DEF OwesDelivered, OwesSpent, OwesBy, Counting
  <2>6. /\ thread'[t].pc \notin OwesDelivered /\ thread'[t].pc \notin OwesSpent
        /\ thread'[t].pc \in OwesBy /\ thread'[t].pc \in Counting
    BY <2>3 DEF OwesDelivered, OwesSpent, OwesBy, Counting
  <2>7. /\ DeliveredDone = delivered
        /\ SpentDone = RaisedBy(spent, b.lid, Gross(b))
        /\ ByDone = RaisedBy(deliveredBy, b.entity, 1)
        /\ (verifiedCount + Cardinality(ToCount)) = verifiedCount + 1
        /\ SplitsDone = Settle(Gross(b))
    BY <1>1, <1>3, <2>5 DEF MappedTo
  <2>8. /\ DeliveredDone' = delivered'
        /\ SpentDone' = spent'
        /\ ByDone' = RaisedBy(deliveredBy', b.entity, 1)
        /\ (verifiedCount + Cardinality(ToCount))' = verifiedCount' + 1
        /\ SplitsDone' = Settle(Gross(b))
    BY <1>1, <2>3, <2>6 DEF MappedTo
  <2> QED BY <2>1, <2>4, <2>7, <2>8 DEF mapped
<1>6. ASSUME WriteBy(t) PROVE mapped' = mapped
  <2>1. /\ thread[t].pc = "write by" /\ thread' = [thread EXCEPT ![t].pc = "read count"]
        /\ deliveredBy' = [deliveredBy EXCEPT ![b.entity] = n + 1]
        /\ UNCHANGED <<delivered, spent, verifiedCount, periodSplits>>
    BY <1>3, <1>6 DEF WriteBy, Goto, At
  <2>2. n = deliveredBy[b.entity] BY <1>2, <1>3, <2>1 DEF Working
  <2>3. thread'[t].pc = "read count" /\ thread'[t].backing = b BY <1>2, <1>3, <2>1 DEF Job
  <2>4. deliveredBy' = RaisedBy(deliveredBy, b.entity, 1) BY <2>1, <2>2 DEF RaisedBy
  <2>5. /\ thread[t].pc \notin OwesDelivered /\ thread[t].pc \notin OwesSpent
        /\ thread[t].pc \in OwesBy /\ thread[t].pc \in Counting
    BY <2>1 DEF OwesDelivered, OwesSpent, OwesBy, Counting
  <2>6. /\ thread'[t].pc \notin OwesDelivered /\ thread'[t].pc \notin OwesSpent
        /\ thread'[t].pc \notin OwesBy /\ thread'[t].pc \in Counting
    BY <2>3 DEF OwesDelivered, OwesSpent, OwesBy, Counting
  <2>7. /\ DeliveredDone = delivered
        /\ SpentDone = spent
        /\ ByDone = RaisedBy(deliveredBy, b.entity, 1)
        /\ (verifiedCount + Cardinality(ToCount)) = verifiedCount + 1
        /\ SplitsDone = Settle(Gross(b))
    BY <1>1, <1>3, <2>5 DEF MappedTo
  <2>8. /\ DeliveredDone' = delivered'
        /\ SpentDone' = spent'
        /\ ByDone' = deliveredBy'
        /\ (verifiedCount + Cardinality(ToCount))' = verifiedCount' + 1
        /\ SplitsDone' = Settle(Gross(b))
    BY <1>1, <2>3, <2>6 DEF MappedTo
  <2> QED BY <2>1, <2>4, <2>7, <2>8 DEF mapped
<1>7. ASSUME WriteCount(t) PROVE mapped' = mapped
  <2>1. /\ thread[t].pc = "write count" /\ thread' = [thread EXCEPT ![t] = Idle]
        /\ verifiedCount' = n + 1 /\ periodSplits' = Settle(Gross(b))
        /\ UNCHANGED <<delivered, spent, deliveredBy>>
    BY <1>3, <1>7 DEF WriteCount, At
  <2>2. n = verifiedCount BY <1>2, <1>3, <2>1 DEF Working
  <2>3. thread'[t].pc = "idle" BY <1>2, <2>1 DEF Idle
  <2>5. /\ thread[t].pc \notin OwesDelivered /\ thread[t].pc \notin OwesSpent
        /\ thread[t].pc \notin OwesBy /\ thread[t].pc \in Counting
    BY <2>1 DEF OwesDelivered, OwesSpent, OwesBy, Counting
  <2>6. /\ thread'[t].pc \notin OwesDelivered /\ thread'[t].pc \notin OwesSpent
        /\ thread'[t].pc \notin OwesBy /\ thread'[t].pc \notin Counting
    BY <2>3 DEF OwesDelivered, OwesSpent, OwesBy, Counting
  <2>7. /\ DeliveredDone = delivered
        /\ SpentDone = spent
        /\ ByDone = deliveredBy
        /\ (verifiedCount + Cardinality(ToCount)) = verifiedCount + 1
        /\ SplitsDone = Settle(Gross(b))
    BY <1>1, <1>3, <2>5 DEF MappedTo
  <2>8. /\ DeliveredDone' = delivered'
        /\ SpentDone' = spent'
        /\ ByDone' = deliveredBy'
        /\ (verifiedCount + Cardinality(ToCount))' = verifiedCount' + 0
        /\ SplitsDone' = periodSplits'
    BY <1>1, <2>3, <2>6 DEF MappedTo
  <2>9. (verifiedCount + Cardinality(ToCount))' = verifiedCount + Cardinality(ToCount)
    <3>0. verifiedCount' = verifiedCount + 1 /\ verifiedCount \in Nat BY <1>2, <2>1, <2>2
    <3>1. verifiedCount' + 0 = verifiedCount + 1 BY ONLY <3>0
    <3> QED BY <3>1, <2>7, <2>8
  <2> QED BY <2>1, <2>7, <2>8, <2>9 DEF mapped
<1> QED BY <1>4, <1>5, <1>6, <1>7
-----------------------------------------------------------------------------
(* The steps of the server as calls of the exchange.                        *)

\* The exchange sees nothing of a step that moves no variable but the counters, and
\* those only as they are not mapped.
LEMMA Stutters ==
  ASSUME mapped' = mapped, UNCHANGED <<quiet, openNonces, spentNonces, log>>
  PROVE  UNCHANGED Atomic!vars
<1>1. /\ DeliveredDone' = DeliveredDone /\ SpentDone' = SpentDone /\ ByDone' = ByDone
      /\ (verifiedCount + Cardinality(ToCount))' = verifiedCount + Cardinality(ToCount)
      /\ SplitsDone' = SplitsDone
  BY DEF mapped
<1> QED BY <1>1 DEF Atomic!vars, Atomic!registry, Atomic!books, quiet, registry

LEMMA SameFault == ASSUME NEW r PROVE Atomic!Fault(r) = Fault(r) /\ Atomic!Backing(r) = Backing(r)
BY DEF Atomic!Fault, Fault, Atomic!ResolveFault, ResolveFault, Atomic!ContentFault, ContentFault,
       Atomic!LocalFault, LocalFault, Atomic!Backing, Backing, Atomic!LocalBacking, LocalBacking,
       Atomic!DeriveLocalNonce, DeriveLocalNonce, Atomic!Reached, Reached, Atomic!ShareFor, ShareFor

\* A receipt turned away, by the replay test or by the checks.
LEMMA RejectMaps ==
  ASSUME mapped' = mapped, Room, NEW r, NEW t, Fault(r) # "ok", RejectWith(t, r, Fault(r)),
         UNCHANGED <<registry, bundles, allocations, granted, decisions, openNonces, books, holdout>>
  PROVE  Atomic!Reject(r) \/ UNCHANGED Atomic!vars
<1>1. CASE Fault(r) = "raises"
  <2>1. UNCHANGED <<quiet, openNonces, spentNonces, log>> BY <1>1 DEF RejectWith, quiet, books
  <2> QED BY <2>1, Stutters
<1>2. CASE Fault(r) # "raises"
  <2>1. rejections' = Append(rejections, [why |-> Fault(r), receipt |-> r]) BY <1>2 DEF RejectWith
  <2>2. /\ DeliveredDone' = DeliveredDone /\ SpentDone' = SpentDone /\ ByDone' = ByDone
        /\ (verifiedCount + Cardinality(ToCount))' = verifiedCount + Cardinality(ToCount)
        /\ SplitsDone' = SplitsDone
    BY DEF mapped
  <2>3. Atomic!Fault(r) = Fault(r) BY SameFault
  <2>4. Atomic!Room BY DEF Room, Atomic!Room
  <2> QED BY <1>2, <2>1, <2>2, <2>3, <2>4
          DEF Atomic!Reject, Atomic!registry, Atomic!books, registry, books
<1> QED BY <1>1, <1>2

LEMMA MarkMaps ==
  ASSUME ServerInv, OneHandler, NEW t \in Threads, Mark(t)
  PROVE  thread[t].receipt \in Receipts /\ Atomic!Accept(thread[t].receipt)
<1>1. PICK r, b : r = thread[t].receipt /\ b = thread[t].backing OBVIOUS
<1>2. r \in Receipts /\ Room /\ Marked(r) /\ b = Backing(r) BY <1>1, MarkKeeps
<1>3. /\ DeliveredDone' = [DeliveredDone EXCEPT ![b.lid] = @ + 1]
      /\ SpentDone' = [SpentDone EXCEPT ![b.lid] = @ + Gross(b)]
      /\ ByDone' = [ByDone EXCEPT ![b.entity] = @ + 1]
      /\ (verifiedCount + Cardinality(ToCount))' = verifiedCount + Cardinality(ToCount) + 1
      /\ SplitsDone' = Settle(Gross(b))
  BY <1>1, MarkCounts
<1>4. /\ Atomic!Fault(r) = "ok" /\ Atomic!Backing(r) = b /\ Atomic!Room
      /\ Atomic!Gross(b) = Gross(b) /\ Atomic!Settle(Gross(b)) = Settle(Gross(b))
  BY <1>2, SameFault DEF Marked, Room, Atomic!Room, Gross, Atomic!Gross, Settle, Atomic!Settle
<1>5. /\ spentNonces' = spentNonces \cup {r.nonce} /\ openNonces' = openNonces \ {r.nonce}
      /\ log' = Append(log, [receipt |-> r, lid |-> b.lid, entity |-> b.entity,
                             gross |-> Gross(b), splits |-> Settle(Gross(b))])
  BY <1>2 DEF Marked, Paid
<1>6. Atomic!Bill(r, b) BY <1>3, <1>4, <1>5 DEF Atomic!Bill
<1>7. UNCHANGED quiet BY DEF Mark
<1> QED BY <1>1, <1>2, <1>4, <1>6, <1>7 DEF Atomic!Accept, Atomic!registry, quiet, registry

\* A handler that owes nothing before a step, nor after it.
LEMMA Waiting ==
  ASSUME ServerInv, OneHandler, NEW t \in Threads, ServerInv',
         thread[t].pc \notin Counting, thread'[t].pc \notin Counting
  PROVE  mapped = counters /\ mapped' = counters'
<1>1. mapped = counters BY Settled
<1>2. (ServerInv /\ thread[t].pc \notin Counting => mapped = counters)' BY SettledNext
<1> QED BY <1>1, <1>2

\* The replay test, and then the checks: a receipt is turned away, or nothing shows.
LEMMA ReceiveMaps ==
  ASSUME ServerInv, OneHandler, NEW t \in Threads, NEW r \in Receipts, Receive(t, r)
  PROVE  /\ Atomic!Reject(r) \/ UNCHANGED Atomic!vars
         /\ mapped' = mapped /\ UNCHANGED <<spentNonces, log>>
<1>0. ServerInv' BY ReceiveKeeps
<1>1. /\ thread[t].pc = "idle" /\ thread \in [Threads -> Job]
      /\ UNCHANGED <<registry, bundles, allocations, granted, decisions, openNonces, books, holdout>>
  BY DEF Receive, At, ServerInv
<1>2. Room
  <2>1. Cardinality(Busy) = 0 BY OneBusy, FS_EmptySet DEF Receive
  <2>2. log \in Seq(LogEntry) BY DEF ServerInv, Inv, TypeOK
  <2>3. Len(log) + Len(rejections) + 0 < MaxReceipts BY <2>1 DEF Receive
  <2> QED BY <2>3 DEF Room
<1>3. counters' = counters BY <1>1 DEF counters, books
<1>4. CASE ReplayTest(r) # "ok"
  <2>1. Fault(r) = ReplayTest(r) BY <1>4, FaultInTwo
  <2>2. RejectWith(t, r, Fault(r)) BY <1>4, <2>1 DEF Receive
  <2>3. thread'[t].pc = "idle" BY <1>1, <2>2, Rejects
  <2>4. mapped' = mapped BY <1>0, <1>1, <1>3, <2>3, Waiting DEF Counting
  <2> QED BY <1>1, <1>2, <1>4, <2>1, <2>2, <2>4, RejectMaps DEF books
<1>5. CASE ReplayTest(r) = "ok"
  <2>1. /\ thread' = [thread EXCEPT ![t] = [Idle EXCEPT !.pc = "check", !.receipt = r]]
        /\ UNCHANGED rejections
    BY <1>5 DEF Receive
  <2>2. thread'[t].pc = "check" BY <1>1, <2>1 DEF Idle
  <2>3. mapped' = mapped BY <1>0, <1>1, <1>3, <2>2, Waiting DEF Counting
  <2>4. UNCHANGED <<quiet, openNonces, spentNonces, log>> BY <1>1, <2>1 DEF quiet, books
  <2> QED BY <2>3, <2>4, Stutters
<1> QED BY <1>4, <1>5

LEMMA CheckMaps ==
  ASSUME ServerInv, OneHandler, NEW t \in Threads, Check(t)
  PROVE  /\ thread[t].receipt \in Receipts
         /\ Atomic!Reject(thread[t].receipt) \/ UNCHANGED Atomic!vars
         /\ mapped' = mapped /\ UNCHANGED <<spentNonces, log>>
<1>0. ServerInv' BY CheckKeeps
<1>1. /\ thread[t].pc = "check" /\ thread \in [Threads -> Job] /\ Working(t)
      /\ UNCHANGED <<registry, bundles, allocations, granted, decisions, openNonces, books, holdout>>
  BY DEF Check, At, ServerInv
<1>2. PICK r : r = thread[t].receipt OBVIOUS
<1>3. r \in Receipts /\ Room /\ ReplayTest(r) = "ok" BY <1>1, <1>2 DEF Working
<1>4. Fault(r) = CheckFault(r) BY <1>3, FaultInTwo
<1>5. counters' = counters BY <1>1 DEF counters, books
<1>6. CASE Fault(r) # "ok"
  <2>1. RejectWith(t, r, Fault(r)) BY <1>2, <1>4, <1>6 DEF Check, CheckFault
  <2>2. thread'[t].pc = "idle" BY <1>1, <2>1, Rejects
  <2>3. mapped' = mapped BY <1>0, <1>1, <1>5, <2>2, Waiting DEF Counting
  <2> QED BY <1>1, <1>2, <1>3, <1>6, <2>1, <2>3, RejectMaps DEF books
<1>7. CASE Fault(r) = "ok"
  <2>1. PICK b : b = Backing(r) OBVIOUS
  <2>2. /\ thread' = [thread EXCEPT ![t].pc = "mark", ![t].backing = b] /\ UNCHANGED rejections
    BY <1>2, <1>4, <1>7, <2>1 DEF Check, CheckFault
  <2>3. thread'[t].pc = "mark" BY <1>1, <2>2 DEF Job
  <2>4. mapped' = mapped BY <1>0, <1>1, <1>5, <2>3, Waiting DEF Counting
  <2>5. UNCHANGED <<quiet, openNonces, spentNonces, log>> BY <1>1, <2>2 DEF quiet, books
  <2> QED BY <1>2, <1>3, <2>4, <2>5, Stutters
<1> QED BY <1>6, <1>7

\* The calls that are not split.
LEMMA RegistryMaps ==
  ASSUME mapped = counters, mapped' = counters'
  PROVE  /\ \A e, t : Enrol(e, t) => Atomic!Enrol(e, t)
         /\ \A e, t : VerifyAccount(e, t) => Atomic!VerifyAccount(e, t)
         /\ \A l : AddLineItem(l) => Atomic!AddLineItem(l)
         /\ \A l : WithdrawLineItem(l) => Atomic!WithdrawLineItem(l)
         /\ \A l, c : ReplaceCreative(l, c) => Atomic!ReplaceCreative(l, c)
         /\ \A b, f : IssueBundle(b, f) => Atomic!IssueBundle(b, f)
<1>1. UNCHANGED books => UNCHANGED Atomic!books BY DEF mapped, counters, books, Atomic!books
<1>2. ASSUME NEW e, NEW t, SetTier(e, t) PROVE Atomic!SetTier(e, t)
  BY <1>2 DEF SetTier, Atomic!SetTier, Contains, Atomic!Contains
<1>3. ASSUME NEW b, NEW f, IssueBundle(b, f) PROVE Atomic!IssueBundle(b, f)
  BY <1>1, <1>3 DEF IssueBundle, Atomic!IssueBundle, registry, Atomic!registry, Updated, Atomic!Updated,
                    Allows, Atomic!Allows
<1>4. /\ \A e, t : Enrol(e, t) => Atomic!Enrol(e, t)
      /\ \A e, t : VerifyAccount(e, t) => Atomic!VerifyAccount(e, t)
  BY <1>1, <1>2 DEF Enrol, Atomic!Enrol, VerifyAccount, Atomic!VerifyAccount
<1>5. /\ \A l : AddLineItem(l) => Atomic!AddLineItem(l)
      /\ \A l : WithdrawLineItem(l) => Atomic!WithdrawLineItem(l)
      /\ \A l, c : ReplaceCreative(l, c) => Atomic!ReplaceCreative(l, c)
  BY <1>1 DEF AddLineItem, Atomic!AddLineItem, WithdrawLineItem, Atomic!WithdrawLineItem,
              ReplaceCreative, Atomic!ReplaceCreative
<1> QED BY <1>3, <1>4, <1>5

\* The instance computes with the same operators.
LEMMA SameExtremes == ASSUME NEW S PROVE Atomic!Max(S) = Max(S) /\ Atomic!Min(S) = Min(S)
BY DEF Atomic!Max, Max, Atomic!Min, Min

LEMMA SameSums ==
  /\ \A f, S : Atomic!SumFunctionOnSet(f, S) = SumFunctionOnSet(f, S)
  /\ \A f : Atomic!SumOf(f) = SumOf(f)
<1>1. ASSUME NEW f, NEW S PROVE Atomic!SumFunctionOnSet(f, S) = SumFunctionOnSet(f, S)
  BY Zenon DEF Atomic!SumFunctionOnSet, SumFunctionOnSet, Atomic!FoldFunctionOnSet,
        FoldFunctionOnSet, Atomic!MapThenFoldSet, MapThenFoldSet
<1> QED BY <1>1 DEF Atomic!SumOf, SumOf

LEMMA SameTrim ==
  ASSUME NEW slices, NEW order, NEW total, NEW keep
  PROVE  Atomic!Trim(slices, order, total, keep) = Trim(slices, order, total, keep)
<1>1. ASSUME NEW e, NEW f PROVE Atomic!Earlier(slices, order, e, f) <=> Earlier(slices, order, e, f)
  BY DEF Atomic!Earlier, Earlier
<1> QED BY <1>1, SameExtremes, SameSums, Zenon DEF Atomic!Trim, Trim

LEMMA SameProportional ==
  ASSUME NEW nodes, NEW total
  PROVE  Atomic!Proportional(nodes, total) = Proportional(nodes, total)
<1>1. \A n : Atomic!Weight(n) = Weight(n) BY SameExtremes DEF Atomic!Weight, Weight
<1>2. \A n, f : Atomic!Times(n, f) = Times(n, f) BY DEF Atomic!Times, Times
<1> QED BY <1>1, <1>2, SameExtremes, SameSums, Zenon DEF Atomic!Proportional, Proportional

LEMMA SameAllocate ==
  ASSUME NEW nodes, NEW order, NEW remaining, NEW price, NEW fraction
  PROVE  Atomic!Allocate(nodes, order, remaining, price, fraction)
           = Allocate(nodes, order, remaining, price, fraction)
<1>1. \A n, f : Atomic!Times(n, f) = Times(n, f) BY DEF Atomic!Times, Times
<1>2. Atomic!TotalImpressions(remaining, price, fraction) = TotalImpressions(remaining, price, fraction)
  <2>1. Atomic!Max({1, price}) = Max({1, price}) BY SameExtremes
  <2> QED BY <1>1, <2>1 DEF Atomic!TotalImpressions, TotalImpressions
<1>3. ASSUME NEW n, NEW o, NEW x PROVE Atomic!Slices(n, o, x) = Slices(n, o, x)
  <2>1. PICK p : p = Proportional(n, x) OBVIOUS
  <2>2. PICK ramped : ramped = Trim(p, o, x, MinSlice) OBVIOUS
  <2>3. PICK trimmed : trimmed = Trim(ramped, o, x, 0) OBVIOUS
  <2>4. PICK sum : sum = SumOf(ramped) OBVIOUS
  <2>5. /\ Atomic!Proportional(n, x) = p /\ Atomic!Trim(p, o, x, MinSlice) = ramped
        /\ Atomic!Trim(ramped, o, x, 0) = trimmed /\ Atomic!SumOf(ramped) = sum
    BY <2>1, <2>2, <2>3, <2>4, SameTrim, SameProportional, SameSums
  <2> QED BY <2>1, <2>2, <2>3, <2>4, <2>5 DEF Atomic!Slices, Slices
<1> QED BY <1>2, <1>3, Zenon DEF Atomic!Allocate, Allocate, Atomic!NoSlices, NoSlices

LEMMA AllocationMaps ==
  ASSUME mapped = counters, mapped' = counters', NEW b, NEW e, IssueAllocation(b, e)
  PROVE  Atomic!IssueAllocation(b, e)
<1>1. UNCHANGED Atomic!books /\ SpentDone = spent /\ ByDone = deliveredBy
  BY DEF IssueAllocation, mapped, counters, books, Atomic!books
<1>2. \A l : Atomic!Remaining(l) = Remaining(l) /\ Atomic!ExpectedPrice(l) = ExpectedPrice(l)
  BY <1>1 DEF Atomic!Remaining, Remaining, Atomic!ExpectedPrice, ExpectedPrice
<1>3. \A l : Atomic!SlicesOf(l, e) = SlicesOf(l, e)
  BY <1>1, <1>2, SameAllocate, Zenon DEF Atomic!SlicesOf, SlicesOf, Atomic!ToSet, ToSet
<1>4. Atomic!Budgeted(b) = Budgeted(b) BY DEF Atomic!Budgeted, Budgeted
<1>5. \A s : Atomic!Record(b, s) <=> Record(b, s)
  BY DEF Atomic!Record, Record, Atomic!Updated, Updated, Atomic!Entries, Entries
<1> QED BY <1>1, <1>3, <1>4, <1>5, Zenon DEF Atomic!IssueAllocation, IssueAllocation, Atomic!registry, registry

LEMMA DecideMaps ==
  ASSUME mapped = counters, mapped' = counters', NEW request, Decide(request)
  PROVE  Atomic!Decide(request)
<1>1. UNCHANGED Atomic!books /\ DeliveredDone = delivered
  BY DEF Decide, mapped, counters, books, Atomic!books
<1>2. \A p : Atomic!FloorOf(p) = FloorOf(p) /\ Atomic!BidsFor(p) = BidsFor(p)
  BY <1>1 DEF Atomic!FloorOf, FloorOf, Atomic!BidsFor, BidsFor, Atomic!Bids, Bids, Atomic!Reached, Reached
<1>3. \A S : Atomic!Winner(S) = Winner(S) BY DEF Atomic!Winner, Winner, Atomic!Beats, Beats
<1>4. \A S : Atomic!Highest(S) = Highest(S) BY SameExtremes DEF Atomic!Highest, Highest
<1>5. \A S, f : Atomic!ClearingPrice(S, f) = ClearingPrice(S, f)
  BY <1>3, <1>4, SameExtremes, Zenon DEF Atomic!ClearingPrice, ClearingPrice
<1>6. \A p : Atomic!OpenEntry(request, p) = OpenEntry(request, p)
  BY <1>2, <1>3, <1>4, <1>5, Zenon DEF Atomic!OpenEntry, OpenEntry
<1>7. Atomic!Filled(request) = Filled(request) BY <1>2, Zenon DEF Atomic!Filled, Filled
<1>8. \A n, i : Atomic!HostedNonce(n, i) = HostedNonce(n, i) BY DEF Atomic!HostedNonce, HostedNonce
<1> QED BY <1>1, <1>6, <1>7, <1>8, Zenon DEF Atomic!Decide, Decide, Atomic!registry, registry

\* Together: every call, the first state and every step.
LEMMA OtherMaps ==
  ASSUME ServerInv, OneHandler, OtherCall
  PROVE  Atomic!Calls
<1>1. PICK t \in Threads : At(t, "idle") BY DEF OtherCall, Busy
<1>2. ServerInv' /\ UNCHANGED thread /\ Calls BY OtherKeeps DEF OtherCall
<1>3. thread[t].pc = "idle" /\ thread'[t].pc = "idle" BY <1>1, <1>2 DEF At
<1>4. mapped = counters /\ mapped' = counters' BY <1>2, <1>3, Waiting DEF Counting
<1> QED BY <1>2, <1>4, RegistryMaps, AllocationMaps, DecideMaps DEF Calls, Atomic!Calls

LEMMA StartMaps ==
  ASSUME OneHandler, ServerInit
  PROVE  Atomic!Init
<1>1. ServerInv BY ServerStart
<1>2. PICK t \in Threads : thread[t] = Idle BY DEF OneHandler, ServerInit
<1>3. thread[t].pc = "idle" BY <1>2 DEF Idle
<1>4. mapped = counters BY <1>1, <1>3, Settled DEF Counting
<1> QED BY <1>4 DEF mapped, counters, ServerInit, Init, Atomic!Init, EmptyMap, Atomic!EmptyMap

LEMMA StepMaps ==
  ASSUME ServerInv, OneHandler, [ServerNext]_allVars
  PROVE  [Atomic!Next]_(Atomic!vars)
<1>1. CASE UNCHANGED allVars
  <2>1. UNCHANGED <<vars, thread, registry, books>> BY <1>1 DEF allVars, vars
  <2>2. mapped' = mapped
    BY <2>1 DEF mapped, DeliveredDone, SpentDone, ByDone, SplitsDone, ToCount, ToBy, ToSpend, ToDelivered,
                Writing, books
  <2> QED BY <2>1, <2>2, Stutters DEF vars, quiet, books
<1>2. CASE OtherCall BY <1>2, OtherMaps DEF Atomic!Next
<1>3. ASSUME NEW t \in Threads, NEW r \in Receipts, Receive(t, r)
      PROVE  Atomic!Next \/ UNCHANGED Atomic!vars
  BY <1>3, ReceiveMaps DEF Atomic!Next, Atomic!VerifyReceipt
<1>4. ASSUME NEW t \in Threads, Check(t) PROVE Atomic!Next \/ UNCHANGED Atomic!vars
  BY <1>4, CheckMaps DEF Atomic!Next, Atomic!VerifyReceipt
<1>5. ASSUME NEW t \in Threads, Mark(t) PROVE Atomic!Next
  BY <1>5, MarkMaps DEF Atomic!Next, Atomic!VerifyReceipt
<1>6. ASSUME NEW t \in Threads, ReadDelivered(t) \/ ReadSpent(t) \/ ReadBy(t) \/ ReadCount(t)
      PROVE  UNCHANGED Atomic!vars
  <2>1. mapped' = mapped BY <1>6, ReadKeeps, ReadStutters
  <2>2. UNCHANGED <<quiet, openNonces, spentNonces, log>>
    BY <1>6 DEF ReadDelivered, ReadSpent, ReadBy, ReadCount, ReadCounter, books
  <2> QED BY <2>1, <2>2, Stutters
<1>7. ASSUME NEW t \in Threads, WriteDelivered(t) \/ WriteSpent(t) \/ WriteBy(t) \/ WriteCount(t)
      PROVE  UNCHANGED Atomic!vars
  <2>1. mapped' = mapped BY <1>7, WriteKeeps, WriteStutters
  <2>2. UNCHANGED <<quiet, openNonces, spentNonces, log>>
    BY <1>7 DEF WriteDelivered, WriteSpent, WriteBy, WriteCount
  <2> QED BY <2>1, <2>2, Stutters
<1> QED BY <1>1, <1>2, <1>3, <1>4, <1>5, <1>6, <1>7 DEF ServerNext

\* exchange.py: "Single-threaded and in-memory": while the server has one handler
\* thread, reading and writing its counters one by one shows to nobody, and every
\* behaviour of the split calls is a behaviour of the atomic exchange.
THEOREM OneHandlerIsAtomic == OneHandler => (ServerSpec => ImplementsExchange)
<1> SUFFICES ASSUME OneHandler PROVE ServerSpec => ImplementsExchange OBVIOUS
<1>1. ServerInit => ServerInv BY ServerStart
<1>2. ServerInv /\ [ServerNext]_allVars => ServerInv' BY ServerStep
<1>3. ServerInit => Atomic!Init BY StartMaps
<1>4. ServerInv /\ [ServerNext]_allVars => [Atomic!Next]_(Atomic!vars) BY StepMaps
<1> QED BY <1>1, <1>2, <1>3, <1>4, PTL DEF ServerSpec, ImplementsExchange, Atomic!Spec

\* Between the requests of one handler the counters count what was paid, and
\* nothing was paid twice.
ServerBooks ==
  /\ Match(DeliveredDone, SpentDone, ByDone, verifiedCount + Cardinality(ToCount))
  /\ IsFiniteSet(spentNonces) /\ BilledOnce

LEMMA BooksStart == ASSUME OneHandler, ServerInit PROVE ServerBooks
<1>1. /\ DOMAIN log = {} /\ Len(log) = 0 /\ spentNonces = {} BY DEF ServerInit, Init
<1>2. ServerInv /\ mapped = counters
  <2>1. PICK t \in Threads : thread[t] = Idle BY DEF OneHandler, ServerInit
  <2>2. thread[t].pc = "idle" BY <2>1 DEF Idle
  <2> QED BY <2>2, ServerStart, Settled DEF Counting
<1>3. BooksMatchLog /\ IsFiniteSet(spentNonces) BY BooksInit DEF ServerInit
<1> QED BY <1>1, <1>2, <1>3 DEF ServerBooks, mapped, counters, BooksMatchLog, Match, BilledOnce

LEMMA BooksStep ==
  ASSUME ServerInv, ServerBooks, OneHandler, [ServerNext]_allVars
  PROVE  ServerBooks'
<1>1. CASE mapped' = mapped /\ UNCHANGED <<spentNonces, log>>
  BY <1>1 DEF ServerBooks, mapped, Match, Count, GrossOf, BilledOnce
<1>2. ASSUME NEW t \in Threads, Mark(t) PROVE ServerBooks'
  <2>1. PICK r, b, d, s, y, v :
          /\ r = thread[t].receipt /\ b = thread[t].backing /\ d = DeliveredDone /\ s = SpentDone
          /\ y = ByDone /\ v = verifiedCount + Cardinality(ToCount)
    OBVIOUS
  <2>2. r \in Receipts /\ Marked(r) /\ b = Backing(r) /\ thread[t].pc = "mark"
    BY <1>2, <2>1, MarkKeeps DEF Mark, At
  <2>3. mapped = counters BY <2>2, Settled DEF Counting
  <2>4. d \in [LineItems -> Nat] /\ s \in [LineItems -> Nat] /\ y \in [Entities \cup {None} -> Nat]
    BY <2>1, <2>3 DEF mapped, counters, ServerInv, Inv, TypeOK
  <2>5. PICK d1, s1, y1, v1 :
          /\ d1 = RaisedBy(d, b.lid, 1) /\ s1 = RaisedBy(s, b.lid, Gross(b))
          /\ y1 = RaisedBy(y, b.entity, 1) /\ v1 = v + 1
    OBVIOUS
  <2>6. Match(d1, s1, y1, v1)' /\ IsFiniteSet(spentNonces')
    BY <2>1, <2>2, <2>4, <2>5, MarkBooks DEF ServerInv, ServerBooks
  <2>7. /\ DeliveredDone' = d1 /\ SpentDone' = s1 /\ ByDone' = y1
        /\ (verifiedCount + Cardinality(ToCount))' = v1
    BY <1>2, <2>1, <2>5, MarkCounts DEF RaisedBy
  <2>8. BilledOnce' BY <2>2, MarkOnce DEF ServerInv, ServerBooks
  <2> QED BY <2>6, <2>7, <2>8 DEF ServerBooks, Match
<1>3. CASE UNCHANGED allVars
  BY <1>1, <1>3 DEF allVars, vars, books, mapped, DeliveredDone, SpentDone, ByDone, SplitsDone,
                    ToCount, ToBy, ToSpend, ToDelivered, Writing
<1>4. CASE OtherCall
  <2>1. PICK t \in Threads : At(t, "idle") BY <1>4 DEF OtherCall, Busy
  <2>2. ServerInv' /\ UNCHANGED thread /\ Calls BY <1>4, OtherKeeps DEF OtherCall
  <2>3. mapped = counters /\ mapped' = counters' BY <2>1, <2>2, Waiting DEF At, Counting
  <2>4. UNCHANGED books
    BY <2>2 DEF Calls, Enrol, VerifyAccount, AddLineItem, WithdrawLineItem, ReplaceCreative,
                IssueBundle, IssueAllocation, Decide
  <2> QED BY <1>1, <2>3, <2>4 DEF counters, books
<1>5. ASSUME NEW t \in Threads, NEW r \in Receipts, Receive(t, r) PROVE ServerBooks'
  BY <1>1, <1>5, ReceiveMaps
<1>6. ASSUME NEW t \in Threads, Check(t) PROVE ServerBooks' BY <1>1, <1>6, CheckMaps
<1>7. ASSUME NEW t \in Threads, ReadDelivered(t) \/ ReadSpent(t) \/ ReadBy(t) \/ ReadCount(t)
      PROVE  ServerBooks'
  <2>1. UNCHANGED <<spentNonces, log>>
    BY <1>7 DEF ReadDelivered, ReadSpent, ReadBy, ReadCount, ReadCounter, books
  <2> QED BY <1>1, <1>7, <2>1, ReadKeeps, ReadStutters
<1>8. ASSUME NEW t \in Threads, WriteDelivered(t) \/ WriteSpent(t) \/ WriteBy(t) \/ WriteCount(t)
      PROVE  ServerBooks'
  <2>1. UNCHANGED <<spentNonces, log>>
    BY <1>8 DEF WriteDelivered, WriteSpent, WriteBy, WriteCount
  <2> QED BY <1>1, <1>8, <2>1, WriteKeeps, WriteStutters
<1> QED BY <1>2, <1>3, <1>4, <1>5, <1>6, <1>7, <1>8 DEF ServerNext

LEMMA ServerInvariant == OneHandler => (ServerSpec => [](ServerInv /\ ServerBooks))
<1> SUFFICES ASSUME OneHandler PROVE ServerSpec => [](ServerInv /\ ServerBooks) OBVIOUS
<1>1. ServerInit => ServerInv /\ ServerBooks BY ServerStart, BooksStart
<1>2. ServerInv /\ ServerBooks /\ [ServerNext]_allVars => (ServerInv /\ ServerBooks)'
  BY ServerStep, BooksStep
<1> QED BY <1>1, <1>2, PTL DEF ServerSpec

\* What two threads of server.py may break, one cannot: no nonce is billed twice.
THEOREM OneHandlerBillsOnce == OneHandler => (ServerSpec => []BilledOnceAcrossThreads)
<1> SUFFICES ASSUME OneHandler PROVE ServerSpec => []BilledOnceAcrossThreads OBVIOUS
<1>1. ServerBooks => BilledOnceAcrossThreads
  BY DEF ServerBooks, BilledOnce, BilledOnceAcrossThreads
<1> QED BY <1>1, ServerInvariant, PTL

\* Nor is a counter that _bill wrote lost: between requests the verified count and
\* the spend are those of the log.
THEOREM OneHandlerCountsAll == OneHandler => (ServerSpec => []CountersComplete)
<1> SUFFICES ASSUME OneHandler PROVE ServerSpec => []CountersComplete OBVIOUS
<1>1. ServerInv /\ ServerBooks => CountersComplete
  <2> SUFFICES ASSUME ServerInv, ServerBooks, Busy = {}
               PROVE  verifiedCount = Len(log) /\ \A l \in LineItems : spent[l] = GrossOf(l)
    BY DEF CountersComplete
  <2>1. PICK t \in Threads : TRUE BY DEF OneHandler
  <2>2. thread[t].pc = "idle" BY <2>1 DEF Busy, At
  <2>3. mapped = counters BY <2>2, Settled DEF Counting
  <2> QED BY <2>3 DEF mapped, counters, ServerBooks, Match
<1> QED BY <1>1, ServerInvariant, PTL
=============================================================================
