------------------------------ MODULE Exchange ------------------------------
(***************************************************************************)
(* The exchange, uap/exchange.py, as the single-threaded in-memory object  *)
(* server.py documents: each method of class Exchange is one action.       *)
(*                                                                         *)
(* A nonce is a 4-tuple.  A derived one is <<bundle, entity, line item,    *)
(* index>> (the hash of nonce.py is injective on them); an issued one is   *)
(* <<None, None, n, i>> for placement i of the n-th request of the served  *)
(* arm (secrets.token_hex never repeats).                                  *)
(***************************************************************************)
EXTENDS Auction, Pacing, Split, SequencesExt

CONSTANTS
  LineItems,       \* line item ids, numbers
  Item,            \* [LineItems -> [ecpm, cpm, budget, share, format]]
  Entities,        \* supply entities; each signs with one key, named alike
  BundleIds, Formats, Creatives, Answers, Tiers,
  Requests,        \* the AdRequests that may arrive
  Receipts,        \* the receipts that may be uploaded
  Floor,           \* floor_cpm_micros
  MaxBid,          \* no bid is larger: a finite list of items has a largest
  PeriodFraction,  \* period_fraction of issue_allocation, 1/24 by default
  HoldoutIds,      \* the request ids _is_holdout selects
  MaxPlacements, MaxRequests, MaxReceipts   \* bounds of the model

(***************************************************************************)
(* A receipt, as far as verify_receipt tells receipts apart: `attested` is *)
(* the three integrity flags and a well-formed digest, `view` what the     *)
(* viewability block amounts to ("overclaimed" fails meets_mrc, which      *)
(* covers delivered_only claims of viewability too), `late` that           *)
(* rendered_at is after the bundle's expiry, `trace` the set of winners    *)
(* and the highest losing eCPM of the auction trace.                       *)
(***************************************************************************)
Views == {"unrendered", "rendered", "viewable", "overclaimed"}
LocalDecision == [bundle : BundleIds \cup {None}, lid : LineItems, index : Int]
TraceSummary == [won : SUBSET LineItems, lost : Nat]
Nonce == (BundleIds \cup {None}) \X (Entities \cup {None}) \X Nat \X Nat
Receipt == [key : Entities, nonce : Nonce, local : LocalDecision \cup {None},
            creative : Creatives, shown : Answers, attested : BOOLEAN, view : Views,
            tier : Nat, late : BOOLEAN, trace : TraceSummary \cup {None}]
Request == [rid : STRING, entity : Entities \cup {None}, answer : Answers \cup {None},
            sensitive : BOOLEAN,
            placements : Seq([relevant : SUBSET LineItems, floor : Nat])]

\* What _open_nonces holds for a placement (committed_digest is never empty).
Entry == [answer : Answers, lid : LineItems, creative : Creatives, price : Nat,
          entity : Entities \cup {None}, trace : TraceSummary]

ASSUME ExchangeAssumption ==
  /\ LineItems \subseteq Nat
  /\ Item \in [LineItems -> [ecpm : 0..MaxBid, cpm : Nat \cup {None}, budget : Nat \cup {None},
                             share : Nat \cup {None}, format : Formats]]
  /\ Floor \in Nat /\ MaxBid \in Nat /\ PeriodFraction \in Nat \X (Nat \ {0})
  /\ Requests \subseteq Request /\ Receipts \subseteq Receipt
  /\ MaxPlacements \in Nat /\ \A q \in Requests : Len(q.placements) <= MaxPlacements
  /\ None \notin BundleIds \cup Entities \cup Answers \cup LineItems \cup Entry

VARIABLES
  enrolled,     \* the keys of `enrolled`, in insertion order
  tier,         \* its values
  keys,         \* entities whose key is in supply_keys and _kid_entity
  items,        \* line_items
  creative,     \* the digest of the first creative of each (live) line item
  bundles,      \* _bundles: bundle id -> [items, sent], `sent` being the
                \* creatives in the copy of the bundle that nodes received
  allocations,  \* _allocations: <<bundle, entity, line item>> -> slice
  granted,      \* every slice ever signed for a node (the responses)
  decisions,    \* for each request of the served arm (_served_digests), what
                \* _open_nonces was given for each placement, None if unfilled
  openNonces,   \* the keys of _open_nonces
  spentNonces,  \* _spent_nonces
  log,          \* _receipt_log, each receipt with its verdict
  rejections,   \* _rejections, each reason with its receipt
  delivered, spent, deliveredBy, verifiedCount, periodSplits,
  holdout       \* the number of _holdout_digests

registry == <<enrolled, tier, keys, items, creative>>
books == <<spentNonces, log, delivered, spent, deliveredBy, verifiedCount, periodSplits>>
vars == <<registry, bundles, allocations, granted, decisions, openNonces, books,
          rejections, holdout>>

EmptyMap == [x \in {} |-> 0]

\* dict.update
Updated(dict, new) ==
  [k \in (DOMAIN dict) \cup (DOMAIN new) |-> IF k \in DOMAIN new THEN new[k] ELSE dict[k]]

Init ==
  /\ enrolled = <<>> /\ tier = [e \in Entities |-> 0] /\ keys = {}
  /\ items = {} /\ creative \in [LineItems -> Creatives]
  /\ bundles = EmptyMap /\ allocations = EmptyMap /\ granted = {}
  /\ decisions = <<>> /\ openNonces = {} /\ spentNonces = {}
  /\ log = <<>> /\ rejections = <<>>
  /\ delivered = [l \in LineItems |-> 0] /\ spent = [l \in LineItems |-> 0]
  /\ deliveredBy = [e \in Entities \cup {None} |-> 0]
  /\ verifiedCount = 0 /\ periodSplits = <<>>
  /\ holdout = 0

-----------------------------------------------------------------------------
(* Registration.                                                            *)

SetTier(e, t) ==
  /\ enrolled' = IF Contains(enrolled, e) THEN enrolled ELSE Append(enrolled, e)
  /\ tier' = [tier EXCEPT ![e] = t]

Enrol(e, t) ==
  /\ SetTier(e, t)
  /\ keys' = keys \cup {e}
  /\ UNCHANGED <<items, creative, bundles, allocations, granted, decisions, openNonces,
                 books, rejections, holdout>>

\* Settlement.verify_account writes `enrolled` without a key.
VerifyAccount(e, t) ==
  /\ SetTier(e, t)
  /\ UNCHANGED <<keys, items, creative, bundles, allocations, granted, decisions,
                 openNonces, books, rejections, holdout>>

\* add_line_item appends without a test; its callers (the demo, the tests) add an
\* item once, and the buy side assigns the whole list, one record per identifier.
AddLineItem(l) ==
  /\ l \notin items
  /\ items' = items \cup {l}
  /\ UNCHANGED <<enrolled, tier, keys, creative, bundles, allocations, granted, decisions,
                 openNonces, books, rejections, holdout>>

\* BuySide._sync_exchange assigns a new list: a line item that is paused or
\* rejected is no longer in it, and AddLineItem may bring it back.
WithdrawLineItem(l) ==
  /\ l \in items
  /\ items' = items \ {l}
  /\ UNCHANGED <<enrolled, tier, keys, creative, bundles, allocations, granted, decisions,
                 openNonces, books, rejections, holdout>>

\* BuySide.submit_creative replaces `creatives` in the live line item, which
\* line_items and every stored bundle alias (sign_object copies one level).
ReplaceCreative(l, c) ==
  /\ creative' = [creative EXCEPT ![l] = c]
  /\ UNCHANGED <<enrolled, tier, keys, items, bundles, allocations, granted, decisions,
                 openNonces, books, rejections, holdout>>

-----------------------------------------------------------------------------
(* Profile L: bundles and allocations.                                      *)

IssueBundle(b, formats) ==
  /\ b \notin DOMAIN bundles
  /\ bundles' = Updated(bundles,
       [d \in {b} |-> [items |-> {l \in items : Allows(formats, Item[l].format)}, sent |-> creative]])
  /\ UNCHANGED <<registry, allocations, granted, decisions, openNonces, books, rejections, holdout>>

\* pricing.get("bid_cpm_micros") or floor_cpm_micros
ExpectedPrice(l) == IF Item[l].cpm \in {None, 0} THEN Floor ELSE Item[l].cpm

Remaining(l) == IF spent[l] > Item[l].budget THEN 0 ELSE Item[l].budget - spent[l]

SlicesOf(l, e) ==
  IF enrolled = <<>>
  THEN Allocate([f \in {e} |-> 0], <<e>>, Remaining(l), ExpectedPrice(l), PeriodFraction)
  ELSE Allocate([f \in ToSet(enrolled) |-> deliveredBy[f]], enrolled,
                Remaining(l), ExpectedPrice(l), PeriodFraction)

Budgeted(b) == {l \in bundles[b].items : Item[l].budget # None}

\* The entries one call writes for bundle b: every node in a line item's
\* allocation.  Entries of nodes a new allocation drops stay as they were.
Entries(b, slices) ==
  LET set == UNION {{<<b, f, l>> : f \in DOMAIN slices[l]} : l \in DOMAIN slices}
  IN  [k \in set |-> slices[k[3]][k[2]]]

\* Mutant of Record: an entry already recorded is never overwritten.
RecordOnce(b, slices) == allocations' = Updated(Entries(b, slices), allocations)

Record(b, slices) == allocations' = Updated(allocations, Entries(b, slices))

IssueAllocation(b, e) ==
  /\ b \in DOMAIN bundles
  /\ LET slices == [l \in Budgeted(b) |-> SlicesOf(l, e)]
         signed(l) == IF e \in DOMAIN slices[l] THEN slices[l][e] ELSE 0
     IN  /\ Record(b, slices)
         /\ granted' = granted \cup
              {[bundle |-> b, entity |-> e, lid |-> l, slice |-> signed(l)] : l \in Budgeted(b)}
  /\ UNCHANGED <<registry, bundles, decisions, openNonces, books, rejections, holdout>>

-----------------------------------------------------------------------------
(* Profile H: hosted decisions.                                             *)

Bids(relevant, floor) ==
  {[lid |-> l, ecpm |-> Item[l].ecpm] :
     l \in {m \in relevant \cap items :
              ~Reached(delivered[m], Item[m].share) /\ Item[m].ecpm >= floor}}

FloorOf(placement) == IF placement.floor > Floor THEN placement.floor ELSE Floor
BidsFor(placement) == Bids(placement.relevant, FloorOf(placement))

\* Mutant of OpenEntry: the committed digest is not kept with the nonce.
OpenEntryUncommitted(request, placement) ==
  LET bids == BidsFor(placement)
      winner == Winner(bids)
  IN  [answer |-> None, lid |-> winner.lid, creative |-> creative[winner.lid],
       price |-> ClearingPrice(bids, FloorOf(placement)), entity |-> request.entity,
       trace |-> [won |-> {winner.lid}, lost |-> Highest(bids \ {winner})]]

\* The open-nonce entry of a placement that has a winner.
OpenEntry(request, placement) ==
  LET bids == BidsFor(placement)
      winner == Winner(bids)
  IN  [answer |-> request.answer, lid |-> winner.lid, creative |-> creative[winner.lid],
       price |-> ClearingPrice(bids, FloorOf(placement)), entity |-> request.entity,
       trace |-> [won |-> {winner.lid}, lost |-> Highest(bids \ {winner})]]

Filled(request) ==
  {i \in DOMAIN request.placements : ~request.sensitive /\ BidsFor(request.placements[i]) # {}}

HostedNonce(n, i) == <<None, None, n, i>>

\* A request without a committed digest raises and changes nothing.
Decide(request) ==
  /\ request.answer # None
  /\ Len(decisions) + holdout < MaxRequests
  /\ UNCHANGED <<registry, bundles, allocations, granted, books, rejections>>
  /\ IF request.rid \in HoldoutIds
     THEN holdout' = holdout + 1 /\ UNCHANGED <<decisions, openNonces>>
     ELSE /\ decisions' = Append(decisions, [i \in 1..MaxPlacements |->
               IF i \in Filled(request) THEN OpenEntry(request, request.placements[i]) ELSE None])
          /\ openNonces' = openNonces \cup {HostedNonce(Len(decisions) + 1, i) : i \in Filled(request)}
          /\ UNCHANGED holdout

-----------------------------------------------------------------------------
(* Receipts.  A fault is the reason of the first check that fails, or "ok". *)

DeriveLocalNonce(b, e, l, index) == <<b, e, l, index>>

\* The slice a receipt is checked against: the exchange's record, else the share
\* written in the bundle, else None (no bound).
ShareFor(b, e, l) ==
  IF <<b, e, l>> \in DOMAIN allocations THEN allocations[<<b, e, l>>] ELSE Item[l].share

\* Mutant of LocalFault: the nonce the receipt carries is taken as it is.
LocalFaultTrustingNonce(r) ==
  LET d == r.local IN
  IF d.bundle = None THEN "malformed"
  ELSE IF d.bundle \notin DOMAIN bundles THEN "unknown bundle"
  ELSE IF r.late THEN "UAP_BUNDLE_EXPIRED"
  ELSE IF d.lid \notin bundles[d.bundle].items THEN "not in bundle"
  ELSE IF d.index < 0 THEN "raises"
  ELSE IF Reached(d.index, ShareFor(d.bundle, r.key, d.lid)) THEN "UAP_PACING_EXCEEDED"
  ELSE IF r.trace = None THEN "no winner in trace"
  ELSE IF r.trace.won # {d.lid} THEN "no winner in trace"
  ELSE "ok"

LocalFault(r) ==
  LET d == r.local IN
  IF d.bundle = None THEN "malformed"
  ELSE IF d.bundle \notin DOMAIN bundles THEN "unknown bundle"
  ELSE IF r.late THEN "UAP_BUNDLE_EXPIRED"
  ELSE IF d.lid \notin bundles[d.bundle].items THEN "not in bundle"
  ELSE IF d.index < 0 THEN "raises"
  ELSE IF r.nonce # DeriveLocalNonce(d.bundle, r.key, d.lid, d.index) THEN "nonce does not derive"
  ELSE IF Reached(d.index, ShareFor(d.bundle, r.key, d.lid)) THEN "UAP_PACING_EXCEEDED"
  ELSE IF r.trace = None THEN "no winner in trace"
  ELSE IF r.trace.won # {d.lid} THEN "no winner in trace"
  ELSE "ok"

LocalBacking(r) ==
  [answer |-> None, lid |-> r.local.lid, creative |-> creative[r.local.lid],
   price |-> (IF r.trace.lost > Floor THEN r.trace.lost ELSE Floor) + 1,
   entity |-> r.key, trace |-> r.trace]

ResolveFault(r) ==
  IF r.local # None THEN LocalFault(r)
  ELSE IF r.nonce \in openNonces THEN "ok" ELSE "UAP_NONCE_SPENT: unknown"

\* What a resolved receipt is checked against, read before it is billed.
Backing(r) == IF r.local # None THEN LocalBacking(r) ELSE decisions[r.nonce[3]][r.nonce[4]]

\* Mutant of ContentFault: the committed digest is not compared.
ContentFaultUncommitted(r, backing) ==
  IF r.creative # backing.creative THEN "creative_digest"
  ELSE IF ~r.attested THEN "integrity"
  ELSE IF r.view = "unrendered" THEN "not rendered"
  ELSE IF r.view = "overclaimed" THEN "viewability"
  ELSE IF r.tier = 0 THEN "UAP_TIER_INSUFFICIENT"
  ELSE IF r.trace # None /\ r.trace # backing.trace THEN "auction_trace"
  ELSE "ok"

ContentFault(r, backing) ==
  IF r.creative # backing.creative THEN "creative_digest"
  ELSE IF ~r.attested THEN "integrity"
  ELSE IF backing.answer # None /\ r.shown # backing.answer THEN "integrity: committed digest"
  ELSE IF r.view = "unrendered" THEN "not rendered"
  ELSE IF r.view = "overclaimed" THEN "viewability"
  ELSE IF r.tier = 0 THEN "UAP_TIER_INSUFFICIENT"
  ELSE IF r.trace # None /\ r.trace # backing.trace THEN "auction_trace"
  ELSE "ok"

\* Mutant of Fault: the spent set is not consulted.
FaultIgnoringSpent(r) ==
  IF r.key \notin keys THEN "signature"
  ELSE IF ResolveFault(r) # "ok" THEN ResolveFault(r)
  ELSE ContentFault(r, Backing(r))

Fault(r) ==
  IF r.key \notin keys THEN "signature"
  ELSE IF r.nonce \in spentNonces THEN "UAP_NONCE_SPENT: replay"
  ELSE IF ResolveFault(r) # "ok" THEN ResolveFault(r)
  ELSE ContentFault(r, Backing(r))

-----------------------------------------------------------------------------
(* Billing.                                                                  *)

Gross(backing) == backing.price \div 1000    \* CPM covers one thousand

\* Mutants of Bill: the nonce is not marked spent; the party credited with the
\* delivery is the signer of the receipt.
BillUnmarked(r, backing) ==
  /\ openNonces' = openNonces \ {r.nonce} /\ UNCHANGED spentNonces
  /\ log' = Append(log, [receipt |-> r, lid |-> backing.lid, entity |-> backing.entity,
                         gross |-> Gross(backing), splits |-> Settle(Gross(backing))])
  /\ delivered' = [delivered EXCEPT ![backing.lid] = @ + 1]
  /\ spent' = [spent EXCEPT ![backing.lid] = @ + Gross(backing)]
  /\ deliveredBy' = [deliveredBy EXCEPT ![backing.entity] = @ + 1]
  /\ verifiedCount' = verifiedCount + 1
  /\ periodSplits' = Settle(Gross(backing))
BillToSigner(r, backing) ==
  /\ spentNonces' = spentNonces \cup {r.nonce}
  /\ openNonces' = openNonces \ {r.nonce}
  /\ log' = Append(log, [receipt |-> r, lid |-> backing.lid, entity |-> backing.entity,
                         gross |-> Gross(backing), splits |-> Settle(Gross(backing))])
  /\ delivered' = [delivered EXCEPT ![backing.lid] = @ + 1]
  /\ spent' = [spent EXCEPT ![backing.lid] = @ + Gross(backing)]
  /\ deliveredBy' = [deliveredBy EXCEPT ![r.key] = @ + 1]
  /\ verifiedCount' = verifiedCount + 1
  /\ periodSplits' = Settle(Gross(backing))

\* The effects of an accepted receipt.
Bill(r, backing) ==
  /\ spentNonces' = spentNonces \cup {r.nonce}
  /\ openNonces' = openNonces \ {r.nonce}
  /\ log' = Append(log, [receipt |-> r, lid |-> backing.lid, entity |-> backing.entity,
                         gross |-> Gross(backing), splits |-> Settle(Gross(backing))])
  /\ delivered' = [delivered EXCEPT ![backing.lid] = @ + 1]
  /\ spent' = [spent EXCEPT ![backing.lid] = @ + Gross(backing)]
  /\ deliveredBy' = [deliveredBy EXCEPT ![backing.entity] = @ + 1]
  /\ verifiedCount' = verifiedCount + 1
  /\ periodSplits' = Settle(Gross(backing))

Room == Len(log) + Len(rejections) < MaxReceipts

Accept(r) ==
  /\ Room /\ Fault(r) = "ok"
  /\ Bill(r, Backing(r))
  /\ UNCHANGED <<registry, bundles, allocations, granted, decisions, rejections, holdout>>

\* derive_local_nonce raises on a negative index: that call has no effect.
Reject(r) ==
  /\ Room /\ Fault(r) \notin {"ok", "raises"}
  /\ rejections' = Append(rejections, [why |-> Fault(r), receipt |-> r])
  /\ UNCHANGED <<registry, bundles, allocations, granted, decisions, openNonces, books, holdout>>

VerifyReceipt(r) == Accept(r) \/ Reject(r)

-----------------------------------------------------------------------------
\* Every call but verify_receipt.
Calls ==
  \/ \E e \in Entities, t \in Tiers : Enrol(e, t) \/ VerifyAccount(e, t)
  \/ \E l \in LineItems : AddLineItem(l) \/ WithdrawLineItem(l) \/ \E c \in Creatives : ReplaceCreative(l, c)
  \/ \E b \in BundleIds, formats \in {{}, Formats} : IssueBundle(b, formats)
  \/ \E b \in BundleIds, e \in Entities : IssueAllocation(b, e)
  \/ \E request \in Requests : Decide(request)

Next == Calls \/ \E r \in Receipts : VerifyReceipt(r)

Spec == Init /\ [][Next]_vars

-----------------------------------------------------------------------------
(* Properties.                                                              *)

LogEntry == [receipt : Receipt, lid : LineItems, entity : Entities \cup {None},
             gross : Nat, splits : Nat \X Nat]

TypeOK ==
  /\ enrolled \in Seq(Entities) /\ tier \in [Entities -> Tiers \cup {0}]
  /\ keys \subseteq Entities /\ items \subseteq LineItems
  /\ creative \in [LineItems -> Creatives]
  /\ DOMAIN bundles \subseteq BundleIds
  /\ \A b \in DOMAIN bundles : bundles[b].items \subseteq LineItems
  /\ decisions \in Seq([1..MaxPlacements -> Entry \cup {None}])
  /\ openNonces \subseteq Nonce /\ spentNonces \subseteq Nonce
  /\ log \in Seq(LogEntry)
  /\ delivered \in [LineItems -> Nat] /\ spent \in [LineItems -> Nat]
  /\ deliveredBy \in [Entities \cup {None} -> Nat]
  /\ verifiedCount \in Nat /\ holdout \in Nat

\* A nonce, issued or derived, is single use (nonce.py: "a derived nonce is
\* single use, like an issued one"): no nonce is ever billed twice, under
\* replays, duplicates and any order of uploads.
BilledOnce ==
  \A i, j \in DOMAIN log : log[i].receipt.nonce = log[j].receipt.nonce => i = j

Count(P(_)) == Cardinality({i \in DOMAIN log : P(log[i])})
GrossOf(l) ==
  SumFunctionOnSet([i \in DOMAIN log |-> log[i].gross], {i \in DOMAIN log : log[i].lid = l})

\* The counters that pacing, allocation and settlement_record read are kept in
\* separate dicts; after every call they agree with the log of paid receipts.
BooksMatchLog ==
  /\ verifiedCount = Len(log) /\ verifiedCount = Cardinality(spentNonces)
  /\ \A l \in LineItems : /\ delivered[l] = Count(LAMBDA x : x.lid = l)
                          /\ spent[l] = GrossOf(l)
  /\ \A e \in Entities \cup {None} : deliveredBy[e] = Count(LAMBDA x : x.entity = e)

\* Each placement decided is in exactly one state, waiting or paid: no nonce is
\* forgotten by a rejected receipt, reopened, or open and spent at once.
IssuedNonces ==
  {HostedNonce(p[1], p[2]) : p \in {q \in (DOMAIN decisions) \X (1..MaxPlacements) :
                                      decisions[q[1]][q[2]] # None}}
NonceLifecycle ==
  /\ openNonces \cup (spentNonces \cap IssuedNonces) = IssuedNonces
  /\ openNonces \cap spentNonces = {}

\* I2: what a hosted receipt is paid for is the placement as it was decided:
\* the answer committed before selection, the creative selected then, the price
\* cleared then and the supply named then, whatever changed in between.
PaidAsDecided ==
  \A i \in DOMAIN log :
    LET r == log[i].receipt IN
    r.local = None =>
      /\ r.nonce \in IssuedNonces
      /\ LET d == decisions[r.nonce[3]][r.nonce[4]]
         IN  /\ r.shown = d.answer /\ r.creative = d.creative
             /\ log[i].lid = d.lid /\ log[i].entity = d.entity
             /\ log[i].gross = d.price \div 1000

\* A local impression is paid to the entity whose nonce it is, for a line item
\* of the bundle that nonce names, to a key holder, and only once per index.
LocalPaidToOwner ==
  \A i \in DOMAIN log :
    LET r == log[i].receipt IN
    r.local # None =>
      /\ r.nonce = DeriveLocalNonce(r.local.bundle, log[i].entity, log[i].lid, r.local.index)
      /\ log[i].entity \in keys
      /\ log[i].lid \in bundles[r.local.bundle].items

\* "The parts sum to the whole exactly": no micro of a billed impression is lost
\* or created by rounding, and each party's part is the micro nearest to its exact
\* share, so the micro left over goes to the party with the larger remainder.
SplitsExact ==
  \A i \in DOMAIN log :
    LET x == log[i] IN
    /\ x.splits[1] + x.splits[2] = x.gross
    /\ Rounded(x.splits[1], x.gross * (10000 - TakeRateBps))
    /\ Rounded(x.splits[2], x.gross * TakeRateBps)

\* The slice the exchange signs for a node is never larger than the one it
\* records and will check that node's receipts against.
SignedIsRecorded ==
  [][\A g \in granted' \ granted :
       g.slice > 0 => allocations'[<<g.bundle, g.entity, g.lid>>] = g.slice]_vars

-----------------------------------------------------------------------------
(* What the documents promise and the code does not keep.                   *)

InsideGranted(r) ==
  \E g \in granted : /\ g.bundle = r.local.bundle /\ g.entity = r.key
                     /\ g.lid = r.local.lid /\ r.local.index < g.slice

\* SPEC.md 8.2: "A node that serves within its slice is therefore always paid":
\* no receipt inside a slice the exchange signed for that node is rejected with
\* UAP_PACING_EXCEEDED.
AlwaysPaid ==
  \A i \in DOMAIN rejections :
    rejections[i].why = "UAP_PACING_EXCEEDED" => ~InsideGranted(rejections[i].receipt)

\* nonce.py: "`index` must be below the line item's allocated share": a local
\* impression of a budgeted line item is paid only inside a slice that was signed.
PaidOnlyInsideSlice ==
  \A i \in DOMAIN log :
    log[i].receipt.local # None /\ Item[log[i].lid].budget # None => InsideGranted(log[i].receipt)

\* exchange.py issue_allocation: the slices, "summed across every enrolled node,
\* ... cannot exceed each line item's remaining budget": as long as every node
\* stayed inside its slices, no line item is charged more than its budget, with
\* several bundles outstanding too.
SpendWithinBudget ==
  PaidOnlyInsideSlice =>
    \A l \in LineItems : Item[l].budget # None => spent[l] <= Item[l].budget

\* SPEC.md 9.1: the exchange verifies that the decision "was issued to that
\* supply entity": a hosted impression is paid on a receipt of the supply the
\* decision names.
PaidOnOwnReceipt ==
  \A i \in DOMAIN log : log[i].entity = log[i].receipt.key

\* SPEC.md 9.3: the tier is "asserted in the request and verified at
\* settlement": nobody enrolled at tier 0 is paid for an impression.
TierVerified == \A i \in DOMAIN log : tier[log[i].receipt.key] > 0

\* A receipt is refused with "creative_digest does not match what was issued"
\* only when its creative is not the one in the bundle as it was sent.
RefusedCreativeNotIssued ==
  \A i \in DOMAIN rejections :
    LET r == rejections[i].receipt IN
    rejections[i].why = "creative_digest" /\ r.local # None =>
      r.creative # bundles[r.local.bundle].sent[r.local.lid]
=============================================================================
