# A verification project for UAP

UAP is an advertising protocol for language-model answers, with a reference
implementation in Python (`src/reference/python/uap`, 4,500 lines). An
*exchange* decides which sponsored block follows an answer, a *serving node*
renders it, and the node uploads a signed *receipt* for which the exchange bills
the advertiser and pays the node. In the hosted profile (H) the exchange decides
each turn; in the local profile (L) the node decides from a *bundle* the
exchange issued, inside *slices* of the budget the exchange allocated.

This directory models that implementation in TLA+: what TLC checks on small
instances, and what TLAPS proves for every value of the constants. The code is
the reference. Where the documents promise more than the code does, a run shows
the behaviour (see *Divergences*).

## The system

| Component | State it keeps | Operations |
|---|---|---|
| Auction (`auction.py`) | none | `run`: policy, targeting, frequency, pacing, floor; second price; trace |
| Pacing (`pacing.py`) | none | `allocate`: a period's impressions among the nodes |
| Exchange (`exchange.py`, `nonce.py`) | enrolment and keys, line items, bundles, allocations, open and spent nonces, receipt log, rejections, counters of delivery and spend | `enrol`, `add_line_item`, `issue_bundle`, `issue_allocation`, `decide`, `verify_receipt`, `settle` |
| Exchange server (`server.py`) | one Exchange, shared by handler threads | routes HTTP to the above |
| Node, middleware, proxy (`node.py`, `middleware.py`, `proxy.py`) | bundle, slices, impression counters, receipt queue; handler threads and a scheduler thread | `decide_local`, `local_decision`, `record_delivery`, `load_bundle`, `load_allocation`, `sync_bundle`, `flush_receipts` |
| Settlement (`settlement.py`) | accounts and balances, invoices, payouts | account creation and verification, accrual, invoices, payouts |
| Billing (`billing.py`) | disputes, make-goods, totals credited and clawed back | opening, withdrawal, adjudication, expiry, credit, make-good |
| Buy side (`buyside.py`) | brands, campaigns, line items, creatives, clicks, conversions | campaign life cycle, creative review, conversions, reports |
| Aggregation, federated learning (`aggregate.py`, `federated.py`) | counters and per-user counts of a node, per-user gradients | `observe`, `finalise`, `secret_share`, `reconstruct`, `release`; `emit`, `average_updates` |
| Integrity (`integrity.py`) | none | `compose`, `strip_ad_block`, the guard before `generate()`, two verifiers |
| Predicates (`predicate.py`) | none | `validate`, `evaluate`, `compile_predicate` |
| Measurement, supply chain (`measurement.py`, `supply_chain.py`) | none | threshold tests over a receipt or a declared chain |
| Crypto, canonical form | none | signatures, digests, JCS |
| Demand client, command line, JavaScript port | none | I/O; the port repeats the pure parts |

They interact by calls inside a process (exchange and billing share one
settlement; the buy side aliases the exchange's line items) and by four HTTP
messages between a node and its exchange: a bundle fetch, an allocation fetch, a
decision request, an upload of a batch of receipts. Each of them may be lost, an
upload may be read after its retry, and either end runs several threads.

What is hard here: receipts are retried, so billing must be idempotent; a receipt
is checked against state that has moved since the turn (bundles, allocations,
creatives); both servers are `ThreadingHTTPServer`s over unlocked dictionaries;
the node keeps everything in memory and restarts from nothing; and money is split
and reversed in whole micros. `PROJECT.json` lists the hazards line by line.

What makes each component correct: *auction* – second price and a trace the
exchange accepts; *pacing* – never over budget, ramps kept; *exchange* – a nonce
is billed once, what is paid is what was decided, the counters agree with the
log; *server* – threads do not change that; *supply* – a nonce per impression, no
receipt lost but by a crash, each decided once, eventually; *settlement* –
balances backed by payouts; *billing* – disputed amounts are not collectible, a
remedy is given once, credits are matched by clawbacks (but for what *Divergences*
says); *buy side* – nothing rejected is in an auction, what was not sent again is
there as it is now and under an active campaign only, a conversion is accepted
once; *proxy* – a
sensitive conversation stays silent, a client that strips feeds the model no
advertising, every request is answered; *predicates* – one meaning, and a mistake
narrows; *integrity* – the answer can be recovered from what was shown and told
from the block; *supply chain* – accepted means vouched for; *measurement* –
volume hides nothing; *aggregation* – one person moves a report by their bound,
and what is published is the sum of what the nodes sent.

## The modules

| Module | Models | Checked by |
|---|---|---|
| `Auction` | `auction.py` as operators: `Stage`, `Eligible`, `Winner`, `ClearingPrice`, `Trace` | `MCAlgorithms` over `AuctionCheck` |
| `AuctionCheck` | one auction, its arguments and its result | `MCAlgorithms` |
| `Pacing` | `pacing.py` as operators: `Proportional`, the trimming loop `Trim`, `Allocate` | `MCAlgorithms` |
| `Predicate`, `SupplyChain`, `Measurement`, `Integrity` | the module of that name, as operators | `MCAlgorithms` |
| `Aggregate` | `aggregate.py` and `federated.py`, as operators | `MCAlgorithms` |
| `Algorithms` | one call of any of the functions above, and its result | `MCAlgorithms` |
| `DataLemmas` | sums, folds, least and largest elements, division by basis points: what every proof about data rests on | |
| `DecisionLemmas` | lemmas about `Auction` and `Pacing` | |
| `AlgorithmProofs` | proofs about `AuctionCheck` and `Algorithms` | |
| `Conversation` | chat requests through the proxy and the middleware, by several users | `MCConversation*` |
| `ConversationProofs` | proofs about it | |
| `Split` | the revenue split of `exchange.py` (`Settle`) | `MCExchangeHosted` |
| `Exchange` | class `Exchange`, a method per action, on `Auction`, `Pacing`, `Split` | `MCExchange*` |
| `ExchangeProofs` | proofs about it and about `ExchangeServer` | |
| `ExchangeServer` | `verify_receipt` cut at its reads and writes, in handler threads; refines `Exchange` | `MCServer*` |
| `Supply` | a node with its threads, the network, the exchange's side of a receipt; refines `Delivery` | `MCSupply*` |
| `Delivery` | abstract: every rendered impression is decided once, for good | |
| `SupplyProofs` | proofs about `Supply`, its refinement of `Delivery` included | |
| `Settlement` | `settlement.py`, an action per operation | `MCBilling` |
| `Billing` | `billing.py` on top of it | `MCBilling*` |
| `BillingProofs` | proofs about it | |
| `BuySide` | `buyside.py`, an action per call, and what it syncs to the exchange | `MCBuySide*` |
| `BuySideProofs` | proofs about it | |

### Exchange

Variables are the fields of class `Exchange`: `enrolled` and `tier` are the dict
`enrolled` (its order matters to pacing), `keys` is `supply_keys`, `openNonces`
and `spentNonces` the two nonce sets, `log` and `rejections` the receipt log and
the itemised rejections, `delivered`, `spent`, `deliveredBy`, `verifiedCount`,
`periodSplits` the counters. `decisions` remembers what each open nonce was given
even after it is spent, and `granted` the slices that were signed; both are
history for the properties.

`VerifyReceipt` is `Accept` or `Reject`. The chain of early returns is the
operator `Fault`, which names the first check that fails: the signature, the
replay test, the resolution of the nonce (`ResolveFault`, with `LocalFault` for
profile L), the content (`ContentFault`). `Bill` is all the code after it. A
negative index makes `derive_local_nonce` raise: that call has no effect.

A nonce is a 4-tuple: the hash of `nonce.py` is taken as injective and
`secrets.token_hex` as never repeating. An entity signs with one key, named like
the entity. A receipt has one field per question `verify_receipt` asks of it.
Stored bundles alias the live line items, as in the code: `creative` is what the
exchange compares with, `sent` what the nodes received. `AddLineItem`,
`WithdrawLineItem` and `ReplaceCreative` are what the buy side does to the
exchange's line items. `add_line_item` appends without a test; `AddLineItem` adds
an item that is not there, since its callers add each one once and the buy side
assigns the whole list, an entry per record. The same id in the list twice is
left out.

### Exchange server

`Receive` does the checks up to the replay test, `Check` the rest of them, `Mark`
writes the nonce sets and the log, and each counter is a read followed by a
write, as `d[k] += 1` is. With one thread every behaviour of this is a behaviour
of `Exchange`: the refinement counts a paid impression when it is marked.

### Supply

A handler thread goes through `DecideLocal`, `Claim` (`local_decision`),
`RecordRead` and `RecordWrite` (`record_delivery`), `Queue`. The scheduler goes
through `Wake`, `FetchBundle`, `StoreBundle` and `ClearSlices` (`load_bundle`'s
two assignments), `FetchAllocation`, `TakeBatch`, and `Answered` or `Unanswered`.
`Unanswered` covers the upload that was read with its answer lost, the one never
read, and the one read later (`ReadDelayed`). `Crash` restarts the proxy:
everything is in memory. The exchange here is only what decides whether a
receipt of an honest node is paid: the nonce, the expiry, the bundle's line
items and the recorded slice. Which eligible item wins is `Auction`'s concern.

### Conversation

The same proxy seen from its chats. A client (`Ask`, external) sends its whole
history with every turn; a handler thread per request goes through `do_POST` and
`complete`, cut where it reads or writes what other threads share: the turn
counter (`CountRead`, `CountWrite`, read again by `Due`), the node's frequency
count (`Open`, `RecordRead`, `RecordWrite`), the receipt queue, the filled
counter. `Upstream` and `Stream` may fail. A text is what the code looks for in
it: a commercial intent, a sensitive word, nothing, or one of the shapes that make
the ad path raise. What a client does with the answer is its own affair: those of
`Strippers` strip it as `middleware.strip` does before they keep it, the others
keep the block. `AdSays` is what the classifier reads in a block it is fed.
`context` and `sold` are history for the properties. Impression indexes, bundles
and uploads are `Supply`'s; the two modules share no variable, since no decision
here depends on a bundle but through the caps.

### Algorithms

The functions that keep no state are operators in a module of their own. A
behaviour of `Algorithms` is one call: its initial state holds the arguments and
its step the result. Where two functions answer the same question the step holds
both answers: the interpreter and the compiler of predicates, the composer and
the verifiers.

`Predicate` holds a predicate as a tree, a function from positions to nodes, so
that `depth` and `count_terms` are about the set of its positions and the
recursion of `evaluate` and of the closures is one on the levels that are left
(`Reading`), which is how `_depth` bounds it. It keeps the kind of a JSON value, since every term tests it, and what
Python cannot hash, since `frozenset` and `set` raise on it. `Integrity` writes a
text as tokens, one per piece the code treats apart, so that escaping, the three
rewritings of the canonical form and the search for the separator do what they do
to strings; a digest is the text it is of. `SupplyChain` and `Measurement` keep
the verdicts and drop their wording; the dwell test is in integers. In
`Aggregate` a vector is a function from `0..n`; noise and masks are arguments,
because a property that holds whatever they are says more than one about how they
are drawn; the ring is `Modulus`; a gradient is in units of `1/SCALE`, the
scorer's error of a turn is given with the turn, and clipping rounds to zero. A
turn adds 0 or 1 to each metric, which the bound takes for granted: `observe` adds
whatever it is given, and a larger number would pass the bound (aggregate.py:170).

### Settlement and billing

An account is named by its entity. `issue_payout` takes its amount and split
table from the caller: the amount is any of `Amounts`, the table that of an
impression `party` served. `served`, kept with an invoice, is history: the code
records no such thing, which is why its clawback cannot find the right payee.
`Clawback` reverses, as the code does, the table of the first payout ever
issued. `Overdue` is the passage of the adjudication deadline, after which
`adjudicate` expires the dispute instead; `expire` itself does not look at the
deadline, and the model respects its docstring, "The adjudication window
closed".

### Buy side

Identifiers are the caller's, so `CreateCampaign` and `CreateLineItem` may name an
object that exists, and then replace it: that is a request sent again. `Place` and
`Submit` are the ends of `create_line_item` and `submit_creative`, which the
creates of a whole campaign run through; a body with several line items or
creatives is that call followed by the others. `live` is `exchange.line_items`.
The exchange aliases the records, but every call that changes one syncs before it
returns, so what it has is the record as it was at the last sync; the exceptions,
a `create_line_item` without creatives and a `create_campaign` without line items,
replace the record and leave the old one with the exchange. `create_campaign`
stores whatever status its body says (`Statuses`), so a campaign that is sent again
may become a draft or paused in this way; the schema's "completed" and "archived"
are told from "paused" by no code and stand under its name. `SetCampaignStatus` has
the two statuses the server's routes send. A creative is its verdict, from what the scan finds in its content
(`Flaws`) and the advertiser's verified domains at that moment.

## The runs

| Run | What it shows | Instance |
|---|---|---|
| `MCAlgorithms` | the auction: second price, price covered by the bid, a trace that names the winner | three items, one per pricing model, in 131,040 combinations with turns and floors; ties, lone bidders and every elimination stage occur |
| | pacing: within the period's budget; capped; ramps kept when they can be funded | up to four nodes, ramp 2, cap 1/2, budgets from 0 to more than all ramps, all insertion orders: both trimming loops run |
| | predicates: validation, interpreter and compiler agree on what a predicate means; a term gone wrong narrows | every term, well formed and not, under up to four operators, over four signals; depth 2 and 3 terms allowed, so both bounds are crossed |
| | supply chains: accepted is vouched for or reported unresolved, and not because of what was held | up to three hops, two systems, every seller list; two hops allowed |
| | measurement: repeating a batch clears no anomaly and moves no rate | all batches of up to four out of six receipts, a sample of three |
| | integrity: stripping recovers the answer and its commitment; the verifier tells a changed answer from a changed block | answers of up to four tokens, ending in part of a separator or holding one; creatives with markup, a separator, an unsafe link, none; every renderer |
| | aggregation: one person moves counters and update by their bound; what is published is the nodes' sum | two users and up to four turns; one or two dimensions and metrics and every refusal; a ring of 16, up to three nodes, totals on both sides of its half |
| `MCConversation` | sensitive conversations stay silent; a client that strips feeds no advertising back; every request ends in an answer | two users, one of whom strips, two and one turns, an ad every second turn, a cap that is reached |
| `MCExchangeHosted` | nonces accounted for (so none is billed twice), paid as decided, counters equal to the log, splits exact | two requests with up to two placements, two receipts out of a set with replays, wrong creatives, answers and traces, one entity, two creatives, two answers, a line item withdrawn and back |
| `MCExchangeLocal` | a derived nonce is billed once; paid to the nonce's owner; signed slices recorded | two entities, one bundle, two items, two receipts, forged owners and indexes, one receipt per fault |
| `MCServerOne` | one handler thread refines `Exchange` | three receipts, one replayed, hosted and local |
| `MCSupply` | refinement of `Delivery`, own nonce per impression, inside a slice means paid, nothing dropped, everything answered | two turns, two bundles, one crash, one late upload, one capped and one free item |
| `MCBilling` | payouts backed, an open dispute holds its invoice, what the exchange absorbs is the credits given before the first payout and at most a micro for each other, a remedy is final | one advertiser, two payees, an invoice, a payout, two disputes, an accrual |
| `MCBuySide` | a rejected line item is in no auction; but for what was sent again the exchange has each one as it is now, under an active campaign; an active one has an approved creative; a conversion is accepted once | two campaigns, two line items, two creatives, one brand verified or not, every create repeated with every status; one click, recorded for either line item again and again, and one event |
| `MCExchangeBudget` | a violation: see *Divergences* | one entity, two bundles, one item with budget for one impression, a slice of one under each bundle |
| `MCExchangePaid`, `MCServerTwice`, `MCBillingTwice` | each a violation: see *Divergences* | |

Why the bounds are enough: every property above is about at most two receipts, two
impressions or two disputes meeting one another (a replay, a clash of
indexes, a withdrawal under another dispute), so two of each is where it can
first fail. Restarts, late uploads and expiries are single events whose effect
does not compound: nothing survives a crash to meet the next. Amounts are
a few micros because that is where rounding is visible.
`CHECK_DEADLOCK FALSE` is said by `MCAlgorithms`, whose behaviours are one call
long, and by `MCConversation`, whose users stop asking. The other bounds of
`MCAlgorithms` stand for those of the code: a depth of 2 for 8, 3 terms for 64, 2
hops for 16, 3 dwells for 30, 8 counters for 2^16, a ring of 16 for 2^32. Each is
crossed by some input, and no test depends on more than which side of it a value
is. Two users are enough for `MCConversation`: its races are of two threads, and
what a conversation may be harmed by is another one.

Two bounds are tighter than the code's hazards and are made up for by a theorem.
`MCBilling` has one payout, so the clamp of `mark_sent` under two payouts over one
pending balance is not reached there: `PayoutsCovered` is proved for any number of
them. `MCBuySide` has one click, so an event reported under another click is not
run: `AcceptedOnce` is proved for any number of clicks and events.

Each property of a passing run has a mutant: an operator next to the one it
mutates ("Mutant of ...") that puts a plausible slip into the code and makes
TLC find the property violated. The type invariants of `Supply` and
`BuySide` are proved (`TypeCorrect`) and left out of the runs, which spend
their time on the properties.

### Fairness

Two runs have a liveness property. `MCConversation` assumes weak fairness of each
handler thread: threads are scheduled, and the only call that could hang, the one
to the upstream, has a timeout (proxy.py:36). Users need not ask. Under it a
request that is not a stream gets the answer of the model, the gateway's failure,
or the fault of the next section, and nothing else.

`MCSupply` assumes, in its `FairSpec`, weak fairness of the scheduler thread, which is `while True: sleep; sync; flush` with
every exception of a sync or a flush caught inside (proxy.py:87-90,
middleware.py:120-128, 211-217), and strong fairness of `Answered`: an exchange
that is asked again and again answers now and then. Nothing is assumed of bundle
syncs, of late requests, of users or of crashes. Under it every receipt that is
queued leaves the queue, and `NoReceiptDropped` says that it does so by being
decided about or by the death of the proxy.

## The proofs

Every safety property that a passing run checks is a theorem, for every value of
the constants its module's assumptions allow; so are the two refinements. Where a
run refutes what a document promises, a theorem says under which discipline of the
callers the promise holds (*Where the divergences end*). *Only model-checked*,
below, is the rest.

### The exchange

`ExchangeProofs` proves, for every set of line items, entities, requests and
receipts that satisfies `ExchangeAssumption` (ids are numbers, bids are bounded,
basis points are in range, the period is a fraction, `None` is nobody's name):

- `TypeCorrect`: the type invariant;
- `NoncesAccounted`: an issued nonce is open or spent, never both or neither;
- `SingleUse`: no nonce, issued or derived, is billed twice;
- `AnswerCommitted`: a hosted receipt is paid exactly as its placement was decided;
- `OwnerPaid`: a local impression is paid to the entity its nonce names;
- `SplitsConserve`: the parts of a split sum to its gross, each the nearest micro;
- `SignedRecorded`: a signed slice is the recorded one;
- `BooksAgree`: every counter is the count, or the sum, of its part of the log;
- `OneHandlerIsAtomic`: with one handler thread, `ExchangeServer` implements
  `Exchange`;
- `OneHandlerBillsOnce`, `OneHandlerCountsAll`: nor does it then bill a nonce twice
  or lose an update of a counter, which is what `BilledOnceAcrossThreads` and
  `CountersComplete` say and two threads do.

The inductive invariant is

    Inv == TypeOK /\ NonceLifecycle /\ SpentKnown /\ SpentIsLogged

`SpentKnown` says that a spent nonce is one that was issued, or one that derives
from a bundle; without it a decision could issue a nonce that is spent already
and `NonceLifecycle` would not be inductive. `SpentIsLogged` says that the spent
set is exactly the nonces of the log; it turns the replay test into `SingleUse`.
`AnswerCommitted` and `OwnerPaid` are then inductive relative to `Inv`: a log
entry never changes, and what it is compared with (`decisions`, `bundles`,
`keys`) only grows. `BooksMatchLog` is inductive too, since a paid receipt adds
one entry to the log, its last (`MarkBooks`, on the sums of `DataLemmas`). One lemma
per kind of step (`DecideNonces`, `AcceptLogs`, `AcceptTypes`, `RegistryStep`)
carries the arithmetic and the record types; `StepCases` reduces the calls that
touch neither the log nor the nonces to one case. `SettleExact` is the arithmetic
of largest remainder.

The refinement of the server needs what its one handler knows while it waits:

    ServerInv == Inv /\ thread \in [Threads -> Job] /\ \A t \in Threads : Working(t)

`Working` says that what a handler has found out still holds when it acts on it: a
receipt past the replay test would still pass it, one past the checks has no fault
and the backing that was read, and a counter that was read has not moved.
All of this fails with a second thread, which is what `MCServerTwice` and
`MCServerLost` show. `MappedTo` computes the mapping: a counter stands for what it
holds and what the handler has yet to add. Marking the nonce is then `Accept`
(`MarkMaps`), the reads and the writes are stuttering (`ReadStutters`,
`WriteStutters`), a failed check is `Reject`, and every other call finds the
handler idle and the mapping the identity (`RegistryMaps`, `AllocationMaps`,
`DecideMaps`).

### The supply side

`SupplyProofs` proves `TypeCorrect`, `NothingDropped` (a receipt leaves the queue
only decided about or with the process) and `NodeKeepsPromise`, the refinement of
`Delivery`, for any number of threads, turns, bundles and crashes, from

    IInv == NodeInv /\ SliceInv /\ ThreadInv /\ RenderedInv /\ TurnsInv /\ MailInv /\ JudgedInv

of which `SliceInv` says that a slice the node holds is the recorded one,
`MailInv` that whatever is queued, in an upload or delayed was rendered, and
`JudgedInv` that what was refused once would be refused again: without it a late
copy of an upload could turn a refusal into a payment, and `DecidedOnce` would
not follow.

Two properties hold with one handler thread only, which the theorems say
(`OneHandler`) and the run `MCSupply` has: `NoncesDistinct`, that no two impressions
share a nonce, and `SliceIsHonoured`, that a receipt inside its slice is never
refused. With two threads both may claim one index (`MCSupplyTwo`). Their
invariant is `IInv` and

    OneInv == Numbered /\ ClaimsFresh /\ EachImpressionOwnNonce /\ TurnsInside /\ ShownInside

`Numbered`: the indexes rendered under the bundle in use are below the count of
their line item; `ClaimsFresh`: a turn that has claimed an index is the only one
to hold it; `TurnsInside`, `ShownInside`: what was decided inside a slice is inside
the one the exchange recorded, unless another bundle came in between.

### Settlement and billing

`BillingProofs` proves, for every set of accounts and amounts that satisfies
`SettlementAssumption` and `BillingAssumption` (amounts and withholdings are
naturals, adjustments integers, a CPM is not zero, an advertiser is no payee):

- `BillingTypes`: the type invariant; no balance, total or debt goes below zero;
- `OpenHolds`: while a dispute is open its invoice is disputed;
- `RemedyOnce`: a dispute that has its remedy keeps it, with its amounts;
- `CreditsCovered`: a clawback falls short of its credit by at most a micro when
  there was a payout before it, and is nothing when there was none;
- `ImbalanceBounded`: the imbalance of credits and clawbacks is what was credited
  before the first payout, and at most a micro more for each other credit. That it
  is not zero is a divergence; `LedgerBalances` says when it is (below);
- `PayoutsCovered`: what is settled and disbursed for a payee are the sums over
  its payouts, so the clamp at zero swallows nothing.

The inductive invariant is

    Inv == TypeOK /\ DisputesSound /\ OpenDisputeHoldsInvoice

`DisputesSound` says three things of each dispute. An expired one is overdue and
upheld in full: `_live` lets an expired dispute through, so it may be expired
again after its credit, and only this makes the second expiry change nothing. A
dispute with a remedy is closed, so no adjudication recomputes its amount. And what a clawback
is to its credit does not change afterwards (`Covered`; `SharesCover`, from the division lemma
`Remainders` of `DataLemmas`, which `SplitsConserve` rests on too). Each call on
a dispute replaces one record by a `Successor` of it (`OneDispute`), which is all
that the invariant and `RemedyOnce` need to know of it; each call of the
settlement adds an invoice or marks one disputed (`InvoiceCalls`). The imbalance
is inductive as an equation (`Balanced`): it moves with each credit by what that
credit's clawback left uncovered, and by nothing else. `AbsorbedInAll` then splits
that sum (`SumApart`) into the credits without a payout, which are uncovered whole,
and the others, each uncovered by a micro at most. `LedgerBalances` is inductive by
itself, because the shares of a credit that leaves no fraction add up to it
(`SharesWhole`). The theorems do not depend on the bounds of the run.

### The buy side and the proxy

`BuySideProofs` proves, for every set of identifiers and brands, `TypeCorrect`,
`RejectedOut`, `LiveCurrent`, `ActiveApproved` and `AcceptedOnce`. Its invariant is

    Inv == Shaped /\ Known /\ RejectedIsOut /\ LiveIsCurrent /\ ActiveIsApproved

where `Known` says that what the exchange has is a line item of a campaign that
exists (without it a campaign created later, as paused, could adopt it) and
`Shaped` what fields a record has. Calls that sync establish the properties outright
(`Synced`); the work is in those that do not (`Placed`, `CreateKeeps`).
`LiveIsCurrent` leaves out what a create call replaced without a sync, which is
what `MCBuySideRetried` shows; `LiveActive` says that nothing else leads there
(*Where the divergences end*). `AcceptedOnce` is the cardinality of the attributed
events, which are finite (`BuySideAssumption`).

`ConversationProofs` proves `SensitiveSilent` and `OrganicContext` for any users,
topics, caps and number of turns (`ConversationAssumption`). The inductive
invariant is

    IInv == Typed /\ Cleared /\ Clean /\ SensitiveStaysSilent

`Cleared` carries the permission from the decision to the answer: a handler past
`Decide` has a line item and a history without a sensitive message, which nobody
else can change; without it `SendSponsored` could sell anything. `Clean` says that
the history of a client that strips, and the context taken from it, hold no block.

### The functions without state

A behaviour of `Algorithms` is one call, so the invariant is the same for all of
them, `Asked /\ AnswerRight` (`Answered`): the call is one of those that may be
made, and what was returned is what the function returns. Each theorem is then
one about the function, for every input that `CallsAssumption` allows, which asks
for kinds of data only: sequences are sequences, amounts are numbers, sets of
nodes and people are finite.

- The auction: `SecondPrice`, `PriceCovered`, `TraceNamesIt`, for any bundle and
  turn whose bids are bounded (`AuctionAssumption`). `Beats` is a strict total
  order on bids below a bound, so the winner exists and is the only one, and
  raising its bid changes neither the others' highest bid nor the order.
- Pacing: `BudgetKept`, `CapsKept`, `RampsPaid`. A trimming loop takes from a node
  what those before it could not give. So what is taken from the first nodes, however
  many, is the smaller of what is over and of what they could spare
  (`TakenInAll`, by induction on sets closed under coming earlier), and the loop
  takes all that is over or all that can be spared (`TrimLeaves`).
- Supply chains and measurement: `ChainVouched`, `RepetitionTold`. Counting the
  receipts of a batch sent twice doubles each count (`SumTwice`,
  `CardinalityTwice`), and no rate or share of a batch tells the difference.
- Predicates: `OneMeaningOfPredicates`. Where nothing but malformed parts is as deep
  as the levels that are read, more levels read the same (`DeepEnough`, by
  induction on the levels), and `validate` leaves no other part as deep as
  `MAX_DEPTH` (`ValidIsShallow`); the terms of the closures are those of the
  interpreter, of a prepared signal too, unless one could not be built
  (`TermsSame`). `WrongOnlyNarrows`, of any predicate, valid or not: the reading of
  a predicate and of the one with a part gone wrong differ only on the way to that
  part, and there one is narrower than the other, which each negation turns round
  (`WrongNarrows`, again by induction on the levels; `DecisiveNarrower` is the step
  through `all` and `any`, with parts that raise).
- Integrity: `AnswerRecovered`, `BlameTold`, on `ComposeThenStrip`,
  `CommitmentBinds`, `BlameIsRight`: an answer without a separator is recovered from
  whatever is composed under it, so a commitment binds to one answer and the
  verifier blames it rightly (`StripsTheBlock`: the first marker of the composed
  text is the composer's, even where the answer ends in line feeds).
- Aggregation: `TotalReleased`, for any number of nodes, any masks and any noise:
  the masks cancel in the ring (`MasksCancel`, on `SharesReconstruct` and
  `AggregatorsAddUp`), and a total that fits in half the ring is published as it is
  (`PublishedIsTheTotal`); one share is compatible with any vector
  (`OneShareSaysNothing`).
- `OnePersonBounded`: a node that was given all the turns, and the node that was
  not given one person's, are neighbours after every turn (`NeighboursAtFirst`,
  `InfluenceStep`): the counters of a metric differ by that person's counted turns,
  which the node stops counting at the bound, and the update by that person's
  gradient, which is clipped.

Induction and recursion over data are done by hand in `DataLemmas`, over sets in
place of predicates: a set of numbers with 0 and every successor is all of `Nat`
(`AllNaturals`), a family of sets that has a set as soon as it has it without any one
of its elements has every finite set (`AllSubsets`); from these, what `SumFunctionOnSet` and `FoldLeft`
compute (`SumAdd`, `SumsAgree`, `FoldedInTurn`), and that a function defined by recursion on the
naturals is one (`RecursionExists`).

### Where the divergences end

Each run that expects a violation takes a particular order of calls. These theorems
rule that order out by a condition on the steps, an action formula next to `Spec`,
and prove what is then true for every value of the constants:

| Theorem | As long as | what holds |
|---|---|---|
| `AllocationAffordable` | (nothing assumed) | the slices of one `issue_allocation` call cost no more, at the expected price, than what remains of the budget; overspending (`MCExchangeBudget`) takes several calls |
| `StandingSlicePaid` | no allocation call changes a recorded slice (`SlicesStand`) | no receipt inside a slice that was signed is refused for its pacing (`MCExchangePaid`) |
| `CreativeRefusalsRight` | no creative is replaced | a receipt refused for its creative shows another one than the bundle had when it was sent (`MCExchangeCreative`) |
| `CreditedOneAtATime` | a dispute is opened once those before it on the invoice are finished (`SettledFirst`) | no invoice is credited more than it was issued for (`MCBillingTwice`) |
| `LedgerBalances` | each credit is given after a payout and its shares are whole micros (`CreditsWhole`) | the imbalance is zero (`MCBillingImbalance`) |
| `LiveActive` | no create call takes back what an earlier one and its review made (`SentOnce`) | only active line items of active campaigns are with the exchange (`MCBuySideRetried`) |
| `OneHandlerBillsOnce`, `OneHandlerCountsAll` | the server has one handler thread | no nonce is billed twice (`MCServerTwice`) and no update of a counter is lost (`MCServerLost`) |
| `NoncesDistinct`, `SliceIsHonoured` | the node has one handler thread | no two impressions share a nonce (`MCSupplyTwo`), no receipt inside its slice is refused |

`AllocationAffordable` brings the arithmetic of `Pacing` (`AllocateRight`) to the
exchange that calls it; what it needs of the exchange is that the dict of enrolled
entities names each once (`EnrolledOnce`). `StandingSlicePaid` rests on
`GrantedRecorded`: what was signed is what is recorded. `CreditedOneAtATime` rests on

    CreditInv == Inv /\ Alone /\ Accounted

`Alone`: an invoice has at most one dispute that may still be credited, and it is for
no more than the invoice asks; `Accounted`: what is credited and what is left to pay
add up to what was issued. Both break at once when a second dispute is opened before
the first is finished. They were checked by TLC over the same condition before they
were proved.

### Only model-checked

Liveness, `EveryRequestAnswered` and `EveryReceiptAnswered`: TLAPS has no rule for
fairness, which is about ENABLED. The divergences, which are counterexamples.

## Divergences

Four runs expect a violation and quote the text the code departs from.

- `MCExchangeBudget`: with two bundles outstanding, the slices of each are computed
  from settled spend, so a node inside both of its slices overspends the budget
  (exchange.py:198).
- `MCExchangePaid`: a later allocation for the same bundle shrinks the recorded
  slice of a node that was not told, and it is refused inside the slice it holds
  (exchange.py:202).
- `MCServerTwice`: two threads pass the replay test before either marks the
  nonce (exchange.py:390, server.py:229).
- `MCBillingTwice`: disputes opened before the first is credited are each measured
  against the whole invoice (billing.py:77).

The following are stated in the modules and reproduced by a cfg of their own, run
by hand (`tlc -config X.cfg M`); each ends in a counterexample.

| cfg, module | What happens |
|---|---|
| `MCExchangeUnallocated`, `MCExchange` | with no allocation recorded a budgeted item is paid at any index (exchange.py:316) |
| `MCExchangeCreative`, `MCExchange` | a creative submitted after the bundle was sent makes the exchange refuse the issued one (exchange.py:332, buyside.py:169) |
| `MCExchangeSupply`, `MCExchange` | a hosted nonce is paid on another enrolled entity's receipt (exchange.py:405) |
| `MCExchangeTier`, `MCExchange` | the tier checked is the receipt's, not the enrolled one (exchange.py:433) |
| `MCServerLost`, `MCServer` | two threads lose an update of a counter (exchange.py:446) |
| `MCSupplyTwo`, `MCSupply` | two turns claim one impression index (node.py:231, middleware.py:174) |
| `MCSupplyWindow`, `MCSupply` | a capped item is served while no slice is loaded (node.py:163, node.py:191) |
| `MCSupplyIndex`, `MCSupply` | indexes continue from one bundle to the next (node.py:162) |
| `MCBuySideServed`, `MCBuySide` | a rejected creative stays first in the list of a line item that a later one makes active, and the first is what is served (buyside.py:169, exchange.py:255) |
| `MCBuySideRetried`, `MCBuySide` | a create call sent again makes a campaign a draft, or paused, while the exchange still serves it (buyside.py:96, buyside.py:98; the docstring of `_sync_exchange` says that only active line items of active campaigns reach bundles and auctions) |
| `MCBillingImbalance`, `MCBilling` | a credit given before the first payout is matched by no clawback (billing.py:243), so the imbalance is not zero; nor is it after a credit whose shares are not whole micros, which are floored (billing.py:218). The module's docstring says that a credit MUST be matched and that the tests assert a difference of zero (billing.py:10-15), that of `imbalance` "Zero on a reconciled ledger" (billing.py:252), SPEC.md:1024-1030 that an exchange whose credits and clawbacks diverge is out of balance. `AbsorbedIsBounded` is what holds |
| `MCSupplyExpired`, `MCSupply` | after failed syncs a node serves from an expired bundle (node.py:182) |
| `MCConversationRefed`, `MCConversation` | a client that does not strip: the upstream is given the sponsored block, whose receipt asserts that nothing in the ad path reaches it (middleware.py:134, node.py:299) |

These are properties of a module that is checked anyway: name one as an INVARIANT
of the cfg (the first one as a PROPERTY) to see it violated.

| Property, cfg | What happens |
|---|---|
| `ClawbackFromServer`, `MCBilling` | the clawback reverses the parties of the first payout ever issued (billing.py:243) |
| `ReplayAgrees`, `MCAlgorithms` | the exchange replays a price with the bundle's floor; the node cleared with the placement's (exchange.py:328, auction.py:101) |
| `MoreDeliveryNeverLess`, `MCAlgorithms` | trimming the largest to the ramp first can leave it below a node that delivered less (pacing.py:69) |
| `WrongNeverWidens`, `MCAlgorithms` | under a negation an unknown or malformed term matches everybody (predicate.py:110; its docstring says that a predicate can never widen targeting by being wrong) |
| `EvaluateNeverRaises`, `MCAlgorithms` | a term whose list holds what cannot be hashed raises, as does a list or an object given as a brand risk (predicate.py:67, 69, 93; the docstring of `evaluate` says "Never raises") |
| `WeakestIsABound`, `MCAlgorithms` | a hop without a name is left out of the weakest anchor (supply_chain.py:86) of a chain that is refused |
| `StripRecoversAnyAnswer`, `MCAlgorithms` | an answer that itself holds the separator is cut at it (integrity.py:165) |
| `GuardSeesComposedTurn`, `MCAlgorithms` | the guard looks for the creative as it was bought, not as it was escaped, and does not find it in a turn fed back (integrity.py:182) |
| `BoundIsTheSensitivity`, `MCAlgorithms` | the bound holds per metric, and the noise takes it for the sensitivity of the whole vector (aggregate.py:183) |
| `NothingWraps`, `MCAlgorithms` | nothing keeps a total inside half the ring; beyond it another number is published (aggregate.py:231) |
| `NoiseIsWhole`, `MCAlgorithms` | the noise is divided by a live count when that is above the declared minimum, and is too small when fewer report (aggregate.py:180; its docstring says the minimum) |
| `CohortReported`, `MCAlgorithms` | counters of fewer nodes than declared are published (aggregate.py:223) |
| `CapIsPerConversation`, `MCConversation` | a per-conversation cap counts the shows of every conversation of the node (node.py:220, auction.py:125) |
| `CountedAsShown`, `MCConversation` | two threads lose an update of the frequency count (node.py:220) |
| `CadenceKept`, `MCConversation` | two requests see the same turn counter and both carry an ad (proxy.py:147) |

A JSON answer of the upstream that is not an object makes the handler raise after
the ad path let it through (proxy.py:149): the client gets no response. It is the
outcome `no object` of `EveryRequestAnswered`. A bucket dimension of fewer than two
edges passes `AggregationSpec` and raises in `observe` after the user was counted;
the model's specs have at least one counter.

Read in the code and visible in `Settlement` and `Billing` but not stated as
properties: `open_dispute` holds no amount (only `dispute_invoice` writes
`held_micros`, and nothing releases it); `owed_back_micros` is deducted from no
later payout; `outstanding` subtracts credits from a total they already lowered;
an expired dispute can be withdrawn after it was credited; two payouts may be
issued over one pending balance, whose clamp at zero hides the difference; a
split table without the payee pays it the whole gross.

## Not modelled

`fund`, `check_spend` and `enrol_key` of the settlement move an advertiser's
prepaid balance and the exchange's keys, which nothing modelled reads. Model
stewards, declarations, events and reports of the exchange are read by no modelled
operation. Time is a choice: expiry is a field of a receipt or an action, and
when the window of a click passes is left open in `BuySide`. The
five-minute life of a hosted decision is in no check of the code. Signatures are
taken as unforgeable and digests as injective. `forecast` and `run_report` of the
buy side only read. `PrivacyBudget` is called by nothing in the repository, and
`finalise` does not consult it; a model would be about a caller that is not there.
How noise is drawn is a matter of probability, the logistic scorer and the learning
rate of real numbers. Of the classifier only what it hears in a conversation is
modelled. HTTP framing, the demand client, the command line, the cryptography and
the JavaScript port (a copy of the pure parts) are I/O, data or taken as sound.

## Plan

1. Ledger composition: a billable verdict accrued on both sides, an invoice and a
   payout over the same receipts, the imbalance of a closed period.
2. `Conversation` over `Supply`: one proxy with both views, when an instance that
   small still meets the races of each.
