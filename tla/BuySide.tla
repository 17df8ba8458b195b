------------------------------ MODULE BuySide ------------------------------
(***************************************************************************)
(* Campaigns, line items, creative review and conversions: class BuySide   *)
(* of uap/buyside.py.  Identifiers come from the caller, so a create call  *)
(* that is sent again replaces the object under that identifier.           *)
(***************************************************************************)
EXTENDS Integers, SequencesExt

CONSTANTS None, Campaigns, LineItems, Creatives, Advertisers, Domains, Clicks, Events,
          Advertiser,   \* [LineItems -> Advertisers], the advertiser.id of a line item
          Contents,     \* what a creative may hold
          Flaws,        \* [Contents -> sets of reasons], what the scan of the text finds
          Host          \* [Contents -> Domains], where its actions lead

ASSUME BuySideAssumption ==
  /\ Advertiser \in [LineItems -> Advertisers] /\ Host \in [Contents -> Domains]
  /\ IsFiniteSet(Events) /\ None \notin LineItems \cup (Creatives \X Contents)

VARIABLES
  verified,     \* brands: the verified domains of each advertiser
  campaigns,    \* campaign id -> [status, items]
  lineItems,    \* line item id -> [campaign, status, creatives]
  live,         \* exchange.line_items: id -> the line item as it was last synced
  clicks,       \* click id -> its line item, None when unknown
  conversions,  \* event id -> the line item it is attributed to, or None
  accepted      \* how many reports were answered "accepted" (history)

catalogue == <<verified, campaigns, lineItems, live>>
attribution == <<clicks, conversions, accepted>>
vars == <<catalogue, attribution>>

Init ==
  /\ verified = [a \in Advertisers |-> {}]
  /\ campaigns = [c \in {} |-> 0] /\ lineItems = [l \in {} |-> 0] /\ live = [l \in {} |-> 0]
  /\ clicks = [k \in Clicks |-> None]
  /\ conversions = [e \in Events |-> None] /\ accepted = 0

\* dict[k] = x
Put(dict, k, x) == [j \in (DOMAIN dict) \cup {k} |-> IF j = k THEN x ELSE dict[j]]

-----------------------------------------------------------------------------
(* Review, and what reaches the exchange.                                    *)

Reasons(l, content) ==
  Flaws[content]
  \cup IF Host[content] \in verified[Advertiser[l]] THEN {} ELSE {"url_not_verified_domain"}

Reviewed(l, cr, content) == [id |-> cr, approved |-> Reasons(l, content) = {}]

\* The creatives of a line item but for those under `id`.
Without(creatives, id) ==
  FoldLeft(LAMBDA kept, x : IF x.id = id THEN kept ELSE Append(kept, x), <<>>, creatives)

\* Mutant of WithCreative: a rejection leaves the status of the line item alone.
WithCreativeLenient(item, rec) ==
  [item EXCEPT !.creatives = Append(Without(@, rec.id), rec),
               !.status = IF rec.approved THEN "active" ELSE @]

WithCreative(item, rec) ==
  [item EXCEPT !.creatives = Append(Without(@, rec.id), rec),
               !.status = IF rec.approved THEN "active" ELSE "rejected"]

HasApproved(item) == \E k \in DOMAIN item.creatives : item.creatives[k].approved

\* Mutants of Exchanged: an approved creative is enough, whatever became of the
\* line item; the campaign is not looked at.
ExchangedIfApproved(cs, ls) ==
  LET servable == {l \in DOMAIN ls : cs[ls[l].campaign].status = "active" /\ HasApproved(ls[l])}
  IN  [l \in servable |-> ls[l]]
ExchangedAnyCampaign(cs, ls) ==
  LET servable == {l \in DOMAIN ls : ls[l].status = "active" /\ HasApproved(ls[l])}
  IN  [l \in servable |-> ls[l]]

\* What _sync_exchange assigns to exchange.line_items.
Exchanged(cs, ls) ==
  LET servable == {l \in DOMAIN ls : /\ ls[l].status = "active"
                                     /\ cs[ls[l].campaign].status = "active"
                                     /\ HasApproved(ls[l])}
  IN  [l \in servable |-> ls[l]]

Draft(c) == [campaign |-> c, status |-> "draft", creatives |-> <<>>]

\* submit_creative on `item`, the line item l.
Submit(item, l, cr, content) ==
  /\ lineItems' = Put(lineItems, l, WithCreative(item, Reviewed(l, cr, content)))
  /\ live' = Exchanged(campaigns', lineItems')

\* The rest of create_line_item, its body holding the creative `first`, a pair,
\* or none: a body without creatives is not synced.
Place(c, l, first) ==
  IF first = None
  THEN lineItems' = Put(lineItems, l, Draft(c)) /\ UNCHANGED live
  ELSE Submit(Draft(c), l, first[1], first[2])

-----------------------------------------------------------------------------
(* The calls.  Those that raise before they write have no effect; one whose *)
(* nested line item is refused by predicate.validate has stored the         *)
(* campaign, as CreateCampaign without a line item does.                    *)

RegisterBrand(a, domains) ==
  /\ verified' = [verified EXCEPT ![a] = domains]
  /\ UNCHANGED <<campaigns, lineItems, live, attribution>>

CreateCampaign(c, s, l, first) ==
  /\ campaigns' = Put(campaigns, c, [status |-> s, items |-> IF l = None THEN {} ELSE {l}])
  /\ IF l = None THEN UNCHANGED <<lineItems, live>> ELSE Place(c, l, first)
  /\ UNCHANGED <<verified, attribution>>

SetCampaignStatus(c, s) ==
  /\ c \in DOMAIN campaigns
  /\ s = "active" /\ campaigns[c].status = "draft" =>
       \E l \in campaigns[c].items : lineItems[l].status = "active"
  /\ campaigns' = [campaigns EXCEPT ![c].status = s]
  /\ live' = Exchanged(campaigns', lineItems)
  /\ UNCHANGED <<verified, lineItems, attribution>>

CreateLineItem(c, l, first) ==
  /\ c \in DOMAIN campaigns
  /\ campaigns' = [campaigns EXCEPT ![c].items = @ \cup {l}]
  /\ Place(c, l, first)
  /\ UNCHANGED <<verified, attribution>>

SubmitCreative(l, cr, content) ==
  /\ l \in DOMAIN lineItems
  /\ UNCHANGED campaigns /\ Submit(lineItems[l], l, cr, content)
  /\ UNCHANGED <<verified, attribution>>

RecordClick(k, l) ==
  /\ clicks' = [clicks EXCEPT ![k] = l]
  /\ UNCHANGED <<catalogue, conversions, accepted>>

\* Mutant of Convertible: an event reported again is taken again.
ConvertibleAgain(e, k) == clicks[k] # None

Convertible(e, k) == conversions[e] = None /\ clicks[k] # None

\* A report that is accepted.  One from a serving node or an unenrolled source
\* changes nothing, nor does one outside the click's window: when that passes is
\* left open.
ReportConversion(e, k) ==
  /\ Convertible(e, k)
  /\ conversions' = [conversions EXCEPT ![e] = clicks[k]] /\ accepted' = accepted + 1
  /\ UNCHANGED <<catalogue, clicks>>

\* What a campaign may be created as: its body says.  "paused" stands for the
\* schema's "completed" and "archived" too, which no code tells from it.
Statuses == {"draft", "active", "paused"}

Body == (Creatives \X Contents) \cup {None}

Next ==
  \/ \E a \in Advertisers, ds \in SUBSET Domains : RegisterBrand(a, ds)
  \/ \E c \in Campaigns, s \in Statuses :
       \/ CreateCampaign(c, s, None, None)
       \/ \E l \in LineItems, first \in Body : CreateCampaign(c, s, l, first)
  \/ \E c \in Campaigns, l \in LineItems, first \in Body : CreateLineItem(c, l, first)
  \/ \E c \in Campaigns, s \in {"active", "paused"} : SetCampaignStatus(c, s)
  \/ \E l \in LineItems, cr \in Creatives, content \in Contents : SubmitCreative(l, cr, content)
  \/ \E k \in Clicks, l \in LineItems : RecordClick(k, l)
  \/ \E e \in Events, k \in Clicks : ReportConversion(e, k)

Spec == Init /\ [][Next]_vars

-----------------------------------------------------------------------------
(* Properties.                                                              *)

CampaignRecord == [status : Statuses, items : SUBSET LineItems]
CreativeRecord == [id : Creatives, approved : BOOLEAN]
LineItemRecord == [campaign : Campaigns, status : {"draft", "active", "rejected"},
                   creatives : Seq(CreativeRecord)]
PartialMaps(D, R) == UNION {[S -> R] : S \in SUBSET D}

TypeOK ==
  /\ verified \in [Advertisers -> SUBSET Domains]
  /\ campaigns \in PartialMaps(Campaigns, CampaignRecord)
  /\ DOMAIN lineItems \subseteq LineItems
  /\ \A l \in DOMAIN lineItems : lineItems[l] \in LineItemRecord
  /\ DOMAIN live \subseteq DOMAIN lineItems
  /\ \A l \in DOMAIN lineItems : lineItems[l].campaign \in DOMAIN campaigns
  /\ clicks \in [Clicks -> LineItems \cup {None}]
  /\ conversions \in [Events -> LineItems \cup {None}] /\ accepted \in Nat

\* "test_rejected_creative_never_reaches_the_auction", beyond its first step: a
\* line item whose latest creative was rejected is in no auction and no bundle,
\* however many approved creatives it has and whatever becomes of its campaign.
RejectedIsOut ==
  \A l \in DOMAIN lineItems : lineItems[l].status = "rejected" => l \notin DOMAIN live

\* "test_paused_campaign_leaves_the_auction", and its line items stay out, while
\* review goes on: of a line item that was not sent again since, nor its campaign
\* without it (LiveIsActive, below, is about those), the exchange has the record
\* as it is now, its last review included, and under an active campaign only.
LiveIsCurrent ==
  \A l \in DOMAIN live :
    LET campaign == campaigns[lineItems[l].campaign]
    IN  lineItems[l].status # "draft" =>
          /\ live[l] = lineItems[l]
          /\ l \in campaign.items => campaign.status = "active"

\* What SetCampaignStatus accepts as servable is servable: an active line item
\* has an approved creative, though creatives are replaced one at a time.
ActiveIsApproved ==
  \A l \in DOMAIN lineItems : lineItems[l].status = "active" => HasApproved(lineItems[l])

\* A conversion reported again, its click recorded for another line item in
\* between or not, is accepted once.
ConvertedOnce == accepted = Cardinality({e \in Events : conversions[e] # None})

-----------------------------------------------------------------------------
(* What the code does not keep.                                             *)

\* "a creative reaches an auction only after its URLs resolve to verified domains
\* and its text has been scanned" (buyside.py): what the exchange serves of a line
\* item is its first creative.
ServedIsApproved == \A l \in DOMAIN live : live[l].creatives[1].approved

\* "Only active line items of active campaigns reach bundles and auctions"
\* (_sync_exchange), with calls that are sent again: create_campaign without line
\* items and create_line_item without creatives write and do not sync.
LiveIsActive ==
  \A l \in DOMAIN live :
    lineItems[l].status = "active" /\ campaigns[lineItems[l].campaign].status = "active"
=============================================================================
