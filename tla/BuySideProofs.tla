--------------------------- MODULE BuySideProofs ---------------------------
(***************************************************************************)
(* What the buy side guarantees of every sequence of calls, for every set  *)
(* of campaigns, line items, creatives and brands.                         *)
(***************************************************************************)
EXTENDS BuySide, DataLemmas

(***************************************************************************)
(* The inductive invariant.  Known: what the exchange has is a line item   *)
(* of a campaign that exists, so a campaign that is created cannot list it *)
(* but by writing it again.  Shaped is what the updates of one field rely  *)
(* on, and that the creative just reviewed is the last of its line item.   *)
(***************************************************************************)
Shaped ==
  /\ DOMAIN campaigns \subseteq Campaigns
  /\ \A c \in DOMAIN campaigns : campaigns[c] \in CampaignRecord
  /\ DOMAIN lineItems \subseteq LineItems
  /\ \A l \in DOMAIN lineItems : lineItems[l] \in LineItemRecord

Known ==
  /\ DOMAIN live \subseteq DOMAIN lineItems
  /\ \A l \in DOMAIN lineItems : lineItems[l].campaign \in DOMAIN campaigns

Inv == Shaped /\ Known /\ RejectedIsOut /\ LiveIsCurrent /\ ActiveIsApproved

(***************************************************************************)
(* Parts of the calls.                                                     *)
(***************************************************************************)
\* The recursion FoldLeft makes of the creatives that stay, over their indices.
Keeps(g, creatives, id) ==
  g = [T \in SUBSET (DOMAIN creatives) |->
         IF T = {} THEN <<>>
         ELSE IF creatives[Max(T)].id = id THEN g[T \ {Max(T)}]
              ELSE Append(g[T \ {Max(T)}], creatives[Max(T)])]

\* What is left of a list of creatives is a list of creatives.
LEMMA WithoutType ==
  ASSUME NEW creatives \in Seq(CreativeRecord), NEW id
  PROVE  Without(creatives, id) \in Seq(CreativeRecord)
<1> DEFINE n == Len(creatives)
           V == Seq(CreativeRecord)
           Next1(i, kept) ==
             IF creatives[i].id = id THEN kept ELSE Append(kept, creatives[i])
           pick == [T \in SUBSET (1..n) |-> Max(T)]
           step == [p \in (1..n) \X V |-> Next1(p[1], p[2])]
           c == CHOOSE g : Keeps(g, creatives, id)
<1>1. n \in Nat /\ DOMAIN creatives = 1..n /\ \A i \in 1..n : creatives[i] \in CreativeRecord
  OBVIOUS
<1>2. <<>> \in V OBVIOUS
<1>3. \A T \in (SUBSET (1..n)) \ {{}} : pick[T] \in T
  <2> SUFFICES ASSUME NEW T \in SUBSET (1..n), T # {} PROVE Max(T) \in T OBVIOUS
  <2> HIDE DEF n
  <2> QED BY <1>1, MaxOfIndices
<1>4. ASSUME NEW i \in 1..n, NEW kept \in V PROVE Next1(i, kept) \in V
  <2>1. Append(kept, creatives[i]) \in V BY <1>1
  <2> QED BY <2>1
<1>5. step \in [(1..n) \X V -> V]
  <2> HIDE DEF V, Next1
  <2> QED BY <1>4
<1>6. PICK g : Peels(g, 1..n, V, <<>>, pick, step)
  <2>1. IsFiniteSet(1..n) BY <1>1, FS_Interval
  <2> HIDE DEF n, pick, step, V
  <2> QED BY <1>2, <1>3, <1>5, <2>1, PeelExists
<1>7. Keeps(g, creatives, id)
  <2>1. g \in [SUBSET (1..n) -> V] BY <1>6 DEF Peels
  <2>2. ASSUME NEW T \in SUBSET (1..n)
        PROVE  g[T] = IF T = {} THEN <<>> ELSE Next1(Max(T), g[T \ {Max(T)}])
    <3>1. CASE T = {} BY <1>6, <3>1 DEF Peels
    <3>2. CASE T # {}
      <4>1. pick[T] = Max(T) /\ Max(T) \in 1..n BY <1>3, <3>2
      <4>2. g[T \ {Max(T)}] \in V BY <2>1
      <4>3. g[T] = step[<<pick[T], g[T \ {pick[T]}]>>]
        <5> HIDE DEF pick, step, n, V
        <5> QED BY <1>6, <3>2 DEF Peels
      <4> HIDE DEF V, Next1
      <4> QED BY <3>2, <4>1, <4>2, <4>3
    <3> QED BY <3>1, <3>2
  <2> QED BY <1>1, <2>1, <2>2 DEF Keeps
<1>8. Keeps(c, creatives, id) BY <1>7, Zenon
<1>9. Without(creatives, id) = c[DOMAIN creatives]
  BY Zenon DEF Without, FoldLeft, MapThenFoldSet, Keeps
<1> HIDE DEF c
<1> DEFINE P == {T \in SUBSET (1..n) : c[T] \in V}
<1>10. ASSUME NEW T \in SUBSET (1..n), \A x \in T : T \ {x} \in P PROVE T \in P
  <2>1. c[T] = IF T = {} THEN <<>> ELSE Next1(Max(T), c[T \ {Max(T)}])
    BY <1>1, <1>8 DEF Keeps
  <2>2. CASE T = {} BY <1>2, <2>1, <2>2
  <2>3. CASE T # {}
    <3>1. Max(T) \in T BY <1>3, <2>3
    <3>2. c[T \ {Max(T)}] \in V BY <1>10, <3>1
    <3> HIDE DEF V, Next1
    <3> QED BY <1>4, <2>1, <2>3, <3>1, <3>2
  <2> QED BY <2>2, <2>3
<1>11. \A T \in SUBSET (1..n) : T \in P
  <2>1. IsFiniteSet(1..n) BY <1>1, FS_Interval
  <2> HIDE DEF P, n
  <2> QED BY <1>10, <2>1, AllSubsets
<1> QED BY <1>1, <1>9, <1>11

\* A submission changes the creatives and the status of a line item, no more, and
\* the status says what became of the creative it adds.
LEMMA ItemKept ==
  ASSUME NEW item \in LineItemRecord, NEW rec \in CreativeRecord
  PROVE  LET new == WithCreative(item, rec)
         IN  /\ new \in LineItemRecord /\ new.campaign = item.campaign
             /\ new.status = "active" => HasApproved(new)
<1> DEFINE kept == Without(item.creatives, rec.id)
           cs == Append(kept, rec)
           s == IF rec.approved THEN "active" ELSE "rejected"
           new == WithCreative(item, rec)
<1>1. new = [item EXCEPT !.creatives = cs, !.status = s] BY DEF WithCreative
<1>2. kept \in Seq(CreativeRecord) BY WithoutType DEF LineItemRecord
<1> HIDE DEF kept
<1>3. cs \in Seq(CreativeRecord) /\ Len(kept) + 1 \in DOMAIN cs /\ cs[Len(kept) + 1] = rec
  BY <1>2
<1>4. s \in {"draft", "active", "rejected"} /\ (s = "active" => rec.approved)
  BY DEF CreativeRecord
<1> HIDE DEF cs, s, new
<1>5. new \in LineItemRecord /\ new.campaign = item.campaign
      /\ new.creatives = cs /\ new.status = s
  BY <1>1, <1>3, <1>4 DEF LineItemRecord
<1>6. new.status = "active" => HasApproved(new) BY <1>3, <1>4, <1>5 DEF HasApproved
<1> QED BY <1>5, <1>6 DEF new

\* Every call that syncs leaves only servable line items with the exchange.
LEMMA Synced ==
  ASSUME live' = Exchanged(campaigns', lineItems')
  PROVE  /\ RejectedIsOut' /\ LiveIsCurrent'
         /\ \A l \in DOMAIN live' : l \in DOMAIN lineItems' /\ live'[l] = lineItems'[l]
BY DEF Exchanged, RejectedIsOut, LiveIsCurrent

\* A review's verdict is a creative of the line item.
LEMMA ReviewedType ==
  ASSUME NEW l, NEW cr \in Creatives, NEW content
  PROVE  Reviewed(l, cr, content) \in CreativeRecord
BY DEF Reviewed, CreativeRecord

\* submit_creative, whatever the call did to the campaigns.
LEMMA Submitted ==
  ASSUME Inv, NEW item \in LineItemRecord, NEW l \in LineItems, NEW cr \in Creatives,
         NEW content,
         item.campaign \in DOMAIN campaigns', DOMAIN campaigns \subseteq DOMAIN campaigns',
         DOMAIN campaigns' \subseteq Campaigns,
         \A c \in DOMAIN campaigns' : campaigns'[c] \in CampaignRecord,
         Submit(item, l, cr, content)
  PROVE  Inv'
<1> DEFINE new == WithCreative(item, Reviewed(l, cr, content))
<1>1. lineItems' = Put(lineItems, l, new) /\ live' = Exchanged(campaigns', lineItems')
  BY DEF Submit
<1>2. /\ new \in LineItemRecord /\ new.campaign = item.campaign
      /\ new.status = "active" => HasApproved(new)
  BY ReviewedType, ItemKept
<1> HIDE DEF new
<1>3. /\ DOMAIN lineItems' = (DOMAIN lineItems) \cup {l}
      /\ \A j \in DOMAIN lineItems' :
           lineItems'[j] = new \/ (j \in DOMAIN lineItems /\ lineItems'[j] = lineItems[j])
  BY <1>1 DEF Put
<1>4. Shaped' BY <1>2, <1>3 DEF Inv, Shaped
<1>5. \A j \in DOMAIN lineItems' : lineItems'[j].campaign \in DOMAIN campaigns'
  BY <1>2, <1>3 DEF Inv, Known
<1>6. Known' BY <1>1, <1>5, Synced DEF Known
<1>7. ActiveIsApproved' BY <1>2, <1>3 DEF Inv, ActiveIsApproved
<1> QED BY <1>1, <1>4, <1>6, <1>7, Synced DEF Inv

\* The two create calls: the line item goes to campaign c, and nothing else that
\* a campaign lists was not listed before, nor is its campaign's status another.
LEMMA Placed ==
  ASSUME Inv, NEW c, NEW l \in LineItems, NEW first \in Body,
         c \in DOMAIN campaigns', DOMAIN campaigns \subseteq DOMAIN campaigns',
         DOMAIN campaigns' \subseteq Campaigns,
         \A d \in DOMAIN campaigns' : campaigns'[d] \in CampaignRecord,
         \A d \in DOMAIN campaigns, j \in LineItems :
           j # l /\ j \in campaigns'[d].items =>
             j \in campaigns[d].items /\ campaigns'[d].status = campaigns[d].status,
         Place(c, l, first)
  PROVE  Inv'
<1>1. Draft(c).campaign = c /\ Draft(c).status = "draft" /\ Draft(c) \in LineItemRecord
  <2>1. <<>> \in Seq(CreativeRecord) OBVIOUS
  <2> QED BY <2>1 DEF Draft, LineItemRecord
<1>2. CASE first = None
  <2>1. lineItems' = Put(lineItems, l, Draft(c)) /\ live' = live BY <1>2 DEF Place
  <2>2. /\ DOMAIN lineItems' = (DOMAIN lineItems) \cup {l}
        /\ \A j \in DOMAIN lineItems' :
             lineItems'[j] = Draft(c) \/ (j \in DOMAIN lineItems /\ lineItems'[j] = lineItems[j])
    BY <2>1 DEF Put
  <2>3. Shaped' BY <1>1, <2>2 DEF Inv, Shaped
  <2>4. Known' BY <1>1, <2>1, <2>2 DEF Inv, Known
  <2>5. RejectedIsOut' BY <1>1, <2>1, <2>2 DEF Inv, RejectedIsOut
  <2>6. LiveIsCurrent'
    <3> SUFFICES ASSUME NEW j \in DOMAIN live', lineItems'[j].status # "draft"
                 PROVE  LET campaign == campaigns'[lineItems'[j].campaign]
                        IN  /\ live'[j] = lineItems'[j]
                            /\ j \in campaign.items => campaign.status = "active"
      BY DEF LiveIsCurrent
    <3>1. j \in DOMAIN live /\ j \in DOMAIN lineItems /\ j \in LineItems
      BY <2>1 DEF Inv, Known, Shaped
    <3>2. j # l /\ lineItems'[j] = lineItems[j] BY <1>1, <2>1, <3>1 DEF Put
    <3>3. lineItems[j].campaign \in DOMAIN campaigns BY <3>1 DEF Inv, Known
    <3> QED BY <2>1, <3>1, <3>2, <3>3 DEF Inv, LiveIsCurrent
  <2>7. ActiveIsApproved' BY <1>1, <2>2 DEF Inv, ActiveIsApproved
  <2> QED BY <2>3, <2>4, <2>5, <2>6, <2>7 DEF Inv
<1>3. CASE first # None
  <2>1. Submit(Draft(c), l, first[1], first[2]) BY <1>3 DEF Place
  <2>2. first[1] \in Creatives BY <1>3 DEF Body
  <2> QED BY <1>1, <2>1, <2>2, Submitted
<1> QED BY <1>2, <1>3

(***************************************************************************)
(* One lemma per call.                                                     *)
(***************************************************************************)
LEMMA CreateKeeps ==
  ASSUME Inv, NEW c \in Campaigns, NEW s \in Statuses, NEW l \in LineItems \cup {None},
         NEW first \in Body, CreateCampaign(c, s, l, first)
  PROVE  Inv'
<1> DEFINE new == [status |-> s, items |-> IF l = None THEN {} ELSE {l}]
<1>1. campaigns' = Put(campaigns, c, new) BY DEF CreateCampaign
<1>2. new \in CampaignRecord /\ \A j \in LineItems : j # l => j \notin new.items
  <2>1. (IF l = None THEN {} ELSE {l}) \in SUBSET LineItems OBVIOUS
  <2> QED BY <2>1, BuySideAssumption DEF CampaignRecord
<1> HIDE DEF new
<1>3. /\ DOMAIN campaigns' = (DOMAIN campaigns) \cup {c}
      /\ \A d \in DOMAIN campaigns' :
           campaigns'[d] = new \/ (d \in DOMAIN campaigns /\ campaigns'[d] = campaigns[d])
  BY <1>1 DEF Put
<1>4. \A d \in DOMAIN campaigns' : campaigns'[d] \in CampaignRecord
  BY <1>2, <1>3 DEF Inv, Shaped
<1>5. \A d \in DOMAIN campaigns, j \in LineItems :
        j # l /\ j \in campaigns'[d].items =>
          j \in campaigns[d].items /\ campaigns'[d].status = campaigns[d].status
  BY <1>2, <1>3
<1>6. DOMAIN campaigns' \subseteq Campaigns BY <1>3 DEF Inv, Shaped
<1>7. CASE l = None
  <2>1. UNCHANGED <<lineItems, live>> BY <1>7 DEF CreateCampaign
  <2>2. LiveIsCurrent'
    <3>1. \A j \in DOMAIN live : j \in LineItems /\ j # l BY <1>7, BuySideAssumption
                                                       DEF Inv, Known, Shaped
    <3> QED BY <1>5, <2>1, <3>1 DEF Inv, Known, LiveIsCurrent
  <2> QED BY <1>3, <1>4, <1>6, <2>1, <2>2 DEF Inv, Shaped, Known, RejectedIsOut, ActiveIsApproved
<1>8. CASE l # None
  <2>1. Place(c, l, first) BY <1>8 DEF CreateCampaign
  <2> QED BY <1>3, <1>4, <1>5, <1>6, <1>8, <2>1, Placed
<1> QED BY <1>7, <1>8

LEMMA LineItemKeeps ==
  ASSUME Inv, NEW c \in Campaigns, NEW l \in LineItems, NEW first \in Body,
         CreateLineItem(c, l, first)
  PROVE  Inv'
<1>1. /\ c \in DOMAIN campaigns /\ DOMAIN campaigns' = DOMAIN campaigns
      /\ campaigns'[c] = [campaigns[c] EXCEPT !.items = @ \cup {l}]
      /\ \A d \in DOMAIN campaigns : d # c => campaigns'[d] = campaigns[d]
  <2> DEFINE new == [campaigns[c] EXCEPT !.items = campaigns[c].items \cup {l}]
  <2>1. c \in DOMAIN campaigns /\ campaigns' = [campaigns EXCEPT ![c] = new] BY DEF CreateLineItem
  <2> HIDE DEF new
  <2>2. /\ DOMAIN campaigns' = DOMAIN campaigns /\ campaigns'[c] = new
        /\ \A d \in DOMAIN campaigns : d # c => campaigns'[d] = campaigns[d]
    BY <2>1
  <2> QED BY <2>1, <2>2 DEF new
<1>2. \A d \in DOMAIN campaigns :
        /\ campaigns'[d] \in CampaignRecord
        /\ campaigns'[d].status = campaigns[d].status
        /\ \A j \in LineItems : j # l /\ j \in campaigns'[d].items => j \in campaigns[d].items
  BY <1>1 DEF Inv, Shaped, CampaignRecord
<1>3. Place(c, l, first) BY DEF CreateLineItem
<1>4. DOMAIN campaigns' \subseteq Campaigns BY <1>1 DEF Inv, Shaped
<1> QED BY <1>1, <1>2, <1>3, <1>4, Placed

LEMMA StatusKeeps ==
  ASSUME Inv, NEW c \in Campaigns, NEW s \in {"active", "paused"}, SetCampaignStatus(c, s)
  PROVE  Inv'
<1>1. /\ c \in DOMAIN campaigns /\ DOMAIN campaigns' = DOMAIN campaigns
      /\ campaigns'[c] = [campaigns[c] EXCEPT !.status = s]
      /\ \A d \in DOMAIN campaigns : d # c => campaigns'[d] = campaigns[d]
      /\ lineItems' = lineItems /\ live' = Exchanged(campaigns', lineItems')
  BY DEF SetCampaignStatus
<1>2. \A d \in DOMAIN campaigns : campaigns'[d] \in CampaignRecord
  <2>1. campaigns[c] \in CampaignRecord BY <1>1 DEF Inv, Shaped
  <2>2. s \in Statuses BY DEF Statuses
  <2>3. campaigns'[c] \in CampaignRecord BY <1>1, <2>1, <2>2 DEF CampaignRecord
  <2> QED BY <1>1, <2>3 DEF Inv, Shaped
<1>3. Shaped' BY <1>1, <1>2 DEF Inv, Shaped
<1>4. Known' BY <1>1, Synced DEF Inv, Known
<1>5. ActiveIsApproved' BY <1>1 DEF Inv, ActiveIsApproved
<1> QED BY <1>1, <1>3, <1>4, <1>5, Synced DEF Inv

LEMMA SubmissionKeeps ==
  ASSUME Inv, NEW l \in LineItems, NEW cr \in Creatives, NEW content,
         SubmitCreative(l, cr, content)
  PROVE  Inv'
<1>1. /\ l \in DOMAIN lineItems /\ campaigns' = campaigns
      /\ Submit(lineItems[l], l, cr, content)
  BY DEF SubmitCreative
<1>2. /\ lineItems[l] \in LineItemRecord /\ lineItems[l].campaign \in DOMAIN campaigns
      /\ DOMAIN campaigns \subseteq Campaigns
      /\ \A c \in DOMAIN campaigns : campaigns[c] \in CampaignRecord
  BY <1>1 DEF Inv, Shaped, Known
<1> QED BY <1>1, <1>2, Submitted

\* The calls that leave the catalogue alone.
LEMMA CatalogueKept ==
  ASSUME Inv, UNCHANGED <<campaigns, lineItems, live>>
  PROVE  Inv'
BY DEF Inv, Shaped, Known, RejectedIsOut, LiveIsCurrent, ActiveIsApproved

LEMMA StepKeeps == Inv /\ [Next]_vars => Inv'
<1> SUFFICES ASSUME Inv, [Next]_vars PROVE Inv' OBVIOUS
<1>1. CASE UNCHANGED vars BY <1>1, CatalogueKept DEF vars, catalogue
<1>2. ASSUME NEW a \in Advertisers, NEW ds \in SUBSET Domains, RegisterBrand(a, ds)
      PROVE  Inv'
  BY <1>2, CatalogueKept DEF RegisterBrand
<1>3. ASSUME NEW k \in Clicks, NEW l \in LineItems, RecordClick(k, l)
      PROVE  Inv'
  BY <1>3, CatalogueKept DEF RecordClick, catalogue
<1>4. ASSUME NEW e \in Events, NEW k \in Clicks, ReportConversion(e, k)
      PROVE  Inv'
  BY <1>4, CatalogueKept DEF ReportConversion, catalogue
<1>5. None \in LineItems \cup {None} /\ None \in Body BY DEF Body
<1> QED BY <1>1, <1>2, <1>3, <1>4, <1>5, CreateKeeps, LineItemKeeps, StatusKeeps, SubmissionKeeps
        DEF Next

\* The invariant holds in every reachable state.
THEOREM CatalogueInvariant == Spec => []Inv
<1>1. Init => Inv BY DEF Init, Inv, Shaped, Known, RejectedIsOut, LiveIsCurrent, ActiveIsApproved
<1> QED BY <1>1, StepKeeps, PTL DEF Spec

\* A line item whose latest creative was rejected (submit_creative) is with the
\* exchange under no sequence of calls, those sent again included.
THEOREM RejectedOut == Spec => []RejectedIsOut
BY CatalogueInvariant, PTL DEF Inv

\* Whatever is written in whatever order, re-created or not: but for line items sent
\* again without creatives, and campaigns sent again without their line items, the
\* exchange has each line item as it is now and has it under an active campaign
\* (set_campaign_status, submit_creative, _sync_exchange).
THEOREM LiveCurrent == Spec => []LiveIsCurrent
BY CatalogueInvariant, PTL DEF Inv

\* An active line item has an approved creative after every sequence of calls
\* (submit_creative), so that set_campaign_status and _sync_exchange, which look
\* only at the status, do not activate a campaign with nothing to serve.
THEOREM ActiveApproved == Spec => []ActiveIsApproved
BY CatalogueInvariant, PTL DEF Inv

(***************************************************************************)
(* What the create calls that are sent again leave behind.  Without them   *)
(* the claim of _sync_exchange holds as it is written.                     *)
(***************************************************************************)
\* No call makes a reviewed line item a draft again, or takes a line item off its
\* campaign's list.
SentOnce ==
  /\ \A l \in DOMAIN lineItems : lineItems'[l].status = "draft" => lineItems[l].status = "draft"
  /\ \A c \in DOMAIN campaigns : campaigns[c].items \subseteq campaigns'[c].items

Listed == \A l \in DOMAIN lineItems : l \in campaigns[lineItems[l].campaign].items
Undrafted == \A l \in DOMAIN live : lineItems[l].status # "draft"

\* A call syncs or leaves what the exchange has alone, and a line item is of the
\* campaign it was of or of one that lists it.
LiveWritten == live' = live \/ live' = Exchanged(campaigns', lineItems')
ListedOrKept ==
  \A j \in DOMAIN lineItems' :
    \/ j \in DOMAIN lineItems /\ lineItems'[j].campaign = lineItems[j].campaign
    \/ j \in campaigns'[lineItems'[j].campaign].items

LEMMA PlacedListed ==
  ASSUME NEW c, NEW l, NEW first \in Body, l \in campaigns'[c].items, Place(c, l, first)
  PROVE  LiveWritten /\ ListedOrKept
<1>1. CASE first = None
  <2>1. lineItems' = Put(lineItems, l, Draft(c)) /\ live' = live BY <1>1 DEF Place
  <2>2. Draft(c).campaign = c BY DEF Draft
  <2> QED BY <2>1, <2>2 DEF Put, LiveWritten, ListedOrKept
<1>2. CASE first # None
  <2> DEFINE rec == Reviewed(l, first[1], first[2])
             new == WithCreative(Draft(c), rec)
  <2>1. lineItems' = Put(lineItems, l, new) /\ live' = Exchanged(campaigns', lineItems')
    BY <1>2 DEF Place, Submit
  <2>2. new.campaign = c BY DEF WithCreative, Draft
  <2> HIDE DEF new
  <2> QED BY <2>1, <2>2 DEF Put, LiveWritten, ListedOrKept
<1> QED BY <1>1, <1>2

LEMMA CallListed ==
  ASSUME Inv, [Next]_vars
  PROVE  LiveWritten /\ ListedOrKept
<1>1. CASE UNCHANGED <<lineItems, live>> BY <1>1 DEF LiveWritten, ListedOrKept
<1>2. ASSUME NEW c \in Campaigns, NEW s \in Statuses, NEW l \in LineItems \cup {None},
             NEW first \in Body, CreateCampaign(c, s, l, first)
      PROVE  LiveWritten /\ ListedOrKept
  <2>1. CASE l = None BY <1>1, <1>2, <2>1 DEF CreateCampaign
  <2>2. CASE l # None
    <3>1. Place(c, l, first) /\ l \in campaigns'[c].items
      BY <1>2, <2>2 DEF CreateCampaign, Put
    <3> QED BY <3>1, PlacedListed
  <2> QED BY <2>1, <2>2
<1>3. ASSUME NEW c \in Campaigns, NEW l \in LineItems, NEW first \in Body,
             CreateLineItem(c, l, first)
      PROVE  LiveWritten /\ ListedOrKept
  <2> DEFINE new == [campaigns[c] EXCEPT !.items = campaigns[c].items \cup {l}]
  <2>1. c \in DOMAIN campaigns /\ campaigns' = [campaigns EXCEPT ![c] = new]
        /\ Place(c, l, first)
    BY <1>3 DEF CreateLineItem
  <2>2. campaigns[c] \in CampaignRecord BY <2>1 DEF Inv, Shaped
  <2>3. l \in new.items BY <2>2 DEF CampaignRecord
  <2> HIDE DEF new
  <2> QED BY <2>1, <2>3, PlacedListed
<1>4. ASSUME NEW c, NEW s, SetCampaignStatus(c, s)
      PROVE  LiveWritten /\ ListedOrKept
  BY <1>4 DEF SetCampaignStatus, LiveWritten, ListedOrKept
<1>5. ASSUME NEW l, NEW cr, NEW content, SubmitCreative(l, cr, content)
      PROVE  LiveWritten /\ ListedOrKept
  <2> DEFINE new == WithCreative(lineItems[l], Reviewed(l, cr, content))
  <2>1. /\ l \in DOMAIN lineItems /\ lineItems' = Put(lineItems, l, new)
        /\ live' = Exchanged(campaigns', lineItems')
    BY <1>5 DEF SubmitCreative, Submit
  <2>2. lineItems[l] \in LineItemRecord BY <2>1 DEF Inv, Shaped
  <2>3. new.campaign = lineItems[l].campaign BY <2>2 DEF WithCreative, LineItemRecord
  <2> HIDE DEF new
  <2> QED BY <2>1, <2>3 DEF Put, LiveWritten, ListedOrKept
<1>6. None \in LineItems \cup {None} /\ None \in Body BY DEF Body
<1> QED BY <1>1, <1>2, <1>3, <1>4, <1>5, <1>6
      DEF Next, vars, catalogue, RegisterBrand, RecordClick, ReportConversion

\* As long as no create call takes back what an earlier one and its review made,
\* only active line items of active campaigns are with the exchange
\* (_sync_exchange): what MCBuySideRetried violates takes a call sent again.
THEOREM LiveActive == Spec /\ [][SentOnce]_vars => []LiveIsActive
<1>1. Init => Listed /\ Undrafted BY DEF Init, Listed, Undrafted
<1>2. Inv /\ Listed /\ Undrafted /\ [Next]_vars /\ [SentOnce]_vars => Listed' /\ Undrafted'
  <2> SUFFICES ASSUME Inv, Listed, Undrafted, [Next]_vars, [SentOnce]_vars
               PROVE  Listed' /\ Undrafted'
    OBVIOUS
  <2>1. LiveWritten /\ ListedOrKept BY CallListed
  <2>2. SentOnce BY DEF SentOnce, vars, catalogue
  <2>3. Listed'
    <3>1. \A j \in DOMAIN lineItems : lineItems[j].campaign \in DOMAIN campaigns
      BY DEF Inv, Known
    <3> QED BY <2>1, <2>2, <3>1 DEF Listed, ListedOrKept, SentOnce
  <2>4. Undrafted'
    <3>1. CASE live' = live BY <2>2, <3>1 DEF Inv, Known, Undrafted, SentOnce
    <3>2. CASE live' = Exchanged(campaigns', lineItems') BY <3>2 DEF Exchanged, Undrafted
    <3> QED BY <2>1, <3>1, <3>2 DEF LiveWritten
  <2> QED BY <2>3, <2>4
<1>3. Inv /\ Listed /\ Undrafted => LiveIsActive
  <2> SUFFICES ASSUME Inv, Listed, Undrafted, NEW l \in DOMAIN live
               PROVE  /\ lineItems[l].status = "active"
                      /\ campaigns[lineItems[l].campaign].status = "active"
    BY DEF LiveIsActive
  <2>1. l \in DOMAIN lineItems /\ lineItems[l] \in LineItemRecord BY DEF Inv, Known, Shaped
  <2>2. lineItems[l].status = "active"
    BY <2>1 DEF Inv, RejectedIsOut, Undrafted, LineItemRecord
  <2> QED BY <2>1, <2>2 DEF Inv, LiveIsCurrent, Listed
<1> QED BY <1>1, <1>2, <1>3, CatalogueInvariant, PTL DEF Spec

\* What the buy side keeps outside the catalogue is what the calls put there, and
\* its campaigns are a dictionary.
Noted ==
  /\ verified \in [Advertisers -> SUBSET Domains]
  /\ campaigns = [c \in DOMAIN campaigns |-> campaigns[c]]
  /\ clicks \in [Clicks -> LineItems \cup {None}]
  /\ conversions \in [Events -> LineItems \cup {None}] /\ accepted \in Nat

LEMMA NotedKept == Noted /\ [Next]_vars => Noted'
<1> SUFFICES ASSUME Noted, [Next]_vars PROVE Noted' OBVIOUS
<1> DEFINE Wrote == campaigns' = [c \in DOMAIN campaigns' |-> campaigns'[c]]
<1>1. ASSUME UNCHANGED <<verified, attribution>>, Wrote PROVE Noted'
  BY <1>1 DEF Noted, attribution
<1>2. ASSUME NEW a \in Advertisers, NEW ds \in SUBSET Domains, RegisterBrand(a, ds)
      PROVE  Noted'
  BY <1>2 DEF Noted, RegisterBrand, attribution
<1>3. ASSUME NEW k \in Clicks, NEW l \in LineItems, RecordClick(k, l) PROVE Noted'
  BY <1>3 DEF Noted, RecordClick, catalogue
<1>4. ASSUME NEW e \in Events, NEW k \in Clicks, ReportConversion(e, k) PROVE Noted'
  BY <1>4 DEF Noted, ReportConversion, catalogue
<1>5. ASSUME NEW c, NEW s, NEW l, NEW first, CreateCampaign(c, s, l, first)
      PROVE  UNCHANGED <<verified, attribution>> /\ Wrote
  BY <1>5 DEF CreateCampaign, Put
<1>6. ASSUME NEW c, NEW l, NEW first, CreateLineItem(c, l, first)
      PROVE  UNCHANGED <<verified, attribution>> /\ Wrote
  <2> DEFINE new == [campaigns[c] EXCEPT !.items = campaigns[c].items \cup {l}]
  <2>1. campaigns' = [campaigns EXCEPT ![c] = new] /\ UNCHANGED <<verified, attribution>>
    BY <1>6 DEF CreateLineItem
  <2> HIDE DEF new
  <2> QED BY <2>1 DEF Noted
<1>7. ASSUME NEW c, NEW s, SetCampaignStatus(c, s)
      PROVE  UNCHANGED <<verified, attribution>> /\ Wrote
  <2> DEFINE new == [campaigns[c] EXCEPT !.status = s]
  <2>1. campaigns' = [campaigns EXCEPT ![c] = new] /\ UNCHANGED <<verified, attribution>>
    BY <1>7 DEF SetCampaignStatus
  <2> HIDE DEF new
  <2> QED BY <2>1 DEF Noted
<1>8. ASSUME UNCHANGED <<verified, campaigns, attribution>> PROVE Noted'
  BY <1>8 DEF Noted, attribution
<1>9. ASSUME NEW l, NEW cr, NEW content, SubmitCreative(l, cr, content) PROVE Noted'
  BY <1>8, <1>9 DEF SubmitCreative
<1>10. CASE UNCHANGED vars BY <1>8, <1>10 DEF vars, catalogue
<1> HIDE DEF Wrote
<1> QED BY <1>1, <1>2, <1>3, <1>4, <1>5, <1>6, <1>7, <1>9, <1>10 DEF Next

\* Every field keeps its type, and what is with the exchange is a line item the
\* buy side has, under a campaign it has (create_line_item, _sync_exchange).
THEOREM TypeCorrect == Spec => []TypeOK
<1>1. Inv /\ Noted => TypeOK
  <2> SUFFICES ASSUME Inv, Noted PROVE TypeOK OBVIOUS
  <2>1. campaigns \in [DOMAIN campaigns -> CampaignRecord] BY DEF Inv, Shaped, Noted
  <2>2. campaigns \in PartialMaps(Campaigns, CampaignRecord)
    BY <2>1 DEF PartialMaps, Inv, Shaped
  <2> QED BY <2>2 DEF TypeOK, Inv, Shaped, Known, Noted
<1>2. Init => Noted BY DEF Init, Noted
<1> QED BY <1>1, <1>2, NotedKept, CatalogueInvariant, PTL DEF Spec

\* However often an event is reported, and under whatever clicks, it is accepted
\* once (report_conversion).
THEOREM AcceptedOnce == Spec => []ConvertedOnce
<1> DEFINE Converted == {e \in Events : conversions[e] # None}
           Typed == /\ conversions \in [Events -> LineItems \cup {None}]
                    /\ clicks \in [Clicks -> LineItems \cup {None}] /\ accepted \in Nat
           Count == Typed /\ ConvertedOnce
<1>1. Init => Count
  <2> SUFFICES ASSUME Init PROVE Count OBVIOUS
  <2>1. Converted = {} BY DEF Init
  <2>2. Typed BY DEF Init
  <2>3. Cardinality(Converted) = 0 BY <2>1, FS_EmptySet
  <2> QED BY <2>2, <2>3 DEF Init, ConvertedOnce
<1>2. Count /\ [Next]_vars => Count'
  <2> SUFFICES ASSUME Count, [Next]_vars PROVE Count' OBVIOUS
  <2>1. CASE UNCHANGED <<conversions, accepted>> /\ Typed'
    BY <2>1 DEF ConvertedOnce
  <2>2. ASSUME NEW e \in Events, NEW k \in Clicks, ReportConversion(e, k)
        PROVE  Count'
    <3>1. /\ conversions[e] = None /\ clicks[k] # None
          /\ conversions' = [conversions EXCEPT ![e] = clicks[k]]
          /\ accepted' = accepted + 1 /\ clicks' = clicks
      BY <2>2 DEF ReportConversion, Convertible
    <3>2. Converted' = Converted \cup {e} /\ e \notin Converted BY <3>1
    <3>3. IsFiniteSet(Converted) BY FS_Subset, BuySideAssumption
    <3>4. Cardinality(Converted') = Cardinality(Converted) + 1 BY <3>2, <3>3, FS_AddElement
    <3>5. Typed' BY <3>1
    <3> QED BY <3>1, <3>4, <3>5 DEF ConvertedOnce
  <2>3. ASSUME NEW k \in Clicks, NEW l \in LineItems, RecordClick(k, l)
        PROVE  UNCHANGED <<conversions, accepted>> /\ Typed'
    BY <2>3 DEF RecordClick
  <2>4. ASSUME UNCHANGED attribution PROVE UNCHANGED <<conversions, accepted>> /\ Typed'
    BY <2>4 DEF attribution
  <2>5. \/ UNCHANGED attribution
        \/ \E e \in Events, k \in Clicks : ReportConversion(e, k)
        \/ \E k \in Clicks, l \in LineItems : RecordClick(k, l)
    BY DEF Next, vars, RegisterBrand, CreateCampaign, SetCampaignStatus, CreateLineItem,
           SubmitCreative
  <2> QED BY <2>1, <2>2, <2>3, <2>4, <2>5
<1> QED BY <1>1, <1>2, PTL DEF Spec
=============================================================================
