------------------------------- MODULE Supply -------------------------------
(***************************************************************************)
(* One serving node: the proxy's handler threads (proxy.py, middleware.py, *)
(* node.py) deciding locally, its scheduler thread syncing the bundle and  *)
(* flushing receipts, and the network between it and the exchange.  Of the *)
(* exchange it keeps what decides whether a receipt is paid.               *)
(*                                                                         *)
(* Bundles are numbered as issued; an impression is its position in        *)
(* `rendered`.  Which eligible bid wins is module Auction's concern: here  *)
(* any may.  The line items carry no frequency cap.                        *)
(***************************************************************************)
EXTENDS Naturals, SequencesExt

CONSTANTS
  LineItems, Capped,   \* line items, those with a budget_micros
  Contents,            \* the sets of line items a bundle may be issued with
  SliceSizes,          \* the slices allocate may return
  Threads,             \* handler threads inside complete() at once
  None,
  MaxTurns, MaxBundles, MaxCrashes, MaxDelayed   \* bounds of the model

ASSUME SupplyAssumption ==
  /\ Capped \subseteq LineItems /\ Contents \subseteq SUBSET LineItems
  /\ SliceSizes \subseteq Nat /\ SliceSizes # {} /\ IsFiniteSet(Threads) /\ None \notin Nat
  /\ MaxTurns \in Nat /\ MaxBundles \in Nat /\ MaxCrashes \in Nat /\ MaxDelayed \in Nat

VARIABLES
  \* the node
  bundle,      \* node.bundle, None before the first one
  slices,      \* node._slices, and the bundle it was granted for
  pacing,      \* node._pacing
  thread,      \* [Threads -> where complete() is, and its locals]
  sched,       \* where the scheduler thread is
  boot,        \* inside make_proxy: it syncs once before it serves
  fetched,     \* the bundle sync_bundle holds, the local `bundle`
  pending,     \* middleware._pending
  batch,       \* the local of flush_receipts
  \* the network
  delayed,     \* uploads the client gave up on and the exchange has yet to read
  \* the exchange
  issued,      \* the line items of each bundle issued (_bundles)
  expired,     \* bundles whose expires_at has passed
  allocated,   \* _allocations: a partial function of <<bundle, line item>>
  billed,      \* _receipt_log
  rejected,    \* the impressions of _rejections
  \* history
  rendered,    \* every impression shown, with its receipt
  crashes

node == <<bundle, slices, pacing, thread, boot, fetched>>
exchange == <<issued, expired, allocated, billed, rejected>>
vars == <<node, sched, pending, batch, delayed, exchange, rendered, crashes>>

NoSlices == [of |-> None, size |-> <<>>]
Idle == [pc |-> "idle", lid |-> None, decided |-> None, bundle |-> None, index |-> 0,
         read |-> 0, sliced |-> FALSE, stale |-> FALSE]

Bundles == 1..MaxBundles
Turn == [pc : {"idle", "decided", "claimed", "recording", "recorded"}, lid : LineItems \cup {None},
         decided : Bundles \cup {None}, bundle : Bundles \cup {None},
         index : Nat, read : Nat, sliced : BOOLEAN, stale : BOOLEAN]
Receipt == [lid : LineItems, bundle : Bundles, index : Nat, late : BOOLEAN,
            decided : Bundles, sliced : BOOLEAN, stale : BOOLEAN]
Impressions == 1..MaxTurns
Batch == Seq(Impressions)

\* Every variable has its type, and an upload is never empty: the exchange
\* answers 400 to an empty batch (server.py:156), which would be retried forever.
TypeOK ==
  /\ bundle \in Bundles \cup {None} /\ fetched \in Bundles \cup {None}
  /\ slices.of \in Bundles \cup {None}
  /\ DOMAIN slices.size \subseteq Capped /\ Range(slices.size) \subseteq SliceSizes
  /\ pacing \in [LineItems -> Nat] /\ thread \in [Threads -> Turn] /\ boot \in BOOLEAN
  /\ sched \in {"sleep", "bundle", "store", "clear", "allocation", "flush", "upload"}
  /\ pending \in Batch /\ batch \in Batch /\ delayed \in Seq(Batch)
  /\ (sched = "upload") = (batch # <<>>)
  /\ issued \in Seq(Contents) /\ expired \subseteq Bundles
  /\ DOMAIN allocated \subseteq Bundles \X Capped /\ Range(allocated) \subseteq SliceSizes
  /\ billed \in Batch /\ rejected \subseteq Impressions
  /\ rendered \in Seq(Receipt) /\ crashes \in 0..MaxCrashes

Booting ==
  /\ bundle = None /\ slices = NoSlices /\ pacing = [l \in LineItems |-> 0]
  /\ thread = [t \in Threads |-> Idle]
  /\ sched = "bundle" /\ boot = TRUE /\ fetched = None
  /\ pending = <<>> /\ batch = <<>>

Init ==
  /\ Booting
  /\ delayed = <<>>
  /\ issued = <<>> /\ expired = {} /\ allocated = <<>> /\ billed = <<>> /\ rejected = {}
  /\ rendered = <<>> /\ crashes = 0

-----------------------------------------------------------------------------
(* Handler threads: complete() after the upstream call                     *)

\* Mutant of Open: an off-by-one lets the node use the slice and one more.
OpenOnePast(l) == l \in DOMAIN slices.size => pacing[l] <= slices.size[l]

\* A line item with a slice is served only inside it; one without is not limited.
Open(l) == l \in DOMAIN slices.size => pacing[l] < slices.size[l]

\* decide_local reads the bundle, its slices and the counts; any open item may win.
DecideLocal(t) ==
  /\ ~boot /\ bundle # None /\ thread[t].pc = "idle"
  /\ Len(rendered) + Cardinality({u \in Threads : thread[u].pc # "idle"}) < MaxTurns
  /\ \E l \in issued[bundle] :
       /\ Open(l)
       /\ thread' = [thread EXCEPT ![t] = [Idle EXCEPT
                       !.pc = "decided", !.lid = l, !.decided = bundle,
                       !.sliced = l \in DOMAIN slices.size /\ slices.of = bundle,
                       !.stale = bundle \in expired]]
  /\ UNCHANGED <<bundle, slices, pacing, boot, fetched, sched, pending, batch, delayed,
                 exchange, rendered, crashes>>

\* local_decision: the next index of the line item, under the bundle loaded now.
Claim(t) ==
  /\ thread[t].pc = "decided"
  /\ thread' = [thread EXCEPT ![t].pc = "claimed", ![t].bundle = bundle,
                              ![t].index = pacing[thread[t].lid]]
  /\ UNCHANGED <<bundle, slices, pacing, boot, fetched, sched, pending, batch, delayed,
                 exchange, rendered, crashes>>

\* record_delivery: `_pacing[lid] = _pacing.get(lid, 0) + 1` reads, then writes.
RecordRead(t) ==
  /\ thread[t].pc = "claimed"
  /\ thread' = [thread EXCEPT ![t].pc = "recording", ![t].read = pacing[thread[t].lid]]
  /\ UNCHANGED <<bundle, slices, pacing, boot, fetched, sched, pending, batch, delayed,
                 exchange, rendered, crashes>>

\* Mutant of RecordWrite: only line items with a slice are counted.
RecordWriteSlicedOnly(t) ==
  /\ thread[t].pc = "recording"
  /\ pacing' = IF thread[t].lid \in DOMAIN slices.size
               THEN [pacing EXCEPT ![thread[t].lid] = thread[t].read + 1] ELSE pacing
  /\ thread' = [thread EXCEPT ![t].pc = "recorded"]
  /\ UNCHANGED <<bundle, slices, boot, fetched, sched, pending, batch, delayed,
                 exchange, rendered, crashes>>

RecordWrite(t) ==
  /\ thread[t].pc = "recording"
  /\ pacing' = [pacing EXCEPT ![thread[t].lid] = thread[t].read + 1]
  /\ thread' = [thread EXCEPT ![t].pc = "recorded"]
  /\ UNCHANGED <<bundle, slices, boot, fetched, sched, pending, batch, delayed,
                 exchange, rendered, crashes>>

\* _queue_receipt, and the sponsored answer is returned.
Queue(t) ==
  LET d == thread[t]
  IN  /\ d.pc = "recorded"
      /\ rendered' = Append(rendered, [lid |-> d.lid, bundle |-> d.bundle, index |-> d.index,
                                       late |-> d.bundle \in expired, decided |-> d.decided,
                                       sliced |-> d.sliced, stale |-> d.stale])
      /\ pending' = Append(pending, Len(rendered) + 1)
      /\ thread' = [thread EXCEPT ![t] = Idle]
      /\ UNCHANGED <<bundle, slices, pacing, boot, fetched, sched, batch, delayed,
                     exchange, crashes>>

-----------------------------------------------------------------------------
(* The scheduler thread: sync_bundle, then flush_receipts                  *)

Wake ==
  /\ sched = "sleep" /\ sched' = "bundle"
  /\ UNCHANGED <<node, pending, batch, delayed, exchange, rendered, crashes>>

\* sync_bundle returns: make_proxy goes on to serve, the scheduler to flush.
Synced == /\ sched' = IF boot THEN "sleep" ELSE "flush"
          /\ boot' = FALSE /\ fetched' = None

\* GET /bundles: each one issues a new bundle.  Its answer may be lost.
FetchBundle ==
  /\ sched = "bundle" /\ Len(issued) < MaxBundles
  /\ \E content \in Contents : issued' = Append(issued, content)
  /\ \/ /\ sched' = "store" /\ fetched' = Len(issued) + 1 /\ UNCHANGED boot
     \/ Synced
  /\ UNCHANGED <<bundle, slices, pacing, thread, pending, batch, delayed,
                 expired, allocated, billed, rejected, rendered, crashes>>

\* Mutant of FetchBundleFails: a failed sync skips the flush of this round.
FetchBundleFailsNoFlush ==
  /\ sched = "bundle" /\ sched' = "sleep" /\ boot' = FALSE
  /\ UNCHANGED <<bundle, slices, pacing, thread, fetched, pending, batch, delayed, exchange,
                 rendered, crashes>>

FetchBundleFails ==
  /\ sched = "bundle" /\ Synced
  /\ UNCHANGED <<bundle, slices, pacing, thread, pending, batch, delayed, exchange,
                 rendered, crashes>>

\* load_bundle: an expired bundle is refused; else the bundle is stored ...
StoreBundle ==
  /\ sched = "store"
  /\ IF fetched \in expired THEN Synced /\ UNCHANGED bundle
     ELSE /\ bundle' = fetched /\ sched' = "clear"
          /\ UNCHANGED <<boot, fetched>>
  /\ UNCHANGED <<slices, pacing, thread, pending, batch, delayed, exchange, rendered, crashes>>

\* ... and then the slices of the one before are dropped.
ClearSlices ==
  /\ sched = "clear" /\ sched' = "allocation"
  /\ slices' = NoSlices
  /\ UNCHANGED <<bundle, pacing, thread, boot, fetched, pending, batch, delayed, exchange,
                 rendered, crashes>>

\* GET /allocations: the exchange records the slices; the node may not get them.
FetchAllocation ==
  /\ sched = "allocation" /\ Synced
  /\ \E size \in [issued[fetched] \cap Capped -> SliceSizes] :
       /\ allocated' = [k \in DOMAIN allocated \cup ({fetched} \X DOMAIN size) |->
                          IF k[1] = fetched /\ k[2] \in DOMAIN size THEN size[k[2]] ELSE allocated[k]]
       /\ slices' \in {slices, [of |-> fetched, size |-> size]}
  /\ UNCHANGED <<bundle, pacing, thread, pending, batch, delayed,
                 issued, expired, billed, rejected, rendered, crashes>>

FetchAllocationFails ==
  /\ sched = "allocation" /\ Synced
  /\ UNCHANGED <<bundle, slices, pacing, thread, pending, batch, delayed, exchange,
                 rendered, crashes>>

\* flush_receipts takes the queue under the lock.
TakeBatch ==
  /\ sched = "flush"
  /\ sched' = IF pending = <<>> THEN "sleep" ELSE "upload"
  /\ batch' = pending /\ pending' = <<>>
  /\ UNCHANGED <<node, delayed, exchange, rendered, crashes>>

-----------------------------------------------------------------------------
(* The exchange reads a batch, receipt after receipt (server.py 154-159)   *)

Nonce(i) == <<rendered[i].bundle, rendered[i].lid, rendered[i].index>>
Spent(log) == {Nonce(log[j]) : j \in DOMAIN log}

\* Mutant of Payable: verify_receipt without the spent set.
PayableAgain(i, log) ==
  LET r == rendered[i]
  IN  /\ ~r.late
      /\ r.lid \in issued[r.bundle]
      /\ <<r.bundle, r.lid>> \in DOMAIN allocated => r.index < allocated[<<r.bundle, r.lid>>]

\* verify_receipt of an honest node's receipt, the log being `log`.
Payable(i, log) ==
  LET r == rendered[i]
  IN  /\ Nonce(i) \notin Spent(log)
      /\ ~r.late
      /\ r.lid \in issued[r.bundle]
      /\ <<r.bundle, r.lid>> \in DOMAIN allocated => r.index < allocated[<<r.bundle, r.lid>>]

Verify(b) ==
  LET step(i, acc) == IF Payable(i, acc.billed) THEN [acc EXCEPT !.billed = Append(@, i)]
                      ELSE [acc EXCEPT !.rejected = @ \cup {i}]
      end == FoldLeft(LAMBDA acc, i : step(i, acc), [billed |-> billed, rejected |-> rejected], b)
  IN  /\ billed' = end.billed /\ rejected' = end.rejected
      /\ UNCHANGED <<issued, expired, allocated>>

\* The upload is answered.
Answered ==
  /\ sched = "upload" /\ sched' = "sleep"
  /\ Verify(batch) /\ batch' = <<>>
  /\ UNCHANGED <<node, pending, delayed, rendered, crashes>>

\* Mutant of Requeue: receipts queued since the batch was taken are overwritten.
RequeueOverwriting == sched' = "sleep" /\ pending' = batch /\ batch' = <<>>

\* The client saw an error or a timeout: the batch goes back before the rest.
Requeue == sched' = "sleep" /\ pending' = batch \o pending /\ batch' = <<>>

\* The exchange read the batch, or never will, or will read it later.
Unanswered ==
  /\ sched = "upload" /\ Requeue
  /\ \/ Verify(batch) /\ UNCHANGED delayed
     \/ UNCHANGED <<exchange, delayed>>
     \/ Len(delayed) < MaxDelayed /\ delayed' = Append(delayed, batch) /\ UNCHANGED exchange
  /\ UNCHANGED <<node, rendered, crashes>>

\* A late request arrives, in any order.
ReadDelayed ==
  /\ \E k \in DOMAIN delayed : Verify(delayed[k]) /\ delayed' = RemoveAt(delayed, k)
  /\ UNCHANGED <<node, sched, pending, batch, rendered, crashes>>

-----------------------------------------------------------------------------
Expire ==
  /\ \E b \in DOMAIN issued \ expired : expired' = expired \cup {b}
  /\ UNCHANGED <<node, sched, pending, batch, delayed, issued, allocated, billed, rejected,
                 rendered, crashes>>

\* The proxy dies and is started again: it keeps nothing on disk.
Crash ==
  /\ crashes < MaxCrashes /\ crashes' = crashes + 1
  /\ bundle' = None /\ slices' = NoSlices /\ pacing' = [l \in LineItems |-> 0]
  /\ thread' = [t \in Threads |-> Idle]
  /\ sched' = "bundle" /\ boot' = TRUE /\ fetched' = None
  /\ pending' = <<>> /\ batch' = <<>>
  /\ UNCHANGED <<delayed, exchange, rendered>>

Handler(t) == DecideLocal(t) \/ Claim(t) \/ RecordRead(t) \/ RecordWrite(t) \/ Queue(t)

Scheduler ==
  \/ Wake \/ FetchBundle \/ FetchBundleFails \/ StoreBundle \/ ClearSlices
  \/ FetchAllocation \/ FetchAllocationFails \/ TakeBatch \/ Answered \/ Unanswered

Next == \/ \E t \in Threads : Handler(t)
        \/ Scheduler \/ ReadDelayed \/ Expire \/ Crash

Spec == Init /\ [][Next]_vars

\* The scheduler's `while True` keeps running, and of infinitely many uploads one
\* is answered.  Nothing is assumed of syncs, late requests or requests of users.
FairSpec == Spec /\ WF_vars(Scheduler) /\ SF_vars(Answered)

-----------------------------------------------------------------------------
Held == Range(pending) \cup Range(batch)
Paid == Range(billed)
Judged == Paid \cup rejected

\* The exchange decides about every impression once, for good, and pays it at
\* most once, although flush_receipts uploads a batch again whenever it saw no
\* answer, a timed-out upload may be read after its retry, and the proxy may die.
Promise == INSTANCE Delivery WITH
  owed <- DOMAIN rendered \ Judged, paid <- Paid, refused <- rejected \ Paid,
  earned <- Len(billed)
DecidedOnce == Promise!Spec

\* No step of the proxy but its death drops a receipt the exchange has not
\* decided about: not a failed upload, and not one that overlaps new turns.
NoReceiptDropped ==
  [][\A i \in DOMAIN rendered' :
       (i \in Held \/ i \notin DOMAIN rendered) /\ i \notin Held' =>
         i \in Judged' \/ crashes' > crashes]_vars

\* Every receipt queued leaves the queue: with NoReceiptDropped, it is decided
\* about unless the proxy dies, whatever becomes of the bundle syncs in between.
EveryReceiptAnswered == \A i \in Impressions : i \in Held ~> i \notin Held

\* node.py, local_decision: "Claim the next impression slot for a line item": no
\* two impressions carry the same nonce, whatever syncs and crashes fall between.
EachImpressionOwnNonce ==
  \A i, j \in DOMAIN rendered : Nonce(i) = Nonce(j) => i = j

\* Serving one turn at a time, a node that decided inside a slice of the bundle
\* it then claimed under, and rendered before that bundle expired, is never
\* refused, even if its upload is lost, repeated or late.
InsideSliceIsPaid ==
  \A i \in rejected \ Paid :
    LET r == rendered[i]
    IN  r.late \/ r.decided # r.bundle \/ (r.lid \in Capped /\ ~r.sliced)

\* middleware.py, sync_bundle: "a bundle without one is served only where line
\* items are uncapped".
NoSliceNoServe == \A i \in DOMAIN rendered : rendered[i].lid \in Capped => rendered[i].sliced

\* nonce.py: "`index` is the node's zero-based impression counter for this line
\* item within this bundle".
IndexWithinBundle ==
  \A i \in DOMAIN rendered :
    rendered[i].index = Cardinality({j \in 1..(i - 1) : /\ rendered[j].lid = rendered[i].lid
                                                        /\ rendered[j].bundle = rendered[i].bundle})

\* SPEC.md 8.2: the node "MUST refuse expired bundles".
NeverServesExpired == \A i \in DOMAIN rendered : ~rendered[i].stale
=============================================================================
