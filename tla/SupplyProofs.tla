---------------------------- MODULE SupplyProofs ----------------------------
(***************************************************************************)
(* A node's receipts, for every number of line items, bundles, turns,      *)
(* crashes and late uploads.                                               *)
(***************************************************************************)
EXTENDS Supply, DataLemmas

(***************************************************************************)
(* What the exchange does with a batch: a left fold, one receipt at a time *)
(***************************************************************************)
Verdicts == [billed : Seq(Nat), rejected : SUBSET Nat]
Decide(i, acc) == IF Payable(i, acc.billed) THEN [acc EXCEPT !.billed = Append(@, i)]
                  ELSE [acc EXCEPT !.rejected = @ \cup {i}]

\* h[k] is what the exchange has decided after the first k receipts of b.
Reads(h, b) ==
  /\ h \in [0..Len(b) -> Verdicts]
  /\ h[0] = [billed |-> billed, rejected |-> rejected]
  /\ \A k \in 1..Len(b) : h[k] = Decide(b[k], h[k - 1])

\* The recursion FoldLeft makes of it, over the indices read so far.
VerifyRec(g, b) ==
  g = [T \in SUBSET (DOMAIN b) |->
         IF T = {} THEN [billed |-> billed, rejected |-> rejected]
         ELSE IF Payable(b[Max(T)], g[T \ {Max(T)}].billed)
              THEN [g[T \ {Max(T)}] EXCEPT !.billed = Append(@, b[Max(T)])]
              ELSE [g[T \ {Max(T)}] EXCEPT !.rejected = @ \cup {b[Max(T)]}]]

LEMMA DecideType ==
  ASSUME NEW i \in Nat, NEW acc \in Verdicts
  PROVE  Decide(i, acc) \in Verdicts
<1>1. acc.billed \in Seq(Nat) /\ acc.rejected \in SUBSET Nat BY DEF Verdicts
<1>2. Append(acc.billed, i) \in Seq(Nat) /\ acc.rejected \cup {i} \in SUBSET Nat BY <1>1
<1> QED BY <1>1, <1>2 DEF Decide, Verdicts

LEMMA VerifyReads ==
  ASSUME NEW b \in Seq(Nat), billed \in Seq(Nat), rejected \in SUBSET Nat, Verify(b)
  PROVE  \E h : /\ Reads(h, b)
                /\ billed' = h[Len(b)].billed /\ rejected' = h[Len(b)].rejected
<1> DEFINE n == Len(b)
           base == [billed |-> billed, rejected |-> rejected]
           pick == [T \in SUBSET (1..n) |-> Max(T)]
           step == [p \in (1..n) \X Verdicts |-> Decide(b[p[1]], p[2])]
           c == CHOOSE g : VerifyRec(g, b)
           h == [k \in 0..n |-> c[1..k]]
<1>1. n \in Nat /\ DOMAIN b = 1..n /\ \A i \in 1..n : b[i] \in Nat OBVIOUS
<1>2. base \in Verdicts BY DEF Verdicts
<1>3. \A T \in (SUBSET (1..n)) \ {{}} : pick[T] \in T
  <2> SUFFICES ASSUME NEW T \in SUBSET (1..n), T # {} PROVE Max(T) \in T OBVIOUS
  <2> HIDE DEF n
  <2> QED BY <1>1, MaxOfIndices
<1>4. step \in [(1..n) \X Verdicts -> Verdicts]
  <2> SUFFICES ASSUME NEW i \in 1..n, NEW acc \in Verdicts PROVE Decide(b[i], acc) \in Verdicts
    OBVIOUS
  <2> QED BY <1>1, DecideType
<1>5. PICK g : Peels(g, 1..n, Verdicts, base, pick, step)
  <2>1. IsFiniteSet(1..n) BY <1>1, FS_Interval
  <2> HIDE DEF n, base, pick, step
  <2> QED BY <1>2, <1>3, <1>4, <2>1, PeelExists
<1>6. VerifyRec(g, b)
  <2>1. g \in [SUBSET (1..n) -> Verdicts] BY <1>5 DEF Peels
  <2>2. ASSUME NEW T \in SUBSET (1..n)
        PROVE  g[T] = IF T = {} THEN base ELSE Decide(b[Max(T)], g[T \ {Max(T)}])
    <3>1. CASE T = {} BY <1>5, <3>1 DEF Peels
    <3>2. CASE T # {}
      <4>1. pick[T] = Max(T) /\ Max(T) \in 1..n BY <1>3, <3>2
      <4>2. g[T \ {Max(T)}] \in Verdicts BY <2>1
      <4>3. g[T] = step[<<pick[T], g[T \ {pick[T]}]>>]
        <5> HIDE DEF pick, step, n
        <5> QED BY <1>5, <3>2 DEF Peels
      <4> QED BY <3>2, <4>1, <4>2, <4>3
    <3> QED BY <3>1, <3>2
  <2> QED BY <1>1, <2>1, <2>2 DEF VerifyRec, Decide
<1>7. VerifyRec(c, b) BY <1>6, Zenon
<1>8. billed' = c[DOMAIN b].billed /\ rejected' = c[DOMAIN b].rejected
  BY Zenon DEF Verify, FoldLeft, MapThenFoldSet, VerifyRec
<1> HIDE DEF c
<1>9. ASSUME NEW T \in SUBSET (1..n)
      PROVE  c[T] = IF T = {} THEN base ELSE Decide(b[Max(T)], c[T \ {Max(T)}])
  BY <1>1, <1>7 DEF VerifyRec, Decide
<1>10. h[0] = base
  <2>1. 1..0 = {} OBVIOUS
  <2>2. c[{}] = base BY <1>9
  <2>3. h[0] = c[1..0] BY <1>1
  <2> QED BY <2>1, <2>2, <2>3
<1>11. ASSUME NEW k \in 1..n PROVE h[k] = Decide(b[k], h[k - 1])
  <2>1. Max(1..k) = k BY MaxOfInterval
  <2>2. 1..k \in SUBSET (1..n) BY <1>1
  <2>4. k \in 1..k BY <1>1
  <2>5. (1..k) \ {k} = 1..(k - 1) BY <1>1
  <2>3. c[1..k] = Decide(b[k], c[1..(k - 1)]) BY <1>9, <2>1, <2>2, <2>4, <2>5
  <2> QED BY <2>3
<1>12. \A k \in 0..n : h[k] \in Verdicts
  <2> DEFINE S == {k \in 0..n : h[k] \in Verdicts}
  <2>1. 0 \in S BY <1>2, <1>10
  <2>2. ASSUME NEW k \in 0..(n - 1), k \in S PROVE k + 1 \in S
    <3>1. k + 1 \in 1..n /\ (k + 1) - 1 = k OBVIOUS
    <3>2. h[k + 1] = Decide(b[k + 1], h[k]) BY <1>11, <3>1
    <3> HIDE DEF h
    <3> QED BY <1>1, <2>2, <3>1, <3>2, DecideType
  <2> HIDE DEF S, h, n
  <2>3. \A k \in 0..n : k \in S BY <1>1, <2>1, <2>2, UpTo
  <2> QED BY <2>3 DEF S
<1>13. h[n].billed = billed' /\ h[n].rejected = rejected' BY <1>1, <1>8
<1>14. Reads(h, b) BY <1>10, <1>11, <1>12 DEF Reads
<1> HIDE DEF h
<1> QED BY <1>13, <1>14

(***************************************************************************)
(* What reading a batch preserves.                                         *)
(***************************************************************************)
\* No two receipts of a log carry the same nonce.
Distinct(log) == \A j, k \in DOMAIN log : Nonce(log[j]) = Nonce(log[k]) => j = k

ReadUpTo(b, k) == {b[j] : j \in 1..k}

\* After k receipts of b: nothing decided before is undone, each receipt read is
\* decided, no nonce is paid twice, and what is refused would be refused again.
After(acc, b, k) ==
  /\ Paid \subseteq Range(acc.billed) /\ Range(acc.billed) \subseteq Paid \cup ReadUpTo(b, k)
  /\ rejected \subseteq acc.rejected /\ acc.rejected \subseteq rejected \cup ReadUpTo(b, k)
  /\ ReadUpTo(b, k) \subseteq Range(acc.billed) \cup acc.rejected
  /\ Distinct(acc.billed)
  /\ \A i \in acc.rejected : ~Payable(i, acc.billed)
  /\ Range(acc.billed) \cap rejected \subseteq Paid

LEMMA Appended ==
  ASSUME NEW log \in Seq(Nat), NEW i \in Nat
  PROVE  /\ Range(Append(log, i)) = Range(log) \cup {i}
         /\ Spent(Append(log, i)) = Spent(log) \cup {Nonce(i)}
<1> DEFINE longer == Append(log, i)
<1>1. /\ longer \in Seq(Nat) /\ DOMAIN longer = (DOMAIN log) \cup {Len(log) + 1}
      /\ longer[Len(log) + 1] = i /\ \A j \in DOMAIN log : longer[j] = log[j]
  OBVIOUS
<1> HIDE DEF longer
<1>2. Range(longer) = Range(log) \cup {i} BY <1>1 DEF Range
<1>3. Spent(longer) = Spent(log) \cup {Nonce(i)}
  <2> HIDE DEF Nonce
  <2> QED BY <1>1 DEF Spent
<1> QED BY <1>2, <1>3 DEF longer

\* A nonce once spent stays spent: what cannot be paid cannot be paid later.
LEMMA PayableShrinks ==
  ASSUME NEW i, NEW log, NEW longer, Spent(log) \subseteq Spent(longer), ~Payable(i, log)
  PROVE  ~Payable(i, longer)
BY DEF Payable

LEMMA SpentFollows ==
  ASSUME NEW log, NEW longer, Range(log) \subseteq Range(longer)
  PROVE  Spent(log) \subseteq Spent(longer)
<1> SUFFICES ASSUME NEW j \in DOMAIN log PROVE Nonce(log[j]) \in Spent(longer) BY DEF Spent
<1>1. PICK k \in DOMAIN longer : longer[k] = log[j] BY DEF Range
<1> QED BY <1>1 DEF Spent

LEMMA AfterOne ==
  ASSUME NEW b \in Seq(Nat), NEW k \in 0..(Len(b) - 1), NEW acc \in Verdicts,
         After(acc, b, k)
  PROVE  After(Decide(b[k + 1], acc), b, k + 1)
<1> DEFINE i == b[k + 1]
           next == Decide(i, acc)
<1>1. /\ i \in Nat /\ ReadUpTo(b, k + 1) = ReadUpTo(b, k) \cup {i}
  <2>1. 1..(k + 1) = (1..k) \cup {k + 1} OBVIOUS
  <2>2. k + 1 \in 1..Len(b) OBVIOUS
  <2> QED BY <2>1, <2>2 DEF ReadUpTo
<1>2. acc.billed \in Seq(Nat) /\ acc.rejected \in SUBSET Nat BY DEF Verdicts
<1> HIDE DEF i
<1> SUFFICES After(next, b, k + 1) BY DEF i
<1>3. CASE Payable(i, acc.billed)
  <2>1. next.billed = Append(acc.billed, i) /\ next.rejected = acc.rejected
    BY <1>3 DEF Decide, Verdicts
  <2>2. /\ Range(next.billed) = Range(acc.billed) \cup {i}
        /\ Spent(next.billed) = Spent(acc.billed) \cup {Nonce(i)}
    BY <1>1, <1>2, <2>1, Appended
  <2>3. Nonce(i) \notin Spent(acc.billed) BY <1>3 DEF Payable
  <2>4. Distinct(next.billed)
    <3>1. \A j \in DOMAIN acc.billed : Nonce(acc.billed[j]) # Nonce(i)
      BY <2>3, Zenon DEF Spent
    <3>2. /\ DOMAIN next.billed = (DOMAIN acc.billed) \cup {Len(acc.billed) + 1}
          /\ next.billed[Len(acc.billed) + 1] = i
          /\ \A j \in DOMAIN acc.billed : next.billed[j] = acc.billed[j]
      BY <1>1, <1>2, <2>1
    <3>3. Distinct(acc.billed) BY DEF After
    <3> HIDE DEF next
    <3> QED BY <3>1, <3>2, <3>3 DEF Distinct
  <2>5. ASSUME NEW r \in acc.rejected PROVE ~Payable(r, next.billed)
    <3>1. ~Payable(r, acc.billed) BY DEF After
    <3>2. Spent(acc.billed) \subseteq Spent(next.billed) BY <2>2
    <3> HIDE DEF next
    <3> QED BY <3>1, <3>2, PayableShrinks
  <2>6. i \notin acc.rejected BY <1>3 DEF After
  <2> HIDE DEF next
  <2> QED BY <1>1, <2>1, <2>2, <2>4, <2>5, <2>6 DEF After
<1>4. CASE ~Payable(i, acc.billed)
  <2>1. next.billed = acc.billed /\ next.rejected = acc.rejected \cup {i}
    BY <1>4 DEF Decide, Verdicts
  <2> HIDE DEF next
  <2> QED BY <1>1, <1>4, <2>1 DEF After
<1> QED BY <1>3, <1>4

\* The exchange reads a batch (server.py 154-159): it decides about all of it,
\* undoes nothing, pays no nonce twice and would refuse again what it refused.
VerifyEffect(b) ==
  /\ billed' \in Seq(Nat) /\ rejected' \in SUBSET Nat
  /\ Paid \subseteq Paid' /\ Paid' \subseteq Paid \cup Range(b)
  /\ rejected \subseteq rejected' /\ rejected' \subseteq rejected \cup Range(b)
  /\ Range(b) \subseteq Judged'
  /\ Distinct(billed')
  /\ \A i \in rejected' : ~Payable(i, billed')
  /\ Paid' \cap rejected \subseteq Paid
  /\ UNCHANGED <<issued, expired, allocated>>

LEMMA VerifyKeeps ==
  ASSUME NEW b \in Seq(Nat), billed \in Seq(Nat), rejected \in SUBSET Nat,
         Distinct(billed), \A i \in rejected : ~Payable(i, billed), Verify(b)
  PROVE  VerifyEffect(b)
<1> DEFINE n == Len(b)
<1>1. PICK h : Reads(h, b) /\ billed' = h[n].billed /\ rejected' = h[n].rejected
  BY VerifyReads
<1> DEFINE S == {k \in 0..n : After(h[k], b, k)}
<1>2. n \in Nat OBVIOUS
<1>3. /\ h[0] = [billed |-> billed, rejected |-> rejected]
      /\ \A k \in 0..n : h[k] \in Verdicts
      /\ \A k \in 1..n : h[k] = Decide(b[k], h[k - 1])
  BY <1>1 DEF Reads
<1>4. 0 \in S
  <2>1. ReadUpTo(b, 0) = {} BY DEF ReadUpTo
  <2>2. h[0].billed = billed /\ h[0].rejected = rejected BY <1>3
  <2>3. After(h[0], b, 0) BY <2>1, <2>2 DEF After, Paid
  <2> QED BY <1>2, <2>3
<1>5. ASSUME NEW k \in 0..(n - 1), k \in S PROVE k + 1 \in S
  <2>1. k + 1 \in 1..n /\ (k + 1) - 1 = k /\ h[k] \in Verdicts BY <1>2, <1>3
  <2>2. h[k + 1] = Decide(b[k + 1], h[k]) BY <1>3, <2>1
  <2>3. After(h[k + 1], b, k + 1) BY <1>5, <2>1, <2>2, AfterOne
  <2> QED BY <2>1, <2>3
<1>6. After(h[n], b, n)
  <2> HIDE DEF S, n
  <2>1. \A k \in 0..n : k \in S BY <1>2, <1>4, <1>5, UpTo
  <2> QED BY <1>2, <2>1 DEF S
<1>7. ReadUpTo(b, n) = Range(b) BY DEF ReadUpTo, Range
<1>8. billed' \in Seq(Nat) /\ rejected' \in SUBSET Nat BY <1>1, <1>2, <1>3 DEF Verdicts
<1>9. Paid' = Range(h[n].billed) /\ Judged' = Range(h[n].billed) \cup h[n].rejected
  BY <1>1 DEF Paid, Judged
<1>10. UNCHANGED <<issued, expired, allocated>> BY DEF Verify
<1> HIDE DEF n
<1> QED BY <1>1, <1>6, <1>7, <1>8, <1>9, <1>10 DEF After, VerifyEffect

(***************************************************************************)
(* The inductive invariant.                                                *)
(***************************************************************************)
Fetching == sched \in {"store", "clear", "allocation"}
Shown == DOMAIN rendered

\* What the node has loaded or fetched was issued, and it holds a fetched bundle
\* exactly while it is being stored.
NodeInv ==
  /\ issued \in Seq(Contents) /\ Len(issued) <= MaxBundles /\ expired \subseteq DOMAIN issued
  /\ bundle \in DOMAIN issued \cup {None} /\ fetched \in DOMAIN issued \cup {None}
  /\ sched \in {"sleep", "bundle", "store", "clear", "allocation", "flush", "upload"}
  /\ Fetching <=> fetched # None
  /\ boot \in BOOLEAN /\ crashes \in 0..MaxCrashes /\ pacing \in [LineItems -> Nat]

\* A slice the node holds is the one the exchange recorded; none is recorded for
\* a bundle before its allocation is asked for.
SliceInv ==
  /\ slices.of \in DOMAIN issued \cup {None}
  /\ DOMAIN slices.size \subseteq Capped /\ Range(slices.size) \subseteq SliceSizes
  /\ \A k \in DOMAIN allocated : /\ k = <<k[1], k[2]>> /\ k[1] \in DOMAIN issued /\ k[2] \in Capped
                                /\ allocated[k] \in SliceSizes
  /\ Fetching => \A l \in LineItems : <<fetched, l>> \notin DOMAIN allocated
  /\ \A l \in DOMAIN slices.size : /\ <<slices.of, l>> \in DOMAIN allocated
                                  /\ slices.size[l] = allocated[<<slices.of, l>>]

Claimed(t) == thread[t].pc \in {"claimed", "recording", "recorded"}

\* A turn in progress was decided under an issued bundle that carried its line item.
ThreadInv ==
  /\ thread \in [Threads -> Turn]
  /\ \A t \in Threads :
       /\ thread[t].pc # "idle" =>
            /\ bundle # None /\ thread[t].lid \in LineItems /\ thread[t].decided \in DOMAIN issued
            /\ thread[t].lid \in issued[thread[t].decided]
       /\ Claimed(t) => thread[t].bundle \in DOMAIN issued

RenderedInv ==
  /\ rendered \in Seq(Receipt)
  /\ \A i \in Shown : /\ rendered[i].bundle \in DOMAIN issued /\ rendered[i].decided \in DOMAIN issued
                      /\ rendered[i].lid \in issued[rendered[i].decided]

Busy == {u \in Threads : thread[u].pc # "idle"}
TurnsInv == Len(rendered) + Cardinality(Busy) <= MaxTurns

\* Every receipt on its way was rendered, and an upload is never empty.
MailInv ==
  /\ pending \in Seq(Shown) /\ batch \in Seq(Shown) /\ delayed \in Seq(Seq(Shown))
  /\ (sched = "upload") = (batch # <<>>)

\* So was every receipt decided about; a nonce is paid once, and a refused receipt
\* would be refused again.
JudgedInv ==
  /\ billed \in Seq(Shown) /\ rejected \subseteq Shown
  /\ Distinct(billed) /\ \A i \in rejected : ~Payable(i, billed)

IInv == NodeInv /\ SliceInv /\ ThreadInv /\ RenderedInv /\ TurnsInv /\ MailInv /\ JudgedInv

\* The steps of a handler that touch no receipt, and those of a sync.
Serve(t) == DecideLocal(t) \/ Claim(t) \/ RecordRead(t) \/ RecordWrite(t)
Sync == \/ Wake \/ FetchBundle \/ FetchBundleFails \/ StoreBundle \/ ClearSlices
        \/ FetchAllocation \/ FetchAllocationFails
Upload == TakeBatch \/ Answered \/ Unanswered \/ ReadDelayed

LEMMA NextCases ==
  ASSUME [Next]_vars
  PROVE  \/ \E t \in Threads : Serve(t) \/ Queue(t)
         \/ Sync \/ Upload \/ Expire \/ Crash \/ UNCHANGED vars
BY DEF Next, Handler, Scheduler, Serve, Sync, Upload

LEMMA InvInit == Init => IInv
<1> SUFFICES ASSUME Init PROVE IInv OBVIOUS
<1> USE SupplyAssumption DEF Init, Booting
<1>1. NodeInv BY DEF NodeInv, Fetching
<1>2. SliceInv BY DEF SliceInv, Fetching, NoSlices, Range
<1>3. ThreadInv BY DEF ThreadInv, Turn, Idle, Claimed
<1>4. RenderedInv BY DEF RenderedInv, Shown
<1>5. TurnsInv
  <2>1. Busy = {} BY DEF Busy, Idle
  <2>2. Cardinality(Busy) = 0 BY <2>1, FS_EmptySet
  <2> QED BY <2>2 DEF TurnsInv
<1>6. MailInv BY DEF MailInv, Shown
<1>7. JudgedInv BY DEF JudgedInv, Distinct, Shown
<1> QED BY <1>1, <1>2, <1>3, <1>4, <1>5, <1>6, <1>7 DEF IInv

\* A new bundle keeps the ones before it.
LEMMA Issuing ==
  ASSUME NodeInv, NEW content \in Contents, issued' = Append(issued, content),
         Len(issued) < MaxBundles
  PROVE  /\ issued' \in Seq(Contents) /\ Len(issued') <= MaxBundles
         /\ DOMAIN issued' = (DOMAIN issued) \cup {Len(issued) + 1}
         /\ Len(issued) + 1 \notin DOMAIN issued
         /\ \A b \in DOMAIN issued : issued'[b] = issued[b]
BY SupplyAssumption DEF NodeInv

LEMMA NodeStep == IInv /\ [Next]_vars => NodeInv'
<1> SUFFICES ASSUME IInv, [Next]_vars PROVE NodeInv' OBVIOUS
<1> USE SupplyAssumption
<1>0. NodeInv /\ ThreadInv BY DEF IInv
<1>1. ASSUME NEW t \in Threads, Serve(t) PROVE NodeInv'
  <2>1. CASE DecideLocal(t) BY <1>0, <2>1 DEF DecideLocal, NodeInv, Fetching, exchange
  <2>2. CASE Claim(t) BY <1>0, <2>2 DEF Claim, NodeInv, Fetching, exchange
  <2>3. CASE RecordRead(t) BY <1>0, <2>3 DEF RecordRead, NodeInv, Fetching, exchange
  <2>4. CASE RecordWrite(t)
    <3>1. thread[t].read \in Nat BY <1>0 DEF ThreadInv, Turn
    <3>2. pacing' \in [LineItems -> Nat]
      <4>1. /\ pacing' = [pacing EXCEPT ![thread[t].lid] = thread[t].read + 1]
            /\ pacing \in [LineItems -> Nat]
        BY <1>0, <2>4 DEF RecordWrite, NodeInv
      <4>2. thread[t].read + 1 \in Nat BY <3>1
      <4> QED BY <4>1, <4>2
    <3> QED BY <1>0, <2>4, <3>2 DEF RecordWrite, NodeInv, Fetching, exchange
  <2> QED BY <1>1, <2>1, <2>2, <2>3, <2>4 DEF Serve
<1>2. ASSUME NEW t \in Threads, Queue(t) PROVE NodeInv'
  BY <1>0, <1>2 DEF Queue, NodeInv, Fetching, exchange
<1>3. CASE Sync
  <2>1. CASE Wake BY <1>0, <2>1 DEF Wake, NodeInv, Fetching, exchange, node
  <2>2. CASE FetchBundle
    <3>1. PICK content \in Contents : issued' = Append(issued, content) BY <2>2 DEF FetchBundle
    <3>2. Len(issued) < MaxBundles BY <2>2 DEF FetchBundle
    <3>3. /\ issued' \in Seq(Contents) /\ Len(issued') <= MaxBundles
          /\ DOMAIN issued' = (DOMAIN issued) \cup {Len(issued) + 1}
      BY <1>0, <3>1, <3>2, Issuing
    <3>4. Len(issued) + 1 \in Nat BY <1>0 DEF NodeInv
    <3> QED BY <1>0, <2>2, <3>3, <3>4 DEF FetchBundle, Synced, NodeInv, Fetching
  <2>3. CASE FetchBundleFails
    BY <1>0, <2>3 DEF FetchBundleFails, Synced, NodeInv, Fetching, exchange
  <2>4. CASE StoreBundle
    BY <1>0, <2>4 DEF StoreBundle, Synced, NodeInv, Fetching, exchange
  <2>5. CASE ClearSlices BY <1>0, <2>5 DEF ClearSlices, NodeInv, Fetching, exchange
  <2>6. CASE FetchAllocation
    BY <1>0, <2>6 DEF FetchAllocation, Synced, NodeInv, Fetching
  <2>7. CASE FetchAllocationFails
    BY <1>0, <2>7 DEF FetchAllocationFails, Synced, NodeInv, Fetching, exchange
  <2> QED BY <1>3, <2>1, <2>2, <2>3, <2>4, <2>5, <2>6, <2>7 DEF Sync
<1>4. CASE Upload
  <2>1. CASE TakeBatch BY <1>0, <2>1 DEF TakeBatch, NodeInv, Fetching, exchange, node
  <2>2. CASE Answered BY <1>0, <2>2 DEF Answered, Verify, NodeInv, Fetching, node
  <2>3. CASE Unanswered
    BY <1>0, <2>3 DEF Unanswered, Requeue, Verify, NodeInv, Fetching, exchange, node
  <2>4. CASE ReadDelayed BY <1>0, <2>4 DEF ReadDelayed, Verify, NodeInv, Fetching, node
  <2> QED BY <1>4, <2>1, <2>2, <2>3, <2>4 DEF Upload
<1>5. CASE Expire BY <1>0, <1>5 DEF Expire, NodeInv, Fetching, node
<1>6. CASE Crash BY <1>0, <1>6 DEF Crash, NodeInv, Fetching, exchange
<1>7. CASE UNCHANGED vars
  BY <1>0, <1>7 DEF vars, NodeInv, Fetching, exchange, node
<1> QED BY <1>1, <1>2, <1>3, <1>4, <1>5, <1>6, <1>7, NextCases

LEMMA SliceStep == IInv /\ [Next]_vars => SliceInv'
<1> SUFFICES ASSUME IInv, [Next]_vars PROVE SliceInv' OBVIOUS
<1> USE SupplyAssumption
<1>0. NodeInv /\ SliceInv BY DEF IInv
<1>1. ASSUME NEW t \in Threads, Serve(t) PROVE SliceInv'
  BY <1>0, <1>1 DEF Serve, DecideLocal, Claim, RecordRead, RecordWrite, SliceInv, Fetching, exchange
<1>2. ASSUME NEW t \in Threads, Queue(t) PROVE SliceInv'
  BY <1>0, <1>2 DEF Queue, SliceInv, Fetching, exchange
<1>3. CASE Sync
  <2>1. CASE Wake BY <1>0, <2>1 DEF Wake, SliceInv, Fetching, exchange, node
  <2>2. CASE FetchBundle
    <3>1. PICK content \in Contents : issued' = Append(issued, content) BY <2>2 DEF FetchBundle
    <3>2. Len(issued) < MaxBundles BY <2>2 DEF FetchBundle
    <3>3. /\ DOMAIN issued' = (DOMAIN issued) \cup {Len(issued) + 1}
          /\ Len(issued) + 1 \notin DOMAIN issued
      BY <1>0, <3>1, <3>2, Issuing
    <3>4. UNCHANGED <<slices, allocated>> BY <2>2 DEF FetchBundle
    <3>5. Fetching' => fetched' \notin DOMAIN issued
      BY <1>0, <2>2, <3>3 DEF FetchBundle, Synced, Fetching
    <3>7. Fetching' => \A l \in LineItems : <<fetched', l>> \notin DOMAIN allocated
      <4> SUFFICES ASSUME Fetching', NEW l \in LineItems, <<fetched', l>> \in DOMAIN allocated
                   PROVE  FALSE
        OBVIOUS
      <4>1. fetched' \in DOMAIN issued BY <1>0 DEF SliceInv
      <4> QED BY <3>5, <4>1
    <3> QED BY <1>0, <3>3, <3>4, <3>7 DEF SliceInv
  <2>3. CASE FetchBundleFails
    BY <1>0, <2>3 DEF FetchBundleFails, Synced, SliceInv, Fetching, exchange
  <2>4. CASE StoreBundle
    BY <1>0, <2>4 DEF StoreBundle, Synced, SliceInv, Fetching, exchange
  <2>5. CASE ClearSlices
    <3>1. slices'.of = None /\ slices'.size = <<>> /\ (Fetching' => Fetching)
      BY <2>5 DEF ClearSlices, NoSlices, Fetching
    <3>2. Range(slices'.size) = {} /\ DOMAIN slices'.size = {} BY <3>1 DEF Range
    <3> QED BY <1>0, <2>5, <3>1, <3>2 DEF ClearSlices, SliceInv, exchange
  <2>6. CASE FetchAllocation
    <3>1. PICK size \in [issued[fetched] \cap Capped -> SliceSizes] :
            /\ allocated' = [k \in DOMAIN allocated \cup ({fetched} \X DOMAIN size) |->
                               IF k[1] = fetched /\ k[2] \in DOMAIN size THEN size[k[2]]
                               ELSE allocated[k]]
            /\ slices' \in {slices, [of |-> fetched, size |-> size]}
      BY <2>6 DEF FetchAllocation
    <3>2. ~Fetching' /\ issued' = issued BY <2>6 DEF FetchAllocation, Synced, Fetching
    <3>3. fetched \in DOMAIN issued /\ Fetching
      BY <1>0, <2>6 DEF FetchAllocation, NodeInv, Fetching
    <3>4. /\ DOMAIN size \subseteq Capped /\ DOMAIN size \subseteq LineItems
          /\ \A l \in DOMAIN size : size[l] \in SliceSizes
      OBVIOUS
    <3>5. \A k \in DOMAIN allocated : ~(k[1] = fetched /\ k[2] \in DOMAIN size)
      <4> SUFFICES ASSUME NEW k \in DOMAIN allocated, k[1] = fetched, k[2] \in DOMAIN size
                   PROVE  FALSE
        OBVIOUS
      <4>2. k = <<fetched, k[2]>> /\ k[2] \in LineItems BY <1>0, <3>4 DEF SliceInv
      <4> QED BY <1>0, <3>3, <4>2 DEF SliceInv
    <3>6. \A k \in DOMAIN allocated : k \in DOMAIN allocated' /\ allocated'[k] = allocated[k]
      BY <3>1, <3>5
    <3>7. \A l \in DOMAIN size : /\ <<fetched, l>> \in DOMAIN allocated'
                                 /\ allocated'[<<fetched, l>>] = size[l]
      BY <3>1
    <3>8. \A k \in DOMAIN allocated' :
            /\ k = <<k[1], k[2]>> /\ k[1] \in DOMAIN issued /\ k[2] \in Capped
            /\ allocated'[k] \in SliceSizes
      <4>1. DOMAIN allocated' = DOMAIN allocated \cup ({fetched} \X DOMAIN size) BY <3>1
      <4>2. \A k \in {fetched} \X DOMAIN size : k = <<fetched, k[2]>> /\ k[2] \in DOMAIN size
        OBVIOUS
      <4>3. ASSUME NEW k \in {fetched} \X DOMAIN size
            PROVE  /\ k = <<k[1], k[2]>> /\ k[1] \in DOMAIN issued /\ k[2] \in Capped
                   /\ allocated'[k] \in SliceSizes
        BY <3>3, <3>4, <3>7, <4>2
      <4>4. ASSUME NEW k \in DOMAIN allocated
            PROVE  /\ k = <<k[1], k[2]>> /\ k[1] \in DOMAIN issued /\ k[2] \in Capped
                   /\ allocated'[k] \in SliceSizes
        BY <1>0, <3>6 DEF SliceInv
      <4> QED BY <4>1, <4>3, <4>4
    <3>9. /\ slices'.of \in DOMAIN issued \cup {None}
          /\ DOMAIN slices'.size \subseteq Capped /\ Range(slices'.size) \subseteq SliceSizes
      BY <1>0, <3>1, <3>3, <3>4 DEF SliceInv, Range
    <3>10. \A l \in DOMAIN slices'.size : /\ <<slices'.of, l>> \in DOMAIN allocated'
                                         /\ slices'.size[l] = allocated'[<<slices'.of, l>>]
      <4>1. CASE slices' = slices BY <1>0, <3>6, <4>1 DEF SliceInv
      <4>2. CASE slices' = [of |-> fetched, size |-> size] BY <3>7, <4>2
      <4> QED BY <3>1, <4>1, <4>2
    <3> QED BY <3>2, <3>8, <3>9, <3>10 DEF SliceInv
  <2>7. CASE FetchAllocationFails
    BY <1>0, <2>7 DEF FetchAllocationFails, Synced, SliceInv, Fetching, exchange
  <2> QED BY <1>3, <2>1, <2>2, <2>3, <2>4, <2>5, <2>6, <2>7 DEF Sync
<1>4. CASE Upload
  <2>1. UNCHANGED <<slices, fetched, issued, allocated>> /\ (Fetching' => Fetching)
    BY <1>4 DEF Upload, TakeBatch, Answered, Unanswered, ReadDelayed, Requeue, Verify,
                Fetching, exchange, node
  <2> QED BY <1>0, <2>1 DEF SliceInv
<1>5. CASE Expire BY <1>0, <1>5 DEF Expire, SliceInv, Fetching, node
<1>6. CASE Crash
  <2>1. slices'.of = None /\ slices'.size = <<>> /\ ~Fetching'
    BY <1>6 DEF Crash, NoSlices, Fetching
  <2>2. Range(slices'.size) = {} /\ DOMAIN slices'.size = {} BY <2>1 DEF Range
  <2> QED BY <1>0, <1>6, <2>1, <2>2 DEF Crash, SliceInv, exchange
<1>7. CASE UNCHANGED vars
  BY <1>0, <1>7 DEF vars, SliceInv, Fetching, exchange, node
<1> QED BY <1>1, <1>2, <1>3, <1>4, <1>5, <1>6, <1>7, NextCases

\* What a step other than a handler's does to the turns in progress: nothing, or
\* the node dies.
LEMMA ThreadsKept ==
  ASSUME IInv, Sync \/ Upload \/ Expire \/ UNCHANGED vars
  PROVE  /\ thread' = thread /\ (bundle # None => bundle' # None)
         /\ DOMAIN issued \subseteq DOMAIN issued'
         /\ \A b \in DOMAIN issued : issued'[b] = issued[b]
<1> USE SupplyAssumption
<1>0. NodeInv BY DEF IInv
<1>1. thread' = thread
  BY DEF Sync, Wake, FetchBundle, FetchBundleFails, StoreBundle, ClearSlices, FetchAllocation,
         FetchAllocationFails, Upload, TakeBatch, Answered, Unanswered, ReadDelayed, Expire,
         vars, node
<1>2. bundle # None => bundle' # None
  <2>1. CASE StoreBundle BY <1>0, <2>1 DEF StoreBundle, NodeInv, Fetching
  <2>2. CASE bundle' = bundle BY <2>2
  <2> QED BY <2>1, <2>2
    DEF Sync, Wake, FetchBundle, FetchBundleFails, ClearSlices, FetchAllocation,
        FetchAllocationFails, Upload, TakeBatch, Answered, Unanswered, ReadDelayed, Expire,
        vars, node
<1>3. issued' = issued \/ FetchBundle
  BY DEF Sync, Wake, FetchBundleFails, StoreBundle, ClearSlices, FetchAllocation, Verify,
         FetchAllocationFails, Upload, TakeBatch, Answered, Unanswered, ReadDelayed, Expire,
         vars, exchange
<1>4. CASE FetchBundle
  <2>1. PICK content \in Contents : issued' = Append(issued, content) BY <1>4 DEF FetchBundle
  <2>2. Len(issued) < MaxBundles BY <1>4 DEF FetchBundle
  <2> QED BY <1>0, <1>1, <1>2, <2>1, <2>2, Issuing
<1> QED BY <1>1, <1>2, <1>3, <1>4

\* A turn in progress that is typed, was decided on an issued bundle and, once it
\* has claimed, is under an issued bundle.
Sound(d) ==
  /\ d \in Turn
  /\ d.pc # "idle" => /\ bundle # None /\ d.lid \in LineItems /\ d.decided \in DOMAIN issued
                      /\ d.lid \in issued[d.decided]
  /\ d.pc \in {"claimed", "recording", "recorded"} => d.bundle \in DOMAIN issued

\* What a handler's step makes of its turn.
LEMMA TurnStep ==
  ASSUME IInv, NEW t \in Threads, Serve(t) \/ Queue(t)
  PROVE  \E d : Sound(d) /\ thread' = [thread EXCEPT ![t] = d]
<1> USE SupplyAssumption
<1>0. NodeInv /\ thread[t] \in Turn BY DEF IInv, ThreadInv
<1>1. Sound(thread[t]) BY <1>0 DEF IInv, ThreadInv, Sound, Claimed
<1>2. CASE DecideLocal(t)
  <2>1. PICK l \in issued[bundle] :
          thread' = [thread EXCEPT ![t] = [Idle EXCEPT
                       !.pc = "decided", !.lid = l, !.decided = bundle,
                       !.sliced = l \in DOMAIN slices.size /\ slices.of = bundle,
                       !.stale = bundle \in expired]]
    BY <1>2 DEF DecideLocal
  <2> DEFINE sliced == l \in DOMAIN slices.size /\ slices.of = bundle
             stale == bundle \in expired
             d == [Idle EXCEPT !.pc = "decided", !.lid = l, !.decided = bundle,
                               !.sliced = sliced, !.stale = stale]
  <2>2. thread' = [thread EXCEPT ![t] = d] BY <2>1
  <2>7. sliced \in BOOLEAN /\ stale \in BOOLEAN OBVIOUS
  <2>3. bundle # None /\ bundle \in DOMAIN issued BY <1>0, <1>2 DEF DecideLocal, NodeInv
  <2>4. issued[bundle] \in Contents /\ bundle \in Bundles BY <1>0, <2>3 DEF NodeInv, Bundles
  <2>5. l \in LineItems BY <2>4
  <2> HIDE DEF sliced, stale
  <2>8. Idle \in Turn BY DEF Idle, Turn
  <2>9. d \in Turn /\ d.pc = "decided" /\ d.lid = l /\ d.decided = bundle
    BY <2>4, <2>5, <2>7, <2>8 DEF Turn
  <2> HIDE DEF d
  <2>6. Sound(d) BY <2>3, <2>5, <2>9 DEF Sound
  <2> QED BY <2>2, <2>6
<1>3. CASE Claim(t)
  <2> DEFINE d == [thread[t] EXCEPT !.pc = "claimed", !.bundle = bundle,
                                    !.index = pacing[thread[t].lid]]
  <2>1. thread' = [thread EXCEPT ![t] = d] BY <1>3 DEF Claim
  <2>2. /\ bundle \in DOMAIN issued /\ bundle \in Bundles /\ pacing[thread[t].lid] \in Nat
        /\ thread[t].pc # "idle"
    BY <1>0, <1>1, <1>3 DEF Claim, Sound, NodeInv, Bundles
  <2>3. Sound(d) BY <1>0, <1>1, <2>2 DEF Sound, Turn
  <2> HIDE DEF d
  <2> QED BY <2>1, <2>3
<1>4. CASE RecordRead(t)
  <2> DEFINE d == [thread[t] EXCEPT !.pc = "recording", !.read = pacing[thread[t].lid]]
  <2>1. thread' = [thread EXCEPT ![t] = d] BY <1>4 DEF RecordRead
  <2>2. pacing[thread[t].lid] \in Nat /\ thread[t].pc = "claimed"
    BY <1>0, <1>1, <1>4 DEF RecordRead, Sound, NodeInv
  <2>3. Sound(d) BY <1>0, <1>1, <2>2 DEF Sound, Turn
  <2> HIDE DEF d
  <2> QED BY <2>1, <2>3
<1>5. CASE RecordWrite(t)
  <2> DEFINE d == [thread[t] EXCEPT !.pc = "recorded"]
  <2>1. thread' = [thread EXCEPT ![t] = d] BY <1>5 DEF RecordWrite
  <2>2. thread[t].pc = "recording" BY <1>5 DEF RecordWrite
  <2>3. Sound(d) BY <1>0, <1>1, <2>2 DEF Sound, Turn
  <2> HIDE DEF d
  <2> QED BY <2>1, <2>3
<1>6. CASE Queue(t)
  <2>1. thread' = [thread EXCEPT ![t] = Idle] BY <1>6 DEF Queue
  <2>2. Sound(Idle) BY DEF Sound, Idle, Turn
  <2> QED BY <2>1, <2>2
<1> QED BY <1>2, <1>3, <1>4, <1>5, <1>6 DEF Serve

LEMMA ThreadStep == IInv /\ [Next]_vars => ThreadInv'
<1> SUFFICES ASSUME IInv, [Next]_vars PROVE ThreadInv' OBVIOUS
<1>0. NodeInv /\ ThreadInv BY DEF IInv
<1>1. ASSUME NEW t \in Threads, Serve(t) \/ Queue(t) PROVE ThreadInv'
  <2>1. PICK d : Sound(d) /\ thread' = [thread EXCEPT ![t] = d] BY <1>1, TurnStep
  <2>2. bundle' = bundle /\ issued' = issued
    BY <1>1 DEF Serve, DecideLocal, Claim, RecordRead, RecordWrite, Queue, exchange
  <2>3. \A u \in Threads : thread'[u] = IF u = t THEN d ELSE thread[u]
    BY <1>0, <2>1 DEF ThreadInv
  <2>4. thread' \in [Threads -> Turn] BY <1>0, <2>1 DEF ThreadInv, Sound
  <2> QED BY <1>0, <2>1, <2>2, <2>3, <2>4 DEF ThreadInv, Sound, Claimed
<1>2. CASE Sync \/ Upload \/ Expire \/ UNCHANGED vars
  BY <1>0, <1>2, ThreadsKept DEF ThreadInv, Claimed
<1>3. CASE Crash
  <2>1. thread' = [t \in Threads |-> Idle] BY <1>3 DEF Crash
  <2> QED BY <2>1, SupplyAssumption DEF ThreadInv, Claimed, Idle, Turn
<1> QED BY <1>1, <1>2, <1>3, NextCases

\* What was issued, recorded and shown stays as it was.
Grows ==
  /\ \A b \in DOMAIN issued : b \in DOMAIN issued' /\ issued'[b] = issued[b]
  /\ \A k \in DOMAIN allocated : k \in DOMAIN allocated' /\ allocated'[k] = allocated[k]
  /\ \A i \in Shown : i \in Shown' /\ rendered'[i] = rendered[i]

LEMMA Growth == IInv /\ [Next]_vars => Grows
<1> SUFFICES ASSUME IInv, [Next]_vars PROVE Grows OBVIOUS
<1> USE SupplyAssumption
<1>0. NodeInv /\ SliceInv /\ RenderedInv BY DEF IInv
<1>1. issued' = issued \/ FetchBundle
  BY NextCases
  DEF Serve, DecideLocal, Claim, RecordRead, RecordWrite, Queue, Sync, Wake, FetchBundleFails,
      StoreBundle, ClearSlices, FetchAllocation, FetchAllocationFails, Upload, TakeBatch,
      Answered, Unanswered, ReadDelayed, Expire, Crash, Verify, vars, exchange
<1>2. allocated' = allocated \/ FetchAllocation
  BY NextCases
  DEF Serve, DecideLocal, Claim, RecordRead, RecordWrite, Queue, Sync, Wake, FetchBundle,
      FetchBundleFails, StoreBundle, ClearSlices, FetchAllocationFails, Upload, TakeBatch,
      Answered, Unanswered, ReadDelayed, Expire, Crash, Verify, vars, exchange
<1>3. rendered' = rendered \/ \E t \in Threads : Queue(t)
  BY NextCases
  DEF Serve, DecideLocal, Claim, RecordRead, RecordWrite, Sync, Wake, FetchBundle,
      FetchBundleFails, StoreBundle, ClearSlices, FetchAllocation, FetchAllocationFails, Upload,
      TakeBatch, Answered, Unanswered, ReadDelayed, Expire, Crash, vars
<1>4. \A b \in DOMAIN issued : b \in DOMAIN issued' /\ issued'[b] = issued[b]
  <2>1. CASE FetchBundle
    <3>1. PICK content \in Contents : issued' = Append(issued, content) BY <2>1 DEF FetchBundle
    <3>2. Len(issued) < MaxBundles BY <2>1 DEF FetchBundle
    <3> QED BY <1>0, <3>1, <3>2, Issuing
  <2> QED BY <1>1, <2>1
<1>5. \A k \in DOMAIN allocated : k \in DOMAIN allocated' /\ allocated'[k] = allocated[k]
  <2>1. CASE FetchAllocation
    <3>1. PICK size \in [issued[fetched] \cap Capped -> SliceSizes] :
            allocated' = [k \in DOMAIN allocated \cup ({fetched} \X DOMAIN size) |->
                            IF k[1] = fetched /\ k[2] \in DOMAIN size THEN size[k[2]]
                            ELSE allocated[k]]
      BY <2>1 DEF FetchAllocation
    <3>2. Fetching BY <2>1 DEF FetchAllocation, Fetching
    <3>3. ASSUME NEW k \in DOMAIN allocated, k[1] = fetched, k[2] \in DOMAIN size PROVE FALSE
      <4>1. k = <<fetched, k[2]>> /\ k[2] \in LineItems BY <1>0, <3>3 DEF SliceInv
      <4> QED BY <1>0, <3>2, <4>1 DEF SliceInv
    <3> QED BY <3>1, <3>3
  <2> QED BY <1>2, <2>1
<1>6. \A i \in Shown : i \in Shown' /\ rendered'[i] = rendered[i]
  <2>1. ASSUME NEW t \in Threads, Queue(t)
        PROVE  \A i \in Shown : i \in Shown' /\ rendered'[i] = rendered[i]
    <3> DEFINE r == [lid |-> thread[t].lid, bundle |-> thread[t].bundle,
                     index |-> thread[t].index, late |-> thread[t].bundle \in expired,
                     decided |-> thread[t].decided, sliced |-> thread[t].sliced,
                     stale |-> thread[t].stale]
    <3>1. rendered' = Append(rendered, r) BY <2>1 DEF Queue
    <3> HIDE DEF r
    <3> QED BY <1>0, <3>1 DEF RenderedInv, Shown
  <2> QED BY <1>3, <2>1 DEF Shown
<1> QED BY <1>4, <1>5, <1>6 DEF Grows

LEMMA RenderedStep == IInv /\ [Next]_vars => RenderedInv'
<1> SUFFICES ASSUME IInv, [Next]_vars PROVE RenderedInv' OBVIOUS
<1> USE SupplyAssumption
<1>0. NodeInv /\ ThreadInv /\ RenderedInv /\ NodeInv' BY NodeStep DEF IInv
<1>1. Grows BY Growth
<1>2. rendered' = rendered \/ \E t \in Threads : Queue(t)
  BY NextCases
  DEF Serve, DecideLocal, Claim, RecordRead, RecordWrite, Sync, Wake, FetchBundle,
      FetchBundleFails, StoreBundle, ClearSlices, FetchAllocation, FetchAllocationFails, Upload,
      TakeBatch, Answered, Unanswered, ReadDelayed, Expire, Crash, vars
<1>3. CASE rendered' = rendered BY <1>0, <1>1, <1>3 DEF RenderedInv, Grows, Shown
<1>4. ASSUME NEW t \in Threads, Queue(t) PROVE RenderedInv'
  <2> DEFINE d == thread[t]
             r == [lid |-> d.lid, bundle |-> d.bundle, index |-> d.index,
                   late |-> d.bundle \in expired, decided |-> d.decided,
                   sliced |-> d.sliced, stale |-> d.stale]
  <2>1. rendered' = Append(rendered, r) /\ issued' = issued BY <1>4 DEF Queue, exchange
  <2>2. /\ d \in Turn /\ d.lid \in LineItems /\ d.decided \in DOMAIN issued
        /\ d.lid \in issued[d.decided] /\ d.bundle \in DOMAIN issued
    BY <1>0, <1>4 DEF Queue, ThreadInv, Claimed
  <2>3. DOMAIN issued \subseteq Bundles BY <1>0 DEF NodeInv, Bundles
  <2>4. r \in Receipt BY <2>2, <2>3 DEF Receipt, Turn
  <2>5. r.bundle \in DOMAIN issued /\ r.decided \in DOMAIN issued /\ r.lid \in issued[r.decided]
    BY <2>2
  <2> HIDE DEF r
  <2>6. /\ rendered' \in Seq(Receipt) /\ Shown' = Shown \cup {Len(rendered) + 1}
        /\ rendered'[Len(rendered) + 1] = r /\ \A i \in Shown : rendered'[i] = rendered[i]
    BY <1>0, <2>1, <2>4 DEF RenderedInv, Shown
  <2> QED BY <1>0, <2>1, <2>5, <2>6 DEF RenderedInv
<1> QED BY <1>2, <1>3, <1>4

LEMMA TurnsStep == IInv /\ [Next]_vars => TurnsInv'
<1> SUFFICES ASSUME IInv, [Next]_vars PROVE TurnsInv' OBVIOUS
<1> USE SupplyAssumption
<1>0. TurnsInv /\ ThreadInv /\ RenderedInv BY DEF IInv
<1>1. IsFiniteSet(Busy) /\ Cardinality(Busy) \in Nat /\ Len(rendered) \in Nat
  <2>1. Busy \subseteq Threads BY DEF Busy
  <2> QED BY <1>0, <2>1, FS_Subset, FS_CardinalityType DEF RenderedInv
<1>2. ASSUME NEW t \in Threads, Serve(t) PROVE TurnsInv'
  <2>1. rendered' = rendered
    BY <1>2 DEF Serve, DecideLocal, Claim, RecordRead, RecordWrite
  <2>2. CASE DecideLocal(t)
    <3>1. Len(rendered) + Cardinality(Busy) < MaxTurns /\ t \notin Busy
      BY <2>2 DEF DecideLocal, Busy
    <3>2. PICK d : Sound(d) /\ thread' = [thread EXCEPT ![t] = d] BY <1>2, TurnStep
    <3>3. thread'[t].pc = "decided"
      BY <1>0, <2>2 DEF DecideLocal, Idle, ThreadInv
    <3>4. Busy' = Busy \cup {t} BY <1>0, <3>2, <3>3 DEF Busy, ThreadInv
    <3>5. Cardinality(Busy') = Cardinality(Busy) + 1 BY <1>1, <3>1, <3>4, FS_AddElement
    <3> QED BY <1>1, <2>1, <3>1, <3>5 DEF TurnsInv
  <2>3. CASE Claim(t) \/ RecordRead(t) \/ RecordWrite(t)
    <3>1. PICK d : Sound(d) /\ thread' = [thread EXCEPT ![t] = d] BY <1>2, TurnStep
    <3>2. thread[t].pc # "idle" /\ thread'[t].pc # "idle"
      BY <1>0, <2>3 DEF Claim, RecordRead, RecordWrite, ThreadInv, Turn
    <3>3. Busy' = Busy BY <1>0, <3>1, <3>2 DEF Busy, ThreadInv
    <3> QED BY <1>0, <2>1, <3>3 DEF TurnsInv
  <2> QED BY <1>2, <2>2, <2>3 DEF Serve
<1>3. ASSUME NEW t \in Threads, Queue(t) PROVE TurnsInv'
  <2>1. t \in Busy BY <1>3 DEF Queue, Busy
  <2>2. thread' = [thread EXCEPT ![t] = Idle] BY <1>3 DEF Queue
  <2>3. Busy' = Busy \ {t} BY <1>0, <2>2 DEF Busy, ThreadInv, Idle
  <2>4. Cardinality(Busy') = Cardinality(Busy) - 1 BY <1>1, <2>1, <2>3, FS_RemoveElement
  <2>5. Len(rendered') = Len(rendered) + 1 BY <1>0, <1>3 DEF Queue, RenderedInv
  <2> QED BY <1>0, <1>1, <2>4, <2>5 DEF TurnsInv
<1>4. CASE Sync \/ Upload \/ Expire \/ UNCHANGED vars
  <2>1. thread' = thread BY <1>4, ThreadsKept
  <2>2. rendered' = rendered
    BY <1>4 DEF Sync, Wake, FetchBundle, FetchBundleFails, StoreBundle, ClearSlices,
                FetchAllocation, FetchAllocationFails, Upload, TakeBatch, Answered, Unanswered,
                ReadDelayed, Expire, vars
  <2>3. Busy' = Busy BY <2>1 DEF Busy
  <2> QED BY <1>0, <2>2, <2>3 DEF TurnsInv
<1>5. CASE Crash
  <2>1. Busy' = {} BY <1>5 DEF Crash, Busy, Idle
  <2>2. Cardinality(Busy') = 0 BY <2>1, FS_EmptySet
  <2>3. rendered' = rendered BY <1>5 DEF Crash
  <2> QED BY <1>0, <1>1, <2>2, <2>3 DEF TurnsInv
<1> QED BY <1>2, <1>3, <1>4, <1>5, NextCases

LEMMA WithinSeq ==
  ASSUME NEW S, NEW A, NEW s \in Seq(S), Range(s) \subseteq A
  PROVE  s \in Seq(A)
<1>1. s \in [1..Len(s) -> A] /\ Len(s) \in Nat BY DEF Range
<1> QED BY <1>1

\* Receipts on their way stay receipts that were rendered.
LEMMA ShownGrows ==
  ASSUME NEW S, NEW T, S \subseteq T
  PROVE  /\ \A s \in Seq(S) : s \in Seq(T)
         /\ \A s \in Seq(Seq(S)) : s \in Seq(Seq(T))
<1>1. \A s \in Seq(S) : s \in Seq(T) BY WithinSeq DEF Range
<1>2. ASSUME NEW s \in Seq(Seq(S)) PROVE s \in Seq(Seq(T))
  <2>1. s \in [1..Len(s) -> Seq(T)] /\ Len(s) \in Nat BY <1>1
  <2> QED BY <2>1
<1> QED BY <1>1, <1>2

LEMMA MailStep == IInv /\ [Next]_vars => MailInv'
<1> SUFFICES ASSUME IInv, [Next]_vars PROVE MailInv' OBVIOUS
<1>0. MailInv /\ RenderedInv BY DEF IInv
<1>1. Shown \subseteq Shown' BY Growth DEF Grows
<1>2. /\ pending \in Seq(Shown') /\ batch \in Seq(Shown') /\ delayed \in Seq(Seq(Shown'))
  <2> HIDE DEF Shown
  <2> QED BY <1>0, <1>1, ShownGrows DEF MailInv
<1>3. (sched = "upload") = (batch # <<>>) BY <1>0 DEF MailInv
<1>4. CASE UNCHANGED <<pending, batch, delayed>> /\ (sched' = "upload" <=> sched = "upload")
  BY <1>2, <1>3, <1>4 DEF MailInv
<1>5. ASSUME NEW t \in Threads, Queue(t) PROVE MailInv'
  <2>1. pending' = Append(pending, Len(rendered) + 1) /\ UNCHANGED <<batch, delayed, sched>>
    BY <1>5 DEF Queue
  <2>2. Len(rendered) + 1 \in Shown' BY <1>0, <1>5 DEF Queue, Shown, RenderedInv
  <2> HIDE DEF Shown
  <2> QED BY <1>2, <1>3, <2>1, <2>2 DEF MailInv
<1>6. CASE Sync \/ Expire \/ UNCHANGED vars
  <2>1. UNCHANGED <<pending, batch, delayed>> /\ (sched' = "upload" <=> sched = "upload")
    BY <1>6 DEF Sync, Wake, FetchBundle, FetchBundleFails, StoreBundle, ClearSlices,
                FetchAllocation, FetchAllocationFails, Synced, Expire, vars
  <2> QED BY <1>4, <2>1
<1>7. ASSUME NEW t \in Threads, Serve(t) PROVE MailInv'
  BY <1>4, <1>7 DEF Serve, DecideLocal, Claim, RecordRead, RecordWrite
<1>8. CASE Upload
  <2> HIDE DEF Shown
  <2>1. CASE TakeBatch BY <1>2, <2>1 DEF TakeBatch, MailInv
  <2>2. CASE Answered BY <1>2, <2>2 DEF Answered, MailInv
  <2>3. CASE Unanswered
    <3>1. batch \o pending \in Seq(Shown') BY <1>2
    <3>2. delayed' \in {delayed, Append(delayed, batch)} BY <2>3 DEF Unanswered
    <3>3. delayed' \in Seq(Seq(Shown'))
      <4> DEFINE A == Seq(Shown')
      <4>1. delayed \in Seq(A) /\ batch \in A BY <1>2
      <4> HIDE DEF A
      <4>2. delayed' \in Seq(A) BY <3>2, <4>1
      <4> QED BY <4>2 DEF A
    <3> QED BY <2>3, <3>1, <3>3 DEF Unanswered, Requeue, MailInv
  <2>4. CASE ReadDelayed
    <3>1. PICK k \in DOMAIN delayed : delayed' = RemoveAt(delayed, k) BY <2>4 DEF ReadDelayed
    <3>2. delayed' \in Seq(Seq(Shown'))
      <4> DEFINE A == Seq(Shown')
      <4>1. delayed \in Seq(A) BY <1>2
      <4> HIDE DEF A
      <4>2. delayed' \in Seq(A) BY <3>1, <4>1 DEF RemoveAt
      <4> QED BY <4>2 DEF A
    <3> QED BY <1>2, <1>3, <2>4, <3>2 DEF ReadDelayed, MailInv
  <2> QED BY <1>8, <2>1, <2>2, <2>3, <2>4 DEF Upload
<1>9. CASE Crash
  BY <1>2, <1>9 DEF Crash, MailInv
<1> QED BY <1>5, <1>6, <1>7, <1>8, <1>9, NextCases

\* What no bundle, slice or turn changes: a receipt refused is refused for good.
LEMMA RefusalStays ==
  ASSUME IInv, Grows, UNCHANGED <<billed, rejected>>
  PROVE  JudgedInv'
<1>0. JudgedInv /\ RenderedInv BY DEF IInv
<1>1. Shown \subseteq Shown' BY DEF Grows
<1>2. billed' \in Seq(Shown') /\ rejected' \subseteq Shown'
  <2> HIDE DEF Shown
  <2> QED BY <1>0, <1>1, ShownGrows DEF JudgedInv
<1>3. \A i \in Shown : Nonce(i)' = Nonce(i) BY DEF Grows, Nonce
<1>4. \A j \in DOMAIN billed : billed[j] \in Shown BY <1>0 DEF JudgedInv
<1>5. \A j \in DOMAIN billed : Nonce(billed[j])' = Nonce(billed[j])
  BY <1>4 DEF Grows, Nonce
<1>6. Distinct(billed)'
  <2> HIDE DEF Nonce
  <2> QED BY <1>0, <1>5 DEF JudgedInv, Distinct
<1>7. Spent(billed)' = Spent(billed)
  <2> HIDE DEF Nonce
  <2> QED BY <1>5 DEF Spent
<1>8. ASSUME NEW i \in rejected PROVE ~Payable(i, billed)'
  <2>1. i \in Shown /\ ~Payable(i, billed) BY <1>0 DEF JudgedInv
  <2>2. rendered'[i] = rendered[i] /\ Nonce(i)' = Nonce(i) BY <1>3, <2>1 DEF Grows
  <2>3. rendered[i].bundle \in DOMAIN issued BY <1>0, <2>1 DEF RenderedInv
  <2>4. issued'[rendered[i].bundle] = issued[rendered[i].bundle] BY <2>3 DEF Grows
  <2> HIDE DEF Nonce, Spent
  <2> QED BY <1>7, <2>1, <2>2, <2>4 DEF Payable, Grows
<1> QED BY <1>2, <1>6, <1>8 DEF JudgedInv

\* What reading a batch of rendered receipts makes of the exchange's decisions.
LEMMA ReadingStep ==
  ASSUME IInv, NEW b \in Seq(Shown), Verify(b)
  PROVE  VerifyEffect(b)
<1>1. Shown \subseteq Nat BY DEF IInv, RenderedInv, Shown
<1>2. b \in Seq(Nat) /\ billed \in Seq(Nat) /\ rejected \in SUBSET Nat
  <2> HIDE DEF Shown
  <2> QED BY <1>1, ShownGrows DEF IInv, JudgedInv
<1> QED BY <1>2, VerifyKeeps DEF IInv, JudgedInv

LEMMA ReadingKeeps ==
  ASSUME IInv, NEW b \in Seq(Shown), Verify(b), rendered' = rendered
  PROVE  JudgedInv'
<1>0. JudgedInv BY DEF IInv
<1>1. VerifyEffect(b) BY ReadingStep
<1>2. Range(b) \subseteq Shown /\ Paid \subseteq Shown /\ Shown' = Shown
  BY <1>0 DEF JudgedInv, Paid, Range, Shown
<1>3. billed' \in Seq(Shown) /\ rejected' \subseteq Shown
  <2>1. billed' \in Seq(Nat) /\ Range(billed') \subseteq Shown
    BY <1>1, <1>2 DEF VerifyEffect, Paid
  <2> HIDE DEF Shown
  <2>2. billed' \in Seq(Shown) BY <2>1, WithinSeq
  <2> QED BY <1>0, <1>1, <1>2, <2>2 DEF VerifyEffect, JudgedInv
<1>4. Distinct(billed)' BY <1>1 DEF VerifyEffect, Distinct, Nonce
<1>5. \A i \in rejected' : ~Payable(i, billed)' BY <1>1 DEF VerifyEffect, Payable, Nonce, Spent
<1> QED BY <1>2, <1>3, <1>4, <1>5 DEF JudgedInv

LEMMA JudgedStep == IInv /\ [Next]_vars => JudgedInv'
<1> SUFFICES ASSUME IInv, [Next]_vars PROVE JudgedInv' OBVIOUS
<1>0. MailInv BY DEF IInv
<1>1. Grows BY Growth
<1>2. CASE UNCHANGED <<billed, rejected>> BY <1>1, <1>2, RefusalStays
<1>3. ASSUME NEW t \in Threads, Serve(t) \/ Queue(t) PROVE JudgedInv'
  BY <1>2, <1>3 DEF Serve, DecideLocal, Claim, RecordRead, RecordWrite, Queue, exchange
<1>4. CASE Sync \/ TakeBatch \/ Expire \/ Crash \/ UNCHANGED vars
  BY <1>2, <1>4
  DEF Sync, Wake, FetchBundle, FetchBundleFails, StoreBundle, ClearSlices, FetchAllocation,
      FetchAllocationFails, TakeBatch, Expire, Crash, vars, exchange
<1>5. CASE Answered
  <2>1. Verify(batch) /\ rendered' = rendered BY <1>5 DEF Answered
  <2> QED BY <1>0, <2>1, ReadingKeeps DEF MailInv
<1>6. CASE Unanswered
  <2>1. rendered' = rendered /\ (Verify(batch) \/ UNCHANGED exchange) BY <1>6 DEF Unanswered
  <2>2. CASE Verify(batch) BY <1>0, <2>1, <2>2, ReadingKeeps DEF MailInv
  <2>3. CASE UNCHANGED exchange BY <1>2, <2>3 DEF exchange
  <2> QED BY <2>1, <2>2, <2>3
<1>7. CASE ReadDelayed
  <2>1. PICK k \in DOMAIN delayed : Verify(delayed[k]) BY <1>7 DEF ReadDelayed
  <2>2. rendered' = rendered BY <1>7 DEF ReadDelayed
  <2>3. delayed[k] \in Seq(Shown)
    <3> HIDE DEF Shown
    <3> QED BY <1>0 DEF MailInv
  <2> QED BY <2>1, <2>2, <2>3, ReadingKeeps
<1> QED BY <1>3, <1>4, <1>5, <1>6, <1>7, NextCases DEF Upload

LEMMA InvStep == IInv /\ [Next]_vars => IInv'
BY NodeStep, SliceStep, ThreadStep, RenderedStep, TurnsStep, MailStep, JudgedStep DEF IInv

THEOREM Invariant == Spec => []IInv
BY InvInit, InvStep, PTL DEF Spec

(***************************************************************************)
(* What follows of the runs' properties.                                   *)
(***************************************************************************)
LEMMA InvTypes == IInv => TypeOK
<1> SUFFICES ASSUME IInv PROVE TypeOK OBVIOUS
<1>1. NodeInv /\ SliceInv /\ ThreadInv /\ RenderedInv /\ TurnsInv /\ MailInv /\ JudgedInv
  BY DEF IInv
<1>2. DOMAIN issued \subseteq Bundles BY <1>1, SupplyAssumption DEF NodeInv, Bundles
<1>3. Shown \subseteq Impressions
  <2>1. Busy \subseteq Threads BY DEF Busy
  <2>2. Cardinality(Busy) \in Nat
    BY <2>1, FS_Subset, FS_CardinalityType, SupplyAssumption
  <2> QED BY <1>1, <2>2, SupplyAssumption DEF RenderedInv, TurnsInv, Shown, Impressions
<1>4. pending \in Batch /\ batch \in Batch /\ delayed \in Seq(Batch) /\ billed \in Batch
  <2> HIDE DEF Shown, Impressions
  <2> QED BY <1>1, <1>3, ShownGrows DEF MailInv, JudgedInv, Batch
<1>5. DOMAIN allocated \subseteq Bundles \X Capped
  <2> SUFFICES ASSUME NEW k \in DOMAIN allocated PROVE k \in Bundles \X Capped OBVIOUS
  <2>1. k = <<k[1], k[2]>> /\ k[1] \in Bundles /\ k[2] \in Capped BY <1>1, <1>2 DEF SliceInv
  <2> QED BY <2>1
<1>6. Range(allocated) \subseteq SliceSizes BY <1>1 DEF SliceInv, Range
<1>7. rejected \subseteq Impressions BY <1>1, <1>3 DEF JudgedInv
<1> QED BY <1>1, <1>2, <1>4, <1>5, <1>6, <1>7
    DEF TypeOK, NodeInv, SliceInv, ThreadInv, RenderedInv, MailInv

\* Every variable keeps its type, and no upload is ever empty.
THEOREM TypeCorrect == Spec => []TypeOK
BY Invariant, InvTypes, PTL

\* One step of a node, or of the network, loses no receipt that is not decided
\* about, unless the node dies.
Kept ==
  \A i \in DOMAIN rendered' :
    (i \in Held \/ i \notin DOMAIN rendered) /\ i \notin Held' => i \in Judged' \/ crashes' > crashes

LEMMA Ranges ==
  ASSUME NEW S, NEW s \in Seq(S), NEW u \in Seq(S)
  PROVE  Range(s \o u) = Range(s) \cup Range(u)
<1>1. /\ Len(s) \in Nat /\ Len(u) \in Nat /\ s \o u \in Seq(S) /\ Len(s \o u) = Len(s) + Len(u)
      /\ \A j \in 1..(Len(s) + Len(u)) :
           (s \o u)[j] = IF j <= Len(s) THEN s[j] ELSE u[j - Len(s)]
      /\ DOMAIN s = 1..Len(s) /\ DOMAIN u = 1..Len(u) /\ DOMAIN (s \o u) = 1..(Len(s) + Len(u))
  OBVIOUS
<1> DEFINE m == Len(s)
           n == Len(u)
           w == s \o u
<1> HIDE DEF m, n, w
<1>2. /\ m \in Nat /\ n \in Nat /\ DOMAIN s = 1..m /\ DOMAIN u = 1..n /\ DOMAIN w = 1..(m + n)
      /\ \A j \in 1..(m + n) : w[j] = IF j <= m THEN s[j] ELSE u[j - m]
  BY <1>1 DEF m, n, w
<1>3. Range(w) \subseteq Range(s) \cup Range(u)
  <2> SUFFICES ASSUME NEW j \in 1..(m + n) PROVE w[j] \in Range(s) \cup Range(u)
    BY <1>2 DEF Range
  <2>1. CASE j <= m
    <3>1. j \in DOMAIN s /\ w[j] = s[j] BY <1>2, <2>1
    <3> QED BY <3>1 DEF Range
  <2>2. CASE ~(j <= m)
    <3>1. j - m \in DOMAIN u /\ w[j] = u[j - m] BY <1>2, <2>2
    <3> QED BY <3>1 DEF Range
  <2> QED BY <2>1, <2>2
<1>4. ASSUME NEW j \in DOMAIN s PROVE s[j] \in Range(w)
  <2>1. j \in DOMAIN w /\ w[j] = s[j] BY <1>2
  <2> QED BY <2>1 DEF Range
<1>5. ASSUME NEW j \in DOMAIN u PROVE u[j] \in Range(w)
  <2>1. j + m \in DOMAIN w /\ w[j + m] = u[j] BY <1>2
  <2> QED BY <2>1 DEF Range
<1>6. Range(s) \subseteq Range(w) /\ Range(u) \subseteq Range(w)
  BY <1>4, <1>5, Zenon DEF Range
<1> QED BY <1>3, <1>6 DEF w

LEMMA KeptStep == IInv /\ [Next]_vars => [Kept]_vars
<1> SUFFICES ASSUME IInv, [Next]_vars PROVE Kept \/ UNCHANGED vars OBVIOUS
<1>0. MailInv /\ RenderedInv BY DEF IInv
<1>1. ASSUME Held \subseteq Held', rendered' = rendered PROVE Kept BY <1>1 DEF Kept
<1>2. ASSUME NEW t \in Threads, Serve(t) PROVE Kept
  <2>1. UNCHANGED <<pending, batch, rendered>>
    BY <1>2 DEF Serve, DecideLocal, Claim, RecordRead, RecordWrite
  <2>2. Held' = Held BY <2>1 DEF Held
  <2> QED BY <1>1, <2>1, <2>2
<1>3. ASSUME NEW t \in Threads, Queue(t) PROVE Kept
  <2>1. /\ pending' = Append(pending, Len(rendered) + 1) /\ batch' = batch
        /\ \E r : rendered' = Append(rendered, r)
    BY <1>3, Zenon DEF Queue
  <2>2. DOMAIN rendered' = DOMAIN rendered \cup {Len(rendered) + 1}
    BY <1>0, <2>1 DEF RenderedInv
  <2>3. pending \in Seq(Nat) /\ Len(rendered) + 1 \in Nat
    <3>1. Shown \subseteq Nat /\ Len(rendered) + 1 \in Nat BY <1>0 DEF RenderedInv, Shown
    <3> HIDE DEF Shown
    <3> QED BY <1>0, <3>1, ShownGrows DEF MailInv
  <2>4. Range(pending') = Range(pending) \cup {Len(rendered) + 1} BY <2>1, <2>3, Appended
  <2> QED BY <2>1, <2>2, <2>4 DEF Kept, Held
<1>4. CASE Sync \/ Expire \/ ReadDelayed
  <2>1. Held' = Held /\ rendered' = rendered
    BY <1>4 DEF Sync, Wake, FetchBundle, FetchBundleFails, StoreBundle, ClearSlices,
                FetchAllocation, FetchAllocationFails, Expire, ReadDelayed, Held
  <2> QED BY <1>1, <2>1
<1>5. CASE TakeBatch
  <2>1. batch = <<>> BY <1>0, <1>5 DEF TakeBatch, MailInv
  <2>2. Range(batch) = {} BY <2>1 DEF Range
  <2> QED BY <1>1, <1>5, <2>2 DEF TakeBatch, Held
<1>6. CASE Answered
  <2>1. VerifyEffect(batch) BY <1>0, <1>6, ReadingStep DEF Answered, MailInv
  <2>2. pending' = pending /\ rendered' = rendered BY <1>6 DEF Answered
  <2> QED BY <2>1, <2>2 DEF Kept, Held, VerifyEffect
<1>7. CASE Unanswered
  <2>1. pending' = batch \o pending /\ rendered' = rendered BY <1>7 DEF Unanswered, Requeue
  <2>2. Range(pending') = Range(batch) \cup Range(pending) BY <1>0, <2>1, Ranges DEF MailInv
  <2> QED BY <1>1, <2>1, <2>2 DEF Held
<1>8. CASE Crash
  <2>1. crashes' > crashes BY <1>8 DEF Crash, IInv, NodeInv
  <2> QED BY <2>1 DEF Kept
<1> QED BY <1>2, <1>3, <1>4, <1>5, <1>6, <1>7, <1>8, NextCases DEF Upload

\* Nothing but the death of the proxy drops a receipt the exchange has not decided
\* about: not a failed upload, nor one that overlaps new turns.
THEOREM NothingDropped == Spec => NoReceiptDropped
<1>1. Spec => [][Kept]_vars BY Invariant, KeptStep, PTL DEF Spec
<1> QED BY <1>1 DEF NoReceiptDropped, Kept

(***************************************************************************)
(* The node and its exchange implement Delivery.                           *)
(***************************************************************************)
\* A log that pays no nonce twice has as many entries as impressions it pays.
LEMMA PaidCounted ==
  ASSUME NEW S, NEW log \in Seq(S), Distinct(log)
  PROVE  IsFiniteSet(Range(log)) /\ Cardinality(Range(log)) = Len(log)
<1> DEFINE n == Len(log)
           R == Range(log)
<1>1. n \in Nat /\ log \in [1..n -> R] /\ DOMAIN log = 1..n BY DEF Range
<1>2. \A j, k \in 1..n : log[j] = log[k] => j = k BY <1>1 DEF Distinct
<1>3. \A r \in R : \E j \in 1..n : log[j] = r BY <1>1 DEF Range
<1> HIDE DEF n, R
<1>4. log \in Bijection(1..n, R) BY <1>1, <1>2, <1>3 DEF Bijection, Injection, IsInjective, Surjection
<1>5. ExistsBijection(1..n, R) BY <1>4, Zenon DEF ExistsBijection
<1>6. Cardinality(R) = n BY <1>1, <1>5, FS_CountingElements
<1>7. IsFiniteSet(R) BY <1>1, <1>5, FS_NatBijection
<1> QED BY <1>6, <1>7 DEF n, R

owed == Shown \ Judged
refused == rejected \ Paid
mapped == <<owed, Paid, refused, Len(billed)>>

\* The exchange reads a batch: all of it that was owed is decided.
LEMMA ReadingJudges ==
  ASSUME IInv, NEW b \in Seq(Shown), Verify(b), rendered' = rendered
  PROVE  Promise!Next \/ UNCHANGED mapped
<1> DEFINE yes == Paid' \ Paid
           no == (rejected' \ Paid') \ refused
<1>0. JudgedInv /\ JudgedInv' BY ReadingKeeps DEF IInv
<1>1. VerifyEffect(b) BY ReadingStep
<1>2. Range(b) \subseteq Shown /\ Shown' = Shown BY DEF Range, Shown
<1>3. yes \subseteq owed /\ no \subseteq owed /\ yes \cap no = {}
  BY <1>1, <1>2 DEF VerifyEffect, owed, refused, Judged
<1>4. /\ owed' = owed \ (yes \cup no) /\ Paid' = Paid \cup yes /\ refused' = refused \cup no
  BY <1>1, <1>2 DEF VerifyEffect, owed, refused, Judged
<1>5. Len(billed') = Len(billed) + Cardinality(yes)
  <2>1. IsFiniteSet(Paid') /\ Cardinality(Paid') = Len(billed')
    <3>1. Distinct(billed') BY <1>1 DEF VerifyEffect
    <3>2. billed' \in Seq(Shown') BY <1>0 DEF JudgedInv
    <3> HIDE DEF Shown
    <3> QED BY <3>1, <3>2, PaidCounted DEF Paid
  <2>2. Cardinality(Paid) = Len(billed) /\ IsFiniteSet(Paid)
    <3> HIDE DEF Shown
    <3> QED BY <1>0, PaidCounted DEF JudgedInv, Paid
  <2>3. Paid \subseteq Paid' BY <1>1 DEF VerifyEffect
  <2>4. /\ Cardinality(yes) = Cardinality(Paid') - Cardinality(Paid' \cap Paid)
    BY <2>1, <2>2, FS_Difference
  <2>5. Paid' \cap Paid = Paid BY <2>3
  <2>7. Cardinality(yes) = Cardinality(Paid') - Cardinality(Paid) BY <2>4, <2>5
  <2>6. Cardinality(Paid) \in Nat /\ Cardinality(Paid') \in Nat
    BY <2>1, <2>2, FS_CardinalityType
  <2> HIDE DEF yes
  <2> QED BY <2>1, <2>2, <2>6, <2>7
<1>6. CASE yes \cup no = {}
  <2>1. Cardinality(yes) = 0 BY <1>6, FS_EmptySet
  <2>2. Len(billed) \in Nat BY <1>0 DEF JudgedInv
  <2> HIDE DEF yes, no
  <2> QED BY <1>4, <1>5, <1>6, <2>1, <2>2 DEF mapped
<1>7. CASE yes \cup no # {}
  <2> HIDE DEF yes, no
  <2>2. Promise!Cardinality(yes) = Cardinality(yes) BY DEF Promise!Cardinality, Cardinality
  <2>1. Promise!Judge(yes, no)
    BY <1>3, <1>4, <1>5, <1>7, <2>2 DEF Promise!Judge, owed, refused, Shown
  <2> QED BY <1>3, <2>1 DEF Promise!Next, owed, Shown
<1> QED BY <1>6, <1>7

LEMMA PromiseInit == Init => Promise!Init
BY DEF Init, Promise!Init, Judged, Paid, Range

LEMMA PromiseStep == IInv /\ [Next]_vars => [Promise!Next]_mapped
<1> SUFFICES ASSUME IInv, [Next]_vars PROVE Promise!Next \/ UNCHANGED mapped OBVIOUS
<1>0. MailInv /\ RenderedInv /\ JudgedInv /\ TypeOK BY InvTypes DEF IInv
<1>1. CASE UNCHANGED <<rendered, billed, rejected>>
  BY <1>1 DEF mapped, owed, refused, Judged, Paid, Shown
<1>2. ASSUME NEW t \in Threads, Serve(t) PROVE UNCHANGED mapped
  <2>1. UNCHANGED <<rendered, billed, rejected>>
    BY <1>2 DEF Serve, DecideLocal, Claim, RecordRead, RecordWrite, exchange
  <2> QED BY <2>1 DEF mapped, owed, refused, Judged, Paid, Shown
<1>3. ASSUME NEW t \in Threads, Queue(t) PROVE Promise!Next
  <2> DEFINE i == Len(rendered) + 1
  <2>1. UNCHANGED <<billed, rejected>> /\ \E r : rendered' = Append(rendered, r)
    BY <1>3, Zenon DEF Queue, exchange
  <2>2. Shown' = Shown \cup {i} /\ i \notin Shown BY <1>0, <2>1 DEF RenderedInv, Shown
  <2>3. i \in Impressions
    <3>2. Shown' \subseteq Impressions
      <4>1. IInv' BY InvStep
      <4>2. /\ Len(rendered)' + Cardinality(Busy)' <= MaxTurns /\ rendered' \in Seq(Receipt)
            /\ thread' \in [Threads -> Turn]
        BY <4>1 DEF IInv, TurnsInv, RenderedInv, ThreadInv
      <4>3. Busy' \subseteq Threads BY DEF Busy
      <4>4. Cardinality(Busy)' \in Nat
        BY <4>3, FS_Subset, FS_CardinalityType, SupplyAssumption
      <4> QED BY <4>2, <4>4, SupplyAssumption DEF Shown, Impressions
    <3> QED BY <2>2, <3>2
  <2>4. Judged \subseteq Shown BY <1>0 DEF JudgedInv, Judged, Paid, Range, Shown
  <2>5. UNCHANGED <<Paid, refused, Judged, Len(billed)>> BY <2>1 DEF Paid, refused, Judged
  <2>6. i \notin owed \cup Judged /\ owed' = owed \cup {i} BY <2>2, <2>4, <2>5 DEF owed
  <2> HIDE DEF i
  <2>7. Promise!Render(i)
    BY <2>4, <2>5, <2>6 DEF Promise!Render, Promise!Judged, owed, refused, Judged, Shown
  <2> QED BY <2>3, <2>7 DEF Promise!Next
<1>4. CASE Sync \/ TakeBatch \/ Expire \/ Crash \/ UNCHANGED vars
  <2>1. UNCHANGED <<rendered, billed, rejected>>
    BY <1>4
    DEF Sync, Wake, FetchBundle, FetchBundleFails, StoreBundle, ClearSlices, FetchAllocation,
        FetchAllocationFails, TakeBatch, Expire, Crash, vars, exchange
  <2> QED BY <1>1, <2>1
<1>5. CASE Answered
  <2>1. Verify(batch) /\ rendered' = rendered BY <1>5 DEF Answered
  <2> QED BY <1>0, <2>1, ReadingJudges DEF MailInv
<1>6. CASE Unanswered
  <2>1. rendered' = rendered /\ (Verify(batch) \/ UNCHANGED exchange) BY <1>6 DEF Unanswered
  <2>2. CASE Verify(batch) BY <1>0, <2>1, <2>2, ReadingJudges DEF MailInv
  <2>3. CASE UNCHANGED exchange BY <1>1, <2>1, <2>3 DEF exchange
  <2> QED BY <2>1, <2>2, <2>3
<1>7. CASE ReadDelayed
  <2>1. PICK k \in DOMAIN delayed : Verify(delayed[k]) BY <1>7 DEF ReadDelayed
  <2>2. rendered' = rendered BY <1>7 DEF ReadDelayed
  <2>3. delayed[k] \in Seq(Shown)
    <3> HIDE DEF Shown
    <3> QED BY <1>0 DEF MailInv
  <2> QED BY <2>1, <2>2, <2>3, ReadingJudges
<1> QED BY <1>2, <1>3, <1>4, <1>5, <1>6, <1>7, NextCases DEF Upload

\* Every impression is decided about once, for good, and every decision to pay
\* earns one unit, however often and however late batches are uploaded.
THEOREM NodeKeepsPromise == Spec => DecidedOnce
<1>1. Init => Promise!Init BY PromiseInit
<1>2. IInv /\ [Next]_vars => [Promise!Next]_<<Shown \ Judged, Paid, rejected \ Paid, Len(billed)>>
  BY PromiseStep DEF mapped, owed, refused
<1> QED BY <1>1, <1>2, Invariant, PTL DEF Spec, DecidedOnce, Promise!Spec, Shown

(***************************************************************************)
(* One turn at a time.                                                     *)
(***************************************************************************)
OneHandler == \A t, u \in Threads : t = u

\* A rendered index is below the count of its line item, or it belongs to a bundle
\* the node has left for good: the count restarts only with a new bundle.
Numbered ==
  \A i \in Shown :
    \/ rendered[i].index < pacing[rendered[i].lid]
    \/ /\ rendered[i].bundle \notin {bundle, fetched}
       /\ \A t \in Threads : Claimed(t) => thread[t].bundle # rendered[i].bundle

\* The index a turn has claimed is the count, which the turn is about to raise, and
\* no impression was rendered under it.
Fresh(t) ==
  /\ thread[t].index = IF thread[t].pc = "recorded" THEN pacing[thread[t].lid] - 1
                       ELSE pacing[thread[t].lid]
  /\ thread[t].pc = "recording" => thread[t].read = pacing[thread[t].lid]
  /\ \A i \in Shown : Nonce(i) # <<thread[t].bundle, thread[t].lid, thread[t].index>>
ClaimsFresh == \A t \in Threads : Claimed(t) => Fresh(t)

Within(b, l, n) == <<b, l>> \in DOMAIN allocated /\ n < allocated[<<b, l>>]

\* A turn decided inside a slice is inside the one the exchange recorded, and so is
\* the impression it renders unless another bundle was loaded in between.
Inside(t) ==
  IF thread[t].pc = "decided"
  THEN Within(thread[t].decided, thread[t].lid, pacing[thread[t].lid])
  ELSE thread[t].decided = thread[t].bundle =>
         Within(thread[t].decided, thread[t].lid, thread[t].index)
TurnsInside == \A t \in Threads : thread[t].pc # "idle" /\ thread[t].sliced => Inside(t)
ShownInside ==
  \A i \in Shown : rendered[i].sliced /\ rendered[i].decided = rendered[i].bundle =>
                    Within(rendered[i].decided, rendered[i].lid, rendered[i].index)

OneInv == Numbered /\ ClaimsFresh /\ EachImpressionOwnNonce /\ TurnsInside /\ ShownInside

LEMMA OneInit == Init => OneInv
BY DEF Init, Booting, Idle, OneInv, Numbered, ClaimsFresh, Claimed, EachImpressionOwnNonce,
       TurnsInside, ShownInside, Shown

\* A slice recorded stays.
LEMMA WithinStays ==
  ASSUME Grows, NEW b, NEW l, NEW n, Within(b, l, n)
  PROVE  Within(b, l, n)'
BY DEF Grows, Within

\* Steps that leave every turn and the counts as they are, and load no bundle that
\* impressions were rendered under.
LEMMA OneUnmoved ==
  ASSUME IInv, OneInv, Grows, UNCHANGED <<thread, pacing, rendered>>,
         \A b \in {bundle', fetched'} : b \in {bundle, fetched, None} \/ b \notin DOMAIN issued
  PROVE  OneInv'
<1>0. RenderedInv /\ NodeInv BY DEF IInv
<1>1. Numbered'
  <2> SUFFICES ASSUME NEW i \in Shown
               PROVE  \/ rendered[i].index < pacing[rendered[i].lid]
                      \/ /\ rendered[i].bundle \notin {bundle', fetched'}
                         /\ \A t \in Threads : Claimed(t) => thread[t].bundle # rendered[i].bundle
    BY DEF Numbered, Shown, Claimed
  <2>1. rendered[i].bundle \in DOMAIN issued /\ rendered[i].bundle # None
    BY <1>0, SupplyAssumption DEF RenderedInv, NodeInv
  <2> QED BY <2>1 DEF OneInv, Numbered
<1>2. ClaimsFresh' BY DEF OneInv, ClaimsFresh, Claimed, Fresh, Nonce, Shown
<1>3. EachImpressionOwnNonce' BY DEF OneInv, EachImpressionOwnNonce, Nonce
<1>4. TurnsInside'
  <2> SUFFICES ASSUME NEW t \in Threads, thread[t].pc # "idle" /\ thread[t].sliced
               PROVE  Inside(t)'
    BY DEF TurnsInside
  <2> QED BY WithinStays DEF OneInv, TurnsInside, Inside
<1>5. ShownInside' BY WithinStays DEF OneInv, ShownInside, Shown
<1> QED BY <1>1, <1>2, <1>3, <1>4, <1>5 DEF OneInv

LEMMA OneServes ==
  ASSUME IInv, OneInv, OneHandler, NEW t \in Threads, Serve(t)
  PROVE  OneInv'
<1>0. /\ NodeInv /\ SliceInv /\ ThreadInv /\ RenderedInv /\ Numbered /\ ClaimsFresh
      /\ EachImpressionOwnNonce /\ TurnsInside /\ ShownInside
  BY DEF IInv, OneInv
<1>1. UNCHANGED <<rendered, bundle, fetched, slices, issued, allocated>>
  BY DEF Serve, DecideLocal, Claim, RecordRead, RecordWrite, exchange
<1>2. EachImpressionOwnNonce' /\ ShownInside'
  BY <1>0, <1>1 DEF EachImpressionOwnNonce, ShownInside, Nonce, Shown, Within
<1>3. \A u \in Threads : u = t BY DEF OneHandler
<1>4. /\ thread \in [Threads -> Turn] /\ thread' \in [Threads -> Turn]
      /\ pacing \in [LineItems -> Nat]
  <2>1. PICK d : Sound(d) /\ thread' = [thread EXCEPT ![t] = d] BY TurnStep
  <2> QED BY <1>0, <2>1 DEF ThreadInv, NodeInv, Sound
<1>5. \A i \in Shown : Nonce(i)' = Nonce(i) BY <1>1 DEF Nonce, Shown
<1>6. \A i \in Shown : rendered[i].index \in Nat /\ rendered[i].lid \in LineItems
  <2>1. rendered \in Seq(Receipt) BY <1>0 DEF RenderedInv
  <2>2. \A i \in Shown : rendered[i] \in Receipt BY <2>1 DEF Shown
  <2> QED BY <2>2 DEF Receipt
<1>7. CASE DecideLocal(t)
  <2>1. PICK l \in issued[bundle] :
          /\ Open(l)
          /\ thread' = [thread EXCEPT ![t] = [Idle EXCEPT
                          !.pc = "decided", !.lid = l, !.decided = bundle,
                          !.sliced = l \in DOMAIN slices.size /\ slices.of = bundle,
                          !.stale = bundle \in expired]]
    BY <1>7 DEF DecideLocal
  <2>2. pacing' = pacing BY <1>7 DEF DecideLocal
  <2>3. /\ thread'[t].pc = "decided" /\ thread'[t].lid = l /\ thread'[t].decided = bundle
        /\ thread'[t].sliced = (l \in DOMAIN slices.size /\ slices.of = bundle)
    BY <1>4, <2>1 DEF Idle
  <2>4. ClaimsFresh' BY <1>3, <2>3 DEF ClaimsFresh, Claimed
  <2>5. Numbered' BY <1>0, <1>1, <1>3, <2>2, <2>3 DEF Numbered, Claimed, Shown
  <2>6. TurnsInside'
    <3> SUFFICES ASSUME l \in DOMAIN slices.size, slices.of = bundle
                 PROVE  Within(bundle, l, pacing[l])
      BY <1>1, <1>3, <2>2, <2>3 DEF TurnsInside, Inside, Within
    <3> QED BY <1>0, <2>1 DEF Open, SliceInv, Within
  <2> QED BY <1>2, <2>4, <2>5, <2>6 DEF OneInv
<1>8. CASE Claim(t)
  <2>1. /\ thread[t].pc = "decided" /\ thread'[t].pc = "claimed" /\ thread'[t].bundle = bundle
        /\ thread'[t].index = pacing[thread[t].lid] /\ thread'[t].lid = thread[t].lid
        /\ thread'[t].decided = thread[t].decided /\ thread'[t].sliced = thread[t].sliced
        /\ pacing' = pacing
    BY <1>4, <1>8 DEF Claim, Turn
  <2>2. pacing[thread[t].lid] \in Nat BY <1>0, <1>4, <2>1 DEF ThreadInv
  <2>3. Numbered' BY <1>0, <1>1, <1>3, <2>1 DEF Numbered, Claimed, Shown
  <2>4. ASSUME NEW i \in Shown PROVE Nonce(i) # <<bundle, thread[t].lid, pacing[thread[t].lid]>>
    BY <1>0, <1>6, <2>2 DEF Numbered, Nonce
  <2>5. Fresh(t)' BY <1>1, <1>5, <2>1, <2>4 DEF Fresh, Shown
  <2>6. ClaimsFresh' BY <1>3, <2>5 DEF ClaimsFresh
  <2>7. TurnsInside' BY <1>0, <1>1, <1>3, <2>1 DEF TurnsInside, Inside, Within
  <2> QED BY <1>2, <2>3, <2>6, <2>7 DEF OneInv
<1>9. CASE RecordRead(t)
  <2>1. /\ thread[t].pc = "claimed" /\ thread'[t].pc = "recording"
        /\ thread'[t].bundle = thread[t].bundle /\ thread'[t].index = thread[t].index
        /\ thread'[t].lid = thread[t].lid /\ thread'[t].decided = thread[t].decided
        /\ thread'[t].sliced = thread[t].sliced /\ thread'[t].read = pacing[thread[t].lid]
        /\ pacing' = pacing
    BY <1>4, <1>9 DEF RecordRead, Turn
  <2>2. Fresh(t) BY <1>0, <2>1 DEF ClaimsFresh, Claimed
  <2>3. Numbered' BY <1>0, <1>1, <1>3, <2>1 DEF Numbered, Claimed, Shown
  <2>4. Fresh(t)' BY <1>1, <1>5, <2>1, <2>2 DEF Fresh, Shown
  <2>5. ClaimsFresh' BY <1>3, <2>4 DEF ClaimsFresh
  <2>6. TurnsInside' BY <1>0, <1>1, <1>3, <2>1 DEF TurnsInside, Inside, Within
  <2> QED BY <1>2, <2>3, <2>5, <2>6 DEF OneInv
<1>10. CASE RecordWrite(t)
  <2> DEFINE m == thread[t].lid
  <2>1. /\ thread[t].pc = "recording" /\ thread'[t].pc = "recorded"
        /\ thread'[t].bundle = thread[t].bundle /\ thread'[t].index = thread[t].index
        /\ thread'[t].lid = m /\ thread'[t].decided = thread[t].decided
        /\ thread'[t].sliced = thread[t].sliced
        /\ pacing' = [pacing EXCEPT ![m] = thread[t].read + 1]
    BY <1>4, <1>10 DEF RecordWrite, Turn
  <2>2. Fresh(t) BY <1>0, <2>1 DEF ClaimsFresh, Claimed
  <2>3. m \in LineItems BY <1>0, <2>1 DEF ThreadInv
  <2>4. pacing[m] \in Nat /\ thread[t].read = pacing[m] BY <1>4, <2>1, <2>2, <2>3 DEF Fresh
  <2>5. /\ pacing'[m] = pacing[m] + 1
        /\ \A l \in LineItems : pacing'[l] = IF l = m THEN pacing[m] + 1 ELSE pacing[l]
    BY <1>4, <2>1, <2>3, <2>4
  <2> HIDE DEF m
  <2>6. Numbered'
    <3> SUFFICES ASSUME NEW i \in Shown,
                        rendered[i].index < pacing[rendered[i].lid]
                 PROVE  rendered[i].index < pacing'[rendered[i].lid]
      BY <1>0, <1>1, <1>3, <2>1 DEF Numbered, Claimed, Shown
    <3>1. rendered[i].lid \in LineItems /\ rendered[i].index \in Nat BY <1>6
    <3> QED BY <1>4, <2>4, <2>5, <3>1
  <2>7. thread[t].index = pacing'[m] - 1
    BY <2>1, <2>2, <2>4, <2>5 DEF Fresh, m
  <2>8. Fresh(t)' BY <1>1, <1>5, <2>1, <2>2, <2>7 DEF Fresh, Shown, m
  <2>9. ClaimsFresh' BY <1>3, <2>8 DEF ClaimsFresh
  <2>10. TurnsInside' BY <1>0, <1>1, <1>3, <2>1 DEF TurnsInside, Inside, Within, m
  <2> QED BY <1>2, <2>6, <2>9, <2>10 DEF OneInv
<1> QED BY <1>7, <1>8, <1>9, <1>10 DEF Serve

LEMMA OneQueues ==
  ASSUME IInv, OneInv, OneHandler, NEW t \in Threads, Queue(t)
  PROVE  OneInv'
<1>0. /\ NodeInv /\ ThreadInv /\ RenderedInv /\ Numbered /\ ClaimsFresh
      /\ EachImpressionOwnNonce /\ TurnsInside /\ ShownInside
  BY DEF IInv, OneInv
<1>n. PICK n \in Nat : n = Len(rendered) + 1 BY <1>0 DEF RenderedInv
<1> DEFINE d == thread[t]
           r == [lid |-> d.lid, bundle |-> d.bundle, index |-> d.index,
                 late |-> d.bundle \in expired, decided |-> d.decided,
                 sliced |-> d.sliced, stale |-> d.stale]
<1>1. /\ rendered' = Append(rendered, r) /\ thread' = [thread EXCEPT ![t] = Idle]
      /\ UNCHANGED <<pacing, bundle, fetched, allocated>> /\ d.pc = "recorded"
  BY DEF Queue, exchange
<1>2. /\ r.lid = d.lid /\ r.bundle = d.bundle /\ r.index = d.index /\ r.decided = d.decided
      /\ r.sliced = d.sliced
  OBVIOUS
<1> HIDE DEF r
<1>3. /\ Shown' = Shown \cup {n} /\ n \notin Shown /\ rendered'[n] = r
      /\ \A i \in Shown : rendered'[i] = rendered[i]
  BY <1>0, <1>1, <1>n DEF RenderedInv, Shown
<1>4. \A u \in Threads : u = t /\ thread'[u].pc = "idle"
  BY <1>0, <1>1 DEF OneHandler, ThreadInv, Idle
<1>5. Fresh(t) BY <1>0, <1>1 DEF ClaimsFresh, Claimed
<1>6. ClaimsFresh' /\ TurnsInside' BY <1>4 DEF ClaimsFresh, TurnsInside, Claimed
<1>7. Numbered'
  <2>1. d.lid \in LineItems /\ pacing[d.lid] \in Nat BY <1>0, <1>1 DEF ThreadInv, NodeInv
  <2>2. d.index < pacing[d.lid] BY <1>1, <1>5, <2>1 DEF Fresh
  <2> QED BY <1>0, <1>1, <1>2, <1>3, <1>4, <2>2 DEF Numbered, Claimed
<1>8. EachImpressionOwnNonce'
  <2>1. \A i \in Shown : Nonce(i)' = Nonce(i) BY <1>3 DEF Nonce
  <2>2. Nonce(n)' = <<d.bundle, d.lid, d.index>> BY <1>2, <1>3 DEF Nonce
  <2>3. \A i \in Shown : Nonce(i)' # Nonce(n)' BY <1>5, <2>1, <2>2 DEF Fresh
  <2> SUFFICES ASSUME NEW i \in Shown', NEW j \in Shown', Nonce(i)' = Nonce(j)' PROVE i = j
    BY DEF EachImpressionOwnNonce, Shown
  <2> HIDE DEF Nonce
  <2> QED BY <1>0, <1>3, <2>1, <2>3 DEF EachImpressionOwnNonce, Shown
<1>9. ShownInside'
  <2>1. d.sliced /\ d.decided = d.bundle => Within(d.decided, d.lid, d.index)
    BY <1>0, <1>1 DEF TurnsInside, Inside
  <2> HIDE DEF d
  <2>2. SUFFICES ASSUME NEW i \in Shown', rendered'[i].sliced,
                        rendered'[i].decided = rendered'[i].bundle
                 PROVE  Within(rendered'[i].decided, rendered'[i].lid, rendered'[i].index)
    BY <1>1 DEF ShownInside, Within
  <2>3. CASE i = n BY <1>2, <1>3, <2>1, <2>2, <2>3
  <2>4. CASE i \in Shown BY <1>0, <1>3, <2>2, <2>4 DEF ShownInside
  <2> QED BY <1>3, <2>3, <2>4
<1> QED BY <1>6, <1>7, <1>8, <1>9 DEF OneInv

LEMMA OneStep == ASSUME OneHandler PROVE IInv /\ OneInv /\ [Next]_vars => OneInv'
<1> SUFFICES ASSUME IInv, OneInv, [Next]_vars PROVE OneInv' OBVIOUS
<1>0. Grows /\ NodeInv /\ NodeInv' BY Growth, NodeStep DEF IInv
<1>1. ASSUME NEW t \in Threads, Serve(t) PROVE OneInv' BY <1>1, OneServes
<1>2. ASSUME NEW t \in Threads, Queue(t) PROVE OneInv' BY <1>2, OneQueues
<1>3. CASE Sync
  <2>1. UNCHANGED <<thread, pacing, rendered>>
    BY <1>3 DEF Sync, Wake, FetchBundle, FetchBundleFails, StoreBundle, ClearSlices,
                FetchAllocation, FetchAllocationFails, node
  <2>2. bundle' \in {bundle, fetched}
    BY <1>3 DEF Sync, Wake, FetchBundle, FetchBundleFails, StoreBundle, ClearSlices,
                FetchAllocation, FetchAllocationFails, node
  <2>3. fetched' \in {fetched, None} \/ fetched' \notin DOMAIN issued
    <3>1. CASE FetchBundle
      <4>1. fetched' \in {None, Len(issued) + 1} BY <3>1 DEF FetchBundle, Synced
      <4>2. Len(issued) + 1 \notin DOMAIN issued BY <1>0 DEF NodeInv
      <4> QED BY <4>1, <4>2
    <3> QED BY <1>3, <3>1 DEF Sync, Wake, FetchBundleFails, StoreBundle, ClearSlices,
                              FetchAllocation, FetchAllocationFails, Synced, node
  <2> QED BY <1>0, <2>1, <2>2, <2>3, OneUnmoved
<1>4. CASE Upload \/ Expire \/ UNCHANGED vars
  <2>1. UNCHANGED <<thread, pacing, rendered, bundle, fetched>>
    BY <1>4 DEF Upload, TakeBatch, Answered, Unanswered, ReadDelayed, Expire, vars, node
  <2> QED BY <1>0, <2>1, OneUnmoved
<1>5. CASE Crash
  <2>1. /\ bundle' = None /\ fetched' = None /\ thread' = [t \in Threads |-> Idle]
        /\ UNCHANGED <<rendered, issued, allocated>>
    BY <1>5 DEF Crash, exchange
  <2>2. \A t \in Threads : thread'[t].pc = "idle" BY <2>1 DEF Idle
  <2>3. \A i \in Shown : rendered[i].bundle # None
    BY SupplyAssumption DEF IInv, RenderedInv, NodeInv
  <2>4. Numbered' BY <2>1, <2>2, <2>3 DEF Numbered, Claimed, Shown
  <2>5. ClaimsFresh' /\ TurnsInside' BY <2>2 DEF ClaimsFresh, TurnsInside, Claimed
  <2>6. EachImpressionOwnNonce' BY <2>1 DEF OneInv, EachImpressionOwnNonce, Nonce
  <2>7. ShownInside' BY <2>1 DEF OneInv, ShownInside, Shown, Within
  <2> QED BY <2>4, <2>5, <2>6, <2>7 DEF OneInv
<1> QED BY <1>1, <1>2, <1>3, <1>4, <1>5, NextCases

LEMMA OneInvariant == ASSUME OneHandler PROVE Spec => [](IInv /\ OneInv)
<1>1. Init => IInv /\ OneInv BY InvInit, OneInit
<1>2. IInv /\ OneInv /\ [Next]_vars => (IInv /\ OneInv)' BY InvStep, OneStep
<1> QED BY <1>1, <1>2, PTL DEF Spec

\* A node that handles one turn at a time never signs two impressions with the same
\* nonce, whatever bundles it loads and however often it dies in between.
THEOREM NoncesDistinct == OneHandler => (Spec => []EachImpressionOwnNonce)
<1> SUFFICES ASSUME OneHandler PROVE Spec => []EachImpressionOwnNonce OBVIOUS
<1>1. OneInv => EachImpressionOwnNonce BY DEF OneInv
<1> QED BY <1>1, OneInvariant, PTL

LEMMA InsidePaid == IInv /\ OneInv => InsideSliceIsPaid
<1> SUFFICES ASSUME IInv, OneInv, NEW i \in rejected \ Paid,
                    ~rendered[i].late, rendered[i].decided = rendered[i].bundle
             PROVE  rendered[i].lid \in Capped /\ ~rendered[i].sliced
  BY DEF InsideSliceIsPaid
<1>0. JudgedInv /\ RenderedInv /\ SliceInv BY DEF IInv
<1>1. i \in Shown /\ ~Payable(i, billed) BY <1>0 DEF JudgedInv
<1>2. Nonce(i) \notin Spent(billed)
  <2> SUFFICES ASSUME NEW j \in DOMAIN billed, Nonce(billed[j]) = Nonce(i) PROVE FALSE
    BY Zenon DEF Spent
  <2>1. billed[j] \in Shown /\ billed[j] \in Paid
    BY <1>0 DEF JudgedInv, Paid, Range, Shown
  <2> HIDE DEF Nonce
  <2>2. billed[j] = i BY <1>1, <2>1 DEF OneInv, EachImpressionOwnNonce, Shown
  <2> QED BY <2>1, <2>2
<1>3. rendered[i].lid \in issued[rendered[i].bundle] BY <1>0, <1>1 DEF RenderedInv
<1> DEFINE k == <<rendered[i].bundle, rendered[i].lid>>
<1>4. k \in DOMAIN allocated /\ ~(rendered[i].index < allocated[k])
  BY <1>1, <1>2, <1>3 DEF Payable
<1>5. k[2] = rendered[i].lid /\ k[2] \in Capped BY <1>0, <1>4 DEF SliceInv
<1>6. ~rendered[i].sliced BY <1>1, <1>4 DEF OneInv, ShownInside, Within
<1> QED BY <1>5, <1>6

\* Such a node is never refused an impression it decided inside a slice of the
\* bundle it claimed under and rendered before that bundle expired, even if the
\* upload is lost, repeated or late.
THEOREM SliceIsHonoured == OneHandler => (Spec => []InsideSliceIsPaid)
<1> SUFFICES ASSUME OneHandler PROVE Spec => []InsideSliceIsPaid OBVIOUS
<1> QED BY InsidePaid, OneInvariant, PTL
=============================================================================
