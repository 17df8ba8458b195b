--------------------------- MODULE ExchangeServer ---------------------------
(***************************************************************************)
(* The exchange behind server.py: ThreadingHTTPServer runs every request   *)
(* in a thread of its own and nothing locks the Exchange object.  A call   *)
(* of verify_receipt is split where another thread can be seen to run: at  *)
(* the replay test, at the checks, where the nonce is marked, and at the   *)
(* read and at the write of each `d[k] = d.get(k, 0) + n`.  The other      *)
(* calls stay atomic.                                                      *)
(***************************************************************************)
EXTENDS Exchange

CONSTANT Threads   \* handler threads that may be inside verify_receipt at once

VARIABLE thread    \* [Threads -> what the thread is doing]

NoBacking == [answer |-> None, lid |-> None, price |-> 0, entity |-> None]
Idle == [pc |-> "idle", receipt |-> None, backing |-> NoBacking, read |-> 0]

allVars == <<vars, thread>>

ServerInit == Init /\ thread = [t \in Threads |-> Idle]

At(t, pc) == thread[t].pc = pc
Goto(t, pc) == thread' = [thread EXCEPT ![t].pc = pc]
Busy == {t \in Threads : ~At(t, "idle")}

RejectWith(t, r, why) ==
  /\ rejections' = IF why = "raises" THEN rejections
                   ELSE Append(rejections, [why |-> why, receipt |-> r])
  /\ thread' = [thread EXCEPT ![t] = Idle]

-----------------------------------------------------------------------------
\* Mutant of ReplayTest: the spent set is not consulted.
ReplayTestSkipped(r) == IF r.key \notin keys THEN "signature" ELSE "ok"

ReplayTest(r) ==
  IF r.key \notin keys THEN "signature"
  ELSE IF r.nonce \in spentNonces THEN "UAP_NONCE_SPENT: replay" ELSE "ok"

\* The call starts: the signature, then the replay test.
Receive(t, r) ==
  /\ At(t, "idle")
  /\ Len(log) + Len(rejections) + Cardinality(Busy) < MaxReceipts
  /\ IF ReplayTest(r) # "ok" THEN RejectWith(t, r, ReplayTest(r))
     ELSE /\ thread' = [thread EXCEPT ![t] = [Idle EXCEPT !.pc = "check", !.receipt = r]]
          /\ UNCHANGED rejections
  /\ UNCHANGED <<registry, bundles, allocations, granted, decisions, openNonces, books, holdout>>

\* The checks that follow it.
Check(t) ==
  LET r == thread[t].receipt
      fault == IF ResolveFault(r) # "ok" THEN ResolveFault(r) ELSE ContentFault(r, Backing(r))
  IN  /\ At(t, "check")
      /\ IF fault # "ok" THEN RejectWith(t, r, fault)
         ELSE /\ thread' = [thread EXCEPT ![t].pc = "mark", ![t].backing = Backing(r)]
              /\ UNCHANGED rejections
      /\ UNCHANGED <<registry, bundles, allocations, granted, decisions, openNonces, books, holdout>>

quiet == <<registry, bundles, allocations, granted, decisions, rejections, holdout>>

\* _spent_nonces.add, _open_nonces.pop, _receipt_log.append
Mark(t) ==
  LET r == thread[t].receipt
      gross == Gross(thread[t].backing)
  IN  /\ At(t, "mark") /\ Goto(t, "read delivered")
      /\ spentNonces' = spentNonces \cup {r.nonce}
      /\ openNonces' = openNonces \ {r.nonce}
      /\ log' = Append(log, [receipt |-> r, lid |-> thread[t].backing.lid,
                             entity |-> thread[t].backing.entity,
                             gross |-> gross, splits |-> Settle(gross)])
      /\ UNCHANGED <<quiet, delivered, spent, deliveredBy, verifiedCount, periodSplits>>

\* One counter: the thread reads it, then writes what it read plus its own.
ReadCounter(t, pc, value, next) ==
  /\ At(t, pc)
  /\ thread' = [thread EXCEPT ![t].pc = next, ![t].read = value]
  /\ UNCHANGED <<quiet, openNonces, books>>

ReadDelivered(t) == ReadCounter(t, "read delivered", delivered[thread[t].backing.lid], "write delivered")
WriteDelivered(t) ==
  /\ At(t, "write delivered") /\ Goto(t, "read spent")
  /\ delivered' = [delivered EXCEPT ![thread[t].backing.lid] = thread[t].read + 1]
  /\ UNCHANGED <<quiet, openNonces, spentNonces, log, spent, deliveredBy, verifiedCount, periodSplits>>

ReadSpent(t) == ReadCounter(t, "read spent", spent[thread[t].backing.lid], "write spent")
WriteSpent(t) ==
  /\ At(t, "write spent") /\ Goto(t, "read by")
  /\ spent' = [spent EXCEPT ![thread[t].backing.lid] = thread[t].read + Gross(thread[t].backing)]
  /\ UNCHANGED <<quiet, openNonces, spentNonces, log, delivered, deliveredBy, verifiedCount, periodSplits>>

ReadBy(t) == ReadCounter(t, "read by", deliveredBy[thread[t].backing.entity], "write by")
WriteBy(t) ==
  /\ At(t, "write by") /\ Goto(t, "read count")
  /\ deliveredBy' = [deliveredBy EXCEPT ![thread[t].backing.entity] = thread[t].read + 1]
  /\ UNCHANGED <<quiet, openNonces, spentNonces, log, delivered, spent, verifiedCount, periodSplits>>

ReadCount(t) == ReadCounter(t, "read count", verifiedCount, "write count")

\* The last write, of _period_splits, and the answer.
WriteCount(t) ==
  /\ At(t, "write count")
  /\ verifiedCount' = thread[t].read + 1
  /\ periodSplits' = Settle(Gross(thread[t].backing))
  /\ thread' = [thread EXCEPT ![t] = Idle]
  /\ UNCHANGED <<quiet, openNonces, spentNonces, log, delivered, spent, deliveredBy>>

\* Any other call, in a thread that is free.
OtherCall == Busy # Threads /\ Calls /\ UNCHANGED thread

ServerNext ==
  \/ OtherCall
  \/ \E t \in Threads :
       \/ \E r \in Receipts : Receive(t, r)
       \/ Check(t) \/ Mark(t)
       \/ ReadDelivered(t) \/ WriteDelivered(t) \/ ReadSpent(t) \/ WriteSpent(t)
       \/ ReadBy(t) \/ WriteBy(t) \/ ReadCount(t) \/ WriteCount(t)

ServerSpec == ServerInit /\ [][ServerNext]_allVars

-----------------------------------------------------------------------------
(* One thread: the calls are atomic.  The call takes effect when it marks   *)
(* the nonce; a counter it has yet to write is mapped to what it will be.   *)

Writing(pcs) == {t \in Threads : thread[t].pc \in pcs}
ToDelivered == Writing({"read delivered", "write delivered"})
ToSpend == ToDelivered \cup Writing({"read spent", "write spent"})
ToBy == ToSpend \cup Writing({"read by", "write by"})
ToCount == ToBy \cup Writing({"read count", "write count"})

DeliveredDone ==
  [l \in LineItems |-> delivered[l] + Cardinality({t \in ToDelivered : thread[t].backing.lid = l})]
SpentDone ==
  [l \in LineItems |->
     spent[l] + SumFunctionOnSet([t \in Threads |-> Gross(thread[t].backing)],
                                 {t \in ToSpend : thread[t].backing.lid = l})]
ByDone ==
  [e \in Entities \cup {None} |->
     deliveredBy[e] + Cardinality({t \in ToBy : thread[t].backing.entity = e})]
SplitsDone ==
  IF ToCount = {} THEN periodSplits
  ELSE Settle(Gross(thread[CHOOSE t \in ToCount : TRUE].backing))

Atomic == INSTANCE Exchange WITH
  delivered <- DeliveredDone, spent <- SpentDone, deliveredBy <- ByDone,
  verifiedCount <- verifiedCount + Cardinality(ToCount), periodSplits <- SplitsDone

\* With one handler thread, as the module's header says ("Single-threaded and
\* in-memory"), the server implements the atomic exchange: every behaviour of the
\* split call is one of module Exchange, so all its properties hold of it.
ImplementsExchange == Atomic!Spec

\* nonce.py: "the spent set: a derived nonce is single use, like an issued one":
\* with two handler threads in verify_receipt, still no nonce is billed twice.
BilledOnceAcrossThreads ==
  \A i, j \in DOMAIN log : log[i].receipt.nonce = log[j].receipt.nonce => i = j

\* settlement_record reports "verified and rejected counts" and the allocator
\* reads _spent: between requests they count every receipt that was paid.
CountersComplete ==
  Busy = {} => /\ verifiedCount = Len(log)
               /\ \A l \in LineItems : spent[l] = GrossOf(l)
=============================================================================
