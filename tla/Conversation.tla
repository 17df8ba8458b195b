---------------------------- MODULE Conversation ----------------------------
(***************************************************************************)
(* The proxy in front of a model (proxy.py do_POST) with the middleware it *)
(* calls (middleware.py complete, _monetise), seen from the conversations: *)
(* each user's client sends its whole history with every turn, a handler   *)
(* thread per request asks the upstream model and may add a sponsored      *)
(* block to the answer.  The counters are shared and unlocked.             *)
(*                                                                         *)
(* Of a text only what the code looks for is kept: `says`, one of "intent" *)
(* (a commercial intent), "sensitive", "plain", "blank", "noncanonical",   *)
(* "parts" (no string: the classifier raises), and, of what an upstream    *)
(* returns, "list" (JSON that is not an object); `ad`, the line item of    *)
(* the block under it.  Bundles, slices, impression indexes and uploads    *)
(* are module Supply's.                                                    *)
(***************************************************************************)
EXTENDS Naturals, Sequences
LOCAL INSTANCE SequencesExt

CONSTANTS
  Users,           \* each with one conversation and one request at a time
  Strippers,       \* those whose client strips an answer before it feeds it back
  Topics,          \* what a user may say
  Replies,         \* what an upstream may answer
  LineItems, Limit,\* line items, and the frequency cap of each
  AdSays,          \* what the classifier reads in the block of each
  AdEvery,         \* one ad every N turns
  None, MaxTurns   \* how often each user asks

ASSUME ConversationAssumption ==
  /\ Strippers \subseteq Users /\ AdEvery \in Nat \ {0}
  /\ MaxTurns \in [Users -> Nat]
  /\ Limit \in [LineItems -> Nat] /\ DOMAIN AdSays = LineItems /\ None \notin LineItems

VARIABLES
  history,     \* the messages each client holds
  handler,     \* the handler thread of each user's request, and its locals
  outcome,     \* how the last request of each user ended
  turns,       \* state["turns"]
  filled,      \* state["filled"]
  frequency,   \* node._frequency
  pending,     \* middleware._pending
  \* what happened
  asked,       \* requests made by each user
  context,     \* the messages the upstream was given last in each conversation
  sold         \* the sponsored answers, each with its conversation

vars == <<history, handler, outcome, turns, filled, frequency, pending, asked, context, sold>>

Idle == [pc |-> "idle", read |-> 0, answer |-> None, item |-> None]

Init ==
  /\ history = [u \in Users |-> <<>>] /\ handler = [u \in Users |-> Idle]
  /\ outcome = [u \in Users |-> "none"]
  /\ turns = 0 /\ filled = 0 /\ frequency = [l \in LineItems |-> 0] /\ pending = <<>>
  /\ asked = [u \in Users |-> 0] /\ context = [u \in Users |-> <<>>] /\ sold = <<>>

At(u, pc) == handler[u].pc = pc

Goto(u, pc) == handler' = [handler EXCEPT ![u].pc = pc]

-----------------------------------------------------------------------------
(* The client.                                                              *)

Message(says, ad) == [says |-> says, ad |-> ad]

Ask(u) ==
  /\ At(u, "idle") /\ asked[u] < MaxTurns[u]
  /\ \E says \in Topics, stream \in BOOLEAN :
       /\ history' = [history EXCEPT ![u] = Append(@, Message(says, None))]
       /\ Goto(u, IF stream THEN "stream" ELSE "received")
  /\ asked' = [asked EXCEPT ![u] = @ + 1]
  /\ UNCHANGED <<outcome, turns, filled, frequency, pending, context, sold>>

\* Mutant of Strip: what was shown is fed back as it is.
StripNothing(message) == message

\* UAPMiddleware.strip, which a client calls before it feeds an answer back.
Strip(message) == [message EXCEPT !.ad = None]

Fed(u, message) == IF u \in Strippers THEN Strip(message) ELSE message

\* The response is sent, and the client takes it into its history.
Send(u, how, message) ==
  /\ handler' = [handler EXCEPT ![u] = Idle]
  /\ outcome' = [outcome EXCEPT ![u] = how]
  /\ history' = [history EXCEPT ![u] = Append(@, Fed(u, message))]

\* A 502, or a connection closed by an exception nobody catches.
End(u, how) ==
  /\ handler' = [handler EXCEPT ![u] = Idle]
  /\ outcome' = [outcome EXCEPT ![u] = how]
  /\ UNCHANGED history

SendAnswer(u) == Send(u, "answered", Message(handler[u].answer, None))

-----------------------------------------------------------------------------
(* do_POST.                                                                 *)

\* A stream is passed through; _forward raises when there is no HTTP answer.
Stream(u) ==
  /\ At(u, "stream")
  /\ context' = [context EXCEPT ![u] = history[u]]
  /\ \/ \E a \in Replies : Send(u, "answered", Message(a, None))
     \/ End(u, "dropped")
  /\ UNCHANGED <<turns, filled, frequency, pending, asked, sold>>

\* state["turns"] += 1, a read and a write.
CountRead(u) ==
  /\ At(u, "received")
  /\ handler' = [handler EXCEPT ![u].pc = "counting", ![u].read = turns]
  /\ UNCHANGED <<history, outcome, turns, filled, frequency, pending, asked, context, sold>>

CountWrite(u) ==
  /\ At(u, "counting")
  /\ turns' = handler[u].read + 1 /\ Goto(u, "counted")
  /\ UNCHANGED <<history, outcome, filled, frequency, pending, asked, context, sold>>

Upstream(u) ==
  /\ At(u, "counted")
  /\ context' = [context EXCEPT ![u] = history[u]]
  /\ \/ \E a \in Replies :
          /\ handler' = [handler EXCEPT ![u].pc = "answered", ![u].answer = a]
          /\ UNCHANGED <<history, outcome>>
     \/ End(u, "bad gateway")
  /\ UNCHANGED <<turns, filled, frequency, pending, asked, sold>>

\* The counter is read again, whoever has moved it since.
Due(u) ==
  /\ At(u, "answered")
  /\ IF turns % AdEvery = 0 THEN Goto(u, "due") /\ UNCHANGED <<history, outcome>>
                            ELSE SendAnswer(u)
  /\ UNCHANGED <<turns, filled, frequency, pending, asked, context, sold>>

-----------------------------------------------------------------------------
(* complete, _monetise.                                                     *)

Heard(messages) ==
  {messages[i].says : i \in DOMAIN messages}
    \cup {AdSays[messages[i].ad] : i \in {j \in DOMAIN messages : messages[j].ad # None}}

\* Mutant of MayMonetise: the classifier sees the last message only.
MayMonetiseTurn(messages) ==
  LET heard == Heard(<<messages[Len(messages)]>>) IN "intent" \in heard

\* The keyword classifier and may_monetise: no sensitive word and some intent.
\* (The operator accepts the unverified classifier.)
MayMonetise(messages) ==
  LET heard == Heard(messages) IN "sensitive" \notin heard /\ "intent" \in heard

Open == {l \in LineItems : frequency[l] < Limit[l]}

\* No string answer, no permission, nothing eligible.
NotSold(u) ==
  \/ handler[u].answer = "blank"
  \/ ~MayMonetise(history[u])
  \/ Open = {}

\* derive() on a message without text, compose() on a non-canonical answer.
AdPathRaises(u) ==
  \/ handler[u].answer = "noncanonical"
  \/ \E i \in DOMAIN history[u] : history[u][i].says = "parts"

\* Mutant of NoAd: what the ad path raises ends the handler thread.
NoAdUncaught(u) ==
  /\ At(u, "due") /\ handler[u].answer # "list" /\ (NotSold(u) \/ AdPathRaises(u))
  /\ IF AdPathRaises(u) THEN End(u, "dropped") ELSE SendAnswer(u)
  /\ UNCHANGED <<turns, filled, frequency, pending, asked, context, sold>>

\* "never cost the operator an answer": complete returns the response as it is.
NoAd(u) ==
  /\ At(u, "due") /\ handler[u].answer # "list" /\ (NotSold(u) \/ AdPathRaises(u))
  /\ SendAnswer(u)
  /\ UNCHANGED <<turns, filled, frequency, pending, asked, context, sold>>

\* complete returns the list as it is, and do_POST asks it for `.get("uap")`.
NotAnObject(u) ==
  /\ At(u, "due") /\ handler[u].answer = "list"
  /\ End(u, "no object")
  /\ UNCHANGED <<turns, filled, frequency, pending, asked, context, sold>>

\* decide_local and compose.
Decide(u) ==
  /\ At(u, "due") /\ handler[u].answer # "list" /\ ~NotSold(u) /\ ~AdPathRaises(u)
  /\ \E l \in Open : handler' = [handler EXCEPT ![u].pc = "decided", ![u].item = l]
  /\ UNCHANGED <<history, outcome, turns, filled, frequency, pending, asked, context, sold>>

\* record_delivery: `_frequency[lid] = _frequency.get(lid, 0) + 1`.
RecordRead(u) ==
  /\ At(u, "decided")
  /\ handler' = [handler EXCEPT ![u].pc = "recording", ![u].read = frequency[handler[u].item]]
  /\ UNCHANGED <<history, outcome, turns, filled, frequency, pending, asked, context, sold>>

RecordWrite(u) ==
  /\ At(u, "recording")
  /\ frequency' = [frequency EXCEPT ![handler[u].item] = handler[u].read + 1]
  /\ Goto(u, "recorded")
  /\ UNCHANGED <<history, outcome, turns, filled, pending, asked, context, sold>>

\* _queue_receipt, under the lock; the response is the answer with its block.
Queue(u) ==
  /\ At(u, "recorded")
  /\ pending' = Append(pending, [answer |-> handler[u].answer, item |-> handler[u].item])
  /\ Goto(u, "queued")
  /\ UNCHANGED <<history, outcome, turns, filled, frequency, asked, context, sold>>

\* state["filled"] += 1
FilledRead(u) ==
  /\ At(u, "queued")
  /\ handler' = [handler EXCEPT ![u].pc = "filling", ![u].read = filled]
  /\ UNCHANGED <<history, outcome, turns, filled, frequency, pending, asked, context, sold>>

SendSponsored(u) ==
  /\ At(u, "filling")
  /\ filled' = handler[u].read + 1
  /\ Send(u, "sponsored", Message(handler[u].answer, handler[u].item))
  /\ sold' = Append(sold, [to |-> u, item |-> handler[u].item, in |-> history[u]])
  /\ UNCHANGED <<turns, frequency, pending, asked, context>>

Handle(u) ==
  \/ Stream(u) \/ CountRead(u) \/ CountWrite(u) \/ Upstream(u) \/ Due(u)
  \/ NoAd(u) \/ NotAnObject(u) \/ Decide(u) \/ RecordRead(u) \/ RecordWrite(u) \/ Queue(u)
  \/ FilledRead(u) \/ SendSponsored(u)

Next == \E u \in Users : Ask(u) \/ Handle(u)

Spec == Init /\ [][Next]_vars

\* Handler threads are scheduled, and the upstream call times out (proxy.py:36);
\* users need not ask.
FairSpec == Spec /\ \A u \in Users : WF_vars(Handle(u))

-----------------------------------------------------------------------------
Organic(messages) == {messages[i].says : i \in DOMAIN messages}

\* may_monetise fails closed over the whole conversation: after a sensitive turn
\* no later turn of that conversation carries an ad, whatever is said next and
\* whatever other conversations are served meanwhile.
SensitiveStaysSilent ==
  \A i \in DOMAIN sold : "sensitive" \notin Organic(sold[i].in)

\* What makes the receipt's ad_excluded_from_context true: for a client that
\* strips, the upstream reads the whole conversation and no creative, and whether
\* a turn may carry an ad depends on what the user and the model said alone.
StrippedContextIsOrganic ==
  \A u \in Strippers :
    /\ \A i \in DOMAIN context[u] : context[u][i].ad = None
    /\ Heard(history[u]) = Organic(history[u])

\* "Nothing in the ad path can reach it [the upstream], which is what makes the
\* integrity assertion in the receipt true rather than aspirational": for every
\* client, since every receipt asserts it.
NothingReachesUpstream ==
  \A u \in Users : \A i \in DOMAIN context[u] : context[u][i].ad = None

\* "Fails open toward the user": a request the proxy does not stream gets the
\* model's answer, with or without a block, or the upstream's failure; nothing is
\* left without a response but JSON that is not an object.
EveryRequestAnswered ==
  \A u \in Users :
    At(u, "received") ~>
      At(u, "idle") /\ outcome[u] \in {"answered", "sponsored", "bad gateway", "no object"}

\* A per_conversation cap closes a line item to a conversation that has seen it
\* that often: the count is the node's, over all its conversations.
CapIsPerConversation ==
  \A u \in Users, l \in LineItems :
    At(u, "due") /\ l \notin Open
      => Len(SelectSeq(sold, LAMBDA s : s.to = u /\ s.item = l)) >= Limit[l]

\* The counts behind the cap are those of what was shown.
CountedAsShown ==
  (\A u \in Users : At(u, "idle")) =>
    \A l \in LineItems : frequency[l] = Len(SelectSeq(sold, LAMBDA s : s.item = l))

\* "one ad every N turns"
CadenceKept ==
  (\A u \in Users : At(u, "idle")) => Len(sold) * AdEvery <= turns

=============================================================================
