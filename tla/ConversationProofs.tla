------------------------ MODULE ConversationProofs ------------------------
(***************************************************************************)
(* The safety of the conversations, for every set of users, any number of  *)
(* turns and handler threads interleaved in every way.                     *)
(***************************************************************************)
EXTENDS Conversation, SequenceTheorems, TLAPS

Said == Topics \cup Replies \cup {None}
Messages == [says : Said, ad : LineItems \cup {None}]
Sales == [to : Users, item : LineItems, in : Seq(Messages)]

\* From the decision to the sending, the request carries a line item.
Selling == {"decided", "recording", "recorded", "queued", "filling"}
Pcs == {"idle", "stream", "received", "counting", "counted", "answered", "due"} \cup Selling
Handlers ==
  [pc : Pcs, read : Nat, answer : Said, item : LineItems \cup {None}]

Typed ==
  /\ history \in [Users -> Seq(Messages)] /\ context \in [Users -> Seq(Messages)]
  /\ handler \in [Users -> Handlers]
  /\ turns \in Nat /\ filled \in Nat /\ frequency \in [LineItems -> Nat]
  /\ sold \in Seq(Sales)

\* Whoever carries one was given leave by the classifier, over the conversation
\* as it still is: nothing is said while the request is handled.
Cleared ==
  \A u \in Users :
    handler[u].pc \in Selling => handler[u].item \in LineItems /\ MayMonetise(history[u])

NoAds(messages) == \A i \in DOMAIN messages : messages[i].ad = None

\* A client that strips holds no block, and the upstream was shown none.
Clean == \A u \in Strippers : NoAds(history[u]) /\ NoAds(context[u])

IInv == Typed /\ Cleared /\ Clean /\ SensitiveStaysSilent

\* What a client makes of an answer is a message, without its block if it strips.
LEMMA FedMessage ==
  ASSUME NEW u \in Users, NEW m \in Messages
  PROVE  Fed(u, m) \in Messages /\ (u \in Strippers => Fed(u, m).ad = None)
BY DEF Fed, Strip, Messages

\* A message at the end of a conversation without blocks leaves it without any,
\* if it has none.
LEMMA AppendNoAds ==
  ASSUME NEW c \in Seq(Messages), NEW m \in Messages, NoAds(c), m.ad = None
  PROVE  NoAds(Append(c, m))
BY DEF NoAds

\* A conversation the classifier gives leave to holds no sensitive word.
LEMMA LeaveIsSilent ==
  ASSUME NEW c, MayMonetise(c)
  PROVE  "sensitive" \notin Organic(c)
BY DEF MayMonetise, Heard, Organic

\* Without blocks the classifier reads what was said.
LEMMA HeardIsOrganic ==
  ASSUME NEW c, NoAds(c)
  PROVE  Heard(c) = Organic(c)
BY DEF NoAds, Heard, Organic

\* A handler that moves on, with a local or without, is a handler.
LEMMA MovesOn ==
  ASSUME NEW h \in [Users -> Handlers], NEW u \in Users, NEW pc \in Pcs
  PROVE  /\ [h EXCEPT ![u].pc = pc] \in [Users -> Handlers]
         /\ [h EXCEPT ![u].pc = pc][u].pc = pc
         /\ [h EXCEPT ![u].pc = pc][u].item = h[u].item
         /\ \A w \in Users \ {u} : [h EXCEPT ![u].pc = pc][w] = h[w]
<1> DEFINE r == [h[u] EXCEPT !.pc = pc]
<1>1. r \in Handlers /\ r.pc = pc /\ r.item = h[u].item BY DEF Handlers
<1>2. [h EXCEPT ![u].pc = pc] = [h EXCEPT ![u] = r] OBVIOUS
<1> HIDE DEF r
<1> QED BY <1>1, <1>2

-----------------------------------------------------------------------------
LEMMA TypedInit == Init => IInv
<1> SUFFICES ASSUME Init PROVE IInv OBVIOUS
<1>1. Typed BY DEF Init, Typed, Idle, Said, Handlers, Pcs
<1>2. Cleared BY DEF Init, Cleared, Idle, Selling
<1>3. Clean BY ConversationAssumption DEF Init, Clean, NoAds
<1>4. SensitiveStaysSilent BY DEF Init, SensitiveStaysSilent
<1> QED BY <1>1, <1>2, <1>3, <1>4 DEF IInv

\* The state stays well typed.
LEMMA TypedStep == IInv /\ [Next]_vars => Typed'
<1> SUFFICES ASSUME IInv, [Next]_vars PROVE Typed' OBVIOUS
<1> USE DEF Typed, At, Goto
<1>0. Typed /\ Cleared BY DEF IInv
<1>1. ASSUME NEW u \in Users, Ask(u) PROVE Typed'
  <2>1. PICK says \in Topics, pc \in {"stream", "received"} :
          /\ history' = [history EXCEPT ![u] = Append(history[u], Message(says, None))]
          /\ handler' = [handler EXCEPT ![u].pc = pc]
    <3>1. PICK says \in Topics, stream \in BOOLEAN :
            /\ history' = [history EXCEPT ![u] = Append(history[u], Message(says, None))]
            /\ Goto(u, IF stream THEN "stream" ELSE "received")
      BY <1>0, <1>1, Zenon DEF Ask
    <3>2. CASE stream BY <3>1, <3>2
    <3>3. CASE ~stream BY <3>1, <3>3
    <3> QED BY <3>2, <3>3
  <2>2. Message(says, None) \in Messages BY DEF Message, Messages, Said
  <2>3. history' \in [Users -> Seq(Messages)] BY <1>0, <2>1, <2>2
  <2>4. handler' \in [Users -> Handlers] BY <1>0, <2>1, MovesOn DEF Pcs
  <2> QED BY <1>0, <1>1, <2>3, <2>4 DEF Ask
<1>2. ASSUME NEW u \in Users, NEW how, NEW m \in Messages, Send(u, how, m)
      PROVE  /\ history' \in [Users -> Seq(Messages)]
             /\ handler' \in [Users -> Handlers]
  BY <1>0, <1>2, FedMessage DEF Send, Idle, Said, Handlers, Pcs
<1>3. ASSUME NEW u \in Users, NEW how, End(u, how)
      PROVE  /\ history' \in [Users -> Seq(Messages)]
             /\ handler' \in [Users -> Handlers]
  BY <1>0, <1>3 DEF End, Idle, Said, Handlers, Pcs
<1>4. ASSUME NEW u \in Users
      PROVE  Message(handler[u].answer, None) \in Messages
  BY <1>0 DEF Message, Messages, Handlers
<1>5. ASSUME NEW u \in Users, Handle(u) PROVE Typed'
  <2>1. CASE Stream(u)
    <3>1. \A a \in Replies : Message(a, None) \in Messages BY DEF Message, Messages, Said
    <3> QED BY <1>0, <1>2, <1>3, <2>1, <3>1 DEF Stream
  <2>2. CASE CountRead(u) BY <1>0, <2>2 DEF CountRead, Handlers, Pcs
  <2>3. CASE CountWrite(u)
    <3>1. handler' \in [Users -> Handlers] BY <1>0, <2>3, MovesOn DEF CountWrite, Pcs
    <3>2. turns' \in Nat BY <1>0, <2>3 DEF CountWrite, Handlers
    <3> QED BY <1>0, <2>3, <3>1, <3>2 DEF CountWrite
  <2>4. CASE Upstream(u)
    <3>1. context' \in [Users -> Seq(Messages)] BY <1>0, <2>4 DEF Upstream
    <3>2. CASE End(u, "bad gateway") BY <1>0, <1>3, <2>4, <3>1, <3>2 DEF Upstream
    <3>3. ASSUME NEW a \in Replies,
                 handler' = [handler EXCEPT ![u].pc = "answered", ![u].answer = a],
                 UNCHANGED <<history, outcome>>
          PROVE  Typed'
      <4>1. handler' \in [Users -> Handlers] BY <1>0, <3>3 DEF Said, Handlers, Pcs
      <4> QED BY <1>0, <2>4, <3>1, <3>3, <4>1 DEF Upstream
    <3> QED BY <2>4, <3>2, <3>3 DEF Upstream
  <2>5. CASE Due(u)
    <3>1. CASE Goto(u, "due") /\ UNCHANGED <<history, outcome>>
      <4>1. handler' \in [Users -> Handlers] BY <1>0, <3>1, MovesOn DEF Pcs
      <4> QED BY <1>0, <2>5, <3>1, <4>1 DEF Due
    <3>2. CASE SendAnswer(u) BY <1>0, <1>2, <1>4, <2>5, <3>2 DEF Due, SendAnswer
    <3> QED BY <2>5, <3>1, <3>2 DEF Due
  <2>6. CASE NoAd(u) BY <1>0, <1>2, <1>4, <2>6 DEF NoAd, SendAnswer
  <2>7. CASE NotAnObject(u) BY <1>0, <1>3, <2>7 DEF NotAnObject
  <2>8. CASE Decide(u)
    <3>1. PICK l \in LineItems : handler' = [handler EXCEPT ![u].pc = "decided", ![u].item = l]
      BY <2>8 DEF Decide, Open
    <3>2. handler' \in [Users -> Handlers] BY <1>0, <3>1 DEF Handlers, Pcs, Selling
    <3> QED BY <1>0, <2>8, <3>2 DEF Decide
  <2>9. CASE RecordRead(u) BY <1>0, <2>9 DEF RecordRead, Cleared, Handlers, Pcs, Selling
  <2>10. CASE RecordWrite(u)
    <3>1. handler' \in [Users -> Handlers] BY <1>0, <2>10, MovesOn DEF RecordWrite, Pcs, Selling
    <3>2. handler[u].read + 1 \in Nat BY <1>0 DEF Handlers
    <3>3. frequency' \in [LineItems -> Nat] BY <1>0, <2>10, <3>2 DEF RecordWrite
    <3> QED BY <1>0, <2>10, <3>1, <3>3 DEF RecordWrite
  <2>11. CASE Queue(u) BY <1>0, <2>11, MovesOn DEF Queue, Pcs, Selling
  <2>12. CASE FilledRead(u) BY <1>0, <2>12 DEF FilledRead, Handlers, Pcs, Selling
  <2>13. CASE SendSponsored(u)
    <3>1. handler[u].item \in LineItems BY <1>0, <2>13 DEF SendSponsored, Cleared, Selling
    <3>2. Message(handler[u].answer, handler[u].item) \in Messages
      BY <1>0, <3>1 DEF Message, Messages, Handlers
    <3>3. [to |-> u, item |-> handler[u].item, in |-> history[u]] \in Sales
      BY <1>0, <3>1 DEF Sales
    <3>4. sold' \in Seq(Sales) BY <1>0, <2>13, <3>3 DEF SendSponsored
    <3> QED BY <1>0, <1>2, <2>13, <3>2, <3>4 DEF SendSponsored, Handlers
  <2> QED BY <1>5, <2>1, <2>2, <2>3, <2>4, <2>5, <2>6, <2>7, <2>8, <2>9, <2>10, <2>11, <2>12,
             <2>13 DEF Handle
<1>6. CASE UNCHANGED vars BY <1>0, <1>6 DEF vars
<1> QED BY <1>1, <1>5, <1>6 DEF Next

\* What a line item is carried under stays as it was when the classifier was asked.
LEMMA ClearedStep == IInv /\ [Next]_vars => Cleared'
<1> SUFFICES ASSUME IInv, [Next]_vars PROVE Cleared' OBVIOUS
<1>0. Typed /\ Cleared BY DEF IInv
<1>1. ASSUME NEW u \in Users, history' = [history EXCEPT ![u] = history'[u]],
             handler' = [handler EXCEPT ![u] = handler'[u]],
             handler'[u].pc \in Selling => /\ handler'[u].item \in LineItems
                                          /\ MayMonetise(history'[u])
      PROVE  Cleared'
  <2> SUFFICES ASSUME NEW w \in Users, handler'[w].pc \in Selling
               PROVE  handler'[w].item \in LineItems /\ MayMonetise(history'[w])
    BY DEF Cleared
  <2>1. CASE w = u BY <1>1, <2>1
  <2>2. CASE w # u
    <3>1. handler'[w] = handler[w] /\ history'[w] = history[w] BY <1>0, <1>1, <2>2 DEF Typed
    <3> QED BY <1>0, <3>1 DEF Cleared
  <2> QED BY <2>1, <2>2
<1>2. ASSUME NEW u \in Users, NEW how, NEW m, Send(u, how, m) PROVE Cleared'
  <2>1. /\ history' = [history EXCEPT ![u] = history'[u]]
        /\ handler' = [handler EXCEPT ![u] = handler'[u]] /\ handler'[u].pc = "idle"
    BY <1>0, <1>2 DEF Send, Idle, Typed
  <2> QED BY <1>1, <2>1 DEF Selling
<1>3. ASSUME NEW u \in Users, NEW how, End(u, how) PROVE Cleared'
  <2>1. /\ history' = [history EXCEPT ![u] = history'[u]]
        /\ handler' = [handler EXCEPT ![u] = handler'[u]] /\ handler'[u].pc = "idle"
    BY <1>0, <1>3 DEF End, Idle, Typed
  <2> QED BY <1>1, <2>1 DEF Selling
<1>4. ASSUME NEW u \in Users, NEW pc, handler' = [handler EXCEPT ![u].pc = pc],
             history' = history, pc \in Pcs, pc \in Selling => handler[u].pc \in Selling
      PROVE  Cleared'
  <2>1. /\ handler' = [handler EXCEPT ![u] = handler'[u]] /\ handler'[u].pc = pc
        /\ handler'[u].item = handler[u].item
        /\ history' = [history EXCEPT ![u] = history'[u]]
    BY <1>0, <1>4, MovesOn DEF Typed
  <2> QED BY <1>0, <1>1, <1>4, <2>1 DEF Cleared
<1>5. ASSUME NEW u \in Users, Ask(u) PROVE Cleared'
  <2>1. PICK pc \in {"stream", "received"} : handler' = [handler EXCEPT ![u].pc = pc]
    <3>1. PICK stream \in BOOLEAN : Goto(u, IF stream THEN "stream" ELSE "received")
      BY <1>5, Zenon DEF Ask
    <3>2. CASE stream BY <3>1, <3>2 DEF Goto
    <3>3. CASE ~stream BY <3>1, <3>3 DEF Goto
    <3> QED BY <3>2, <3>3
  <2>2. /\ handler' = [handler EXCEPT ![u] = handler'[u]] /\ handler'[u].pc = pc
    BY <1>0, <2>1, MovesOn DEF Typed, Pcs
  <2>3. history' = [history EXCEPT ![u] = history'[u]] BY <1>0, <1>5 DEF Ask, Typed
  <2> QED BY <1>1, <2>2, <2>3 DEF Selling
<1>6. ASSUME NEW u \in Users, Handle(u) PROVE Cleared'
  <2> USE DEF At, Goto
  <2>1. CASE Stream(u) BY <1>2, <1>3, <2>1 DEF Stream
  <2>2. CASE CountRead(u)
    <3>1. /\ handler' = [handler EXCEPT ![u] = handler'[u]] /\ handler'[u].pc = "counting"
          /\ history' = [history EXCEPT ![u] = history'[u]]
      BY <1>0, <2>2 DEF CountRead, Typed, Handlers
    <3> QED BY <1>1, <3>1 DEF Selling
  <2>3. CASE CountWrite(u) BY <1>4, <2>3 DEF CountWrite, Pcs, Selling
  <2>4. CASE Upstream(u)
    <3>1. CASE End(u, "bad gateway") BY <1>3, <3>1
    <3>2. ASSUME NEW a \in Replies,
                 handler' = [handler EXCEPT ![u].pc = "answered", ![u].answer = a],
                 UNCHANGED <<history, outcome>>
          PROVE  Cleared'
      <4>1. /\ handler' = [handler EXCEPT ![u] = handler'[u]] /\ handler'[u].pc = "answered"
            /\ history' = [history EXCEPT ![u] = history'[u]]
        BY <1>0, <3>2 DEF Typed, Handlers
      <4> QED BY <1>1, <4>1 DEF Selling
    <3> QED BY <2>4, <3>1, <3>2 DEF Upstream
  <2>5. CASE Due(u)
    <3>1. CASE Goto(u, "due") /\ UNCHANGED <<history, outcome>>
      BY <1>4, <3>1 DEF Pcs, Selling
    <3>2. CASE SendAnswer(u) BY <1>2, <3>2 DEF SendAnswer
    <3> QED BY <2>5, <3>1, <3>2 DEF Due
  <2>6. CASE NoAd(u) BY <1>2, <2>6 DEF NoAd, SendAnswer
  <2>7. CASE NotAnObject(u) BY <1>3, <2>7 DEF NotAnObject
  <2>8. CASE Decide(u)
    <3>1. PICK l \in LineItems : handler' = [handler EXCEPT ![u].pc = "decided", ![u].item = l]
      BY <2>8 DEF Decide, Open
    <3>2. handler' = [handler EXCEPT ![u] = handler'[u]] /\ handler'[u].item = l
      BY <1>0, <3>1 DEF Typed, Handlers
    <3>3. history' = history /\ history' = [history EXCEPT ![u] = history'[u]]
      BY <1>0, <2>8 DEF Decide, Typed
    <3>4. MayMonetise(history'[u]) BY <2>8, <3>3 DEF Decide, NotSold
    <3> QED BY <1>1, <3>2, <3>3, <3>4
  <2>9. CASE RecordRead(u)
    <3>1. /\ handler' = [handler EXCEPT ![u] = handler'[u]] /\ handler'[u].item = handler[u].item
          /\ history' = history /\ history' = [history EXCEPT ![u] = history'[u]]
          /\ handler[u].pc \in Selling
      BY <1>0, <2>9 DEF RecordRead, Typed, Handlers, Selling
    <3> QED BY <1>0, <1>1, <3>1 DEF Cleared
  <2>10. CASE RecordWrite(u) BY <1>4, <2>10 DEF RecordWrite, Pcs, Selling
  <2>11. CASE Queue(u) BY <1>4, <2>11 DEF Queue, Pcs, Selling
  <2>12. CASE FilledRead(u)
    <3>1. /\ handler' = [handler EXCEPT ![u] = handler'[u]] /\ handler'[u].item = handler[u].item
          /\ history' = history /\ history' = [history EXCEPT ![u] = history'[u]]
          /\ handler[u].pc \in Selling
      BY <1>0, <2>12 DEF FilledRead, Typed, Handlers, Selling
    <3> QED BY <1>0, <1>1, <3>1 DEF Cleared
  <2>13. CASE SendSponsored(u) BY <1>2, <2>13 DEF SendSponsored
  <2> QED BY <1>6, <2>1, <2>2, <2>3, <2>4, <2>5, <2>6, <2>7, <2>8, <2>9, <2>10, <2>11, <2>12,
             <2>13 DEF Handle
<1>7. CASE UNCHANGED vars BY <1>0, <1>7 DEF vars, Cleared
<1> QED BY <1>5, <1>6, <1>7 DEF Next

\* A client that strips is never left with a block, nor shows one upstream.
LEMMA CleanStep == IInv /\ [Next]_vars => Clean'
<1> SUFFICES ASSUME IInv, [Next]_vars PROVE Clean' OBVIOUS
<1>0. Typed /\ Clean /\ Strippers \subseteq Users
  BY ConversationAssumption DEF IInv
<1>1. ASSUME NEW u \in Users, NEW m \in Messages, u \in Strippers => m.ad = None,
             history' = [history EXCEPT ![u] = Append(history[u], m)]
      PROVE  \A w \in Strippers : NoAds(history'[w])
  <2> TAKE w \in Strippers
  <2>1. NoAds(history[w]) /\ w \in Users BY <1>0 DEF Clean
  <2>2. CASE w = u
    <3>1. history[u] \in Seq(Messages) /\ history'[u] = Append(history[u], m)
      BY <1>0, <1>1 DEF Typed
    <3> QED BY <1>1, <2>1, <2>2, <3>1, AppendNoAds
  <2>3. CASE w # u BY <1>0, <1>1, <2>1, <2>3 DEF Typed
  <2> QED BY <2>2, <2>3
<1>2. ASSUME NEW u \in Users, NEW how, NEW m \in Messages, Send(u, how, m)
      PROVE  \A w \in Strippers : NoAds(history'[w])
  <2>1. history' = [history EXCEPT ![u] = Append(history[u], Fed(u, m))] BY <1>2 DEF Send
  <2> QED BY <1>1, <2>1, FedMessage
<1>3. ASSUME NEW u \in Users, NEW ad \in LineItems \cup {None}
      PROVE  Message(handler[u].answer, ad) \in Messages
  BY <1>0 DEF Message, Messages, Typed, Handlers
<1>4. ASSUME history' = history PROVE \A w \in Strippers : NoAds(history'[w])
  BY <1>0, <1>4 DEF Clean
<1>5. ASSUME NEW u \in Users, context' = [context EXCEPT ![u] = history[u]]
      PROVE  \A w \in Strippers : NoAds(context'[w])
  <2> TAKE w \in Strippers
  <2>1. CASE w = u BY <1>0, <1>5, <2>1 DEF Clean, Typed
  <2>2. CASE w # u BY <1>0, <1>5, <2>2 DEF Clean, Typed
  <2> QED BY <2>1, <2>2
<1>6. ASSUME context' = context PROVE \A w \in Strippers : NoAds(context'[w])
  BY <1>0, <1>6 DEF Clean
<1>7. ASSUME NEW u \in Users, Ask(u) PROVE Clean'
  <2>1. PICK says \in Topics :
          history' = [history EXCEPT ![u] = Append(history[u], Message(says, None))]
    BY <1>7, Zenon DEF Ask
  <2>2. Message(says, None) \in Messages /\ Message(says, None).ad = None
    BY DEF Message, Messages, Said
  <2>3. context' = context BY <1>7 DEF Ask
  <2> QED BY <1>1, <1>6, <2>1, <2>2, <2>3 DEF Clean
<1>8. ASSUME NEW u \in Users, SendAnswer(u) PROVE \A w \in Strippers : NoAds(history'[w])
  BY <1>2, <1>3, <1>8 DEF SendAnswer
<1>9. ASSUME NEW u \in Users, NEW how, End(u, how)
      PROVE  \A w \in Strippers : NoAds(history'[w])
  BY <1>4, <1>9 DEF End
<1>10. ASSUME NEW u \in Users, Handle(u) PROVE Clean'
  <2>1. CASE Stream(u)
    <3>1. \A a \in Replies : Message(a, None) \in Messages BY DEF Message, Messages, Said
    <3>2. \A w \in Strippers : NoAds(history'[w]) BY <1>2, <1>9, <2>1, <3>1 DEF Stream
    <3> QED BY <1>5, <2>1, <3>2 DEF Stream, Clean
  <2>2. CASE Upstream(u)
    <3>1. \A w \in Strippers : NoAds(history'[w]) BY <1>4, <1>9, <2>2 DEF Upstream
    <3> QED BY <1>5, <2>2, <3>1 DEF Upstream, Clean
  <2>3. CASE Due(u)
    <3>1. \A w \in Strippers : NoAds(history'[w]) BY <1>4, <1>8, <2>3 DEF Due
    <3> QED BY <1>6, <2>3, <3>1 DEF Due, Clean
  <2>4. CASE NoAd(u) BY <1>6, <1>8, <2>4 DEF NoAd, Clean
  <2>5. CASE NotAnObject(u) BY <1>6, <1>9, <2>5 DEF NotAnObject, Clean
  <2>6. CASE SendSponsored(u)
    <3>1. handler[u].item \in LineItems \cup {None} BY <1>0 DEF Typed, Handlers
    <3>2. \A w \in Strippers : NoAds(history'[w])
      BY <1>2, <1>3, <2>6, <3>1 DEF SendSponsored
    <3> QED BY <1>6, <2>6, <3>2 DEF SendSponsored, Clean
  <2>7. CASE \/ CountRead(u) \/ CountWrite(u) \/ Decide(u) \/ RecordRead(u) \/ RecordWrite(u)
             \/ Queue(u) \/ FilledRead(u)
    <3>1. history' = history /\ context' = context
      BY <2>7 DEF CountRead, CountWrite, Decide, RecordRead, RecordWrite, Queue, FilledRead
    <3> QED BY <1>4, <1>6, <3>1 DEF Clean
  <2> QED BY <1>10, <2>1, <2>2, <2>3, <2>4, <2>5, <2>6, <2>7 DEF Handle
<1>11. CASE UNCHANGED vars BY <1>4, <1>6, <1>11 DEF vars, Clean
<1> QED BY <1>7, <1>10, <1>11 DEF Next

\* What is sold is sold in a conversation the classifier gave leave to.
LEMMA SilentStep == IInv /\ [Next]_vars => SensitiveStaysSilent'
<1> SUFFICES ASSUME IInv, [Next]_vars PROVE SensitiveStaysSilent' OBVIOUS
<1>0. Typed /\ Cleared /\ SensitiveStaysSilent BY DEF IInv
<1>1. ASSUME sold' = sold PROVE SensitiveStaysSilent' BY <1>0, <1>1 DEF SensitiveStaysSilent
<1>2. ASSUME NEW u \in Users, SendSponsored(u) PROVE SensitiveStaysSilent'
  <2> DEFINE sale == [to |-> u, item |-> handler[u].item, in |-> history[u]]
  <2>1. "sensitive" \notin Organic(sale.in)
    <3>1. MayMonetise(history[u]) BY <1>0, <1>2 DEF SendSponsored, At, Cleared, Selling
    <3> QED BY <3>1, LeaveIsSilent
  <2>2. sold' = Append(sold, sale) /\ sold \in Seq(Sales) BY <1>0, <1>2 DEF SendSponsored, Typed
  <2> HIDE DEF sale
  <2>3. ASSUME NEW i \in DOMAIN sold' PROVE "sensitive" \notin Organic(sold'[i].in)
    <3>1. CASE i \in DOMAIN sold
      <4>1. sold'[i] = sold[i] BY <2>2, <3>1
      <4> QED BY <1>0, <3>1, <4>1 DEF SensitiveStaysSilent
    <3>2. CASE i \notin DOMAIN sold
      <4>1. sold'[i] = sale BY <2>2, <2>3, <3>2
      <4> QED BY <2>1, <4>1
    <3> QED BY <3>1, <3>2
  <2> QED BY <2>3 DEF SensitiveStaysSilent
<1>3. ASSUME NEW u \in Users, Ask(u) \/ (Handle(u) /\ ~SendSponsored(u)) PROVE sold' = sold
  BY <1>3 DEF Ask, Handle, Stream, CountRead, CountWrite, Upstream, Due, NoAd, NotAnObject, Decide,
              RecordRead, RecordWrite, Queue, FilledRead
<1>4. CASE UNCHANGED vars BY <1>1, <1>4 DEF vars
<1> QED BY <1>1, <1>2, <1>3, <1>4 DEF Next

-----------------------------------------------------------------------------
LEMMA Inductive == Spec => []IInv
<1>1. IInv /\ [Next]_vars => IInv' BY TypedStep, ClearedStep, CleanStep, SilentStep DEF IInv
<1> QED BY TypedInit, <1>1, PTL DEF Spec

\* may_monetise fails closed: whatever else is served meanwhile, no conversation
\* that ever held a sensitive turn is sold an ad.
THEOREM SensitiveSilent == Spec => []SensitiveStaysSilent
<1>1. IInv => SensitiveStaysSilent BY DEF IInv
<1> QED BY Inductive, <1>1, PTL

\* For a client that strips, the upstream reads no creative, and the classifier
\* hears only what the user and the model said.
THEOREM OrganicContext == Spec => []StrippedContextIsOrganic
<1>1. IInv => StrippedContextIsOrganic
  <2> SUFFICES ASSUME IInv, NEW u \in Strippers
               PROVE  /\ \A i \in DOMAIN context[u] : context[u][i].ad = None
                      /\ Heard(history[u]) = Organic(history[u])
    BY DEF StrippedContextIsOrganic
  <2>1. NoAds(history[u]) /\ NoAds(context[u]) BY DEF IInv, Clean
  <2> QED BY <2>1, HeardIsOrganic DEF NoAds
<1> QED BY Inductive, <1>1, PTL

=============================================================================
