----------------------------- MODULE Predicate -----------------------------
(***************************************************************************)
(* Targeting predicates: uap/predicate.py.                                 *)
(*                                                                         *)
(* A predicate is a tree: a function from positions to nodes.  The whole    *)
(* predicate is at <<>>, part i of the operator at q at Append(q, i).  A    *)
(* node is a record: `op`, its one key; `kind`, the JSON kind of the value  *)
(* under it; `arg`, that value.  The argument of an "all" or "any" over a   *)
(* list is the number of its parts, "not" has one part, and the list of a   *)
(* term is the set of its elements.  What is not an object with one key has *)
(* the op "malformed".  An evaluation returns "yes" or "no", or "raises"    *)
(* when a list holds what Python cannot hash.                               *)
(***************************************************************************)
EXTENDS Integers, SequencesExt, FiniteSets

CONSTANTS MaxDepth,     \* MAX_DEPTH = 8
          MaxTerms,     \* MAX_TERMS = 64
          Missing,      \* Python's None: a missing field, or JSON null in a list
          Unhashable    \* a list or an object as an element of a list

ASSUME PredicateAssumption == MaxDepth \in Nat /\ MaxTerms \in Nat

Answer(b) == IF b THEN "yes" ELSE "no"

Malformed == [op |-> "malformed", kind |-> "other", arg |-> Missing]

Branches(node) == node.op \in {"all", "any"} /\ node.kind = "list"

Parts(node) == IF node.op = "not" THEN {1} ELSE IF Branches(node) THEN 1..node.arg ELSE {}

IsPredicate(p) ==
  /\ <<>> \in DOMAIN p /\ DOMAIN p \subseteq Seq(Nat) /\ IsFiniteSet(DOMAIN p)
  /\ \A q \in DOMAIN p :
       /\ Branches(p[q]) => p[q].arg \in Nat
       /\ \A i \in Parts(p[q]) : Append(q, i) \in DOMAIN p
       /\ q # <<>> => Front(q) \in DOMAIN p /\ Last(q) \in Parts(p[Front(q)])

\* Terms that look one field of the signal up in a list, and those of them
\* whose field is inside an object that must be there.
Listed == {"locale_any", "geo_any", "surface_any", "format_any", "turn_bucket_any"}
Nested == {"geo_any", "turn_bucket_any"}

Risk == [low |-> 0, medium |-> 1, high |-> 2]

IntentIds(signal) ==
  IF signal.cached # Missing THEN signal.cached
  ELSE {signal.intents[i].id : i \in DOMAIN signal.intents}

Prepare(signal) ==
  [signal EXCEPT !.cached = {signal.intents[i].id : i \in DOMAIN signal.intents}]

\* The confidence of the first intent with that id.
Confidence(signal, id) ==
  LET named == {i \in DOMAIN signal.intents : signal.intents[i].id = id}
  IN  IF named = {} THEN Missing ELSE signal.intents[Min(named)].confidence

AtLeast(got, want) == got # Missing /\ want # Missing /\ got >= want

\* bool(_intent_ids(signal) & set(arg)), set(arg).issubset(_intent_ids(signal))
Intents(node, signal) ==
  IF node.op = "intent_any" THEN IntentIds(signal) \cap node.arg # {}
                         ELSE node.arg \subseteq IntentIds(signal)

InList(node, signal) ==
  /\ node.op \in Nested => signal.value[node.op] # Missing
  /\ signal.value[node.op] \in node.arg

\* Mutant of UnknownTerm: a term that is not understood is let through.
IgnoredTerm == "yes"

\* "unknown operator: fail closed"
UnknownTerm == "no"

Term(node, signal) ==
  CASE node.op \in {"intent_any", "intent_all"} ->
         IF node.kind = "list" /\ Unhashable \in node.arg THEN "raises"
         ELSE Answer(node.kind = "list" /\ Intents(node, signal))
    [] node.op = "intent_confidence_gte" ->
         Answer(node.kind = "object" /\ AtLeast(Confidence(signal, node.arg.id), node.arg.value))
    [] node.op = "commercial_intent_gte" ->
         Answer(node.kind = "number" /\ AtLeast(signal.commercial, node.arg))
    [] node.op \in Listed -> Answer(node.kind = "list" /\ InList(node, signal))
    [] node.op = "brand_risk_max" ->
         IF signal.risk # Missing /\ node.kind \in {"list", "object"} THEN "raises"
         ELSE Answer(/\ signal.risk # Missing /\ node.kind = "other"
                     /\ {signal.risk, node.arg} \subseteq DOMAIN Risk
                     /\ Risk[signal.risk] <= Risk[node.arg])
    [] OTHER -> UnknownTerm

\* all() and any(): the first part that is not `same` decides, `same` if none.
Decisive(parts, same) ==
  LET other == {i \in DOMAIN parts : parts[i] # same}
  IN  IF other = {} THEN same ELSE parts[Min(other)]

Same(op) == IF op = "all" THEN "yes" ELSE "no"

Negated(outcome) ==
  CASE outcome = "yes" -> "no" [] outcome = "no" -> "yes" [] OTHER -> "raises"

\* What the nodes come to when the parts of each come to `inner`.
OneLevel(p, terms, inner) ==
  [q \in DOMAIN p |->
     CASE p[q].op = "malformed" -> "no"
       [] p[q].op \in {"all", "any"} ->
            IF p[q].kind # "list" THEN "no"
            ELSE Decisive([i \in Parts(p[q]) |-> inner[Append(q, i)]], Same(p[q].op))
       [] p[q].op = "not" -> Negated(inner[Append(q, 1)])
       [] OTHER -> terms[q]]

\* A predicate whose term at each position comes to `terms`, read to so many
\* levels: the nodes below them count as not matched.
Reading(p, terms, levels) ==
  LET read[k \in Nat] ==
        IF k = 0 THEN [q \in DOMAIN p |-> "no"] ELSE OneLevel(p, terms, read[k - 1])
  IN  read[levels][<<>>]

Terms(p, signal) == [q \in DOMAIN p |-> Term(p[q], signal)]

\* evaluate(predicate, signal): "_depth > MAX_DEPTH" cuts below the levels 0..MAX_DEPTH.
Evaluate(p, signal) == Reading(p, Terms(p, signal), MaxDepth + 1)

-----------------------------------------------------------------------------
(* validate: the bounds the node enforces before it compiles a predicate.   *)

CountTerms(p) == Cardinality({q \in DOMAIN p : p[q].op # "not" /\ ~Branches(p[q])})

Understood(p) == {q \in DOMAIN p : p[q].op # "malformed"}

\* Mutant of Depth: a negation is not counted as a level.
DepthOfBranches(p) ==
  Max({0} \cup {Cardinality({n \in 0..Len(q) : p[SubSeq(q, 1, n)].op # "not"}) :
                  q \in Understood(p)})

Depth(p) == Max({0} \cup {Len(q) + 1 : q \in Understood(p)})

Valid(p) == Depth(p) <= MaxDepth /\ CountTerms(p) <= MaxTerms

-----------------------------------------------------------------------------
(* compile_predicate: one closure per node of the tree, built at load time. *)

\* frozenset(arg) of the terms that are specialised.
FreezeRaises(node) ==
  /\ node.op \in Listed \cup {"intent_any", "intent_all"}
  /\ node.kind = "list" /\ Unhashable \in node.arg

\* Every part down to MAX_DEPTH is compiled, whatever the others are.
CompileRaises(p) == \E q \in DOMAIN p : Len(q) <= MaxDepth /\ FreezeRaises(p[q])

CompiledTerm(node, signal) ==
  CASE node.op \in {"intent_any", "intent_all"} /\ node.kind = "list" -> Answer(Intents(node, signal))
    [] node.op = "commercial_intent_gte" /\ node.kind = "number" ->
         Answer(AtLeast(signal.commercial, node.arg))
    [] node.op \in Listed /\ node.kind = "list" -> Answer(InList(node, signal))
    [] OTHER -> Term(node, signal)

\* What the closure that compile_predicate builds returns for the signal.
Compiled(p, signal) ==
  Reading(p, [q \in DOMAIN p |-> CompiledTerm(p[q], signal)], MaxDepth + 1)

\* load_bundle validates and compiles, decide_local runs the closure on the
\* prepared signal; elsewhere evaluate interprets the predicate.
Readings(p, signal) ==
  [valid |-> Valid(p),
   interpreted |-> Evaluate(p, signal),
   compiled |-> IF CompileRaises(p) THEN "raises" ELSE Compiled(p, Prepare(signal))]

=============================================================================
