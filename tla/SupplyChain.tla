---------------------------- MODULE SupplyChain ----------------------------
(***************************************************************************)
(* Verification of a declared supply chain: uap/supply_chain.py.           *)
(*                                                                         *)
(* A chain is [complete, nodes], a hop [asi, sid, hp, anchor, tier].       *)
(* `declarations` is a function from the systems whose uap-sellers.json is *)
(* at hand to the sellers each lists: functions from seller ids to         *)
(* [anchor, tier].  A field that is not given is Undeclared.               *)
(***************************************************************************)
EXTENDS Integers, SequencesExt

CONSTANTS MaxHops,       \* MAX_HOPS = 16
          Undeclared

\* Weakest to strongest.
AnchorStrength == <<"none", "enrolment", "domain", "model_steward", "attestation">>

Named(hop) == hop.asi # Undeclared /\ hop.sid # Undeclared

Strengths(hop) == {s \in DOMAIN AnchorStrength : AnchorStrength[s] = hop.anchor}

\* The hop repeats one before it: `seen` holds the named hops walked so far.
Loops(nodes, i) ==
  \E j \in 1..(i - 1) : nodes[j].asi = nodes[i].asi /\ nodes[j].sid = nodes[i].sid

Held(hop, declarations) == Named(hop) /\ hop.asi \in DOMAIN declarations

\* resolve_seller finds the hop in the declaration of the system it names.
Resolves(hop, declarations) ==
  Held(hop, declarations) /\ hop.sid \in DOMAIN declarations[hop.asi]

\* A resolved hop claims what its system substantiates.
Substantiated(hop, seller) ==
  /\ seller.anchor = hop.anchor
  /\ hop.tier # Undeclared /\ seller.tier # Undeclared => hop.tier <= seller.tier

\* Mutant of Accepted: a hop whose seller is not listed is only unresolved.
AcceptedUnlisted(hop, declarations) ==
  /\ Named(hop) /\ Strengths(hop) # {}
  /\ Resolves(hop, declarations) => Substantiated(hop, declarations[hop.asi][hop.sid])

Accepted(hop, declarations) ==
  /\ Named(hop) /\ Strengths(hop) # {}
  /\ Held(hop, declarations) =>
       /\ Resolves(hop, declarations)
       /\ Substantiated(hop, declarations[hop.asi][hop.sid])

\* The ChainVerdict of verify_chain, its reasons left out.
VerifyChain(chain, declarations) ==
  LET nodes == chain.nodes
      Hops(P(_)) == Cardinality({i \in DOMAIN nodes : P(nodes[i])})
      paid == Hops(LAMBDA h : Named(h) /\ h.hp = 1)
      strengths == UNION {Strengths(nodes[i]) : i \in {j \in DOMAIN nodes : Named(nodes[j])}}
  IN  IF nodes = <<>>
      THEN [ok |-> FALSE, resolved |-> 0, unresolvable |-> 0, paymentHops |-> 0,
            weakest |-> "none"]
      ELSE [ok |-> /\ Len(nodes) <= MaxHops /\ chain.complete /\ paid > 0
                   /\ \A i \in DOMAIN nodes :
                        Accepted(nodes[i], declarations) /\ ~Loops(nodes, i),
            resolved |-> Hops(LAMBDA h : Resolves(h, declarations)),
            unresolvable |-> Hops(LAMBDA h : Named(h) /\ h.asi \notin DOMAIN declarations),
            paymentHops |-> paid,
            weakest |-> AnchorStrength[Min(strengths \cup {Len(AnchorStrength)})]]

=============================================================================
