----------------------------- MODULE Aggregate -----------------------------
(***************************************************************************)
(* Reports computed on the node: uap/aggregate.py, and the ranking updates *)
(* of uap/federated.py that leave by the same way.                         *)
(*                                                                         *)
(* A spec is [dimensions, metrics, bound, epsilon, k, participants], with  *)
(* epsilon in tenths; a dimension is [field, depth, values, buckets], with *)
(* Absent for a key it does not have.  A signal maps each field it has to  *)
(* its value; the id of an intent is a sequence of segments.  A turn is    *)
(* [user, signal, metrics, error]: what it adds to each metric, and the    *)
(* scorer's error on it.  A vector is a function from 0..n.  Noise is any  *)
(* vector of integers; how it is drawn is left out.                        *)
(***************************************************************************)
EXTENDS Integers, SequencesExt

CONSTANTS Modulus,     \* MODULUS, 2^32: the ring the shares are summed in
          MaxWidth,    \* 2^16 counters
          Absent

ASSUME RingAssumption == Modulus \in Nat \ {0}

Binnable == {"intents", "commercial_intent", "locale", "surface_hint"}

-----------------------------------------------------------------------------
(* AggregationSpec.                                                         *)

Card(d) == IF d.values # Absent THEN Len(d.values) + 1 ELSE Len(d.buckets) - 1

Cells(s) == FoldLeft(LAMBDA n, d : n * Card(d), 1, s.dimensions)

Metrics(s) == IF s.metrics = <<>> THEN <<"impressions">> ELSE s.metrics

Width(s) == Cells(s) * Len(Metrics(s))

SpecFault(s) ==
  LET Refused(d) == d.field \notin Binnable
      Open(d) == d.values = Absent /\ d.buckets = Absent
      wrong == SelectSeq(s.dimensions, LAMBDA d : Refused(d) \/ Open(d))
  IN  IF s.dimensions = <<>> THEN "UAP_AGG_NO_DIMENSIONS"
      ELSE IF wrong # <<>> THEN IF Refused(wrong[1]) THEN "UAP_AGG_FIELD_NOT_BINNABLE"
                                ELSE "UAP_AGG_OPEN_DIMENSION"
      ELSE IF s.bound < 1 THEN "UAP_AGG_BAD_BOUND"
      ELSE IF s.epsilon \notin 1..100 THEN "UAP_AGG_BAD_EPSILON"
      ELSE IF Width(s) > MaxWidth THEN "UAP_AGG_TOO_WIDE" ELSE "none"

Field(signal, f) == IF f \in DOMAIN signal THEN signal[f] ELSE Absent

\* The position of the first declared value some intent has as its prefix of that
\* depth, or of the signal's own value; the last slot is anything else.
Slot(d, signal) ==
  LET Prefix(id) == SubSeq(id, 1, Min({d.depth, Len(id)}))
      Hit(v) == IF d.field = "intents"
                THEN \E i \in DOMAIN signal.intents : Prefix(signal.intents[i]) = v
                ELSE Field(signal, d.field) = v
      hits == {i \in DOMAIN d.values : Hit(d.values[i])}
  IN  IF hits = {} THEN Card(d) - 1 ELSE Min(hits) - 1

Bucket(d, signal) ==
  LET v == Field(signal, d.field)
      inner == 2..(Len(d.buckets) - 1)
  IN  IF v = Absent THEN Absent
      ELSE Max({0, Min({Card(d) - 1, Cardinality({i \in inner : v >= d.buckets[i]})})})

\* The mixed-radix index of the cell the signal falls in.
Cell(s, signal) ==
  LET Sub(d) == IF d.values # Absent THEN Slot(d, signal) ELSE Bucket(d, signal)
  IN  FoldLeft(LAMBDA index, d : IF Absent \in {index, Sub(d)} THEN Absent
                                 ELSE index * Card(d) + Sub(d),
               0, s.dimensions)

-----------------------------------------------------------------------------
(* LocalAggregator.                                                         *)

\* What a turn in that cell adds to each counter, metric by metric.
Increments(s, cell, metrics) ==
  [j \in 0..(Width(s) - 1) |->
     LET name == Metrics(s)[j \div Cells(s) + 1]
     IN  IF j % Cells(s) = cell /\ name \in DOMAIN metrics THEN metrics[name] ELSE 0]

Added(v, w) == [j \in DOMAIN v |-> v[j] + w[j]]

\* Mutant of Observe: the bound is tested after the turn it forbids.
ObserveOnePast(s, local, t) ==
  LET cell == Cell(s, t.signal)
  IN  IF local.seen[t.user] > s.bound \/ cell = Absent THEN local
      ELSE [counts |-> Added(local.counts, Increments(s, cell, t.metrics)),
            seen |-> [local.seen EXCEPT ![t.user] = @ + 1]]

\* counts and _per_user after a turn (of a spec with at least one counter).
Observe(s, local, t) ==
  LET cell == Cell(s, t.signal)
  IN  IF local.seen[t.user] >= s.bound \/ cell = Absent THEN local
      ELSE [counts |-> Added(local.counts, Increments(s, cell, t.metrics)),
            seen |-> [local.seen EXCEPT ![t.user] = local.seen[t.user] + 1]]

Nothing(n) == [j \in 0..(n - 1) |-> 0]

Binned(s, users, turns) ==
  FoldLeft(LAMBDA local, t : Observe(s, local, t),
           [counts |-> Nothing(Width(s)), seen |-> [u \in users |-> 0]], turns).counts

\* How many nodes the noise is divided among, and so 1/n of it is a node's share.
NoiseSharers(s, participants) == Max({s.participants, participants})

Finalise(counts, noise) == [j \in DOMAIN counts |-> (counts[j] + noise[j]) % Modulus]

-----------------------------------------------------------------------------
(* Shares for two aggregators, and what each does with those it is sent.    *)

SecretShare(v, mask) == <<mask, [j \in DOMAIN v |-> (v[j] - mask[j]) % Modulus]>>

Collected(sum, share) == [j \in DOMAIN sum |-> (sum[j] + share[j]) % Modulus]

Reconstruct(shares) == [j \in DOMAIN shares[1] |-> (shares[1][j] + shares[2][j]) % Modulus]

\* Mutant of Signed: the half itself is taken for a negative.
SignedBelowHalf(v) == IF v >= Modulus \div 2 THEN v - Modulus ELSE v

Signed(v) == IF v > Modulus \div 2 THEN v - Modulus ELSE v

Release(total, s) ==
  [j \in DOMAIN total |-> IF Signed(total[j]) >= s.k THEN Signed(total[j]) ELSE Absent]

-----------------------------------------------------------------------------
(* Ranking updates, in units of 1/SCALE.  A gradient spec is                *)
(* [model, clip, epsilon, delta, participants], delta in millionths.        *)

GradientFault(g) ==
  IF g.model = "" THEN "UAP_FED_NO_MODEL_ID"
  ELSE IF g.clip <= 0 THEN "UAP_FED_BAD_CLIP"
  ELSE IF g.epsilon \notin 1..100 THEN "UAP_FED_BAD_EPSILON"
  ELSE IF g.delta \notin 1..999999 THEN "UAP_FED_BAD_DELTA" ELSE "none"

\* The signal's cell, and the bias in the last place.
Features(s, signal) ==
  [j \in 0..Cells(s) |-> IF j \in {Cells(s), Cell(s, signal)} THEN 1 ELSE 0]

\* A user's gradient, summed over their turns.
Learned(s, user, g, t) ==
  IF t.user # user THEN g
  ELSE Added(g, [j \in DOMAIN g |-> t.error * Features(s, t.signal)[j]])

Gradient(s, user, turns) ==
  FoldLeft(LAMBDA g, t : Learned(s, user, g, t), Nothing(Cells(s) + 1), turns)

Square(v) == SumFunctionOnSet([j \in DOMAIN v |-> v[j] * v[j]], DOMAIN v)

\* Scaled by clip / norm, rounded to zero: the largest c with c/|x| at most clip/norm.
Clipped(v, clip) ==
  LET Scaled(x) == Max({c \in 0..clip : c * c * Square(v) <= x * x * (clip * clip)})
  IN  IF Square(v) <= clip * clip THEN v
      ELSE [j \in DOMAIN v |-> IF v[j] < 0 THEN -Scaled(v[j]) ELSE Scaled(v[j])]

\* The sum of the users' clipped gradients, before its noise.
Update(s, users, turns, clip) ==
  LET clipped == [u \in users |-> Clipped(Gradient(s, u, turns), clip)]
  IN  [j \in 0..Cells(s) |-> SumFunctionOnSet([u \in users |-> clipped[u][j]], users)]

\* average_updates: the gradient the model is moved by, or the refusal.
Averaged(total, participants, g) ==
  IF participants < g.participants THEN "UAP_FED_COHORT_TOO_SMALL"
  ELSE [j \in DOMAIN total |-> Signed(total[j])]

=============================================================================
