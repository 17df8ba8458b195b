----------------------------- MODULE Integrity -----------------------------
(***************************************************************************)
(* The integrity boundary: uap/integrity.py.  Composing a sponsored block  *)
(* under an answer, stripping it again, and the two checks a third party   *)
(* can make of what was shown.                                             *)
(*                                                                         *)
(* A text is a sequence of tokens, one per piece of text that the code     *)
(* treats apart: "nl" and "cr" line ends, "nfd" and "nfc" one letter in    *)
(* its two encodings, "ctl" a control character, "md" an inline markdown   *)
(* character, "lead" one that opens a block at the start of a line, "sep"  *)
(* the text of SEPARATOR, and words.  A digest is the text it is of.       *)
(***************************************************************************)
EXTENDS Integers, SequencesExt

CONSTANTS MinNeedle,    \* assert_creative_absent ignores fields of 8 characters or fewer
          Raises        \* an IntegrityError

Renderers == {"markdown", "plaintext", "native", "structured", "voice"}

LineStart(text, i) == i = 1 \/ text[i - 1] = "nl"

\* Re-encodes what differs in the two markdown substitutions.
Escaped(text, i) ==
  text[i] = "md" \/ (text[i] \in {"lead", "sep"} /\ LineStart(text, i))

\* escape(text, renderer), for a renderer of Renderers.
Escape(text, renderer) ==
  LET shown == SelectSeq(text, LAMBDA c : c # "ctl")
  IN  CASE renderer = "markdown" ->
             FlattenSeq([i \in DOMAIN shown |->
                           IF Escaped(shown, i) THEN <<"\\", shown[i]>> ELSE <<shown[i]>>])
        [] renderer = "plaintext" -> SelectSeq(shown, LAMBDA c : c # "cr")
        [] OTHER -> shown

\* NFC, CRLF to LF, CR to LF.
CanonicalAnswer(text) ==
  LET Form(i) == CASE text[i] = "nfd" -> <<"nfc">>
                   [] text[i] = "cr" ->
                        IF i < Len(text) /\ text[i + 1] = "nl" THEN <<>> ELSE <<"nl">>
                   [] OTHER -> <<text[i]>>
  IN  FlattenSeq([i \in DOMAIN text |-> Form(i)])

IsCanonicalAnswer(text) == text = CanonicalAnswer(text)

\* answer_digest(answer), strict.
AnswerDigest(text) == IF IsCanonicalAnswer(text) THEN text ELSE Raises

Marker == <<"nl", "nl", "sep">>

\* The block of one placement after its separator; a creative is
\* [headline, body, brand, actions], an action [label, https].
Lines(c, renderer) ==
  LET brand == Escape(c.brand, renderer)
      body == Escape(c.body, renderer)
  IN  <<"nl">> \o (IF brand = <<>> THEN <<>> ELSE brand \o <<"dash">>)
      \o Escape(c.headline, renderer)
      \o (IF body = <<>> THEN <<>> ELSE <<"nl">> \o body)
      \o FlattenSeq([i \in DOMAIN c.actions |->
           <<"nl", "[">> \o Escape(c.actions[i].label, renderer) \o <<"]", "url">>])

\* A creative without a headline renders nothing.
Shown(placements) == SelectSeq(placements, LAMBDA c : c.headline # <<>>)

\* Every block with the blank line before it, but for the first marker.
AdBlock(placements, renderer) ==
  LET shown == Shown(placements)
  IN  Lines(shown[1], renderer)
      \o FlattenSeq([i \in 1..(Len(shown) - 1) |-> Marker \o Lines(shown[i + 1], renderer)])

\* Mutant of Composed: the block follows the answer without a blank line.
ComposedClose(answer, placements, renderer) ==
  IF Shown(placements) = <<>> THEN answer
  ELSE answer \o <<"nl", "sep">> \o AdBlock(placements, renderer)

Composed(answer, placements, renderer) ==
  IF Shown(placements) = <<>> THEN answer
  ELSE answer \o Marker \o AdBlock(placements, renderer)

\* compose(): no text when the answer is not canonical, the renderer unknown or
\* an action's URL not https.
Compose(answer, placements, renderer) ==
  LET shown == Shown(placements)
  IN  IF \/ ~IsCanonicalAnswer(answer)
         \/ shown # <<>> /\ renderer \notin Renderers
         \/ \E i \in DOMAIN shown : \E a \in DOMAIN shown[i].actions : ~shown[i].actions[a].https
      THEN Raises
      ELSE Composed(answer, placements, renderer)

MarkerAt(text, i) ==
  /\ i \in Nat /\ 1 <= i /\ i + 2 <= Len(text)
  /\ text[i] = "nl" /\ text[i + 1] = "nl" /\ text[i + 2] = "sep"

HasMarker(text) == \E i \in DOMAIN text : MarkerAt(text, i)

FirstMarker(text) ==
  CHOOSE i \in DOMAIN text : MarkerAt(text, i) /\ \A j \in 1..(i - 1) : ~MarkerAt(text, j)

\* strip_ad_block: what is before the first marker.
StripAdBlock(text) ==
  IF HasMarker(text) THEN SubSeq(text, 1, FirstMarker(text) - 1) ELSE text

Occurs(needle, text) ==
  \E i \in 0..(Len(text) - Len(needle)) : SubSeq(text, i + 1, i + Len(needle)) = needle

\* assert_creative_absent finds a field in the messages.
CreativeFound(messages, placements) ==
  \E i \in DOMAIN placements, m \in DOMAIN messages :
    \E needle \in {placements[i].headline, placements[i].body, placements[i].brand} :
      Len(needle) > MinNeedle /\ Occurs(needle, messages[m])

\* Mutant of VerifyComposition: a block is told from an answer by length.
VerifyByLength(text, answer, placements, renderer) ==
  LET expected == Compose(answer, placements, renderer)
  IN  CASE expected = Raises -> "raises"
        [] expected # Raises /\ text = expected -> "exact"
        [] OTHER -> IF Len(StripAdBlock(text)) # Len(answer) THEN "answer" ELSE "block"

\* verify_composition: "exact", or which of the two parts differs.
VerifyComposition(text, answer, placements, renderer) ==
  LET expected == Compose(answer, placements, renderer)
  IN  CASE expected = Raises -> "raises"
        [] expected # Raises /\ text = expected -> "exact"
        [] OTHER -> IF StripAdBlock(text) # answer THEN "answer" ELSE "block"

\* verify_answer_commitment.
VerifyAnswerCommitment(text, digest) ==
  LET actual == AnswerDigest(StripAdBlock(text))
  IN  IF actual = Raises THEN "raises" ELSE IF actual = digest THEN "same" ELSE "other"

=============================================================================
