------------------------------- MODULE Lifecycle -------------------------------
(***************************************************************************)
(* A text from its author to its readers: embed (src/c2patxt/_embed.py)     *)
(* marks it, people and programs edit it, strip removes marks, verify and    *)
(* extract read it.  The parts are composed by their specifications: the     *)
(* padding search by Search, the scan by the answers of Framing, what embed   *)
(* writes by ManifestBuilder, the hard binding by Binding.                   *)
(*                                                                          *)
(* Texts are real code points, wrappers and all.  A payload is one byte that *)
(* names a manifest and may be followed by padding; embed writes the byte,   *)
(* and a payload that embed did not write holds no manifest.                 *)
(***************************************************************************)
EXTENDS ManifestBuilder, Framing

CONSTANTS
  Authored,      \* the texts that authors start from
  Signers,       \* certificate chains, each certificate [from, to]
  Contexts,      \* values of EmbedContext: [algorithm, when, representable]
  Times,         \* instants that a clock may show
  Paddings,      \* what may follow the first byte of a payload
  MaxMarks,      \* bounds on what happens to one text: marks,
  MaxEvents      \* marks and edits together

ASSUME AuthoredAssumption == Authored \subseteq Seq(CodePoint)
ASSUME PaddingsAssumption == Paddings \subseteq Seq(Byte)
ASSUME MaxMarksAssumption == MaxMarks \in Byte       \* one byte names a manifest

VARIABLES
  text,          \* the text as it stands
  issued,        \* the manifests that embed has signed, in order
  draft,         \* the one it is about to sign: a set of at most one
  search,        \* what solve has answered: the variables of Search
  answer,        \* what the last call returned or raised
  edits          \* edits so far

vars == <<text, issued, draft, search, answer, edits>>

Solve == INSTANCE Search WITH
  MaxPayload <- MaxManifestLength, phase <- search.phase,
  declared <- search.declared, length <- search.length, payload <- search.payload

Searching == [phase |-> "searching", declared |-> 0, length |-> 0, payload |-> 0]
Raised(why) == [kind |-> "raised", why |-> why]

----------------------------------------------------------------------------
(* embed, up to the search.                                                  *)

When(context, now) == IF context.when = {} THEN now ELSE CHOOSE t \in context.when : TRUE

OnlySignerChecked(chain, when) == when \in chain[1].from .. chain[1].to  \* defect

ValidWhenClaimed(chain, when) == \A i \in DOMAIN chain : when \in chain[i].from .. chain[i].to

(* The checks, in the order in which embed makes them.                       *)
RefusesOnlyDamage(chain, context, when) ==                        \* defect
  IF context.algorithm \notin Algorithms THEN "unsupported algorithm"
  ELSE IF ~ context.representable THEN "no RFC 3339 time"
  ELSE IF ~ ValidWhenClaimed(chain, when) THEN "outside validity"
  ELSE IF \E i \in DOMAIN text : Unencodable(text[i]) THEN "UnencodableTextError"
  ELSE IF \E a \in Answers("find_wrappers", text) : a.kind = "corrupt" THEN "MarkCorruptError"
  ELSE IF TooManyNonstarters(text) THEN "TextNormalizationError"
  ELSE "nothing"

Refusal(chain, context, when) ==
  IF context.algorithm \notin Algorithms THEN "unsupported algorithm"
  ELSE IF ~ context.representable THEN "no RFC 3339 time"
  ELSE IF ~ ValidWhenClaimed(chain, when) THEN "outside validity"
  ELSE IF \E i \in DOMAIN text : Unencodable(text[i]) THEN "UnencodableTextError"
  ELSE IF \E a \in Answers("find_wrappers", text) : a.kind = "corrupt" THEN "MarkCorruptError"
  ELSE IF Wrappers(text) # {} THEN "AlreadyMarkedError"
  ELSE IF TooManyNonstarters(text) THEN "TextNormalizationError"
  ELSE "nothing"

(* What the manifest will say of the text; its exclusion comes from solve.    *)
DraftOfRawText(chain, context, when) ==                           \* defect
  [source |-> text, start |-> Len(Encoded(text)), hash |-> Digest(context.algorithm, Nfc(text)),
   algorithm |-> context.algorithm, chain |-> chain, when |-> when]

Draft(chain, context, when) ==
  [source |-> text, start |-> Len(Encoded(Nfc(text))), hash |-> Digest(context.algorithm, Nfc(text)),
   algorithm |-> context.algorithm, chain |-> chain, when |-> when]

Eventful == Len(issued) + edits < MaxEvents
MayMark == Len(issued) < MaxMarks /\ Eventful

Embed ==
  /\ draft = {} /\ MayMark
  /\ \E chain \in Signers, context \in Contexts, now \in Times :
       \E when \in {When(context, now)} : \E why \in {Refusal(chain, context, when)} :
         \/ why # "nothing" /\ answer' = Raised(why) /\ UNCHANGED <<draft, search>>
         \/ /\ why = "nothing" /\ draft' = {Draft(chain, context, when)}
            /\ search' = Searching /\ answer' = [kind |-> "none"]
  /\ UNCHANGED <<text, issued, edits>>

(* solve gives its one answer, and embed returns or raises.                   *)
Payloads == {<<Len(issued) + 1>> \o padding : padding \in Paddings}
WrapperLengths == {Utf8Length(BuildWrapper(p)) : p \in Payloads}

Sign(payload) ==
  \E d \in draft : \E n \in WrapperLengths :
    LET marked == Nfc(d.source) \o BuildWrapper(payload)
    IN  /\ search' = [phase |-> "found", declared |-> n, payload |-> Len(payload),
                      length |-> Utf8Length(BuildWrapper(payload))]
        /\ Solve!Find
        /\ issued' = Append(issued, [payload |-> payload, start |-> d.start, length |-> n,
             source |-> d.source, hash |-> d.hash, algorithm |-> d.algorithm,
             chain |-> d.chain, when |-> d.when, marked |-> marked])
        /\ text' = marked /\ answer' = [kind |-> "marked"]

FinishEmbed ==
  /\ draft # {} /\ draft' = {}
  /\ \/ \E payload \in Payloads : Sign(payload)
     \/ /\ \E why \in {"failed", "refused"} :
             search' = [Searching EXCEPT !.phase = why] /\ answer' = Raised(why)
        /\ Solve!Fail
        /\ UNCHANGED <<text, issued>>
  /\ UNCHANGED edits

----------------------------------------------------------------------------
(* strip, and what else happens to a text.                                    *)

Strip ==
  /\ draft = {} /\ \A i \in DOMAIN text : ~ Unencodable(text[i])
  /\ answer' \in Answers("strip", text)
  /\ text' = IF answer'.kind = "text" THEN answer'.text ELSE text
  /\ UNCHANGED <<issued, draft, search, edits>>

Rewrite(t) ==
  /\ draft = {} /\ Eventful
  /\ text' = t /\ edits' = edits + 1 /\ answer' = [kind |-> "none"]
  /\ UNCHANGED <<issued, draft, search>>

Spliced(at, inserted, skipped) ==
  SubSeq(text, 1, at) \o inserted \o SubSeq(text, at + skipped + 1, Len(text))

TypedCharacters == {Letter, Acute, MARKER, ByteToSelector(7)}

Type == issued # <<>> /\ \E at \in 0 .. Len(text), c \in TypedCharacters : Rewrite(Spliced(at, <<c>>, 0))
Erase == issued # <<>> /\ \E at \in 0 .. Len(text) - 1 : Rewrite(Spliced(at, <<>>, 1))

(* Somebody copies a mark out of a marked text.                               *)
PasteMark ==
  \E i \in DOMAIN issued, at \in 0 .. Len(text) :
    Rewrite(Spliced(at, BuildWrapper(issued[i].payload), 0))

(* A program on the way normalizes the text, or decomposes it.                *)
Recompose == issued # <<>> /\ (Rewrite(Nfc(text)) \/ Rewrite(Decomposed(text)))

Edit == Type \/ Erase \/ PasteMark \/ Recompose

----------------------------------------------------------------------------
(* verify and extract: functions of the text and, for verify, of the clock.   *)

PayloadOf(t, w) == [k \in 1 .. w[2] |-> SelectorToByte(t[w[1] + 1 + HEADER_SIZE + k])]
Parsed(t) == {w \in Wrappers(t) : \E i \in DOMAIN issued : issued[i].payload = PayloadOf(t, w)}
ManifestAt(t, w) ==
  issued[CHOOSE i \in DOMAIN issued : issued[i].payload = PayloadOf(t, w)]

RangeOf(t, w) == <<SpanOf(t, w)[1], SpanOf(t, w)[2] - SpanOf(t, w)[1]>>

(* _select_text_manifest.                                                    *)
Selected(t) ==
  IF Cardinality(Wrappers(t)) = 1 THEN Parsed(t)
  ELSE {w \in Parsed(t) : RangeOf(t, w) = <<ManifestAt(t, w).start, ManifestAt(t, w).length>>}

HashDataIn(manifest) ==
  {HashDataAssertion(manifest.hash, manifest.start, manifest.length, manifest.algorithm)}

BindingIgnored(t, w) == TRUE                                      \* defect

Binds(t, w) ==
  "assertion.dataHash.match" \in
    ToSet(BindingStatuses(t, HashDataIn(ManifestAt(t, w)), {}, {RangeOf(t, v) : v \in Wrappers(t)}))

(* The Provenance of verify without trust anchors.  The assertion store and   *)
(* the signature of a manifest that embed built are those of Verify's genuine *)
(* texts.                                                                     *)
Verdict(t, now) ==
  IF Wrappers(t) = {}
  THEN IF CorruptCandidates(t) = {} THEN "UNMARKED" ELSE "INVALID"
  ELSE IF \E w \in Selected(t) : /\ Selected(t) = {w} /\ Binds(t, w)
                                 /\ ValidWhenClaimed(ManifestAt(t, w).chain, now)
       THEN "VALID" ELSE "INVALID"

Rank == [UNMARKED |-> 0, INVALID |-> 0, VALID |-> 1, TRUSTED |-> 2]

(* Verdict.at_least; raise_for_state raises unless it holds.                  *)
AtLeast(provenance, minimum) == Rank[provenance] >= Rank[minimum]

(* extract: {} when it returns None or raises.                                *)
Extracted(t) == {ManifestAt(t, w) : w \in {w \in Parsed(t) : Wrappers(t) = {w}}}

----------------------------------------------------------------------------
Init ==
  /\ text \in Authored
  /\ issued = <<>> /\ draft = {} /\ search = Searching
  /\ answer = [kind |-> "none"] /\ edits = 0

Next == Embed \/ FinishEmbed \/ Strip \/ Edit

Spec == Init /\ [][Next]_vars

----------------------------------------------------------------------------
(* Properties.                                                               *)

Accepted(t, now) == AtLeast(Verdict(t, now), "VALID")

(* What embed returns is accepted as long as it is the text that is read: at   *)
(* exactly the instants at which all the certificates are valid, and at the    *)
(* instant it claims above all, although embed judged that instant and verify  *)
(* judges its own.                                                             *)
EmbeddedTextIsAccepted ==
  \A i \in DOMAIN issued : text = issued[i].marked =>
    LET valid(certificate, t) == t \in certificate.from .. certificate.to
        chain == ToSet(issued[i].chain)
    IN  /\ \A now \in Times : Accepted(text, now) <=> \A c \in chain : valid(c, now)
        /\ Accepted(text, issued[i].when)

(* However a marked text was edited, cut, normalized, decomposed, marked again *)
(* or had marks pasted into it: if it is accepted, it says what embed signed.  *)
(* Its one wrapper holds the manifest that extract returns, strip answers with *)
(* a text that can be marked again, and that text is, up to composition, the   *)
(* one that the author gave embed.                                             *)
AcceptedTextWasEmbedded ==
  \A now \in Times : Accepted(text, now) =>
    \E manifest \in Extracted(text) :
      /\ \E i \in DOMAIN issued : issued[i] = manifest
      /\ Answers("strip", text) = {[kind |-> "text", text |-> Without(text)]}
      /\ Wrappers(Without(text)) = {} /\ CorruptCandidates(Without(text)) = {}
      /\ ~ TooManyNonstarters(Without(text))
      /\ Nfc(Without(text)) = Nfc(manifest.source)

(* strip takes back exactly what embed did: the author's text is left, in NFC, *)
(* with not a code point of the mark.                                          *)
StripUndoesEmbed ==
  \A i \in DOMAIN issued : text = issued[i].marked =>
    Answers("strip", text) = {[kind |-> "text", text |-> Nfc(issued[i].source)]}

(* embed writes only on a text without wrapper or damaged wrapper, although it *)
(* looks before it normalizes and appends after; and then the mark is the only *)
(* one, at the end of the text.                                                *)
EmbedAddsTheOnlyMark ==
  [][issued' # issued =>
       /\ Wrappers(text) = {} /\ CorruptCandidates(text) = {}
       /\ CorruptCandidates(text') = {}
       /\ Wrappers(text') = {<<Len(Nfc(text)), Len(issued'[Len(issued')].payload)>>}
    ]_vars
=============================================================================
