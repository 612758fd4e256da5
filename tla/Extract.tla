-------------------------------- MODULE Extract --------------------------------
(***************************************************************************)
(* parse_manifest_store in src/c2patxt/_extract.py: from the superbox that a   *)
(* wrapper carries to a ManifestStore, or to the status code of the first      *)
(* thing that is wrong with it.                                              *)
(*                                                                          *)
(* A superbox is [uuid, label, requestable, content]; a label is the set of    *)
(* its text, and content a sequence of [tbox, payload].  The payload of a      *)
(* "jumb" box is a superbox again, or Malformed where the module Jumbf fails;  *)
(* that of a "cbor" or "json" box says what decoding it gives, "bad" if it     *)
(* fails (the module Cbor).                                                  *)
(***************************************************************************)
EXTENDS SequencesExt

CONSTANT Payloads      \* [box, trailing]: what the wrapper carries

Malformed == [form |-> "malformed"]

Boxes(content) == {content[i].payload : i \in {i \in DOMAIN content : content[i].tbox = "jumb"}}

(* What parse_superbox (the module Jumbf) makes of bytes, as deep as this parser *)
(* looks: the children of a box are a sequence, and it has one label or none.    *)
IsBox(b) ==
  b # Malformed =>
    b.content \in Seq(ToSet(b.content)) /\ \A l, m \in b.label : l = m

IsStore(b) ==
  /\ IsBox(b)
  /\ b # Malformed => \A m \in Boxes(b.content) :
       /\ IsBox(m)
       /\ m # Malformed => \A part \in Boxes(m.content) :
            IsBox(part) /\ (part # Malformed => \A a \in Boxes(part.content) : IsBox(a))

ASSUME PayloadsAssumption == \A p \in Payloads : IsStore(p.box) /\ p.trailing \in BOOLEAN

VARIABLES
  raw,
  phase,
  cursor,        \* next child of the box that is walked
  manifest,      \* the last manifest so far: a set of at most one
  parts,         \* recognized children of the manifest, by label
  stored,        \* children of the assertion store, by label: assertion_bytes
  pending,       \* labels of those that are still to be decoded, in order
  decoded,       \* assertions
  outcome        \* "none", "parsed" or a status code

walk == <<manifest, parts, stored, pending, decoded>>
vars == <<raw, phase, cursor, walk, outcome>>

StandardManifests == {"c2ma", "c2md"}
Manifests == StandardManifests \cup {"c2cm", "c2um"}
PartUuid == [l \in {"c2pa.assertions", "c2pa.claim.v2", "c2pa.signature"} |->
               CASE l = "c2pa.assertions" -> "c2as" [] l = "c2pa.claim.v2" -> "c2cl"
                 [] OTHER -> "c2cs"]

Damaged == "manifest.text.corruptedWrapper"

(* _require_c2pa_description.                                                *)
Named(b) == b.requestable /\ b.label # {}
LabelOf(b) == CHOOSE l \in b.label : TRUE

IsManifestPart(b) == LabelOf(b) \in DOMAIN PartUuid /\ PartUuid[LabelOf(b)] = b.uuid

----------------------------------------------------------------------------
Init ==
  /\ raw \in Payloads /\ phase = "store" /\ cursor = 1 /\ outcome = "none"
  /\ manifest = {} /\ parts = <<>> /\ stored = <<>> /\ pending = <<>> /\ decoded = <<>>

Reject(code) == phase' = "done" /\ outcome' = code /\ UNCHANGED <<raw, cursor, walk>>

GoOn(next) == phase' = next /\ cursor' = 1 /\ UNCHANGED <<raw, outcome>>
Advance == cursor' = cursor + 1 /\ UNCHANGED <<raw, phase, outcome>>

OpenStore ==
  /\ phase = "store"
  /\ CASE raw.box = Malformed \/ raw.trailing -> Reject(Damaged)
       [] raw.box # Malformed /\ ~ raw.trailing /\ (raw.box.uuid # "c2pa" \/ raw.box.label # {"c2pa"}) ->
            Reject(Damaged)
       [] raw.box # Malformed /\ ~ raw.trailing /\ raw.box.uuid = "c2pa" /\ raw.box.label = {"c2pa"} ->
            IF raw.box.requestable THEN GoOn("manifests") /\ UNCHANGED walk
                                   ELSE Reject("general.error")

(* _active_manifest.  The order of the store decides, not the labels.         *)
FirstManifest(b) == IF manifest = {} THEN {b} ELSE manifest       \* defect
LatestManifest(b) == {b}

SeekManifest ==
  /\ phase = "manifests" /\ cursor <= Len(raw.box.content)
  /\ \E child \in {raw.box.content[cursor]} :
       IF child.tbox = "jumb" /\ child.payload = Malformed THEN Reject(Damaged)
       ELSE IF child.tbox = "jumb" /\ child.payload.uuid \in Manifests
       THEN IF Named(child.payload)
            THEN manifest' = LatestManifest(child.payload) /\ Advance
                   /\ UNCHANGED <<parts, stored, pending, decoded>>
            ELSE Reject("general.error")
       ELSE Advance /\ UNCHANGED walk

Active == CHOOSE m \in manifest : TRUE

TakeManifest ==
  /\ phase = "manifests" /\ cursor > Len(raw.box.content)
  /\ CASE manifest = {} -> Reject(Damaged)
       [] manifest # {} /\ Active.uuid \notin StandardManifests -> Reject("general.error")
       [] manifest # {} /\ Active.uuid \in StandardManifests -> GoOn("parts") /\ UNCHANGED walk

----------------------------------------------------------------------------
(* _children_with_bytes, on the manifest and on the assertion store.           *)

With(children, b) ==
  [l \in DOMAIN children \cup {LabelOf(b)} |-> IF l = LabelOf(b) THEN b ELSE children[l]]

LastBoxWins(children, b) == FALSE                                 \* defect
Repeats(children, b) == LabelOf(b) \in DOMAIN children

CollectPart ==
  /\ phase = "parts" /\ cursor <= Len(Active.content)
  /\ \E child \in {Active.content[cursor]} :
       IF child.tbox # "jumb" THEN Advance /\ UNCHANGED walk
       ELSE IF child.payload = Malformed THEN Reject(Damaged)
       ELSE IF ~ Named(child.payload) THEN Reject("general.error")
       ELSE IF ~ IsManifestPart(child.payload) THEN Advance /\ UNCHANGED walk
       ELSE IF Repeats(parts, child.payload)
       THEN Reject(IF LabelOf(child.payload) = "c2pa.claim.v2" THEN "claim.multiple" ELSE "general.error")
       ELSE /\ parts' = With(parts, child.payload) /\ Advance
            /\ UNCHANGED <<manifest, stored, pending, decoded>>

(* _content: the payloads of one type.                                       *)
Contents(b, tbox) ==
  FlattenSeq([i \in DOMAIN b.content |->
                IF b.content[i].tbox = tbox THEN <<b.content[i]>> ELSE <<>>])

(* The claim, the signature, then whether the claim decodes.                  *)
BlanketCode(b) == IF b = "bad" THEN Damaged ELSE "claim.malformed" \* defect
ClaimCode(b) == IF b = "bad" THEN "claim.cbor.invalid" ELSE "claim.malformed"

TakeClaim ==
  /\ phase = "parts" /\ cursor > Len(Active.content)
  /\ IF "c2pa.claim.v2" \notin DOMAIN parts THEN Reject("claim.missing")
     ELSE \E n \in {Len(Contents(parts["c2pa.claim.v2"], "cbor"))} :
            CASE n = 0 -> Reject("claim.missing")
              [] n > 1 -> Reject("claim.malformed")
              [] n = 1 -> GoOn("signature") /\ UNCHANGED walk

TakeSignature ==
  /\ phase = "signature"
  /\ IF "c2pa.signature" \notin DOMAIN parts THEN Reject("claimSignature.missing")
     ELSE \E n \in {Len(Contents(parts["c2pa.signature"], "cbor"))} :
            CASE n = 0 -> Reject("claimSignature.missing")
              [] n > 1 -> Reject("general.error")
              [] n = 1 -> GoOn("claim") /\ UNCHANGED walk

DecodeClaim ==
  /\ phase = "claim"
  /\ \E claim \in {Contents(parts["c2pa.claim.v2"], "cbor")[1].payload} :
       IF claim = "map" THEN GoOn("assertions") /\ UNCHANGED walk ELSE Reject(ClaimCode(claim))

----------------------------------------------------------------------------
(* _parse_assertions: every child is recorded, then decoded.                  *)

AssertionStore ==
  IF "c2pa.assertions" \in DOMAIN parts THEN parts["c2pa.assertions"].content ELSE <<>>

CollectAssertion ==
  /\ phase = "assertions" /\ cursor <= Len(AssertionStore)
  /\ \E child \in {AssertionStore[cursor]} :
       IF child.tbox # "jumb" THEN Advance /\ UNCHANGED walk
       ELSE IF child.payload = Malformed THEN Reject(Damaged)
       ELSE IF ~ Named(child.payload) THEN Reject("general.error")
       ELSE IF Repeats(stored, child.payload) THEN Reject("assertion.missing")
       ELSE /\ stored' = With(stored, child.payload)
            /\ pending' = Append(pending, LabelOf(child.payload)) /\ Advance
            /\ UNCHANGED <<manifest, parts, decoded>>

(* _json_ld_assertion: these labels, whatever their instance number.           *)
JsonLabels == {"c2pa.metadata", "c2pa.metadata__1", "c2pa.repository-receipt"}

Decoding(value) ==
  /\ decoded' = [l \in DOMAIN decoded \cup {Head(pending)} |->
                   IF l = Head(pending) THEN value ELSE decoded[l]]
  /\ pending' = Tail(pending) /\ UNCHANGED <<raw, phase, cursor, outcome, manifest, parts, stored>>

ForgetsUndecoded ==                                               \* defect
  /\ pending' = Tail(pending) /\ stored' = [l \in DOMAIN stored \ {Head(pending)} |-> stored[l]]
  /\ UNCHANGED <<raw, phase, cursor, outcome, manifest, parts, decoded>>

Undecoded == pending' = Tail(pending) /\ UNCHANGED <<raw, phase, cursor, outcome, manifest, parts, stored, decoded>>

IsSingleJson(b) == Len(b.content) = 1 /\ b.content[1].tbox = "json"

DecodeAssertion ==
  /\ phase = "assertions" /\ cursor > Len(AssertionStore) /\ pending # <<>>
  /\ \E b \in {stored[Head(pending)]} : \E cbor \in {Contents(b, "cbor")} :
       CASE Head(pending) \in JsonLabels /\ ~ IsSingleJson(b) -> Reject("assertion.json.invalid")
         [] Head(pending) \in JsonLabels /\ IsSingleJson(b) ->
              CASE b.content[1].payload = "bad" -> Reject("assertion.json.invalid")
                [] b.content[1].payload = "null" -> Undecoded       \* as if it had no JSON
                [] OTHER -> Decoding(b.content[1].payload)
         [] Head(pending) \notin JsonLabels ->
              CASE Len(cbor) > 1 -> Reject("assertion.cbor.invalid")
                [] cbor = <<>> -> Undecoded
                [] Len(cbor) = 1 /\ cbor[1].payload = "bad" -> Reject("assertion.cbor.invalid")
                [] OTHER -> Decoding(cbor[1].payload)

Finish ==
  /\ phase = "assertions" /\ cursor > Len(AssertionStore) /\ pending = <<>>
  /\ phase' = "done" /\ outcome' = "parsed" /\ UNCHANGED <<raw, cursor, walk>>

Next ==
  \/ OpenStore \/ SeekManifest \/ TakeManifest \/ CollectPart \/ TakeClaim \/ TakeSignature
  \/ DecodeClaim \/ CollectAssertion \/ DecodeAssertion \/ Finish

Spec == Init /\ [][Next]_vars

----------------------------------------------------------------------------

Parsed == outcome = "parsed"

(* The manifest that is judged is the last one that the store holds, of        *)
(* whatever type, and never an earlier one that would be easier to accept.      *)
LastManifestIsActive ==
  Parsed =>
    \E i \in DOMAIN raw.box.content :
      /\ raw.box.content[i].tbox = "jumb" /\ manifest = {raw.box.content[i].payload}
      /\ \A j \in (i + 1)..Len(raw.box.content) :
           raw.box.content[j].tbox = "jumb" => raw.box.content[j].payload.uuid \notin Manifests

(* The part found under a label is the only box of its label and type: neither  *)
(* a second one nor an unknown box that borrows the label replaces it, and      *)
(* boxes of unknown types change nothing.                                     *)
PartsAreUnambiguous ==
  Parsed =>
    \A l \in DOMAIN PartUuid :
      LET known == {i \in DOMAIN Active.content :
            /\ Active.content[i].tbox = "jumb"
            /\ Active.content[i].payload.label = {l} /\ Active.content[i].payload.uuid = PartUuid[l]}
      IN  /\ Cardinality(known) <= 1 /\ (l \in DOMAIN parts) = (known # {})
          /\ \A i \in known : parts[l] = Active.content[i].payload

(* Every box of the assertion store can be hashed, under its own label and as it *)
(* arrived, decoded or not; a decoded value comes from that very box.           *)
EveryAssertionIsKept ==
  Parsed =>
    /\ {stored[l] : l \in DOMAIN stored} = Boxes(AssertionStore)
    /\ Cardinality(DOMAIN stored)
         = Cardinality({i \in DOMAIN AssertionStore : AssertionStore[i].tbox = "jumb"})
    /\ \A l \in DOMAIN decoded :
         l \in DOMAIN stored /\ decoded[l] \in {c.payload : c \in ToSet(stored[l].content)}

(* The code of a damaged wrapper is kept for damage to the boxes: a manifest     *)
(* whose boxes are whole is never reported so because of what they hold.        *)
Whole(b) ==
  /\ b # Malformed /\ b.uuid = "c2pa" /\ b.label = {"c2pa"}
  /\ \E m \in Boxes(b.content) : m # Malformed /\ m.uuid \in Manifests
  /\ \A m \in Boxes(b.content) :
       /\ m # Malformed
       /\ m.uuid \in Manifests => \A part \in Boxes(m.content) :
            part # Malformed /\ (part.uuid = "c2as" => Malformed \notin Boxes(part.content))

DamageMeansDamage == outcome = Damaged => raw.trailing \/ ~ Whole(raw.box)
=============================================================================
