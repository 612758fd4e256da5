------------------------------ MODULE ExtractProofs ------------------------------
(***************************************************************************)
(* The properties of parse_manifest_store, for every payload.                *)
(***************************************************************************)
EXTENDS Extract, TextLemmas

Phases == {"store", "manifests", "parts", "signature", "claim", "assertions", "done"}
OnManifest == {"parts", "signature", "claim", "assertions"}

Content == raw.box.content
IsBoxAt(content, i) == content[i].tbox = "jumb"

(* SeekManifest: the first n children have been walked.                       *)
NoManifestAmong(low, high) ==
  \A j \in low .. high : IsBoxAt(Content, j) =>
    Content[j].payload # Malformed /\ Content[j].payload.uuid \notin Manifests

LatestOf(n) ==
  \/ manifest = {} /\ NoManifestAmong(1, n)
  \/ \E i \in 1 .. n :
       /\ IsBoxAt(Content, i) /\ Content[i].payload # Malformed
       /\ Content[i].payload.uuid \in Manifests /\ manifest = {Content[i].payload}
       /\ NoManifestAmong(i + 1, n)

(* CollectPart: the children of the manifest that are its part l.             *)
Known(l, n) ==
  {i \in 1 .. n : /\ IsBoxAt(Active.content, i) /\ Active.content[i].payload.label = {l}
                  /\ Active.content[i].payload.uuid = PartUuid[l]}

PartsOf(n) ==
  /\ DOMAIN parts \subseteq DOMAIN PartUuid
  /\ \A i \in 1 .. n : IsBoxAt(Active.content, i) => Active.content[i].payload # Malformed
  /\ \A l \in DOMAIN PartUuid :
       /\ \A i, j \in Known(l, n) : i = j
       /\ l \in DOMAIN parts <=> Known(l, n) # {}
       /\ \A i \in Known(l, n) : parts[l] = Active.content[i].payload

(* CollectAssertion and DecodeAssertion.                                     *)
Found(n) == {i \in 1 .. n : IsBoxAt(AssertionStore, i)}

StoredOf(n) ==
  /\ {stored[l] : l \in DOMAIN stored} = {AssertionStore[i].payload : i \in Found(n)}
  /\ \A l \in DOMAIN stored : stored[l] # Malformed /\ stored[l].label = {l}
  /\ IsFiniteSet(DOMAIN stored) /\ Cardinality(DOMAIN stored) = Cardinality(Found(n))

DecodedFromStored ==
  /\ pending \in Seq(DOMAIN stored)
  /\ \A l \in DOMAIN decoded :
       l \in DOMAIN stored /\ decoded[l] \in {c.payload : c \in ToSet(stored[l].content)}

(* The inductive invariant.                                                  *)
StoreIsOpen ==
  /\ raw.box # Malformed /\ ~ raw.trailing /\ raw.box.uuid = "c2pa" /\ raw.box.label = {"c2pa"}
  /\ Content \in Seq(ToSet(Content))

Walking ==
  /\ raw \in Payloads /\ phase \in Phases /\ cursor \in Nat \ {0}
  /\ phase # "done" => outcome = "none"
  /\ phase \in {"manifests"} \cup OnManifest \/ Parsed => StoreIsOpen

ManifestsWalked ==
  /\ phase = "store" => manifest = {}
  /\ phase = "manifests" => cursor <= Len(Content) + 1 /\ LatestOf(cursor - 1)
  /\ phase \in OnManifest \/ Parsed => manifest # {} /\ LatestOf(Len(Content))

PartsWalked ==
  /\ phase \in {"store", "manifests"} => parts = <<>>
  /\ phase = "parts" => cursor <= Len(Active.content) + 1 /\ PartsOf(cursor - 1)
  /\ phase \in OnManifest \ {"parts"} \/ Parsed => PartsOf(Len(Active.content))

AssertionsWalked ==
  /\ phase \in Phases \ {"assertions", "done"} => stored = <<>> /\ pending = <<>> /\ decoded = <<>>
  /\ phase = "assertions" =>
       cursor <= Len(AssertionStore) + 1 /\ StoredOf(cursor - 1) /\ DecodedFromStored
  /\ Parsed => StoredOf(Len(AssertionStore)) /\ DecodedFromStored

----------------------------------------------------------------------------
(* Every step is one of these, and only two of them end with a manifest.       *)

LEMMA LabelIsOne ==
  ASSUME NEW b, b # Malformed, IsBox(b), Named(b)
  PROVE  b.label = {LabelOf(b)}
  BY DEF IsBox, Named, LabelOf

LEMMA StoreIsBox ==
  ASSUME Walking, raw.box # Malformed
  PROVE  /\ Content \in Seq(ToSet(Content))
         /\ \A m \in Boxes(Content) : IsBox(m)
         /\ \A m \in Boxes(Content) : m # Malformed =>
              /\ m.content \in Seq(ToSet(m.content))
              /\ \A part \in Boxes(m.content) :
                   /\ IsBox(part)
                   /\ part # Malformed => part.content \in Seq(ToSet(part.content))
                   /\ part # Malformed => \A a \in Boxes(part.content) : IsBox(a)
  BY PayloadsAssumption DEF Walking, IsStore, IsBox, Content

LEMMA BoxIsAmong ==
  ASSUME NEW content, NEW i \in DOMAIN content, IsBoxAt(content, i)
  PROVE  content[i].payload \in Boxes(content)
  BY DEF Boxes, IsBoxAt

(* The contents of one type are contents.                                     *)
LEMMA ContentsAreThere ==
  ASSUME NEW b, NEW tbox, b.content \in Seq(ToSet(b.content))
  PROVE  /\ Contents(b, tbox) \in Seq(ToSet(b.content))
         /\ ToSet(Contents(b, tbox)) \subseteq ToSet(b.content)
<1>. DEFINE c == b.content
            S == ToSet(c)
            pieces == [i \in DOMAIN c |-> IF c[i].tbox = tbox THEN <<c[i]>> ELSE <<>>]
<1>1. DOMAIN c = 1 .. Len(c) /\ Len(c) \in Nat /\ \A i \in DOMAIN c : c[i] \in S
  BY DEF ToSet
<1>. HIDE DEF S, c
<1>2. \A i \in DOMAIN c : (IF c[i].tbox = tbox THEN <<c[i]>> ELSE <<>>) \in Seq(S)
  <2>. TAKE i \in DOMAIN c
  <2>1. c[i] \in S
    BY <1>1
  <2>2. <<c[i]>> \in Seq(S) /\ <<>> \in Seq(S)
    BY <2>1
  <2>3. QED
    BY <2>2
<1>3. pieces \in Seq(Seq(S))
  BY <1>1, <1>2
<1>4. FlattenSeq(pieces) \in Seq(S)
  <2>. HIDE DEF pieces
  <2>1. QED
    BY <1>3, FlattenType
<1>5. Contents(b, tbox) = FlattenSeq(pieces)
  BY DEF Contents, c
<1>6. \A s \in Seq(S) : ToSet(s) \subseteq S
  BY DEF ToSet
<1>7. QED
  BY <1>4, <1>5, <1>6 DEF S, c

----------------------------------------------------------------------------
(* What each step does.                                                      *)

Codes ==
  {Damaged, "general.error", "claim.missing", "claim.multiple", "claim.malformed",
   "claim.cbor.invalid", "claimSignature.missing", "assertion.missing",
   "assertion.json.invalid", "assertion.cbor.invalid"}

Rejects == \E code \in Codes \ {Damaged} : Reject(code)

LEMMA CodesAreNoOutcome == "none" \notin Codes /\ "parsed" \notin Codes /\ Damaged \in Codes
  BY DEF Codes, Damaged

LEMMA OpenStoreStep ==
  ASSUME Walking, OpenStore
  PROVE  /\ phase = "store"
         /\ \/ Rejects
            \/ Reject(Damaged) /\ (raw.trailing \/ raw.box = Malformed \/ raw.box.uuid # "c2pa"
                                     \/ raw.box.label # {"c2pa"})
            \/ StoreIsOpen /\ GoOn("manifests") /\ UNCHANGED walk
<1>1. raw.trailing \in BOOLEAN
  BY PayloadsAssumption DEF Walking
<1>2. CASE raw.box = Malformed \/ raw.trailing
  <2>1. Reject(Damaged)
    BY <1>2, Zenon DEF OpenStore
  <2>2. QED
    BY <1>2, <2>1 DEF OpenStore
<1>3. CASE ~ (raw.box = Malformed \/ raw.trailing)
  <2>1. CASE raw.box.uuid # "c2pa" \/ raw.box.label # {"c2pa"}
    <3>1. Reject(Damaged)
      BY <1>3, <2>1, Zenon DEF OpenStore
    <3>2. QED
      BY <2>1, <3>1 DEF OpenStore
  <2>2. CASE ~ (raw.box.uuid # "c2pa" \/ raw.box.label # {"c2pa"})
    <3>1. IF raw.box.requestable THEN GoOn("manifests") /\ UNCHANGED walk ELSE Reject("general.error")
      BY <1>3, <2>2, Zenon DEF OpenStore
    <3>2. StoreIsOpen
      BY <1>3, <2>2, StoreIsBox DEF StoreIsOpen
    <3>3. "general.error" \in Codes \ {Damaged}
      BY DEF Codes, Damaged
    <3>4. QED
      BY <3>1, <3>2, <3>3, Zenon DEF OpenStore, Rejects
  <2>3. QED
    BY <2>1, <2>2
<1>4. QED
  BY <1>2, <1>3

LEMMA SeekManifestStep ==
  ASSUME Walking, SeekManifest
  PROVE  /\ phase = "manifests" /\ cursor <= Len(Content)
         /\ \/ Rejects
            \/ Reject(Damaged) /\ IsBoxAt(Content, cursor) /\ Content[cursor].payload = Malformed
            \/ /\ IsBoxAt(Content, cursor) /\ Content[cursor].payload # Malformed
               /\ Content[cursor].payload.uuid \in Manifests
               /\ manifest' = {Content[cursor].payload} /\ Advance
               /\ UNCHANGED <<parts, stored, pending, decoded>>
            \/ /\ IsBoxAt(Content, cursor) => /\ Content[cursor].payload # Malformed
                                              /\ Content[cursor].payload.uuid \notin Manifests
               /\ Advance /\ UNCHANGED walk
<1>1. "general.error" \in Codes \ {Damaged}
  BY DEF Codes, Damaged
<1>2. QED
  BY <1>1 DEF SeekManifest, Rejects, LatestManifest, IsBoxAt, Content

LEMMA TakeManifestStep ==
  ASSUME TakeManifest
  PROVE  /\ phase = "manifests" /\ cursor > Len(Content)
         /\ \/ Rejects
            \/ Reject(Damaged) /\ manifest = {}
            \/ manifest # {} /\ GoOn("parts") /\ UNCHANGED walk
<1>1. "general.error" \in Codes \ {Damaged}
  BY DEF Codes, Damaged
<1>2. \/ manifest = {} /\ Reject(Damaged)
      \/ manifest # {} /\ Reject("general.error")
      \/ manifest # {} /\ GoOn("parts") /\ UNCHANGED walk
  <2>1. CASE manifest = {}
    BY <2>1, Zenon DEF TakeManifest
  <2>2. CASE manifest # {} /\ Active.uuid \notin StandardManifests
    BY <2>2, Zenon DEF TakeManifest
  <2>3. CASE manifest # {} /\ Active.uuid \in StandardManifests
    BY <2>3, Zenon DEF TakeManifest
  <2>4. QED
    BY <2>1, <2>2, <2>3
<1>3. QED
  BY <1>1, <1>2 DEF TakeManifest, Rejects, Content

LEMMA CollectPartStep ==
  ASSUME CollectPart
  PROVE  LET part == Active.content[cursor].payload
         IN  /\ phase = "parts" /\ cursor <= Len(Active.content)
             /\ \/ Rejects
                \/ Reject(Damaged) /\ IsBoxAt(Active.content, cursor) /\ part = Malformed
                \/ /\ IsBoxAt(Active.content, cursor) =>
                        part # Malformed /\ Named(part) /\ ~ IsManifestPart(part)
                   /\ Advance /\ UNCHANGED walk
                \/ /\ IsBoxAt(Active.content, cursor)
                   /\ part # Malformed /\ Named(part) /\ IsManifestPart(part)
                   /\ LabelOf(part) \notin DOMAIN parts /\ parts' = With(parts, part)
                   /\ Advance /\ UNCHANGED <<manifest, stored, pending, decoded>>
<1>1. {"general.error", "claim.multiple"} \subseteq Codes \ {Damaged}
  BY DEF Codes, Damaged
<1>2. QED
  BY <1>1 DEF CollectPart, Rejects, Repeats, IsBoxAt

(* TakeClaim, TakeSignature and DecodeClaim change nothing that was found.      *)
Proceeds ==
  \/ phase = "parts" /\ cursor > Len(Active.content) /\ GoOn("signature") /\ UNCHANGED walk
  \/ phase = "signature" /\ GoOn("claim") /\ UNCHANGED walk
  \/ phase = "claim" /\ GoOn("assertions") /\ UNCHANGED walk

LEMMA ProceedStep ==
  ASSUME TakeClaim \/ TakeSignature \/ DecodeClaim,
         \A l \in DOMAIN parts : parts[l].content \in Seq(ToSet(parts[l].content))
  PROVE  Proceeds \/ Rejects
<1>1. {"general.error", "claim.missing", "claim.malformed", "claimSignature.missing",
       "claim.cbor.invalid"} \subseteq Codes \ {Damaged}
  BY DEF Codes, Damaged
<1>. DEFINE count(l) == Len(Contents(parts[l], "cbor"))
<1>2. ASSUME NEW l \in DOMAIN parts
      PROVE  count(l) = 0 \/ count(l) > 1 \/ count(l) = 1
  <2>1. count(l) \in Nat
    BY ContentsAreThere
  <2>. HIDE DEF count
  <2>2. QED
    BY <2>1
<1>3. CASE TakeClaim
  <2>1. CASE "c2pa.claim.v2" \notin DOMAIN parts
    BY <1>1, <1>3, <2>1, Zenon DEF TakeClaim, Rejects
  <2>2. CASE "c2pa.claim.v2" \in DOMAIN parts
    <3>. DEFINE n == count("c2pa.claim.v2")
    <3>1. n = 0 \/ n > 1 \/ n = 1
      BY <1>2, <2>2
    <3>3. \/ Reject("claim.missing")
          \/ Reject("claim.malformed")
          \/ GoOn("signature") /\ UNCHANGED walk
      <4>1. (CASE n = 0 -> Reject("claim.missing")
               [] n > 1 -> Reject("claim.malformed")
               [] n = 1 -> GoOn("signature") /\ UNCHANGED walk)
        BY <1>3, <2>2, Zenon DEF TakeClaim
      <4>. HIDE DEF n
      <4>2. QED
        BY <3>1, <4>1, Zenon
    <3>4. QED
      BY <1>1, <1>3, <3>3 DEF TakeClaim, Rejects, Proceeds
  <2>3. QED
    BY <2>1, <2>2
<1>4. CASE TakeSignature
  <2>1. CASE "c2pa.signature" \notin DOMAIN parts
    BY <1>1, <1>4, <2>1, Zenon DEF TakeSignature, Rejects
  <2>2. CASE "c2pa.signature" \in DOMAIN parts
    <3>. DEFINE n == count("c2pa.signature")
    <3>1. n = 0 \/ n > 1 \/ n = 1
      BY <1>2, <2>2
    <3>3. \/ Reject("claimSignature.missing")
          \/ Reject("general.error")
          \/ GoOn("claim") /\ UNCHANGED walk
      <4>1. (CASE n = 0 -> Reject("claimSignature.missing")
               [] n > 1 -> Reject("general.error")
               [] n = 1 -> GoOn("claim") /\ UNCHANGED walk)
        BY <1>4, <2>2, Zenon DEF TakeSignature
      <4>. HIDE DEF n
      <4>2. QED
        BY <3>1, <4>1, Zenon
    <3>4. QED
      BY <1>1, <1>4, <3>3 DEF TakeSignature, Rejects, Proceeds
  <2>3. QED
    BY <2>1, <2>2
<1>5. CASE DecodeClaim
  BY <1>1, <1>5 DEF DecodeClaim, Rejects, Proceeds, ClaimCode
<1>6. QED
  BY <1>3, <1>4, <1>5

LEMMA CollectAssertionStep ==
  ASSUME CollectAssertion
  PROVE  LET box == AssertionStore[cursor].payload
         IN  /\ phase = "assertions" /\ cursor <= Len(AssertionStore)
             /\ \/ Rejects
                \/ Reject(Damaged) /\ IsBoxAt(AssertionStore, cursor) /\ box = Malformed
                \/ ~ IsBoxAt(AssertionStore, cursor) /\ Advance /\ UNCHANGED walk
                \/ /\ IsBoxAt(AssertionStore, cursor) /\ box # Malformed /\ Named(box)
                   /\ LabelOf(box) \notin DOMAIN stored /\ stored' = With(stored, box)
                   /\ pending' = Append(pending, LabelOf(box))
                   /\ Advance /\ UNCHANGED <<manifest, parts, decoded>>
<1>1. {"general.error", "assertion.missing"} \subseteq Codes \ {Damaged}
  BY DEF Codes, Damaged
<1>2. QED
  BY <1>1 DEF CollectAssertion, Rejects, Repeats, IsBoxAt

LEMMA DecodeAssertionStep ==
  ASSUME DecodeAssertion, pending \in Seq(DOMAIN stored),
         \A l \in DOMAIN stored : stored[l].content \in Seq(ToSet(stored[l].content))
  PROVE  /\ phase = "assertions" /\ cursor > Len(AssertionStore) /\ pending # <<>>
         /\ \/ Rejects
            \/ Undecoded
            \/ \E value \in {c.payload : c \in ToSet(stored[Head(pending)].content)} : Decoding(value)
<1>. DEFINE b == stored[Head(pending)]
            cbor == Contents(b, "cbor")
<1>1. {"assertion.json.invalid", "assertion.cbor.invalid"} \subseteq Codes \ {Damaged}
  BY DEF Codes, Damaged
<1>2. pending # <<>> /\ Head(pending) \in DOMAIN stored
  <2>1. pending # <<>>
    BY DEF DecodeAssertion
  <2>2. QED
    BY <2>1
<1>3. b.content \in Seq(ToSet(b.content)) /\ cbor \in Seq(ToSet(b.content))
  BY <1>2, ContentsAreThere
<1>4. /\ IsSingleJson(b) => b.content[1].payload \in {c.payload : c \in ToSet(b.content)}
      /\ cbor # <<>> => cbor[1].payload \in {c.payload : c \in ToSet(b.content)}
  <2>1. IsSingleJson(b) => b.content[1] \in ToSet(b.content)
    BY <1>3 DEF IsSingleJson
  <2>. HIDE DEF cbor, b
  <2>2. cbor # <<>> => cbor[1] \in ToSet(b.content)
    BY <1>3
  <2>3. QED
    BY <2>1, <2>2
<1>5. \/ Reject("assertion.json.invalid") \/ Reject("assertion.cbor.invalid") \/ Undecoded
      \/ IsSingleJson(b) /\ Decoding(b.content[1].payload)
      \/ cbor # <<>> /\ Decoding(cbor[1].payload)
  <2>1. CASE Head(pending) \in JsonLabels /\ ~ IsSingleJson(b)
    BY <2>1, Zenon DEF DecodeAssertion
  <2>2. CASE Head(pending) \in JsonLabels /\ IsSingleJson(b)
    BY <2>2, Zenon DEF DecodeAssertion
  <2>3. CASE Head(pending) \notin JsonLabels
    BY <2>3, Zenon DEF DecodeAssertion
  <2>4. QED
    BY <2>1, <2>2, <2>3
<1>6. phase = "assertions" /\ cursor > Len(AssertionStore)
  BY DEF DecodeAssertion
<1>. HIDE DEF b, cbor
<1>7. \/ Rejects \/ Undecoded
      \/ \E value \in {c.payload : c \in ToSet(b.content)} : Decoding(value)
  BY <1>1, <1>4, <1>5, Zenon DEF Rejects
<1>8. QED
  BY <1>2, <1>6, <1>7 DEF b

----------------------------------------------------------------------------
(* The invariant is inductive.                                               *)

IInv == Walking /\ ManifestsWalked /\ PartsWalked /\ AssertionsWalked /\ DamageMeansDamage

LEMMA RejectKeeps ==
  ASSUME IInv, phase # "done",
         Rejects \/ (Reject(Damaged) /\ (raw.trailing \/ ~ Whole(raw.box)))
  PROVE  IInv'
<1>1. PICK code \in Codes : Reject(code) /\ (code = Damaged => raw.trailing \/ ~ Whole(raw.box))
  BY CodesAreNoOutcome DEF Rejects
<1>2. phase' = "done" /\ outcome' = code /\ raw' = raw /\ cursor' = cursor /\ ~ Parsed'
  BY <1>1, CodesAreNoOutcome DEF Reject, Parsed
<1>3. Walking'
  BY <1>2 DEF IInv, Walking, Phases, OnManifest
<1>4. ManifestsWalked' /\ PartsWalked' /\ AssertionsWalked'
  BY <1>2 DEF ManifestsWalked, PartsWalked, AssertionsWalked, OnManifest, Phases
<1>5. DamageMeansDamage'
  BY <1>1, <1>2 DEF DamageMeansDamage
<1>6. QED
  BY <1>3, <1>4, <1>5 DEF IInv

LEMMA NotYet ==
  ASSUME IInv, phase # "done"
  PROVE  outcome = "none" /\ ~ Parsed /\ outcome # Damaged
  BY DEF IInv, Walking, Parsed, Damaged

LEMMA SameWalk ==
  ASSUME UNCHANGED <<raw, walk>>
  PROVE  /\ Content' = Content /\ Active' = Active /\ AssertionStore' = AssertionStore
         /\ \A n : /\ LatestOf(n)' <=> LatestOf(n)
                   /\ PartsOf(n)' <=> PartsOf(n)
                   /\ StoredOf(n)' <=> StoredOf(n)
         /\ DecodedFromStored' <=> DecodedFromStored
         /\ StoreIsOpen' <=> StoreIsOpen
<1>1. Content' = Content /\ Active' = Active /\ AssertionStore' = AssertionStore
  BY DEF Content, Active, AssertionStore, walk
<1>2. \A n : LatestOf(n)' <=> LatestOf(n)
  BY <1>1 DEF LatestOf, NoManifestAmong, walk
<1>3. \A n : PartsOf(n)' <=> PartsOf(n)
  BY <1>1 DEF PartsOf, Known, walk
<1>4. \A n : StoredOf(n)' <=> StoredOf(n)
  BY <1>1 DEF StoredOf, Found, walk
<1>5. DecodedFromStored' <=> DecodedFromStored
  BY DEF DecodedFromStored, walk
<1>6. StoreIsOpen' <=> StoreIsOpen
  BY <1>1 DEF StoreIsOpen
<1>7. QED
  BY <1>1, <1>2, <1>3, <1>4, <1>5, <1>6

LEMMA OpenStoreKeeps ==
  ASSUME IInv, OpenStore
  PROVE  IInv'
<1>1. Walking /\ phase = "store"
  BY OpenStoreStep DEF IInv
<1>2. CASE Rejects
  BY <1>1, <1>2, RejectKeeps
<1>3. CASE Reject(Damaged) /\ (raw.trailing \/ raw.box = Malformed \/ raw.box.uuid # "c2pa"
                                 \/ raw.box.label # {"c2pa"})
  BY <1>1, <1>3, RejectKeeps DEF Whole
<1>4. CASE StoreIsOpen /\ GoOn("manifests") /\ UNCHANGED walk
  <2>1. /\ phase' = "manifests" /\ cursor' = 1 /\ raw' = raw /\ outcome' = outcome
        /\ UNCHANGED <<raw, walk>> /\ UNCHANGED <<manifest, parts, stored, pending, decoded>>
    BY <1>4 DEF GoOn, walk
  <2>2. outcome = "none" /\ ~ Parsed /\ ~ Parsed'
    BY <1>1, <2>1, NotYet DEF Parsed
  <2>3. StoreIsOpen' /\ Content' = Content /\ Len(Content) \in Nat
    BY <1>4, <2>1, SameWalk DEF StoreIsOpen
  <2>4. Walking'
    BY <1>1, <2>1, <2>2, <2>3 DEF Walking, Phases, OnManifest
  <2>5. ManifestsWalked'
    <3>1. manifest' = {} /\ 1 - 1 = 0
      BY <1>1, <2>1 DEF IInv, ManifestsWalked
    <3>2. LatestOf(0)'
      BY <3>1 DEF LatestOf, NoManifestAmong
    <3>3. QED
      BY <2>1, <2>2, <2>3, <3>1, <3>2 DEF ManifestsWalked, OnManifest
  <2>6. PartsWalked' /\ AssertionsWalked'
    BY <1>1, <2>1, <2>2 DEF IInv, PartsWalked, AssertionsWalked, OnManifest, Phases
  <2>7. DamageMeansDamage'
    BY <2>1, <2>2 DEF DamageMeansDamage, Damaged
  <2>8. QED
    BY <2>4, <2>5, <2>6, <2>7 DEF IInv
<1>5. QED
  BY <1>1, <1>2, <1>3, <1>4, OpenStoreStep

LEMMA SeekManifestKeeps ==
  ASSUME IInv, SeekManifest
  PROVE  IInv'
<1>1. /\ Walking /\ phase = "manifests" /\ cursor <= Len(Content)
      /\ StoreIsOpen /\ LatestOf(cursor - 1) /\ cursor \in Nat \ {0}
  <2>1. Walking /\ phase = "manifests" /\ cursor <= Len(Content)
    BY SeekManifestStep DEF IInv
  <2>2. QED
    BY <2>1 DEF IInv, Walking, ManifestsWalked
<1>2. DOMAIN Content = 1 .. Len(Content) /\ Len(Content) \in Nat /\ cursor \in DOMAIN Content
  BY <1>1 DEF StoreIsOpen
<1>3. CASE Rejects
  BY <1>1, <1>3, RejectKeeps
<1>4. CASE Reject(Damaged) /\ IsBoxAt(Content, cursor) /\ Content[cursor].payload = Malformed
  <2>1. Malformed \in Boxes(Content)
    BY <1>2, <1>4, BoxIsAmong
  <2>2. ~ Whole(raw.box)
    BY <2>1 DEF Whole, Content
  <2>3. QED
    BY <1>1, <1>4, <2>2, RejectKeeps
<1>5. CASE \/ /\ IsBoxAt(Content, cursor) /\ Content[cursor].payload # Malformed
              /\ Content[cursor].payload.uuid \in Manifests
              /\ manifest' = {Content[cursor].payload} /\ Advance
              /\ UNCHANGED <<parts, stored, pending, decoded>>
           \/ /\ IsBoxAt(Content, cursor) => /\ Content[cursor].payload # Malformed
                                             /\ Content[cursor].payload.uuid \notin Manifests
              /\ Advance /\ UNCHANGED walk
  <2>1. /\ cursor' = cursor + 1 /\ phase' = phase /\ raw' = raw /\ outcome' = outcome
        /\ UNCHANGED <<parts, stored, pending, decoded>>
    BY <1>5 DEF Advance, walk
  <2>2. outcome = "none" /\ ~ Parsed /\ ~ Parsed'
    BY <1>1, <2>1, NotYet DEF Parsed
  <2>3. StoreIsOpen' /\ Content' = Content
    BY <1>1, <2>1 DEF StoreIsOpen, Content
  <2>4. Walking'
    BY <1>1, <2>1, <2>2, <2>3 DEF Walking, Phases, OnManifest
  <2>5. \A n \in Nat : n = cursor => LatestOf(n)'
    <3>. SUFFICES ASSUME NEW n \in Nat, n = cursor
                  PROVE  LatestOf(n)'
      OBVIOUS
    <3>1. CASE IsBoxAt(Content, n) /\ Content[n].payload # Malformed
                 /\ Content[n].payload.uuid \in Manifests /\ manifest' = {Content[n].payload}
      <4>1. n \in 1 .. n /\ \A j \in n + 1 .. n : FALSE
        BY <1>1
      <4>2. QED
        BY <2>3, <3>1, <4>1 DEF LatestOf, NoManifestAmong
    <3>2. CASE /\ IsBoxAt(Content, n) => /\ Content[n].payload # Malformed
                                         /\ Content[n].payload.uuid \notin Manifests
               /\ manifest' = manifest
      <4>1. \A i \in 1 .. n : NoManifestAmong(i, n - 1) => NoManifestAmong(i, n)'
        BY <1>1, <2>3, <3>2 DEF NoManifestAmong
      <4>2. LatestOf(n - 1)
        BY <1>1
      <4>3. CASE manifest = {} /\ NoManifestAmong(1, n - 1)
        BY <1>1, <3>2, <4>1, <4>3 DEF LatestOf
      <4>4. CASE \E i \in 1 .. n - 1 :
                   /\ IsBoxAt(Content, i) /\ Content[i].payload # Malformed
                   /\ Content[i].payload.uuid \in Manifests /\ manifest = {Content[i].payload}
                   /\ NoManifestAmong(i + 1, n - 1)
        <5>1. PICK i \in 1 .. n - 1 :
                   /\ IsBoxAt(Content, i) /\ Content[i].payload # Malformed
                   /\ Content[i].payload.uuid \in Manifests /\ manifest = {Content[i].payload}
                   /\ NoManifestAmong(i + 1, n - 1)
          BY <4>4
        <5>2. i + 1 \in 1 .. n /\ i \in 1 .. n
          BY <1>1
        <5>3. NoManifestAmong(i + 1, n)'
          BY <4>1, <5>1, <5>2
        <5>4. QED
          BY <2>3, <3>2, <5>1, <5>2, <5>3 DEF LatestOf
      <4>5. QED
        BY <4>2, <4>3, <4>4 DEF LatestOf
    <3>3. QED
      BY <1>5, <3>1, <3>2 DEF walk
  <2>6. ManifestsWalked'
    <3>1. cursor' - 1 = cursor /\ cursor' <= Len(Content) + 1 /\ cursor \in Nat
      BY <1>1, <1>2, <2>1
    <3>2. PICK n \in Nat : n = cursor
      BY <3>1
    <3>3. LatestOf(n)' /\ n = cursor' - 1
      BY <2>5, <3>1, <3>2
    <3>4. LatestOf(cursor - 1)'
      BY <3>3
    <3>5. QED
      BY <1>1, <2>1, <2>2, <2>3, <3>1, <3>4 DEF ManifestsWalked, OnManifest
  <2>7. PartsWalked' /\ AssertionsWalked'
    BY <1>1, <2>1, <2>2 DEF IInv, PartsWalked, AssertionsWalked, OnManifest, Phases
  <2>8. DamageMeansDamage'
    BY <2>1, <2>2 DEF DamageMeansDamage, Damaged
  <2>9. QED
    BY <2>4, <2>6, <2>7, <2>8 DEF IInv
<1>6. QED
  BY <1>1, <1>3, <1>4, <1>5, SeekManifestStep

LEMMA ActiveIsThere ==
  ASSUME IInv, phase \in OnManifest \/ Parsed
  PROVE  /\ Active \in Boxes(Content) /\ Active # Malformed /\ Active.uuid \in Manifests
         /\ Active.content \in Seq(ToSet(Active.content))
         /\ \A part \in Boxes(Active.content) :
              /\ IsBox(part)
              /\ part # Malformed => /\ part.content \in Seq(ToSet(part.content))
                                     /\ \A a \in Boxes(part.content) : IsBox(a)
<1>1. /\ Walking /\ StoreIsOpen /\ manifest # {} /\ LatestOf(Len(Content))
  BY DEF IInv, Walking, ManifestsWalked
<1>2. PICK i \in 1 .. Len(Content) :
        /\ IsBoxAt(Content, i) /\ Content[i].payload # Malformed
        /\ Content[i].payload.uuid \in Manifests /\ manifest = {Content[i].payload}
  BY <1>1 DEF LatestOf
<1>3. Active = Content[i].payload
  BY <1>2 DEF Active
<1>4. i \in DOMAIN Content
  BY <1>1 DEF StoreIsOpen
<1>5. Active \in Boxes(Content)
  BY <1>2, <1>3, <1>4, BoxIsAmong
<1>6. Active # Malformed /\ raw.box # Malformed
  BY <1>1, <1>2, <1>3 DEF StoreIsOpen
<1>7. QED
  BY <1>1, <1>2, <1>3, <1>5, <1>6, StoreIsBox

LEMMA TakeManifestKeeps ==
  ASSUME IInv, TakeManifest
  PROVE  IInv'
<1>1. /\ Walking /\ phase = "manifests" /\ cursor > Len(Content) /\ StoreIsOpen
      /\ cursor <= Len(Content) + 1 /\ LatestOf(cursor - 1) /\ cursor \in Nat \ {0}
  BY TakeManifestStep DEF IInv, Walking, ManifestsWalked
<1>2. Len(Content) \in Nat /\ DOMAIN Content = 1 .. Len(Content) /\ cursor - 1 = Len(Content)
  BY <1>1 DEF StoreIsOpen
<1>3. CASE Rejects
  BY <1>1, <1>3, RejectKeeps
<1>4. CASE Reject(Damaged) /\ manifest = {}
  <2>1. NoManifestAmong(1, Len(Content))
    BY <1>1, <1>2, <1>4 DEF LatestOf
  <2>2. ~ \E m \in Boxes(Content) : m # Malformed /\ m.uuid \in Manifests
    BY <1>2, <2>1 DEF NoManifestAmong, Boxes, IsBoxAt
  <2>3. ~ Whole(raw.box)
    BY <2>2 DEF Whole, Content
  <2>4. QED
    BY <1>1, <1>4, <2>3, RejectKeeps
<1>5. CASE manifest # {} /\ GoOn("parts") /\ UNCHANGED walk
  <2>1. /\ phase' = "parts" /\ cursor' = 1 /\ raw' = raw /\ outcome' = outcome
        /\ UNCHANGED <<raw, walk>> /\ UNCHANGED <<manifest, parts, stored, pending, decoded>>
    BY <1>5 DEF GoOn, walk
  <2>2. outcome = "none" /\ ~ Parsed /\ ~ Parsed'
    BY <1>1, <2>1, NotYet DEF Parsed
  <2>3. Walking'
    BY <1>1, <2>1, <2>2, SameWalk DEF Walking, Phases, OnManifest
  <2>4. ManifestsWalked'
    <3>1. LatestOf(Len(Content))
      BY <1>1, <1>2
    <3>2. LatestOf(Len(Content))'
      <4>1. PICK n : n = Len(Content)
        OBVIOUS
      <4>2. LatestOf(n)' /\ n = Len(Content)'
        BY <2>1, <3>1, <4>1, SameWalk
      <4>3. QED
        BY <4>2
    <3>3. QED
      BY <1>5, <2>1, <2>2, <3>2 DEF ManifestsWalked, OnManifest
  <2>5. PartsWalked'
    <3>1. parts' = <<>>
      BY <1>1, <2>1 DEF IInv, PartsWalked
    <3>2. PartsOf(0)'
      BY <3>1 DEF PartsOf, Known
    <3>3. Len(Active'.content) \in Nat
      <4>1. manifest' # {} /\ Walking' /\ ManifestsWalked' /\ phase' \in OnManifest
        BY <1>5, <2>1, <2>3, <2>4 DEF OnManifest
      <4>2. StoreIsOpen' /\ LatestOf(Len(Content))'
        BY <4>1 DEF Walking, ManifestsWalked
      <4>3. PICK i \in 1 .. Len(Content) : IsBoxAt(Content, i) /\ Content[i].payload # Malformed
                                             /\ manifest = {Content[i].payload}
        BY <1>1, <1>2, <1>5 DEF LatestOf
      <4>4. Active = Content[i].payload
        BY <4>3 DEF Active
      <4>5. Content[i].payload \in Boxes(Content) /\ raw.box # Malformed
        BY <1>1, <1>2, <4>3, BoxIsAmong DEF StoreIsOpen
      <4>6. Active.content \in Seq(ToSet(Active.content))
        BY <1>1, <4>3, <4>4, <4>5, StoreIsBox
      <4>7. Active' = Active
        BY <2>1, SameWalk
      <4>8. QED
        BY <4>6, <4>7
    <3>4. QED
      BY <2>1, <2>2, <3>2, <3>3 DEF PartsWalked, OnManifest
  <2>6. AssertionsWalked'
    BY <1>1, <2>1, <2>2 DEF IInv, AssertionsWalked, OnManifest, Phases
  <2>7. DamageMeansDamage'
    BY <2>1, <2>2 DEF DamageMeansDamage, Damaged
  <2>8. QED
    BY <2>3, <2>4, <2>5, <2>6, <2>7 DEF IInv
<1>6. QED
  BY <1>1, <1>3, <1>4, <1>5, TakeManifestStep

LEMMA DamagedPart ==
  ASSUME IInv, phase \in OnManifest \/ Parsed, Malformed \in Boxes(Active.content)
  PROVE  ~ Whole(raw.box)
  BY ActiveIsThere DEF Whole, Content

(* One more child of the manifest.                                           *)
LEMMA PartsGrow ==
  ASSUME NEW n \in Nat, PartsOf(n), raw' = raw, manifest' = manifest,
         NEW part, part = Active.content[n + 1].payload,
         \/ /\ IsBoxAt(Active.content, n + 1) =>
                 part # Malformed /\ part.label = {LabelOf(part)} /\ ~ IsManifestPart(part)
            /\ parts' = parts
         \/ /\ IsBoxAt(Active.content, n + 1) /\ part # Malformed /\ part.label = {LabelOf(part)}
            /\ IsManifestPart(part) /\ LabelOf(part) \notin DOMAIN parts /\ parts' = With(parts, part)
  PROVE  PartsOf(n + 1)'
<1>1. Active' = Active
  BY DEF Active
<1>2. ASSUME NEW l \in DOMAIN PartUuid
      PROVE  Known(l, n + 1) = Known(l, n) \cup
               (IF IsBoxAt(Active.content, n + 1) /\ part.label = {l} /\ part.uuid = PartUuid[l]
                THEN {n + 1} ELSE {})
  <2>1. 1 .. n + 1 = (1 .. n) \cup {n + 1}
    OBVIOUS
  <2>2. QED
    BY <2>1 DEF Known
<1>3. \A l : Known(l, n + 1)' = Known(l, n + 1)
  BY <1>1 DEF Known
<1>4. \A i \in 1 .. n + 1 : IsBoxAt(Active.content, i)' => Active'.content[i].payload # Malformed
  <2>. TAKE i \in 1 .. n + 1
  <2>1. CASE i = n + 1
    BY <1>1, <2>1 DEF IsBoxAt
  <2>2. CASE i # n + 1
    <3>1. i \in 1 .. n
      BY <2>2
    <3>2. QED
      BY <1>1, <3>1 DEF PartsOf, IsBoxAt
  <2>3. QED
    BY <2>1, <2>2
<1>5. CASE /\ IsBoxAt(Active.content, n + 1) =>
                 part # Malformed /\ part.label = {LabelOf(part)} /\ ~ IsManifestPart(part)
           /\ parts' = parts
  <2>1. \A l \in DOMAIN PartUuid : Known(l, n + 1) = Known(l, n)
    <3>. TAKE l \in DOMAIN PartUuid
    <3>1. ~ (IsBoxAt(Active.content, n + 1) /\ part.label = {l} /\ part.uuid = PartUuid[l])
      <4>1. SUFFICES ASSUME IsBoxAt(Active.content, n + 1), part.label = {l}, part.uuid = PartUuid[l]
                     PROVE  FALSE
        OBVIOUS
      <4>2. LabelOf(part) = l
        BY <1>5, <4>1
      <4>3. QED
        BY <1>5, <4>1, <4>2 DEF IsManifestPart
    <3>2. QED
      BY <1>2, <3>1
  <2>2. QED
    BY <1>1, <1>3, <1>4, <1>5, <2>1 DEF PartsOf
<1>6. CASE /\ IsBoxAt(Active.content, n + 1) /\ part # Malformed /\ part.label = {LabelOf(part)}
           /\ IsManifestPart(part) /\ LabelOf(part) \notin DOMAIN parts /\ parts' = With(parts, part)
  <2>. DEFINE k == LabelOf(part)
  <2>1. k \in DOMAIN PartUuid /\ PartUuid[k] = part.uuid /\ part.label = {k} /\ k \notin DOMAIN parts
    BY <1>6 DEF IsManifestPart
  <2>2. /\ DOMAIN parts' = DOMAIN parts \cup {k} /\ parts'[k] = part
        /\ \A l \in DOMAIN parts : l # k => parts'[l] = parts[l]
    BY <1>6 DEF With
  <2>. HIDE DEF k
  <2>3. Known(k, n) = {} /\ Known(k, n + 1) = {n + 1}
    <3>1. Known(k, n) = {}
      BY <2>1 DEF PartsOf
    <3>2. QED
      BY <1>2, <1>6, <2>1, <3>1
  <2>4. \A l \in DOMAIN PartUuid : l # k => Known(l, n + 1) = Known(l, n)
    <3>. TAKE l \in DOMAIN PartUuid
    <3>. HAVE l # k
    <3>1. part.label # {l}
      BY <2>1
    <3>2. QED
      BY <1>2, <3>1
  <2>5. ASSUME NEW l \in DOMAIN PartUuid
        PROVE  /\ \A i, j \in Known(l, n + 1) : i = j
               /\ l \in DOMAIN parts' <=> Known(l, n + 1) # {}
               /\ \A i \in Known(l, n + 1) : parts'[l] = Active.content[i].payload
    <3>1. CASE l = k
      BY <2>2, <2>3, <3>1
    <3>2. CASE l # k
      <4>1. /\ \A i, j \in Known(l, n) : i = j
            /\ l \in DOMAIN parts <=> Known(l, n) # {}
            /\ \A i \in Known(l, n) : parts[l] = Active.content[i].payload
        BY DEF PartsOf
      <4>2. Known(l, n + 1) = Known(l, n)
        BY <2>4, <3>2
      <4>3. \A i \in Known(l, n) : parts'[l] = Active.content[i].payload
        BY <2>2, <3>2, <4>1
      <4>4. l \in DOMAIN parts' <=> l \in DOMAIN parts
        BY <2>2, <3>2
      <4>5. QED
        BY <4>1, <4>2, <4>3, <4>4
    <3>3. QED
      BY <3>1, <3>2
  <2>6. DOMAIN parts' \subseteq DOMAIN PartUuid
    BY <2>1, <2>2 DEF PartsOf
  <2>7. QED
    BY <1>1, <1>3, <1>4, <2>5, <2>6 DEF PartsOf
<1>7. QED
  BY <1>5, <1>6

LEMMA CollectPartKeeps ==
  ASSUME IInv, CollectPart
  PROVE  IInv'
<1>. DEFINE part == Active.content[cursor].payload
<1>1. /\ Walking /\ phase = "parts" /\ cursor <= Len(Active.content)
      /\ PartsOf(cursor - 1) /\ cursor \in Nat \ {0}
  BY CollectPartStep DEF IInv, Walking, PartsWalked
<1>2. /\ DOMAIN Active.content = 1 .. Len(Active.content) /\ Len(Active.content) \in Nat
      /\ cursor \in DOMAIN Active.content /\ phase \in OnManifest
      /\ \A p \in Boxes(Active.content) : IsBox(p)
  BY <1>1, ActiveIsThere DEF OnManifest
<1>3. CASE Rejects
  BY <1>1, <1>3, RejectKeeps
<1>4. CASE Reject(Damaged) /\ IsBoxAt(Active.content, cursor) /\ part = Malformed
  <2>1. Malformed \in Boxes(Active.content)
    BY <1>2, <1>4, BoxIsAmong
  <2>2. QED
    BY <1>1, <1>2, <1>4, <2>1, DamagedPart, RejectKeeps
<1>5. CASE \/ /\ IsBoxAt(Active.content, cursor) =>
                   part # Malformed /\ Named(part) /\ ~ IsManifestPart(part)
              /\ Advance /\ UNCHANGED walk
           \/ /\ IsBoxAt(Active.content, cursor)
              /\ part # Malformed /\ Named(part) /\ IsManifestPart(part)
              /\ LabelOf(part) \notin DOMAIN parts /\ parts' = With(parts, part)
              /\ Advance /\ UNCHANGED <<manifest, stored, pending, decoded>>
  <2>1. /\ cursor' = cursor + 1 /\ phase' = phase /\ raw' = raw /\ outcome' = outcome
        /\ UNCHANGED <<manifest, stored, pending, decoded>>
    BY <1>5 DEF Advance, walk
  <2>2. outcome = "none" /\ ~ Parsed /\ ~ Parsed'
    BY <1>1, <2>1, NotYet DEF Parsed
  <2>3. StoreIsOpen' /\ Content' = Content /\ Active' = Active
    BY <1>1, <1>2, <2>1 DEF StoreIsOpen, Content, Active, Walking
  <2>4. Walking'
    BY <1>1, <2>1, <2>2, <2>3 DEF Walking, Phases, OnManifest
  <2>5. ManifestsWalked'
    <3>1. LatestOf(Len(Content)) /\ manifest # {}
      BY <1>2 DEF IInv, ManifestsWalked
    <3>2. LatestOf(Len(Content))'
      BY <2>1, <2>3, <3>1 DEF LatestOf, NoManifestAmong
    <3>3. QED
      BY <1>1, <2>1, <2>2, <3>1, <3>2 DEF ManifestsWalked, OnManifest
  <2>6. PartsWalked'
    <3>1. PICK n \in Nat : n = cursor - 1
      BY <1>1
    <3>2. n + 1 = cursor /\ PartsOf(n)
      BY <1>1, <3>1
    <3>3. IsBoxAt(Active.content, cursor) /\ part # Malformed /\ Named(part) =>
            part.label = {LabelOf(part)}
      BY <1>2, BoxIsAmong, LabelIsOne
    <3>4. PartsOf(n + 1)'
      <4>1. part = Active.content[n + 1].payload
        BY <3>2
      <4>2. \/ /\ IsBoxAt(Active.content, n + 1) =>
                 part # Malformed /\ part.label = {LabelOf(part)} /\ ~ IsManifestPart(part)
               /\ parts' = parts
            \/ /\ IsBoxAt(Active.content, n + 1) /\ part # Malformed /\ part.label = {LabelOf(part)}
               /\ IsManifestPart(part) /\ LabelOf(part) \notin DOMAIN parts /\ parts' = With(parts, part)
        BY <1>5, <3>2, <3>3 DEF walk
      <4>. HIDE DEF part
      <4>3. QED
        BY <2>1, <3>2, <4>1, <4>2, PartsGrow
    <3>5. n + 1 = cursor' - 1 /\ cursor' <= Len(Active.content) + 1
      BY <1>1, <1>2, <2>1, <3>2
    <3>6. PartsOf(cursor - 1)'
      BY <3>4, <3>5
    <3>7. QED
      BY <1>1, <2>1, <2>2, <2>3, <3>5, <3>6 DEF PartsWalked, OnManifest
  <2>7. AssertionsWalked'
    BY <1>1, <2>1, <2>2 DEF IInv, AssertionsWalked, OnManifest, Phases
  <2>8. DamageMeansDamage'
    BY <2>1, <2>2 DEF DamageMeansDamage, Damaged
  <2>9. QED
    BY <2>4, <2>5, <2>6, <2>7, <2>8 DEF IInv
<1>6. QED
  BY <1>1, <1>3, <1>4, <1>5, CollectPartStep

LEMMA PartIsThere ==
  ASSUME IInv, phase \in OnManifest \/ Parsed, NEW n \in 0 .. Len(Active.content), PartsOf(n),
         NEW l \in DOMAIN parts
  PROVE  /\ parts[l] \in Boxes(Active.content) /\ parts[l] # Malformed
         /\ l \in DOMAIN PartUuid /\ parts[l].uuid = PartUuid[l]
         /\ parts[l].content \in Seq(ToSet(parts[l].content))
         /\ \A a \in Boxes(parts[l].content) : IsBox(a)
<1>1. l \in DOMAIN PartUuid /\ Known(l, n) # {}
  BY DEF PartsOf
<1>2. PICK i \in Known(l, n) : parts[l] = Active.content[i].payload
  BY <1>1 DEF PartsOf
<1>3. /\ i \in 1 .. n /\ IsBoxAt(Active.content, i) /\ Active.content[i].payload.uuid = PartUuid[l]
      /\ Active.content[i].payload # Malformed
  BY DEF Known, PartsOf
<1>4. i \in DOMAIN Active.content
  BY <1>3, ActiveIsThere
<1>5. parts[l] \in Boxes(Active.content) /\ parts[l] # Malformed
  BY <1>2, <1>3, <1>4, BoxIsAmong
<1>6. QED
  BY <1>1, <1>2, <1>3, <1>5, ActiveIsThere

LEMMA ProceedKeeps ==
  ASSUME IInv, TakeClaim \/ TakeSignature \/ DecodeClaim
  PROVE  IInv'
<1>1. phase \in {"parts", "signature", "claim"}
  BY DEF TakeClaim, TakeSignature, DecodeClaim
<1>2. /\ Walking /\ cursor \in Nat \ {0} /\ phase \in OnManifest
      /\ Active.content \in Seq(ToSet(Active.content)) /\ Len(Active.content) \in Nat
  BY <1>1, ActiveIsThere DEF IInv, Walking, OnManifest
<1>3. phase = "parts" => cursor - 1 \in 0 .. Len(Active.content) /\ PartsOf(cursor - 1)
  BY <1>2 DEF IInv, PartsWalked
<1>4. phase # "parts" => PartsOf(Len(Active.content))
  BY <1>1 DEF IInv, PartsWalked, OnManifest
<1>5. \A l \in DOMAIN parts : parts[l].content \in Seq(ToSet(parts[l].content))
  BY <1>2, <1>3, <1>4, PartIsThere
<1>6. CASE Rejects
  BY <1>1, <1>6, RejectKeeps
<1>7. CASE Proceeds
  <2>1. PartsOf(Len(Active.content))
    <3>1. phase = "parts" => cursor - 1 = Len(Active.content)
      BY <1>2, <1>3, <1>7 DEF Proceeds
    <3>2. QED
      BY <1>3, <1>4, <3>1
  <2>2. /\ phase' \in {"signature", "claim", "assertions"} /\ cursor' = 1 /\ outcome' = outcome
        /\ UNCHANGED <<raw, walk>> /\ UNCHANGED <<raw, manifest, parts, stored, pending, decoded>>
    BY <1>7 DEF Proceeds, GoOn, walk
  <2>3. outcome = "none" /\ ~ Parsed /\ ~ Parsed'
    BY <1>1, <2>2, NotYet DEF Parsed
  <2>4. Walking'
    BY <1>2, <2>2, <2>3, SameWalk DEF Walking, Phases, OnManifest
  <2>5. ManifestsWalked'
    <3>1. LatestOf(Len(Content)) /\ manifest # {}
      BY <1>2 DEF IInv, ManifestsWalked
    <3>2. LatestOf(Len(Content))'
      BY <2>2, <3>1, SameWalk DEF LatestOf, NoManifestAmong
    <3>3. QED
      BY <2>2, <2>3, <3>1, <3>2 DEF ManifestsWalked, OnManifest
  <2>6. PartsWalked'
    <3>1. PICK n : n = Len(Active.content)
      OBVIOUS
    <3>2. PartsOf(n)' /\ n = Len(Active.content)'
      BY <2>1, <2>2, <3>1, SameWalk
    <3>3. PartsOf(Len(Active.content))'
      BY <3>2
    <3>4. QED
      BY <2>2, <2>3, <3>3 DEF PartsWalked, OnManifest
  <2>7. AssertionsWalked'
    <3>1. stored' = <<>> /\ pending' = <<>> /\ decoded' = <<>>
      BY <1>1, <2>2 DEF IInv, AssertionsWalked, Phases
    <3>2. StoredOf(0)'
      <4>1. Found(0)' = {}
        BY DEF Found
      <4>2. DOMAIN stored' = {}
        BY <3>1
      <4>3. QED
        BY <4>1, <4>2, FS_EmptySet DEF StoredOf
    <3>3. DecodedFromStored'
      BY <3>1 DEF DecodedFromStored
    <3>4. Len(AssertionStore) \in Nat
      BY <1>2, <2>1, PartIsThere DEF AssertionStore
    <3>5. AssertionStore' = AssertionStore
      BY <2>2, SameWalk
    <3>6. QED
      BY <2>2, <2>3, <3>1, <3>2, <3>3, <3>4, <3>5 DEF AssertionsWalked, Phases
  <2>8. DamageMeansDamage'
    BY <2>2, <2>3 DEF DamageMeansDamage, Damaged
  <2>9. QED
    BY <2>4, <2>5, <2>6, <2>7, <2>8 DEF IInv
<1>8. QED
  BY <1>5, <1>6, <1>7, ProceedStep

LEMMA AssertionStoreIsThere ==
  ASSUME IInv, phase = "assertions" \/ Parsed
  PROVE  /\ AssertionStore \in Seq(ToSet(AssertionStore)) /\ \A a \in Boxes(AssertionStore) : IsBox(a)
         /\ Malformed \in Boxes(AssertionStore) => ~ Whole(raw.box)
<1>1. (phase \in OnManifest \/ Parsed) /\ PartsOf(Len(Active.content))
  BY DEF IInv, PartsWalked, OnManifest
<1>2. Len(Active.content) \in 0 .. Len(Active.content)
  BY <1>1, ActiveIsThere
<1>3. CASE "c2pa.assertions" \in DOMAIN parts
  <2>1. /\ parts["c2pa.assertions"] \in Boxes(Active.content) /\ parts["c2pa.assertions"] # Malformed
        /\ parts["c2pa.assertions"].uuid = "c2as"
        /\ AssertionStore \in Seq(ToSet(AssertionStore)) /\ \A a \in Boxes(AssertionStore) : IsBox(a)
        /\ AssertionStore = parts["c2pa.assertions"].content
    BY <1>1, <1>2, <1>3, PartIsThere DEF AssertionStore, PartUuid
  <2>2. Malformed \in Boxes(AssertionStore) => ~ Whole(raw.box)
    BY <1>1, <2>1, ActiveIsThere DEF Whole, Content
  <2>3. QED
    BY <2>1, <2>2
<1>4. CASE "c2pa.assertions" \notin DOMAIN parts
  <2>1. AssertionStore = <<>>
    BY <1>4 DEF AssertionStore
  <2>2. <<>> \in Seq(ToSet(<<>>)) /\ Boxes(<<>>) = {}
    BY DEF Boxes
  <2>3. QED
    BY <2>1, <2>2
<1>5. QED
  BY <1>3, <1>4

(* During the walk over the assertions, what was found before stays.            *)
LEMMA AssertionsFrame ==
  ASSUME IInv, phase = "assertions", phase' = "assertions", cursor' \in Nat \ {0},
         UNCHANGED <<raw, outcome, manifest, parts>>, AssertionsWalked'
  PROVE  IInv'
<1>1. outcome = "none" /\ ~ Parsed /\ ~ Parsed' /\ Walking
  BY NotYet DEF Parsed, IInv
<1>2. Content' = Content /\ Active' = Active
  BY DEF Content, Active
<1>3. Walking'
  BY <1>1, <1>2 DEF Walking, StoreIsOpen, OnManifest
<1>4. ManifestsWalked'
  <2>1. LatestOf(Len(Content)) /\ manifest # {}
    BY DEF IInv, ManifestsWalked, OnManifest
  <2>2. LatestOf(Len(Content))'
    BY <1>2, <2>1 DEF LatestOf, NoManifestAmong
  <2>3. QED
    BY <1>1, <2>1, <2>2 DEF ManifestsWalked, OnManifest
<1>5. PartsWalked'
  <2>1. PartsOf(Len(Active.content))
    BY DEF IInv, PartsWalked, OnManifest
  <2>2. PICK n : n = Len(Active.content)
    OBVIOUS
  <2>3. \A l : Known(l, n)' = Known(l, n)
    BY <1>2 DEF Known
  <2>4. PartsOf(n)' /\ n = Len(Active.content)'
    BY <1>2, <2>1, <2>2, <2>3 DEF PartsOf
  <2>5. PartsOf(Len(Active.content))'
    BY <2>4
  <2>6. QED
    BY <1>1, <2>5 DEF PartsWalked, OnManifest
<1>6. DamageMeansDamage'
  BY <1>1 DEF DamageMeansDamage, Damaged
<1>7. QED
  BY <1>3, <1>4, <1>5, <1>6 DEF IInv

(* One more child of the assertion store.                                    *)
LEMMA StoredGrow ==
  ASSUME NEW n \in Nat, StoredOf(n), AssertionStore' = AssertionStore, NEW box,
         box = AssertionStore[n + 1].payload,
         \/ ~ IsBoxAt(AssertionStore, n + 1) /\ stored' = stored
         \/ /\ IsBoxAt(AssertionStore, n + 1) /\ box # Malformed /\ box.label = {LabelOf(box)}
            /\ LabelOf(box) \notin DOMAIN stored /\ stored' = With(stored, box)
  PROVE  StoredOf(n + 1)'
<1>1. Found(n + 1) = Found(n) \cup (IF IsBoxAt(AssertionStore, n + 1) THEN {n + 1} ELSE {})
  <2>1. 1 .. n + 1 = (1 .. n) \cup {n + 1}
    OBVIOUS
  <2>2. QED
    BY <2>1 DEF Found
<1>2. Found(n + 1)' = Found(n + 1)
  BY DEF Found
<1>3. CASE ~ IsBoxAt(AssertionStore, n + 1) /\ stored' = stored
  <2>1. Found(n + 1)' = Found(n)
    BY <1>1, <1>2, <1>3
  <2>2. {stored'[l] : l \in DOMAIN stored'} = {AssertionStore'[i].payload : i \in Found(n + 1)'}
    <3>1. {AssertionStore'[i].payload : i \in Found(n + 1)'} = {AssertionStore[i].payload : i \in Found(n)}
      BY <2>1
    <3>2. {stored'[l] : l \in DOMAIN stored'} = {stored[l] : l \in DOMAIN stored}
      BY <1>3
    <3>3. QED
      BY <3>1, <3>2, Zenon DEF StoredOf
  <2>3. \A l \in DOMAIN stored' : stored'[l] # Malformed /\ stored'[l].label = {l}
    BY <1>3 DEF StoredOf
  <2>4. IsFiniteSet(DOMAIN stored') /\ Cardinality(DOMAIN stored') = Cardinality(Found(n + 1)')
    BY <1>3, <2>1, Zenon DEF StoredOf
  <2>5. QED
    BY <2>2, <2>3, <2>4, Zenon DEF StoredOf
<1>4. CASE /\ IsBoxAt(AssertionStore, n + 1) /\ box # Malformed /\ box.label = {LabelOf(box)}
           /\ LabelOf(box) \notin DOMAIN stored /\ stored' = With(stored, box)
  <2>. DEFINE k == LabelOf(box)
  <2>1. /\ DOMAIN stored' = DOMAIN stored \cup {k} /\ stored'[k] = box
        /\ \A l \in DOMAIN stored : stored'[l] = stored[l]
    BY <1>4 DEF With
  <2>2. k \notin DOMAIN stored /\ box.label = {k}
    BY <1>4
  <2>. HIDE DEF k
  <2>3. Found(n + 1) = Found(n) \cup {n + 1} /\ n + 1 \notin Found(n)
    BY <1>1, <1>4 DEF Found
  <2>4. {stored'[l] : l \in DOMAIN stored'} = {stored[l] : l \in DOMAIN stored} \cup {box}
    BY <2>1, <2>2
  <2>5. {AssertionStore[i].payload : i \in Found(n + 1)}
          = {AssertionStore[i].payload : i \in Found(n)} \cup {box}
    BY <2>3
  <2>6. {stored'[l] : l \in DOMAIN stored'} = {AssertionStore[i].payload : i \in Found(n + 1)}
    BY <2>4, <2>5 DEF StoredOf
  <2>7. \A l \in DOMAIN stored' : stored'[l] # Malformed /\ stored'[l].label = {l}
    BY <1>4, <2>1, <2>2 DEF StoredOf
  <2>8. IsFiniteSet(DOMAIN stored') /\ Cardinality(DOMAIN stored') = Cardinality(Found(n + 1))
    <3>1. IsFiniteSet(Found(n))
      <4>1. IsFiniteSet(1 .. n) /\ Found(n) \in SUBSET (1 .. n)
        BY FS_Interval DEF Found
      <4>2. QED
        BY <4>1, FS_Subset
    <3>2. Cardinality(Found(n) \cup {n + 1}) = Cardinality(Found(n)) + 1
      BY <2>3, <3>1, FS_AddElement
    <3>3. IsFiniteSet(DOMAIN stored) /\ Cardinality(DOMAIN stored) = Cardinality(Found(n))
      BY DEF StoredOf
    <3>4. IsFiniteSet(DOMAIN stored \cup {k})
            /\ Cardinality(DOMAIN stored \cup {k}) = Cardinality(DOMAIN stored) + 1
      BY <2>2, <3>3, FS_AddElement
    <3>5. QED
      BY <2>1, <2>3, <3>2, <3>3, <3>4, Zenon
  <2>9. {stored'[l] : l \in DOMAIN stored'} = {AssertionStore'[i].payload : i \in Found(n + 1)'}
    BY <1>2, <2>6, Zenon
  <2>10. Cardinality(DOMAIN stored') = Cardinality(Found(n + 1)')
    BY <1>2, <2>8, Zenon
  <2>11. QED
    BY <2>7, <2>8, <2>9, <2>10, Zenon DEF StoredOf
<1>5. QED
  BY <1>3, <1>4

LEMMA CollectAssertionKeeps ==
  ASSUME IInv, CollectAssertion
  PROVE  IInv'
<1>. DEFINE box == AssertionStore[cursor].payload
<1>1. /\ Walking /\ phase = "assertions" /\ cursor <= Len(AssertionStore)
      /\ StoredOf(cursor - 1) /\ DecodedFromStored /\ cursor \in Nat \ {0}
  BY CollectAssertionStep DEF IInv, Walking, AssertionsWalked
<1>2. /\ DOMAIN AssertionStore = 1 .. Len(AssertionStore) /\ Len(AssertionStore) \in Nat
      /\ cursor \in DOMAIN AssertionStore /\ \A a \in Boxes(AssertionStore) : IsBox(a)
  BY <1>1, AssertionStoreIsThere
<1>3. CASE Rejects
  BY <1>1, <1>3, RejectKeeps
<1>4. CASE Reject(Damaged) /\ IsBoxAt(AssertionStore, cursor) /\ box = Malformed
  <2>1. Malformed \in Boxes(AssertionStore)
    BY <1>2, <1>4, BoxIsAmong
  <2>2. QED
    BY <1>1, <1>4, <2>1, AssertionStoreIsThere, RejectKeeps
<1>5. CASE \/ ~ IsBoxAt(AssertionStore, cursor) /\ Advance /\ UNCHANGED walk
           \/ /\ IsBoxAt(AssertionStore, cursor) /\ box # Malformed /\ Named(box)
              /\ LabelOf(box) \notin DOMAIN stored /\ stored' = With(stored, box)
              /\ pending' = Append(pending, LabelOf(box))
              /\ Advance /\ UNCHANGED <<manifest, parts, decoded>>
  <2>1. /\ cursor' = cursor + 1 /\ phase' = phase /\ raw' = raw /\ outcome' = outcome
        /\ UNCHANGED <<manifest, parts, decoded>>
    BY <1>5 DEF Advance, walk
  <2>2. outcome = "none" /\ ~ Parsed /\ ~ Parsed'
    BY <1>1, <2>1, NotYet DEF Parsed
  <2>3. AssertionStore' = AssertionStore
    BY <2>1 DEF AssertionStore
  <2>4. IsBoxAt(AssertionStore, cursor) /\ box # Malformed /\ Named(box) => box.label = {LabelOf(box)}
    BY <1>2, BoxIsAmong, LabelIsOne
  <2>5. PICK n \in Nat : n = cursor - 1
    BY <1>1
  <2>6. n + 1 = cursor /\ StoredOf(n)
    BY <1>1, <2>5
  <2>7. StoredOf(n + 1)'
    <3>1. \/ ~ IsBoxAt(AssertionStore, n + 1) /\ stored' = stored
          \/ /\ IsBoxAt(AssertionStore, n + 1) /\ box # Malformed /\ box.label = {LabelOf(box)}
             /\ LabelOf(box) \notin DOMAIN stored /\ stored' = With(stored, box)
      BY <1>5, <2>4, <2>6 DEF walk
    <3>2. box = AssertionStore[n + 1].payload
      BY <2>6
    <3>. HIDE DEF box
    <3>3. QED
      BY <2>3, <2>6, <3>1, <3>2, StoredGrow
  <2>8. StoredOf(cursor - 1)' /\ cursor' <= Len(AssertionStore') + 1
    <3>1. n + 1 = cursor' - 1 /\ cursor' <= Len(AssertionStore) + 1
      BY <1>1, <1>2, <2>1, <2>6
    <3>2. QED
      BY <2>3, <2>7, <3>1
  <2>9. DecodedFromStored'
    <3>1. CASE UNCHANGED walk
      BY <1>1, <3>1 DEF DecodedFromStored, walk
    <3>2. CASE /\ LabelOf(box) \notin DOMAIN stored /\ stored' = With(stored, box)
               /\ pending' = Append(pending, LabelOf(box)) /\ decoded' = decoded
      <4>. DEFINE k == LabelOf(box)
      <4>1. /\ DOMAIN stored' = DOMAIN stored \cup {k}
            /\ \A l \in DOMAIN stored : stored'[l] = stored[l]
        BY <3>2 DEF With
      <4>. HIDE DEF k
      <4>2. pending' \in Seq(DOMAIN stored')
        <5>1. pending \in Seq(DOMAIN stored) /\ pending' = Append(pending, k)
          BY <1>1, <3>2 DEF DecodedFromStored, k
        <5>2. pending \in Seq(DOMAIN stored') /\ k \in DOMAIN stored'
          BY <4>1, <5>1
        <5>3. QED
          BY <5>1, <5>2
      <4>3. QED
        BY <1>1, <2>1, <4>1, <4>2 DEF DecodedFromStored
    <3>3. QED
      BY <1>5, <3>1, <3>2
  <2>10. AssertionsWalked'
    BY <1>1, <2>1, <2>2, <2>8, <2>9 DEF AssertionsWalked, Phases
  <2>11. cursor' \in Nat \ {0}
    BY <1>1, <2>1
  <2>12. QED
    BY <1>1, <2>1, <2>10, <2>11, AssertionsFrame
<1>6. QED
  BY <1>1, <1>3, <1>4, <1>5, CollectAssertionStep

LEMMA DecodeAssertionKeeps ==
  ASSUME IInv, DecodeAssertion
  PROVE  IInv'
<1>1. /\ Walking /\ phase = "assertions" /\ cursor > Len(AssertionStore) /\ pending # <<>>
      /\ StoredOf(cursor - 1) /\ DecodedFromStored /\ cursor \in Nat \ {0}
      /\ cursor <= Len(AssertionStore) + 1
  BY DEF DecodeAssertion, IInv, Walking, AssertionsWalked
<1>2. pending \in Seq(DOMAIN stored) /\ Head(pending) \in DOMAIN stored
        /\ Tail(pending) \in Seq(DOMAIN stored)
  <2>1. pending \in Seq(DOMAIN stored)
    BY <1>1 DEF DecodedFromStored
  <2>2. QED
    BY <1>1, <2>1
<1>3. \A l \in DOMAIN stored : stored[l].content \in Seq(ToSet(stored[l].content))
  <2>. TAKE l \in DOMAIN stored
  <2>1. PICK i \in Found(cursor - 1) : stored[l] = AssertionStore[i].payload
    BY <1>1, SMTT(30) DEF StoredOf
  <2>2. i \in DOMAIN AssertionStore /\ IsBoxAt(AssertionStore, i)
    BY <1>1, AssertionStoreIsThere DEF Found
  <2>3. IsBox(stored[l]) /\ stored[l] # Malformed
    BY <1>1, <2>1, <2>2, AssertionStoreIsThere, BoxIsAmong DEF StoredOf
  <2>4. QED
    BY <2>3 DEF IsBox
<1>4. CASE Rejects
  BY <1>1, <1>4, RejectKeeps
<1>5. ASSUME /\ pending' = Tail(pending)
             /\ UNCHANGED <<raw, phase, cursor, outcome, manifest, parts, stored>>,
             \A l \in DOMAIN decoded' : l \in DOMAIN stored
               /\ decoded'[l] \in {c.payload : c \in ToSet(stored[l].content)}
      PROVE  IInv'
  <2>1. DecodedFromStored'
    BY <1>2, <1>5 DEF DecodedFromStored
  <2>2. outcome = "none" /\ ~ Parsed /\ ~ Parsed'
    BY <1>1, <1>5, NotYet DEF Parsed
  <2>3. AssertionStore' = AssertionStore
    BY <1>5 DEF AssertionStore
  <2>4. StoredOf(cursor - 1)'
    <3>1. PICK n : n = cursor - 1
      OBVIOUS
    <3>3. StoredOf(n)' <=> StoredOf(n)
      BY <1>5, <2>3 DEF StoredOf, Found
    <3>4. n = (cursor - 1)'
      BY <1>5, <3>1
    <3>5. QED
      BY <1>1, <3>1, <3>3, <3>4
  <2>5. AssertionsWalked'
    BY <1>1, <1>5, <2>1, <2>2, <2>3, <2>4 DEF AssertionsWalked, Phases
  <2>6. QED
    BY <1>1, <1>5, <2>5, AssertionsFrame
<1>6. CASE Undecoded
  BY <1>1, <1>5, <1>6 DEF Undecoded, DecodedFromStored
<1>7. CASE \E value \in {c.payload : c \in ToSet(stored[Head(pending)].content)} : Decoding(value)
  <2>1. PICK value \in {c.payload : c \in ToSet(stored[Head(pending)].content)} : Decoding(value)
    BY <1>7
  <2>2. /\ DOMAIN decoded' = DOMAIN decoded \cup {Head(pending)} /\ decoded'[Head(pending)] = value
        /\ \A l \in DOMAIN decoded : l # Head(pending) => decoded'[l] = decoded[l]
    BY <2>1 DEF Decoding
  <2>3. \A l \in DOMAIN decoded' : l \in DOMAIN stored
               /\ decoded'[l] \in {c.payload : c \in ToSet(stored[l].content)}
    <3>. TAKE l \in DOMAIN decoded'
    <3>1. CASE l = Head(pending)
      BY <1>2, <2>2, <3>1
    <3>2. CASE l # Head(pending)
      BY <1>1, <2>2, <3>2 DEF DecodedFromStored
    <3>3. QED
      BY <3>1, <3>2
  <2>4. QED
    BY <1>5, <2>1, <2>3 DEF Decoding
<1>8. QED
  BY <1>2, <1>3, <1>4, <1>6, <1>7, DecodeAssertionStep

LEMMA FinishKeeps ==
  ASSUME IInv, Finish
  PROVE  IInv'
<1>1. /\ Walking /\ phase = "assertions" /\ cursor > Len(AssertionStore)
      /\ StoredOf(cursor - 1) /\ DecodedFromStored /\ cursor \in Nat \ {0}
      /\ cursor <= Len(AssertionStore) + 1 /\ phase \in OnManifest
  BY DEF Finish, IInv, Walking, AssertionsWalked, OnManifest
<1>2. /\ phase' = "done" /\ outcome' = "parsed" /\ Parsed' /\ raw' = raw /\ cursor' = cursor
      /\ UNCHANGED <<raw, walk>> /\ UNCHANGED <<manifest, parts, stored, pending, decoded>>
  BY DEF Finish, Parsed, walk
<1>3. Walking'
  BY <1>1, <1>2, SameWalk DEF Walking, Phases, OnManifest
<1>4. ManifestsWalked'
  <2>1. LatestOf(Len(Content)) /\ manifest # {}
    BY <1>1 DEF IInv, ManifestsWalked
  <2>2. PICK n : n = Len(Content)
    OBVIOUS
  <2>3. LatestOf(n)' /\ n = Len(Content)'
    BY <1>2, <2>1, <2>2, SameWalk
  <2>4. LatestOf(Len(Content))'
    BY <2>3
  <2>5. QED
    BY <1>2, <2>1, <2>4 DEF ManifestsWalked, OnManifest
<1>5. PartsWalked'
  <2>1. PartsOf(Len(Active.content))
    BY <1>1 DEF IInv, PartsWalked, OnManifest
  <2>2. PICK n : n = Len(Active.content)
    OBVIOUS
  <2>3. PartsOf(n)' /\ n = Len(Active.content)'
    BY <1>2, <2>1, <2>2, SameWalk
  <2>4. PartsOf(Len(Active.content))'
    BY <2>3
  <2>5. QED
    BY <1>2, <2>4 DEF PartsWalked, OnManifest
<1>6. AssertionsWalked'
  <2>1. Len(AssertionStore) \in Nat
    BY <1>1, AssertionStoreIsThere
  <2>2. cursor - 1 = Len(AssertionStore)
    BY <1>1, <2>1
  <2>3. PICK n : n = Len(AssertionStore)
    OBVIOUS
  <2>4. StoredOf(n)' /\ n = Len(AssertionStore)'
    BY <1>1, <1>2, <2>2, <2>3, SameWalk
  <2>5. StoredOf(Len(AssertionStore))'
    BY <2>4
  <2>6. DecodedFromStored'
    BY <1>1, <1>2, SameWalk
  <2>7. QED
    BY <1>2, <2>5, <2>6 DEF AssertionsWalked, Phases
<1>7. DamageMeansDamage'
  BY <1>2 DEF DamageMeansDamage, Damaged
<1>8. QED
  BY <1>3, <1>4, <1>5, <1>6, <1>7 DEF IInv

(* parse_manifest_store never loses the thread: what the walk has found so far is   *)
(* what the children walked so far hold, and damage is reported only of damage.    *)
THEOREM WalkIsExact == Spec => []IInv
<1>1. Init => IInv
  <2>. SUFFICES ASSUME Init PROVE IInv
    OBVIOUS
  <2>1. ~ Parsed /\ outcome # Damaged
    BY DEF Init, Parsed, Damaged
  <2>2. Walking
    BY <2>1 DEF Init, Walking, Phases, OnManifest
  <2>3. ManifestsWalked /\ PartsWalked /\ AssertionsWalked /\ DamageMeansDamage
    BY <2>1 DEF Init, ManifestsWalked, PartsWalked, AssertionsWalked, DamageMeansDamage, OnManifest, Phases
  <2>4. QED
    BY <2>2, <2>3 DEF IInv
<1>2. IInv /\ [Next]_vars => IInv'
  <2>. SUFFICES ASSUME IInv, [Next]_vars PROVE IInv'
    OBVIOUS
  <2>1. CASE UNCHANGED vars
    <3>1. /\ UNCHANGED <<raw, phase, cursor, outcome>> /\ UNCHANGED <<raw, walk>>
          /\ UNCHANGED <<manifest, parts, stored, pending, decoded>>
      BY <2>1 DEF vars, walk
    <3>2. Walking' /\ DamageMeansDamage' /\ (Parsed' <=> Parsed)
      BY <3>1, SameWalk DEF IInv, Walking, DamageMeansDamage, Parsed
    <3>3. ManifestsWalked'
      <4>1. PICK n, m : n = Len(Content) /\ m = cursor - 1
        OBVIOUS
      <4>2. n = Len(Content)' /\ m = (cursor - 1)' /\ (LatestOf(n)' <=> LatestOf(n))
              /\ (LatestOf(m)' <=> LatestOf(m))
        BY <3>1, <4>1, SameWalk
      <4>3. (LatestOf(Len(Content))' <=> LatestOf(Len(Content)))
              /\ (LatestOf(cursor - 1)' <=> LatestOf(cursor - 1))
        BY <4>1, <4>2
      <4>4. QED
        BY <3>1, <3>2, <4>3, SameWalk DEF IInv, ManifestsWalked
    <3>4. PartsWalked'
      <4>1. PICK n, m : n = Len(Active.content) /\ m = cursor - 1
        OBVIOUS
      <4>2. n = Len(Active.content)' /\ m = (cursor - 1)' /\ (PartsOf(n)' <=> PartsOf(n))
              /\ (PartsOf(m)' <=> PartsOf(m))
        BY <3>1, <4>1, SameWalk
      <4>3. (PartsOf(Len(Active.content))' <=> PartsOf(Len(Active.content)))
              /\ (PartsOf(cursor - 1)' <=> PartsOf(cursor - 1))
        BY <4>1, <4>2
      <4>4. QED
        BY <3>1, <3>2, <4>3, SameWalk DEF IInv, PartsWalked
    <3>5. AssertionsWalked'
      <4>1. PICK n, m : n = Len(AssertionStore) /\ m = cursor - 1
        OBVIOUS
      <4>2. n = Len(AssertionStore)' /\ m = (cursor - 1)' /\ (StoredOf(n)' <=> StoredOf(n))
              /\ (StoredOf(m)' <=> StoredOf(m))
        BY <3>1, <4>1, SameWalk
      <4>3. (StoredOf(Len(AssertionStore))' <=> StoredOf(Len(AssertionStore)))
              /\ (StoredOf(cursor - 1)' <=> StoredOf(cursor - 1))
        BY <4>1, <4>2
      <4>4. QED
        BY <3>1, <3>2, <4>3, SameWalk DEF IInv, AssertionsWalked
    <3>6. QED
      BY <3>2, <3>3, <3>4, <3>5 DEF IInv
  <2>2. CASE Next
    BY <2>2, OpenStoreKeeps, SeekManifestKeeps, TakeManifestKeeps, CollectPartKeeps, ProceedKeeps,
       CollectAssertionKeeps, DecodeAssertionKeeps, FinishKeeps DEF Next
  <2>3. QED
    BY <2>1, <2>2
<1>3. QED
  BY <1>1, <1>2, PTL DEF Spec

----------------------------------------------------------------------------
(* What it promises.                                                         *)

(* LastManifestIsActive (_active_manifest): the manifest that is judged is the last *)
(* of the store, of whatever type.                                             *)
THEOREM LastManifestIsJudged == Spec => []LastManifestIsActive
<1>1. IInv => LastManifestIsActive
  <2>. SUFFICES ASSUME IInv, Parsed PROVE LastManifestIsActive
    BY DEF LastManifestIsActive
  <2>1. StoreIsOpen /\ manifest # {} /\ LatestOf(Len(Content))
    BY DEF IInv, Walking, ManifestsWalked
  <2>2. PICK i \in 1 .. Len(Content) :
          /\ IsBoxAt(Content, i) /\ manifest = {Content[i].payload}
          /\ NoManifestAmong(i + 1, Len(Content))
    BY <2>1 DEF LatestOf
  <2>3. i \in DOMAIN Content
    BY <2>1 DEF StoreIsOpen
  <2>4. QED
    BY <2>2, <2>3 DEF LastManifestIsActive, NoManifestAmong, IsBoxAt, Content
<1>2. QED
  BY <1>1, WalkIsExact, PTL

(* PartsAreUnambiguous (_children_with_bytes): the part found under a label is the   *)
(* only box of its label and type.                                             *)
THEOREM EachPartIsTheOnlyOne == Spec => []PartsAreUnambiguous
<1>1. IInv => PartsAreUnambiguous
  <2>. SUFFICES ASSUME IInv, Parsed, NEW l \in DOMAIN PartUuid
                PROVE  LET known == {i \in DOMAIN Active.content :
                              /\ Active.content[i].tbox = "jumb"
                              /\ Active.content[i].payload.label = {l}
                              /\ Active.content[i].payload.uuid = PartUuid[l]}
                       IN  /\ Cardinality(known) <= 1 /\ (l \in DOMAIN parts) = (known # {})
                           /\ \A i \in known : parts[l] = Active.content[i].payload
    BY DEF PartsAreUnambiguous
  <2>. DEFINE n == Len(Active.content)
  <2>1. Active.content \in Seq(ToSet(Active.content))
    BY ActiveIsThere
  <2>2. DOMAIN Active.content = 1 .. n
    BY <2>1
  <2>3. PartsOf(n)
    BY DEF IInv, PartsWalked
  <2>4. Known(l, n) = {i \in DOMAIN Active.content :
                        /\ Active.content[i].tbox = "jumb"
                        /\ Active.content[i].payload.label = {l}
                        /\ Active.content[i].payload.uuid = PartUuid[l]}
    BY <2>2 DEF Known, IsBoxAt
  <2>5. Cardinality(Known(l, n)) <= 1
    <3>1. \A i, j \in Known(l, n) : i = j
      BY <2>3 DEF PartsOf
    <3>2. CASE Known(l, n) = {}
      BY <3>2, FS_EmptySet
    <3>3. CASE Known(l, n) # {}
      <4>1. PICK i : Known(l, n) = {i}
        BY <3>1, <3>3
      <4>2. Cardinality({i}) = 1
        BY FS_Singleton
      <4>3. Cardinality(Known(l, n)) = 1
        BY <4>1, <4>2, Zenon
      <4>4. QED
        BY <4>3
    <3>4. QED
      BY <3>2, <3>3
  <2>6. /\ (l \in DOMAIN parts) = (Known(l, n) # {})
        /\ \A i \in Known(l, n) : parts[l] = Active.content[i].payload
    BY <2>3 DEF PartsOf
  <2>7. QED
    BY <2>4, <2>5, <2>6, Zenon
<1>2. QED
  BY <1>1, WalkIsExact, PTL

(* EveryAssertionIsKept (_parse_assertions): every box of the assertion store can   *)
(* be hashed as it arrived, decoded or not.                                     *)
THEOREM NoAssertionIsLost == Spec => []EveryAssertionIsKept
<1>1. IInv => EveryAssertionIsKept
  <2>. SUFFICES ASSUME IInv, Parsed PROVE EveryAssertionIsKept
    BY DEF EveryAssertionIsKept
  <2>. DEFINE n == Len(AssertionStore)
  <2>1. StoredOf(n) /\ DecodedFromStored
    BY DEF IInv, AssertionsWalked
  <2>2. DOMAIN AssertionStore = 1 .. n
    BY AssertionStoreIsThere
  <2>3. Found(n) = {i \in DOMAIN AssertionStore : AssertionStore[i].tbox = "jumb"}
    BY <2>2 DEF Found, IsBoxAt
  <2>4. {AssertionStore[i].payload : i \in Found(n)} = Boxes(AssertionStore)
    BY <2>3 DEF Boxes
  <2>5. {stored[l] : l \in DOMAIN stored} = Boxes(AssertionStore)
    BY <2>1, <2>4 DEF StoredOf
  <2>6. Cardinality(DOMAIN stored)
          = Cardinality({i \in DOMAIN AssertionStore : AssertionStore[i].tbox = "jumb"})
    BY <2>1, <2>3, Zenon DEF StoredOf
  <2>7. QED
    BY <2>1, <2>5, <2>6, Zenon DEF EveryAssertionIsKept, DecodedFromStored
<1>2. QED
  BY <1>1, WalkIsExact, PTL

(* DamageMeansDamage (parse_manifest_store): the code of a damaged wrapper is never  *)
(* given to a manifest whose boxes are whole.                                    *)
THEOREM OnlyDamageIsDamage == Spec => []DamageMeansDamage
<1>1. IInv => DamageMeansDamage
  BY DEF IInv
<1>2. QED
  BY <1>1, WalkIsExact, PTL
=============================================================================
