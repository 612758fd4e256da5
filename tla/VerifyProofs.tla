------------------------------ MODULE VerifyProofs ------------------------------
(***************************************************************************)
(* What a verdict says, for every asset, context and clock.                  *)
(***************************************************************************)
EXTENDS Verify, TextLemmas

AssertionCodes ==
  {"claim.malformed", "claim.hardBindings.missing", "algorithm.unsupported", "general.error",
   "assertion.outsideManifest", "assertion.missing", "assertion.undeclared",
   "assertion.selfRedacted", "assertion.hashedURI.mismatch", "hashedURI.missing",
   "hashedURI.mismatch", "assertion.multipleHardBindings", "manifest.multipleParents",
   "assertion.action.ingredientMismatch", "assertion.action.redactionMismatch",
   "assertion.action.malformed", "assertion.action.softBindingMissing",
   "assertion.cloud-data.malformed", "assertion.cloud-data.hardBinding",
   "assertion.external-reference.malformed", "assertion.timestamp.malformed"}

----------------------------------------------------------------------------
(* The rules of Assertions: what a status may be, and what "ok" means.         *)

LEMMA FirstFailureIsOne ==
  ASSUME NEW ss, DOMAIN ss \subseteq Nat
  PROVE  /\ FirstFailure(ss) = "ok" <=> \A i \in DOMAIN ss : ss[i] = "ok"
         /\ FirstFailure(ss) # "ok" => \E i \in DOMAIN ss : FirstFailure(ss) = ss[i]
<1>. DEFINE failed == {i \in DOMAIN ss : ss[i] # "ok"}
<1>1. CASE failed = {}
  BY <1>1 DEF FirstFailure
<1>2. CASE failed # {}
  <2>1. \E i \in failed : \A j \in failed : i <= j
    BY <1>2, LeastElement
  <2>2. Min(failed) \in failed
    BY <2>1 DEF Min
  <2>3. FirstFailure(ss) = ss[Min(failed)]
    BY <1>2 DEF FirstFailure
  <2>4. QED
    BY <1>2, <2>2, <2>3
<1>3. QED
  BY <1>1, <1>2

LEMMA FirstFailureCode ==
  ASSUME NEW ss, DOMAIN ss \subseteq Nat, NEW Codes,
         \A i \in DOMAIN ss : ss[i] \in Codes \cup {"ok"}
  PROVE  FirstFailure(ss) \in Codes \cup {"ok"}
<1>1. CASE FirstFailure(ss) = "ok"
  BY <1>1
<1>2. CASE FirstFailure(ss) # "ok"
  BY <1>2, FirstFailureIsOne
<1>3. QED
  BY <1>1, <1>2

LEMMA LinkStatusCode ==
  ASSUME NEW link, NEW store, NEW alg, NEW digests
  PROVE  /\ LinkStatus(link, store, alg, digests) \in AssertionCodes \cup {"ok"}
         /\ ReferenceStatus(link, store, alg, digests) \in AssertionCodes \cup {"ok"}
<1>1. LinkStatus(link, store, alg, digests) \in AssertionCodes \cup {"ok"}
  BY Zenon DEF LinkStatus, AssertionCodes
<1>2. ReferenceStatus(link, store, alg, digests) \in AssertionCodes \cup {"ok"}
  BY Zenon DEF ReferenceStatus, AssertionCodes
<1>3. QED
  BY <1>1, <1>2

LEMMA LinkedIsStored ==
  ASSUME NEW link, NEW store, NEW alg, NEW digests,
         LinkStatus(link, store, alg, digests) = "ok"
  PROVE  /\ link.url \in DOMAIN store
         /\ \E a \in Algorithms : digests[<<link.url, a>>] \in link.hash
<1>. DEFINE algs == ResolveAlgorithm(link.alg, alg)
<1>1. /\ link.url \in DOMAIN store /\ algs # {}
      /\ ~ \E a \in algs : digests[<<link.url, a>>] \notin link.hash
  BY DEF LinkStatus
<1>2. algs \subseteq Algorithms
  BY DEF ResolveAlgorithm
<1>3. QED
  BY <1>1, <1>2

LEMMA ClaimStatusCode ==
  ASSUME NEW claim, IsSequence(claim.redacted)
  PROVE  ClaimStatus(claim) \in AssertionCodes \cup {"ok"}
<1>. DEFINE redacted(u) == IF u = Unusable THEN "claim.malformed"
                           ELSE IF u \in {Elsewhere, Dangling, External} THEN "ok"
                           ELSE "assertion.selfRedacted"
            ss == [i \in DOMAIN claim.redacted |-> redacted(claim.redacted[i])]
<1>1. DOMAIN ss \subseteq Nat
  BY DEF IsSequence
<1>2. \A u : redacted(u) \in AssertionCodes \cup {"ok"}
  BY Zenon DEF AssertionCodes
<1>3. FirstFailure(ss) \in AssertionCodes \cup {"ok"}
  <2>1. \A i \in DOMAIN ss : ss[i] \in AssertionCodes \cup {"ok"}
    BY <1>2, Zenon
  <2>. HIDE DEF ss
  <2>2. QED
    BY <1>1, <2>1, FirstFailureCode
<1>4. "claim.malformed" \in AssertionCodes
  BY DEF AssertionCodes
<1>5. QED
  BY <1>3, <1>4, Zenon DEF ClaimStatus

LEMMA ShapeStatusCode ==
  ASSUME NEW created, NEW gathered, NEW store
  PROVE  ShapeStatus(created, gathered, store) \in AssertionCodes \cup {"ok"}
<1>. DEFINE Codes == {"assertion.missing", "claim.hardBindings.missing",
                      "assertion.multipleHardBindings", "manifest.multipleParents", "general.error"}
<1>1. ASSUME NEW a \in Codes \cup {"ok"}, NEW b \in Codes \cup {"ok"}, NEW c \in Codes \cup {"ok"},
             NEW d \in Codes \cup {"ok"}, NEW e \in Codes \cup {"ok"}
      PROVE  FirstFailure(<<a, b, c, d, e>>) \in Codes \cup {"ok"}
  <2>. DEFINE ss == <<a, b, c, d, e>>
  <2>1. DOMAIN ss = 1 .. 5 /\ \A i \in 1 .. 5 : ss[i] \in Codes \cup {"ok"}
    BY <1>1
  <2>2. DOMAIN ss \subseteq Nat
    BY <2>1
  <2>. HIDE DEF ss, Codes
  <2>3. FirstFailure(ss) \in Codes \cup {"ok"}
    BY <2>1, <2>2, FirstFailureCode
  <2>4. QED
    BY <2>3 DEF ss
<1>2. Codes \subseteq AssertionCodes
  BY DEF AssertionCodes
<1>3. ShapeStatus(created, gathered, store) \in Codes \cup {"ok"}
  BY <1>1, Zenon DEF ShapeStatus
<1>4. QED
  BY <1>2, <1>3

LEMMA ActionsLabelsType ==
  ASSUME NEW S, NEW labels \in Seq(S)
  PROVE  /\ ActionsLabels(labels) \in Seq({l \in S : l.base \in ActionsBases})
         /\ ToSet(ActionsLabels(labels)) \subseteq {l \in S : l.base \in ActionsBases}
<1>. DEFINE Known == {l \in S : l.base \in ActionsBases}
            keep(i) == labels[i].base \in ActionsBases /\ \A j \in 1 .. i - 1 : labels[j] # labels[i]
            pieces == [i \in DOMAIN labels |-> IF keep(i) THEN <<labels[i]>> ELSE <<>>]
<1>1. pieces \in Seq(Seq(Known))
  <2>1. \A i \in DOMAIN labels : labels[i] \in S
    OBVIOUS
  <2>2. \A i \in DOMAIN labels : keep(i) => labels[i] \in Known
    BY <2>1
  <2>3. \A x \in Known : <<x>> \in Seq(Known)
    OBVIOUS
  <2>4. <<>> \in Seq(Known)
    OBVIOUS
  <2>. HIDE DEF keep, Known
  <2>5. \A i \in DOMAIN labels : pieces[i] \in Seq(Known)
    BY <2>2, <2>3, <2>4
  <2>6. DOMAIN labels = 1 .. Len(labels) /\ Len(labels) \in Nat
    OBVIOUS
  <2>7. QED
    BY <2>5, <2>6
<1>2. FlattenSeq(pieces) \in Seq(Known)
  BY <1>1, FlattenType
<1>3. ActionsLabels(labels) = FlattenSeq(pieces)
  BY DEF ActionsLabels
<1>4. \A s \in Seq(Known) : ToSet(s) \subseteq Known
  BY DEF ToSet
<1>5. QED
  BY <1>2, <1>3, <1>4

ScanCodes == {"ok", "TypeError", "assertion.action.malformed"}

LEMMA ScanGroupType ==
  ASSUME NEW S, NEW labels \in Seq(S), NEW store,
         \A l \in S : IsSequence(store[l].actions)
  PROVE  ScanGroup(labels, store) \in Seq(ScanCodes)
<1>. DEFINE entry(k, actions, a) ==
                CASE actions[a].name = "unhashable" -> "TypeError"
                  [] actions[a].name \in Inceptions /\ <<k, a>> # <<1, 1>> ->
                       "assertion.action.malformed"
                  [] OTHER -> "ok"
            piece(k, actions) ==
              IF actions = <<>> THEN <<"assertion.action.malformed">>
              ELSE [a \in DOMAIN actions |-> entry(k, actions, a)]
            pieces == [k \in DOMAIN labels |-> piece(k, store[labels[k]].actions)]
<1>1. \A k, actions, a : entry(k, actions, a) \in ScanCodes
  BY Zenon DEF ScanCodes
<1>2. ASSUME NEW k, NEW actions, IsSequence(actions) PROVE piece(k, actions) \in Seq(ScanCodes)
  <2>1. DOMAIN actions = 1 .. Len(actions) /\ Len(actions) \in Nat
    BY <1>2 DEF IsSequence
  <2>. HIDE DEF entry
  <2>2. [a \in DOMAIN actions |-> entry(k, actions, a)] \in Seq(ScanCodes)
    BY <1>1, <2>1
  <2>3. <<"assertion.action.malformed">> \in Seq(ScanCodes)
    BY DEF ScanCodes
  <2>4. QED
    BY <2>2, <2>3
<1>3. \A k \in DOMAIN labels : IsSequence(store[labels[k]].actions)
  OBVIOUS
<1>. HIDE DEF piece
<1>4. \A k \in DOMAIN labels : pieces[k] \in Seq(ScanCodes)
  BY <1>2, <1>3, Zenon
<1>5. DOMAIN labels = 1 .. Len(labels) /\ Len(labels) \in Nat
  OBVIOUS
<1>6. pieces \in Seq(Seq(ScanCodes))
  BY <1>4, <1>5
<1>7. FlattenSeq(pieces) \in Seq(ScanCodes)
  BY <1>6, FlattenType, Zenon
<1>8. ScanGroup(labels, store) = FlattenSeq(pieces)
  BY DEF ScanGroup, piece
<1>9. QED
  BY <1>7, <1>8

LEMMA InceptionStatusCode ==
  ASSUME NEW S, NEW created \in Seq(S), NEW gathered \in Seq(S), NEW store,
         \A l \in {l \in S : l.base \in ActionsBases} : IsSequence(store[l].actions)
  PROVE  InceptionStatus(created, gathered, store) \in {"ok", "TypeError", "assertion.action.malformed"}
<1>. DEFINE ss == ScanGroup(ActionsLabels(created), store) \o ScanGroup(ActionsLabels(gathered), store)
<1>1. /\ ScanGroup(ActionsLabels(created), store) \in Seq(ScanCodes)
      /\ ScanGroup(ActionsLabels(gathered), store) \in Seq(ScanCodes)
  BY ActionsLabelsType, ScanGroupType
<1>2. ss \in Seq(ScanCodes)
  BY <1>1
<1>. HIDE DEF ss
<1>3. DOMAIN ss \subseteq Nat /\ \A i \in DOMAIN ss : ss[i] \in ScanCodes \cup {"ok"}
  BY <1>2
<1>4. FirstFailure(ss) \in ScanCodes \cup {"ok"}
  BY <1>3, FirstFailureCode
<1>5. QED
  BY <1>4, Zenon DEF InceptionStatus, ScanCodes, ss

LEMMA RelatedStatusCode ==
  ASSUME NEW action, NEW store, NEW alg, NEW digests,
         \A refs \in action.related : IsSequence(refs)
  PROVE  RelatedStatus(action, store, alg, digests) \in AssertionCodes \cup {"ok"}
<1>. DEFINE status(ref) == ActionReferenceStatus(ref, store, alg, digests)
            one(ref) == IF status(ref) = "ok" /\ ref.url.base \in IngredientBases \cup ActionsBases
                        THEN "assertion.action.malformed" ELSE status(ref)
            all(refs) == IF refs = <<>> THEN "assertion.action.malformed"
                         ELSE FirstFailure([i \in DOMAIN refs |-> one(refs[i])])
<1>1. {"assertion.action.malformed", "hashedURI.missing"} \subseteq AssertionCodes
  BY DEF AssertionCodes
<1>2. \A ref : status(ref) \in AssertionCodes \cup {"ok"}
  BY <1>1, LinkStatusCode, Zenon DEF ActionReferenceStatus
<1>. HIDE DEF status
<1>3. \A ref : one(ref) \in AssertionCodes \cup {"ok"}
  BY <1>1, <1>2
<1>4. ASSUME NEW refs, IsSequence(refs) PROVE all(refs) \in AssertionCodes \cup {"ok"}
  <2>. DEFINE ss == [i \in DOMAIN refs |-> one(refs[i])]
  <2>1. DOMAIN ss \subseteq Nat
    BY <1>4 DEF IsSequence
  <2>2. \A i \in DOMAIN ss : ss[i] \in AssertionCodes \cup {"ok"}
    BY <1>3, Zenon
  <2>. HIDE DEF ss
  <2>3. FirstFailure(ss) \in AssertionCodes \cup {"ok"}
    BY <2>1, <2>2, FirstFailureCode
  <2>4. QED
    BY <1>1, <2>3, Zenon DEF ss
<1>5. RelatedStatus(action, store, alg, digests)
        = IF action.related = {} THEN "ok" ELSE all(CHOOSE refs \in action.related : TRUE)
  BY Zenon DEF RelatedStatus, status
<1>. HIDE DEF all
<1>6. action.related # {} => IsSequence(CHOOSE refs \in action.related : TRUE)
  OBVIOUS
<1>7. QED
  BY <1>4, <1>5, <1>6

LEMMA FirstOfFour ==
  ASSUME NEW a, NEW b, NEW c, NEW d
  PROVE  /\ FirstFailure(<<a, b, c, d>>) \in {a, b, c, d, "ok"}
         /\ FirstFailure(<<a, b, c, d>>) = "ok" => a = "ok" /\ b = "ok" /\ c = "ok" /\ d = "ok"
<1>. DEFINE ss == <<a, b, c, d>>
<1>1. /\ DOMAIN ss = 1 .. 4 /\ ss[1] = a /\ ss[2] = b /\ ss[3] = c /\ ss[4] = d
  OBVIOUS
<1>2. DOMAIN ss \subseteq Nat
  BY <1>1
<1>3. \A i \in 1 .. 4 : i = 1 \/ i = 2 \/ i = 3 \/ i = 4
  OBVIOUS
<1>. HIDE DEF ss
<1>4. /\ FirstFailure(ss) = "ok" <=> \A i \in DOMAIN ss : ss[i] = "ok"
      /\ FirstFailure(ss) # "ok" => \E i \in DOMAIN ss : FirstFailure(ss) = ss[i]
  BY <1>2, FirstFailureIsOne
<1>5. /\ FirstFailure(ss) \in {a, b, c, d, "ok"}
      /\ FirstFailure(ss) = "ok" => a = "ok" /\ b = "ok" /\ c = "ok" /\ d = "ok"
  BY <1>1, <1>3, <1>4
<1>6. QED
  BY <1>5 DEF ss

(* An action that passes passes the rules about its ingredients.              *)
LEMMA ActionStatusCode ==
  ASSUME NEW action, NEW labels, NEW store, NEW alg, NEW digests,
         \A refs \in action.related : IsSequence(refs)
  PROVE  /\ ActionStatus(action, labels, store, alg, digests) \in AssertionCodes \cup {"ok"}
         /\ ActionStatus(action, labels, store, alg, digests) = "ok" =>
              IngredientStatus(action, store, alg, digests) = "ok"
<1>. DEFINE a == IngredientStatus(action, store, alg, digests)
            b == RedactionStatus(action, store)
            c == RelatedStatus(action, store, alg, digests)
            d == IF /\ action.name \in {"c2pa.watermarked", "c2pa.watermarked.bound"}
                    /\ SoftBindingLabels(labels) = {}
                 THEN "assertion.action.softBindingMissing" ELSE "ok"
            Codes == AssertionCodes \cup {"ok"}
<1>1. {"assertion.action.malformed", "assertion.action.ingredientMismatch", "ok",
       "assertion.action.redactionMismatch", "assertion.action.softBindingMissing"} \subseteq Codes
  BY DEF AssertionCodes
<1>2. a \in Codes
  <2>1. a \in {"assertion.action.ingredientMismatch", "ok"}
    BY Zenon DEF IngredientStatus
  <2>2. QED
    BY <1>1, <2>1
<1>3. b \in Codes
  BY <1>1 DEF RedactionStatus
<1>4. c \in Codes
  BY RelatedStatusCode
<1>5. d \in Codes
  BY <1>1
<1>6. ActionStatus(action, labels, store, alg, digests)
        = IF action.name = "not a string" THEN "assertion.action.malformed"
          ELSE FirstFailure(<<a, b, c, d>>)
  BY Zenon DEF ActionStatus
<1>7. "assertion.action.malformed" # "ok"
  OBVIOUS
<1>. HIDE DEF a, b, c, d, Codes
<1>8. /\ FirstFailure(<<a, b, c, d>>) \in {a, b, c, d, "ok"}
      /\ FirstFailure(<<a, b, c, d>>) = "ok" => a = "ok"
  BY FirstOfFour
<1>9. FirstFailure(<<a, b, c, d>>) \in Codes
  BY <1>1, <1>2, <1>3, <1>4, <1>5, <1>8
<1>10. /\ ActionStatus(action, labels, store, alg, digests) \in Codes
       /\ ActionStatus(action, labels, store, alg, digests) = "ok" => a = "ok"
  BY <1>1, <1>6, <1>7, <1>8, <1>9, Zenon
<1>11. QED
  BY <1>10 DEF a, Codes

LEMMA SpecificStatusCode ==
  ASSUME NEW label, NEW store
  PROVE  /\ SpecificStatus(label, store) \in AssertionCodes \cup {"ok"}
         /\ label.base \in IngredientBases => SpecificStatus(label, store) # "ok"
<1>1. \A p : /\ CloudDataStatus(p) \in AssertionCodes \cup {"ok"}
             /\ ExternalReferenceStatus(p) \in AssertionCodes \cup {"ok"}
  BY Zenon DEF CloudDataStatus, ExternalReferenceStatus, AssertionCodes
<1>2. {"assertion.timestamp.malformed", "general.error"} \subseteq AssertionCodes
  BY DEF AssertionCodes
<1>3. SpecificStatus(label, store) \in AssertionCodes \cup {"ok"}
  BY <1>1, <1>2, Zenon DEF SpecificStatus
<1>4. ASSUME label.base \in IngredientBases PROVE SpecificStatus(label, store) # "ok"
  <2>1. /\ label.base # "c2pa.cloud-data" /\ label.base # "c2pa.external-reference"
        /\ label.base # "c2pa.time-stamp" /\ label.base \in UnsupportedBases
    BY <1>4 DEF IngredientBases, UnsupportedBases
  <2>2. SpecificStatus(label, store) = "general.error"
    BY <2>1 DEF SpecificStatus
  <2>3. QED
    BY <2>2
<1>5. QED
  BY <1>3, <1>4

----------------------------------------------------------------------------
(* The other phases, and the buckets.                                        *)

FailureCodes ==
  AssertionCodes \cup ParseErrors \cup
  {"manifest.text.multipleWrappers", "assertion.dataHash.malformed",
   "assertion.dataHash.mismatch", "claimSignature.mismatch",
   "signingCredential.invalid", "claimSignature.outsideValidity", "signingCredential.untrusted"}

AllCodes == SuccessCodes \cup InformationalCodes \cup FailureCodes

Untrusted == "signingCredential.untrusted"

(* A failed comparison or a match is the last word on the binding.             *)
BindingCodes ==
  {"claim.hardBindings.missing", "algorithm.unsupported", "assertion.dataHash.mismatch",
   "assertion.dataHash.malformed", "manifest.text.multipleWrappers"}

LEMMA KindsAreApart ==
  /\ SuccessCodes \cap InformationalCodes = {}
  /\ (SuccessCodes \cup InformationalCodes) \cap FailureCodes = {}
  /\ AssertionCodes \subseteq FailureCodes \ {Untrusted}
  /\ ParseErrors \subseteq FailureCodes \ {Untrusted}
  /\ BindingCodes \subseteq FailureCodes \ {Untrusted}
  BY DEF SuccessCodes, InformationalCodes, FailureCodes, AssertionCodes, ParseErrors, Untrusted,
         BindingCodes

LEMMA CompareDigestCode ==
  ASSUME NEW text, NEW h, NEW alg, NEW ranges
  PROVE  CompareDigest(text, h, alg, ranges) \in BindingCodes \cup {"assertion.dataHash.match"}
  BY Zenon DEF CompareDigest, BindingCodes

(* The statuses of the binding: one of its failures, or the comparison, which   *)
(* the announcement of further ranges may precede.                            *)
LEMMA BindingStatusesAre ==
  ASSUME NEW text, NEW hashData, NEW alg, NEW spans,
         NEW codes, codes = BindingStatuses(text, hashData, alg, spans)
  PROVE  \/ \E c \in BindingCodes \cup {"assertion.dataHash.match"} : codes = <<c>>
         \/ \E c \in BindingCodes \cup {"assertion.dataHash.match"} :
              codes = <<"assertion.dataHash.additionalExclusionsPresent", c>>
<1>. DEFINE Codes == BindingCodes \cup {"assertion.dataHash.match"}
            Extra == "assertion.dataHash.additionalExclusionsPresent"
            h == CHOOSE x \in hashData : TRUE
            ranges == CHOOSE rs \in ExclusionRanges(h) : TRUE
            located == spans \cap ToSet(ranges)
            overrun == \E r \in ToSet(ranges) : r[1] + r[2] > Len(Encoded(text))
            c == CompareDigest(text, h, alg, ranges)
            compared == (IF Len(ranges) > 1 THEN <<Extra>> ELSE <<>>) \o <<c>>
<1>1. CASE ParametersStatus(hashData, alg) # "ok"
  <2>1. ParametersStatus(hashData, alg) \in BindingCodes \cup {"ok"}
    BY Zenon DEF ParametersStatus, BindingCodes
  <2>2. codes = <<ParametersStatus(hashData, alg)>>
    BY <1>1 DEF BindingStatuses
  <2>3. QED
    BY <1>1, <2>1, <2>2
<1>2. CASE ParametersStatus(hashData, alg) = "ok"
  <2>1. codes = IF located = {} THEN <<"assertion.dataHash.malformed">>
                ELSE IF Cardinality(located) > 1 THEN <<"manifest.text.multipleWrappers">>
                ELSE IF overrun THEN <<"assertion.dataHash.mismatch">>
                ELSE compared
    BY <1>2 DEF BindingStatuses
  <2>2. c \in Codes
    BY CompareDigestCode
  <2>3. compared = <<c>> \/ compared = <<Extra, c>>
    <3>. HIDE DEF c
    <3>1. <<>> \o <<c>> = <<c>> /\ <<Extra>> \o <<c>> = <<Extra, c>>
      BY ConcatOfOne
    <3>2. QED
      BY <3>1
  <2>4. {"assertion.dataHash.malformed", "manifest.text.multipleWrappers",
         "assertion.dataHash.mismatch"} \subseteq Codes
    BY DEF BindingCodes
  <2>. HIDE DEF compared, located, overrun, c, Codes
  <2>5. codes \in {<<"assertion.dataHash.malformed">>, <<"manifest.text.multipleWrappers">>,
                   <<"assertion.dataHash.mismatch">>, compared}
    BY <2>1, Zenon
  <2>6. \/ \E e \in Codes : codes = <<e>>
        \/ \E e \in Codes : codes = <<Extra, e>>
    BY <2>2, <2>3, <2>4, <2>5, Zenon
  <2>7. QED
    BY <2>6 DEF Codes
<1>3. QED
  BY <1>1, <1>2

SignatureCodes ==
  {"claimSignature.missing", "signingCredential.invalid", "general.error",
   "algorithm.unsupported", "claimSignature.mismatch"}

LEMMA SignatureStatusCode ==
  ASSUME NEW s, NEW claim
  PROVE  /\ SignatureStatus(s, claim) \in SignatureCodes \cup {"claimSignature.validated"}
         /\ SignatureStatus(s, claim) = "claimSignature.validated" =>
              s.key = s.chain[1].key /\ s.over = claim
         /\ SignatureCodes \subseteq FailureCodes \ {Untrusted}
<1>1. SignatureStatus(s, claim) \in SignatureCodes \cup {"claimSignature.validated"}
  BY Zenon DEF SignatureStatus, SignatureCodes
<1>2. SignatureStatus(s, claim) = "claimSignature.validated" =>
              s.key = s.chain[1].key /\ s.over = claim
  BY DEF SignatureStatus
<1>3. SignatureCodes \subseteq FailureCodes \ {Untrusted}
  BY DEF SignatureCodes, FailureCodes, Untrusted, AssertionCodes, ParseErrors
<1>4. QED
  BY <1>1, <1>2, <1>3

LEMMA OfKindIs ==
  ASSUME NEW S, NEW codes \in Seq(S), NEW K
  PROVE  /\ OfKind(codes, K) \in Seq(S \cap K)
         /\ ToSet(OfKind(codes, K)) = ToSet(codes) \cap K
         /\ codes = <<>> => OfKind(codes, K) = <<>>
<1>. DEFINE T == S \cap K
            pieces == [i \in DOMAIN codes |-> IF codes[i] \in K THEN <<codes[i]>> ELSE <<>>]
<1>1. /\ DOMAIN codes = 1 .. Len(codes) /\ Len(codes) \in Nat
      /\ \A i \in 1 .. Len(codes) : codes[i] \in S
  OBVIOUS
<1>2. \A x \in T : <<x>> \in Seq(T)
  OBVIOUS
<1>3. <<>> \in Seq(T)
  OBVIOUS
<1>. DEFINE piece(i) == IF codes[i] \in K THEN <<codes[i]>> ELSE <<>>
<1>4. \A i \in 1 .. Len(codes) :
        /\ piece(i) \in Seq(T)
        /\ ToSet(piece(i)) = {codes[i]} \cap K
  <2>. SUFFICES ASSUME NEW i \in 1 .. Len(codes)
                PROVE  piece(i) \in Seq(T) /\ ToSet(piece(i)) = {codes[i]} \cap K
    OBVIOUS
  <2>1. CASE codes[i] \in K
    <3>1. codes[i] \in T
      BY <1>1, <2>1
    <3>2. \A x : ToSet(<<x>>) = {x}
      BY DEF ToSet
    <3>3. QED
      BY <1>2, <2>1, <3>1, <3>2
  <2>2. CASE codes[i] \notin K
    <3>1. ToSet(<<>>) = {}
      BY DEF ToSet
    <3>2. QED
      BY <1>3, <2>2, <3>1
  <2>3. QED
    BY <2>1, <2>2
<1>5. pieces = [i \in 1 .. Len(codes) |-> piece(i)]
  BY <1>1
<1>. HIDE DEF T, piece
<1>6. /\ pieces \in Seq(Seq(T)) /\ Len(pieces) = Len(codes)
      /\ \A i \in 1 .. Len(codes) : pieces[i] = piece(i)
  <2>. HIDE DEF pieces
  <2>1. \A n \in Nat : \A A : [i \in 1 .. n |-> piece(i)] \in [1 .. n -> A]
          => [i \in 1 .. n |-> piece(i)] \in Seq(A) /\ Len([i \in 1 .. n |-> piece(i)]) = n
    OBVIOUS
  <2>2. pieces \in [1 .. Len(codes) -> Seq(T)]
    BY <1>4, <1>5
  <2>3. \A i \in 1 .. Len(codes) : pieces[i] = piece(i)
    BY <1>5
  <2>4. QED
    BY <1>1, <1>5, <2>1, <2>2, <2>3
<1>7. OfKind(codes, K) = FlattenSeq(pieces)
  BY DEF OfKind
<1>. HIDE DEF pieces
<1>8. OfKind(codes, K) \in Seq(T)
  BY <1>6, <1>7, FlattenType
<1>9. ToSet(FlattenSeq(pieces)) = UNION {ToSet(pieces[i]) : i \in 1 .. Len(codes)}
  BY <1>6, FlattenElements, Zenon
<1>10. UNION {ToSet(pieces[i]) : i \in 1 .. Len(codes)} = UNION {{codes[i]} \cap K : i \in 1 .. Len(codes)}
  BY <1>4, <1>6
<1>11. UNION {{codes[i]} \cap K : i \in 1 .. Len(codes)} = ToSet(codes) \cap K
  BY <1>1 DEF ToSet
<1>12. ASSUME codes = <<>> PROVE OfKind(codes, K) = <<>>
  <2>1. pieces = <<>>
    BY <1>6, <1>12
  <2>2. QED
    BY <1>7, <2>1, FlattenNothing
<1>13. QED
  BY <1>7, <1>8, <1>9, <1>10, <1>11, <1>12, Zenon DEF T

BucketsType ==
  /\ success \in Seq(SuccessCodes)
  /\ informational \in Seq(InformationalCodes)
  /\ failure \in Seq(FailureCodes)

Grows == /\ IsPrefix(success, success') /\ IsPrefix(informational, informational')
         /\ IsPrefix(failure, failure')

Adds(codes) ==
  /\ ToSet(success') = ToSet(success) \cup (codes \cap SuccessCodes)
  /\ ToSet(informational') = ToSet(informational) \cup (codes \cap InformationalCodes)
  /\ ToSet(failure') = ToSet(failure) \cup (codes \cap FailureCodes)

(* Filing statuses adds each of them to one bucket and withdraws none.          *)
LEMMA FileAdds ==
  ASSUME BucketsType, NEW codes \in Seq(AllCodes), File(codes)
  PROVE  BucketsType' /\ Grows /\ Adds(ToSet(codes))
<1>. DEFINE Rest == ToSet(codes) \ (SuccessCodes \cup InformationalCodes)
<1>1. ToSet(codes) \subseteq AllCodes
  BY DEF ToSet
<1>2. Rest = ToSet(codes) \cap FailureCodes
  BY <1>1, KindsAreApart DEF AllCodes
<1>3. /\ OfKind(codes, SuccessCodes) \in Seq(AllCodes \cap SuccessCodes)
      /\ ToSet(OfKind(codes, SuccessCodes)) = ToSet(codes) \cap SuccessCodes
  BY OfKindIs
<1>4. /\ OfKind(codes, InformationalCodes) \in Seq(AllCodes \cap InformationalCodes)
      /\ ToSet(OfKind(codes, InformationalCodes)) = ToSet(codes) \cap InformationalCodes
  BY OfKindIs
<1>5. /\ OfKind(codes, Rest) \in Seq(AllCodes \cap Rest)
      /\ ToSet(OfKind(codes, Rest)) = ToSet(codes) \cap Rest
  <2>. HIDE DEF Rest
  <2>1. QED
    BY OfKindIs
<1>6. /\ OfKind(codes, SuccessCodes) \in Seq(SuccessCodes)
      /\ OfKind(codes, InformationalCodes) \in Seq(InformationalCodes)
      /\ OfKind(codes, Rest) \in Seq(FailureCodes)
  <2>1. /\ AllCodes \cap SuccessCodes = SuccessCodes
        /\ AllCodes \cap InformationalCodes = InformationalCodes
        /\ AllCodes \cap Rest \subseteq FailureCodes
    BY <1>2 DEF AllCodes
  <2>2. \A A, B : A \subseteq B => Seq(A) \subseteq Seq(B)
    OBVIOUS
  <2>. HIDE DEF Rest
  <2>3. QED
    BY <1>3, <1>4, <1>5, <2>1, <2>2
<1>7. /\ success' = success \o OfKind(codes, SuccessCodes)
      /\ informational' = informational \o OfKind(codes, InformationalCodes)
      /\ failure' = failure \o OfKind(codes, Rest)
  BY DEF File
<1>8. ToSet(codes) \cap Rest = Rest
  OBVIOUS
<1>. HIDE DEF Rest
<1>9. /\ success' \in Seq(SuccessCodes) /\ IsPrefix(success, success')
      /\ ToSet(success') = ToSet(success) \cup (ToSet(codes) \cap SuccessCodes)
  BY <1>3, <1>6, <1>7, ToSetOfConcat, ConcatIsPrefixed, ConcatProperties DEF BucketsType
<1>10. /\ informational' \in Seq(InformationalCodes) /\ IsPrefix(informational, informational')
       /\ ToSet(informational') = ToSet(informational) \cup (ToSet(codes) \cap InformationalCodes)
  BY <1>4, <1>6, <1>7, ToSetOfConcat, ConcatIsPrefixed, ConcatProperties DEF BucketsType
<1>11. /\ failure' \in Seq(FailureCodes) /\ IsPrefix(failure, failure')
       /\ ToSet(failure') = ToSet(failure) \cup (ToSet(codes) \cap FailureCodes)
  <2>1. ToSet(OfKind(codes, Rest)) = ToSet(codes) \cap FailureCodes
    BY <1>2, <1>5, <1>8, Zenon
  <2>2. QED
    BY <1>6, <1>7, <2>1, ToSetOfConcat, ConcatIsPrefixed, ConcatProperties DEF BucketsType
<1>12. QED
  BY <1>9, <1>10, <1>11 DEF BucketsType, Grows, Adds

LEMMA FileNothing ==
  ASSUME BucketsType, UNCHANGED statuses
  PROVE  BucketsType' /\ Grows /\ Adds({})
<1>1. success' = success /\ informational' = informational /\ failure' = failure
  BY DEF statuses
<1>2. \A S : \A s \in Seq(S) : IsPrefix(s, s)
  BY DEF IsPrefix
<1>3. BucketsType' /\ Grows
  BY <1>1, <1>2 DEF BucketsType, Grows
<1>4. Adds({})
  BY <1>1 DEF Adds
<1>5. QED
  BY <1>3, <1>4

----------------------------------------------------------------------------
(* The steps, in three groups.                                                *)

AssertionPhases == {"claim", "links", "actions", "references"}

LaterPhases == {"binding", "signature", "credential", "conclude"}

Phases == {"scan", "select", "returned", "raised"} \cup AssertionPhases \cup LaterPhases

JudgesAssertions ==
  \/ CheckClaim \/ CheckLink \/ CheckShape \/ CheckAction \/ CheckSpecific
  \/ CheckReference \/ AcceptAssertions

JudgesTheRest == CheckBinding \/ CheckSignature \/ JudgeCredential \/ Conclude

LEMMA StepIsOne ==
  ASSUME Next
  PROVE  Scan \/ Select \/ JudgesAssertions \/ JudgesTheRest
  BY DEF Next, Step, JudgesAssertions, JudgesTheRest

LEMMA AssertionFrame ==
  ASSUME JudgesAssertions
  PROVE  /\ pc \in AssertionPhases /\ pc' \in AssertionPhases \cup {"binding", "raised"}
         /\ UNCHANGED <<asset, context, selected, bindingOk, signatureOk, trusted, state>>
         /\ cursor \in Nat \ {0} => cursor' \in Nat \ {0}
         /\ \/ AcceptAssertions /\ pc' = "binding" /\ assertionsOk' = TRUE
            \/ ~ AcceptAssertions /\ assertionsOk' = assertionsOk
<1>. USE DEF AssertionPhases, GoTo, RejectAssertions, progress, results, statuses
<1>1. CASE CheckClaim
  BY <1>1 DEF CheckClaim, AcceptAssertions
<1>2. CASE CheckLink
  BY <1>2 DEF CheckLink, AcceptAssertions
<1>3. CASE CheckShape
  BY <1>3 DEF CheckShape, AcceptAssertions
<1>4. CASE CheckAction
  BY <1>4 DEF CheckAction, AcceptAssertions
<1>5. CASE CheckSpecific
  BY <1>5 DEF CheckSpecific, AcceptAssertions
<1>6. CASE CheckReference
  BY <1>6 DEF CheckReference, AcceptAssertions
<1>7. CASE AcceptAssertions
  BY <1>7 DEF AcceptAssertions
<1>8. QED
  BY <1>1, <1>2, <1>3, <1>4, <1>5, <1>6, <1>7 DEF JudgesAssertions

LEMMA LaterFrame ==
  ASSUME JudgesTheRest
  PROVE  /\ pc \in LaterPhases /\ pc' \in (LaterPhases \ {"binding"}) \cup {"returned"}
         /\ UNCHANGED <<asset, context, selected, cursor, cache, hashed, assertionsOk>>
<1>. USE DEF LaterPhases, progress, results, statuses
<1>1. CASE CheckBinding
  BY <1>1 DEF CheckBinding
<1>2. CASE CheckSignature
  BY <1>2 DEF CheckSignature
<1>3. CASE JudgeCredential
  BY <1>3 DEF JudgeCredential
<1>4. CASE Conclude
  BY <1>4 DEF Conclude
<1>5. QED
  BY <1>1, <1>2, <1>3, <1>4 DEF JudgesTheRest

LEMMA SameManifest ==
  ASSUME asset' = asset, selected' = selected
  PROVE  /\ Match' = Match /\ Manifest' = Manifest /\ Claim' = Claim /\ Store' = Store
         /\ Links' = Links /\ Created' = Created /\ Gathered' = Gathered
         /\ Spans' = Spans /\ Parsed' = Parsed /\ Candidates' = Candidates /\ Chain' = Chain
         /\ VisibleText' = VisibleText
<1>1. Match' = Match
  BY DEF Match
<1>2. Manifest' = Manifest
  BY <1>1 DEF Manifest
<1>3. Claim' = Claim /\ Store' = Store /\ Chain' = Chain
  BY <1>2 DEF Claim, Store, Chain
<1>4. Links' = Links /\ Created' = Created /\ Gathered' = Gathered
  BY <1>3 DEF Links, Created, Gathered
<1>5. Spans' = Spans /\ Parsed' = Parsed
  BY DEF Spans, RangeOf, Parsed
<1>6. Candidates' = Candidates
  BY <1>5 DEF Candidates, RangeOf
<1>7. VisibleText' = VisibleText
  BY <1>1 DEF VisibleText
<1>8. QED
  BY <1>1, <1>2, <1>3, <1>4, <1>5, <1>6, <1>7

----------------------------------------------------------------------------
(* Which manifest is judged.                                                  *)

Chosen ==
  \E i \in Parsed : selected = {i} /\ (Len(asset.wrappers) = 1 \/ i \in Candidates)

Selection ==
  /\ pc \in Phases /\ asset \in Assets /\ cursor \in Nat \ {0}
  /\ selected # {} => Chosen
  /\ selected = {} => pc \in {"scan", "select", "returned"} /\ ~ assertionsOk
  /\ pc \in {"scan", "select"} => selected = {}

LEMMA SelectionHolds == Spec => []Selection
<1>1. Init => Selection
  BY DEF Init, Selection, Phases, AssertionPhases, LaterPhases
<1>2. Selection /\ [Next]_vars => Selection'
  <2>. SUFFICES ASSUME Selection, [Next]_vars PROVE Selection'
    OBVIOUS
  <2>1. CASE UNCHANGED vars
    <3>1. UNCHANGED <<asset, pc, selected, cursor, assertionsOk>>
      BY <2>1 DEF vars, progress, results
    <3>2. Parsed' = Parsed /\ Candidates' = Candidates
      BY <3>1, SameManifest
    <3>3. QED
      BY <3>1, <3>2 DEF Selection, Chosen
  <2>2. CASE Scan
    <3>1. /\ pc = "scan" /\ pc' \in {"returned", "select"}
          /\ UNCHANGED <<asset, selected, cursor, assertionsOk>>
      BY <2>2 DEF Scan, Return, progress, results
    <3>2. QED
      BY <3>1 DEF Selection, Phases
  <2>3. CASE Select
    <3>. DEFINE chosen == IF Len(asset.wrappers) = 1 THEN Parsed ELSE Candidates
    <3>1. /\ pc = "select"
          /\ UNCHANGED <<asset, cursor, assertionsOk>>
          /\ \/ pc' = "claim" /\ selected' = chosen /\ Cardinality(chosen) = 1
             \/ pc' = "returned" /\ selected' = selected
      BY <2>3 DEF Select, Return, progress, results
    <3>2. CASE pc' = "returned" /\ selected' = selected
      BY <3>1, <3>2 DEF Selection, Phases
    <3>3. CASE pc' = "claim" /\ selected' = chosen /\ Cardinality(chosen) = 1
      <4>1. Candidates \subseteq Parsed /\ Parsed \subseteq DOMAIN asset.wrappers
        BY DEF Candidates, Parsed
      <4>2. IsFiniteSet(DOMAIN asset.wrappers)
        <5>1. IsSequence(asset.wrappers)
          BY AssetsAssumption DEF Selection
        <5>2. DOMAIN asset.wrappers = 1 .. Len(asset.wrappers) /\ Len(asset.wrappers) \in Nat
          BY <5>1 DEF IsSequence
        <5>3. QED
          BY <5>2, FS_Interval
      <4>3. IsFiniteSet(chosen)
        <5>1. chosen \subseteq DOMAIN asset.wrappers
          BY <4>1
        <5>2. QED
          BY <4>2, <5>1, FS_Subset
      <4>4. \E i : chosen = {i}
        BY <3>3, <4>3, FS_Singleton, Zenon
      <4>5. selected' # {} /\ \E i \in Parsed : selected' = {i} /\ (Len(asset.wrappers) = 1 \/ i \in Candidates)
        BY <3>3, <4>1, <4>4
      <4>6. Parsed' = Parsed /\ Candidates' = Candidates /\ asset' = asset
        BY <3>1 DEF Candidates, Parsed, RangeOf
      <4>7. Chosen'
        BY <4>5, <4>6 DEF Chosen
      <4>8. QED
        BY <3>1, <3>3, <4>5, <4>7 DEF Selection, Phases, AssertionPhases
    <3>4. QED
      BY <3>1, <3>2, <3>3
  <2>4. CASE JudgesAssertions
    <3>1. /\ pc \in AssertionPhases /\ pc' \in AssertionPhases \cup {"binding", "raised"}
          /\ UNCHANGED <<asset, selected>> /\ cursor' \in Nat \ {0}
      BY <2>4, AssertionFrame DEF Selection
    <3>2. selected # {}
      BY <3>1 DEF Selection, AssertionPhases
    <3>3. Parsed' = Parsed /\ Candidates' = Candidates
      BY <3>1, SameManifest
    <3>4. QED
      BY <3>1, <3>2, <3>3 DEF Selection, Chosen, Phases, AssertionPhases, LaterPhases
  <2>5. CASE JudgesTheRest
    <3>1. /\ pc \in LaterPhases /\ pc' \in (LaterPhases \ {"binding"}) \cup {"returned"}
          /\ UNCHANGED <<asset, selected, cursor, assertionsOk>>
      BY <2>5, LaterFrame
    <3>2. selected # {}
      BY <3>1 DEF Selection, LaterPhases
    <3>3. Parsed' = Parsed /\ Candidates' = Candidates
      BY <3>1, SameManifest
    <3>4. QED
      BY <3>1, <3>2, <3>3 DEF Selection, Chosen, Phases, AssertionPhases, LaterPhases
  <2>6. QED
    BY <2>1, <2>2, <2>3, <2>4, <2>5, StepIsOne
<1>3. QED
  BY <1>1, <1>2, PTL DEF Spec

Linked == {Links[i].url : i \in DOMAIN Links}

LEMMA ManifestIsThere ==
  ASSUME Selection, selected # {}
  PROVE  /\ Match \in ToSet(asset.wrappers) /\ WrapperIsFound(Match, asset.text)
         /\ Match.manifest = {Manifest} /\ ManifestIsParsed(Manifest)
         /\ \E i \in Parsed : /\ selected = {i} /\ Match = asset.wrappers[i]
                              /\ Len(asset.wrappers) = 1 \/ i \in Candidates
<1>1. PICK i \in Parsed : selected = {i} /\ (Len(asset.wrappers) = 1 \/ i \in Candidates)
  BY DEF Selection, Chosen
<1>2. Match = asset.wrappers[i]
  BY <1>1 DEF Match
<1>3. i \in DOMAIN asset.wrappers /\ asset.wrappers[i].manifest # {}
  BY DEF Parsed
<1>4. Match \in ToSet(asset.wrappers)
  BY <1>2, <1>3 DEF ToSet
<1>5. WrapperIsFound(Match, asset.text)
  BY <1>4, AssetsAssumption DEF Selection
<1>6. Manifest \in Match.manifest
  BY <1>2, <1>3 DEF Manifest
<1>7. Match.manifest = {Manifest} /\ ManifestIsParsed(Manifest)
  BY <1>5, <1>6 DEF WrapperIsFound
<1>8. QED
  BY <1>1, <1>2, <1>4, <1>5, <1>7

LEMMA LinksAreThere ==
  ASSUME Selection, selected # {}
  PROVE  /\ DOMAIN Links = 1 .. Len(Links) /\ Len(Links) \in Nat
         /\ Created \in Seq(Linked) /\ Gathered \in Seq(Linked) /\ ToSet(Created \o Gathered) = Linked
         /\ Links = Claim.created \o GatheredLinks(Claim)
<1>. DEFINE c == Claim.created
            g == GatheredLinks(Claim)
            S == ToSet(c) \cup ToSet(g)
<1>1. ManifestIsParsed(Manifest)
  BY ManifestIsThere
<1>2. IsSequence(c)
  BY <1>1 DEF ManifestIsParsed, Claim
<1>3. IsSequence(g)
  <2>1. IsSequence(<<>>)
    BY DEF IsSequence, ToSet
  <2>2. \A l \in Claim.gathered : IsSequence(l)
    BY <1>1 DEF ManifestIsParsed, Claim
  <2>3. QED
    BY <2>1, <2>2 DEF GatheredLinks
<1>4. Links = c \o g /\ Created = Urls(c) /\ Gathered = Urls(g)
  BY DEF Links, Created, Gathered
<1>5. c \in Seq(S) /\ g \in Seq(S)
  <2>1. \A A, B : A \subseteq B => Seq(A) \subseteq Seq(B)
    OBVIOUS
  <2>2. c \in Seq(ToSet(c)) /\ g \in Seq(ToSet(g))
    BY <1>2, <1>3 DEF IsSequence
  <2>. HIDE DEF c, g
  <2>3. QED
    BY <2>1, <2>2
<1>. HIDE DEF c, g, S
<1>6. /\ Len(c) \in Nat /\ Len(g) \in Nat
      /\ DOMAIN Links = 1 .. Len(c) + Len(g) /\ Len(Links) = Len(c) + Len(g)
      /\ \A i \in 1 .. Len(c) + Len(g) : Links[i] = IF i <= Len(c) THEN c[i] ELSE g[i - Len(c)]
  BY <1>4, <1>5
<1>7. /\ DOMAIN c = 1 .. Len(c) /\ DOMAIN g = 1 .. Len(g)
  BY <1>5
<1>8. ASSUME NEW i \in 1 .. Len(c) PROVE c[i].url \in Linked
  <2>1. i \in DOMAIN Links /\ Links[i] = c[i]
    BY <1>6
  <2>2. QED
    BY <2>1 DEF Linked
<1>9. ASSUME NEW i \in 1 .. Len(g) PROVE g[i].url \in Linked
  <2>1. i + Len(c) \in DOMAIN Links /\ Links[i + Len(c)] = g[i]
    BY <1>6
  <2>2. QED
    BY <2>1 DEF Linked
<1>10. /\ Created = [i \in 1 .. Len(c) |-> c[i].url]
       /\ Gathered = [i \in 1 .. Len(g) |-> g[i].url]
  BY <1>4, <1>7 DEF Urls
<1>11. Created \in Seq(Linked) /\ Gathered \in Seq(Linked)
  BY <1>6, <1>8, <1>9, <1>10
<1>12. ToSet(Created \o Gathered) = ToSet(Created) \cup ToSet(Gathered)
  BY <1>11, ToSetOfConcat
<1>13. ToSet(Created) \cup ToSet(Gathered) \subseteq Linked
  BY <1>11 DEF ToSet
<1>14. ASSUME NEW i \in DOMAIN Links PROVE Links[i].url \in ToSet(Created) \cup ToSet(Gathered)
  <2>1. CASE i <= Len(c)
    <3>1. i \in DOMAIN Created /\ Links[i].url = Created[i]
      BY <1>6, <1>10, <1>14, <2>1
    <3>2. QED
      BY <3>1 DEF ToSet
  <2>2. CASE ~ i <= Len(c)
    <3>1. i - Len(c) \in DOMAIN Gathered /\ Links[i].url = Gathered[i - Len(c)]
      BY <1>6, <1>10, <1>14, <2>2
    <3>2. QED
      BY <3>1 DEF ToSet
  <2>3. QED
    BY <2>1, <2>2
<1>15. Linked \subseteq ToSet(Created) \cup ToSet(Gathered)
  BY <1>14 DEF Linked
<1>16. QED
  BY <1>4, <1>6, <1>11, <1>12, <1>13, <1>15 DEF c, g

----------------------------------------------------------------------------
(* The cache of digests.                                                      *)

Wanted == (DOMAIN Store) \X Algorithms

TrueDigests == [k \in Wanted |-> Digest(k[2], Store[k[1]])]

CacheIsTrue ==
  /\ selected = {} => cache = <<>> /\ hashed = 0
  /\ selected # {} =>
       /\ DOMAIN cache \subseteq Wanted /\ hashed = Cardinality(DOMAIN cache)
       /\ \A k \in DOMAIN cache : cache[k] = Digest(k[2], Store[k[1]])

LEMMA WantedIsFinite ==
  ASSUME Selection, selected # {}
  PROVE  IsFiniteSet(Wanted)
<1>1. IsFiniteSet(DOMAIN Store)
  BY ManifestIsThere DEF ManifestIsParsed, Store
<1>2. IsFiniteSet(Algorithms)
  BY AssetsAssumption
<1>3. QED
  BY <1>1, <1>2, FS_Product DEF Wanted

LEMMA DigestsAreTrue ==
  ASSUME CacheIsTrue, selected # {}
  PROVE  Digests = TrueDigests
  BY DEF CacheIsTrue, Digests, TrueDigests, Wanted

LEMMA WantedDigests ==
  ASSUME NEW link
  PROVE  /\ LinkDigests(link, Store, Claim.alg) \subseteq Wanted
         /\ ReferenceDigests(link, Store, Claim.alg) \subseteq Wanted
  BY DEF LinkDigests, ReferenceDigests, ResolveAlgorithm, Wanted

LEMMA RememberKeepsTrue ==
  ASSUME Selection, CacheIsTrue, selected # {}, NEW wanted \in SUBSET Wanted, Remember(wanted),
         asset' = asset, selected' = selected
  PROVE  CacheIsTrue'
<1>. DEFINE new == DOMAIN cache \cup wanted
<1>1. /\ DOMAIN cache \subseteq Wanted /\ hashed = Cardinality(DOMAIN cache)
      /\ \A k \in DOMAIN cache : cache[k] = Digest(k[2], Store[k[1]])
  BY DEF CacheIsTrue
<1>2. /\ cache' = [k \in new |-> IF k \in DOMAIN cache THEN cache[k] ELSE Digest(k[2], Store[k[1]])]
      /\ hashed' = hashed + Cardinality(wanted \ DOMAIN cache)
  BY DEF Remember
<1>3. DOMAIN cache' = new /\ \A k \in new : cache'[k] = Digest(k[2], Store[k[1]])
  BY <1>1, <1>2
<1>4. IsFiniteSet(new) /\ IsFiniteSet(DOMAIN cache) /\ IsFiniteSet(wanted)
  <2>1. new \subseteq Wanted
    BY <1>1
  <2>2. QED
    BY <1>1, <2>1, WantedIsFinite, FS_Subset
<1>5. Cardinality(new) = Cardinality(DOMAIN cache) + Cardinality(wanted \ DOMAIN cache)
  <2>. DEFINE A == DOMAIN cache
              B == wanted \ A
  <2>1. IsFiniteSet(A) /\ IsFiniteSet(B) /\ A \cap B = {} /\ A \cup B = new
    BY <1>4, FS_Subset
  <2>. HIDE DEF A, B, new
  <2>2. Cardinality(A \cup B) = Cardinality(A) + Cardinality(B) - Cardinality(A \cap B)
    BY <2>1, FS_Union
  <2>3. Cardinality(A \cap B) = 0 /\ Cardinality(A) \in Nat /\ Cardinality(B) \in Nat
    BY <2>1, FS_EmptySet, FS_CardinalityType
  <2>4. Cardinality(new) = Cardinality(A) + Cardinality(B)
    <3>1. Cardinality(A \cup B) = Cardinality(new)
      BY <2>1, Zenon
    <3>2. QED
      BY <2>2, <2>3, <3>1
  <2>5. QED
    BY <2>4 DEF A, B
<1>6. Wanted' = Wanted /\ Store' = Store
  BY SameManifest DEF Wanted
<1>7. QED
  BY <1>1, <1>2, <1>3, <1>5, <1>6 DEF CacheIsTrue

LEMMA CacheHolds == Spec => []CacheIsTrue
<1>1. Init => CacheIsTrue
  BY DEF Init, CacheIsTrue
<1>2. Selection /\ Selection' /\ CacheIsTrue /\ [Next]_vars => CacheIsTrue'
  <2>. SUFFICES ASSUME Selection, Selection', CacheIsTrue, [Next]_vars PROVE CacheIsTrue'
    OBVIOUS
  <2>1. ASSUME UNCHANGED <<asset, selected, cache, hashed>> PROVE CacheIsTrue'
    <3>1. Wanted' = Wanted /\ Store' = Store
      BY <2>1, SameManifest DEF Wanted
    <3>2. QED
      BY <2>1, <3>1 DEF CacheIsTrue
  <2>2. CASE UNCHANGED vars
    BY <2>1, <2>2 DEF vars, progress
  <2>3. CASE Scan
    BY <2>1, <2>3 DEF Scan, Return, progress
  <2>4. CASE Select
    <3>1. \/ UNCHANGED <<asset, selected, cache, hashed>>
          \/ UNCHANGED <<cache, hashed>> /\ pc = "select"
      BY <2>4 DEF Select, Return, progress
    <3>2. CASE UNCHANGED <<cache, hashed>> /\ pc = "select"
      <4>1. cache' = <<>> /\ hashed' = 0
        BY <3>2 DEF CacheIsTrue, Selection
      <4>2. DOMAIN cache' = {} /\ Cardinality(DOMAIN cache') = 0
        BY <4>1, FS_EmptySet
      <4>3. QED
        BY <4>1, <4>2 DEF CacheIsTrue
    <3>3. QED
      BY <2>1, <3>1, <3>2
  <2>5. CASE JudgesAssertions
    <3>1. asset' = asset /\ selected' = selected /\ selected # {}
      BY <2>5, AssertionFrame DEF Selection, AssertionPhases
    <3>2. UNCHANGED <<cache, hashed>> \/ \E wanted \in SUBSET Wanted : Remember(wanted)
      <4>1. CASE CheckLink
        BY <4>1, WantedDigests DEF CheckLink
      <4>2. CASE CheckAction
        <5>1. PICK action, ds : Remember(ActionDigests(action, Store, Claim.alg, ds))
          BY <4>2 DEF CheckAction
        <5>2. \E refs : ActionDigests(action, Store, Claim.alg, ds)
                          = UNION {ReferenceDigests(r, Store, Claim.alg) : r \in refs}
          BY Zenon DEF ActionDigests
        <5>3. ActionDigests(action, Store, Claim.alg, ds) \in SUBSET Wanted
          BY <5>2, WantedDigests
        <5>4. QED
          BY <5>1, <5>3
      <4>3. CASE CheckReference
        BY <4>3, WantedDigests DEF CheckReference
      <4>4. CASE CheckClaim \/ CheckShape \/ CheckSpecific \/ AcceptAssertions
        BY <4>4 DEF CheckClaim, CheckShape, CheckSpecific, AcceptAssertions, progress
      <4>5. QED
        BY <2>5, <4>1, <4>2, <4>3, <4>4 DEF JudgesAssertions
    <3>3. QED
      BY <2>1, <3>1, <3>2, RememberKeepsTrue
  <2>6. CASE JudgesTheRest
    BY <2>1, <2>6, LaterFrame
  <2>7. QED
    BY <2>2, <2>3, <2>4, <2>5, <2>6, StepIsOne
<1>3. QED
  BY <1>1, <1>2, SelectionHolds, PTL DEF Spec

(* HashWorkIsBounded (DigestCache): whatever a store links and references, each *)
(* assertion is hashed at most once for each algorithm.                        *)
THEOREM HashingIsBounded == Spec => []HashWorkIsBounded
<1>1. CacheIsTrue => HashWorkIsBounded
  BY DEF CacheIsTrue, HashWorkIsBounded, Wanted
<1>2. QED
  BY <1>1, CacheHolds, PTL

----------------------------------------------------------------------------
(* The links of the claim.                                                    *)

LinkIsStored(link) ==
  link.url \in DOMAIN Store /\ \E a \in Algorithms : Digest(a, Store[link.url]) \in link.hash

LinksAreStored == \A i \in DOMAIN Links : LinkIsStored(Links[i])

LinksAreTrue ==
  /\ pc = "links" => \A i \in DOMAIN Links : i < cursor => LinkIsStored(Links[i])
  /\ pc \in {"actions", "references"} \/ assertionsOk => LinksAreStored

LEMMA GoodLinkIsStored ==
  ASSUME CacheIsTrue, selected # {}, NEW link, LinkStatus(link, Store, Claim.alg, Digests) = "ok"
  PROVE  LinkIsStored(link)
<1>1. link.url \in DOMAIN Store
  BY LinkedIsStored
<1>2. PICK a \in Algorithms : Digests[<<link.url, a>>] \in link.hash
  BY LinkedIsStored
<1>3. <<link.url, a>> \in Wanted
  BY <1>1 DEF Wanted
<1>4. Digests[<<link.url, a>>] = Digest(a, Store[link.url])
  BY <1>3, DigestsAreTrue DEF TrueDigests
<1>5. QED
  BY <1>1, <1>2, <1>4 DEF LinkIsStored

LEMMA LinksStayTrue ==
  ASSUME asset' = asset, selected' = selected
  PROVE  /\ \A link : LinkIsStored(link)' <=> LinkIsStored(link)
         /\ LinksAreStored' <=> LinksAreStored
  BY SameManifest DEF LinkIsStored, LinksAreStored

LEMMA LinksHold == Spec => []LinksAreTrue
<1>1. Init => LinksAreTrue
  BY DEF Init, LinksAreTrue
<1>2. Selection /\ Selection' /\ CacheIsTrue /\ LinksAreTrue /\ [Next]_vars => LinksAreTrue'
  <2>. SUFFICES ASSUME Selection, Selection', CacheIsTrue, LinksAreTrue, [Next]_vars
                PROVE  LinksAreTrue'
    OBVIOUS
  <2>1. CASE UNCHANGED vars
    <3>1. UNCHANGED <<asset, pc, selected, cursor, assertionsOk>>
      BY <2>1 DEF vars, progress, results
    <3>2. QED
      BY <3>1, LinksStayTrue, SameManifest DEF LinksAreTrue
  <2>2. CASE Scan \/ Select
    <3>1. pc' \in {"returned", "select", "claim"} /\ assertionsOk' = assertionsOk /\ ~ assertionsOk
      BY <2>2 DEF Scan, Select, Return, results, Selection
    <3>2. QED
      BY <3>1 DEF LinksAreTrue
  <2>3. CASE JudgesAssertions
    <3>1. asset' = asset /\ selected' = selected /\ selected # {}
      BY <2>3, AssertionFrame DEF Selection, AssertionPhases
    <3>2. CASE CheckClaim
      <4>1. \/ pc' = "links" /\ cursor' = 1
            \/ pc' = "binding"
        BY <3>2 DEF CheckClaim, GoTo, RejectAssertions
      <4>2. assertionsOk' = assertionsOk
        BY <3>2 DEF CheckClaim, GoTo, RejectAssertions, results
      <4>3. \A i \in DOMAIN Links : ~ i < 1
        BY LinksAreThere, <3>1
      <4>4. QED
        BY <3>1, <4>1, <4>2, <4>3, SameManifest, LinksStayTrue DEF LinksAreTrue
    <3>3. CASE CheckLink
      <4>1. /\ pc = "links" /\ assertionsOk' = assertionsOk
            /\ \/ /\ LinkStatus(Links[cursor], Store, Claim.alg, Digests) = "ok"
                  /\ pc' = "links" /\ cursor' = cursor + 1
               \/ pc' = "binding"
        BY <3>3 DEF CheckLink, GoTo, RejectAssertions, results
      <4>2. CASE /\ LinkStatus(Links[cursor], Store, Claim.alg, Digests) = "ok"
                 /\ pc' = "links" /\ cursor' = cursor + 1
        <5>1. LinkIsStored(Links[cursor])
          BY <3>1, <4>2, GoodLinkIsStored
        <5>2. \A i \in DOMAIN Links : i < cursor + 1 => i < cursor \/ i = cursor
          BY LinksAreThere, <3>1 DEF Selection
        <5>3. \A i \in DOMAIN Links : i < cursor + 1 => LinkIsStored(Links[i])
          BY <4>1, <5>1, <5>2 DEF LinksAreTrue
        <5>4. QED
          BY <3>1, <4>1, <4>2, <5>3, SameManifest, LinksStayTrue DEF LinksAreTrue
      <4>3. CASE pc' = "binding"
        BY <3>1, <4>1, <4>3, SameManifest, LinksStayTrue DEF LinksAreTrue
      <4>4. QED
        BY <4>1, <4>2, <4>3
    <3>4. CASE CheckShape
      <4>1. /\ pc = "links" /\ cursor > Len(Links) /\ pc' # "links"
        BY <3>4 DEF CheckShape, GoTo, RejectAssertions
      <4>2. \A i \in DOMAIN Links : i < cursor
        BY <3>1, <4>1, LinksAreThere DEF Selection
      <4>3. LinksAreStored
        BY <4>1, <4>2 DEF LinksAreTrue, LinksAreStored
      <4>4. QED
        BY <3>1, <4>1, <4>3, LinksStayTrue DEF LinksAreTrue
    <3>5. CASE CheckAction \/ CheckSpecific \/ CheckReference \/ AcceptAssertions
      <4>1. pc \in {"actions", "references"} /\ pc' # "links"
        <5>. USE DEF GoTo, RejectAssertions
        <5>1. CASE CheckAction
          BY <5>1 DEF CheckAction
        <5>2. CASE CheckSpecific
          BY <5>2 DEF CheckSpecific
        <5>3. CASE CheckReference
          BY <5>3 DEF CheckReference
        <5>4. CASE AcceptAssertions
          BY <5>4 DEF AcceptAssertions
        <5>5. QED
          BY <3>5, <5>1, <5>2, <5>3, <5>4
      <4>2. LinksAreStored
        BY <4>1 DEF LinksAreTrue
      <4>3. QED
        BY <3>1, <4>1, <4>2, LinksStayTrue DEF LinksAreTrue
    <3>6. QED
      BY <2>3, <3>2, <3>3, <3>4, <3>5 DEF JudgesAssertions
  <2>4. CASE JudgesTheRest
    <3>1. /\ pc' \notin {"links", "actions", "references"}
          /\ UNCHANGED <<asset, selected, assertionsOk>>
      BY <2>4, LaterFrame DEF LaterPhases
    <3>2. QED
      BY <3>1, LinksStayTrue DEF LinksAreTrue
  <2>5. QED
    BY <2>1, <2>2, <2>3, <2>4, StepIsOne
<1>3. QED
  BY <1>1, <1>2, SelectionHolds, CacheHolds, PTL DEF Spec

----------------------------------------------------------------------------
(* The actions.                                                               *)

Story == AllActions(Created, Gathered, Store)

LEMMA StoryIsThere ==
  ASSUME Selection, selected # {}, LinksAreStored
  PROVE  /\ DOMAIN Story = 1 .. Len(Story) /\ Len(Story) \in Nat
         /\ \A i \in DOMAIN Story :
              \A refs \in Story[i].ingredients \cup Story[i].related : IsSequence(refs)
         /\ InceptionStatus(Created, Gathered, Store) \in {"ok", "TypeError", "assertion.action.malformed"}
<1>. DEFINE Known == {l \in Linked : l.base \in ActionsBases}
            labels == ActionsLabels(Created) \o ActionsLabels(Gathered)
            All == UNION {ToSet(Store[l].actions) : l \in Known}
            pieces == [i \in DOMAIN labels |-> Store[labels[i]].actions]
<1>1. Linked \subseteq DOMAIN Store
  BY DEF Linked, LinksAreStored, LinkIsStored
<1>2. \A l \in Known : /\ IsSequence(Store[l].actions)
                       /\ \A a \in ToSet(Store[l].actions) :
                            \A refs \in a.ingredients \cup a.related : IsSequence(refs)
  <2>1. ManifestIsParsed(Manifest)
    BY ManifestIsThere
  <2>2. QED
    BY <1>1, <2>1 DEF ManifestIsParsed, Store
<1>3. ActionsLabels(Created) \in Seq(Known) /\ ActionsLabels(Gathered) \in Seq(Known)
  BY LinksAreThere, ActionsLabelsType
<1>4. labels \in Seq(Known)
  BY <1>3
<1>5. \A l \in Known : Store[l].actions \in Seq(All)
  <2>1. \A A, B : A \subseteq B => Seq(A) \subseteq Seq(B)
    OBVIOUS
  <2>2. \A l \in Known : ToSet(Store[l].actions) \subseteq All
    OBVIOUS
  <2>. HIDE DEF All, Known
  <2>3. QED
    BY <1>2, <2>1, <2>2 DEF IsSequence
<1>6. pieces \in Seq(Seq(All))
  <2>. HIDE DEF labels, All, Known
  <2>1. /\ DOMAIN labels = 1 .. Len(labels) /\ Len(labels) \in Nat
        /\ \A i \in 1 .. Len(labels) : labels[i] \in Known
    BY <1>4
  <2>2. \A i \in 1 .. Len(labels) : Store[labels[i]].actions \in Seq(All)
    BY <1>5, <2>1
  <2>3. QED
    BY <2>1, <2>2
<1>7. Story = FlattenSeq(pieces)
  BY DEF Story, AllActions
<1>. HIDE DEF pieces
<1>8. Story \in Seq(All)
  BY <1>6, <1>7, FlattenType
<1>9. \A a \in All : \A refs \in a.ingredients \cup a.related : IsSequence(refs)
  BY <1>2
<1>10. InceptionStatus(Created, Gathered, Store) \in {"ok", "TypeError", "assertion.action.malformed"}
  BY <1>2, LinksAreThere, InceptionStatusCode
<1>. HIDE DEF All
<1>11. QED
  BY <1>8, <1>9, <1>10

Specifics ==
  [i \in DOMAIN Links |-> SpecificStatus(Links[i].url, Store)]
    \o <<UndeclaredStatus(Created \o Gathered, Store)>>

LEMMA SpecificsAre ==
  ASSUME Selection, selected # {}
  PROVE  /\ FirstFailure(Specifics) \in AssertionCodes \cup {"ok"}
         /\ FirstFailure(Specifics) = "ok" =>
              /\ \A i \in DOMAIN Links : SpecificStatus(Links[i].url, Store) = "ok"
              /\ DOMAIN Store \subseteq Linked
<1>. DEFINE Codes == AssertionCodes \cup {"ok"}
            n == Len(Links)
            each == [i \in DOMAIN Links |-> SpecificStatus(Links[i].url, Store)]
            last == UndeclaredStatus(Created \o Gathered, Store)
<1>1. DOMAIN Links = 1 .. n /\ n \in Nat
  BY LinksAreThere
<1>2. \A i \in 1 .. n : SpecificStatus(Links[i].url, Store) \in Codes
  BY SpecificStatusCode
<1>3. last \in Codes /\ (last = "ok" => DOMAIN Store \subseteq Linked)
  <2>1. last \in {"ok", "assertion.undeclared"}
    BY DEF UndeclaredStatus
  <2>2. last = "ok" => DOMAIN Store \subseteq ToSet(Created \o Gathered)
    BY DEF UndeclaredStatus
  <2>3. QED
    BY <2>1, <2>2, LinksAreThere DEF AssertionCodes
<1>. HIDE DEF Codes, last
<1>4. each \in Seq(Codes) /\ Len(each) = n
  BY <1>1, <1>2
<1>5. Specifics = each \o <<last>>
  BY DEF Specifics, last
<1>6. \A i \in 1 .. n : each[i] = SpecificStatus(Links[i].url, Store)
  BY <1>1
<1>. HIDE DEF each, n
<1>7. /\ DOMAIN Specifics = 1 .. n + 1 /\ Specifics[n + 1] = last
      /\ \A i \in 1 .. n : Specifics[i] = each[i]
  BY <1>1, <1>3, <1>4, <1>5
<1>8. \A i \in DOMAIN Specifics : Specifics[i] \in Codes
  <2>1. \A i \in 1 .. n : each[i] \in Codes
    BY <1>4
  <2>2. \A i \in 1 .. n + 1 : i \in 1 .. n \/ i = n + 1
    BY <1>1
  <2>3. QED
    BY <1>3, <1>7, <2>1, <2>2
<1>9. DOMAIN Specifics \subseteq Nat
  BY <1>1, <1>7
<1>10. FirstFailure(Specifics) \in Codes
  BY <1>8, <1>9, FirstFailureCode DEF Codes
<1>11. ASSUME FirstFailure(Specifics) = "ok" PROVE \A i \in DOMAIN Specifics : Specifics[i] = "ok"
  BY <1>9, <1>11, FirstFailureIsOne
<1>12. \A i \in 1 .. n : i \in 1 .. n + 1
  BY <1>1
<1>13. n + 1 \in 1 .. n + 1
  BY <1>1
<1>14. QED
  BY <1>1, <1>3, <1>6, <1>7, <1>10, <1>11, <1>12, <1>13 DEF Codes

LEMMA ShapesAre ==
  ASSUME Selection, selected # {}, LinksAreStored
  PROVE  LET s == FirstFailure(<<ShapeStatus(Created, Gathered, Store),
                                 InceptionStatus(Created, Gathered, Store)>>)
         IN  /\ s \in AssertionCodes \cup {"ok", "TypeError"}
             /\ s = "ok" => InceptionCount(Created, Gathered, Store) = 1
<1>. DEFINE a == ShapeStatus(Created, Gathered, Store)
            b == InceptionStatus(Created, Gathered, Store)
            ss == <<a, b>>
            Codes == AssertionCodes \cup {"ok", "TypeError"}
<1>1. a \in Codes
  BY ShapeStatusCode
<1>2. b \in Codes
  <2>1. b \in {"ok", "TypeError", "assertion.action.malformed"}
    BY StoryIsThere
  <2>2. QED
    BY <2>1 DEF AssertionCodes
<1>3. b = "ok" => InceptionCount(Created, Gathered, Store) = 1
  BY DEF InceptionStatus
<1>. HIDE DEF a, b, Codes
<1>4. DOMAIN ss = 1 .. 2 /\ ss[1] = a /\ ss[2] = b
  OBVIOUS
<1>5. DOMAIN ss \subseteq Nat /\ \A i \in 1 .. 2 : i = 1 \/ i = 2
  BY <1>4
<1>. HIDE DEF ss
<1>6. /\ FirstFailure(ss) = "ok" <=> \A i \in DOMAIN ss : ss[i] = "ok"
      /\ FirstFailure(ss) # "ok" => \E i \in DOMAIN ss : FirstFailure(ss) = ss[i]
  BY <1>5, FirstFailureIsOne
<1>7. FirstFailure(ss) \in Codes /\ (FirstFailure(ss) = "ok" => b = "ok")
  <2>1. "ok" \in Codes
    BY DEF Codes
  <2>2. QED
    BY <1>1, <1>2, <1>4, <1>5, <1>6, <2>1
<1>8. QED
  BY <1>3, <1>7 DEF ss, a, b, Codes

(* A step of the assertion phases goes on, rejects the store or accepts it.     *)
GoesOn ==
  /\ pc' \in AssertionPhases \cup {"raised"} /\ assertionsOk' = assertionsOk
  /\ UNCHANGED statuses \/ File(<<"assertion.hashedURI.match">>)

Rejects ==
  /\ pc' = "binding" /\ assertionsOk' = assertionsOk
  /\ \E s \in AssertionCodes : File(<<s>>)

LEMMA AssertionsStep ==
  ASSUME Selection, LinksAreTrue, JudgesAssertions
  PROVE  GoesOn \/ Rejects \/ AcceptAssertions
<1>. SUFFICES ASSUME ~ AcceptAssertions PROVE GoesOn \/ Rejects
  OBVIOUS
<1>1. selected # {} /\ assertionsOk' = assertionsOk
  BY AssertionFrame DEF Selection, AssertionPhases
<1>2. ASSUME NEW s \in AssertionCodes, RejectAssertions(s) PROVE Rejects
  BY <1>1, <1>2 DEF Rejects, RejectAssertions, GoTo
<1>3. ASSUME NEW p \in AssertionPhases \cup {"raised"}, NEW c, GoTo(p, c),
             UNCHANGED statuses \/ File(<<"assertion.hashedURI.match">>)
      PROVE  GoesOn
  BY <1>1, <1>3 DEF GoesOn, GoTo
<1>4. {"links", "actions", "references", "raised"} \subseteq AssertionPhases \cup {"raised"}
  BY DEF AssertionPhases
<1>5. CASE CheckClaim
  <2>1. ClaimStatus(Claim) \in AssertionCodes \cup {"ok"}
    BY <1>1, ManifestIsThere, ClaimStatusCode DEF ManifestIsParsed, Claim
  <2>2. \/ GoTo("links", 1) /\ UNCHANGED statuses
        \/ ClaimStatus(Claim) # "ok" /\ RejectAssertions(ClaimStatus(Claim))
    BY <1>5 DEF CheckClaim
  <2>3. QED
    BY <1>2, <1>3, <1>4, <2>1, <2>2
<1>6. CASE CheckLink
  <2>1. PICK link, ds, s :
          /\ s = LinkStatus(link, Store, Claim.alg, ds)
          /\ \/ s = "ok" /\ File(<<"assertion.hashedURI.match">>) /\ GoTo("links", cursor + 1)
             \/ s # "ok" /\ RejectAssertions(s)
    BY <1>6 DEF CheckLink
  <2>2. s \in AssertionCodes \cup {"ok"}
    BY <2>1, LinkStatusCode
  <2>3. QED
    BY <1>2, <1>3, <1>4, <2>1, <2>2
<1>7. CASE CheckShape
  <2>0. LinksAreStored
    <3>1. \A i \in DOMAIN Links : i < cursor
      BY <1>1, <1>7, LinksAreThere DEF Selection, CheckShape
    <3>2. QED
      BY <1>7, <3>1 DEF CheckShape, LinksAreTrue, LinksAreStored
  <2>1. PICK s :
          /\ s = FirstFailure(<<ShapeStatus(Created, Gathered, Store),
                                InceptionStatus(Created, Gathered, Store)>>)
          /\ \/ s = "ok" /\ GoTo("actions", 1) /\ UNCHANGED statuses
             \/ s = "TypeError" /\ GoTo("raised", 1) /\ UNCHANGED statuses
             \/ s \notin {"ok", "TypeError"} /\ RejectAssertions(s)
    BY <1>7 DEF CheckShape
  <2>2. s \in AssertionCodes \cup {"ok", "TypeError"}
    BY <1>1, <2>0, <2>1, ShapesAre
  <2>3. QED
    BY <1>2, <1>3, <1>4, <2>1, <2>2
<1>8. CASE CheckAction
  <2>0. LinksAreStored
    BY <1>8 DEF CheckAction, LinksAreTrue
  <2>1. PICK s :
          /\ cursor <= Len(Story)
          /\ s = ActionStatus(Story[cursor], Created \o Gathered, Store, Claim.alg, Digests)
          /\ \/ s = "ok" /\ GoTo("actions", cursor + 1) /\ UNCHANGED statuses
             \/ s # "ok" /\ RejectAssertions(s)
    BY <1>8 DEF CheckAction, Story
  <2>2. cursor \in DOMAIN Story
    BY <1>1, <2>0, <2>1, StoryIsThere DEF Selection
  <2>3. \A refs \in Story[cursor].related : IsSequence(refs)
    BY <1>1, <2>0, <2>2, StoryIsThere
  <2>4. s \in AssertionCodes \cup {"ok"}
    BY <2>1, <2>3, ActionStatusCode
  <2>5. QED
    BY <1>2, <1>3, <1>4, <2>1, <2>4
<1>9. CASE CheckSpecific
  <2>1. PICK s :
          /\ s = FirstFailure(Specifics)
          /\ \/ s = "ok" /\ GoTo("references", 1) /\ UNCHANGED statuses
             \/ s # "ok" /\ RejectAssertions(s)
    BY <1>9 DEF CheckSpecific, Specifics
  <2>2. s \in AssertionCodes \cup {"ok"}
    BY <1>1, <2>1, SpecificsAre
  <2>3. QED
    BY <1>2, <1>3, <1>4, <2>1, <2>2
<1>10. CASE CheckReference
  <2>1. PICK ref, ds, s :
          /\ s = ReferenceStatus(ref, Store, Claim.alg, ds)
          /\ \/ s = "ok" /\ GoTo("references", cursor + 1) /\ UNCHANGED statuses
             \/ s # "ok" /\ RejectAssertions(s)
    BY <1>10 DEF CheckReference
  <2>2. s \in AssertionCodes \cup {"ok"}
    BY <2>1, LinkStatusCode
  <2>3. QED
    BY <1>2, <1>3, <1>4, <2>1, <2>2
<1>11. QED
  BY <1>5, <1>6, <1>7, <1>8, <1>9, <1>10 DEF JudgesAssertions

OneInception == InceptionCount(Created, Gathered, Store) = 1

ActionHolds(i) == IngredientStatus(Story[i], Store, Claim.alg, TrueDigests) = "ok"

StoryIsSound ==
  /\ OneInception /\ \A i \in DOMAIN Story : ActionHolds(i)
  /\ \A i \in DOMAIN Links : SpecificStatus(Links[i].url, Store) = "ok"
  /\ DOMAIN Store \subseteq Linked

StoryIsTrue ==
  /\ pc = "actions" => OneInception /\ \A i \in DOMAIN Story : i < cursor => ActionHolds(i)
  /\ pc = "references" \/ assertionsOk => StoryIsSound

LEMMA StoryStaysTrue ==
  ASSUME asset' = asset, selected' = selected
  PROVE  /\ Story' = Story /\ Linked' = Linked /\ TrueDigests' = TrueDigests
         /\ OneInception' <=> OneInception
         /\ \A i : ActionHolds(i)' <=> ActionHolds(i)
         /\ StoryIsSound' <=> StoryIsSound
<1>1. Story' = Story /\ Linked' = Linked /\ TrueDigests' = TrueDigests
  BY SameManifest DEF Story, Linked, TrueDigests, Wanted
<1>2. OneInception' <=> OneInception
  BY SameManifest DEF OneInception
<1>3. \A i : ActionHolds(i)' <=> ActionHolds(i)
  BY <1>1, SameManifest DEF ActionHolds
<1>4. StoryIsSound' <=> StoryIsSound
  BY <1>1, <1>2, <1>3, SameManifest DEF StoryIsSound
<1>5. QED
  BY <1>1, <1>2, <1>3, <1>4

LEMMA StoryHolds == Spec => []StoryIsTrue
<1>1. Init => StoryIsTrue
  BY DEF Init, StoryIsTrue
<1>2. Selection /\ Selection' /\ CacheIsTrue /\ LinksAreTrue /\ StoryIsTrue /\ [Next]_vars
        => StoryIsTrue'
  <2>. SUFFICES ASSUME Selection, Selection', CacheIsTrue, LinksAreTrue, StoryIsTrue, [Next]_vars
                PROVE  StoryIsTrue'
    OBVIOUS
  <2>1. CASE UNCHANGED vars
    <3>1. UNCHANGED <<asset, pc, selected, cursor, assertionsOk>>
      BY <2>1 DEF vars, progress, results
    <3>2. QED
      BY <3>1, StoryStaysTrue DEF StoryIsTrue
  <2>2. CASE Scan \/ Select
    <3>1. pc' \in {"returned", "select", "claim"} /\ assertionsOk' = assertionsOk /\ ~ assertionsOk
      BY <2>2 DEF Scan, Select, Return, results, Selection
    <3>2. QED
      BY <3>1 DEF StoryIsTrue
  <2>3. CASE JudgesAssertions
    <3>1. asset' = asset /\ selected' = selected /\ selected # {}
      BY <2>3, AssertionFrame DEF Selection, AssertionPhases
    <3>2. assertionsOk => StoryIsSound'
      BY <3>1, StoryStaysTrue DEF StoryIsTrue
    <3>3. CASE CheckClaim \/ CheckLink
      <4>1. pc' \in {"links", "binding"} /\ assertionsOk' = assertionsOk
        BY <3>3 DEF CheckClaim, CheckLink, GoTo, RejectAssertions, results
      <4>2. QED
        BY <3>2, <4>1 DEF StoryIsTrue
    <3>4. CASE CheckShape
      <4>0. LinksAreStored
        <5>1. \A i \in DOMAIN Links : i < cursor
          BY <3>1, <3>4, LinksAreThere DEF Selection, CheckShape
        <5>2. QED
          BY <3>4, <5>1 DEF CheckShape, LinksAreTrue, LinksAreStored
      <4>1. /\ assertionsOk' = assertionsOk /\ pc' # "references"
            /\ pc' = "actions" => cursor' = 1
                 /\ FirstFailure(<<ShapeStatus(Created, Gathered, Store),
                                   InceptionStatus(Created, Gathered, Store)>>) = "ok"
        BY <3>4 DEF CheckShape, GoTo, RejectAssertions, results
      <4>2. pc' = "actions" => OneInception
        BY <3>1, <4>0, <4>1, ShapesAre DEF OneInception
      <4>3. \A i \in DOMAIN Story : ~ i < 1
        BY <3>1, <4>0, StoryIsThere
      <4>4. QED
        BY <3>1, <3>2, <4>1, <4>2, <4>3, StoryStaysTrue DEF StoryIsTrue
    <3>5. CASE CheckAction
      <4>0. pc = "actions" /\ LinksAreStored
        BY <3>5 DEF CheckAction, LinksAreTrue
      <4>1. /\ assertionsOk' = assertionsOk /\ pc' # "references"
            /\ pc' = "actions" => /\ cursor' = cursor + 1 /\ cursor <= Len(Story)
                 /\ ActionStatus(Story[cursor], Created \o Gathered, Store, Claim.alg, Digests) = "ok"
        BY <3>5 DEF CheckAction, GoTo, RejectAssertions, results, Story
      <4>2. ASSUME pc' = "actions" PROVE ActionHolds(cursor)
        <5>1. cursor \in DOMAIN Story
          BY <3>1, <4>0, <4>1, <4>2, StoryIsThere DEF Selection
        <5>2. \A refs \in Story[cursor].related : IsSequence(refs)
          BY <3>1, <4>0, <5>1, StoryIsThere
        <5>3. Digests = TrueDigests
          BY <3>1, DigestsAreTrue
        <5>4. IngredientStatus(Story[cursor], Store, Claim.alg, Digests) = "ok"
          BY <4>1, <4>2, <5>2, ActionStatusCode
        <5>5. QED
          BY <5>3, <5>4 DEF ActionHolds
      <4>3. \A i \in DOMAIN Story : i < cursor + 1 => i < cursor \/ i = cursor
        BY <3>1, <4>0, StoryIsThere DEF Selection
      <4>4. pc' = "actions" => \A i \in DOMAIN Story : i < cursor + 1 => ActionHolds(i)
        BY <4>0, <4>2, <4>3 DEF StoryIsTrue
      <4>5. OneInception
        BY <4>0 DEF StoryIsTrue
      <4>6. QED
        BY <3>1, <3>2, <4>1, <4>4, <4>5, StoryStaysTrue DEF StoryIsTrue
    <3>6. CASE CheckSpecific
      <4>0. pc = "actions" /\ LinksAreStored
        BY <3>6 DEF CheckSpecific, LinksAreTrue
      <4>1. /\ assertionsOk' = assertionsOk /\ pc' \in {"references", "binding"}
            /\ cursor > Len(Story)
            /\ pc' = "references" => FirstFailure(Specifics) = "ok"
        BY <3>6 DEF CheckSpecific, GoTo, RejectAssertions, results, Story, Specifics
      <4>2. \A i \in DOMAIN Story : i < cursor
        BY <3>1, <4>0, <4>1, StoryIsThere DEF Selection
      <4>3. pc' = "references" => StoryIsSound
        BY <3>1, <4>0, <4>1, <4>2, SpecificsAre DEF StoryIsSound, StoryIsTrue
      <4>4. QED
        BY <3>1, <3>2, <4>1, <4>3, StoryStaysTrue DEF StoryIsTrue
    <3>7. CASE CheckReference
      <4>1. pc = "references" /\ pc' \in {"references", "binding"} /\ assertionsOk' = assertionsOk
        BY <3>7 DEF CheckReference, GoTo, RejectAssertions, results
      <4>2. QED
        BY <3>1, <4>1, StoryStaysTrue DEF StoryIsTrue
    <3>8. CASE AcceptAssertions
      <4>1. pc = "references" /\ pc' = "binding"
        BY <3>8 DEF AcceptAssertions
      <4>2. QED
        BY <3>1, <4>1, StoryStaysTrue DEF StoryIsTrue
    <3>9. QED
      BY <2>3, <3>3, <3>4, <3>5, <3>6, <3>7, <3>8 DEF JudgesAssertions
  <2>4. CASE JudgesTheRest
    <3>1. /\ pc' \notin {"links", "actions", "references"}
          /\ UNCHANGED <<asset, selected, assertionsOk>>
      BY <2>4, LaterFrame DEF LaterPhases
    <3>2. QED
      BY <3>1, StoryStaysTrue DEF StoryIsTrue
  <2>5. QED
    BY <2>1, <2>2, <2>3, <2>4, StepIsOne
<1>3. QED
  BY <1>1, <1>2, SelectionHolds, CacheHolds, LinksHold, PTL DEF Spec

(* A story that is sound has one inception, and it is a creation: an action that *)
(* needs an ingredient refers to a stored one, and every stored assertion is     *)
(* linked and therefore supported.                                              *)
LEMMA SoundStoryIsCreation ==
  ASSUME Selection, selected # {}, LinksAreStored, StoryIsSound
  PROVE  /\ \E i \in DOMAIN Story : Story[i].name = "c2pa.created"
         /\ \A i \in DOMAIN Story : Story[i].name \notin {"c2pa.opened", "c2pa.placed", "c2pa.removed"}
<1>1. ASSUME NEW url \in DOMAIN Store PROVE url.base \notin IngredientBases
  <2>1. PICK i \in DOMAIN Links : url = Links[i].url
    BY DEF StoryIsSound, Linked
  <2>2. SpecificStatus(url, Store) = "ok"
    BY <2>1 DEF StoryIsSound
  <2>3. QED
    BY <2>2, SpecificStatusCode
<1>2. ASSUME NEW refs, NEW relationship,
             IngredientsMatch(refs, relationship, Store, Claim.alg, TrueDigests),
             1 \in DOMAIN refs
      PROVE  FALSE
  <2>1. /\ ActionReferenceStatus(refs[1], Store, Claim.alg, TrueDigests) = "ok"
        /\ refs[1].url.base \in IngredientBases
    BY <1>2 DEF IngredientsMatch
  <2>2. refs[1].url # External
    BY <2>1 DEF IngredientBases, External, Label
  <2>3. ReferenceStatus(refs[1], Store, Claim.alg, TrueDigests) = "ok"
    BY <2>1, <2>2 DEF ActionReferenceStatus
  <2>4. refs[1].url \in DOMAIN Store
    BY <2>2, <2>3 DEF ReferenceStatus
  <2>5. QED
    BY <1>1, <2>1, <2>4
<1>3. ASSUME NEW i \in DOMAIN Story, Story[i].name \in {"c2pa.opened", "c2pa.placed", "c2pa.removed"}
      PROVE  FALSE
  <2>. DEFINE action == Story[i]
              match(relationship) == \A refs \in action.ingredients :
                IngredientsMatch(refs, relationship, Store, Claim.alg, TrueDigests)
  <2>1. IngredientStatus(action, Store, Claim.alg, TrueDigests) = "ok"
    BY DEF StoryIsSound, ActionHolds
  <2>2. /\ action.name # "c2pa.removed"
        /\ action.name = "c2pa.opened" => action.ingredients # {} /\ match("parentOf")
        /\ action.name = "c2pa.placed" => action.ingredients # {} /\ match("componentOf")
    BY <2>1 DEF IngredientStatus
  <2>3. PICK refs \in action.ingredients : \E relationship :
          IngredientsMatch(refs, relationship, Store, Claim.alg, TrueDigests)
    <3>1. action.ingredients # {} /\ (match("parentOf") \/ match("componentOf"))
      BY <1>3, <2>2
    <3>2. QED
      BY <3>1, Zenon
  <2>4. refs # <<>>
    BY <2>3 DEF IngredientsMatch
  <2>5. IsSequence(refs)
    BY StoryIsThere
  <2>6. 1 \in DOMAIN refs
    BY <2>4, <2>5 DEF IsSequence
  <2>7. QED
    BY <1>2, <2>3, <2>6
<1>4. \E i \in DOMAIN Story : Story[i].name \in Inceptions
  <2>1. Cardinality({i \in DOMAIN Story : Story[i].name \in Inceptions}) = 1
    BY DEF StoryIsSound, OneInception, InceptionCount, Story
  <2>2. {i \in DOMAIN Story : Story[i].name \in Inceptions} # {}
    BY <2>1, FS_EmptySet
  <2>3. QED
    BY <2>2
<1>5. QED
  BY <1>3, <1>4 DEF Inceptions

----------------------------------------------------------------------------
(* What is filed, and what the flags say about it.                             *)

Filed == ToSet(success) \cup ToSet(informational) \cup ToSet(failure)

Fatal == ToSet(failure) \ {Untrusted}

Provenances == {"UNMARKED", "INVALID", "VALID", "TRUSTED"}

LEMMA FileOne ==
  ASSUME BucketsType, NEW c \in AllCodes, File(<<c>>)
  PROVE  BucketsType' /\ Grows /\ Adds({c})
<1>1. <<c>> \in Seq(AllCodes)
  OBVIOUS
<1>2. ToSet(<<c>>) = {c}
  BY DEF ToSet
<1>3. BucketsType' /\ Grows /\ Adds(ToSet(<<c>>))
  BY <1>1, FileAdds
<1>4. QED
  BY <1>2, <1>3, Zenon

LEMMA AddsToFiled ==
  ASSUME NEW codes \in SUBSET AllCodes, Adds(codes)
  PROVE  /\ Filed' = Filed \cup codes
         /\ Fatal' = Fatal \cup (codes \cap (FailureCodes \ {Untrusted}))
         /\ ToSet(success') = ToSet(success) \cup (codes \cap SuccessCodes)
<1>1. codes = (codes \cap SuccessCodes) \cup (codes \cap InformationalCodes) \cup (codes \cap FailureCodes)
  BY DEF AllCodes
<1>2. Filed' = Filed \cup codes
  BY <1>1 DEF Adds, Filed
<1>3. Fatal' = Fatal \cup (codes \cap (FailureCodes \ {Untrusted}))
  BY DEF Adds, Fatal
<1>4. QED
  BY <1>2, <1>3 DEF Adds

(* The two steps before a manifest is judged.                                  *)
LEMMA ScanStep ==
  ASSUME Selection, BucketsType, Scan \/ Select, pc = "select" => asset.wrappers # <<>>
  PROVE  /\ UNCHANGED <<asset, context, assertionsOk, bindingOk, signatureOk, trusted>>
         /\ \/ /\ pc' = "select" /\ UNCHANGED statuses /\ asset.wrappers # <<>>
            \/ /\ pc' = "claim" /\ UNCHANGED statuses
            \/ /\ pc' = "returned" /\ state' = "UNMARKED" /\ File(<<>>)
            \/ /\ pc' = "returned" /\ state' = "INVALID"
               /\ \E c \in FailureCodes \ {Untrusted} : File(<<c>>)
         /\ pc' = "returned" => selected' = {}
         /\ pc \in {"scan", "select"}
<1>1. {"manifest.text.corruptedWrapper", "manifest.text.multipleWrappers",
       "assertion.dataHash.malformed"} \subseteq FailureCodes \ {Untrusted}
  BY DEF FailureCodes, ParseErrors, Untrusted
<1>2. CASE Scan
  BY <1>1, <1>2 DEF Scan, Return, progress, results, Selection
<1>3. CASE Select
  <2>1. asset.wrappers # <<>> /\ pc = "select" /\ selected = {}
    BY <1>3 DEF Select, Selection
  <2>2. Parsed = {} => asset.wrappers[1].error \in FailureCodes \ {Untrusted}
    <3>1. IsSequence(asset.wrappers) /\ \A w \in ToSet(asset.wrappers) : WrapperIsFound(w, asset.text)
      BY AssetsAssumption DEF Selection
    <3>2. 1 \in DOMAIN asset.wrappers
      BY <2>1, <3>1 DEF IsSequence
    <3>3. asset.wrappers[1] \in ToSet(asset.wrappers)
      BY <3>2 DEF ToSet
    <3>4. Parsed = {} => asset.wrappers[1].manifest = {}
      BY <3>2 DEF Parsed
    <3>5. QED
      BY <3>1, <3>3, <3>4, KindsAreApart DEF WrapperIsFound
  <2>3. \/ pc' = "claim" /\ UNCHANGED <<asset, context, results, statuses>>
        \/ Return("INVALID", <<"manifest.text.multipleWrappers">>)
        \/ Parsed = {} /\ Return("INVALID", <<asset.wrappers[1].error>>)
        \/ Return("INVALID", <<"assertion.dataHash.malformed">>)
    BY <1>3 DEF Select
  <2>4. \/ pc' = "claim" /\ UNCHANGED <<asset, context, results, statuses>>
        \/ \E c \in FailureCodes \ {Untrusted} : Return("INVALID", <<c>>)
    BY <1>1, <2>2, <2>3
  <2>5. QED
    BY <2>1, <2>4 DEF Return, results, progress
<1>4. QED
  BY <1>2, <1>3

Bindings == BindingStatuses(asset.text, HashData(Manifest), Claim.alg, Spans)

Signed == SignatureStatus(Manifest.signature, Claim)

LEMMA BindingsAre ==
  /\ Bindings \in Seq(AllCodes)
  /\ ToSet(Bindings) \subseteq BindingCodes \cup {"assertion.dataHash.match",
                                                "assertion.dataHash.additionalExclusionsPresent"}
  /\ "assertion.dataHash.match" \in ToSet(Bindings) <=> ToSet(Bindings) \cap BindingCodes = {}
<1>. DEFINE Codes == BindingCodes \cup {"assertion.dataHash.match"}
            Extra == "assertion.dataHash.additionalExclusionsPresent"
<1>1. \/ \E c \in Codes : Bindings = <<c>>
      \/ \E c \in Codes : Bindings = <<Extra, c>>
  BY BindingStatusesAre DEF Bindings
<1>2. Codes \subseteq AllCodes /\ Extra \in AllCodes /\ Extra \notin Codes
  BY DEF AllCodes, BindingCodes, SuccessCodes, InformationalCodes, FailureCodes, AssertionCodes
<1>3. "assertion.dataHash.match" \notin BindingCodes
  BY DEF BindingCodes
<1>4. \A c, d : ToSet(<<c>>) = {c} /\ ToSet(<<c, d>>) = {c, d}
  BY DEF ToSet
<1>5. CASE \E c \in Codes : Bindings = <<c>>
  <2>1. PICK c \in Codes : Bindings = <<c>>
    BY <1>5
  <2>2. ToSet(Bindings) = {c}
    BY <1>4, <2>1, Zenon
  <2>3. Bindings \in Seq(AllCodes)
    BY <1>2, <2>1
  <2>4. QED
    BY <1>3, <2>1, <2>2, <2>3
<1>6. CASE \E c \in Codes : Bindings = <<Extra, c>>
  <2>1. PICK c \in Codes : Bindings = <<Extra, c>>
    BY <1>6
  <2>2. ToSet(Bindings) = {Extra, c}
    BY <1>4, <2>1, Zenon
  <2>3. Bindings \in Seq(AllCodes)
    BY <1>2, <2>1
  <2>4. QED
    BY <1>2, <1>3, <2>1, <2>2, <2>3
<1>7. QED
  BY <1>1, <1>5, <1>6

LEMMA BindingStep ==
  ASSUME BucketsType, CheckBinding
  PROVE  /\ BucketsType' /\ Grows /\ Adds(ToSet(Bindings)) /\ ToSet(Bindings) \subseteq AllCodes
         /\ bindingOk' = ("assertion.dataHash.match" \in ToSet(Bindings))
         /\ pc = "binding" /\ pc' = "signature"
         /\ UNCHANGED <<signatureOk, trusted>>
<1>1. File(Bindings) /\ bindingOk' = ("assertion.dataHash.match" \in ToSet(Bindings))
  BY DEF CheckBinding, Bindings
<1>2. BucketsType' /\ Grows /\ Adds(ToSet(Bindings))
  BY <1>1, BindingsAre, FileAdds
<1>3. ToSet(Bindings) \subseteq AllCodes
  BY BindingsAre DEF ToSet
<1>4. pc = "binding" /\ pc' = "signature" /\ UNCHANGED <<signatureOk, trusted>>
  BY DEF CheckBinding
<1>5. QED
  BY <1>1, <1>2, <1>3, <1>4

LEMMA SignatureStep ==
  ASSUME BucketsType, CheckSignature
  PROVE  /\ BucketsType' /\ Grows /\ Adds({Signed}) /\ Signed \in AllCodes
         /\ UNCHANGED <<bindingOk, signatureOk, trusted>> /\ pc = "signature"
         /\ \/ pc' = "credential" /\ Signed = "claimSignature.validated"
            \/ pc' = "conclude" /\ Signed \in SignatureCodes
<1>1. /\ File(<<Signed>>) /\ UNCHANGED <<bindingOk, signatureOk, trusted>> /\ pc = "signature"
      /\ pc' = IF Signed = "claimSignature.validated" THEN "credential" ELSE "conclude"
  BY DEF CheckSignature, Signed, results
<1>2. /\ Signed \in SignatureCodes \cup {"claimSignature.validated"}
      /\ SignatureCodes \subseteq AllCodes /\ "claimSignature.validated" \in AllCodes
  BY SignatureStatusCode DEF Signed, AllCodes, SuccessCodes
<1>3. BucketsType' /\ Grows /\ Adds({Signed})
  BY <1>1, <1>2, FileOne
<1>4. QED
  BY <1>1, <1>2, <1>3

LEMMA CredentialStep ==
  ASSUME BucketsType, JudgeCredential
  PROVE  /\ pc = "credential" /\ pc' = "conclude" /\ bindingOk' = bindingOk
         /\ BucketsType' /\ Grows
         /\ \/ /\ Adds({"claimSignature.outsideValidity"}) /\ UNCHANGED <<signatureOk, trusted>>
            \/ /\ signatureOk' = TRUE /\ trusted' = TRUE
               /\ Adds({"claimSignature.insideValidity", "signingCredential.trusted"})
            \/ /\ signatureOk' = TRUE /\ trusted' = FALSE
               /\ Adds({"claimSignature.insideValidity", Untrusted})
         /\ \/ UNCHANGED signatureOk
            \/ \E t \in Instants : \A i \in DOMAIN Chain : t \in Chain[i].from .. Chain[i].to
<1>1. pc = "credential" /\ pc' = "conclude" /\ bindingOk' = bindingOk
  BY DEF JudgeCredential
<1>2. PICK t \in Instants :
        \/ /\ File(<<"claimSignature.outsideValidity">>) /\ UNCHANGED <<signatureOk, trusted>>
        \/ /\ OutsideValidity(Chain, t) = {}
           /\ File(<<"claimSignature.insideValidity",
                     IF IsTrusted(context) THEN "signingCredential.trusted"
                     ELSE "signingCredential.untrusted">>)
           /\ signatureOk' = TRUE /\ trusted' = IsTrusted(context)
  BY DEF JudgeCredential
<1>3. {"claimSignature.outsideValidity", "claimSignature.insideValidity",
       "signingCredential.trusted", Untrusted} \subseteq AllCodes
  BY DEF AllCodes, SuccessCodes, FailureCodes, Untrusted
<1>4. ASSUME File(<<"claimSignature.outsideValidity">>)
      PROVE  BucketsType' /\ Grows /\ Adds({"claimSignature.outsideValidity"})
  BY <1>3, <1>4, FileOne
<1>5. ASSUME NEW c \in AllCodes, NEW d \in AllCodes, File(<<c, d>>)
      PROVE  BucketsType' /\ Grows /\ Adds({c, d})
  <2>1. <<c, d>> \in Seq(AllCodes)
    OBVIOUS
  <2>2. ToSet(<<c, d>>) = {c, d}
    BY DEF ToSet
  <2>3. BucketsType' /\ Grows /\ Adds(ToSet(<<c, d>>))
    BY <1>5, <2>1, FileAdds
  <2>4. QED
    BY <2>2, <2>3, Zenon
<1>6. OutsideValidity(Chain, t) = {} => \A i \in DOMAIN Chain : t \in Chain[i].from .. Chain[i].to
  BY DEF OutsideValidity
<1>7. IsTrusted(context) \in BOOLEAN
  BY DEF IsTrusted
<1>8. CASE File(<<"claimSignature.outsideValidity">>) /\ UNCHANGED <<signatureOk, trusted>>
  BY <1>1, <1>4, <1>8
<1>9. CASE /\ OutsideValidity(Chain, t) = {}
           /\ File(<<"claimSignature.insideValidity",
                     IF IsTrusted(context) THEN "signingCredential.trusted"
                     ELSE "signingCredential.untrusted">>)
           /\ signatureOk' = TRUE /\ trusted' = IsTrusted(context)
  <2>1. CASE IsTrusted(context)
    <3>1. File(<<"claimSignature.insideValidity", "signingCredential.trusted">>)
      BY <1>9, <2>1, Zenon
    <3>2. BucketsType' /\ Grows /\ Adds({"claimSignature.insideValidity", "signingCredential.trusted"})
      BY <1>3, <1>5, <3>1
    <3>3. QED
      BY <1>1, <1>6, <1>7, <1>9, <2>1, <3>2
  <2>2. CASE ~ IsTrusted(context)
    <3>1. File(<<"claimSignature.insideValidity", Untrusted>>)
      BY <1>9, <2>2, Zenon DEF Untrusted
    <3>2. BucketsType' /\ Grows /\ Adds({"claimSignature.insideValidity", Untrusted})
      BY <1>3, <1>5, <3>1
    <3>3. QED
      BY <1>1, <1>6, <1>7, <1>9, <2>2, <3>2
  <2>3. QED
    BY <2>1, <2>2
<1>10. QED
  BY <1>2, <1>8, <1>9

Outcomes ==
  /\ BucketsType
  /\ assertionsOk \in BOOLEAN /\ bindingOk \in BOOLEAN /\ signatureOk \in BOOLEAN /\ trusted \in BOOLEAN
  /\ pc \in {"scan", "select"} => success = <<>> /\ informational = <<>> /\ failure = <<>>
  /\ pc = "select" => asset.wrappers # <<>>
  /\ pc \in {"scan", "select", "raised"} \cup AssertionPhases => ~ assertionsOk /\ Fatal = {}
  /\ pc \in {"scan", "select", "raised", "binding"} \cup AssertionPhases => ~ bindingOk
  /\ pc \notin {"conclude", "returned"} => ~ signatureOk /\ ~ trusted
  /\ pc \in LaterPhases =>
       (Fatal = {} <=> assertionsOk /\ (pc # "binding" => bindingOk) /\ (pc = "conclude" => signatureOk))
  /\ "assertion.dataHash.match" \in ToSet(success) <=> bindingOk
  /\ "claimSignature.insideValidity" \in ToSet(success) <=> signatureOk
  /\ "signingCredential.trusted" \in ToSet(success) <=> trusted
  /\ pc = "returned" =>
       /\ state \in Provenances /\ Verdict!Explains(state, success, informational, failure)
       /\ state \in {"VALID", "TRUSTED"} =>
            assertionsOk /\ bindingOk /\ signatureOk /\ selected # {}

Marks == {"assertion.dataHash.match", "claimSignature.insideValidity", "signingCredential.trusted"}

LEMMA MarksAreSuccess ==
  /\ Marks \subseteq SuccessCodes /\ "assertion.hashedURI.match" \in SuccessCodes \ Marks
  /\ "claimSignature.validated" \in SuccessCodes \ Marks
  /\ AssertionCodes \cap SuccessCodes = {} /\ SignatureCodes \cap SuccessCodes = {}
  /\ BindingCodes \cap SuccessCodes = {}
  /\ "assertion.dataHash.additionalExclusionsPresent" \notin SuccessCodes \cup FailureCodes
  /\ "claimSignature.outsideValidity" \in FailureCodes \ ({Untrusted} \cup SuccessCodes)
  /\ Untrusted \notin SuccessCodes
  /\ SuccessCodes \cap FailureCodes = {}
  BY DEF Marks, SuccessCodes, AssertionCodes, SignatureCodes, BindingCodes, FailureCodes, Untrusted,
         ParseErrors

LEMMA OutcomesStayDuringAssertions ==
  ASSUME Selection, LinksAreTrue, Outcomes, JudgesAssertions
  PROVE  Outcomes'
<1>1. /\ pc \in AssertionPhases /\ pc' \in AssertionPhases \cup {"binding", "raised"}
      /\ UNCHANGED <<asset, bindingOk, signatureOk, trusted>>
      /\ \/ AcceptAssertions /\ pc' = "binding" /\ assertionsOk' = TRUE
         \/ ~ AcceptAssertions /\ assertionsOk' = assertionsOk
  BY AssertionFrame
<1>2. /\ BucketsType /\ ~ assertionsOk /\ Fatal = {} /\ ~ bindingOk /\ ~ signatureOk /\ ~ trusted
      /\ ToSet(success) \cap Marks = {}
      /\ bindingOk \in BOOLEAN /\ signatureOk \in BOOLEAN /\ trusted \in BOOLEAN /\ assertionsOk \in BOOLEAN
  <2>1. pc \notin {"conclude", "returned"}
    BY <1>1 DEF AssertionPhases
  <2>2. QED
    BY <1>1, <2>1 DEF Outcomes, Marks
<1>3. ASSUME BucketsType', ToSet(success') \cap Marks = {}, assertionsOk' \in BOOLEAN,
             pc' # "binding" => ~ assertionsOk' /\ Fatal' = {},
             pc' = "binding" => (Fatal' = {} <=> assertionsOk')
      PROVE  Outcomes'
  <2>1. /\ "assertion.dataHash.match" \notin ToSet(success')
        /\ "claimSignature.insideValidity" \notin ToSet(success')
        /\ "signingCredential.trusted" \notin ToSet(success')
    BY <1>3 DEF Marks
  <2>2. pc' \in {"raised", "binding"} \cup AssertionPhases
    BY <1>1
  <2>3. pc' \notin {"scan", "select", "conclude", "returned"}
    BY <2>2 DEF AssertionPhases
  <2>4. pc' \in LaterPhases => pc' = "binding"
    BY <2>2 DEF AssertionPhases, LaterPhases
  <2>5. pc' \in {"scan", "select", "raised"} \cup AssertionPhases => pc' # "binding"
    BY DEF AssertionPhases
  <2>6. QED
    BY <1>1, <1>2, <1>3, <2>1, <2>3, <2>4, <2>5 DEF Outcomes
<1>4. CASE AcceptAssertions
  <2>1. UNCHANGED statuses
    BY <1>4 DEF AcceptAssertions
  <2>2. BucketsType' /\ Fatal' = Fatal /\ success' = success
    BY <1>2, <2>1 DEF BucketsType, Fatal, statuses
  <2>3. QED
    BY <1>1, <1>2, <1>3, <1>4, <2>2
<1>5. CASE GoesOn
  <2>1. PICK codes \in SUBSET {"assertion.hashedURI.match"} : BucketsType' /\ Adds(codes)
    <3>1. CASE UNCHANGED statuses
      BY <1>2, <3>1, FileNothing
    <3>2. CASE File(<<"assertion.hashedURI.match">>)
      <4>1. "assertion.hashedURI.match" \in AllCodes
        BY DEF AllCodes, SuccessCodes
      <4>2. QED
        BY <1>2, <3>2, <4>1, FileOne
    <3>3. QED
      BY <1>5, <3>1, <3>2 DEF GoesOn
  <2>2. codes \in SUBSET AllCodes /\ codes \cap Marks = {} /\ codes \cap FailureCodes = {}
    BY MarksAreSuccess DEF AllCodes
  <2>3. Fatal' = {} /\ ToSet(success') \cap Marks = {}
    BY <1>2, <2>1, <2>2, AddsToFiled
  <2>4. pc' # "binding" /\ ~ assertionsOk' /\ assertionsOk' \in BOOLEAN
    BY <1>2, <1>5 DEF GoesOn, AssertionPhases
  <2>5. QED
    BY <1>3, <2>1, <2>3, <2>4
<1>6. CASE Rejects
  <2>1. PICK s \in AssertionCodes : File(<<s>>)
    BY <1>6 DEF Rejects
  <2>2. s \in AllCodes /\ s \notin SuccessCodes /\ s \in FailureCodes \ {Untrusted}
    BY KindsAreApart, MarksAreSuccess DEF AllCodes
  <2>3. BucketsType' /\ Adds({s})
    BY <1>2, <2>1, <2>2, FileOne
  <2>4. Fatal' # {} /\ ToSet(success') \cap Marks = {}
    BY <1>2, <2>2, <2>3, AddsToFiled
  <2>5. pc' = "binding" /\ ~ assertionsOk' /\ assertionsOk' \in BOOLEAN
    BY <1>2, <1>6 DEF Rejects
  <2>6. QED
    BY <1>3, <2>3, <2>4, <2>5
<1>7. QED
  BY <1>4, <1>5, <1>6, AssertionsStep

LEMMA OutcomesStayLater ==
  ASSUME Selection, Outcomes, JudgesTheRest
  PROVE  Outcomes'
<1>. USE DEF Outcomes, LaterPhases, AssertionPhases
<1>0. /\ BucketsType /\ assertionsOk' = assertionsOk /\ asset' = asset /\ selected' = selected
      /\ assertionsOk \in BOOLEAN /\ bindingOk \in BOOLEAN /\ signatureOk \in BOOLEAN /\ trusted \in BOOLEAN
      /\ selected # {}
  BY LaterFrame DEF Selection
<1>1. CASE CheckBinding
  <2>1. /\ BucketsType' /\ Adds(ToSet(Bindings)) /\ ToSet(Bindings) \subseteq AllCodes
        /\ bindingOk' = ("assertion.dataHash.match" \in ToSet(Bindings))
        /\ pc = "binding" /\ pc' = "signature" /\ UNCHANGED <<signatureOk, trusted>>
    BY <1>0, <1>1, BindingStep
  <2>2. /\ Fatal' = Fatal \cup (ToSet(Bindings) \cap (FailureCodes \ {Untrusted}))
        /\ ToSet(success') = ToSet(success) \cup (ToSet(Bindings) \cap SuccessCodes)
    BY <2>1, AddsToFiled
  <2>3. ToSet(Bindings) \cap (FailureCodes \ {Untrusted}) = ToSet(Bindings) \cap BindingCodes
    BY BindingsAre, KindsAreApart, MarksAreSuccess DEF Marks
  <2>4. Fatal' = {} <=> Fatal = {} /\ bindingOk'
    BY <2>1, <2>2, <2>3, BindingsAre
  <2>5. ToSet(Bindings) \cap SuccessCodes \subseteq {"assertion.dataHash.match"}
    BY BindingsAre, MarksAreSuccess
  <2>6. /\ "assertion.dataHash.match" \in ToSet(success') <=> bindingOk'
        /\ "claimSignature.insideValidity" \notin ToSet(success')
        /\ "signingCredential.trusted" \notin ToSet(success')
    BY <2>1, <2>2, <2>5, MarksAreSuccess DEF Marks
  <2>7. QED
    BY <1>0, <2>1, <2>4, <2>6
<1>2. CASE CheckSignature
  <2>1. /\ BucketsType' /\ Adds({Signed}) /\ Signed \in AllCodes
        /\ UNCHANGED <<bindingOk, signatureOk, trusted>> /\ pc = "signature"
        /\ \/ pc' = "credential" /\ Signed = "claimSignature.validated"
           \/ pc' = "conclude" /\ Signed \in SignatureCodes
    BY <1>0, <1>2, SignatureStep
  <2>2. /\ Fatal' = Fatal \cup ({Signed} \cap (FailureCodes \ {Untrusted}))
        /\ ToSet(success') = ToSet(success) \cup ({Signed} \cap SuccessCodes)
    BY <2>1, AddsToFiled
  <2>3. Signed \notin Marks
    BY <2>1, MarksAreSuccess
  <2>4. /\ "assertion.dataHash.match" \in ToSet(success') <=> bindingOk'
        /\ "claimSignature.insideValidity" \in ToSet(success') <=> signatureOk'
        /\ "signingCredential.trusted" \in ToSet(success') <=> trusted'
    BY <2>1, <2>2, <2>3 DEF Marks
  <2>5. SignatureCodes \subseteq FailureCodes \ {Untrusted}
    BY SignatureStatusCode
  <2>6. pc' = "conclude" => Fatal' # {}
    BY <2>1, <2>2, <2>5
  <2>7. pc' = "credential" => Fatal' = Fatal
    BY <2>1, <2>2, MarksAreSuccess
  <2>8. QED
    BY <1>0, <2>1, <2>4, <2>6, <2>7
<1>3. CASE JudgeCredential
  <2>1. /\ pc = "credential" /\ pc' = "conclude" /\ bindingOk' = bindingOk /\ BucketsType'
        /\ \/ /\ Adds({"claimSignature.outsideValidity"}) /\ UNCHANGED <<signatureOk, trusted>>
           \/ /\ signatureOk' = TRUE /\ trusted' = TRUE
              /\ Adds({"claimSignature.insideValidity", "signingCredential.trusted"})
           \/ /\ signatureOk' = TRUE /\ trusted' = FALSE
              /\ Adds({"claimSignature.insideValidity", Untrusted})
    BY <1>0, <1>3, CredentialStep
  <2>2. ~ signatureOk /\ ~ trusted /\ (Fatal = {} <=> assertionsOk /\ bindingOk)
    BY <2>1
  <2>3. {"claimSignature.outsideValidity", "claimSignature.insideValidity",
         "signingCredential.trusted", Untrusted} \subseteq AllCodes
    BY DEF AllCodes, SuccessCodes, FailureCodes, Untrusted
  <2>4. CASE Adds({"claimSignature.outsideValidity"}) /\ UNCHANGED <<signatureOk, trusted>>
    <3>1. /\ Fatal' = Fatal \cup ({"claimSignature.outsideValidity"} \cap (FailureCodes \ {Untrusted}))
          /\ ToSet(success') = ToSet(success) \cup ({"claimSignature.outsideValidity"} \cap SuccessCodes)
      BY <2>3, <2>4, AddsToFiled
    <3>2. Fatal' # {} /\ ToSet(success') = ToSet(success)
      BY <3>1, MarksAreSuccess
    <3>3. QED
      BY <1>0, <2>1, <2>2, <2>4, <3>2
  <2>5. CASE /\ signatureOk' = TRUE /\ trusted' = TRUE
             /\ Adds({"claimSignature.insideValidity", "signingCredential.trusted"})
    <3>1. /\ Fatal' = Fatal \cup ({"claimSignature.insideValidity", "signingCredential.trusted"}
                                     \cap (FailureCodes \ {Untrusted}))
          /\ ToSet(success') = ToSet(success)
               \cup ({"claimSignature.insideValidity", "signingCredential.trusted"} \cap SuccessCodes)
      BY <2>3, <2>5, AddsToFiled
    <3>2. Fatal' = Fatal
      BY <3>1, MarksAreSuccess DEF Marks
    <3>3. ToSet(success') = ToSet(success) \cup {"claimSignature.insideValidity", "signingCredential.trusted"}
      BY <3>1, MarksAreSuccess DEF Marks
    <3>4. QED
      BY <1>0, <2>1, <2>2, <2>5, <3>2, <3>3
  <2>6. CASE /\ signatureOk' = TRUE /\ trusted' = FALSE
             /\ Adds({"claimSignature.insideValidity", Untrusted})
    <3>1. /\ Fatal' = Fatal \cup ({"claimSignature.insideValidity", Untrusted} \cap (FailureCodes \ {Untrusted}))
          /\ ToSet(success') = ToSet(success) \cup ({"claimSignature.insideValidity", Untrusted} \cap SuccessCodes)
      BY <2>3, <2>6, AddsToFiled
    <3>2. Fatal' = Fatal
      BY <3>1, MarksAreSuccess DEF Marks
    <3>3. ToSet(success') = ToSet(success) \cup {"claimSignature.insideValidity"}
      BY <3>1, MarksAreSuccess DEF Marks
    <3>4. QED
      BY <1>0, <2>1, <2>2, <2>6, <3>2, <3>3
  <2>7. QED
    BY <2>1, <2>4, <2>5, <2>6
<1>4. CASE Conclude
  <2>1. /\ pc = "conclude" /\ pc' = "returned" /\ UNCHANGED <<bindingOk, signatureOk, trusted>>
        /\ UNCHANGED <<success, informational, failure>>
        /\ state' = IF assertionsOk /\ bindingOk /\ signatureOk
                    THEN IF trusted THEN "TRUSTED" ELSE "VALID" ELSE "INVALID"
    BY <1>4 DEF Conclude, results, statuses
  <2>2. Fatal = {} <=> assertionsOk /\ bindingOk /\ signatureOk
    BY <2>1
  <2>3. BucketsType' /\ Fatal' = Fatal
    BY <1>0, <2>1 DEF BucketsType, Fatal
  <2>4. signatureOk => success # <<>>
    <3>1. ToSet(<<>>) = {}
      BY DEF ToSet
    <3>2. QED
      BY <3>1
  <2>5. /\ state' \in Provenances
        /\ state' \in {"VALID", "TRUSTED"} => assertionsOk /\ bindingOk /\ signatureOk
    BY <2>1 DEF Provenances
  <2>6. Verdict!Explains(state', success', informational', failure')
    <3>1. Verdict!ToSet(failure) \ {"signingCredential.untrusted"} = Fatal
      BY DEF Verdict!ToSet, ToSet, Fatal, Untrusted
    <3>2. "signingCredential.trusted" \in Verdict!ToSet(success) <=> trusted
      BY DEF Verdict!ToSet, ToSet
    <3>3. CASE Fatal = {} /\ trusted
      BY <1>0, <2>1, <2>2, <3>1, <3>2, <3>3 DEF Verdict!Explains
    <3>4. CASE Fatal = {} /\ ~ trusted
      BY <1>0, <2>1, <2>2, <2>4, <3>1, <3>2, <3>4 DEF Verdict!Explains
    <3>5. CASE Fatal # {}
      BY <1>0, <2>1, <2>2, <3>1, <3>5 DEF Verdict!Explains
    <3>6. QED
      BY <3>3, <3>4, <3>5
  <2>7. QED
    BY <1>0, <2>1, <2>3, <2>5, <2>6
<1>5. QED
  BY <1>1, <1>2, <1>3, <1>4 DEF JudgesTheRest

LEMMA OutcomesStayAtFirst ==
  ASSUME Selection, Outcomes, Scan \/ Select
  PROVE  Outcomes'
<1>1. /\ UNCHANGED <<asset, context, assertionsOk, bindingOk, signatureOk, trusted>>
      /\ \/ pc' = "select" /\ UNCHANGED statuses /\ asset.wrappers # <<>>
         \/ pc' = "claim" /\ UNCHANGED statuses
         \/ pc' = "returned" /\ state' = "UNMARKED" /\ File(<<>>)
         \/ /\ pc' = "returned" /\ state' = "INVALID"
            /\ \E c \in FailureCodes \ {Untrusted} : File(<<c>>)
      /\ pc \in {"scan", "select"}
  BY ScanStep DEF Outcomes
<1>2. /\ BucketsType /\ success = <<>> /\ informational = <<>> /\ failure = <<>>
      /\ assertionsOk = FALSE /\ bindingOk = FALSE /\ signatureOk = FALSE /\ trusted = FALSE
  <2>1. pc \notin {"conclude", "returned"}
    BY <1>1
  <2>2. QED
    BY <1>1, <2>1 DEF Outcomes
<1>3. ToSet(<<>>) = {} /\ <<>> \o <<>> \o <<>> = <<>>
  BY DEF ToSet
<1>4. CASE pc' \in {"select", "claim"} /\ UNCHANGED statuses /\ (pc' = "select" => asset.wrappers # <<>>)
  <2>1. success' = <<>> /\ informational' = <<>> /\ failure' = <<>>
    BY <1>2, <1>4 DEF statuses
  <2>2. BucketsType' /\ Fatal' = {} /\ ToSet(success') = {}
    BY <1>2, <1>3, <2>1 DEF BucketsType, Fatal
  <2>3. pc' \notin LaterPhases \cup {"returned"}
    BY <1>4 DEF LaterPhases
  <2>4. QED
    BY <1>1, <1>2, <1>4, <2>1, <2>2, <2>3 DEF Outcomes
<1>5. CASE pc' = "returned" /\ state' = "UNMARKED" /\ File(<<>>)
  <2>1. <<>> \in Seq(AllCodes)
    OBVIOUS
  <2>2. \A K : OfKind(<<>>, K) = <<>>
    BY <2>1, OfKindIs
  <2>3. success' = <<>> /\ informational' = <<>> /\ failure' = <<>>
    BY <1>2, <1>3, <1>5, <2>2 DEF File
  <2>4. BucketsType' /\ ToSet(success') = {}
    BY <1>2, <1>3, <2>3 DEF BucketsType
  <2>5. Verdict!Explains(state', success', informational', failure')
    BY <1>3, <1>5, <2>3 DEF Verdict!Explains
  <2>6. QED
    BY <1>1, <1>2, <1>5, <2>4, <2>5 DEF Outcomes, Provenances, AssertionPhases, LaterPhases
<1>6. CASE /\ pc' = "returned" /\ state' = "INVALID"
           /\ \E c \in FailureCodes \ {Untrusted} : File(<<c>>)
  <2>1. PICK c \in FailureCodes \ {Untrusted} : File(<<c>>)
    BY <1>6
  <2>2. c \in AllCodes /\ c \notin SuccessCodes
    BY MarksAreSuccess DEF AllCodes
  <2>3. BucketsType' /\ Adds({c})
    BY <1>2, <2>1, <2>2, FileOne
  <2>4. ToSet(success') = ToSet(success) /\ Fatal' # {}
    BY <2>2, <2>3, AddsToFiled
  <2>5. Verdict!Explains(state', success', informational', failure')
    <3>1. Verdict!ToSet(failure') \ {"signingCredential.untrusted"} = Fatal'
      BY DEF Verdict!ToSet, ToSet, Fatal, Untrusted
    <3>2. QED
      BY <1>6, <2>4, <3>1 DEF Verdict!Explains
  <2>6. QED
    BY <1>1, <1>2, <1>3, <1>6, <2>3, <2>4, <2>5 DEF Outcomes, Provenances, AssertionPhases, LaterPhases
<1>7. QED
  BY <1>1, <1>4, <1>5, <1>6

LEMMA OutcomesHold == Spec => []Outcomes
<1>1. Init => Outcomes
  <2>. SUFFICES ASSUME Init PROVE Outcomes
    OBVIOUS
  <2>1. ToSet(<<>>) = {}
    BY DEF ToSet
  <2>2. success = <<>> /\ informational = <<>> /\ failure = <<>>
    BY DEF Init
  <2>3. BucketsType /\ Fatal = {} /\ ToSet(success) = {}
    BY <2>1, <2>2 DEF BucketsType, Fatal
  <2>4. QED
    BY <2>2, <2>3 DEF Init, Outcomes, AssertionPhases, LaterPhases
<1>2. Selection /\ LinksAreTrue /\ Outcomes /\ [Next]_vars => Outcomes'
  <2>. SUFFICES ASSUME Selection, LinksAreTrue, Outcomes, [Next]_vars PROVE Outcomes'
    OBVIOUS
  <2>1. CASE UNCHANGED vars
    BY <2>1 DEF vars, progress, results, statuses, Outcomes, BucketsType, Fatal
  <2>2. QED
    BY <2>1, StepIsOne, OutcomesStayAtFirst, OutcomesStayDuringAssertions, OutcomesStayLater
<1>3. QED
  BY <1>1, <1>2, SelectionHolds, LinksHold, PTL DEF Spec

(* Every step files what it files, and no step follows the verdict.             *)
LEMMA EveryStepFiles ==
  ASSUME Selection, LinksAreTrue, Outcomes, Next
  PROVE  Grows /\ pc \notin {"returned", "raised"}
<1>0. BucketsType
  BY DEF Outcomes
<1>1. CASE Scan \/ Select
  <2>1. /\ pc \in {"scan", "select"}
        /\ \/ UNCHANGED statuses \/ File(<<>>)
           \/ \E c \in FailureCodes \ {Untrusted} : File(<<c>>)
    BY <1>0, <1>1, ScanStep DEF Outcomes
  <2>2. <<>> \in Seq(AllCodes) /\ FailureCodes \ {Untrusted} \subseteq AllCodes
    BY DEF AllCodes
  <2>3. QED
    BY <1>0, <2>1, <2>2, FileNothing, FileAdds, FileOne
<1>2. CASE JudgesAssertions
  <2>1. pc \notin {"returned", "raised"}
    BY <1>2, AssertionFrame DEF AssertionPhases
  <2>2. \/ UNCHANGED statuses \/ \E c \in AllCodes : File(<<c>>)
    <3>1. AssertionCodes \subseteq AllCodes /\ "assertion.hashedURI.match" \in AllCodes
      BY DEF AllCodes, FailureCodes, SuccessCodes
    <3>2. QED
      BY <1>2, <3>1, AssertionsStep DEF GoesOn, Rejects, AcceptAssertions
  <2>3. QED
    BY <1>0, <2>1, <2>2, FileNothing, FileOne
<1>3. CASE JudgesTheRest
  <2>1. pc \notin {"returned", "raised"}
    BY <1>3, LaterFrame DEF LaterPhases
  <2>2. CASE CheckBinding
    BY <1>0, <2>1, <2>2, BindingStep
  <2>3. CASE CheckSignature
    BY <1>0, <2>1, <2>3, SignatureStep
  <2>4. CASE JudgeCredential
    BY <1>0, <2>1, <2>4, CredentialStep
  <2>5. CASE Conclude
    BY <1>0, <2>1, <2>5, FileNothing DEF Conclude
  <2>6. QED
    BY <1>3, <2>2, <2>3, <2>4, <2>5 DEF JudgesTheRest
<1>4. QED
  BY <1>1, <1>2, <1>3, StepIsOne

(* VerifyJudgesOnce (verdict.py): for every asset, context and clock verify       *)
(* implements Judgement. No status is withdrawn or moved to another bucket, one  *)
(* state is given, at the end, and the statuses filed by then explain it.       *)
THEOREM VerifyImplementsJudgement == Spec => VerifyJudgesOnce
<1>1. Init => Verdict!Init
  BY DEF Init, Verdict!Init
<1>2. Selection /\ LinksAreTrue /\ Outcomes /\ Outcomes' /\ [Next]_vars => [Verdict!Next]_(Verdict!vars)
  <2>. SUFFICES ASSUME Selection, LinksAreTrue, Outcomes, Outcomes', [Next]_vars
                PROVE  [Verdict!Next]_(Verdict!vars)
    OBVIOUS
  <2>1. CASE UNCHANGED vars
    BY <2>1 DEF vars, statuses, Verdict!vars
  <2>2. CASE Next
    <3>1. Grows /\ pc # "returned"
      BY <2>2, EveryStepFiles
    <3>2. Verdict!File
      BY <3>1 DEF Verdict!File, Grows, Verdict!IsPrefix, IsPrefix
    <3>3. CASE pc' = "returned"
      <4>1. state' \in Provenances /\ Verdict!Explains(state', success', informational', failure')
        BY <3>3 DEF Outcomes
      <4>2. Verdict!Judge
        BY <3>2, <3>3, <4>1 DEF Verdict!Judge, Provenances
      <4>3. QED
        BY <4>2 DEF Verdict!Next
    <3>4. CASE pc' # "returned"
      BY <3>1, <3>2, <3>4 DEF Verdict!Next, Verdict!Report
    <3>5. QED
      BY <3>3, <3>4
  <2>3. QED
    BY <2>1, <2>2
<1>3. QED
  BY <1>1, <1>2, SelectionHolds, LinksHold, OutcomesHold, PTL DEF Spec, VerifyJudgesOnce, Verdict!Spec

(* What the later phases found is filed, and the flags rest on it.              *)
Reports ==
  /\ pc \in {"signature", "credential", "conclude"} \/ (pc = "returned" /\ selected # {}) =>
       /\ ToSet(Bindings) \subseteq Filed
       /\ bindingOk => "assertion.dataHash.match" \in ToSet(Bindings)
  /\ pc \in {"credential", "conclude"} \/ (pc = "returned" /\ selected # {}) => Signed \in Filed
  /\ pc = "credential" \/ signatureOk => Signed = "claimSignature.validated"
  /\ signatureOk => \E t \in Instants : \A i \in DOMAIN Chain : t \in Chain[i].from .. Chain[i].to

LEMMA ReportsHold == Spec => []Reports
<1>1. Init => Reports
  BY DEF Init, Reports
<1>2. Selection /\ Selection' /\ LinksAreTrue /\ Outcomes /\ Outcomes' /\ Reports /\ [Next]_vars => Reports'
  <2>. SUFFICES ASSUME Selection, Selection', LinksAreTrue, Outcomes, Outcomes', Reports, [Next]_vars
                PROVE  Reports'
    OBVIOUS
  <2>0. BucketsType
    BY DEF Outcomes
  <2>1. ASSUME asset' = asset, selected' = selected, context' = context
        PROVE  /\ Bindings' = Bindings /\ Signed' = Signed /\ Instants' = Instants /\ Chain' = Chain
    BY <2>1, SameManifest DEF Bindings, Signed, Instants
  <2>2. CASE UNCHANGED vars
    <3>1. UNCHANGED <<asset, context, pc, selected, bindingOk, signatureOk, success, informational, failure>>
      BY <2>2 DEF vars, progress, results, statuses
    <3>2. QED
      BY <2>1, <3>1 DEF Reports, Filed
  <2>3. CASE Scan \/ Select
    <3>1. pc' \in {"select", "claim"} \/ (pc' = "returned" /\ selected' = {})
      BY <2>0, <2>3, ScanStep DEF Outcomes
    <3>2. ~ signatureOk'
      <4>1. pc \notin {"conclude", "returned"} /\ signatureOk' = signatureOk
        BY <2>0, <2>3, ScanStep DEF Outcomes
      <4>2. QED
        BY <4>1 DEF Outcomes
    <3>3. QED
      BY <3>1, <3>2 DEF Reports
  <2>4. CASE JudgesAssertions
    <3>1. /\ pc \in AssertionPhases /\ pc' \in AssertionPhases \cup {"binding", "raised"}
          /\ signatureOk' = signatureOk
      BY <2>4, AssertionFrame
    <3>2. ~ signatureOk'
      BY <3>1 DEF Outcomes, AssertionPhases
    <3>3. QED
      BY <3>1, <3>2 DEF Reports, AssertionPhases
  <2>5. CASE JudgesTheRest
    <3>0. /\ asset' = asset /\ selected' = selected /\ context' = context /\ selected # {}
          /\ Bindings' = Bindings /\ Signed' = Signed /\ Instants' = Instants /\ Chain' = Chain
      <4>1. asset' = asset /\ selected' = selected /\ context' = context /\ selected # {}
        BY <2>5, LaterFrame DEF Selection, LaterPhases
      <4>2. QED
        BY <2>1, <4>1
    <3>1. CASE CheckBinding
      <4>1. /\ Adds(ToSet(Bindings)) /\ ToSet(Bindings) \subseteq AllCodes
            /\ bindingOk' = ("assertion.dataHash.match" \in ToSet(Bindings))
            /\ pc = "binding" /\ pc' = "signature" /\ signatureOk' = signatureOk
        BY <2>0, <3>1, BindingStep
      <4>2. ToSet(Bindings) \subseteq Filed'
        BY <4>1, AddsToFiled
      <4>3. ~ signatureOk
        BY <4>1 DEF Outcomes
      <4>4. bindingOk' => "assertion.dataHash.match" \in ToSet(Bindings)
        BY <4>1
      <4>5. QED
        BY <3>0, <4>1, <4>2, <4>3, <4>4 DEF Reports
    <3>2. CASE CheckSignature
      <4>1. /\ Adds({Signed}) /\ Signed \in AllCodes
            /\ bindingOk' = bindingOk /\ signatureOk' = signatureOk /\ pc = "signature"
            /\ \/ pc' = "credential" /\ Signed = "claimSignature.validated"
               \/ pc' = "conclude" /\ Signed \in SignatureCodes
        BY <2>0, <3>2, SignatureStep
      <4>2. Filed' = Filed \cup {Signed}
        BY <4>1, AddsToFiled
      <4>3. ~ signatureOk
        BY <4>1 DEF Outcomes
      <4>4. QED
        BY <3>0, <4>1, <4>2, <4>3 DEF Reports
    <3>3. CASE JudgeCredential
      <4>1. /\ pc = "credential" /\ pc' = "conclude" /\ bindingOk' = bindingOk /\ Grows
            /\ \/ UNCHANGED signatureOk
               \/ \E t \in Instants : \A i \in DOMAIN Chain : t \in Chain[i].from .. Chain[i].to
            /\ \E codes \in SUBSET AllCodes : Adds(codes)
        <5>1. {"claimSignature.outsideValidity", "claimSignature.insideValidity",
               "signingCredential.trusted", Untrusted} \subseteq AllCodes
          BY DEF AllCodes, SuccessCodes, FailureCodes, Untrusted
        <5>2. \E codes \in SUBSET AllCodes : Adds(codes)
          BY <2>0, <3>3, <5>1, CredentialStep
        <5>3. QED
          BY <2>0, <3>3, <5>2, CredentialStep
      <4>2. Filed \subseteq Filed'
        BY <4>1, AddsToFiled
      <4>3. QED
        BY <3>0, <4>1, <4>2 DEF Reports
    <3>4. CASE Conclude
      <4>1. /\ pc = "conclude" /\ pc' = "returned"
            /\ UNCHANGED <<bindingOk, signatureOk, success, informational, failure>>
        BY <3>4 DEF Conclude, results, statuses
      <4>2. Filed' = Filed
        BY <4>1 DEF Filed
      <4>3. QED
        BY <3>0, <4>1, <4>2 DEF Reports
    <3>5. QED
      BY <2>5, <3>1, <3>2, <3>3, <3>4 DEF JudgesTheRest
  <2>6. QED
    BY <2>2, <2>3, <2>4, <2>5, StepIsOne
<1>3. QED
  BY <1>1, <1>2, SelectionHolds, LinksHold, OutcomesHold, PTL DEF Spec

(* EveryPhaseReports (verify): whatever became of the assertions, the outcome of  *)
(* the binding and that of the signature are both in the verdict.                *)
THEOREM NoPhaseIsHidden == Spec => []EveryPhaseReports
<1>1. Reports => EveryPhaseReports
  <2>1. Bindings = BindingStatuses(asset.text, HashData(Manifest), Claim.alg, Spans)
          /\ Signed = SignatureStatus(Manifest.signature, Claim)
    BY DEF Bindings, Signed
  <2>2. QED
    BY <2>1 DEF Reports, EveryPhaseReports, Filed
<1>2. QED
  BY <1>1, ReportsHold, PTL

(* CredentialValidAtOneInstant (_validity_at): a verdict that says "inside        *)
(* validity" says it of every certificate at one and the same instant.            *)
THEOREM ChainValidAtOneInstant == Spec => []CredentialValidAtOneInstant
<1>1. Outcomes /\ Reports => CredentialValidAtOneInstant
  BY DEF Outcomes, Reports, CredentialValidAtOneInstant
<1>2. QED
  BY <1>1, OutcomesHold, ReportsHold, PTL

(* What a verdict VALID or TRUSTED rests on.                                     *)
LEMMA AcceptedMeans ==
  ASSUME Selection, LinksAreTrue, StoryIsTrue, Outcomes, Reports, Accepted
  PROVE  /\ selected # {} /\ LinksAreStored /\ StoryIsSound
         /\ "assertion.dataHash.match" \in ToSet(Bindings) /\ ToSet(Bindings) \subseteq Filed
         /\ Signed = "claimSignature.validated"
<1>1. pc = "returned" /\ selected # {} /\ assertionsOk /\ bindingOk /\ signatureOk
  BY DEF Accepted, Outcomes
<1>2. QED
  BY <1>1 DEF LinksAreTrue, StoryIsTrue, Reports

(* AcceptedStoryIsCreation (_actions_status and the rules about ingredients):     *)
(* taken together the rules accept no asset made from another.                    *)
THEOREM OnlyCreationsAreAccepted == Spec => []AcceptedStoryIsCreation
<1>1. Selection /\ LinksAreTrue /\ StoryIsTrue /\ Outcomes /\ Reports => AcceptedStoryIsCreation
  BY AcceptedMeans, SoundStoryIsCreation DEF AcceptedStoryIsCreation, Story
<1>2. QED
  BY <1>1, SelectionHolds, LinksHold, StoryHolds, OutcomesHold, ReportsHold, PTL

TheBinding == CHOOSE h \in HashData(Manifest) : TRUE

TheRanges == CHOOSE rs \in ExclusionRanges(TheBinding) : TRUE

(* The manifest has one hash data assertion, and it has at most one list.       *)
LEMMA OneBinding ==
  ASSUME Selection, selected # {}, HashData(Manifest) # {}
  PROVE  /\ HashDataLabel \in DOMAIN Store /\ Store[HashDataLabel] = TheBinding
         /\ HashData(Manifest) = {TheBinding}
         /\ \A rs \in ExclusionRanges(TheBinding) :
              rs \in Seq(Nat \X Nat) /\ ExclusionRanges(TheBinding) = {rs} /\ rs = TheRanges
<1>1. Manifest.store = Store
  BY DEF Store
<1>2. HashDataLabel \in DOMAIN Store /\ Store[HashDataLabel].isMap
        /\ HashData(Manifest) = {Store[HashDataLabel]}
  BY <1>1 DEF HashData
<1>3. TheBinding = Store[HashDataLabel]
  BY <1>2 DEF TheBinding
<1>4. \A p, q \in TheBinding.exclusions : p = q /\ p \in Seq(Nat \X Nat)
  <2>1. ManifestIsParsed(Manifest)
    BY ManifestIsThere
  <2>2. HashDataLabel \in {l \in DOMAIN Store \cap {HashDataLabel} : Store[l].isMap}
    BY <1>2
  <2>3. QED
    BY <1>1, <1>3, <2>1, <2>2 DEF ManifestIsParsed
<1>5. \A rs \in ExclusionRanges(TheBinding) : rs \in Seq(Nat \X Nat) /\ ExclusionRanges(TheBinding) = {rs}
  <2>1. ExclusionRanges(TheBinding) \subseteq TheBinding.exclusions
    BY DEF ExclusionRanges
  <2>2. QED
    BY <1>4, <2>1
<1>6. \A rs \in ExclusionRanges(TheBinding) : rs = TheRanges
  BY <1>5 DEF TheRanges
<1>7. QED
  BY <1>2, <1>3, <1>5, <1>6

LEMMA ParametersAreThere ==
  ASSUME NEW hashData, NEW alg, ParametersStatus(hashData, alg) = "ok"
  PROVE  hashData # {} /\ ExclusionRanges(CHOOSE x \in hashData : TRUE) # {}
  BY DEF ParametersStatus

(* A match comes last, of all that was compared.                               *)
LEMMA MatchIsCompared ==
  ASSUME "assertion.dataHash.match" \in ToSet(Bindings)
  PROVE  /\ ParametersStatus(HashData(Manifest), Claim.alg) = "ok"
         /\ Spans \cap ToSet(TheRanges) # {} /\ ~ Cardinality(Spans \cap ToSet(TheRanges)) > 1
         /\ \A r \in ToSet(TheRanges) : ~ r[1] + r[2] > Len(Encoded(asset.text))
         /\ CompareDigest(asset.text, TheBinding, Claim.alg, TheRanges) = "assertion.dataHash.match"
         /\ Len(TheRanges) > 1 =>
              "assertion.dataHash.additionalExclusionsPresent" \in ToSet(Bindings)
<1>. DEFINE matched == "assertion.dataHash.match"
            Extra == "assertion.dataHash.additionalExclusionsPresent"
            codes == Bindings
            parameters == ParametersStatus(HashData(Manifest), Claim.alg)
            located == Spans \cap ToSet(TheRanges)
            overrun == \E r \in ToSet(TheRanges) : r[1] + r[2] > Len(Encoded(asset.text))
            c == CompareDigest(asset.text, TheBinding, Claim.alg, TheRanges)
            compared == (IF Len(TheRanges) > 1 THEN <<Extra>> ELSE <<>>) \o <<c>>
<1>0. /\ \A x, y : ToSet(<<x>>) = {x} /\ ToSet(<<x, y>>) = {x, y}
      /\ matched \in ToSet(codes)
  BY DEF ToSet
<1>1. parameters # "ok" => codes = <<parameters>>
  BY DEF BindingStatuses, Bindings
<1>2. parameters # matched
  BY DEF ParametersStatus
<1>3. parameters = "ok" =>
        codes = IF located = {} THEN <<"assertion.dataHash.malformed">>
                ELSE IF Cardinality(located) > 1 THEN <<"manifest.text.multipleWrappers">>
                ELSE IF overrun THEN <<"assertion.dataHash.mismatch">>
                ELSE compared
  BY DEF BindingStatuses, Bindings, TheBinding, TheRanges
<1>4. compared = IF Len(TheRanges) > 1 THEN <<Extra, c>> ELSE <<c>>
  <2>. HIDE DEF c
  <2>1. <<>> \o <<c>> = <<c>> /\ <<Extra>> \o <<c>> = <<Extra, c>>
    BY ConcatOfOne
  <2>2. QED
    BY <2>1
<1>. HIDE DEF compared, located, overrun, c, codes, parameters
<1>5. \A x : codes = <<x>> => x = matched
  <2>. TAKE x
  <2>. HAVE codes = <<x>>
  <2>1. ToSet(codes) = {x}
    BY <1>0, Zenon
  <2>2. QED
    BY <1>0, <2>1
<1>6. parameters = "ok"
  BY <1>1, <1>2, <1>5
<1>7. /\ codes # <<"assertion.dataHash.malformed">>
      /\ codes # <<"manifest.text.multipleWrappers">>
      /\ codes # <<"assertion.dataHash.mismatch">>
  BY <1>5
<1>8. located # {} /\ ~ Cardinality(located) > 1 /\ ~ overrun /\ codes = compared
  BY <1>3, <1>6, <1>7, Zenon
<1>9. c = matched /\ (Len(TheRanges) > 1 => Extra \in ToSet(codes))
  <2>1. CASE Len(TheRanges) > 1
    <3>1. ToSet(codes) = {Extra, c}
      BY <1>0, <1>4, <1>8, <2>1, Zenon
    <3>2. QED
      BY <1>0, <3>1
  <2>2. CASE ~ Len(TheRanges) > 1
    <3>1. ToSet(codes) = {c}
      BY <1>0, <1>4, <1>8, <2>2, Zenon
    <3>2. QED
      BY <1>0, <2>2, <3>1
  <2>3. QED
    BY <2>1, <2>2
<1>10. QED
  BY <1>6, <1>8, <1>9 DEF located, overrun, c, codes, parameters

LEMMA MatchedBinding ==
  ASSUME Selection, selected # {}, "assertion.dataHash.match" \in ToSet(Bindings)
  PROVE  /\ HashDataLabel \in DOMAIN Store /\ Store[HashDataLabel] = TheBinding
         /\ HashData(Manifest) = {TheBinding} /\ ExclusionRanges(TheBinding) = {TheRanges}
         /\ TheRanges \in Seq(Nat \X Nat)
         /\ Spans \cap ToSet(TheRanges) = {RangeOf(Match)}
         /\ \A r \in ToSet(TheRanges) : ~ r[1] + r[2] > Len(Encoded(asset.text))
         /\ CompareDigest(asset.text, TheBinding, Claim.alg, TheRanges) = "assertion.dataHash.match"
         /\ Len(TheRanges) > 1 =>
              "assertion.dataHash.additionalExclusionsPresent" \in ToSet(Bindings)
<1>. DEFINE located == Spans \cap ToSet(TheRanges)
<1>1. /\ ParametersStatus(HashData(Manifest), Claim.alg) = "ok"
      /\ located # {} /\ ~ Cardinality(located) > 1
      /\ \A r \in ToSet(TheRanges) : ~ r[1] + r[2] > Len(Encoded(asset.text))
      /\ CompareDigest(asset.text, TheBinding, Claim.alg, TheRanges) = "assertion.dataHash.match"
      /\ Len(TheRanges) > 1 => "assertion.dataHash.additionalExclusionsPresent" \in ToSet(Bindings)
  BY MatchIsCompared
<1>2. HashData(Manifest) # {} /\ ExclusionRanges(TheBinding) # {}
  BY <1>1, ParametersAreThere DEF TheBinding
<1>3. /\ HashDataLabel \in DOMAIN Store /\ Store[HashDataLabel] = TheBinding
      /\ HashData(Manifest) = {TheBinding} /\ ExclusionRanges(TheBinding) = {TheRanges}
      /\ TheRanges \in Seq(Nat \X Nat)
  BY <1>2, OneBinding
<1>4. \E x : located = {x}
  <2>1. IsFiniteSet(ToSet(TheRanges))
    BY <1>3, SequenceIsFinite
  <2>2. IsFiniteSet(located)
    BY <2>1, FS_Subset
  <2>. HIDE DEF located
  <2>3. QED
    BY <1>1, <2>2, OneOrMany
<1>5. RangeOf(Match) \in located
  <2>1. PICK i \in Parsed : /\ selected = {i} /\ Match = asset.wrappers[i]
                            /\ Len(asset.wrappers) = 1 \/ i \in Candidates
    BY ManifestIsThere
  <2>2. i \in DOMAIN asset.wrappers
    BY DEF Parsed
  <2>3. RangeOf(Match) \in Spans
    BY <2>1, <2>2 DEF Spans
  <2>4. CASE Len(asset.wrappers) = 1
    <3>1. asset.wrappers \in Seq(ToSet(asset.wrappers))
      BY AssetsAssumption DEF Selection, IsSequence
    <3>2. DOMAIN asset.wrappers = {1}
      BY <2>4, <3>1
    <3>3. Spans = {RangeOf(Match)}
      BY <2>1, <2>2, <3>2 DEF Spans
    <3>4. QED
      BY <1>1, <3>3
  <2>5. CASE i \in Candidates
    <3>1. PICK m \in Match.manifest : \E h \in HashData(m) : \E rs \in ExclusionRanges(h) :
                                         RangeOf(Match) \in ToSet(rs)
      BY <2>1, <2>5 DEF Candidates
    <3>2. m = Manifest
      BY ManifestIsThere
    <3>3. RangeOf(Match) \in ToSet(TheRanges)
      BY <1>3, <3>1, <3>2
    <3>4. QED
      BY <2>3, <3>3
  <2>6. QED
    BY <2>1, <2>4, <2>5
<1>6. located = {RangeOf(Match)}
  BY <1>4, <1>5
<1>7. QED
  BY <1>1, <1>3, <1>6

(* AcceptedSpanIsExcluded (_select_text_manifest, _binding_parameters): the span  *)
(* of an accepted verdict is the only wrapper that its manifest excludes.         *)
THEOREM AcceptedSpanIsItsOwn == Spec => []AcceptedSpanIsExcluded
<1>1. Selection /\ LinksAreTrue /\ StoryIsTrue /\ Outcomes /\ Reports => AcceptedSpanIsExcluded
  BY AcceptedMeans, MatchedBinding DEF AcceptedSpanIsExcluded
<1>2. QED
  BY <1>1, SelectionHolds, LinksHold, StoryHolds, OutcomesHold, ReportsHold, PTL

(* The text on both sides of the selected wrapper.                              *)
LEMMA TextAroundMatch ==
  ASSUME Selection, selected # {}
  PROVE  \E before, after \in Seq(CodePoint) :
           /\ asset.text = before \o <<MARKER>> \o after /\ VisibleText = before \o after
           /\ RangeOf(Match) = <<Len(Encoded(before)), Len(Encode(MARKER))>> /\ MARKER \in CodePoint
<1>. DEFINE text == asset.text
            k == Match.at
            before == SubSeq(text, 1, k - 1)
            after == SubSeq(text, k + 1, Len(text))
<1>1. text \in Seq(CodePoint) /\ k \in 1 .. Len(text) /\ text[k] = MARKER
  <2>1. text \in Seq(CodePoint)
    BY AssetsAssumption DEF Selection
  <2>2. k \in DOMAIN text /\ text[k] = MARKER
    BY ManifestIsThere DEF WrapperIsFound
  <2>3. QED
    BY <2>1, <2>2
<1>2. RangeOf(Match) = <<Len(Encoded(before)), Len(Encode(MARKER))>> /\ VisibleText = before \o after
  BY DEF RangeOf, VisibleText
<1>. HIDE DEF text, k
<1>3. before \in Seq(CodePoint) /\ after \in Seq(CodePoint)
  BY <1>1
<1>4. text = before \o <<text[k]>> \o after
  <2>1. SubSeq(text, 1, k) = before \o <<text[k]>>
    BY <1>1
  <2>2. text = SubSeq(text, 1, k) \o after
    BY <1>1
  <2>3. QED
    BY <2>1, <2>2
<1>5. MARKER \in CodePoint
  BY SMTT(30) DEF MARKER, CodePoint
<1>. HIDE DEF before, after
<1>6. asset.text = before \o <<MARKER>> \o after
  BY <1>1, <1>4 DEF text
<1>7. QED
  BY <1>2, <1>3, <1>5, <1>6

(* When the binding matches and nothing else is announced as excluded, it is the *)
(* digest of the visible text.                                                  *)
LEMMA BindingIsOfVisibleText ==
  ASSUME Selection, selected # {}, "assertion.dataHash.match" \in ToSet(Bindings),
         "assertion.dataHash.additionalExclusionsPresent" \notin ToSet(Bindings)
  PROVE  \E a \in Algorithms : Store[HashDataLabel].hash = Digest(a, Nfc(VisibleText))
<1>1. /\ Store[HashDataLabel] = TheBinding /\ TheRanges \in Seq(Nat \X Nat)
      /\ Spans \cap ToSet(TheRanges) = {RangeOf(Match)} /\ ~ Len(TheRanges) > 1
      /\ CompareDigest(asset.text, TheBinding, Claim.alg, TheRanges) = "assertion.dataHash.match"
  BY MatchedBinding
<1>2. TheRanges = <<RangeOf(Match)>>
  <2>1. RangeOf(Match) \in ToSet(TheRanges)
    BY <1>1
  <2>2. PICK i \in DOMAIN TheRanges : TheRanges[i] = RangeOf(Match)
    BY <2>1 DEF ToSet
  <2>. DEFINE span == RangeOf(Match)
              rs == TheRanges
  <2>3. rs \in Seq(Nat \X Nat) /\ ~ Len(rs) > 1 /\ i \in DOMAIN rs /\ rs[i] = span
    BY <1>1, <2>2
  <2>. HIDE DEF span, rs
  <2>4. Len(rs) = 1 /\ rs[1] = span
    <3>1. DOMAIN rs = 1 .. Len(rs) /\ Len(rs) \in Nat
      BY <2>3
    <3>2. i \in 1 .. Len(rs) /\ Len(rs) <= 1
      BY <2>3, <3>1
    <3>3. i = 1 /\ Len(rs) = 1
      BY <3>1, <3>2
    <3>4. QED
      BY <2>3, <3>3
  <2>5. rs = <<span>>
    BY <2>3, <2>4
  <2>6. QED
    BY <2>5 DEF span, rs
<1>3. PICK a \in ResolveAlgorithm(TheBinding.alg, Claim.alg) :
        \E t \in BoundText(asset.text, TheRanges) : TheBinding.hash = Digest(a, t)
  BY <1>1 DEF CompareDigest
<1>4. PICK t \in BoundText(asset.text, TheRanges) : TheBinding.hash = Digest(a, t)
  BY <1>3
<1>5. a \in Algorithms
  BY DEF ResolveAlgorithm
<1>6. t = Nfc(VisibleText)
  <2>1. PICK before, after \in Seq(CodePoint) :
           /\ asset.text = before \o <<MARKER>> \o after /\ VisibleText = before \o after
           /\ RangeOf(Match) = <<Len(Encoded(before)), Len(Encode(MARKER))>> /\ MARKER \in CodePoint
    BY TextAroundMatch
  <2>2. t \in BoundText(before \o <<MARKER>> \o after, <<<<Len(Encoded(before)), Len(Encode(MARKER))>>>>)
    BY <1>2, <1>4, <2>1, Zenon
  <2>3. t = Nfc(before \o after)
    BY <2>1, <2>2, BoundOutsideOne
  <2>4. QED
    BY <2>1, <2>3
<1>7. QED
  BY <1>1, <1>4, <1>5, <1>6

(* An assertion that the verdict's manifest carries is linked, with its digest,    *)
(* from the claim that was signed.                                              *)
LEMMA StoreIsSigned ==
  ASSUME Selection, selected # {}, LinksAreStored, StoryIsSound, Signed = "claimSignature.validated"
  PROVE  /\ Manifest.signature.key = Chain[1].key /\ Manifest.signature.over = Claim
         /\ \A label \in DOMAIN Store :
              \E l \in ToSet(Claim.created \o GatheredLinks(Claim)) :
                l.url = label /\ \E d \in l.hash : d.of = Store[label]
<1>1. Manifest.signature.key = Chain[1].key /\ Manifest.signature.over = Claim
  BY SignatureStatusCode DEF Signed, Chain
<1>2. ASSUME NEW label \in DOMAIN Store
      PROVE  \E l \in ToSet(Claim.created \o GatheredLinks(Claim)) :
               l.url = label /\ \E d \in l.hash : d.of = Store[label]
  <2>1. PICK i \in DOMAIN Links : Links[i].url = label
    BY DEF StoryIsSound, Linked
  <2>2. PICK a \in Algorithms : Digest(a, Store[label]) \in Links[i].hash
    BY <2>1 DEF LinksAreStored, LinkIsStored
  <2>3. Digest(a, Store[label]).of = Store[label]
    BY DEF Digest
  <2>4. Links[i] \in ToSet(Claim.created \o GatheredLinks(Claim))
    BY DEF Links, ToSet
  <2>5. QED
    BY <2>1, <2>2, <2>3, <2>4
<1>3. QED
  BY <1>1, <1>2

(* AcceptedTextWasSigned (verify): the claim that the signer's key signed commits   *)
(* to every assertion that an accepted verdict's manifest carries and, unless the   *)
(* verdict announces further exclusions, to the NFC form of the text outside the     *)
(* selected wrapper.                                                            *)
THEOREM WhatIsShownWasSigned == Spec => []AcceptedTextWasSigned
<1>1. Selection /\ LinksAreTrue /\ StoryIsTrue /\ Outcomes /\ Reports => AcceptedTextWasSigned
  <2>. SUFFICES ASSUME Selection, LinksAreTrue, StoryIsTrue, Outcomes, Reports, Accepted
                PROVE  AcceptedTextWasSigned
    BY DEF AcceptedTextWasSigned
  <2>1. /\ selected # {} /\ LinksAreStored /\ StoryIsSound
        /\ "assertion.dataHash.match" \in ToSet(Bindings) /\ ToSet(Bindings) \subseteq Filed
        /\ Signed = "claimSignature.validated"
    BY AcceptedMeans
  <2>2. /\ Manifest.signature.key = Chain[1].key /\ Manifest.signature.over = Claim
        /\ \A label \in DOMAIN Store :
              \E l \in ToSet(Claim.created \o GatheredLinks(Claim)) :
                l.url = label /\ \E d \in l.hash : d.of = Store[label]
    BY <2>1, StoreIsSigned
  <2>3. ASSUME informational = <<>>
        PROVE  \E l \in ToSet(Claim.created \o GatheredLinks(Claim)) :
                 /\ l.url = HashDataLabel
                 /\ \E d \in l.hash : \E a \in Algorithms : d.of.hash = Digest(a, Nfc(VisibleText))
    <3>1. "assertion.dataHash.additionalExclusionsPresent" \notin ToSet(Bindings)
      <4>1. ToSet(informational) = {}
        BY <2>3 DEF ToSet
      <4>2. \A c \in ToSet(success) \cup ToSet(failure) : c \in SuccessCodes \cup FailureCodes
        BY DEF Outcomes, BucketsType, ToSet
      <4>3. QED
        BY <2>1, <4>1, <4>2, MarksAreSuccess DEF Filed
    <3>2. PICK a \in Algorithms : Store[HashDataLabel].hash = Digest(a, Nfc(VisibleText))
      BY <2>1, <3>1, BindingIsOfVisibleText
    <3>3. HashDataLabel \in DOMAIN Store
      BY <2>1, MatchedBinding
    <3>4. QED
      BY <2>2, <3>2, <3>3
  <2>4. QED
    BY <2>2, <2>3 DEF AcceptedTextWasSigned
<1>2. QED
  BY <1>1, SelectionHolds, LinksHold, StoryHolds, OutcomesHold, ReportsHold, PTL
=============================================================================
