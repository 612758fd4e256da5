-------------------------------- MODULE Verify --------------------------------
(***************************************************************************)
(* verify in src/c2patxt/_verify.py: from the wrappers that the scan found  *)
(* to a Verdict.  The phases are those of the code: selection of a manifest,*)
(* the assertion store link by link and action by action, the hard binding, *)
(* the claim signature, the credential.                                     *)
(*                                                                          *)
(* An asset is a text and what the wrappers in it hold; a U+FEFF at one of   *)
(* the places in `wrappers` stands for the whole wrapper.  The scan itself   *)
(* is the module Locate; parsing a payload into a manifest, the signature    *)
(* algorithms, the certificate profile and the caller's trust evaluator are  *)
(* data of the asset and the context.                                        *)
(***************************************************************************)
EXTENDS Assertions, ClaimSignature

CONSTANTS
  Assets,      \* the texts that verify is called with
  Genuine,     \* those that a producer made and nobody changed
  Contexts,    \* the contexts it is called with
  Times        \* instants the clock may show

ASSUME GenuineAssumption == Genuine \subseteq Assets

(* What find_wrappers and parse_manifest_store (the modules Locate and Extract) *)
(* hand over: a wrapper stands in the text, and holds one manifest or the code  *)
(* that its payload was rejected with; the lists of a manifest are lists, and   *)
(* an exclusion is a start and a length.                                      *)
ParseErrors ==
  {"manifest.text.corruptedWrapper", "general.error", "claim.missing", "claim.multiple",
   "claim.malformed", "claim.cbor.invalid", "claimSignature.missing",
   "assertion.missing", "assertion.json.invalid", "assertion.cbor.invalid"}

IsSequence(s) == s \in Seq(ToSet(s))

ManifestIsParsed(m) ==
  /\ IsSequence(m.claim.created) /\ IsSequence(m.claim.redacted)
  /\ \A links \in m.claim.gathered : IsSequence(links)
  /\ IsFiniteSet(DOMAIN m.store)
  /\ \A l \in {l \in DOMAIN m.store : l.base \in ActionsBases} :
       /\ IsSequence(m.store[l].actions)
       /\ \A action \in ToSet(m.store[l].actions) :
            \A refs \in action.ingredients \cup action.related : IsSequence(refs)
  /\ \A l \in {l \in DOMAIN m.store \cap {HashDataLabel} : m.store[l].isMap} :
       \A p, q \in m.store[l].exclusions : p = q /\ p \in Seq(Nat \X Nat)

WrapperIsFound(w, text) ==
  /\ w.at \in DOMAIN text /\ text[w.at] = MARKER
  /\ w.manifest = {} => w.error \in ParseErrors
  /\ \A m, n \in w.manifest : m = n /\ ManifestIsParsed(m)

ASSUME AssetsAssumption ==
  /\ IsFiniteSet(Algorithms)
  /\ \A a \in Assets : /\ a.text \in Seq(CodePoint) /\ IsSequence(a.wrappers)
                       /\ \A w \in ToSet(a.wrappers) : WrapperIsFound(w, a.text)

VARIABLES
  asset, context,
  pc,          \* the phase
  selected,    \* the wrapper whose manifest is judged: a set of at most one
  cursor,      \* next link, action or reference of the phase
  cache,       \* DigestCache: digests computed, by label and algorithm
  hashed,      \* how many were computed
  assertionsOk, bindingOk, signatureOk, trusted,
  success, informational, failure,     \* the statuses of the Verdict
  state        \* its Provenance

progress == <<selected, cursor, cache, hashed>>
results == <<assertionsOk, bindingOk, signatureOk, trusted>>
statuses == <<success, informational, failure>>
vars == <<asset, context, pc, progress, results, statuses, state>>

(* The statuses of StatusKind.SUCCESS and INFORMATIONAL.                     *)
SuccessCodes == {"assertion.hashedURI.match", "assertion.dataHash.match",
  "claimSignature.validated", "claimSignature.insideValidity", "signingCredential.trusted"}
InformationalCodes == {"assertion.dataHash.additionalExclusionsPresent"}

----------------------------------------------------------------------------
(* The selected wrapper and its manifest.                                    *)

Match == asset.wrappers[CHOOSE i \in selected : TRUE]
Manifest == CHOOSE m \in Match.manifest : TRUE
Claim == Manifest.claim
Store == Manifest.store

Links == Claim.created \o GatheredLinks(Claim)
Urls(links) == [i \in DOMAIN links |-> links[i].url]
Created == Urls(Claim.created)
Gathered == Urls(GatheredLinks(Claim))

RangeOf(w) == <<Len(Encoded(SubSeq(asset.text, 1, w.at - 1))), Len(Encode(MARKER))>>
Spans == {RangeOf(asset.wrappers[i]) : i \in DOMAIN asset.wrappers}

(* ManifestStore.hash_data: the base label, wherever it is linked.           *)
HashData(m) ==
  {m.store[l] : l \in {l \in DOMAIN m.store \cap {HashDataLabel} : m.store[l].isMap}}

(* _assertion_digest: from the cache of the call, or computed.               *)
Digests ==
  [k \in (DOMAIN Store) \X Algorithms |->
     IF k \in DOMAIN cache THEN cache[k] ELSE Digest(k[2], Store[k[1]])]

RecomputeEveryDigest(wanted) ==                                   \* defect
  /\ cache' = [k \in DOMAIN cache \cup wanted |-> Digest(k[2], Store[k[1]])]
  /\ hashed' = hashed + Cardinality(wanted)

Remember(wanted) ==
  /\ cache' = [k \in DOMAIN cache \cup wanted |->
                 IF k \in DOMAIN cache THEN cache[k] ELSE Digest(k[2], Store[k[1]])]
  /\ hashed' = hashed + Cardinality(wanted \ DOMAIN cache)

----------------------------------------------------------------------------
(* Verdict._add_many: a status goes to the bucket of its kind, failure if it  *)
(* has no other.                                                             *)

OfKind(codes, kind) ==
  FlattenSeq([i \in DOMAIN codes |-> IF codes[i] \in kind THEN <<codes[i]>> ELSE <<>>])

File(codes) ==
  /\ success' = success \o OfKind(codes, SuccessCodes)
  /\ informational' = informational \o OfKind(codes, InformationalCodes)
  /\ failure' = failure \o OfKind(codes, ToSet(codes) \ (SuccessCodes \cup InformationalCodes))

Return(provenance, codes) ==
  /\ pc' = "returned" /\ state' = provenance /\ File(codes)
  /\ UNCHANGED <<asset, context, progress, results>>

Init ==
  /\ asset \in Assets /\ context \in Contexts
  /\ pc = "scan" /\ state = "none"
  /\ selected = {} /\ cursor = 1 /\ cache = <<>> /\ hashed = 0
  /\ assertionsOk = FALSE /\ bindingOk = FALSE /\ signatureOk = FALSE /\ trusted = FALSE
  /\ success = <<>> /\ informational = <<>> /\ failure = <<>>

(* find_wrappers.                                                            *)
Scan ==
  /\ pc = "scan"
  /\ \/ /\ asset.wrappers = <<>> /\ asset.decoy
        /\ Return("INVALID", <<"manifest.text.corruptedWrapper">>)
     \/ /\ asset.wrappers = <<>> /\ ~ asset.decoy
        /\ Return("UNMARKED", <<>>)
     \/ /\ asset.wrappers # <<>>
        /\ pc' = "select"
        /\ UNCHANGED <<asset, context, progress, results, statuses, state>>

(* _select_text_manifest: with several wrappers, the one whose own exclusion *)
(* names its exact range.                                                    *)
Parsed == {i \in DOMAIN asset.wrappers : asset.wrappers[i].manifest # {}}

TakeFirstParsed ==                                                \* defect
  {i \in Parsed : \A j \in Parsed : i <= j}

Candidates ==
  {i \in Parsed : \E m \in asset.wrappers[i].manifest : \E h \in HashData(m) :
     \E rs \in ExclusionRanges(h) : RangeOf(asset.wrappers[i]) \in ToSet(rs)}

Select ==
  /\ pc = "select"
  /\ \E chosen \in {IF Len(asset.wrappers) = 1 THEN Parsed ELSE Candidates} :
       \/ /\ Cardinality(chosen) = 1
          /\ selected' = chosen /\ state' = "INVALID" /\ pc' = "claim"
          /\ UNCHANGED <<asset, context, cursor, cache, hashed, results, statuses>>
       \/ Cardinality(chosen) > 1 /\ Return("INVALID", <<"manifest.text.multipleWrappers">>)
       \/ chosen = {} /\ Parsed = {} /\ Return("INVALID", <<asset.wrappers[1].error>>)
       \/ chosen = {} /\ Parsed # {} /\ Return("INVALID", <<"assertion.dataHash.malformed">>)

----------------------------------------------------------------------------
(* _check_assertions, in the order of _assertion_result.  The first failure   *)
(* ends the phase, not the verification.                                      *)

GoTo(phase, position) ==
  /\ pc' = phase /\ cursor' = position
  /\ UNCHANGED <<asset, context, selected, results, state>>

StopAtBadAssertion(status) ==                                     \* defect
  /\ File(<<status>>)
  /\ pc' = "returned"
  /\ UNCHANGED <<asset, context, selected, cursor, results, state>>

RejectAssertions(status) == File(<<status>>) /\ GoTo("binding", 1)

CheckClaim ==
  /\ pc = "claim" /\ UNCHANGED <<cache, hashed>>
  /\ \/ ClaimStatus(Claim) = "ok" /\ GoTo("links", 1) /\ UNCHANGED statuses
     \/ ClaimStatus(Claim) # "ok" /\ RejectAssertions(ClaimStatus(Claim))

RetryBadLink ==                                                   \* defect
  /\ pc = "links" /\ cursor <= Len(Links)
  /\ \E link \in {Links[cursor]} : \E status \in {LinkStatus(link, Store, Claim.alg, Digests)} :
       /\ Remember(LinkDigests(link, Store, Claim.alg))
       /\ \/ status = "ok" /\ File(<<"assertion.hashedURI.match">>) /\ GoTo("links", cursor + 1)
          \/ status # "ok" /\ UNCHANGED statuses /\ GoTo("links", cursor)

CheckLink ==
  /\ pc = "links" /\ cursor <= Len(Links)
  /\ \E link \in {Links[cursor]} : \E status \in {LinkStatus(link, Store, Claim.alg, Digests)} :
       /\ Remember(LinkDigests(link, Store, Claim.alg))
       /\ \/ status = "ok" /\ File(<<"assertion.hashedURI.match">>) /\ GoTo("links", cursor + 1)
          \/ status # "ok" /\ RejectAssertions(status)

(* _store_shape_status up to the first loop of _actions_status.              *)
CheckShape ==
  /\ pc = "links" /\ cursor > Len(Links) /\ UNCHANGED <<cache, hashed>>
  /\ \E created \in {Created}, gathered \in {Gathered} :
     \E status \in {FirstFailure(<<ShapeStatus(created, gathered, Store),
                                   InceptionStatus(created, gathered, Store)>>)} :
       \/ status = "ok" /\ GoTo("actions", 1) /\ UNCHANGED statuses
       \/ status = "TypeError" /\ GoTo("raised", 1) /\ UNCHANGED statuses
       \/ status \notin {"ok", "TypeError"} /\ RejectAssertions(status)

CheckAction ==
  /\ pc = "actions"
  /\ \E actions \in {AllActions(created, gathered, Store) : created \in {Created}, gathered \in {Gathered}} :
       /\ cursor <= Len(actions)
       /\ Remember(ActionDigests(actions[cursor], Store, Claim.alg, Digests))
       /\ \E status \in {ActionStatus(actions[cursor], Created \o Gathered, Store,
                                      Claim.alg, Digests)} :
            \/ status = "ok" /\ GoTo("actions", cursor + 1) /\ UNCHANGED statuses
            \/ status # "ok" /\ RejectAssertions(status)

CheckSpecific ==
  /\ pc = "actions"
  /\ \E actions \in {AllActions(created, gathered, Store) : created \in {Created}, gathered \in {Gathered}} :
        cursor > Len(actions)
  /\ UNCHANGED <<cache, hashed>>
  /\ \E status \in {FirstFailure(
          [i \in DOMAIN Links |-> SpecificStatus(Links[i].url, Store)]
            \o <<UndeclaredStatus(Created \o Gathered, Store)>>)} :
       \/ status = "ok" /\ GoTo("references", 1) /\ UNCHANGED statuses
       \/ status # "ok" /\ RejectAssertions(status)

CheckReference ==
  /\ pc = "references"
  /\ \E icons \in {Icons(Claim, Created, Gathered, Store)} :
       /\ cursor <= Len(icons)
       /\ Remember(ReferenceDigests(icons[cursor], Store, Claim.alg))
       /\ \E status \in {ReferenceStatus(icons[cursor], Store, Claim.alg, Digests)} :
            \/ status = "ok" /\ GoTo("references", cursor + 1) /\ UNCHANGED statuses
            \/ status # "ok" /\ RejectAssertions(status)

AcceptAssertions ==
  /\ pc = "references" /\ cursor > Len(Icons(Claim, Created, Gathered, Store))
  /\ pc' = "binding" /\ assertionsOk' = TRUE
  /\ UNCHANGED <<asset, context, progress, bindingOk, signatureOk, trusted, statuses, state>>

----------------------------------------------------------------------------
(* _check_binding: run whatever came of the assertions.                      *)
CheckBinding ==
  /\ pc = "binding"
  /\ \E codes \in {BindingStatuses(asset.text, HashData(Manifest), Claim.alg, Spans)} :
       /\ File(codes)
       /\ bindingOk' = ("assertion.dataHash.match" \in ToSet(codes))
  /\ pc' = "signature"
  /\ UNCHANGED <<asset, context, progress, assertionsOk, signatureOk, trusted, state>>

----------------------------------------------------------------------------
(* _check_signature.  A credential is a non-empty chain, the signer first.   *)

Chain == Manifest.signature.chain

CheckSignature ==
  /\ pc = "signature"
  /\ \E status \in {SignatureStatus(Manifest.signature, Claim)} :
       /\ File(<<status>>)
       /\ pc' = IF status = "claimSignature.validated" THEN "credential" ELSE "conclude"
  /\ UNCHANGED <<asset, context, progress, results, state>>

(* The credential: every certificate carried, at one instant, which is the   *)
(* caller's or the clock's.                                                  *)
Instants == IF context.now = {} THEN Times ELSE context.now

OnlySignerJudged(chain, t) ==                                     \* defect
  IF t \in chain[1].from .. chain[1].to THEN {} ELSE {1}

OutsideValidity(chain, t) == {i \in DOMAIN chain : t \notin chain[i].from .. chain[i].to}

(* _is_trusted: no anchors, no evaluator; one that raises trusts nothing.     *)

IsTrusted(ctx) == ctx.anchors /\ ctx.evaluator = "trusts"

JudgeCredential ==
  /\ pc = "credential"
  /\ \E t \in Instants :
       \/ /\ OutsideValidity(Chain, t) # {}
          /\ File(<<"claimSignature.outsideValidity">>)
          /\ UNCHANGED <<signatureOk, trusted>>
       \/ /\ OutsideValidity(Chain, t) = {}
          /\ File(<<"claimSignature.insideValidity",
                    IF IsTrusted(context) THEN "signingCredential.trusted"
                    ELSE "signingCredential.untrusted">>)
          /\ signatureOk' = TRUE /\ trusted' = IsTrusted(context)
  /\ pc' = "conclude"
  /\ UNCHANGED <<asset, context, progress, assertionsOk, bindingOk, state>>

SignatureAloneDecides ==                                          \* defect
  /\ pc = "conclude"
  /\ pc' = "returned"
  /\ state' = IF signatureOk /\ bindingOk THEN IF trusted THEN "TRUSTED" ELSE "VALID" ELSE "INVALID"
  /\ UNCHANGED <<asset, context, progress, results, statuses>>

Conclude ==
  /\ pc = "conclude"
  /\ pc' = "returned"
  /\ state' = IF assertionsOk /\ bindingOk /\ signatureOk
              THEN IF trusted THEN "TRUSTED" ELSE "VALID" ELSE "INVALID"
  /\ UNCHANGED <<asset, context, progress, results, statuses>>

Step ==
  \/ Scan \/ Select
  \/ CheckClaim \/ CheckLink \/ CheckShape \/ CheckAction \/ CheckSpecific
  \/ CheckReference \/ AcceptAssertions
  \/ CheckBinding \/ CheckSignature \/ JudgeCredential \/ Conclude

Next == Step

(* verify runs to its end in the caller's thread.                            *)
Spec == Init /\ [][Next]_vars
FairSpec == Spec /\ WF_vars(Step)

----------------------------------------------------------------------------
(* Properties.                                                               *)

Accepted == pc = "returned" /\ state \in {"VALID", "TRUSTED"}

VisibleText == SubSeq(asset.text, 1, Match.at - 1)
                 \o SubSeq(asset.text, Match.at + 1, Len(asset.text))

(* What an accepted text shows is what was signed: the claim that the         *)
(* signer's key signed commits to the NFC form of everything outside the      *)
(* selected wrapper, unless the verdict announces further exclusions, and to  *)
(* every assertion that the verdict's manifest carries.                       *)
AcceptedTextWasSigned ==
  Accepted =>
    LET signed == Manifest.signature.over
        links  == ToSet(signed.created \o GatheredLinks(signed))
        commits(label, of(_)) ==
          \E l \in links : l.url = label /\ \E d \in l.hash : of(d.of)
        binds(content) ==
          \E a \in Algorithms : content.hash = Digest(a, Nfc(VisibleText))
        stored(label) == LET same(content) == content = Store[label] IN commits(label, same)
    IN  /\ Manifest.signature.key = Chain[1].key
        /\ \A label \in DOMAIN Store : stored(label)
        /\ informational = <<>> => commits(HashDataLabel, binds)

(* Nothing is rejected that a producer made and nobody changed, wherever the  *)
(* wrapper stands and whether or not the text is stored in NFC.               *)
GenuineTextIsAccepted ==
  pc = "returned" /\ asset \in Genuine =>
    Accepted \/ failure = <<"claimSignature.outsideValidity">>

(* The caller sees one verdict, formed in order: no status is withdrawn or      *)
(* moved to another bucket, the state is given once, at the end, and it says    *)
(* what the statuses say.                                                      *)
Verdict == INSTANCE Judgement WITH
  provenance <- IF pc = "returned" THEN state ELSE "pending"

VerifyJudgesOnce == Verdict!Spec

(* A broken assertion store hides neither the outcome of the binding nor that *)
(* of the signature: all three are judged and reported.                       *)
EveryPhaseReports ==
  pc = "returned" /\ selected # {} =>
    ToSet(BindingStatuses(asset.text, HashData(Manifest), Claim.alg, Spans))
      \cup {SignatureStatus(Manifest.signature, Claim)}
        \subseteq ToSet(success) \cup ToSet(informational) \cup ToSet(failure)

(* The span of an accepted verdict is the range its manifest excludes, and no *)
(* other wrapper of the text is excluded.                                     *)
AcceptedSpanIsExcluded ==
  Accepted =>
    \E h \in HashData(Manifest) : \E rs \in ExclusionRanges(h) :
      Spans \cap ToSet(rs) = {RangeOf(Match)}

(* Before the signature is checked the store decides how much is hashed, but   *)
(* each assertion is hashed at most once for each algorithm, however often it  *)
(* is linked or referenced.                                                    *)
HashWorkIsBounded ==
  selected # {} =>
    /\ DOMAIN cache \subseteq (DOMAIN Store) \X Algorithms
    /\ hashed = Cardinality(DOMAIN cache)

(* Taken together the rules accept only assets that were created, never ones   *)
(* made from an ingredient.                                                    *)
AcceptedStoryIsCreation ==
  Accepted =>
    LET actions == AllActions(Created, Gathered, Store)
    IN  /\ \E i \in DOMAIN actions : actions[i].name = "c2pa.created"
        /\ \A i \in DOMAIN actions :
             actions[i].name \notin {"c2pa.opened", "c2pa.placed", "c2pa.removed"}

(* "Inside validity" holds of every certificate carried, at one and the same   *)
(* instant.                                                                    *)
CredentialValidAtOneInstant ==
  "claimSignature.insideValidity" \in ToSet(success) =>
    \E t \in Instants : \A i \in DOMAIN Chain : t \in Chain[i].from .. Chain[i].to

(* Docstring of verify: it never raises for absent, corrupt or invalid marks.  *)
VerifyNeverRaises == pc # "raised"

(* Comment in _store_shape_status: a gathered hard binding binds another asset *)
(* rather than this claim's.                                                   *)
AcceptedBindingIsCreated ==
  Accepted => HashDataLabel \in ToSet(Created)

(* Comment in _assertion_result: the rule that the inception action opens the   *)
(* first actions assertion is about created_assertions alone.                *)
InceptionIsCreated ==
  Accepted =>
    LET labels == ActionsLabels(Created)
    IN  /\ labels # <<>>
        /\ Head(Store[Head(labels)].actions).name \in Inceptions

(* Every call returns or raises.                                               *)
VerifyEnds == <>(pc \in {"returned", "raised"})
=============================================================================
