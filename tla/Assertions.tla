------------------------------ MODULE Assertions ------------------------------
(***************************************************************************)
(* What the claim says of the assertion store: the links of the claim, the  *)
(* references inside assertions and the rules on the store as a whole       *)
(* (_resolve_algorithm and _assertion_label to _store_shape_status in       *)
(* src/c2patxt/_verify.py).                                                 *)
(*                                                                          *)
(* A label is its C2PA 6.4 base and instance number, 0 for the bare base.   *)
(* A store maps labels to contents.  An optional field is the set of its    *)
(* value, {} when it is absent.  A URI is a label of this manifest or one   *)
(* of four other places.                                                    *)
(***************************************************************************)
EXTENDS Binding

Label(base) == [base |-> base, n |-> 0]

Elsewhere == Label("another manifest")      \* self#jumbf, not in this manifest
Dangling  == Label("no scheme")             \* neither self#jumbf nor a URI scheme
External  == Label("external")              \* any other URI scheme
Unusable  == Label("not a string")

HashDataLabel == Label("c2pa.hash.data")

IngredientBases == {"c2pa.ingredient", "c2pa.ingredient.v2", "c2pa.ingredient.v3"}
ActionsBases == {"c2pa.actions.v2", "c2pa.actions"}
UnsupportedBases == IngredientBases \cup
  {"c2pa.session-keys", "c2pa.alternative-content-representation"}

HashBases == {"c2pa.hash.bmff.v2", "c2pa.hash.bmff.v3", "c2pa.hash.boxes",
              "c2pa.hash.collection.data", "c2pa.hash.data", "c2pa.hash.multi-asset"}
CloudHardBindingBases == HashBases \cup IngredientBases
                           \cup {"c2pa.action", "c2pa.actions.v2", "c2pa.cloud-data"}
CloudMalformedBases == HashBases \cup IngredientBases \cup ActionsBases \cup {"c2pa.cloud-data"}
ExternalForbiddenBases == CloudMalformedBases \cup {"c2pa.external-reference"}

LabelsIn(labels, bases) == {l \in ToSet(labels) : l.base \in bases}

(* The first status of a sequence that is not "ok".                          *)
FirstFailure(statuses) ==
  LET failed == {i \in DOMAIN statuses : statuses[i] # "ok"}
  IN  IF failed = {} THEN "ok" ELSE statuses[Min(failed)]

----------------------------------------------------------------------------
(* _link_status and _reference_status.  digests[<<label, alg>>] is the       *)
(* digest of the stored bytes, from the cache of the call if it is there.    *)

LinkStatus(link, store, claimAlg, digests) ==
  LET algs == ResolveAlgorithm(link.alg, claimAlg)
  IN  IF link.url = Unusable \/ link.hash = {} THEN "claim.malformed"
      ELSE IF algs = {} THEN "algorithm.unsupported"
      ELSE IF link.url.base \in {Elsewhere.base, Dangling.base, External.base}
      THEN "assertion.outsideManifest"
      ELSE IF link.url \notin DOMAIN store THEN "assertion.missing"
      ELSE IF \E a \in algs : digests[<<link.url, a>>] \notin link.hash
      THEN "assertion.hashedURI.mismatch"
      ELSE "ok"

ReferenceStatus(ref, store, claimAlg, digests) ==
  LET algs == ResolveAlgorithm(ref.alg, claimAlg)
  IN  IF ref.url = External THEN "ok"                   \* never retrieved
      ELSE IF ref.url \notin DOMAIN store THEN "hashedURI.missing"
      ELSE IF algs = {} THEN "algorithm.unsupported"
      ELSE IF \E a \in algs : digests[<<ref.url, a>>] \notin ref.hash THEN "hashedURI.mismatch"
      ELSE "ok"

(* The digests that evaluating a link or a reference asks for.               *)
LinkDigests(link, store, claimAlg) ==
  IF link.url \in DOMAIN store /\ link.hash # {}
  THEN {link.url} \X ResolveAlgorithm(link.alg, claimAlg) ELSE {}

ReferenceDigests(ref, store, claimAlg) ==
  IF ref.url \in DOMAIN store /\ ref.hash # {}
  THEN {ref.url} \X ResolveAlgorithm(ref.alg, claimAlg) ELSE {}

----------------------------------------------------------------------------
(* The claim itself: _claim_malformed, _assertion_links and                  *)
(* _redacted_assertions_failure, a list <<Unusable>> when it is none.         *)

GatheredLinks(claim) ==
  IF claim.gathered = {} THEN <<>> ELSE CHOOSE g \in claim.gathered : TRUE

ClaimStatus(claim) ==
  LET redacted(u) == IF u = Unusable THEN "claim.malformed"
                     ELSE IF u \in {Elsewhere, Dangling, External} THEN "ok"
                     ELSE "assertion.selfRedacted"
  IN  IF ~ claim.complete THEN "claim.malformed"
      ELSE IF claim.created = <<>> \/ claim.gathered = {<<>>} THEN "claim.malformed"
      ELSE FirstFailure([i \in DOMAIN claim.redacted |-> redacted(claim.redacted[i])])

----------------------------------------------------------------------------
(* One action of an actions assertion.  `ingredients` is the field its       *)
(* version reads, ingredient in v1 and ingredients in v2; {<<>>} stands for  *)
(* a malformed or an empty list.                                             *)

ActionReferenceStatus(ref, store, claimAlg, digests) ==
  IF ref.url = External THEN "hashedURI.missing"
  ELSE ReferenceStatus(ref, store, claimAlg, digests)

IngredientsMatch(refs, relationship, store, claimAlg, digests) ==
  /\ refs # <<>>
  /\ \A i \in DOMAIN refs :
       /\ ActionReferenceStatus(refs[i], store, claimAlg, digests) = "ok"
       /\ refs[i].url.base \in IngredientBases
       /\ store[refs[i].url].relationship = relationship

IngredientStatus(action, store, claimAlg, digests) ==
  LET match(relationship) == \A refs \in action.ingredients :
        IngredientsMatch(refs, relationship, store, claimAlg, digests)
      named == action.ingredients # {}
      mismatch ==
        CASE action.name = "c2pa.removed" -> TRUE
          [] action.name = "c2pa.opened" ->
               ~ (named /\ match("parentOf") /\ \A refs \in action.ingredients : Len(refs) = 1)
          [] action.name = "c2pa.placed" -> ~ (named /\ match("componentOf"))
          [] action.name \in {"c2pa.transcoded", "c2pa.repackaged"} -> ~ match("parentOf")
          [] OTHER -> FALSE
  IN  IF mismatch THEN "assertion.action.ingredientMismatch" ELSE "ok"

RedactionStatus(action, store) ==
  IF action.name = "c2pa.redacted" /\ action.redacted \cap DOMAIN store = {}
  THEN "assertion.action.redactionMismatch" ELSE "ok"

RelatedStatus(action, store, claimAlg, digests) ==
  LET one(ref) ==
        LET s == ActionReferenceStatus(ref, store, claimAlg, digests)
        IN  IF s = "ok" /\ ref.url.base \in IngredientBases \cup ActionsBases
            THEN "assertion.action.malformed" ELSE s
      all(refs) == IF refs = <<>> THEN "assertion.action.malformed"
                   ELSE FirstFailure([i \in DOMAIN refs |-> one(refs[i])])
  IN  IF action.related = {} THEN "ok" ELSE all(CHOOSE refs \in action.related : TRUE)

SoftBindingLabels(labels) == LabelsIn(labels, {"c2pa.soft-binding"})

ActionStatus(action, labels, store, claimAlg, digests) ==
  IF action.name = "not a string" THEN "assertion.action.malformed"
  ELSE FirstFailure(<<
    IngredientStatus(action, store, claimAlg, digests),
    RedactionStatus(action, store),
    RelatedStatus(action, store, claimAlg, digests),
    IF /\ action.name \in {"c2pa.watermarked", "c2pa.watermarked.bound"}
       /\ SoftBindingLabels(labels) = {}
    THEN "assertion.action.softBindingMissing" ELSE "ok">>)

(* The digests it asks for: references are taken in order up to the first    *)
(* that fails, and those of a later rule only if the earlier rules hold.     *)
ReadUpTo(refs, good) ==
  {refs[i] : i \in {k \in DOMAIN refs : \A j \in 1 .. k - 1 : refs[j] \in good}}

ActionDigests(action, store, claimAlg, digests) ==
  LET readsIngredients ==
        \/ action.name \in {"c2pa.placed", "c2pa.transcoded", "c2pa.repackaged"}
        \/ action.name = "c2pa.opened" /\ \A refs \in action.ingredients : Len(refs) = 1
      readsRelated ==
        /\ action.name # "not a string"
        /\ IngredientStatus(action, store, claimAlg, digests) = "ok"
        /\ RedactionStatus(action, store) = "ok"
      relationship == IF action.name = "c2pa.placed" THEN "componentOf" ELSE "parentOf"
      matching(refs) ==
        {r \in ToSet(refs) : IngredientsMatch(<<r>>, relationship, store, claimAlg, digests)}
      relatable(refs) ==
        {r \in ToSet(refs) : RelatedStatus([related |-> {<<r>>}], store, claimAlg, digests) = "ok"}
      read == (IF readsIngredients
               THEN UNION {ReadUpTo(refs, matching(refs)) : refs \in action.ingredients} ELSE {})
                \cup (IF readsRelated
                      THEN UNION {ReadUpTo(refs, relatable(refs)) : refs \in action.related} ELSE {})
  IN  UNION {ReferenceDigests(r, store, claimAlg) : r \in read \ {External}}

----------------------------------------------------------------------------
(* _actions_status, the part that precedes the actions themselves: exactly   *)
(* one inception action, at the very start of the first actions assertion of *)
(* the created or of the gathered group.                                     *)

Inceptions == {"c2pa.created", "c2pa.opened"}

ActionsLabels(labels) ==
  FlattenSeq([i \in DOMAIN labels |->
    IF labels[i].base \in ActionsBases /\ \A j \in 1 .. i - 1 : labels[j] # labels[i]
    THEN <<labels[i]>> ELSE <<>>])

(* The entries of a group in order: the first assertion that has none, the    *)
(* first action that cannot be looked up in the set of inception actions (its  *)
(* name is a list or a map) or is one out of its place ends the scan.        *)
ScanGroup(labels, store) ==
  FlattenSeq([k \in DOMAIN labels |->
    LET actions == store[labels[k]].actions
    IN  IF actions = <<>> THEN <<"assertion.action.malformed">>
        ELSE [a \in DOMAIN actions |->
                CASE actions[a].name = "unhashable" -> "TypeError"
                  [] actions[a].name \in Inceptions /\ <<k, a>> # <<1, 1>> ->
                       "assertion.action.malformed"
                  [] OTHER -> "ok"]])

(* Every action, in the order _actions_status takes them.                    *)
AllActions(created, gathered, store) ==
  LET labels == ActionsLabels(created) \o ActionsLabels(gathered)
  IN  FlattenSeq([i \in DOMAIN labels |-> store[labels[i]].actions])

InceptionCount(created, gathered, store) ==
  LET all == AllActions(created, gathered, store)
  IN  Cardinality({i \in DOMAIN all : all[i].name \in Inceptions})

InceptionStatus(created, gathered, store) ==
  LET scan == FirstFailure(ScanGroup(ActionsLabels(created), store)
                             \o ScanGroup(ActionsLabels(gathered), store))
  IN  IF scan # "ok" THEN scan
      ELSE IF InceptionCount(created, gathered, store) # 1
           THEN "assertion.action.malformed" ELSE "ok"

----------------------------------------------------------------------------
(* _cloud_data_status and _external_reference_status.  `location` is {} or a *)
(* location map; `target` the label of the data that is kept elsewhere.      *)

LocationUsable(location) == \E l \in location : l.url # Unusable

CloudDataStatus(p) ==
  IF ~ p.complete \/ p.location = {} \/ p.target = Unusable
  THEN "assertion.cloud-data.malformed"
  ELSE IF p.target.base \in CloudHardBindingBases THEN "assertion.cloud-data.hardBinding"
  ELSE IF \/ p.target.base \in CloudMalformedBases
          \/ ~ LocationUsable(p.location)
          \/ \E l \in p.location : l.hash = {}
  THEN "assertion.cloud-data.malformed"
  ELSE IF \E l \in p.location : l.alg \cap Algorithms = {} THEN "algorithm.unsupported"
  ELSE "ok"

ExternalReferenceStatus(p) ==
  IF ~ LocationUsable(p.location) \/ \E l \in p.location : (l.alg = {}) # (l.hash = {})
  THEN "assertion.external-reference.malformed"
  ELSE IF \E l \in p.location : l.alg # {} /\ l.alg \cap Algorithms = {}
  THEN "algorithm.unsupported"
  ELSE IF p.target = Unusable \/ p.target.base \in ExternalForbiddenBases
  THEN "assertion.external-reference.malformed"
  ELSE "ok"

(* _specific_assertion_status: what this profile cannot validate fails.      *)
UnsupportedPasses(label, store) ==                                \* defect
  CASE label.base = "c2pa.cloud-data" -> CloudDataStatus(store[label])
    [] label.base = "c2pa.external-reference" -> ExternalReferenceStatus(store[label])
    [] OTHER -> "ok"

SpecificStatus(label, store) ==
  CASE label.base = "c2pa.cloud-data" -> CloudDataStatus(store[label])
    [] label.base = "c2pa.external-reference" -> ExternalReferenceStatus(store[label])
    [] label.base = "c2pa.time-stamp" /\ store[label].empty -> "assertion.timestamp.malformed"
    [] label.base = "c2pa.time-stamp" /\ ~ store[label].empty -> "general.error"
    [] label.base \in UnsupportedBases -> "general.error"
    [] OTHER -> "ok"

----------------------------------------------------------------------------
(* _store_shape_status, before and after the actions.                        *)

HardBindings(labels) == LabelsIn(labels, {"c2pa.hash.data"})

Parents(labels, store) ==
  {l \in ToSet(labels) : l.base \in IngredientBases /\ store[l].relationship = "parentOf"}

ShapeStatus(created, gathered, store) ==
  FirstFailure(<<
    IF ToSet(created) \cap {Label(b) : b \in ActionsBases} = {}
      THEN "assertion.missing" ELSE "ok",
    IF HardBindings(created) = {} THEN "claim.hardBindings.missing" ELSE "ok",
    IF Cardinality(HardBindings(created)) > 1
      THEN "assertion.multipleHardBindings" ELSE "ok",
    IF Cardinality(Parents(created \o gathered, store)) > 1
      THEN "manifest.multipleParents" ELSE "ok",
    IF LabelsIn(created \o gathered, {"c2pa.repository-receipt"}) # {}
      THEN "general.error" ELSE "ok">>)

UndeclaredStatus(labels, store) ==
  IF DOMAIN store \subseteq ToSet(labels) THEN "ok" ELSE "assertion.undeclared"

(* _claim_references and _action_references: the icons, in order.            *)
Icons(claim, created, gathered, store) ==
  LET labels == ActionsLabels(created \o gathered)
  IN  SetToSeq(claim.icon) \o FlattenSeq([i \in DOMAIN labels |-> store[labels[i]].icons])
=============================================================================
