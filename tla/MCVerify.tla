------------------------------- MODULE MCVerify -------------------------------
(***************************************************************************)
(* Assets and contexts for checking Verify: what embed builds; manifests put *)
(* together from a plan of linked assertions, with one or two things altered; *)
(* texts of a letter, an accent, their composition and one or two wrappers.   *)
(***************************************************************************)
EXTENDS Verify, ManifestBuilder

Bin == Digest("sha256", <<>>)

HashDataOf(ranges, visible) ==
  [isMap |-> TRUE, alg |-> {}, hashForm |-> "bytes", hash |-> Digest("sha256", visible),
   exclusions |-> {ranges}]

Act(name) == [name |-> name, ingredients |-> {}, related |-> {}, redacted |-> {}]
ActionsOf(as) == [actions |-> as, icons |-> <<>>]
Other == [value |-> 1]

Link(entry) ==
  [url |-> entry[1], alg |-> {}, hash |-> {Digest("sha256", entry[2])}]
Links_(entries) == [i \in DOMAIN entries |-> Link(entries[i])]

ClaimOf(created, gathered) ==
  [complete |-> TRUE, created |-> Links_(created),
   gathered |-> {Links_(g) : g \in gathered}, alg |-> {"sha256"},
   redacted |-> <<>>, icon |-> {}, signature |-> "own box"]

Cert(from, to) == [readable |-> TRUE, conforming |-> TRUE, key |-> "k", from |-> from, to |-> to]

Signed(claim, store) ==
  [claim |-> claim, store |-> store,
   signature |-> [cose |-> "ok", algorithmAllowed |-> TRUE, key |-> "k", over |-> claim,
                  chain |-> <<Cert(1, 2)>>]]

ManifestOf(created, gathered) ==
  Signed(ClaimOf(created, gathered),
         StoreHolding(created \o FlattenSeq(SetToSeq(gathered))))

----------------------------------------------------------------------------
(* The texts.                                                                *)

InsertMarker(t, i) == SubSeq(t, 1, i) \o <<MARKER>> \o SubSeq(t, i + 1, Len(t))
Visibles == BoundedSeq({Letter, Acute, Composed}, 2)
MarkedTexts == {InsertMarker(t, i) : <<t, i>> \in {p \in Visibles \X (0 .. 2) : p[2] <= Len(p[1])}}

Places(text) == SetToSortSeq({i \in DOMAIN text : text[i] = MARKER}, <)
WrapperWith(at, m) == [at |-> at, manifest |-> {m}, error |-> "ok"]
Unreadable(at) == [at |-> at, manifest |-> {}, error |-> "claim.missing"]
AssetOf(text, m) ==
  [text |-> text, decoy |-> FALSE, wrappers |-> [i \in DOMAIN Places(text) |-> WrapperWith(Places(text)[i], m)]]

----------------------------------------------------------------------------
(* The plain plan, and the genuine assets.                                   *)

Second(base) == [base |-> base, n |-> 1]
Created1 == <<ActionsLabel, ActionsOf(<<Act("c2pa.created")>>)>>
Binds(ranges, visible) == <<HashDataLabel, HashDataOf(ranges, visible)>>
Plain(ranges, visible) == ManifestOf(<<Created1, Binds(ranges, visible)>>, {})

Suffixed == AssetOf(<<Composed, MARKER>>, Plain(<<<<2, 3>>>>, <<Composed>>))
Infix == AssetOf(<<Letter, MARKER, Acute>>, Plain(<<<<1, 3>>>>, <<Composed>>))
Unnormalized == AssetOf(<<Letter, Acute, MARKER>>, Plain(<<<<3, 3>>>>, <<Composed>>))

(* What embed makes of a text, with either algorithm and with or without the    *)
(* optional fields of a disclosure.                                          *)
Disclosures ==
  {[modelType |-> "model", modelName |-> n, modelIdentifier |-> n, mediaType |-> "text/plain"] :
     n \in {{}, {"name"}}}

Embedded ==
  {AssetOf(Nfc(t) \o <<MARKER>>,
           BuiltManifest(t, Len(Encode(MARKER)), d, a, 1, "k", <<Cert(1, 2)>>)) :
     t \in {<<>>, <<Letter>>, <<Letter, Acute>>, <<Composed>>}, d \in Disclosures, a \in Algorithms}

MCGenuine == {Suffixed, Infix, Unnormalized} \cup Embedded

(* Other texts around the same manifests, other ranges in the manifest.       *)
RangeLists ==
  {<<>>, <<<<2, 3>>>>, <<<<1, 3>>>>, <<<<0, 3>>>>, <<<<2, 2>>>>, <<<<2, 9>>>>,
   <<<<0, 1>>, <<2, 3>>>>, <<<<0, 2>>, <<2, 3>>>>, <<<<0, 3>>, <<2, 3>>>>, <<<<2, 3>>, <<0, 1>>>>,
   <<<<1, 3>>, <<4, 1>>>>, <<<<0, 3>>, <<3, 3>>>>}

TextAssets ==
  {AssetOf(t, Plain(rs, v)) : t \in MarkedTexts, rs \in RangeLists, v \in {<<>>, <<Composed>>}}

TwoWrappers ==
  {[text |-> <<MARKER, Composed, MARKER>>, decoy |-> FALSE, wrappers |-> <<a, b>>] :
     a \in {Unreadable(1)} \cup {WrapperWith(1, Plain(rs, v)) : rs \in {<<<<0, 3>>>>, <<<<5, 3>>>>, <<<<1, 1>>>>},
               v \in {<<Composed, MARKER>>, <<MARKER, Composed>>}},
     b \in {Unreadable(3)} \cup {WrapperWith(3, Plain(rs, v)) : rs \in {<<<<5, 3>>>>, <<<<0, 3>>, <<5, 3>>>>, <<<<0, 3>>>>},
               v \in {<<MARKER, Composed>>, <<Composed, MARKER>>}}}

Unwrapped == {[text |-> <<Letter>>, decoy |-> d, wrappers |-> <<>>] : d \in BOOLEAN}
  \cup {[text |-> <<MARKER>>, decoy |-> FALSE, wrappers |-> <<Unreadable(1)>>]}

----------------------------------------------------------------------------
(* Plans: what the claim links besides the hard binding.                     *)

Ref(l, content) == [url |-> l, alg |-> {}, hash |-> {Digest("sha256", content)}]
Parent == [relationship |-> "parentOf"]
Component == [relationship |-> "componentOf"]
IngredientLabel == Label("c2pa.ingredient.v3")
Thumb == Label("c2pa.icon")

With(action, field, value) == [action EXCEPT ![field] = value]

LaterActions ==
  {Act(n) : n \in {"c2pa.edited", "c2pa.created", "c2pa.removed", "c2pa.opened", "c2pa.placed",
                   "c2pa.transcoded", "c2pa.watermarked", "not a string", "unhashable"}}
  \cup {With(Act("c2pa.placed"), "ingredients", {<<Ref(IngredientLabel, Component)>>}),
        With(Act("c2pa.transcoded"), "ingredients", {<<>>}),
        With(Act("c2pa.repackaged"), "ingredients", {<<Ref(IngredientLabel, Parent)>>}),
        With(Act("c2pa.edited"), "related", {<<Ref(Thumb, Other), Ref(Thumb, Other)>>}),
        With(Act("c2pa.edited"), "related", {<<Ref(Thumb, Parent)>>}),
        With(Act("c2pa.edited"), "related", {<<Ref(External, Other)>>}),
        With(Act("c2pa.edited"), "related", {<<>>}),
        With(Act("c2pa.edited"), "related", {<<Ref(ActionsLabel, Other)>>}),
        With(Act("c2pa.redacted"), "redacted", {Thumb}),
        With(Act("c2pa.redacted"), "redacted", {Elsewhere})}

FirstActions ==
  {<<Act("c2pa.created"), a>> : a \in LaterActions}
  \cup {<<With(Act("c2pa.opened"), "ingredients", {<<Ref(IngredientLabel, Parent)>>})>>,
        <<With(Act("c2pa.opened"), "ingredients", {<<Ref(IngredientLabel, Component)>>})>>,
        <<Act("c2pa.edited"), Act("c2pa.created")>>, <<Act("c2pa.edited")>>, <<>>}

ThumbEntry == <<Thumb, Other>>
Location(url, alg, hash) == [url |-> url, alg |-> alg, hash |-> hash]
Cloud(complete, target, location) == [complete |-> complete, target |-> target, location |-> location]
Full == {Location(External, {"sha256"}, {Bin})}

Special ==
  {<<IngredientLabel, Parent>>, <<IngredientLabel, Component>>,
   <<Label("c2pa.soft-binding"), Other>>, <<Label("c2pa.repository-receipt"), Other>>,
   <<Label("c2pa.session-keys"), Other>>,
   <<Label("c2pa.time-stamp"), [empty |-> TRUE]>>, <<Label("c2pa.time-stamp"), [empty |-> FALSE]>>}
  \cup {<<Label("c2pa.cloud-data"), p>> : p \in
          {Cloud(FALSE, Thumb, Full), Cloud(TRUE, Thumb, {}), Cloud(TRUE, HashDataLabel, Full),
           Cloud(TRUE, Label("c2pa.actions"), Full), Cloud(TRUE, Thumb, {Location(External, {}, {Bin})}),
           Cloud(TRUE, Thumb, {Location(External, {"sha256"}, {})}), Cloud(TRUE, Thumb, Full)}}
  \cup {<<Label("c2pa.external-reference"), p>> : p \in
          {Cloud(TRUE, Thumb, {}), Cloud(TRUE, Thumb, {Location(External, {}, {})}),
           Cloud(TRUE, Thumb, {Location(External, {"sha256"}, {})}),
           Cloud(TRUE, Thumb, {Location(External, {"md5"}, {Bin})}),
           Cloud(TRUE, HashDataLabel, Full), Cloud(TRUE, Thumb, Full)}}

Bound == Binds(<<<<2, 3>>>>, <<Composed>>)
SecondBinding == <<Second("c2pa.hash.data"), Bound[2]>>
Iconic(ref) == <<ActionsLabel, [actions |-> <<Act("c2pa.created")>>, icons |-> <<ref, ref>>]>>

CreatedPlans ==
  {<<<<ActionsLabel, ActionsOf(as)>>, Bound>> : as \in FirstActions}
  \cup {<<Created1, Bound, e>> : e \in Special}
  \cup {<<Iconic(r), Bound>> : r \in {Ref(Thumb, Other), Ref(Thumb, Parent), Ref(External, Other),
                                     Ref(Dangling, Other)}}
  \cup {<<>>, <<Bound>>, <<Created1>>, <<Created1, SecondBinding>>, <<Created1, Bound, SecondBinding>>,
        <<<<Label("c2pa.actions"), Created1[2]>>, Bound>>,
        <<<<Second("c2pa.actions.v2"), Created1[2]>>, Bound>>,
        <<<<Second("c2pa.actions.v2"), ActionsOf(<<Act("c2pa.edited")>>)>>, Created1, Bound>>,
        <<Created1, Bound, Created1>>}

GatheredPlans ==
  {{}, {<<>>}, {<<ThumbEntry>>}, {<<Bound>>}, {<<<<Label("c2pa.soft-binding"), Other>>, ThumbEntry>>},
   {<<<<Second("c2pa.actions.v2"), Created1[2]>>, ThumbEntry>>},
   {<<<<Second("c2pa.ingredient.v3"), Parent>>, <<IngredientLabel, Parent>>, ThumbEntry>>},
   {<<<<IngredientLabel, Component>>>>}}

PlanAssets == {AssetOf(<<Composed, MARKER>>, ManifestOf(c, g)) : c \in CreatedPlans, g \in GatheredPlans}

----------------------------------------------------------------------------
(* One thing changed in the plain manifest: a link, the claim or the store,   *)
(* with the claim signed again or not; or the signature.                      *)

P == Plain(<<<<2, 3>>>>, <<Composed>>)

ClaimsNear(c) ==
  {[c EXCEPT !.created[i] = l] : i \in DOMAIN c.created, l \in
     UNION {{[c.created[k] EXCEPT !.alg = {"sha384"}], [c.created[k] EXCEPT !.alg = {"md5"}],
             [c.created[k] EXCEPT !.hash = {}], [c.created[k] EXCEPT !.url = Unusable],
             [c.created[k] EXCEPT !.url = Elsewhere], [c.created[k] EXCEPT !.url = Thumb]} :
               k \in DOMAIN c.created}}
  \cup {[c EXCEPT !.alg = {}], [c EXCEPT !.complete = FALSE], [c EXCEPT !.signature = "elsewhere"],
        [c EXCEPT !.redacted = <<Unusable>>], [c EXCEPT !.redacted = <<Elsewhere, HashDataLabel>>],
        [c EXCEPT !.redacted = <<Elsewhere>>], [c EXCEPT !.icon = {Ref(Unusable, Other)}],
        [c EXCEPT !.icon = {Ref(External, Other)}]}

HashDatasNear(h) ==
  {[h EXCEPT !.isMap = FALSE], [h EXCEPT !.alg = {"md5"}], [h EXCEPT !.alg = {"sha384"}],
   [h EXCEPT !.hashForm = "absent"], [h EXCEPT !.hashForm = "notBytes"],
   [h EXCEPT !.exclusions = {}], [h EXCEPT !.hash = Digest("sha256", <<Letter>>)]}

StoresNear(s) ==
  {[s EXCEPT ![HashDataLabel] = h] : h \in HashDatasNear(s[HashDataLabel])}
  \cup {[s EXCEPT ![ActionsLabel] = ActionsOf(<<Act("c2pa.created"), Act("c2pa.edited")>>)],
        [l \in DOMAIN s \cup {Thumb} |-> IF l = Thumb THEN Other ELSE s[l]],
        [l \in DOMAIN s \ {HashDataLabel} |-> s[l]]}

SignaturesNear(s) ==
  {[s EXCEPT !.cose = "bad credential"], [s EXCEPT !.cose = "bad structure"],
   [s EXCEPT !.algorithmAllowed = FALSE], [s EXCEPT !.key = "another"],
   [s EXCEPT !.chain[1].readable = FALSE], [s EXCEPT !.chain[1].conforming = FALSE],
   [s EXCEPT !.chain = <<Cert(1, 2), Cert(2, 3)>>], [s EXCEPT !.chain = <<Cert(1, 1), Cert(2, 2)>>]}

Resigned(m) == [m EXCEPT !.signature.over = m.claim]
Relinked(m) ==
  [m EXCEPT !.claim.created = [i \in DOMAIN @ |->
    IF @[i].url \in DOMAIN m.store
    THEN [@[i] EXCEPT !.hash = {Digest("sha256", m.store[m.claim.created[i].url])}]
    ELSE @[i]]]

Altered ==
  LET one == {[P EXCEPT !.claim = c] : c \in ClaimsNear(P.claim)}
               \cup {[P EXCEPT !.store = s] : s \in StoresNear(P.store)}
               \cup {[P EXCEPT !.signature = s] : s \in SignaturesNear(P.signature)}
      two == {[m EXCEPT !.store = s] : m \in one, s \in StoresNear(P.store)}
               \cup {[m EXCEPT !.signature = s] : m \in one, s \in SignaturesNear(P.signature)}
      all == one \cup two
  IN  all \cup {Resigned(m) : m \in all}
            \cup {Relinked(m) : m \in one} \cup {Resigned(Relinked(m)) : m \in all}

AlteredAssets == {AssetOf(<<Composed, MARKER>>, m) : m \in Altered}

MCAssets == MCGenuine \cup TextAssets \cup TwoWrappers \cup Unwrapped \cup PlanAssets \cup AlteredAssets

MCContexts ==
  {[now |-> {}, anchors |-> FALSE, evaluator |-> "trusts"],
   [now |-> {2}, anchors |-> TRUE, evaluator |-> "trusts"],
   [now |-> {1}, anchors |-> TRUE, evaluator |-> "raises"]}
=============================================================================
