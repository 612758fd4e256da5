# Verification of c2patxt in TLA+

c2patxt hides a C2PA manifest in a text as one U+FEFF followed by variation
selectors, one selector for each byte, and reads it back. This directory holds
TLA+ models of that program, the configurations with which TLC checks them, and
proofs that TLAPS checks. Source references are to `src/src/c2patxt/` unless a
path says otherwise.

## 1. The system

| Component | State it keeps | Operations | Interacts with |
|---|---|---|---|
| selector framing (`_selectors.py`, `constants.py`) | none | byte to selector and back, `build_wrapper`, `parse_wrapper_body` | the scan, `embed` |
| scan (`_locate.py`) | of a call: index, bytes consumed so far, wrappers found, first corrupt candidate | `find_wrappers`, `locate`, `strip` | `verify`, `extract`, `embed` call `find_wrappers` |
| padding search (`_fixpoint.py`) | of a call: target length, window, candidate | `solve` | calls back into `embed`, which signs |
| embedding (`_embed.py`) | none between calls | `embed` | framing, scan, normalization, manifest, COSE, search |
| manifest (`manifest.py`) | immutable values | `_prepare_manifest`, `_serialize_prepared_manifest`, `ManifestStore.hash_data` | CBOR, JUMBF |
| CBOR and JUMBF (`_cbor.py`, `_jumbf.py`) | of a call: position, depth | encode, decode, box headers | manifest, extraction, COSE |
| COSE (`_cose.py`) | a parsed message, its chain cached | `parse`, algorithm check, signature check, padding | signer, verification |
| extraction (`_extract.py`) | none | payload to `ManifestStore`, `extract` | scan, JUMBF, CBOR |
| verification (`_verify.py`) | of a call: digest cache, verdict so far | `verify` | everything on the reading side, the caller's clock and trust evaluator |
| verdict (`verdict.py`, `status.py`) | three tuples of statuses, a provenance | filing, `at_least`, `raise_for_state` | verification, the caller |
| trust and signer (`trust.py`, `signing.py`) | immutable values | profile of a certificate, of a chain, of a disclosure | embedding, verification |
| `exceptions.py`, `src/tools/robustness.py` | none | error values; a command-line client | callers |

The package has no threads and persists nothing. What makes it hard is of
another kind:

- **Adversarial order of legal data.** Wrappers, halves of wrappers, damaged
  candidates and byte-order marks meet in any order in one text, and three public
  operations apply different policies to one scan of it.
- **Self-reference.** The manifest declares the length of the wrapper that holds
  it; the declaration, the digest over it and the signature over that digest
  change that length.
- **Reading before authenticating.** Assertions and binding are evaluated before
  the signature that makes them trustworthy. An unsigned store decides how much
  work is done, and no phase is meaningful without the others.
- **Two coordinate systems.** Offsets count the bytes received, hashes cover the
  NFC form of what is left after removal.
- **Partial failure.** A phase fails and the others still run; the caller's
  evaluator may raise; the first bad assertion ends its phase only.
- **Repetition.** Operations applied to each other's results: strip after strip,
  embed on a marked text, verification long after embedding.

What makes each component correct: the scan finds the wrappers and nothing else,
with true byte spans, and each operation applies its own policy; the search ends,
with an exact length or an error; verification accepts only what was signed,
accepts all that is genuine, and reports why; the codecs round-trip and bound
their input; the chain rules hold of the chain and not only of each link.

## 2. The modules

| Module | Models | Extends |
|---|---|---|
| `Selectors` | `_selectors.py`, `constants.py`, UTF-8 lengths | |
| `Framing` | abstract: the wrappers of a text, and what `find_wrappers`, `locate` and `strip` answer | `Selectors` |
| `Calls` | abstract: a caller of three functions, whose answers are parameters | |
| `Locate` | `_locate.py`; implements `Calls` with the answers of `Framing` | `Framing` |
| `Search` | abstract: what `solve` promises | |
| `Fixpoint` | `_fixpoint.py` with the lengths of what `embed` builds; implements `Search` | `Selectors` |
| `Binding` | `_verify.py` 112-289, `_normalization.py` | `Selectors` |
| `Assertions` | `_verify.py` 185-210, 345-1307 | `Binding` |
| `ClaimSignature` | what `verify` concludes from a summary of a signature | |
| `ManifestBuilder` | `manifest.py`: the assertions, links and claim that `embed` writes | `Assertions` |
| `Judgement` | abstract: what a `Verdict` promises | |
| `Verify` | `_verify.py` 292-342, 1310-1549, `verdict.py`; implements `Judgement` | `Assertions`, `ClaimSignature` |
| `Lifecycle` | `_embed.py`, and a marked text until it is read | `ManifestBuilder`, `Framing` |
| `Certificates` | the profile of `trust.py` | |
| `Credential` | `signing.py`, `_cose.py`, `_check_signature` | `Certificates`, `ClaimSignature` |
| `Cbor` | `_cbor.py` | |
| `Jumbf` | `_jumbf.py` | |
| `Extract` | `_extract.py` | |
| `MCLocate`, `MCFixpoint`, `MCVerify`, `MCLifecycle`, `MCCredential`, `MCCbor`, `MCJumbf`, `MCExtract` | instances for TLC | one each |
| `TextLemmas` | facts on naturals, sequences, wrappers and UTF-8 that several proofs share | `Binding`, `Framing` |
| `LocateProofs`, `VerifyProofs`, `ExtractProofs`, `LifecycleProofs` | theorems on `Locate`, `Verify`, `Extract`, `Lifecycle` | the component, `TextLemmas` |
| `FixpointProofs`, `CredentialProofs` | theorems on `Fixpoint`, `Credential` | the component |
| `CodecProofs` | theorems on `Cbor` and on `Jumbf` | both, `TextLemmas` |

How they fit together:

```
   bytes of a text      payload             manifest store         verdict
   Locate => Calls      Jumbf, Cbor         Extract                Verify => Judgement
        |                    \________________/                     ^  ^        ^
     Framing                                                 Binding  |     ClaimSignature
        |                                                     |  Assertions     |
        +--------- Lifecycle (embed, edits, strip, readers) --+            Credential
                       |                                               (Signer, COSE, profile)
     Fixpoint => Search
```

An arrow `=>` is a refinement that a run checks. `Lifecycle` composes the
*specifications* of its parts: it takes from `Search` the answers `embed` may get,
from `Framing` what a scan finds, from `ManifestBuilder` the hard binding `embed`
writes and from `Binding` how it is read. What `ManifestBuilder` writes is among the
genuine texts of `MCVerify`, so that `GenuineTextIsAccepted` compares the writer with
the rules of the reader. `Credential` and
`Verify` meet in `ClaimSignature`: `Verify` uses its `SignatureStatus` on the
summary of a signature, and `StatusIsTheOneVerifyFiles` checks that the message,
judged step by step, gets that status.

A definition marked `\* defect` is a plausible error in the definition that
follows it, kept to show that a property can fail; no specification uses it.

### Selectors, Framing, Calls and Locate

Texts are sequences of code points and selectors are the real ones, so the
three- and four-byte halves of the byte range, the UTF-8 length of everything
and the byte splice of `strip` are exact. Only the greatest payload length
(`MaxManifestLength`) is a parameter.

`Framing` says what a wrapper is without a scan (`Wrappers(t)`: a place where the
text reads as `build_wrapper` would have written it), what a corrupt candidate is,
and `Answers(operation, t)`: what each public function returns or raises. `Calls`
is the specification built from the answers.

`Locate` has one action for the entry of a call (`Begin`, which also rejects
text that UTF-8 cannot encode), one for a turn of the loop of `_scan_wrappers`
(`Turn`: skip, remember the first corrupt candidate, accept) and one for what
each public operation makes of the result (`Return`). `index`, `consumed` and
`prefixBytes` are `search_index`, `consumed_index` and `prefix_bytes`. The
caller may call again, with the same text or with the one `strip` returned
(`CallOnStripped`).

| Property | What it says |
|---|---|
| `ScanFindsEveryWrapper` | at every turn, the wrappers held are those that start before the index; at the end, all |
| `SpansAreWrapperBytes` | a span is the byte range of the wrapper as declared, not as far as selectors go on |
| `RemainingWrapperStraddlesSeam` | whatever wrapper `strip` leaves was made by joining two halves |
| `ScanServesCalls` | `Locate` implements `Calls`: each call answers once, with the spans, the rest of the text or the error (code and offset) that `Framing` gives for its text. In particular a decoy hides no wrapper from `find_wrappers` and `locate`, and `strip` refuses a text with a candidate of unknown extent |
| `EveryCallReturns` | each call ends |

### Search and Fixpoint

`embed` builds a wrapper whose length depends on its inputs through the sizes of
its parts. A `Frame` records those sizes. `WrapperLength` adds up what still
varies: the declared length as a CBOR integer, the pad and its head, seven 32-bit
length fields around them (a byte below 16 costs three UTF-8 bytes, another
four), and `opaque`, what digest and signature cost above three bytes a byte,
drawn anew for each candidate because those bytes are arbitrary. Actions follow
`solve` and `_try_padding`: probe, prepare, baseline, one pad at a time, next
target, give up. `build_wrapper`'s refusal of a payload that is too long is a
disjunct of every action that builds one.

| Property | What it says |
|---|---|
| `NoFittingPadIsMissed` | no pad that fits lies outside the window or is passed over |
| `WorkIsBounded` | at most 33 candidates signed, at most 10 wrappers built of each |
| `SolveKeepsPromise` | `Fixpoint` implements `Search`: one answer, and a wrapper has the length it declares and fits the reader's limit |
| `SolveReturns` | the search ends |

### Binding, Assertions, Judgement and Verify

A text in `Binding` is code points with their real UTF-8 bytes, so an exclusion
may cut a code point and leave bytes that do not decode. In `Verify` one U+FEFF
stands for a whole wrapper, because nothing there depends on a wrapper's bytes.
NFC is exact on a letter, an accent and their composition; every other code point
composes with nothing. The digest of a content is the content itself with the
algorithm.

In `Assertions` a label is a base and an instance number, a URI is a label of
this manifest or one of four other places (another manifest, no scheme, external,
not a string), and an optional field is a set with at most one element. Each rule
is an operator that returns its status or `"ok"`, and `FirstFailure` keeps their
order. `LinkDigests`, `ReferenceDigests` and `ActionDigests` say which digests a
step asks for, since rules stop at their first failure.

`Verify` has the phases of `verify`:

| Action | Code |
|---|---|
| `Scan` | `find_wrappers`, no match, corrupt mark (1526-1534) |
| `Select` | `_select_text_manifest` |
| `CheckClaim` | start of `_assertion_result`: claim, link arrays, redactions |
| `CheckLink` | one link in `_resolve_links`, with the digest cache |
| `CheckShape` | `_store_shape_status` up to the end of the first loop of `_actions_status` |
| `CheckAction` | one call of `_action_status` |
| `CheckSpecific` | `_specific_assertion_status` and the undeclared check |
| `CheckReference` | one icon reference |
| `AcceptAssertions`, `CheckBinding`, `CheckSignature`, `JudgeCredential`, `Conclude` | the rest of `verify` |

| Property | What it says |
|---|---|
| `AcceptedTextWasSigned` | the claim the signer's key signed commits to the NFC form of what the text shows outside the selected wrapper (unless the verdict announces further exclusions), and to every assertion of the manifest it reports |
| `GenuineTextIsAccepted` | an unchanged text of a producer is accepted, wherever the wrapper stands and in NFC or not |
| `EveryPhaseReports` | a bad store hides neither the binding nor the signature |
| `AcceptedSpanIsExcluded` | the selected wrapper is excluded, and no other wrapper of the text is |
| `HashWorkIsBounded` | each assertion is hashed at most once for each algorithm |
| `AcceptedStoryIsCreation` | the rules together accept created texts only, none made from an ingredient |
| `CredentialValidAtOneInstant` | inside validity holds of all certificates carried at one instant |
| `VerifyJudgesOnce` | `Verify` implements `Judgement`: statuses are never withdrawn, one provenance is given, after all statuses, and they explain it (INVALID exactly with a failure other than an untrusted credential, TRUSTED only with a trusted one) |
| `VerifyEnds` | each call ends |

### Lifecycle

A text from its author to its readers, in real code points. `Embed` is `embed` up
to the search, its checks in their order: the disclosure can be represented, the
digest algorithm, the signer's chain at the claimed instant, the nonstarter bound,
an existing or damaged mark, a lone surrogate; it leaves the manifest it is about
to sign in `draft`. `FinishEmbed` takes an answer that `Search` allows and appends
the wrapper to the normalized text. `Edit` is one thing people and programs do to a
marked text: type a letter, an accent, a marker or a selector, erase a character,
paste an issued wrapper anywhere, compose or decompose. `Strip` is `strip`. A payload is one byte
that names an issued manifest and may be followed by padding. `Verdict(t, now)` and
`Extracted(t)` are what the readers say of the text as it stands.

| Property | What it says |
|---|---|
| `EmbeddedTextIsAccepted` | what `embed` returns is accepted at exactly the instants at which all certificates are valid, and at the instant it claims, although `embed` checks the chain at that instant and `verify` at its own |
| `AcceptedTextWasEmbedded` | however a text was edited, cut, normalized, marked again: if it is accepted, its one wrapper holds the manifest that `extract` returns, and what `strip` leaves is, up to composition, what the author gave `embed` |
| `StripUndoesEmbed` | `strip` takes back exactly what `embed` added |
| `EmbedAddsTheOnlyMark` | `embed` writes only on a text without a wrapper or a damaged one, though it looks before it normalizes; then the mark is the only one |

### Certificates and Credential

A certificate is a record of the fields the profile reads; `ConformsAt(chain, i)`
gives the rules of its role. `Credential` follows one message: `Signer` checks a
chain (`CheckLeaf`, `CheckChainLink`, `CheckProfile`), a claim is signed and
serialized, possibly again with other padding (`SignClaim`, `Reserialize`), or a
message of another producer arrives (`Receive`); buckets and claim may be changed on
the way (`Edit`); then `_check_signature` judges: `Parse`, `CheckAlgorithm`, one
`LoadCertificate` and one `AcceptCertificate` for each certificate,
`VerifySignature`. Labels are named by their meaning, the integer label 33 being
`"33"`.

| Property | What it says |
|---|---|
| `OwnSignatureIsAccepted` | what a `Signer` signs and nobody touches `verify` accepts, save for a profile the caller chose not to check: the constructor and the reader agree |
| `UnsignedEditsHaveNoSay` | the unprotected bucket cannot change the verdict on what was signed, except by labels that must be refused there |
| `AcceptedCredentialWasSigned` | an accepted signature was made by the leaf's key over the claim, and with the judged chain if one was signed under the integer label |
| `LeafIsNoCarriedCa` | a signing certificate stands nowhere else in the chain it leads |
| `StatusIsTheOneVerifyFiles` | of several faults the reported one is the first in the order of the code, as `Verify` has it |

A chain signed under the text label `x5chain` alone gives way to an integer label
in the other bucket; that is the precedence C2PA 14.5 prescribes, so the third
property speaks of the integer label only.

### Cbor, Jumbf and Extract

The three read what no signature covers yet. `Cbor` is `loads` as a machine: the
input grows byte by byte from the bytes of one of its `Sources`, `decode`'s
recursion is a stack of frames. A value is its identity in the data model together
with the encoding `dumps` would write for it, so the machine carries the writer
along; an accepted input may be read again in the other mode or as `dumps` wrote it
(`Again`). `Jumbf` is `parse_superbox` over headers only: what a header says is
chosen when the parser arrives at it, unless the writer laid it out; its names begin
with `Parser` where `Cbor` has the plain ones (`ParserSpec`), because one module
proves theorems on both. `Extract` is
`parse_manifest_store`, from the outer box to the `ManifestStore`; a payload says
what decoding it gives.

| Property | What it says |
|---|---|
| `Cbor!TypeOK` | the stack never exceeds the depth limit, nothing is read out of range |
| `OneEncoding` | what the deterministic mode reads and `dumps` can write was read from the bytes it writes |
| `SecondReadingAgrees` | both modes read one value from one input, and what `dumps` wrote reads back |
| `EveryInputIsJudged`, `EveryBoxIsJudged` | every input is accepted or refused |
| `HeadersNeverOverlap` | no byte is read in two box headers, whatever lengths are declared |
| `PartsTileTheBox` | an accepted superbox is cut into its parts without gap or overrun |
| `WrittenBoxIsReadBack` | `serialize_superbox` writes what `parse_superbox` reads |
| `LastManifestIsActive` | the last manifest of a store is judged, of whatever type |
| `PartsAreUnambiguous` | no second and no foreign box stands in for a labelled part |
| `EveryAssertionIsKept` | every assertion box can be hashed, as it arrived, decoded or not |
| `DamageMeansDamage` | the code of a damaged wrapper is kept for damage to the boxes |

## 3. The runs

| Run | Question | States | Bounds, and why they are enough |
|---|---|---|---|
| `MCLocate` | is the scan exact, are the three policies right, does every call end? | 25 226 | all pairs of 14 fragments and all triples of 10 of them; a decoy, a wrapper and a piece of a third, or a wrapper inside two halves, fit in three. Payloads of at most 2 bytes, two calls, so one on a stripped text |
| `MCLocateStrip` | does `strip` remove all wrappers? Violated | | the same, one call |
| `MCFixpoint` | does the search end with an exact length and miss nothing? | 27 442 | eight frames that sit below a change in a byte of a length field, or at or over the manifest limit; four signature costs from least to greatest |
| `MCVerify` | is a text accepted only for what was signed, and does `verify` end? | 103 008 | five families of texts, below, with three contexts |
| `MCVerifyRaises`, `MCVerifyGathered`, `MCVerifyInception` | section 5; violated | | as `MCVerify` |
| `MCLifecycle` | does a mark survive, and nothing else pass for one? | 101 814 | two marks and an edit, or one mark and two edits: a text cut and marked again, two copies of a mark, a mark pasted into another. Five authored texts, four of which `embed` refuses; a chain whose validity is not that of its leaf |
| `MCCredential` | do the constructor and the reader agree, and who decides whose key is used? | 111 480 | every certificate one field away from a conforming leaf or CA, chains of up to three, messages one header away from good ones, two edits |
| `MCCbor` | is there one encoding of each value? | 382 531 | all strings of up to 4 of 27 bytes that open every major type and width, and of up to 6 of the 9 that make maps; depth 2, in place of 32 |
| `MCJumbf` | do declared lengths keep the parser within its boxes? | 36 228 | data of 0 to 57 bytes, which holds none, one or two content boxes; every declared length up to one beyond the end, and an extended one far beyond it |
| `MCExtract` | which box is believed to be which? | 5 787 | a well-formed store, and every one that differs from it in a box that is missing, double, foreign, reordered or damaged |

The families of `MCVerify`: what `embed` builds of four texts, with either algorithm
and with or without the optional fields; texts of up to two visible code points with a wrapper
at every place, with twelve exclusion lists and three hashed contents; two
wrappers that exclude themselves, each other, both or nothing; plans, which put
every kind of assertion, action, reference and gathered link in a claim whose
links are right; and a plain manifest with one or two things changed in claim,
store or signature, each left as it is, signed again, linked again, or both. Two
changes are what it takes to get past a single check. The nonstarter limit is 1
instead of 30, so that a text of two accents is over it.

Bounds on what the program itself does not bound: `MaxCalls` (calls of a caller on
one text), `MaxFragments`, `MaxMarks` and `MaxEvents` (what happens to one text),
`MaxEdits` (to one message), the sets `Texts`, `Frames`, `Opaque`, `Assets`,
`Contexts`, `Times`, `Authored`, `Signers`, `Paddings`, `Chains`, `Foreign`,
`Edits`, `Sources`, `Sizes`, `Payloads`. `MaxManifestLength`, `MaxNonstarters`,
`MaxDepth` and `Algorithms` are constants of the program with small values here.
`LargestLength` in `Fixpoint` bounds frames by 16 000 000 bytes, above the manifest
limit of the code.

**Fairness.** Each operation runs to its end in the thread that called it and
waits for nobody, so `FairSpec` is weak fairness of the steps of a call that has
begun, and never of the caller's actions (`Again` in `Cbor` and the calls of
`Locate` are such). `Search` is fair too: as a promise, its answer must come, and
`Fixpoint` shows that it does.

**Deadlock** is not checked: a call that has returned is the end, and in `Locate`,
`Lifecycle` and `Credential` what may happen to a text is bounded.

## 4. The proofs

A theorem holds for every value of the constants that the named assumptions of the
modules allow, and TLC evaluates those assumptions on its instances:

| Assumption | What it asks, and why the code grants it |
|---|---|
| `TextsAssumption`, `AuthoredAssumption` | texts are sequences of Unicode code points, surrogates included: Python's `str` |
| `MaxManifestLengthAssumption` | the manifest limit is a positive length below 2^31 (half of the 32-bit field: as far as TLC counts) |
| `MaxCallsAssumption`, `MaxMarksAssumption`, `PaddingsAssumption` | bounds of the models: some number of calls; marks that one byte can name; a padding is bytes |
| `FramesAssumption`, `OpaqueAssumption` | the sizes of the parts of a wrapper; digest and signature have at most 64 bytes each |
| `MaxNonstartersAssumption` | the limit on combining marks is positive |
| `AssetsAssumption`, `GenuineAssumption` | the wrappers of an asset stand at its markers, and their manifests are what `_extract.py` can produce; genuine assets are assets |
| `PayloadsAssumption` | a box has a sequence of children and at most one label: what `parse_superbox` returns |
| `CredentialAssumption` | chains are lists, and a message that arrives has the four parts of a COSE_Sign1 |
| `CborAssumption` | input is bytes, other than the two that announce long floats (section 6), and fewer than 2^24 of them: it comes out of a manifest of at most 2^21 (`MAX_MANIFEST_LENGTH`, `constants.py:99`); the depth limit is a natural |
| `JumbfAssumption`, `WrittenAssumption` | lengths are naturals; what is written passed `DescriptionBox.__post_init__` and has a content box |

Induction on a natural number runs over a *set* of naturals (`UpwardInduction`),
from the library's theorem that a well-founded relation has minimal elements: the
library's induction rules take an operator as parameter. A function defined by
recursion inside a definition (`FlattenSeq`, `StartOf`) is first shown to exist, by
extending it one place at a time (`FlatteningExists`, `PlacesExist`).

*LocateProofs.* `ScanInvariant` is inductive: types, and for the state before
each turn, that what is held is exactly the wrappers before the index, that spans
are true bytes, and that a corrupt candidate is remembered exactly if one stands
before the index. A property of the finished scan is not inductive by itself,
because a turn jumps from a marker to the end of an accepted wrapper and may only
do so when no wrapper starts in between: a wrapper's body holds selectors, never
a marker. A run decodes to an intact body exactly where the text reads as
`build_wrapper` writes it (`AcceptedRunIsWrapper`, `WrapperRunIsAccepted`), bytes
and the length field round-trip (`CodecRoundTrip`, `LengthFieldRoundTrip`), UTF-8
lengths add up (`Utf8LengthAdds`). From it: `TypeCorrect`, `ScanIsExact`,
`SpansAreExact`, `DecoyIsHarmless`, `StripRefusal`.

`ScanImplementsCalls` is the refinement. `CallInvariant` adds to `ScanInvariant`
that the matches stand in the order of the text (`SpansInOrder`) and apart
(`MatchesApart`), and that the error held points into the first corrupt candidate
(`FirstCorruptHeld`, by `CorruptionIsInRun`: an offset that the parser counts in
selectors, turned into bytes of the document, lies in the candidate's own run).
`SpliceIsExact` shows, by induction over the gaps between matches, that cutting the
bytes of the spans out of the encoded text decodes to the text without the code
points of the wrappers.

`OnlySeamsLeaveWrappers`: the text that `strip` returns is the text at the places
that no wrapper holds (`StrippedText`, `LeftElements`). If a wrapper of the result
crossed no seam it would stand in the argument, whole, and would have been taken out
(`RemainingWrapperCrosses`).

*FixpointProofs.* `SearchInvariant` relates the target to the probe. The probe is
the shortest wrapper that can be built, so every target is at least as long as a
baseline and at most a bounded growth above it (`CandidateAgainstProbe`,
`NeedIsBounded`). Each zero byte costs three bytes plus what heads and fields
change, and that change is bounded (`Digits`, `FieldGrowth`), so a pad that fits
lies within four of the estimate (`WindowHoldsEveryFit`). From it:
`SearchIsSound`, `ResultIsExact`, `SearchMissesNothing`, `CapIsEnough`,
`WorkStaysBounded`. `SearchKeepsPromise` is the refinement: the initial state of
`Fixpoint` is one of `Search`, and every step is one of its answers or a stutter.

*VerifyProofs.* Six invariants, each the strengthening that some property needs:

- `Selection`: the wrapper judged is the only one of the text, or one of those that
  the code takes for candidates; none is selected before the choice is made.
- `CacheIsTrue`: a cached digest is the digest of the stored assertion, and as many
  were computed as are cached: `HashingIsBounded`.
- `LinksAreTrue`: every link before the cursor is in the store under a true digest.
- `StoryIsTrue`: every action before the cursor holds against the store, there is one
  inception, and once the assertions are accepted all rules hold of all of them
  together: `OnlyCreationsAreAccepted`.
- `Outcomes`: which results have been reached in which phase, which status stands for
  each, that no fatal one is filed while all are good, and that the state returned is
  explained by the statuses.
- `Reports`: what the binding and the signature come to is filed once their phase is
  over, and the flags rest on it.

`NoPhaseIsHidden` and `ChainValidAtOneInstant` follow from `Reports` and `Outcomes`,
`AcceptedSpanIsItsOwn` from these and what a matching binding must exclude.
`WhatIsShownWasSigned` joins all of them with what UTF-8 and NFC do: bytes that
decode are the encoding of what they decode to, so a digest over the bytes outside
the exclusion is a digest over the visible text. `VerifyImplementsJudgement` is the
refinement: every action adds statuses at the end of a bucket or gives the one
provenance, and what `Conclude` gives is what the statuses say.

*ExtractProofs.* `IInv`, shown as `WalkIsExact`, says of each walk what the children
before the cursor come to: the last manifest so far (`ManifestsWalked`), the parts
with one label each (`PartsWalked`), the assertions found, decoded and still to be
decoded (`AssertionsWalked`); and that an error is the damage code only for damage.
At the end of the walk "so far" is "of all": `LastManifestIsJudged`,
`EachPartIsTheOnlyOne`, `NoAssertionIsLost`, `OnlyDamageIsDamage`.

*CodecProofs, Cbor.* `OnlyOneEncodingIsRead` says that in deterministic mode a value
that `dumps` can write is read from one string of bytes only. `OneEncoding` speaks of
the finished value, so the invariant has to say it of the unfinished ones: the input
up to the cursor is cut at the starts of the frames, and the bytes of each frame are
what `dumps` would write for that container so far (`StackSpells`). The head is
written before the items are there, so it is the one for as many items as are read
and left (`Opening`). `dumps` sorts the pairs of a map; that it gives back the order of
the input follows from the keys rising strictly bytewise (`KeysRise`), so that each pair
is inserted last. The argument needs that a head in the shortest form, which this mode
demands, is the one `dumps` writes for its argument (`ShortestHead`), and that bytewise
order is transitive (`BelowTransitive`). `ReadingInvariant`, shown as
`DecoderKeepsItsPlace`, is this with the types of the frames (`DecoderInPlace`);
`DecoderIsTyped` is `TypeOK`, with the depth limit in both modes.

*CodecProofs, Jumbf.* `ParseInvariant` ties the position of the parser to what it has
read: every header lies below the next position, and the children so far tile the
box from its description on. It holds because no accepted length is below its own
header, 16 bytes for an extended one. From it: `ParseStaysInPlace`, `HeadersAreApart`,
`PartsTile`. `HeadersAreApart` also justifies the model, in which the content of a
header is chosen when it is read. For a box that was written, `ReadSoFar` says that
after k content boxes the parser stands where the writer put the next. The writer's
places rise (`StartsRise`), so no two headers share one and each is read as written
(`LayoutIs`); the box is never refused and all of it is read: `WrittenIsReadBack`.

*CredentialProofs.* `JudgementInvariant`: the signature that is checked was made,
and the certificates before the cursor conform to the role their place gives them;
an accepted message has passed the cursor over the whole chain. From it
`LeafStandsOnce`, because no certificate conforms to both roles, and
`AcceptedWasSigned`, because a chain in the protected bucket under the integer label
is the only one a message can carry. `StatusInvariant` adds that chains are lists and
that what has been judged so far is what the summary of the message says up to the
cursor (`JudgedSoFar`), so that the phases come to the status `ClaimSignature` gives
(`PhasesComeToOneStatus`). `SignerInvariant` adds the producer's side, each check of
the constructor before its cursor, for `OwnIsAccepted`. `NothingUnsignedHasASay`
compares the judged message with the one that carries the producer's own unprotected
bucket.

*LifecycleProofs.* `HistoryInvariant` (`HistoryHolds`) says, besides types and the
bound on marks: a draft is about the text as it stands (`DraftsAreOfTheText`); every issued manifest
is true of the source it was made for (`ManifestsAreTrue`). What a text does then
follows from three facts about marks. A *mark* is a marker and the magic in
selectors, which every wrapper, whole or damaged, begins with. NFC changes letters and
accents only, so it neither makes nor destroys a mark (`NfcMarks`), and it is stable
(`NfcIsStable`): hence `embed` may look before it normalizes, `EmbedAddsOneMark`. A mark put into a text without one is its
only wrapper, is read back, and stripping it leaves the rest (`OneMark`):
`StripTakesBackEmbed`. Code-point places become byte ranges (`EncodedLength`,
`RangeOfMark`), so that the exclusion is the mark, and a digest that matches is a
digest of the NFC of the rest (`BindsMeans`): `EmbeddedIsAccepted` and
`AcceptedWasEmbedded`. The first byte of a payload tells issued manifests apart.

**Model-checked only.** All liveness and what rests on `ENABLED`, which is outside
what the prover supports. `GenuineTextIsAccepted`, whose left-hand side is the data of
its instance; `EmbeddedIsAccepted` proves its counterpart for what `embed` writes.
`SecondReadingAgrees` of `Cbor`: it compares two readings of one value, of which the
second meets the containers in another form or order, so it needs an induction over
nested values where `OneEncoding` needs one over the input. No module declares a
recursive operator.
Two habits of the models serve the proofs: conditions that overlap are `IF` chains,
not `CASE` (whose value would then be a choice), and a filtered sequence is a
`FlattenSeq` of pieces, because `SelectSeq` takes an operator.

## 5. Findings

- **`StripLeavesNoWrapper`.** `strip` makes one pass. A wrapper between the two
  halves of another joins them when it is removed, and the text returned holds a
  wrapper. The docstring promises "every Content Credential removed"
  (`_locate.py:240`). `RemainingWrapperStraddlesSeam` shows this is the only way.
- **`VerifyNeverRaises`.** An action whose `action` is a CBOR array or map is
  looked up in a frozenset (`_verify.py:1137`), which raises `TypeError`; the
  docstring of `verify` says it never raises for invalid marks (`_verify.py:1507`).
- **`AcceptedBindingIsCreated`.** The hard binding is counted by instance among
  created links but read by its base label from the store (`manifest.py:251`), so a
  gathered `c2pa.hash.data` is evaluated when the created one is
  `c2pa.hash.data__1`; the comment at `_verify.py:1256` says a gathered binding
  binds another asset.
- **`InceptionIsCreated`.** The position of the inception action is counted anew
  for gathered assertions (`_verify.py:1131`), so a gathered `c2pa.created` makes up
  for a created list without one; the comment at `_verify.py:780` says the actions
  rules are defined against `created_assertions` alone.

In the last two the assertions concerned are signed: what is accepted is still
what the signer's claim commits to.

## 6. What is not modelled

- `Disclosure` and the CDDL bounds of names and instance identifiers: strings
  checked for length and form. That `embed` may refuse them is in `Lifecycle`.
- The texts in the fields `manifest.py` writes, which are data.
- CBOR floats of four and eight bytes, whose shortest form is a matter of IEEE
  754 arithmetic; counts of more than three bytes (2^24 and above) are one value,
  longer than any input.
- The characters of a JUMBF label, which are good or not; the bytes of contents.
- The walk over DER in `trust.py`, modelled by the fields it finds, or
  `unreadable`; `load_anchors`, which reads a file.
- Curves of EC keys other than by their size, and an external reference whose `hash`
  is there but not bytes, which counts as one without a hash (`_verify.py:1194`).
- Explanations and URLs in statuses, the texts of exceptions, the robustness tool.

The cryptographic library and `unicodedata` are external: a digest has one
preimage, and a signature verifies only over the claim and under the key it was
made with. Text with a lone surrogate is in `Locate` and `Lifecycle`; in `Verify`
the same check would come first and end the call with an error.

## 7. What could come next

1. `Cbor`: `SecondReadingAgrees` from `ReadingInvariant` and an invariant that relates
   the frames of the second reading to the bytes that the first one gave each value.
2. The walk over DER in `trust.py` as a component of its own, refining the fields
   that `Certificates` takes as given.
3. `Credential` inside `Verify`: the composed module would replace the summary of a
   signature by the message, which `PhasesComeToOneStatus` already justifies.
