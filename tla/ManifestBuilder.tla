---------------------------- MODULE ManifestBuilder ----------------------------
(***************************************************************************)
(* What embed writes about a text: the assertions of src/c2patxt/manifest.py, *)
(* the claim that links them and the claim's signature, in the terms in which  *)
(* Assertions and Verify read them.                                          *)
(*                                                                          *)
(* A disclosure is [modelType, modelName, modelIdentifier, mediaType], the two *)
(* in the middle optional.  Box layout is in Jumbf, the length of all this in   *)
(* Fixpoint, the message that carries the signature in Credential.            *)
(***************************************************************************)
EXTENDS Assertions

ActionsLabel == Label("c2pa.actions.v2")
AiDisclosureLabel == Label("c2pa.ai-disclosure")
MetadataLabel == Label("c2pa.metadata")

CreatedAction(when) ==
  [name |-> "c2pa.created", when |-> when, ingredients |-> {}, related |-> {}, redacted |-> {}]

ActionsAssertion(when) == [actions |-> <<CreatedAction(when)>>, icons |-> <<>>]

AiDisclosureAssertion(disclosure) ==
  [modelType |-> disclosure.modelType, modelName |-> disclosure.modelName,
   modelIdentifier |-> disclosure.modelIdentifier]

MetadataAssertion(disclosure) == [format |-> disclosure.mediaType]

HashDataAssertion(digest, start, length, algorithm) ==
  [isMap |-> TRUE, alg |-> {algorithm}, hashForm |-> "bytes", hash |-> digest,
   exclusions |-> {<<<<start, length>>>>}]

(* hashed_uri: the link states the algorithm that its hash was taken with.     *)
HashedUriByDefault(label, content, algorithm) ==                  \* defect
  [url |-> label, alg |-> {algorithm}, hash |-> {Digest("sha256", content)}]

HashedUri(label, content, algorithm) ==
  [url |-> label, alg |-> {algorithm}, hash |-> {Digest(algorithm, content)}]

(* _prepare_manifest.                                                        *)
AssertionsAbout(disclosure, binding, when) ==
  <<<<ActionsLabel, ActionsAssertion(when)>>,
    <<AiDisclosureLabel, AiDisclosureAssertion(disclosure)>>,
    <<MetadataLabel, MetadataAssertion(disclosure)>>,
    <<HashDataLabel, binding>>>>

StoreHolding(entries) ==
  [l \in {entries[i][1] : i \in DOMAIN entries} |->
     entries[CHOOSE i \in DOMAIN entries : entries[i][1] = l][2]]

ClaimLinking(entries, algorithm) ==
  [complete |-> TRUE, alg |-> {algorithm}, signature |-> "own box",
   created |-> [i \in DOMAIN entries |-> HashedUri(entries[i][1], entries[i][2], algorithm)],
   gathered |-> {}, redacted |-> <<>>, icon |-> {}]

(* _serialize_prepared_manifest: the claim that was signed is the one written. *)
SignedManifest(entries, algorithm, key, chain) ==
  LET claim == ClaimLinking(entries, algorithm)
  IN  [claim |-> claim, store |-> StoreHolding(entries),
       signature |-> [cose |-> "ok", algorithmAllowed |-> TRUE, key |-> key, over |-> claim,
                      chain |-> chain]]

(* prepare of embed, for a wrapper of the given length.                        *)
BuiltManifest(text, length, disclosure, algorithm, when, key, chain) ==
  LET normalized == Nfc(text)
      binding == HashDataAssertion(Digest(algorithm, normalized), Len(Encoded(normalized)),
                                   length, algorithm)
  IN  SignedManifest(AssertionsAbout(disclosure, binding, when), algorithm, key, chain)
=============================================================================
