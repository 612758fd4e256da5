------------------------------ MODULE Credential ------------------------------
(***************************************************************************)
(* A credential from the producer to verify: Signer checks a chain when it   *)
(* is constructed (src/c2patxt/signing.py), _cose signs a claim and          *)
(* serializes it with padding (src/c2patxt/_cose.py), the message travels,    *)
(* _check_signature (src/c2patxt/_verify.py) judges it.  Messages of other    *)
(* producers arrive too.                                                     *)
(*                                                                          *)
(* A message is [form, protected, unprotected, payload, signature].  A header *)
(* bucket maps labels to values, [kind, ...] each.  A signature is            *)
(* [by, alg, size, over], where over is the protected bucket and the claim.   *)
(***************************************************************************)
EXTENDS Certificates, ClaimSignature, FiniteSets

CONSTANTS
  Keys,          \* the private keys, by the id of their public key
  Chains,        \* what a producer may pass to Signer
  Claims,
  Foreign,       \* messages of other producers, the claims they signed among Claims
  Edits,         \* buckets that others may write
  MaxEdits       \* bound on what happens to one message

(* What the CBOR of a message and its certificates (the module Cbor, the library *)
(* cryptography) come to: a byte string is one certificate, a list is a list.   *)
IsChain(chain) == chain \in Seq({chain[i] : i \in DOMAIN chain})

BucketIsParsed(bucket) ==
  \A l \in DOMAIN bucket : bucket[l].kind \in {"bytes", "list"} =>
    IsChain(bucket[l].chain) /\ (bucket[l].kind = "bytes" => Len(bucket[l].chain) = 1)

ASSUME CredentialAssumption ==
  /\ \A chain \in Chains : IsChain(chain)
  /\ \A bucket \in Edits : BucketIsParsed(bucket)
  /\ \A m \in Foreign :
       /\ {"form", "protected", "unprotected", "payload", "signature"} \subseteq DOMAIN m
       /\ BucketIsParsed(m.protected) /\ BucketIsParsed(m.unprotected)

VARIABLES
  pc,
  signer,        \* [key, certificates, allowNonconformant]
  cursor,        \* the certificate that is looked at
  refused,       \* why the constructor raised
  message, claim,
  made,          \* the signatures that were made
  edits,
  status         \* what verify files for the signature

producer == <<signer, refused, made>>
vars == <<pc, signer, cursor, refused, message, claim, made, edits, status>>

Bytes(certificate) == [kind |-> "bytes", chain |-> <<certificate>>]
ListOf(chain) == [kind |-> "list", chain |-> chain]
Pad(n) == [kind |-> "zeros", length |-> n]
NoMessage == [form |-> "none"]

----------------------------------------------------------------------------
(* Signer.__post_init__.                                                     *)

Init ==
  /\ pc = "idle" /\ cursor = 1 /\ refused = "no" /\ status = "none"
  /\ signer = [key |-> "none", certificates |-> <<>>, allowNonconformant |-> FALSE]
  /\ message = NoMessage /\ claim \in Claims /\ made = {} /\ edits = 0

Construct ==
  /\ pc = "idle" /\ pc' = "leaf"
  /\ \E key \in Keys, chain \in Chains, allow \in BOOLEAN :
       signer' = [key |-> key, certificates |-> chain, allowNonconformant |-> allow]
  /\ UNCHANGED <<cursor, refused, message, claim, made, edits, status>>

Refuse(why) == pc' = "refused" /\ refused' = why /\ cursor' = 1

LeafRefusal(key, chain) ==
  IF chain = <<>> THEN "empty"
  ELSE IF "key" \in chain[1].unreadable THEN "unreadable"
  ELSE IF chain[1].key.type # "Ed25519" THEN "not Ed25519"
  ELSE IF chain[1].key.id # key THEN "another key"
  ELSE "no"

Constructed(next) ==
  IF cursor = Len(signer.certificates) THEN pc' = next /\ cursor' = 1
                                       ELSE pc' = pc /\ cursor' = cursor + 1

CheckLeaf ==
  /\ pc = "leaf"
  /\ \E why \in {LeafRefusal(signer.key, signer.certificates)} :
       \/ why # "no" /\ Refuse(why)
       \/ why = "no" /\ pc' = "links" /\ UNCHANGED <<cursor, refused>>
  /\ UNCHANGED <<signer, message, claim, made, edits, status>>

CheckChainLink ==
  /\ pc = "links"
  /\ IF cursor < Len(signer.certificates)
          /\ ~ DirectlyIssuedBy(signer.certificates[cursor], signer.certificates[cursor + 1])
     THEN Refuse("not issued by the next")
     ELSE /\ Constructed(IF signer.allowNonconformant THEN "held" ELSE "profile")
          /\ UNCHANGED refused
  /\ UNCHANGED <<signer, message, claim, made, edits, status>>

ProfileOfLeafOnly ==                                              \* defect
  /\ pc = "profile"
  /\ IF ConformsAt(signer.certificates, 1)
     THEN pc' = "held" /\ cursor' = 1 /\ UNCHANGED refused ELSE Refuse("profile")
  /\ UNCHANGED <<signer, message, claim, made, edits, status>>

CheckProfile ==
  /\ pc = "profile"
  /\ IF ConformsAt(signer.certificates, cursor)
     THEN Constructed("held") /\ UNCHANGED refused ELSE Refuse("profile")
  /\ UNCHANGED <<signer, message, claim, made, edits, status>>

----------------------------------------------------------------------------
(* _prepare_signed_claim and _serialize_signed_claim.                         *)

ProtectedHeader(chain) ==
  [l \in {"alg", "33"} |->
     IF l = "alg" THEN [kind |-> "alg", name |-> "EdDSA"]
     ELSE IF Len(chain) = 1 THEN Bytes(chain[1]) ELSE ListOf(chain)]

Padding(n) == [l \in {"pad"} |-> Pad(n)]

SignClaim ==
  /\ pc = "held" /\ pc' = "sent"
  /\ \E n \in {0, 1} : \E protected \in {ProtectedHeader(signer.certificates)} :
       LET signature == [by |-> signer.key, alg |-> "EdDSA", size |-> 64,
                         over |-> [protected |-> protected, claim |-> claim]]
       IN  /\ made' = made \cup {signature}
           /\ message' = [form |-> "COSE_Sign1", protected |-> protected,
                unprotected |-> Padding(n), payload |-> "nil", signature |-> signature]
  /\ UNCHANGED <<signer, cursor, refused, claim, edits, status>>

(* The same signature with other padding.                                    *)
Reserialize ==
  /\ pc = "sent" /\ edits = 0 /\ pc' = pc
  /\ signer.certificates # <<>> /\ message.unprotected = Padding(0)
  /\ message' = [message EXCEPT !.unprotected = Padding(1)]
  /\ UNCHANGED <<signer, cursor, refused, claim, made, edits, status>>

(* Another producer, and what anybody may do to a message on its way.         *)
Receive ==
  /\ pc = "idle" /\ pc' = "sent"
  /\ \E m \in Foreign : message' = m /\ made' = made \cup {m.signature}
  /\ UNCHANGED <<signer, cursor, refused, claim, edits, status>>

Edit ==
  /\ pc = "sent" /\ edits < MaxEdits /\ pc' = pc /\ edits' = edits + 1
  /\ \/ \E bucket \in Edits : message' = [message EXCEPT !.unprotected = bucket] /\ UNCHANGED claim
     \/ \E bucket \in Edits : message' = [message EXCEPT !.protected = bucket] /\ UNCHANGED claim
     \/ claim' \in Claims \ {claim} /\ UNCHANGED message
  /\ UNCHANGED <<signer, cursor, refused, made, status>>

----------------------------------------------------------------------------
(* _cose.parse.  Labels are integers or texts, named here by their meaning;   *)
(* "no label" stands for any other key of a map.                             *)

Understood == {"alg", "crit", "33", "x5chain"}
Labels(m) == DOMAIN m.protected \cup DOMAIN m.unprotected

CriticalHeadersUnderstood(m) ==
  /\ "crit" \notin DOMAIN m.unprotected
  /\ "crit" \in DOMAIN m.protected =>
       /\ m.protected["crit"].kind = "labels" /\ m.protected["crit"].labels # {}
       /\ m.protected["crit"].labels \subseteq DOMAIN m.protected \cap Understood

StructureAcceptable(m) ==
  /\ m.form = "COSE_Sign1" /\ m.payload = "nil" /\ "no label" \notin Labels(m)
  /\ CriticalHeadersUnderstood(m)

(* _credential_value and x5chain: the integer label first, in one bucket.     *)
ChainUnder(m, label) ==
  LET buckets == {n \in {"protected", "unprotected"} : label \in DOMAIN m[n]}
      values == {m[n][label] : n \in buckets}
  IN  {v.chain : v \in {v \in values :
         /\ Cardinality(buckets) = 1 /\ v.kind \in {"bytes", "list"}
         /\ v.kind = "list" => Len(v.chain) >= 2}}

TextLabelFirst(m) ==                                              \* defect
  ChainUnder(m, IF "x5chain" \in Labels(m) THEN "x5chain" ELSE "33")

CarriedChain(m) == ChainUnder(m, IF "33" \in Labels(m) THEN "33" ELSE "x5chain")

Chain == CHOOSE chain \in CarriedChain(message) : TRUE

----------------------------------------------------------------------------
(* _check_signature.                                                         *)

Signing == {"ES256", "ES384", "ES512", "PS256", "PS384", "PS512", "EdDSA"}

Algorithms(m) ==
  {m.protected[l].name : l \in {l \in DOMAIN m.protected \cap {"alg"} :
                                  m.protected[l].kind = "alg" /\ m.protected[l].name \in Signing}}

KeyFor(alg) ==
  CASE alg = "EdDSA" -> "Ed25519"
    [] alg \in {"ES256", "ES384", "ES512"} -> "EC"
    [] OTHER -> "RSA"

SizeFits(signature, key) ==
  CASE key.type = "Ed25519" -> signature.size = 64
    [] key.type = "EC" -> signature.size = 2 * ((key.size + 7) \div 8)
    [] OTHER -> TRUE

(* _verify_signature.                                                        *)
ClaimAloneSigned(m, c, key, alg) ==                               \* defect
  /\ key.type = KeyFor(alg) /\ SizeFits(m.signature, key)
  /\ m.signature.by = key.id /\ m.signature.alg = alg /\ m.signature.over.claim = c

SignatureVerifies(m, c, key, alg) ==
  /\ key.type = KeyFor(alg) /\ SizeFits(m.signature, key)
  /\ m.signature.by = key.id /\ m.signature.alg = alg
  /\ m.signature.over = [protected |-> m.protected, claim |-> c]

File(code) == pc' = "done" /\ status' = code /\ cursor' = 1
GoOn(phase) == pc' = phase /\ cursor' = 1 /\ UNCHANGED status

Parse ==
  /\ pc = "sent"
  /\ \/ ~ StructureAcceptable(message) /\ File("general.error")
     \/ /\ StructureAcceptable(message) /\ CarriedChain(message) = {}
        /\ File("signingCredential.invalid")
     \/ StructureAcceptable(message) /\ CarriedChain(message) # {} /\ GoOn("algorithm")
  /\ UNCHANGED <<producer, message, claim, edits>>

AlgorithmLater ==                                                 \* defect
  /\ pc = "algorithm" /\ GoOn("load")
  /\ UNCHANGED <<producer, message, claim, edits>>

CheckAlgorithm ==
  /\ pc = "algorithm"
  /\ IF Algorithms(message) = {} THEN File("algorithm.unsupported") ELSE GoOn("load")
  /\ UNCHANGED <<producer, message, claim, edits>>

Judged(next) ==
  IF cursor = Len(Chain) THEN GoOn(next)
  ELSE pc' = pc /\ cursor' = cursor + 1 /\ UNCHANGED status

(* _load_chain: every certificate is read before the profile of any.          *)
LoadCertificate ==
  /\ pc = "load"
  /\ IF Chain[cursor].unreadable # {} THEN File("signingCredential.invalid") ELSE Judged("accept")
  /\ UNCHANGED <<producer, message, claim, edits>>

AcceptCertificate ==
  /\ pc = "accept"
  /\ IF ConformsAt(Chain, cursor) THEN Judged("verify") ELSE File("signingCredential.invalid")
  /\ UNCHANGED <<producer, message, claim, edits>>

VerifySignature ==
  /\ pc = "verify"
  /\ \E alg \in Algorithms(message) :
       File(IF SignatureVerifies(message, claim, Chain[1].key, alg)
            THEN "claimSignature.validated" ELSE "claimSignature.mismatch")
  /\ UNCHANGED <<producer, message, claim, edits>>

Next ==
  \/ Construct \/ CheckLeaf \/ CheckChainLink \/ CheckProfile
  \/ SignClaim \/ Reserialize \/ Receive \/ Edit
  \/ Parse \/ CheckAlgorithm \/ LoadCertificate \/ AcceptCertificate \/ VerifySignature

Spec == Init /\ [][Next]_vars

----------------------------------------------------------------------------

Own == signer.certificates # <<>>

(* What a Signer that checks its chain signs, and whatever a Signer signs and  *)
(* nobody touches, is never refused by the own verify, save for the profile    *)
(* that the caller chose not to check.                                        *)
OwnSignatureIsAccepted ==
  Own /\ edits = 0 =>
    \/ status \in {"none", "claimSignature.validated"}
    \/ status = "signingCredential.invalid" /\ signer.allowNonconformant

(* Of a message whose protected bucket and claim stand, the unprotected bucket *)
(* cannot change the verdict, except by a label that the verifier must refuse   *)
(* there: another credential of the same label, crit, no label at all.         *)
UnsignedEditsHaveNoSay ==
  /\ Own /\ ~ signer.allowNonconformant /\ status # "none"
  /\ \E s \in made : s.over = [protected |-> message.protected, claim |-> claim]
  /\ {"33", "crit", "no label"} \cap DOMAIN message.unprotected = {}
  => status = "claimSignature.validated"

(* An accepted signature was made by the key of the leaf over this claim, and   *)
(* with the very chain that was judged if that chain was signed under the      *)
(* integer label: no edit swaps the credential of such a signature.  (One that  *)
(* is signed under the text label alone gives way to an integer label wherever  *)
(* that stands, as C2PA 14.5 has it.)                                         *)
AcceptedCredentialWasSigned ==
  status = "claimSignature.validated" =>
    \E s \in made :
      /\ s.by = Chain[1].key.id /\ s.over.claim = claim
      /\ "33" \in DOMAIN s.over.protected => Chain = s.over.protected["33"].chain

(* A signing certificate never vouches for itself: it stands nowhere else in   *)
(* the chain it leads.                                                        *)
LeafIsNoCarriedCa ==
  status = "claimSignature.validated" => \A i \in 2..Len(Chain) : Chain[i] # Chain[1]

(* The status is the one that the module Verify computes from a summary of the  *)
(* message, whatever the order of the faults: parse, algorithm, every          *)
(* certificate's bytes, every profile, signature.                              *)
Summary(m, c) ==
  [cose |-> CASE ~ StructureAcceptable(m) -> "bad structure"
              [] StructureAcceptable(m) /\ CarriedChain(m) = {} -> "bad credential"
              [] OTHER -> "ok",
   algorithmAllowed |-> Algorithms(m) # {},
   chain |-> IF CarriedChain(m) = {} THEN <<>>
             ELSE [i \in DOMAIN Chain |->
                     [readable |-> Chain[i].unreadable = {}, conforming |-> ConformsAt(Chain, i),
                      key |-> "leaf"]],
   key |-> IF \A chain \in CarriedChain(m), alg \in Algorithms(m) :
                /\ m.signature.by = chain[1].key.id /\ m.signature.alg = alg
                /\ chain[1].key.type = KeyFor(alg) /\ SizeFits(m.signature, chain[1].key)
           THEN "leaf" ELSE "another",
   over |-> IF m.signature.over = [protected |-> m.protected, claim |-> c]
            THEN [signature |-> "own box"] ELSE [signature |-> "something else"]]

StatusIsTheOneVerifyFiles ==
  status # "none" =>
    status = SignatureStatus(Summary(message, claim), [signature |-> "own box"])
=============================================================================
