---------------------------- MODULE CredentialProofs ----------------------------
(***************************************************************************)
(* What an accepted signature says, for every chain, message and edit: its    *)
(* key stands in the chain that was judged, over this claim, and the          *)
(* certificate that holds the key is no CA of that chain.                     *)
(*                                                                          *)
(* The argument follows the message.  Nobody replaces the signature itself,   *)
(* so the one that is checked was made; and when the walk over the chain has   *)
(* passed the certificate at the cursor, all before it conform to their role.  *)
(***************************************************************************)
EXTENDS Credential, FiniteSetTheorems, TLAPS

Judging == {"algorithm", "load", "accept", "verify"}
Valid == status = "claimSignature.validated"

ConformingUpTo(n) == \A i \in 1..n : ConformsAt(Chain, i)

CertificatesInPlace ==
  /\ pc = "accept" => cursor \in Nat \ {0} /\ ConformingUpTo(cursor - 1)
  /\ pc = "verify" \/ Valid => Len(Chain) \in Nat \ {0} /\ ConformingUpTo(Len(Chain))

(* The signature that is checked was made, and the credential it carries is one.*)
SignatureInPlace ==
  /\ pc \in Judging \cup {"sent", "done"} =>
       /\ {"form", "protected", "unprotected", "payload", "signature"} \subseteq DOMAIN message
       /\ message.signature \in made
  /\ pc \in Judging \/ Valid => CarriedChain(message) # {}
  /\ Valid => /\ message.signature.by = Chain[1].key.id
              /\ message.signature.over = [protected |-> message.protected, claim |-> claim]

JudgementInvariant ==
  /\ pc \in Judging \cup {"idle", "leaf", "links", "profile", "held", "refused", "sent", "done"}
  /\ status # "none" => pc = "done"
  /\ CertificatesInPlace
  /\ SignatureInPlace

LEMMA JudgementInitially == Init => JudgementInvariant
  BY DEF Init, JudgementInvariant, CertificatesInPlace, SignatureInPlace, Judging, Valid

(* Before a message exists there is nothing to keep.                         *)
LEMMA ConstructionPreserves ==
  ASSUME JudgementInvariant, Construct \/ CheckLeaf \/ CheckChainLink \/ CheckProfile
  PROVE  JudgementInvariant'
<1>1. /\ status = "none" /\ status' = "none"
      /\ pc' \in {"leaf", "links", "profile", "held", "refused"}
  BY DEF JudgementInvariant, Construct, CheckLeaf, CheckChainLink, CheckProfile, Refuse, Constructed
<1>2. QED
  BY <1>1 DEF JudgementInvariant, CertificatesInPlace, SignatureInPlace, Judging, Valid

LEMMA MessagePreserves ==
  ASSUME JudgementInvariant, SignClaim \/ Reserialize \/ Receive \/ Edit
  PROVE  JudgementInvariant'
<1>. DEFINE Parts == {"form", "protected", "unprotected", "payload", "signature"}
<1>1. status = "none" /\ status' = "none" /\ pc' = "sent"
  BY DEF JudgementInvariant, SignClaim, Reserialize, Receive, Edit
<1>2. Parts \subseteq DOMAIN message' /\ message'.signature \in made'
  <2>1. CASE SignClaim
    <3>1. PICK n \in {0, 1}, protected \in {ProtectedHeader(signer.certificates)} :
            LET signature == [by |-> signer.key, alg |-> "EdDSA", size |-> 64,
                              over |-> [protected |-> protected, claim |-> claim]]
            IN  /\ made' = made \cup {signature}
                /\ message' = [form |-> "COSE_Sign1", protected |-> protected,
                     unprotected |-> Padding(n), payload |-> "nil", signature |-> signature]
      BY <2>1 DEF SignClaim
    <3>2. QED
      BY <3>1
  <2>2. CASE Reserialize
    BY <2>2 DEF Reserialize, JudgementInvariant, SignatureInPlace
  <2>3. CASE Receive
    BY <2>3, CredentialAssumption DEF Receive
  <2>4. CASE Edit
    BY <2>4 DEF Edit, JudgementInvariant, SignatureInPlace
  <2>5. QED
    BY <2>1, <2>2, <2>3, <2>4
<1>3. QED
  BY <1>1, <1>2 DEF JudgementInvariant, CertificatesInPlace, SignatureInPlace, Judging, Valid

(* The steps of _check_signature leave the message alone.                     *)
LEMMA ChainStays == message' = message => Chain' = Chain
  BY DEF Chain

LEMMA BeforeProfilePreserves ==
  ASSUME JudgementInvariant, Parse \/ CheckAlgorithm \/ LoadCertificate
  PROVE  JudgementInvariant'
<1>1. /\ message' = message /\ claim' = claim /\ made' = made
      /\ pc \in {"sent", "algorithm", "load"}
  BY DEF Parse, CheckAlgorithm, LoadCertificate, producer
<1>2. \/ pc' = "done" /\ status' \in {"general.error", "signingCredential.invalid", "algorithm.unsupported"}
      \/ /\ pc' \in {"algorithm", "load", "accept"} /\ status' = status
         /\ pc' = "accept" => cursor' = 1
  BY <1>1 DEF Parse, CheckAlgorithm, LoadCertificate, File, GoOn, Judged
<1>3. pc' \in Judging => CarriedChain(message) # {}
  BY <1>1 DEF Parse, CheckAlgorithm, LoadCertificate, File, GoOn, Judged, JudgementInvariant,
     SignatureInPlace, Judging
<1>4. status = "none"
  BY <1>1 DEF JudgementInvariant
<1>5. CertificatesInPlace'
  BY <1>2, <1>4 DEF CertificatesInPlace, ConformingUpTo, Valid
<1>6. SignatureInPlace'
  BY <1>1, <1>2, <1>3, <1>4 DEF JudgementInvariant, SignatureInPlace, Judging, Valid, CarriedChain
<1>7. QED
  BY <1>2, <1>4, <1>5, <1>6 DEF JudgementInvariant, Judging

LEMMA AcceptPreserves ==
  ASSUME JudgementInvariant, AcceptCertificate
  PROVE  JudgementInvariant'
<1>1. /\ message' = message /\ claim' = claim /\ made' = made /\ pc = "accept" /\ status = "none"
      /\ CarriedChain(message) # {} /\ cursor \in Nat \ {0} /\ ConformingUpTo(cursor - 1)
  BY DEF AcceptCertificate, producer, JudgementInvariant, CertificatesInPlace, SignatureInPlace,
     Judging
<1>2. Chain' = Chain
  BY <1>1, ChainStays
<1>3. CASE ~ ConformsAt(Chain, cursor)
  BY <1>1, <1>3 DEF AcceptCertificate, File, JudgementInvariant, CertificatesInPlace,
     SignatureInPlace, Judging, Valid
<1>4. CASE ConformsAt(Chain, cursor)
  <2>1. ConformingUpTo(cursor)
    BY <1>1, <1>4 DEF ConformingUpTo
  <2>2. /\ pc' \in {"accept", "verify"} /\ status' = "none"
        /\ pc' = "verify" => cursor = Len(Chain)
        /\ pc' = "accept" => cursor' = cursor + 1
    BY <1>1, <1>4 DEF AcceptCertificate, Judged, GoOn
  <2>3. CertificatesInPlace'
    BY <1>1, <1>2, <2>1, <2>2 DEF CertificatesInPlace, ConformingUpTo, Valid
  <2>4. SignatureInPlace'
    BY <1>1, <2>2 DEF JudgementInvariant, SignatureInPlace, Judging, Valid, CarriedChain
  <2>5. QED
    BY <2>2, <2>3, <2>4 DEF JudgementInvariant, Judging
<1>5. QED
  BY <1>3, <1>4

LEMMA VerdictPreserves ==
  ASSUME JudgementInvariant, VerifySignature
  PROVE  JudgementInvariant'
<1>1. /\ message' = message /\ claim' = claim /\ made' = made /\ pc = "verify" /\ pc' = "done"
      /\ CarriedChain(message) # {}
      /\ Len(Chain) \in Nat \ {0} /\ ConformingUpTo(Len(Chain))
  BY DEF VerifySignature, File, producer, JudgementInvariant, CertificatesInPlace,
     SignatureInPlace, Judging
<1>2. Chain' = Chain
  BY <1>1, ChainStays
<1>3. Valid' => /\ message.signature.by = Chain[1].key.id
                /\ message.signature.over = [protected |-> message.protected, claim |-> claim]
  BY DEF VerifySignature, File, SignatureVerifies, Valid
<1>4. CertificatesInPlace'
  BY <1>1, <1>2 DEF CertificatesInPlace, ConformingUpTo
<1>5. SignatureInPlace'
  BY <1>1, <1>2, <1>3 DEF JudgementInvariant, SignatureInPlace, Judging, CarriedChain
<1>6. QED
  BY <1>1, <1>4, <1>5 DEF JudgementInvariant

LEMMA StutterPreserves ==
  ASSUME JudgementInvariant, UNCHANGED vars
  PROVE  JudgementInvariant'
BY DEF JudgementInvariant, CertificatesInPlace, SignatureInPlace, ConformingUpTo, Valid, Chain,
   vars, CarriedChain

(* At every moment of every judgement: what is before the cursor conforms to   *)
(* its place in the chain, and the signature that is checked was made.         *)
THEOREM JudgementStaysInPlace == Spec => []JudgementInvariant
<1>1. JudgementInvariant /\ [Next]_vars => JudgementInvariant'
  BY ConstructionPreserves, MessagePreserves, BeforeProfilePreserves, AcceptPreserves,
     VerdictPreserves, StutterPreserves DEF Next
<1>2. QED
  BY JudgementInitially, <1>1, PTL DEF Spec

----------------------------------------------------------------------------
(* A leaf must not be a CA, a carried certificate must be one.                *)
LEMMA NoCertificatePlaysBothRoles ==
  ASSUME NEW c, ConformsToClaimSigning(c), ConformsToCarriedCa(c)
  PROVE  FALSE
BY DEF ConformsToClaimSigning, ConformsToCarriedCa, LeafExtensionsConform, CaExtensionsConform

(* The certificate whose key an accepted signature was made with stands        *)
(* nowhere else in the chain, for chains of every length.                     *)
THEOREM LeafStandsOnce == Spec => []LeafIsNoCarriedCa
<1>1. JudgementInvariant => LeafIsNoCarriedCa
  <2>. SUFFICES ASSUME JudgementInvariant, Valid, NEW i \in 2..Len(Chain), Chain[i] = Chain[1]
                PROVE  FALSE
    BY DEF LeafIsNoCarriedCa, Valid
  <2>1. Len(Chain) \in Nat /\ ConformsAt(Chain, 1) /\ ConformsAt(Chain, i) /\ i # 1
    BY DEF JudgementInvariant, CertificatesInPlace, ConformingUpTo
  <2>2. QED
    BY <2>1, NoCertificatePlaysBothRoles DEF ConformsAt
<1>2. QED
  BY JudgementStaysInPlace, <1>1, PTL

----------------------------------------------------------------------------
(* A chain that stands in the protected bucket under the integer label is the  *)
(* only chain a message carries, if it carries one.                           *)
LEMMA ProtectedChainIsTheChain ==
  ASSUME "33" \in DOMAIN message.protected, CarriedChain(message) # {}
  PROVE  Chain = message.protected["33"].chain
<1>. DEFINE buckets == {n \in {"protected", "unprotected"} : "33" \in DOMAIN message[n]}
            values == {message[n]["33"] : n \in buckets}
<1>1. "33" \in Labels(message) /\ "protected" \in buckets
  BY DEF Labels
<1>2. CarriedChain(message) = ChainUnder(message, "33")
  BY <1>1 DEF CarriedChain
<1>3. PICK chain \in ChainUnder(message, "33") : TRUE
  BY <1>2
<1>4. Cardinality(buckets) = 1
  BY <1>3 DEF ChainUnder
<1>5. buckets = {"protected"}
  <2>1. CASE "unprotected" \in buckets
    <3>1. buckets = {"protected"} \cup {"unprotected"}
      BY <1>1, <2>1
    <3>2. IsFiniteSet({"protected"}) /\ Cardinality({"protected"}) = 1
      BY FS_Singleton
    <3>3. Cardinality({"protected"} \cup {"unprotected"}) # 1
      <4>1. "unprotected" \notin {"protected"}
        OBVIOUS
      <4>2. Cardinality({"protected"} \cup {"unprotected"}) = Cardinality({"protected"}) + 1
        BY <3>2, <4>1, FS_AddElement, Zenon
      <4>3. QED
        BY <3>2, <4>2
    <3>4. QED
      BY <1>4, <3>1, <3>3
  <2>2. QED
    BY <1>1, <2>1
<1>6. values = {message.protected["33"]}
  BY <1>5
<1>7. \A other \in ChainUnder(message, "33") : other = message.protected["33"].chain
  BY <1>6 DEF ChainUnder
<1>8. Chain \in CarriedChain(message)
  BY DEF Chain
<1>9. QED
  BY <1>2, <1>7, <1>8

(* An accepted signature was made by the leaf's key over the claim, and with    *)
(* the judged chain if one was signed under the integer label.                 *)
THEOREM AcceptedWasSigned == Spec => []AcceptedCredentialWasSigned
<1>1. JudgementInvariant => AcceptedCredentialWasSigned
  <2>. SUFFICES ASSUME JudgementInvariant, Valid
                PROVE  AcceptedCredentialWasSigned
    BY DEF AcceptedCredentialWasSigned, Valid
  <2>1. pc = "done"
    BY DEF JudgementInvariant, Valid
  <2>2. /\ message.signature \in made /\ CarriedChain(message) # {}
        /\ message.signature.by = Chain[1].key.id
        /\ message.signature.over = [protected |-> message.protected, claim |-> claim]
    BY <2>1 DEF JudgementInvariant, SignatureInPlace
  <2>3. "33" \in DOMAIN message.protected => Chain = message.protected["33"].chain
    BY <2>2, ProtectedChainIsTheChain
  <2>4. QED
    BY <2>2, <2>3 DEF AcceptedCredentialWasSigned
<1>2. QED
  BY JudgementStaysInPlace, <1>1, PTL

----------------------------------------------------------------------------
(* A message carries one chain or none, and a chain is a list of certificates. *)

LoadedUpTo(n) == \A i \in 1..n : Chain[i].unreadable = {}

LEMMA OneChainUnderALabel ==
  ASSUME NEW m, NEW label, NEW c \in ChainUnder(m, label), NEW d \in ChainUnder(m, label)
  PROVE  c = d
<1>. DEFINE buckets == {n \in {"protected", "unprotected"} : label \in DOMAIN m[n]}
            values == {m[n][label] : n \in buckets}
<1>1. Cardinality(buckets) = 1
  BY DEF ChainUnder
<1>2. IsFiniteSet(buckets)
  <2>1. IsFiniteSet({"protected", "unprotected"})
    <3>1. IsFiniteSet({"protected"}) /\ {"protected", "unprotected"} = {"protected"} \cup {"unprotected"}
      BY FS_Singleton
    <3>2. QED
      BY <3>1, FS_AddElement, Zenon
  <2>2. QED
    BY <2>1, FS_Subset, Zenon
<1>3. PICK n : buckets = {n}
  BY <1>1, <1>2, FS_Singleton
<1>4. values = {m[n][label]}
  BY <1>3
<1>5. \A e \in ChainUnder(m, label) : \E v \in values : e = v.chain
  BY DEF ChainUnder
<1>6. QED
  BY <1>4, <1>5

LEMMA OneChain ==
  ASSUME NEW m, NEW c \in CarriedChain(m), NEW d \in CarriedChain(m)
  PROVE  c = d
BY OneChainUnderALabel DEF CarriedChain

LEMMA ChainIsAList ==
  ASSUME BucketIsParsed(message.protected), BucketIsParsed(message.unprotected),
         CarriedChain(message) # {}
  PROVE  Chain \in CarriedChain(message) /\ IsChain(Chain) /\ Len(Chain) \in Nat \ {0}
<1>1. Chain \in CarriedChain(message)
  BY DEF Chain
<1>2. PICK label : Chain \in ChainUnder(message, label)
  BY <1>1 DEF CarriedChain
<1>3. PICK n \in {"protected", "unprotected"} :
         /\ label \in DOMAIN message[n] /\ Chain = message[n][label].chain
         /\ message[n][label].kind \in {"bytes", "list"}
         /\ message[n][label].kind = "list" => Len(Chain) >= 2
  BY <1>2 DEF ChainUnder
<1>4. BucketIsParsed(message[n])
  BY <1>3
<1>5. IsChain(Chain) /\ (message[n][label].kind = "bytes" => Len(Chain) = 1)
  BY <1>3, <1>4 DEF BucketIsParsed
<1>6. Len(Chain) \in Nat
  BY <1>5 DEF IsChain
<1>7. Len(Chain) = 1 \/ Len(Chain) >= 2
  BY <1>3, <1>5
<1>8. IsChain(Chain)
  BY <1>5
<1>9. Len(Chain) # 0
  <2>. DEFINE length == Len(Chain)
  <2>1. length \in Nat /\ (length = 1 \/ length >= 2)
    BY <1>6, <1>7
  <2>2. HIDE DEF length
  <2>3. length # 0
    BY <2>1
  <2>4. QED
    BY <2>3 DEF length
<1>10. QED
  BY <1>1, <1>6, <1>8, <1>9

----------------------------------------------------------------------------
(* The status is the one that the module Verify computes from a summary: what  *)
(* each phase of the judgement has passed stays true until the next one.        *)

Buckets == BucketIsParsed(message.protected) /\ BucketIsParsed(message.unprotected)

JudgedSoFar ==
  /\ pc \in Judging \cup {"sent", "done"} => Buckets
  /\ pc \in Judging => StructureAcceptable(message)
  /\ pc \in {"load", "accept", "verify"} => Algorithms(message) # {}
  /\ pc \in {"load", "accept"} => cursor \in 1..Len(Chain)
  /\ pc = "load" => LoadedUpTo(cursor - 1)
  /\ pc \in {"accept", "verify"} => LoadedUpTo(Len(Chain))

(* The chains of a signer and of a message are lists of certificates.         *)
ChainsAreLists == IsChain(signer.certificates)

StatusInvariant ==
  /\ JudgementInvariant
  /\ ChainsAreLists
  /\ JudgedSoFar
  /\ StatusIsTheOneVerifyFiles

LEMMA EmptyChain == IsChain(<<>>)
  BY DEF IsChain

LEMMA StatusInitially == Init => StatusInvariant
<1>1. Init => ChainsAreLists
  BY EmptyChain DEF Init, ChainsAreLists
<1>2. Init => JudgedSoFar /\ StatusIsTheOneVerifyFiles
  BY DEF Init, JudgedSoFar, StatusIsTheOneVerifyFiles, Judging
<1>3. QED
  BY <1>1, <1>2, JudgementInitially DEF StatusInvariant

LEMMA StatusBeforeMessage ==
  ASSUME StatusInvariant, Construct \/ CheckLeaf \/ CheckChainLink \/ CheckProfile
  PROVE  StatusInvariant'
<1>1. JudgementInvariant'
  BY ConstructionPreserves DEF StatusInvariant
<1>2. /\ status' = "none"
      /\ pc' \in {"leaf", "links", "profile", "held", "refused"}
  BY DEF StatusInvariant, JudgementInvariant, Construct, CheckLeaf, CheckChainLink, CheckProfile,
     Refuse, Constructed
<1>3. ChainsAreLists'
  <2>1. CASE Construct
    BY <2>1, CredentialAssumption DEF Construct, ChainsAreLists
  <2>2. CASE signer' = signer
    BY <2>2 DEF StatusInvariant, ChainsAreLists
  <2>3. QED
    BY <2>1, <2>2 DEF CheckLeaf, CheckChainLink, CheckProfile
<1>4. JudgedSoFar' /\ StatusIsTheOneVerifyFiles'
  BY <1>2 DEF JudgedSoFar, StatusIsTheOneVerifyFiles, Judging
<1>5. QED
  BY <1>1, <1>3, <1>4 DEF StatusInvariant

LEMMA SignedBucketsAreParsed ==
  ASSUME NEW chain, IsChain(chain), NEW n
  PROVE  BucketIsParsed(ProtectedHeader(chain)) /\ BucketIsParsed(Padding(n))
<1>1. \A c : IsChain(<<c>>) /\ Len(<<c>>) = 1
  BY DEF IsChain
<1>2. BucketIsParsed(ProtectedHeader(chain))
  BY <1>1 DEF BucketIsParsed, ProtectedHeader, Bytes, ListOf
<1>3. BucketIsParsed(Padding(n))
  BY DEF BucketIsParsed, Padding, Pad
<1>4. QED
  BY <1>2, <1>3

LEMMA StatusOfMessage ==
  ASSUME StatusInvariant, SignClaim \/ Reserialize \/ Receive \/ Edit
  PROVE  StatusInvariant'
<1>1. JudgementInvariant'
  BY MessagePreserves DEF StatusInvariant
<1>2. status' = "none" /\ pc' = "sent" /\ signer' = signer
  BY DEF StatusInvariant, JudgementInvariant, SignClaim, Reserialize, Receive, Edit
<1>3. Buckets'
  <2>1. CASE SignClaim
    <3>1. PICK n \in {0, 1} :
            /\ message'.protected = ProtectedHeader(signer.certificates)
            /\ message'.unprotected = Padding(n)
      BY <2>1 DEF SignClaim
    <3>2. QED
      BY <3>1, SignedBucketsAreParsed DEF StatusInvariant, ChainsAreLists, Buckets
  <2>2. CASE Reserialize
    <3>1. /\ message'.protected = message.protected /\ message'.unprotected = Padding(1)
          /\ BucketIsParsed(message.protected)
      BY <2>2 DEF Reserialize, StatusInvariant, JudgementInvariant, SignatureInPlace, JudgedSoFar, Buckets
    <3>2. QED
      BY <3>1, SignedBucketsAreParsed DEF StatusInvariant, ChainsAreLists, Buckets
  <2>3. CASE Receive
    BY <2>3, CredentialAssumption DEF Receive, Buckets
  <2>4. CASE Edit
    <3>1. Buckets /\ {"protected", "unprotected"} \subseteq DOMAIN message
      BY <2>4 DEF Edit, StatusInvariant, JudgementInvariant, SignatureInPlace, JudgedSoFar
    <3>2. CASE message' = message
      BY <3>1, <3>2 DEF Buckets
    <3>3. CASE \E bucket \in Edits : message' = [message EXCEPT !.unprotected = bucket]
      <4>1. PICK bucket \in Edits : message' = [message EXCEPT !.unprotected = bucket]
        BY <3>3
      <4>2. message'.protected = message.protected /\ message'.unprotected = bucket
        BY <3>1, <4>1
      <4>3. QED
        BY <3>1, <4>2, CredentialAssumption DEF Buckets
    <3>4. CASE \E bucket \in Edits : message' = [message EXCEPT !.protected = bucket]
      <4>1. PICK bucket \in Edits : message' = [message EXCEPT !.protected = bucket]
        BY <3>4
      <4>2. message'.unprotected = message.unprotected /\ message'.protected = bucket
        BY <3>1, <4>1
      <4>3. QED
        BY <3>1, <4>2, CredentialAssumption DEF Buckets
    <3>5. QED
      BY <2>4, <3>2, <3>3, <3>4 DEF Edit
  <2>5. QED
    BY <2>1, <2>2, <2>3, <2>4
<1>4. ChainsAreLists'
  BY <1>2 DEF StatusInvariant, ChainsAreLists
<1>5. JudgedSoFar' /\ StatusIsTheOneVerifyFiles'
  BY <1>2, <1>3 DEF JudgedSoFar, StatusIsTheOneVerifyFiles, Judging
<1>6. QED
  BY <1>1, <1>4, <1>5 DEF StatusInvariant

(* What SignatureStatus comes to, fault by fault in the order of the phases.    *)
OwnBox == [signature |-> "own box"]
Concluded == SignatureStatus(Summary(message, claim), OwnBox)
Sound == StructureAcceptable(message) /\ CarriedChain(message) # {}

LEMMA ConcludedUnsound ==
  /\ ~ StructureAcceptable(message) => Concluded = "general.error"
  /\ StructureAcceptable(message) /\ CarriedChain(message) = {}
       => Concluded = "signingCredential.invalid"
<1>1. OwnBox.signature = "own box"
  BY DEF OwnBox
<1>2. CASE ~ StructureAcceptable(message)
  <2>1. Summary(message, claim).cose = "bad structure"
    BY <1>2 DEF Summary
  <2>2. QED
    BY <1>1, <1>2, <2>1 DEF Concluded, SignatureStatus
<1>3. CASE StructureAcceptable(message) /\ CarriedChain(message) = {}
  <2>1. Summary(message, claim).cose = "bad credential"
    BY <1>3 DEF Summary
  <2>2. QED
    BY <1>1, <1>3, <2>1 DEF Concluded, SignatureStatus
<1>4. QED
  BY <1>2, <1>3

LEMMA SoundSummary ==
  ASSUME Sound, IsChain(Chain)
  PROVE  LET s == Summary(message, claim)
         IN  /\ s.cose = "ok" /\ s.algorithmAllowed = (Algorithms(message) # {})
             /\ DOMAIN s.chain = 1..Len(Chain)
             /\ \A i \in 1..Len(Chain) :
                  /\ s.chain[i].readable = (Chain[i].unreadable = {})
                  /\ s.chain[i].conforming = ConformsAt(Chain, i)
                  /\ s.chain[i].key = "leaf"
<1>1. DOMAIN Chain = 1..Len(Chain)
  BY DEF IsChain
<1>2. QED
  BY <1>1, Zenon DEF Summary, Sound

LEMMA ConcludedUnsupported ==
  ASSUME Sound, IsChain(Chain), Algorithms(message) = {}
  PROVE  Concluded = "algorithm.unsupported"
<1>1. Summary(message, claim).cose = "ok" /\ ~ Summary(message, claim).algorithmAllowed
  BY SoundSummary
<1>2. QED
  BY <1>1 DEF Concluded, SignatureStatus, OwnBox

LEMMA ConcludedInvalid ==
  ASSUME Sound, IsChain(Chain), Algorithms(message) # {},
         NEW i \in 1..Len(Chain), Chain[i].unreadable # {} \/ ~ ConformsAt(Chain, i)
  PROVE  Concluded = "signingCredential.invalid"
<1>. DEFINE s == Summary(message, claim)
<1>1. s.cose = "ok" /\ s.algorithmAllowed /\ i \in DOMAIN s.chain
  BY SoundSummary
<1>2. ~ s.chain[i].readable \/ ~ s.chain[i].conforming
  BY SoundSummary
<1>. HIDE DEF s
<1>3. \E j \in DOMAIN s.chain : ~ s.chain[j].readable \/ ~ s.chain[j].conforming
  BY <1>1, <1>2
<1>4. SignatureStatus(s, OwnBox) = "signingCredential.invalid"
  BY <1>1, <1>3 DEF SignatureStatus, OwnBox
<1>5. QED
  BY <1>4 DEF Concluded, s

LEMMA ConcludedOnSignature ==
  ASSUME Sound, IsChain(Chain), Len(Chain) \in Nat \ {0}, NEW alg \in Algorithms(message),
         LoadedUpTo(Len(Chain)), ConformingUpTo(Len(Chain))
  PROVE  Concluded = IF SignatureVerifies(message, claim, Chain[1].key, alg)
                     THEN "claimSignature.validated" ELSE "claimSignature.mismatch"
<1>. DEFINE s == Summary(message, claim)
<1>1. /\ s.cose = "ok" /\ s.algorithmAllowed
      /\ ~ \E j \in DOMAIN s.chain : ~ s.chain[j].readable \/ ~ s.chain[j].conforming
      /\ s.chain[1].key = "leaf"
  <2>1. /\ s.cose = "ok" /\ s.algorithmAllowed = (Algorithms(message) # {})
        /\ DOMAIN s.chain = 1..Len(Chain)
        /\ \A i \in 1..Len(Chain) :
             /\ s.chain[i].readable = (Chain[i].unreadable = {})
             /\ s.chain[i].conforming = ConformsAt(Chain, i)
             /\ s.chain[i].key = "leaf"
    BY SoundSummary
  <2>. HIDE DEF s
  <2>2. \A i \in DOMAIN s.chain : s.chain[i].readable /\ s.chain[i].conforming
    BY <2>1 DEF LoadedUpTo, ConformingUpTo
  <2>3. 1 \in 1..Len(Chain)
    OBVIOUS
  <2>4. QED
    BY <2>1, <2>2, <2>3
<1>2. s.over = OwnBox <=> message.signature.over = [protected |-> message.protected, claim |-> claim]
  BY DEF Summary, OwnBox
<1>3. s.key = "leaf" <=>
        /\ Chain[1].key.type = KeyFor(alg) /\ SizeFits(message.signature, Chain[1].key)
        /\ message.signature.by = Chain[1].key.id /\ message.signature.alg = alg
  <2>1. \A c \in CarriedChain(message) : c = Chain
    BY OneChain DEF Chain
  <2>2. \A a \in Algorithms(message) : a = alg
    BY DEF Algorithms
  <2>3. Chain \in CarriedChain(message)
    BY DEF Sound, Chain
  <2>4. s.key = IF \A chain \in CarriedChain(message), a \in Algorithms(message) :
                     /\ message.signature.by = chain[1].key.id /\ message.signature.alg = a
                     /\ chain[1].key.type = KeyFor(a) /\ SizeFits(message.signature, chain[1].key)
                THEN "leaf" ELSE "another"
    BY DEF Summary
  <2>5. QED
    BY <2>1, <2>2, <2>3, <2>4
<1>. HIDE DEF s
<1>4. SignatureStatus(s, OwnBox) =
        IF s.key # "leaf" \/ s.over # OwnBox THEN "claimSignature.mismatch" ELSE "claimSignature.validated"
  BY <1>1 DEF SignatureStatus, OwnBox
<1>5. QED
  BY <1>2, <1>3, <1>4 DEF Concluded, s, SignatureVerifies

LEMMA StatusOfParse ==
  ASSUME StatusInvariant, Parse
  PROVE  StatusInvariant'
<1>1. JudgementInvariant'
  BY BeforeProfilePreserves DEF StatusInvariant
<1>2. /\ message' = message /\ claim' = claim /\ signer' = signer /\ pc = "sent" /\ Buckets
      /\ status = "none"
  BY DEF Parse, producer, StatusInvariant, JudgedSoFar, JudgementInvariant
<1>3. CASE ~ StructureAcceptable(message)
  <2>1. pc' = "done" /\ status' = Concluded
    BY <1>3, ConcludedUnsound DEF Parse, File
  <2>2. StatusIsTheOneVerifyFiles' /\ JudgedSoFar'
    BY ZenonT(60), <1>2, <2>1 DEF StatusIsTheOneVerifyFiles, JudgedSoFar, Judging, Buckets, Concluded, OwnBox,
       Summary, Chain
  <2>3. QED
    BY <1>1, <1>2, <2>2 DEF StatusInvariant, ChainsAreLists
<1>4. CASE StructureAcceptable(message) /\ CarriedChain(message) = {}
  <2>1. pc' = "done" /\ status' = Concluded
    BY <1>4, ConcludedUnsound DEF Parse, File
  <2>2. StatusIsTheOneVerifyFiles' /\ JudgedSoFar'
    BY ZenonT(60), <1>2, <2>1 DEF StatusIsTheOneVerifyFiles, JudgedSoFar, Judging, Buckets, Concluded, OwnBox,
       Summary, Chain
  <2>3. QED
    BY <1>1, <1>2, <2>2 DEF StatusInvariant, ChainsAreLists
<1>5. CASE Sound
  <2>1. pc' = "algorithm" /\ status' = "none"
    BY <1>2, <1>5 DEF Parse, GoOn, Sound
  <2>2. StatusIsTheOneVerifyFiles' /\ JudgedSoFar'
    BY <1>2, <1>5, <2>1 DEF StatusIsTheOneVerifyFiles, JudgedSoFar, Judging, Buckets, Sound
  <2>3. QED
    BY <1>1, <1>2, <2>2 DEF StatusInvariant, ChainsAreLists
<1>6. QED
  BY <1>3, <1>4, <1>5 DEF Sound

(* What a step of the judgement starts from.                                  *)
LEMMA JudgingOnSound ==
  ASSUME StatusInvariant, pc \in Judging
  PROVE  /\ Sound /\ Buckets /\ status = "none"
         /\ Chain \in CarriedChain(message) /\ IsChain(Chain) /\ Len(Chain) \in Nat \ {0}
<1>1. Sound /\ Buckets /\ status = "none"
  BY DEF StatusInvariant, JudgementInvariant, SignatureInPlace, JudgedSoFar, Judging, Sound
<1>2. QED
  BY <1>1, ChainIsAList DEF Sound, Buckets

(* A step that files keeps the invariant if it files what is concluded; a step  *)
(* that goes on, if it leaves the message alone and the next phase is ready.    *)
LEMMA FilingConcludes ==
  ASSUME StatusInvariant, JudgementInvariant', pc \in Judging, pc' = "done",
         message' = message, claim' = claim, signer' = signer, status' = Concluded
  PROVE  StatusInvariant'
<1>1. StatusIsTheOneVerifyFiles'
  BY ZenonT(60) DEF StatusIsTheOneVerifyFiles, Concluded, OwnBox, Summary, Chain
<1>2. JudgedSoFar'
  BY JudgingOnSound DEF JudgedSoFar, Judging, Buckets
<1>3. QED
  BY <1>1, <1>2 DEF StatusInvariant, ChainsAreLists

LEMMA StatusOfAlgorithm ==
  ASSUME StatusInvariant, CheckAlgorithm
  PROVE  StatusInvariant'
<1>1. JudgementInvariant'
  BY BeforeProfilePreserves DEF StatusInvariant
<1>2. message' = message /\ claim' = claim /\ signer' = signer /\ pc = "algorithm"
  BY DEF CheckAlgorithm, producer
<1>3. /\ Sound /\ Buckets /\ status = "none" /\ pc \in Judging
      /\ IsChain(Chain) /\ Len(Chain) \in Nat \ {0}
  BY <1>2, JudgingOnSound DEF Judging
<1>4. CASE Algorithms(message) = {}
  <2>1. pc' = "done" /\ status' = Concluded
    BY <1>3, <1>4, ConcludedUnsupported DEF CheckAlgorithm, File
  <2>2. QED
    BY <1>1, <1>2, <1>3, <2>1, FilingConcludes
<1>5. CASE Algorithms(message) # {}
  <2>1. pc' = "load" /\ status' = "none" /\ cursor' = 1
    BY <1>3, <1>5 DEF CheckAlgorithm, GoOn
  <2>2. Chain' = Chain
    BY <1>2, ChainStays
  <2>3. LoadedUpTo(0) /\ 1 \in 1..Len(Chain)
    BY <1>3 DEF LoadedUpTo
  <2>4. StatusIsTheOneVerifyFiles' /\ JudgedSoFar'
    BY <1>2, <1>3, <1>5, <2>1, <2>2, <2>3 DEF StatusIsTheOneVerifyFiles, JudgedSoFar, Judging,
       Buckets, Sound, LoadedUpTo
  <2>5. QED
    BY <1>1, <1>2, <2>4 DEF StatusInvariant, ChainsAreLists
<1>6. QED
  BY <1>4, <1>5

LEMMA StatusOfLoad ==
  ASSUME StatusInvariant, LoadCertificate
  PROVE  StatusInvariant'
<1>1. JudgementInvariant'
  BY BeforeProfilePreserves DEF StatusInvariant
<1>2. message' = message /\ claim' = claim /\ signer' = signer /\ pc = "load"
  BY DEF LoadCertificate, producer
<1>3. /\ Sound /\ Buckets /\ status = "none" /\ pc \in Judging
      /\ IsChain(Chain) /\ Len(Chain) \in Nat \ {0}
  BY <1>2, JudgingOnSound DEF Judging
<1>4. /\ Algorithms(message) # {} /\ cursor \in 1..Len(Chain) /\ LoadedUpTo(cursor - 1)
  BY <1>2 DEF StatusInvariant, JudgedSoFar
<1>5. Chain' = Chain
  BY <1>2, ChainStays
<1>6. CASE Chain[cursor].unreadable # {}
  <2>1. pc' = "done" /\ status' = "signingCredential.invalid"
    BY <1>6 DEF LoadCertificate, File
  <2>2. Concluded = "signingCredential.invalid"
    BY <1>3, <1>4, <1>6, ConcludedInvalid
  <2>3. QED
    BY <1>1, <1>2, <1>3, <2>1, <2>2, FilingConcludes
<1>7. CASE Chain[cursor].unreadable = {}
  <2>1. LoadedUpTo(cursor)
    BY <1>4, <1>7 DEF LoadedUpTo
  <2>2. /\ status' = "none"
        /\ \/ cursor = Len(Chain) /\ pc' = "accept" /\ cursor' = 1
           \/ cursor # Len(Chain) /\ pc' = "load" /\ cursor' = cursor + 1
    BY <1>2, <1>3, <1>7 DEF LoadCertificate, Judged, GoOn
  <2>3. /\ cursor' \in 1..Len(Chain)
        /\ pc' = "load" => LoadedUpTo(cursor' - 1)
        /\ pc' = "accept" => LoadedUpTo(Len(Chain))
    BY <1>3, <1>4, <2>1, <2>2
  <2>4. StatusIsTheOneVerifyFiles' /\ JudgedSoFar'
    BY <1>2, <1>3, <1>4, <1>5, <2>2, <2>3 DEF StatusIsTheOneVerifyFiles, JudgedSoFar, Judging,
       Buckets, Sound, LoadedUpTo
  <2>5. QED
    BY <1>1, <1>2, <2>4 DEF StatusInvariant, ChainsAreLists
<1>8. QED
  BY <1>6, <1>7

LEMMA StatusOfAccept ==
  ASSUME StatusInvariant, AcceptCertificate
  PROVE  StatusInvariant'
<1>1. JudgementInvariant'
  BY AcceptPreserves DEF StatusInvariant
<1>2. message' = message /\ claim' = claim /\ signer' = signer /\ pc = "accept"
  BY DEF AcceptCertificate, producer
<1>3. /\ Sound /\ Buckets /\ status = "none" /\ pc \in Judging
      /\ IsChain(Chain) /\ Len(Chain) \in Nat \ {0}
  BY <1>2, JudgingOnSound DEF Judging
<1>4. /\ Algorithms(message) # {} /\ cursor \in 1..Len(Chain) /\ LoadedUpTo(Len(Chain))
  BY <1>2 DEF StatusInvariant, JudgedSoFar
<1>5. Chain' = Chain
  BY <1>2, ChainStays
<1>6. CASE ~ ConformsAt(Chain, cursor)
  <2>1. pc' = "done" /\ status' = "signingCredential.invalid"
    BY <1>6 DEF AcceptCertificate, File
  <2>2. Concluded = "signingCredential.invalid"
    BY <1>3, <1>4, <1>6, ConcludedInvalid
  <2>3. QED
    BY <1>1, <1>2, <1>3, <2>1, <2>2, FilingConcludes
<1>7. CASE ConformsAt(Chain, cursor)
  <2>1. /\ status' = "none"
        /\ \/ pc' = "verify"
           \/ cursor # Len(Chain) /\ pc' = "accept" /\ cursor' = cursor + 1
    BY <1>2, <1>3, <1>7 DEF AcceptCertificate, Judged, GoOn
  <2>2. pc' = "accept" => cursor' \in 1..Len(Chain)
    BY <1>3, <1>4, <2>1
  <2>3. StatusIsTheOneVerifyFiles' /\ JudgedSoFar'
    BY <1>2, <1>3, <1>4, <1>5, <2>1, <2>2 DEF StatusIsTheOneVerifyFiles, JudgedSoFar, Judging,
       Buckets, Sound, LoadedUpTo
  <2>4. QED
    BY <1>1, <1>2, <2>3 DEF StatusInvariant, ChainsAreLists
<1>8. QED
  BY <1>6, <1>7

LEMMA StatusOfVerdict ==
  ASSUME StatusInvariant, VerifySignature
  PROVE  StatusInvariant'
<1>1. JudgementInvariant'
  BY VerdictPreserves DEF StatusInvariant
<1>2. message' = message /\ claim' = claim /\ signer' = signer /\ pc = "verify"
  BY DEF VerifySignature, producer
<1>3. /\ Sound /\ pc \in Judging /\ IsChain(Chain) /\ Len(Chain) \in Nat \ {0}
  BY <1>2, JudgingOnSound DEF Judging
<1>4. LoadedUpTo(Len(Chain)) /\ ConformingUpTo(Len(Chain))
  BY <1>2 DEF StatusInvariant, JudgedSoFar, JudgementInvariant, CertificatesInPlace
<1>5. PICK alg \in Algorithms(message) :
        /\ pc' = "done"
        /\ status' = IF SignatureVerifies(message, claim, Chain[1].key, alg)
                     THEN "claimSignature.validated" ELSE "claimSignature.mismatch"
  BY DEF VerifySignature, File
<1>6. status' = Concluded
  BY <1>3, <1>4, <1>5, ConcludedOnSignature
<1>7. QED
  BY <1>1, <1>2, <1>3, <1>5, <1>6, FilingConcludes

LEMMA StatusStutters ==
  ASSUME StatusInvariant, UNCHANGED vars
  PROVE  StatusInvariant'
<1>1. JudgementInvariant'
  BY StutterPreserves DEF StatusInvariant
<1>2. ChainsAreLists' /\ JudgedSoFar'
  <2>1. /\ message' = message /\ pc' = pc /\ cursor' = cursor /\ signer' = signer
        /\ Chain' = Chain
    BY ChainStays DEF vars
  <2>2. ChainsAreLists'
    BY <2>1 DEF StatusInvariant, ChainsAreLists
  <2>3. JudgedSoFar'
    BY <2>1 DEF StatusInvariant, JudgedSoFar, Judging, Buckets, LoadedUpTo
  <2>4. QED
    BY <2>2, <2>3
<1>3. StatusIsTheOneVerifyFiles'
  <2>1. message' = message /\ claim' = claim /\ status' = status
    BY DEF vars
  <2>2. Summary(message, claim)' = Summary(message, claim)
    BY <2>1 DEF Summary, Chain
  <2>3. QED
    BY <2>1, <2>2 DEF StatusInvariant, StatusIsTheOneVerifyFiles
<1>4. QED
  BY <1>1, <1>2, <1>3 DEF StatusInvariant

LEMMA StatusInvariantHolds == Spec => []StatusInvariant
<1>1. StatusInvariant /\ [Next]_vars => StatusInvariant'
  BY StatusBeforeMessage, StatusOfMessage, StatusOfParse, StatusOfAlgorithm, StatusOfLoad,
     StatusOfAccept, StatusOfVerdict, StatusStutters DEF Next
<1>2. QED
  BY StatusInitially, <1>1, PTL DEF Spec

(* Whatever the message, the chain in it and its faults, the phases of          *)
(* _check_signature come to the one status that a summary of the message gives. *)
THEOREM PhasesComeToOneStatus == Spec => []StatusIsTheOneVerifyFiles
<1>1. StatusInvariant => StatusIsTheOneVerifyFiles
  BY DEF StatusInvariant
<1>2. QED
  BY StatusInvariantHolds, <1>1, PTL

----------------------------------------------------------------------------
(* What a Signer holds when it signs, and what stays of its signature whatever  *)
(* others make of the message: they may write the buckets and choose another    *)
(* claim, never the signature itself.                                        *)

SignerConformsUpTo(n) == \A i \in 1..n : ConformsAt(signer.certificates, i)

Held ==
  /\ Own /\ signer.certificates[1].key.type = "Ed25519" /\ signer.certificates[1].key.id = signer.key

Fit == signer.allowNonconformant \/ SignerConformsUpTo(Len(signer.certificates))

SignedByOwn ==
  /\ message.form = "COSE_Sign1" /\ message.payload = "nil" /\ made = {message.signature}
  /\ message.signature.by = signer.key /\ message.signature.alg = "EdDSA"
  /\ message.signature.size = 64
  /\ message.signature.over.protected = ProtectedHeader(signer.certificates)

Untouched ==
  /\ message.signature.over = [protected |-> message.protected, claim |-> claim]
  /\ DOMAIN message.unprotected = {"pad"}

SignerInPlace ==
  /\ pc \in {"idle", "leaf"} => cursor = 1
  /\ pc = "idle" => signer.certificates = <<>> /\ edits = 0
  /\ pc \in {"links", "profile", "held"} => Held /\ made = {} /\ edits = 0
  /\ pc \in {"idle", "leaf"} => made = {} /\ edits = 0
  /\ pc \in {"links", "profile"} => cursor \in 1..Len(signer.certificates)
  /\ pc = "profile" => SignerConformsUpTo(cursor - 1)
  /\ pc = "held" => Fit
  /\ pc \in Judging \cup {"sent", "done"} /\ Own =>
       Held /\ Fit /\ SignedByOwn /\ (edits = 0 => Untouched)
  /\ edits \in Nat

SignerInvariant == StatusInvariant /\ SignerInPlace

LEMMA SignerInitially == Init => SignerInvariant
<1>1. Init => SignerInPlace
  BY DEF Init, SignerInPlace, Judging
<1>2. QED
  BY <1>1, StatusInitially DEF SignerInvariant

LEMMA HeldChain ==
  ASSUME IsChain(signer.certificates), Own
  PROVE  Len(signer.certificates) \in Nat \ {0}
BY DEF IsChain, Own

LEMMA SignerOfConstruct ==
  ASSUME SignerInvariant, Construct
  PROVE  SignerInPlace'
BY DEF SignerInvariant, SignerInPlace, Construct, Judging

LEMMA SignerOfLeaf ==
  ASSUME SignerInvariant, CheckLeaf
  PROVE  SignerInPlace'
<1>1. /\ pc = "leaf" /\ cursor = 1 /\ signer' = signer /\ edits' = edits /\ made' = made /\ edits \in Nat
      /\ made = {} /\ edits = 0
      /\ IsChain(signer.certificates)
  BY DEF SignerInvariant, SignerInPlace, StatusInvariant, ChainsAreLists, CheckLeaf
<1>2. CASE pc' = "refused"
  BY <1>1, <1>2 DEF SignerInPlace, Judging
<1>3. CASE pc' # "refused"
  <2>1. LeafRefusal(signer.key, signer.certificates) = "no" /\ pc' = "links" /\ cursor' = cursor
    BY <1>3 DEF CheckLeaf, Refuse
  <2>2. Held
    BY <2>1 DEF LeafRefusal, Held, Own
  <2>3. 1 \in 1..Len(signer.certificates)
    BY <1>1, <2>2, HeldChain DEF Held
  <2>4. Held'
    BY <1>1, <2>2 DEF Held, Own
  <2>5. QED
    BY <1>1, <2>1, <2>3, <2>4 DEF SignerInPlace, Judging
<1>4. QED
  BY <1>2, <1>3

LEMMA SignerOfLink ==
  ASSUME SignerInvariant, CheckChainLink
  PROVE  SignerInPlace'
<1>1. /\ pc = "links" /\ cursor \in 1..Len(signer.certificates) /\ Held
      /\ signer' = signer /\ edits' = edits /\ made' = made /\ edits \in Nat /\ made = {} /\ edits = 0
  BY DEF SignerInvariant, SignerInPlace, CheckChainLink
<1>2. IsChain(signer.certificates) /\ Len(signer.certificates) \in Nat \ {0}
  BY <1>1, HeldChain DEF SignerInvariant, StatusInvariant, ChainsAreLists, Held
<1>3. Held'
  BY <1>1 DEF Held, Own
<1>4. CASE pc' = "refused"
  BY <1>1, <1>4 DEF SignerInPlace, Judging
<1>5. CASE pc' # "refused"
  <2>1. \/ /\ pc' = (IF signer.allowNonconformant THEN "held" ELSE "profile") /\ cursor' = 1
        \/ pc' = "links" /\ cursor' = cursor + 1 /\ cursor # Len(signer.certificates)
    BY <1>1, <1>5 DEF CheckChainLink, Constructed, Refuse
  <2>2. cursor' \in 1..Len(signer.certificates)
    BY <1>1, <1>2, <2>1
  <2>3. pc' = "held" => Fit'
    BY <1>1, <2>1 DEF Fit
  <2>4. pc' = "profile" => SignerConformsUpTo(cursor' - 1)
    BY <1>1, <2>1 DEF SignerConformsUpTo
  <2>5. pc' \in {"links", "profile", "held"}
    BY <2>1
  <2>6. QED
    BY <1>1, <1>3, <2>2, <2>3, <2>4, <2>5 DEF SignerInPlace, Judging, SignerConformsUpTo
<1>6. QED
  BY <1>4, <1>5

LEMMA SignerOfProfile ==
  ASSUME SignerInvariant, CheckProfile
  PROVE  SignerInPlace'
<1>1. /\ pc = "profile" /\ cursor \in 1..Len(signer.certificates) /\ Held /\ SignerConformsUpTo(cursor - 1)
      /\ signer' = signer /\ edits' = edits /\ made' = made /\ edits \in Nat /\ made = {} /\ edits = 0
  BY DEF SignerInvariant, SignerInPlace, CheckProfile
<1>2. IsChain(signer.certificates) /\ Len(signer.certificates) \in Nat \ {0}
  BY <1>1, HeldChain DEF SignerInvariant, StatusInvariant, ChainsAreLists, Held
<1>3. Held'
  BY <1>1 DEF Held, Own
<1>4. CASE pc' = "refused"
  BY <1>1, <1>4 DEF SignerInPlace, Judging
<1>5. CASE pc' # "refused"
  <2>1. /\ ConformsAt(signer.certificates, cursor)
        /\ \/ pc' = "held" /\ cursor = Len(signer.certificates)
           \/ pc' = "profile" /\ cursor' = cursor + 1 /\ cursor # Len(signer.certificates)
    BY <1>1, <1>5 DEF CheckProfile, Constructed, Refuse
  <2>2. SignerConformsUpTo(cursor)
    BY <1>1, <2>1 DEF SignerConformsUpTo
  <2>3. pc' = "held" => Fit'
    BY <1>1, <2>1, <2>2 DEF Fit, SignerConformsUpTo
  <2>4. pc' = "profile" => cursor' \in 1..Len(signer.certificates) /\ SignerConformsUpTo(cursor' - 1)
    BY <1>1, <1>2, <2>1, <2>2
  <2>5. QED
    BY <1>1, <1>3, <2>1, <2>3, <2>4 DEF SignerInPlace, Judging, SignerConformsUpTo
<1>6. QED
  BY <1>4, <1>5

LEMMA SignerOfSignature ==
  ASSUME SignerInvariant, SignClaim
  PROVE  SignerInPlace'
<1>1. /\ pc = "held" /\ pc' = "sent" /\ Held /\ Fit /\ made = {} /\ edits = 0 /\ edits' = 0
      /\ signer' = signer /\ claim' = claim
  BY DEF SignerInvariant, SignerInPlace, SignClaim
<1>2. PICK n \in {0, 1} :
        LET signature == [by |-> signer.key, alg |-> "EdDSA", size |-> 64,
                          over |-> [protected |-> ProtectedHeader(signer.certificates), claim |-> claim]]
        IN  /\ made' = made \cup {signature}
            /\ message' = [form |-> "COSE_Sign1", protected |-> ProtectedHeader(signer.certificates),
                 unprotected |-> Padding(n), payload |-> "nil", signature |-> signature]
  BY DEF SignClaim
<1>3. SignedByOwn'
  BY <1>1, <1>2 DEF SignedByOwn
<1>4. Untouched'
  BY <1>1, <1>2 DEF Untouched, Padding
<1>5. Held' /\ Fit'
  BY <1>1 DEF Held, Fit, Own, SignerConformsUpTo
<1>6. QED
  BY <1>1, <1>3, <1>4, <1>5 DEF SignerInPlace, Judging

LEMMA SignerOfReserialize ==
  ASSUME SignerInvariant, Reserialize
  PROVE  SignerInPlace'
<1>1. /\ pc = "sent" /\ pc' = "sent" /\ edits = 0 /\ edits' = 0 /\ signer' = signer /\ claim' = claim
      /\ made' = made /\ Held /\ Fit /\ SignedByOwn /\ Untouched
      /\ {"form", "protected", "unprotected", "payload", "signature"} \subseteq DOMAIN message
      /\ message' = [message EXCEPT !.unprotected = Padding(1)]
  BY DEF SignerInvariant, SignerInPlace, StatusInvariant, JudgementInvariant, SignatureInPlace,
     Reserialize, Own
<1>2. SignedByOwn' /\ Untouched'
  BY <1>1 DEF SignedByOwn, Untouched, Padding
<1>3. Held' /\ Fit'
  BY <1>1 DEF Held, Fit, Own, SignerConformsUpTo
<1>4. QED
  BY <1>1, <1>2, <1>3 DEF SignerInPlace, Judging

LEMMA SignerOfReceive ==
  ASSUME SignerInvariant, Receive
  PROVE  SignerInPlace'
BY DEF SignerInvariant, SignerInPlace, Receive, Judging, Own

LEMMA SignerOfEdit ==
  ASSUME SignerInvariant, Edit
  PROVE  SignerInPlace'
<1>1. /\ pc = "sent" /\ pc' = "sent" /\ edits' = edits + 1 /\ signer' = signer /\ made' = made
      /\ Own => Held /\ Fit /\ SignedByOwn
      /\ {"form", "protected", "unprotected", "payload", "signature"} \subseteq DOMAIN message
      /\ edits \in Nat
  BY DEF SignerInvariant, SignerInPlace, StatusInvariant, JudgementInvariant, SignatureInPlace, Edit
<1>2. /\ message'.form = message.form /\ message'.payload = message.payload
      /\ message'.signature = message.signature
  BY <1>1 DEF Edit
<1>3. Own' => Held' /\ Fit' /\ SignedByOwn'
  BY <1>1, <1>2 DEF Held, Fit, Own, SignerConformsUpTo, SignedByOwn
<1>4. edits' \in Nat /\ edits' # 0
  BY <1>1
<1>5. QED
  BY <1>1, <1>3, <1>4 DEF SignerInPlace, Judging

LEMMA SignerOfJudgement ==
  ASSUME SignerInvariant, Parse \/ CheckAlgorithm \/ LoadCertificate \/ AcceptCertificate \/ VerifySignature
  PROVE  SignerInPlace'
<1>1. /\ message' = message /\ claim' = claim /\ signer' = signer /\ made' = made /\ edits' = edits
      /\ pc \in Judging \cup {"sent"}
  BY DEF Parse, CheckAlgorithm, LoadCertificate, AcceptCertificate, VerifySignature, producer, Judging
<1>2. pc' \in Judging \cup {"done"}
  BY <1>1 DEF Parse, CheckAlgorithm, LoadCertificate, AcceptCertificate, VerifySignature, File, GoOn,
     Judged, Judging
<1>3. /\ Own => Held /\ Fit /\ SignedByOwn /\ (edits = 0 => Untouched)
      /\ edits \in Nat
  BY <1>1 DEF SignerInvariant, SignerInPlace
<1>4. Own' => Held' /\ Fit' /\ SignedByOwn' /\ (edits' = 0 => Untouched')
  BY <1>1, <1>3 DEF Held, Fit, Own, SignerConformsUpTo, SignedByOwn, Untouched
<1>5. QED
  BY <1>1, <1>2, <1>3, <1>4 DEF SignerInPlace, Judging

LEMMA SignerStutters ==
  ASSUME SignerInvariant, UNCHANGED vars
  PROVE  SignerInPlace'
BY DEF SignerInvariant, SignerInPlace, vars, Held, Fit, Own, SignerConformsUpTo, SignedByOwn, Untouched

LEMMA SignerInvariantHolds == Spec => []SignerInvariant
<1>1. SignerInvariant /\ [Next]_vars => StatusInvariant'
  BY StatusBeforeMessage, StatusOfMessage, StatusOfParse, StatusOfAlgorithm, StatusOfLoad,
     StatusOfAccept, StatusOfVerdict, StatusStutters DEF Next, SignerInvariant
<1>2. SignerInvariant /\ [Next]_vars => SignerInPlace'
  BY SignerOfConstruct, SignerOfLeaf, SignerOfLink, SignerOfProfile, SignerOfSignature,
     SignerOfReserialize, SignerOfReceive, SignerOfEdit, SignerOfJudgement, SignerStutters DEF Next
<1>3. SignerInvariant /\ [Next]_vars => SignerInvariant'
  BY <1>1, <1>2 DEF SignerInvariant
<1>4. QED
  BY SignerInitially, <1>3, PTL DEF Spec

(* A message whose protected bucket is the signer's is sound, whatever stands in *)
(* the other one save the labels that must not: it carries the signer's chain.   *)
OwnHeader ==
  /\ message.protected = ProtectedHeader(signer.certificates)
  /\ {"33", "crit", "no label"} \cap DOMAIN message.unprotected = {}

LEMMA OwnBuckets ==
  ASSUME OwnHeader
  PROVE  {n \in {"protected", "unprotected"} : "33" \in DOMAIN message[n]} = {"protected"}
<1>1. "33" \in DOMAIN message["protected"] /\ "33" \notin DOMAIN message["unprotected"]
  BY DEF OwnHeader, ProtectedHeader
<1>2. QED
  BY <1>1

LEMMA OwnMessageIsSound ==
  ASSUME OwnHeader, SignedByOwn, Own, IsChain(signer.certificates)
  PROVE  StructureAcceptable(message) /\ CarriedChain(message) = {signer.certificates}
         /\ Algorithms(message) = {"EdDSA"}
<1>. DEFINE header == ProtectedHeader(signer.certificates)
            certificates == signer.certificates
<1>1. DOMAIN message.protected = {"alg", "33"}
  BY DEF OwnHeader, ProtectedHeader
<1>2. StructureAcceptable(message)
  BY <1>1 DEF OwnHeader, SignedByOwn, StructureAcceptable, CriticalHeadersUnderstood, Labels
<1>3. message.protected["alg"] = [kind |-> "alg", name |-> "EdDSA"]
  BY DEF OwnHeader, ProtectedHeader
<1>4. Algorithms(message) = {"EdDSA"}
  <2>1. DOMAIN message.protected \cap {"alg"} = {"alg"}
    BY <1>1
  <2>2. QED
    BY <1>3, <2>1 DEF Algorithms, Signing
<1>5. Len(certificates) \in Nat \ {0}
  BY HeldChain
<1>6. message.protected["33"].kind \in {"bytes", "list"}
      /\ message.protected["33"].chain = certificates
      /\ (message.protected["33"].kind = "list" => Len(certificates) >= 2)
  <2>1. CASE Len(certificates) = 1
    <3>1. message.protected["33"] = Bytes(certificates[1])
      BY <2>1 DEF OwnHeader, ProtectedHeader
    <3>2. <<certificates[1]>> = certificates
      BY <2>1 DEF IsChain
    <3>3. QED
      BY <3>1, <3>2 DEF Bytes
  <2>2. CASE Len(certificates) # 1
    <3>1. message.protected["33"] = ListOf(certificates)
      BY <2>2 DEF OwnHeader, ProtectedHeader
    <3>. DEFINE length == Len(certificates)
    <3>2. length >= 2
      <4>1. length \in Nat \ {0} /\ length # 1
        BY <1>5, <2>2
      <4>. HIDE DEF length
      <4>2. QED
        BY <4>1
    <3>3. QED
      BY <3>1, <3>2 DEF ListOf
  <2>3. QED
    BY <2>1, <2>2
<1>7. ChainUnder(message, "33") = {certificates}
  <2>. DEFINE buckets == {n \in {"protected", "unprotected"} : "33" \in DOMAIN message[n]}
              values == {message[n]["33"] : n \in buckets}
  <2>1. buckets = {"protected"}
    BY OwnBuckets
  <2>2. values = {message.protected["33"]}
    BY <2>1
  <2>3. Cardinality(buckets) = 1
    BY <2>1, FS_Singleton
  <2>4. ChainUnder(message, "33") =
          {v.chain : v \in {v \in values :
             /\ Cardinality(buckets) = 1 /\ v.kind \in {"bytes", "list"}
             /\ v.kind = "list" => Len(v.chain) >= 2}}
    BY DEF ChainUnder
  <2>. HIDE DEF buckets, values
  <2>5. {v \in values :
             /\ Cardinality(buckets) = 1 /\ v.kind \in {"bytes", "list"}
             /\ v.kind = "list" => Len(v.chain) >= 2} = {message.protected["33"]}
    BY <1>6, <2>2, <2>3
  <2>6. QED
    BY <1>6, <2>4, <2>5
<1>8. CarriedChain(message) = ChainUnder(message, "33")
  BY <1>1 DEF CarriedChain, Labels
<1>9. QED
  BY <1>2, <1>4, <1>7, <1>8

(* What is concluded of an own signature that still covers what was signed.     *)
LEMMA ConcludedOfOwn ==
  ASSUME OwnHeader, SignedByOwn, Held, Fit, IsChain(signer.certificates),
         message.signature.over = [protected |-> message.protected, claim |-> claim]
  PROVE  /\ Concluded \in {"claimSignature.validated", "signingCredential.invalid"}
         /\ ~ signer.allowNonconformant => Concluded = "claimSignature.validated"
<1>1. /\ StructureAcceptable(message) /\ CarriedChain(message) = {signer.certificates}
      /\ Algorithms(message) = {"EdDSA"}
  BY OwnMessageIsSound DEF Held
<1>2. Chain = signer.certificates
  <2>1. Chain \in CarriedChain(message)
    BY <1>1 DEF Chain
  <2>2. QED
    BY <1>1, <2>1
<1>3. Sound /\ IsChain(Chain) /\ Len(Chain) \in Nat \ {0} /\ "EdDSA" \in Algorithms(message)
  BY <1>1, <1>2, HeldChain DEF Sound, Held
<1>4. SignatureVerifies(message, claim, Chain[1].key, "EdDSA")
  BY <1>2 DEF SignatureVerifies, Held, SignedByOwn, KeyFor, SizeFits
<1>5. CASE LoadedUpTo(Len(Chain)) /\ ConformingUpTo(Len(Chain))
  BY <1>3, <1>4, <1>5, ConcludedOnSignature
<1>6. CASE ~ (LoadedUpTo(Len(Chain)) /\ ConformingUpTo(Len(Chain)))
  <2>1. PICK i \in 1..Len(Chain) : Chain[i].unreadable # {} \/ ~ ConformsAt(Chain, i)
    BY <1>6 DEF LoadedUpTo, ConformingUpTo
  <2>2. Concluded = "signingCredential.invalid"
    BY <1>1, <1>3, <2>1, ConcludedInvalid
  <2>3. signer.allowNonconformant
    <3>1. SUFFICES ASSUME ~ signer.allowNonconformant PROVE FALSE
      OBVIOUS
    <3>2. ConformsAt(Chain, i)
      BY <1>2, <2>1, <3>1 DEF Fit, SignerConformsUpTo
    <3>3. Chain[i].unreadable = {}
      BY <3>2 DEF ConformsAt, ConformsToClaimSigning, ConformsToCarriedCa, StructureConforms
    <3>4. QED
      BY <2>1, <3>2, <3>3
  <2>4. QED
    BY <2>2, <2>3
<1>7. QED
  BY <1>5, <1>6

(* For every chain, key and claim: what a signer that checks its chain signs is  *)
(* accepted; one that was told not to can only be refused for the credential.    *)
THEOREM OwnIsAccepted == Spec => []OwnSignatureIsAccepted
<1>1. SignerInvariant => OwnSignatureIsAccepted
  <2>. SUFFICES ASSUME SignerInvariant, Own, edits = 0, status # "none"
                PROVE  \/ status = "claimSignature.validated"
                       \/ status = "signingCredential.invalid" /\ signer.allowNonconformant
    BY DEF OwnSignatureIsAccepted
  <2>1. pc = "done" /\ IsChain(signer.certificates) /\ status = Concluded
    BY DEF SignerInvariant, StatusInvariant, ChainsAreLists, JudgementInvariant,
       StatusIsTheOneVerifyFiles, Concluded, OwnBox
  <2>2. Held /\ Fit /\ SignedByOwn /\ Untouched
    BY <2>1 DEF SignerInvariant, SignerInPlace
  <2>3. message.protected = ProtectedHeader(signer.certificates)
    BY <2>2 DEF SignedByOwn, Untouched
  <2>4. {"33", "crit", "no label"} \cap DOMAIN message.unprotected = {}
    BY <2>2 DEF Untouched
  <2>5. QED
    BY <2>1, <2>2, <2>3, <2>4, ConcludedOfOwn DEF OwnHeader, Untouched
<1>2. QED
  BY SignerInvariantHolds, <1>1, PTL

LEMMA SignedHeaderStands ==
  ASSUME SignedByOwn, \E s \in made : s.over = [protected |-> message.protected, claim |-> claim]
  PROVE  /\ message.protected = ProtectedHeader(signer.certificates)
         /\ message.signature.over = [protected |-> message.protected, claim |-> claim]
<1>1. message.signature.over = [protected |-> message.protected, claim |-> claim]
  BY DEF SignedByOwn
<1>2. message.signature.over.protected = message.protected
  BY <1>1
<1>3. QED
  BY <1>1, <1>2 DEF SignedByOwn

(* For every chain and every bucket that others may write: as long as a          *)
(* signature covers the protected bucket and the claim, nothing unsigned has a    *)
(* say, save the labels that must not stand there.                              *)
THEOREM NothingUnsignedHasASay == Spec => []UnsignedEditsHaveNoSay
<1>1. SignerInvariant => UnsignedEditsHaveNoSay
  <2>. SUFFICES ASSUME SignerInvariant, Own, ~ signer.allowNonconformant, status # "none",
                       NEW s \in made, s.over = [protected |-> message.protected, claim |-> claim],
                       {"33", "crit", "no label"} \cap DOMAIN message.unprotected = {}
                PROVE  status = "claimSignature.validated"
    BY DEF UnsignedEditsHaveNoSay
  <2>1. pc = "done" /\ IsChain(signer.certificates) /\ status = Concluded
    BY DEF SignerInvariant, StatusInvariant, ChainsAreLists, JudgementInvariant,
       StatusIsTheOneVerifyFiles, Concluded, OwnBox
  <2>2. Held /\ Fit /\ SignedByOwn
    BY <2>1 DEF SignerInvariant, SignerInPlace
  <2>3. QED
    BY <2>1, <2>2, SignedHeaderStands, ConcludedOfOwn DEF OwnHeader
<1>2. QED
  BY SignerInvariantHolds, <1>1, PTL
=============================================================================
