---------------------------- MODULE Certificates ----------------------------
(***************************************************************************)
(* The certificate profile of src/c2patxt/trust.py (C2PA 14.5.1.1): what a  *)
(* certificate must be to sign claims, what a CA carried with it must be.    *)
(*                                                                          *)
(* A certificate is a record of the fields that the profile reads.  An       *)
(* extension is the set of its value, {} when the certificate has none; a    *)
(* key is [type, size, id]; tbs holds the tags of the top-level members.      *)
(* Which rule refuses a certificate first is only a matter of wording here.   *)
(***************************************************************************)
EXTENDS Naturals, Sequences

PermittedSignatureAlgorithms ==
  {"ecdsa-sha256", "ecdsa-sha384", "ecdsa-sha512", "rsa-sha256", "rsa-sha384", "rsa-sha512",
   "rsassa-pss", "ed25519"}
PermittedCurves == {256, 384, 521}           \* by the size of their keys
MinRsaModulusBits == 2048
UniqueIdTags == {"issuerUniqueID", "subjectUniqueID"}
PssParameterTags == {"hashAlgorithm", "maskGenAlgorithm", "saltLength", "trailerField"}
PssHashes == {"sha256", "sha384", "sha512"}
AnyExtendedKeyUsage == "anyExtendedKeyUsage"
ExclusivePurposes == {"timeStamping", "OCSPSigning"}

(* Certificate.verify_directly_issued_by of the library cryptography.         *)
DirectlyIssuedBy(child, parent) ==
  /\ {"der", "key"} \cap parent.unreadable = {} /\ "der" \notin child.unreadable
  /\ child.issuer = parent.subject /\ child.signedBy = parent.key.id

----------------------------------------------------------------------------
(* Rules of every certificate: _check_x509_structure.                        *)

CarriesUniqueIds(tbs) == \E i \in DOMAIN tbs : tbs[i] \in UniqueIdTags

(* _check_pss_parameters.  The fields come in any order, none twice; salt    *)
(* length and trailer are not looked at.                                     *)
PssParametersConform(parameters) ==
  \E fields \in parameters :
    /\ \A i \in DOMAIN fields :
         fields[i].tag \in PssParameterTags /\ \A j \in 1..(i - 1) : fields[i].tag # fields[j].tag
    /\ \E i, j \in DOMAIN fields :
         /\ fields[i].tag = "hashAlgorithm" /\ fields[i].oid \in PssHashes
         /\ fields[j].tag = "maskGenAlgorithm" /\ fields[j].oid = "mgf1"
         /\ fields[j].hash = fields[i].oid

(* _is_self_signed and what it excuses.                                      *)
SelfSigned(c) == c.issuer = c.subject /\ DirectlyIssuedBy(c, c)

NamesItsIssuer(c) ==
  /\ \A aki \in c.authorityKey : ~ aki.critical /\ aki.keyIdentifier
  /\ c.authorityKey = {} => SelfSigned(c)

StructureConforms(c) ==
  /\ c.unreadable = {}
  /\ c.signatureAlgorithm \in PermittedSignatureAlgorithms
  /\ c.signatureAlgorithm = "rsassa-pss" => PssParametersConform(c.pss)
  /\ c.key.type = "EC" => c.key.size \in PermittedCurves
  /\ c.key.type = "RSA" => c.key.size >= MinRsaModulusBits
  /\ c.version = "v3"
  /\ ~ CarriesUniqueIds(c.tbs)
  /\ NamesItsIssuer(c)

----------------------------------------------------------------------------
(* The two roles: _check_leaf_extensions and _check_ca_extensions.            *)

LeafMayBeCa(c) ==                                                 \* defect
  /\ \A ski \in c.subjectKey : ~ ski.critical
  /\ \E usage \in c.keyUsage : usage.digitalSignature
  /\ \E purposes \in c.extendedKeyUsage :
       purposes # {} /\ purposes \cap ({AnyExtendedKeyUsage} \cup ExclusivePurposes) = {}

LeafExtensionsConform(c) ==
  /\ \A ski \in c.subjectKey : ~ ski.critical
  /\ \A constraints \in c.basicConstraints : ~ constraints.ca
  /\ \E usage \in c.keyUsage : usage.digitalSignature /\ ~ usage.keyCertSign
  /\ \E purposes \in c.extendedKeyUsage :
       purposes # {} /\ purposes \cap ({AnyExtendedKeyUsage} \cup ExclusivePurposes) = {}

CaExtensionsConform(c) ==
  /\ \E constraints \in c.basicConstraints : constraints.ca /\ constraints.critical
  /\ \E ski \in c.subjectKey : ~ ski.critical
  /\ \E usage \in c.keyUsage : usage.keyCertSign

ConformsToClaimSigning(c) == StructureConforms(c) /\ LeafExtensionsConform(c)
ConformsToCarriedCa(c) == StructureConforms(c) /\ CaExtensionsConform(c)

(* The role that the place of a certificate in a chain gives it.              *)
ConformsAt(chain, i) ==
  IF i = 1 THEN ConformsToClaimSigning(chain[1]) ELSE ConformsToCarriedCa(chain[i])

(* check_certificate_chain_profile.                                          *)
ChainConforms(chain) == chain # <<>> /\ \A i \in DOMAIN chain : ConformsAt(chain, i)
=============================================================================
