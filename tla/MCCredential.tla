----------------------------- MODULE MCCredential -----------------------------
(***************************************************************************)
(* Credential with certificates one field away from conforming ones, and with *)
(* messages one header away from acceptable ones.                            *)
(***************************************************************************)
EXTENDS Credential

Key(type, size, id) == [type |-> type, size |-> size, id |-> id]
Extension(critical) == [critical |-> critical, keyIdentifier |-> TRUE]
Usage(signing, certifying) == [digitalSignature |-> signing, keyCertSign |-> certifying]

Leaf ==
  [subject |-> "leaf", issuer |-> "ca", signedBy |-> "k2", key |-> Key("Ed25519", 256, "k1"),
   signatureAlgorithm |-> "ed25519", pss |-> {}, version |-> "v3", tbs |-> <<"subject">>,
   authorityKey |-> {Extension(FALSE)}, subjectKey |-> {}, basicConstraints |-> {},
   keyUsage |-> {Usage(TRUE, FALSE)}, extendedKeyUsage |-> {{"documentSigning"}},
   unreadable |-> {}]

Ca ==
  [Leaf EXCEPT !.subject = "ca", !.issuer = "root", !.signedBy = "k3",
     !.key = Key("EC", 384, "k2"), !.subjectKey = {Extension(FALSE)},
     !.basicConstraints = {[ca |-> TRUE, critical |-> TRUE]},
     !.keyUsage = {Usage(FALSE, TRUE)}, !.extendedKeyUsage = {}]

Root ==
  [Ca EXCEPT !.subject = "root", !.signedBy = "k3", !.key = Key("RSA", 4096, "k3"),
     !.signatureAlgorithm = "rsassa-pss", !.authorityKey = {},
     !.pss = {<<[tag |-> "hashAlgorithm", oid |-> "sha256", hash |-> "-"],
                [tag |-> "maskGenAlgorithm", oid |-> "mgf1", hash |-> "sha256"]>>}]

SelfIssued == [Leaf EXCEPT !.issuer = "leaf", !.signedBy = "k1"]
(* One that a careless profile would accept in both places.                  *)
TwoRoles ==
  [SelfIssued EXCEPT !.basicConstraints = {[ca |-> TRUE, critical |-> TRUE]},
     !.subjectKey = {Extension(FALSE)}, !.keyUsage = {Usage(TRUE, TRUE)}]

Hash(oid) == [tag |-> "hashAlgorithm", oid |-> oid, hash |-> "-"]
Mask(oid, hash) == [tag |-> "maskGenAlgorithm", oid |-> oid, hash |-> hash]

(* Faults of structure, in any role.                                         *)
Misbuilt(c) ==
  {[c EXCEPT !.unreadable = {"extensions"}], [c EXCEPT !.signatureAlgorithm = "rsa-sha1"],
   [c EXCEPT !.key = Key("EC", 224, c.key.id)], [c EXCEPT !.key = Key("RSA", 2047, c.key.id)],
   [c EXCEPT !.version = "v1"], [c EXCEPT !.tbs = <<"subject", "issuerUniqueID">>],
   [c EXCEPT !.authorityKey = {}], [c EXCEPT !.authorityKey = {Extension(TRUE)}],
   [c EXCEPT !.authorityKey = {[critical |-> FALSE, keyIdentifier |-> FALSE]}]}
  \cup {[c EXCEPT !.signatureAlgorithm = "rsassa-pss", !.pss = p] :
          p \in {{}, {<<Hash("sha384")>>}, {<<Mask("mgf1", "sha256")>>},
                 {<<Mask("mgf1", "sha384"), Hash("sha384")>>},
                 {<<Hash("sha384"), Mask("mgf1", "sha256")>>},
                 {<<Hash("sha1"), Mask("mgf1", "sha1")>>},
                 {<<Hash("sha256"), Mask("mgf1", "sha256"), Hash("sha256")>>}}}

MisusedLeaf ==
  {[Leaf EXCEPT !.subjectKey = {Extension(TRUE)}],
   [Leaf EXCEPT !.basicConstraints = {[ca |-> TRUE, critical |-> TRUE]}],
   [Leaf EXCEPT !.keyUsage = {}], [Leaf EXCEPT !.keyUsage = {Usage(FALSE, FALSE)}],
   [Leaf EXCEPT !.keyUsage = {Usage(TRUE, TRUE)}],
   [Leaf EXCEPT !.extendedKeyUsage = {}], [Leaf EXCEPT !.extendedKeyUsage = {{}}],
   [Leaf EXCEPT !.extendedKeyUsage = {{"documentSigning", "timeStamping"}}],
   [Leaf EXCEPT !.extendedKeyUsage = {{"anyExtendedKeyUsage"}}],
   [Leaf EXCEPT !.unreadable = {"key"}], [Leaf EXCEPT !.key = Key("Ed25519", 256, "k9")]}

MisusedCa ==
  {[Ca EXCEPT !.basicConstraints = {}],
   [Ca EXCEPT !.basicConstraints = {[ca |-> FALSE, critical |-> TRUE]}],
   [Ca EXCEPT !.basicConstraints = {[ca |-> TRUE, critical |-> FALSE]}],
   [Ca EXCEPT !.subjectKey = {}], [Ca EXCEPT !.subjectKey = {Extension(TRUE)}],
   [Ca EXCEPT !.keyUsage = {}], [Ca EXCEPT !.keyUsage = {Usage(TRUE, FALSE)}],
   [Ca EXCEPT !.subject = "stranger"], [Ca EXCEPT !.unreadable = {"key"}]}

MCKeys == {"k1", "k2"}

MCChains ==
  {<<>>, <<Leaf>>, <<SelfIssued>>, <<Leaf, Ca>>, <<Leaf, Ca, Root>>, <<Leaf, Leaf>>, <<Ca, Root>>,
   <<SelfIssued, SelfIssued>>, <<TwoRoles, TwoRoles>>}
  \cup {<<c>> : c \in Misbuilt(Leaf) \cup MisusedLeaf}
  \cup {<<Leaf, c>> : c \in Misbuilt(Ca) \cup MisusedCa}
  \cup {<<Leaf, Ca, c>> : c \in {[Root EXCEPT !.key.size = 1024], [Root EXCEPT !.tbs = <<"subjectUniqueID">>]}}

FewChains == {<<Leaf>>, <<Leaf, Ca>>}

----------------------------------------------------------------------------
Alg(name) == [kind |-> "alg", name |-> name]
Crit(labels) == [kind |-> "labels", labels |-> labels]
Nothing == [kind |-> "other"]
NoChainList == ListOf(<<Leaf>>)

Header(alg, label, value) == [l \in {"alg", label} |-> IF l = "alg" THEN Alg(alg) ELSE value]
Only(label, value) == [l \in {label} |-> value]
With(bucket, label, value) ==
  [l \in DOMAIN bucket \cup {label} |-> IF l = label THEN value ELSE bucket[l]]
Empty == [l \in {} |-> Nothing]

Signed(by, alg, size, protected, unprotected) ==
  [form |-> "COSE_Sign1", protected |-> protected, unprotected |-> unprotected, payload |-> "nil",
   signature |-> [by |-> by, alg |-> alg, size |-> size,
                  over |-> [protected |-> protected, claim |-> "c1"]]]

EcLeaf(size) == [Leaf EXCEPT !.key = Key("EC", size, "k2")]
RsaLeaf == [Leaf EXCEPT !.key = Key("RSA", 2048, "k2")]

(* Other algorithms, chains under either label in either bucket, crit.        *)
MCForeign ==
  LET plain == Signed("k1", "EdDSA", 64, Header("EdDSA", "33", Bytes(Leaf)), Empty)
      other(b) == Signed("k1", "EdDSA", 64, b, Empty)
      alone == Only("alg", Alg("EdDSA"))
  IN  {[plain EXCEPT !.form = "other"], [plain EXCEPT !.payload = "bytes"],
       [plain EXCEPT !.signature.size = 63],
       Signed("k1", "EdDSA", 64, alone, Only("33", Bytes(Leaf))),
       Signed("k1", "EdDSA", 64, alone, Only("x5chain", ListOf(<<Leaf, Ca>>))),
       Signed("k1", "EdDSA", 64, alone, Empty),
       other(Header("EdDSA", "x5chain", Bytes(Leaf))), other(Header("EdDSA", "33", NoChainList)),
       other(Header("EdDSA", "33", Nothing)), other(Only("33", Bytes(Leaf))),
       other(Header("none", "33", Bytes(Leaf))),
       other(Header("none", "33", Bytes([Leaf EXCEPT !.unreadable = {"der"}]))),
       other(Header("EdDSA", "33", ListOf(<<[Leaf EXCEPT !.version = "v1"],
                                            [Ca EXCEPT !.unreadable = {"der"}]>>))),
       other(Header("EdDSA", "33", ListOf(<<TwoRoles, TwoRoles>>))),
       other(Header("EdDSA", "33", Bytes([Leaf EXCEPT !.key = Key("Ed448", 456, "k1")]))),
       Signed("k2", "ES256", 64, Header("ES256", "33", Bytes(EcLeaf(256))), Empty),
       Signed("k2", "ES512", 132, Header("ES512", "33", Bytes(EcLeaf(521))), Empty),
       Signed("k2", "ES512", 130, Header("ES512", "33", Bytes(EcLeaf(521))), Empty),
       Signed("k2", "PS384", 256, Header("PS384", "33", Bytes(RsaLeaf)), Empty),
       Signed("k2", "PS384", 256, Header("ES384", "33", Bytes(RsaLeaf)), Empty)}
      \cup {other(With(Header("EdDSA", "33", Bytes(Leaf)), "crit", v)) :
              v \in {Nothing, Crit({}), Crit({"33", "crit"}), Crit({"alg", "x5chain"})}}
      \cup {other(With(With(Header("EdDSA", "33", Bytes(Leaf)), "sigTst", Nothing), "crit", Crit({"sigTst"})))}

(* What others write into a bucket.                                          *)
MCEdits ==
  {Empty, Padding(1), Only("crit", Crit({"alg"})), Only("no label", Nothing)}
  \cup {Only(l, v) : l \in {"33", "x5chain"}, v \in {Bytes(SelfIssued), ListOf(<<Leaf, Ca>>), Nothing}}
  \cup {Header("EdDSA", "33", Bytes(SelfIssued)), Header("EdDSA", "33", ListOf(<<Leaf, Ca>>))}

MCClaims == {"c1", "c2"}
=============================================================================
