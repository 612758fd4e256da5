------------------------------ MODULE MCExtract ------------------------------
(***************************************************************************)
(* Extract on a well-formed store and on all that differ from it in one or    *)
(* two places.                                                              *)
(***************************************************************************)
EXTENDS Extract

Super(uuid, label, content) ==
  [uuid |-> uuid, label |-> {label}, requestable |-> TRUE, content |-> content]
Jumb(b) == [tbox |-> "jumb", payload |-> b]
Data(tbox, value) == [tbox |-> tbox, payload |-> value]

Claim == Super("c2cl", "c2pa.claim.v2", <<Data("cbor", "map")>>)
Signature == Super("c2cs", "c2pa.signature", <<Data("cbor", "bytes")>>)
Assertion(label, content) == Super("cbor", label, content)
HashData == Assertion("c2pa.hash.data", <<Data("cbor", "map")>>)
Metadata == Assertion("c2pa.metadata__1", <<Data("json", "object")>>)
Store(assertions) == Super("c2as", "c2pa.assertions", assertions)
Plain == Store(<<Jumb(HashData), Jumb(Metadata)>>)

(* Boxes that may stand among the parts, or in place of one.                   *)
Claims == {Claim, [Claim EXCEPT !.content = <<>>], [Claim EXCEPT !.content = <<Data("json", "object")>>],
           [Claim EXCEPT !.content = <<Data("cbor", "map"), Data("cbor", "map")>>],
           [Claim EXCEPT !.content = <<Data("cbor", "array")>>],
           [Claim EXCEPT !.content = <<Data("cbor", "bad")>>], [Claim EXCEPT !.uuid = "other"]}
Signatures == {Signature, [Signature EXCEPT !.content = <<Data("json", "object")>>],
               [Signature EXCEPT !.content = <<Data("cbor", "bytes"), Data("cbor", "bytes")>>]}
Odd == {Super("other", "c2pa.claim.v2", <<Data("cbor", "map")>>), Super("other", "new", <<>>),
        [Claim EXCEPT !.label = {}], [Claim EXCEPT !.requestable = FALSE], Malformed, Signature}

Assertions ==
  {Assertion("c2pa.hash.data", <<Data("cbor", "bad")>>),
   Assertion("c2pa.hash.data", <<Data("cbor", "array")>>), Assertion("new", <<Data("bfdb", "image")>>),
   Assertion("new", <<Data("cbor", "map"), Data("cbor", "array")>>), Metadata, Malformed,
   Assertion("c2pa.metadata", <<Data("json", "bad")>>), Assertion("c2pa.metadata", <<Data("json", "null")>>),
   Assertion("c2pa.metadata", <<Data("json", "object"), Data("cbor", "map")>>),
   Assertion("c2pa.repository-receipt", <<Data("cbor", "map")>>),
   [HashData EXCEPT !.label = {}], [HashData EXCEPT !.requestable = FALSE]}
Stores == {Plain, Store(<<>>), Store(<<Data("free", "-"), Jumb(HashData)>>)}
  \cup {Store(<<Jumb(HashData), Jumb(a)>>) : a \in Assertions}

Orders(boxes) ==
  LET base == [i \in DOMAIN boxes |-> Jumb(boxes[i])] IN {base, Reverse(base)}

Manifests2 ==
  UNION {Orders(<<c, s, a>>) : c \in Claims, s \in Signatures, a \in Stores}
  \cup UNION {Orders(<<Claim, Signature, Plain, x>>) : x \in Claims \cup Odd \cup Stores}
  \cup UNION {Orders(<<Claim, Signature>>), Orders(<<Claim, Plain>>), Orders(<<Signature, Plain>>),
              {<<Data("free", "-"), Jumb(Plain), Jumb(Claim), Jumb(Signature)>>}}

Manifest(content) == Super("c2ma", "urn:1", content)
Good == Manifest(<<Jumb(Claim), Jumb(Signature), Jumb(Plain)>>)
Others == {Super("c2cm", "urn:2", <<>>), Super("c2um", "urn:2", <<>>), Super("other", "urn:2", <<>>),
           [Good EXCEPT !.uuid = "c2md"], [Good EXCEPT !.label = {}], [Good EXCEPT !.requestable = FALSE],
           Manifest(<<Jumb(Signature)>>), Malformed}

Wrap(content) == [box |-> Super("c2pa", "c2pa", content), trailing |-> FALSE]
MCPayloads ==
  {Wrap(<<Jumb(Manifest(m))>>) : m \in Manifests2}
  \cup {Wrap(<<Jumb(Good), Jumb(o)>>) : o \in Others} \cup {Wrap(<<Jumb(o), Jumb(Good)>>) : o \in Others}
  \cup {Wrap(<<>>), Wrap(<<Data("free", "-"), Jumb(Good)>>), [box |-> Malformed, trailing |-> FALSE],
        [Wrap(<<Jumb(Good)>>) EXCEPT !.trailing = TRUE], [Wrap(<<Jumb(Good)>>) EXCEPT !.box.uuid = "other"],
        [Wrap(<<Jumb(Good)>>) EXCEPT !.box.label = {}], [Wrap(<<Jumb(Good)>>) EXCEPT !.box.requestable = FALSE]}
=============================================================================
