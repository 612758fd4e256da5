-------------------------------- MODULE Binding --------------------------------
(***************************************************************************)
(* The hard binding of a manifest to a text: the exclusion ranges of        *)
(* c2pa.hash.data, the bytes they leave, and the comparison of the digest   *)
(* (_hash_binding_bytes to _binding_status in src/c2patxt/_verify.py,       *)
(* normalize_nfc in _normalization.py).                                     *)
(*                                                                          *)
(* Texts are sequences of code points and their bytes are the real UTF-8    *)
(* bytes, so a range may cut a code point.  One U+FEFF stands for a whole   *)
(* wrapper: nothing here depends on what the wrapper's bytes are.  Digests  *)
(* do not collide: the digest of a text is the text and the algorithm.      *)
(***************************************************************************)
EXTENDS Selectors, SequencesExt

CONSTANTS
  MaxNonstarters,    \* MAX_NONSTARTERS: 30 in the code
  Algorithms         \* HASH_ALGORITHMS: the names the code can compute

ASSUME MaxNonstartersAssumption == MaxNonstarters \in Nat \ {0}

----------------------------------------------------------------------------
(* UTF-8.                                                                    *)

Encode(c) ==
  CASE Utf8Cost(c) = 1 -> <<c>>
    [] Utf8Cost(c) = 2 -> <<192 + (c \div 64), 128 + (c % 64)>>
    [] Utf8Cost(c) = 3 -> <<224 + (c \div 4096), 128 + ((c \div 64) % 64), 128 + (c % 64)>>
    [] OTHER -> <<240 + (c \div 262144), 128 + ((c \div 4096) % 64),
                  128 + ((c \div 64) % 64), 128 + (c % 64)>>

Encoded(text) == FlattenSeq([i \in DOMAIN text |-> Encode(text[i])])

(* The code point whose first byte is at k.                                  *)
CodePointAt(bytes, k) ==
  LET tail(j) == IF k + j <= Len(bytes) THEN bytes[k + j] % 64 ELSE 0
  IN  IF bytes[k] < 128 THEN bytes[k]
      ELSE IF bytes[k] < 224 THEN (bytes[k] % 32) * 64 + tail(1)
      ELSE IF bytes[k] < 240 THEN (bytes[k] % 16) * 4096 + 64 * tail(1) + tail(2)
      ELSE (bytes[k] % 8) * 262144 + 4096 * tail(1) + 64 * tail(2) + tail(3)

DecodedText(bytes) ==
  FlattenSeq([k \in DOMAIN bytes |->
                IF bytes[k] \in 128 .. 191 THEN <<>> ELSE <<CodePointAt(bytes, k)>>])

(* bytes.decode("utf-8"), {} when it raises: when nothing encodes to bytes.   *)
Decoded(bytes) == {t \in {DecodedText(bytes)} : Encoded(t) = bytes}

----------------------------------------------------------------------------
(* NFC on a letter, a combining acute accent (a nonstarter) and their        *)
(* composition; every other code point is a starter that composes with       *)
(* nothing.                                                                  *)

Letter == 97
Acute  == 769
Composed == 225

Decomposed(text) ==
  FlattenSeq([i \in DOMAIN text |->
                IF text[i] = Composed THEN <<Letter, Acute>> ELSE <<text[i]>>])

Nfc(text) ==
  LET d == Decomposed(text)
      composes(i) == i < Len(d) /\ d[i] = Letter /\ d[i + 1] = Acute
  IN  FlattenSeq([i \in DOMAIN d |->
        IF composes(i) THEN <<Composed>>
        ELSE IF i > 1 /\ composes(i - 1) THEN <<>> ELSE <<d[i]>>])

(* _check_nonstarters: TextNormalizationError.                               *)
TooManyNonstarters(text) ==
  LET d == Decomposed(text)
  IN  \E i \in DOMAIN d : /\ i + MaxNonstarters <= Len(d)
                          /\ \A j \in i .. i + MaxNonstarters : d[j] = Acute

----------------------------------------------------------------------------
(* _exclusion_ranges: what a c2pa.hash.data assertion may declare.  A range  *)
(* is <<start, length>>; {} stands for a list whose entries have no such     *)
(* shape.                                                                    *)

ExclusionRanges(hashData) ==
  {rs \in hashData.exclusions :
     /\ rs # <<>>
     /\ \A i \in 1 .. Len(rs) - 1 : rs[i][1] + rs[i][2] <= rs[i + 1][1]}

(* _hash_binding_bytes: remove every range.                                  *)
Remaining(bytes, ranges) ==
  LET cursor(i) == IF i = 1 THEN 0 ELSE ranges[i - 1][1] + ranges[i - 1][2]
      upTo(i)   == IF i > Len(ranges) THEN Len(bytes) ELSE ranges[i][1]
  IN  FlattenSeq([i \in 1 .. Len(ranges) + 1 |-> SubSeq(bytes, cursor(i) + 1, upTo(i))])

NormalizeThenRemove(text, ranges) ==                              \* defect
  UNION {Decoded(Remaining(Encoded(t), ranges)) : t \in {Nfc(text)}}

(* ... then decode, normalize and encode: the text that is hashed, {} when    *)
(* there is none to hash.                                                    *)
BoundText(text, ranges) ==
  LET decoded == UNION {Decoded(left) : left \in {Remaining(bytes, ranges) : bytes \in {Encoded(text)}}}
  IN  {Nfc(t) : t \in {t \in decoded : ~ TooManyNonstarters(t)}}

----------------------------------------------------------------------------
(* _resolve_algorithm: only absence inherits.                                *)
ResolveAlgorithm(named, inherited) ==
  IF named # {} THEN named \cap Algorithms ELSE inherited \cap Algorithms

Digest(algorithm, of) == [alg |-> algorithm, of |-> of]

(* _binding_parameters: the status that ends it, or "ok".                    *)
ParametersStatus(hashData, claimAlg) ==
  IF hashData = {} THEN "claim.hardBindings.missing"
  ELSE LET h == CHOOSE x \in hashData : TRUE
       IN  IF ResolveAlgorithm(h.alg, claimAlg) = {} THEN "algorithm.unsupported"
           ELSE IF h.hashForm = "absent" THEN "assertion.dataHash.mismatch"
           ELSE IF h.hashForm = "notBytes" THEN "assertion.dataHash.malformed"
           ELSE IF ExclusionRanges(h) = {} THEN "assertion.dataHash.malformed"
           ELSE "ok"

CompareDigest(text, h, claimAlg, ranges) ==
  IF BoundText(text, ranges) = {} THEN "assertion.dataHash.malformed"
  ELSE IF \E a \in ResolveAlgorithm(h.alg, claimAlg) :
            \E t \in BoundText(text, ranges) : h.hash = Digest(a, t)
       THEN "assertion.dataHash.match" ELSE "assertion.dataHash.mismatch"

(* _binding_status: the statuses, in order.  spans are the ranges of the     *)
(* wrappers that the scan located in the text.                               *)
BindingStatuses(text, hashData, claimAlg, spans) ==
  IF ParametersStatus(hashData, claimAlg) # "ok"
  THEN <<ParametersStatus(hashData, claimAlg)>>
  ELSE LET h == CHOOSE x \in hashData : TRUE
           ranges == CHOOSE rs \in ExclusionRanges(h) : TRUE
           located == spans \cap ToSet(ranges)
       IN  IF located = {} THEN <<"assertion.dataHash.malformed">>
           ELSE IF Cardinality(located) > 1 THEN <<"manifest.text.multipleWrappers">>
           ELSE IF \E r \in ToSet(ranges) : r[1] + r[2] > Len(Encoded(text))
           THEN <<"assertion.dataHash.mismatch">>
           ELSE (IF Len(ranges) > 1
                 THEN <<"assertion.dataHash.additionalExclusionsPresent">> ELSE <<>>)
                \o <<CompareDigest(text, h, claimAlg, ranges)>>
=============================================================================
