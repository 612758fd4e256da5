------------------------------ MODULE Selectors ------------------------------
(***************************************************************************)
(* The byte-to-variation-selector codec and the wrapper framing of         *)
(* src/c2patxt/_selectors.py, with the wire constants of constants.py.     *)
(*                                                                         *)
(* A text is a sequence of code points, a body a sequence of bytes; both   *)
(* carry the real code point and byte values.  Only MAX_MANIFEST_LENGTH is *)
(* a parameter (2^21 in the code), so that TLC can reach the limit.        *)
(*                                                                         *)
(* Here and in the other modules a definition marked "defect" is a wrong   *)
(* variant of the definition after it, a bug the code could plausibly have *)
(* had; no specification uses it.                                          *)
(***************************************************************************)
EXTENDS Integers, Sequences, FiniteSets

CONSTANT MaxManifestLength

LengthRange == {n \in Nat : n <= 2147483647}    \* half of a uint32: as far as TLC counts

ASSUME MaxManifestLengthAssumption == MaxManifestLength \in LengthRange

----------------------------------------------------------------------------
(* The wire constants (constants.py).                                       *)

MAGIC   == <<67, 50, 80, 65, 84, 88, 84, 0>>      \* b"C2PATXT\x00"
VERSION == 1
HEADER_SIZE == 13                                 \* magic, version, length
MARKER  == 65279                                  \* U+FEFF
VS_LOW_BASE  == 65024                             \* U+FE00 .. U+FE0F
VS_HIGH_BASE == 917760                            \* U+E0100 .. U+E01EF
LOW_SPAN == 16
RunBoundWithoutHeader == MaxManifestLength                        \* defect
MAX_SELECTOR_RUN == MaxManifestLength + HEADER_SIZE

Byte == 0 .. 255
CodePoint == {c \in Nat : c <= 1114111}
Selectors ==
  (VS_LOW_BASE .. VS_LOW_BASE + 15) \cup (VS_HIGH_BASE .. VS_HIGH_BASE + 239)

----------------------------------------------------------------------------
(* The codec.  selector_to_byte answers None outside the two blocks: the   *)
(* operator below is only applied to Selectors.                            *)

ByteToSelector(b) ==
  IF b < LOW_SPAN THEN VS_LOW_BASE + b ELSE VS_HIGH_BASE + b - LOW_SPAN

SelectorToByte(c) ==
  IF c <= VS_LOW_BASE + 15 THEN c - VS_LOW_BASE ELSE c - VS_HIGH_BASE + LOW_SPAN

BytesToSelectors(body) == [k \in 1 .. Len(body) |-> ByteToSelector(body[k])]

(* manifestLength, a big-endian uint32.                                    *)
LengthField(n) ==
  <<n \div 16777216, (n \div 65536) % 256, (n \div 256) % 256, n % 256>>

DeclaredLength(body) ==
  16777216 * body[10] + 65536 * body[11] + 256 * body[12] + body[13]

WrapperBody(payload) ==
  MAGIC \o <<VERSION>> \o LengthField(Len(payload)) \o payload

(* build_wrapper refuses a payload that the reader would refuse.            *)
CanWrap(payload) == Len(payload) <= MaxManifestLength

BuildWrapper(payload) == <<MARKER>> \o BytesToSelectors(WrapperBody(payload))

----------------------------------------------------------------------------
(* UTF-8: the bytes of a sequence, byte j of element i being <<i, j>>.  The  *)
(* code measures a text by encoding it, and the part of a body before the   *)
(* point where it went bad from the decoded bytes.                           *)

Utf8Cost(c) ==
  IF c < 128 THEN 1 ELSE IF c < 2048 THEN 2 ELSE IF c < 65536 THEN 3 ELSE 4

Utf8Bytes(text) == {p \in (1 .. Len(text)) \X (1 .. 4) : p[2] <= Utf8Cost(text[p[1]])}

Utf8Length(text) == Cardinality(Utf8Bytes(text))

SelectorCost(b) == IF b < LOW_SPAN THEN 3 ELSE 4

DocumentOffsetCountsBytes(body, index, offset) == offset + index  \* defect

DocumentOffset(body, index, offset) ==
  offset + Cardinality({p \in (1 .. index) \X (1 .. 4) : p[2] <= SelectorCost(body[p[1]])})

----------------------------------------------------------------------------
(* parse_wrapper_body: the four ways in which a body whose magic matched is *)
(* corrupt, in the order of the code's checks; offset is the document byte  *)
(* at which the body starts.                                                *)

HasMagic(body) == Len(body) >= Len(MAGIC) /\ SubSeq(body, 1, Len(MAGIC)) = MAGIC

HeaderTruncated(body) == Len(body) < HEADER_SIZE
VersionUnsupported(body) == body[Len(MAGIC) + 1] # VERSION
LengthOverLimit(body) == DeclaredLength(body) > MaxManifestLength
LengthOverrunsRun(body) == DeclaredLength(body) > Len(body) - HEADER_SIZE

BodyIntact(body) ==
  /\ ~ HeaderTruncated(body)
  /\ ~ VersionUnsupported(body)
  /\ ~ LengthOverLimit(body)
  /\ ~ LengthOverrunsRun(body)

CorruptionOffset(body, offset) ==
  IF HeaderTruncated(body) THEN offset
  ELSE IF VersionUnsupported(body) THEN DocumentOffset(body, Len(MAGIC), offset)
  ELSE IF LengthOverLimit(body) THEN DocumentOffset(body, Len(MAGIC) + 1, offset)
  ELSE DocumentOffset(body, Len(body), offset)

WrapperPayload(body) == SubSeq(body, HEADER_SIZE + 1, HEADER_SIZE + DeclaredLength(body))
=============================================================================
