--------------------------- MODULE LifecycleProofs ---------------------------
(***************************************************************************)
(* The four properties of Lifecycle, for every text, every manifest and any  *)
(* number of calls and edits.                                                *)
(***************************************************************************)
EXTENDS Lifecycle, TextLemmas

----------------------------------------------------------------------------
(* The marks of a text.                                                      *)

(* The code points that every wrapper, whole or damaged, starts with.        *)
MarkAt(t, i) ==
  /\ i + 9 <= Len(t) /\ t[i + 1] = MARKER
  /\ \A k \in 1 .. 8 : t[i + 1 + k] = ByteToSelector(MAGIC[k])

Marks(t) == {i \in 0 .. Len(t) - 1 : MarkAt(t, i)}

LEMMA MagicType == MAGIC \in Seq(Byte) /\ Len(MAGIC) = 8 /\ \A k \in 1 .. 8 : MAGIC[k] \in Byte
<1>1. MAGIC \in Seq(Byte) /\ Len(MAGIC) = 8
  BY DEF MAGIC, Byte
<1>2. QED
  BY <1>1

LEMMA MarkedSlice ==
  ASSUME NEW t \in Seq(CodePoint), NEW i \in Nat, i + 9 <= Len(t)
  PROVE  SubSeq(t, i + 2, i + 9) = BytesToSelectors(MAGIC)
           <=> \A k \in 1 .. 8 : t[i + 1 + k] = ByteToSelector(MAGIC[k])
<1>. DEFINE x == SubSeq(t, i + 2, i + 9)
            y == BytesToSelectors(MAGIC)
<1>1. x \in Seq(CodePoint) /\ Len(x) = 8 /\ \A k \in 1 .. 8 : x[k] = t[i + 1 + k]
  <2>1. PICK a \in Nat : a = i + 1
    OBVIOUS
  <2>2. a + 8 <= Len(t) /\ a + 1 = i + 2 /\ a + 8 = i + 9
    BY <2>1
  <2>3. SubSeq(t, a + 1, a + 8) \in Seq(CodePoint) /\ Len(SubSeq(t, a + 1, a + 8)) = 8
          /\ \A k \in 1 .. 8 : SubSeq(t, a + 1, a + 8)[k] = t[a + k]
    BY <2>2, SliceElements
  <2>4. QED
    BY <2>1, <2>2, <2>3, Zenon
<1>2. y \in Seq(CodePoint) /\ Len(y) = 8 /\ \A k \in 1 .. 8 : y[k] = ByteToSelector(MAGIC[k])
  <2>1. y = [k \in 1 .. 8 |-> ByteToSelector(MAGIC[k])]
    BY MagicType, Zenon DEF BytesToSelectors
  <2>2. \A k \in 1 .. 8 : ByteToSelector(MAGIC[k]) \in CodePoint
    BY MagicType, CodecRoundTrip, Zenon
  <2>. HIDE DEF y
  <2>3. QED
    BY <2>1, <2>2
<1>. HIDE DEF x, y
<1>3. x = y <=> \A k \in 1 .. 8 : x[k] = y[k]
  <2>1. Len(x) = Len(y)
    BY <1>1, <1>2, Zenon
  <2>2. x = y <=> \A k \in 1 .. Len(x) : x[k] = y[k]
    BY <1>1, <1>2, <2>1, SeqEqualByElements, Zenon
  <2>3. QED
    BY <1>1, <2>2, Zenon
<1>4. QED
  BY <1>1, <1>2, <1>3, Zenon DEF x, y

(* A wrapper, code point by code point.                                      *)
LEMMA WrapperReads ==
  ASSUME NEW t \in Seq(CodePoint), NEW i \in Nat, NEW n \in 0 .. MaxManifestLength,
         WrapperAt(t, i, n)
  PROVE  /\ n \in Nat /\ n \in LengthRange /\ i + 14 + n <= Len(t) /\ t[i + 1] = MARKER
         /\ \A j \in 2 .. 14 + n : t[i + j] \in Selectors
         /\ \A k \in 1 .. 8 : t[i + 1 + k] = ByteToSelector(MAGIC[k])
         /\ \A k \in 1 .. 4 : /\ LengthField(n)[k] \in Byte
                              /\ t[i + 10 + k] = ByteToSelector(LengthField(n)[k])
         /\ \E payload \in Seq(Byte) :
              /\ Len(payload) = n /\ SubSeq(t, i + 1, i + (14 + n)) = BuildWrapper(payload)
              /\ payload = [k \in 1 .. n |-> SelectorToByte(t[i + (14 + k)])]
<1>1. n \in Nat /\ n \in LengthRange
  BY MaxManifestLengthAssumption, SMTT(30) DEF LengthRange
<1>2. i + 14 + n <= Len(t)
  <2>1. i + 1 + HEADER_SIZE + n <= Len(t)
    BY Zenon DEF WrapperAt
  <2>2. QED
    BY <1>1, <2>1 DEF HEADER_SIZE
<1>. DEFINE payload == [k \in 1 .. n |-> SelectorToByte(t[i + (14 + k)])]
            w == BuildWrapper(payload)
            body == WrapperBody(payload)
<1>3. /\ t[i + 1] = MARKER /\ \A j \in 2 .. 14 + n : t[i + j] \in Selectors
      /\ SubSeq(t, i + 1, i + (14 + n)) = w
  BY <1>1, <1>2, WrapperElementwise, Zenon
<1>4. payload \in Seq(Byte) /\ Len(payload) = n
  <2>1. \A k \in 1 .. n : 14 + k \in 2 .. 14 + n
    BY <1>1
  <2>2. \A k \in 1 .. n : SelectorToByte(t[i + (14 + k)]) \in Byte
    BY <1>3, <2>1, CodecRoundTrip, Zenon
  <2>3. QED
    BY <1>1, <2>2
<1>5. \A j \in 1 .. 14 + n : w[j] = t[i + j]
  <2>1. PICK l \in Nat : l = 14 + n
    BY <1>1
  <2>2. i + l <= Len(t)
    BY <1>1, <1>2, <2>1
  <2>3. \A j \in 1 .. l : SubSeq(t, i + 1, i + l)[j] = t[i + j]
    BY <2>2, SliceElements
  <2>4. QED
    BY <1>3, <2>1, <2>3, Zenon
<1>. HIDE DEF payload
<1>6. /\ \A k \in 1 .. Len(body) : w[1 + k] = ByteToSelector(body[k])
  BY <1>1, <1>4, WrapperElements
<1>7. /\ Len(body) = 13 + n
      /\ \A k \in 1 .. 8 : body[k] = MAGIC[k]
      /\ \A k \in 1 .. 4 : body[9 + k] = LengthField(n)[k]
  BY <1>1, <1>4, BodyElements
<1>. HIDE DEF w, body
<1>8. ASSUME NEW k \in 1 .. 8 PROVE t[i + 1 + k] = ByteToSelector(MAGIC[k])
  <2>1. k \in 1 .. Len(body) /\ 1 + k \in 1 .. 14 + n /\ i + (1 + k) = i + 1 + k
    BY <1>1, <1>7
  <2>2. w[1 + k] = t[i + (1 + k)] /\ w[1 + k] = ByteToSelector(body[k]) /\ body[k] = MAGIC[k]
    BY <1>5, <1>6, <1>7, <2>1, Zenon
  <2>3. QED
    BY <2>1, <2>2, Zenon
<1>9. ASSUME NEW k \in 1 .. 4
      PROVE  LengthField(n)[k] \in Byte /\ t[i + 10 + k] = ByteToSelector(LengthField(n)[k])
  <2>1. 9 + k \in 1 .. Len(body) /\ 1 + (9 + k) \in 1 .. 14 + n /\ i + (1 + (9 + k)) = i + 10 + k
    BY <1>1, <1>7
  <2>2. w[1 + (9 + k)] = t[i + (1 + (9 + k))] /\ w[1 + (9 + k)] = ByteToSelector(body[9 + k])
          /\ body[9 + k] = LengthField(n)[k]
    BY <1>5, <1>6, <1>7, <2>1, Zenon
  <2>3. LengthField(n)[k] \in Byte
    <3>. DEFINE field == LengthField(n)
    <3>1. field \in Seq(Byte) /\ Len(field) = 4
      BY <1>1, LengthFieldRoundTrip
    <3>2. \A s \in Seq(Byte) : \A j \in 1 .. Len(s) : s[j] \in Byte
      OBVIOUS
    <3>. HIDE DEF field
    <3>4. field[k] \in Byte
      BY <3>1, <3>2, Zenon
    <3>3. QED
      BY <3>4 DEF field
  <2>4. QED
    BY <2>1, <2>2, <2>3, Zenon
<1>10. QED
  BY <1>1, <1>2, <1>3, <1>4, <1>8, <1>9 DEF w, payload

(* Two wrappers do not start at one place.                                   *)
LEMMA OneWrapperAtPlace ==
  ASSUME NEW t \in Seq(CodePoint), NEW i \in Nat, NEW n \in 0 .. MaxManifestLength,
         NEW m \in 0 .. MaxManifestLength, WrapperAt(t, i, n), WrapperAt(t, i, m)
  PROVE  n = m
<1>1. /\ n \in LengthRange /\ m \in LengthRange
      /\ \A k \in 1 .. 4 : /\ LengthField(n)[k] \in Byte
                           /\ t[i + 10 + k] = ByteToSelector(LengthField(n)[k])
      /\ \A k \in 1 .. 4 : /\ LengthField(m)[k] \in Byte
                           /\ t[i + 10 + k] = ByteToSelector(LengthField(m)[k])
  BY WrapperReads
<1>2. \A k \in 1 .. 4 : LengthField(n)[k] = LengthField(m)[k]
  <2>. TAKE k \in 1 .. 4
  <2>1. PICK a \in Byte, b \in Byte : a = LengthField(n)[k] /\ b = LengthField(m)[k]
    BY <1>1, Zenon
  <2>2. ByteToSelector(a) = ByteToSelector(b)
    BY <1>1, <2>1, Zenon
  <2>3. a = b
    BY <2>2, CodecRoundTrip, Zenon
  <2>4. QED
    BY <2>1, <2>3, Zenon
<1>. DEFINE body == [j \in 1 .. 13 |-> LengthField(n)[j - 9]]
<1>3. \A k \in 1 .. 4 : body[9 + k] = LengthField(n)[k]
  <2>1. \A k \in 1 .. 4 : 9 + k \in 1 .. 13 /\ 9 + k - 9 = k
    OBVIOUS
  <2>2. QED
    BY <2>1
<1>. HIDE DEF body
<1>4. \A k \in 1 .. 4 : body[9 + k] = LengthField(m)[k]
  BY <1>2, <1>3, Zenon
<1>5. DeclaredLength(body) = n /\ DeclaredLength(body) = m
  BY <1>1, <1>3, <1>4, LengthFieldRoundTrip, Zenon
<1>6. QED
  BY <1>5

(* A text's marks are its wrappers and its damaged wrappers.                 *)
LEMMA MarksAre ==
  ASSUME NEW t \in Seq(CodePoint)
  PROVE  /\ \A w \in Wrappers(t) : w[1] \in Marks(t)
         /\ CorruptCandidates(t) \subseteq Marks(t)
         /\ \A i \in Marks(t) : i \in CorruptCandidates(t) \/ \E w \in Wrappers(t) : w[1] = i
<1>1. ASSUME NEW w \in Wrappers(t) PROVE w[1] \in Marks(t)
  <2>1. w[1] \in 0 .. Len(t) - 1 /\ w[2] \in 0 .. MaxManifestLength /\ WrapperAt(t, w[1], w[2])
    BY Zenon DEF Wrappers
  <2>2. PICK i \in Nat : i = w[1]
    BY <2>1
  <2>3. PICK n \in 0 .. MaxManifestLength : n = w[2]
    BY <2>1
  <2>4. n \in Nat /\ i + 14 + n <= Len(t) /\ t[i + 1] = MARKER
          /\ \A k \in 1 .. 8 : t[i + 1 + k] = ByteToSelector(MAGIC[k])
    <3>1. WrapperAt(t, i, n)
      BY <2>1, <2>2, <2>3
    <3>2. QED
      BY <3>1, WrapperReads
  <2>5. i + 9 <= Len(t)
    <3>1. Len(t) \in Nat
      OBVIOUS
    <3>2. QED
      BY <2>4, <3>1
  <2>6. QED
    BY <2>1, <2>2, <2>4, <2>5, Zenon DEF Marks, MarkAt
<1>2. ASSUME NEW i \in CorruptCandidates(t) PROVE i \in Marks(t)
  <2>1. /\ i \in 0 .. Len(t) - 1 /\ t[i + 1] = MARKER /\ i + 9 <= Len(t)
        /\ SubSeq(t, i + 2, i + 9) = BytesToSelectors(MAGIC)
    BY Zenon DEF CorruptCandidates, MarkersFrom
  <2>2. i \in Nat
    BY <2>1
  <2>3. QED
    BY <2>1, <2>2, MarkedSlice, Zenon DEF Marks, MarkAt
<1>3. ASSUME NEW i \in Marks(t), ~ \E w \in Wrappers(t) : w[1] = i PROVE i \in CorruptCandidates(t)
  <2>1. /\ i \in 0 .. Len(t) - 1 /\ t[i + 1] = MARKER /\ i + 9 <= Len(t)
        /\ \A k \in 1 .. 8 : t[i + 1 + k] = ByteToSelector(MAGIC[k])
    BY Zenon DEF Marks, MarkAt
  <2>2. i \in Nat
    BY <2>1
  <2>3. SubSeq(t, i + 2, i + 9) = BytesToSelectors(MAGIC)
    BY <2>1, <2>2, MarkedSlice, Zenon
  <2>4. ASSUME NEW n \in 0 .. MaxManifestLength PROVE ~ WrapperAt(t, i, n)
    <3>1. <<i, n>>[1] = i /\ <<i, n>>[2] = n
      OBVIOUS
    <3>2. <<i, n>> \in (0 .. Len(t) - 1) \X (0 .. MaxManifestLength)
      BY <2>1
    <3>3. QED
      BY <1>3, <3>1, <3>2, Zenon DEF Wrappers
  <2>5. QED
    BY <2>1, <2>3, <2>4, Zenon DEF CorruptCandidates, MarkersFrom
<1>4. QED
  BY <1>1, <1>2, <1>3

----------------------------------------------------------------------------
(* A mark that is put into a text.                                           *)

(* A built wrapper, one code point at a time.                                *)
LEMMA BuiltReads ==
  ASSUME NEW payload \in Seq(Byte), Len(payload) <= MaxManifestLength
  PROVE  LET W == BuildWrapper(payload)
         IN  /\ Len(payload) \in Nat /\ Len(payload) \in 0 .. MaxManifestLength
             /\ W \in Seq(CodePoint) /\ Len(W) = 14 + Len(payload) /\ W[1] = MARKER
             /\ \A j \in 2 .. 14 + Len(payload) : W[j] \in Selectors /\ W[j] # MARKER
             /\ \A k \in 1 .. 8 : W[1 + k] = ByteToSelector(MAGIC[k])
             /\ [k \in 1 .. Len(payload) |-> SelectorToByte(W[14 + k])] = payload
<1>. DEFINE W == BuildWrapper(payload)
            body == WrapperBody(payload)
            n == Len(payload)
<1>1. n \in Nat /\ n \in LengthRange /\ n \in 0 .. MaxManifestLength
  BY MaxManifestLengthAssumption, SMTT(30) DEF LengthRange
<1>2. /\ W \in Seq(CodePoint) /\ Len(W) = 14 + n /\ W[1] = MARKER
      /\ \A k \in 1 .. Len(body) : W[1 + k] = ByteToSelector(body[k])
  BY <1>1, WrapperElements
<1>3. /\ body \in Seq(Byte) /\ Len(body) = 13 + n
      /\ \A k \in 1 .. 8 : body[k] = MAGIC[k]
      /\ \A k \in 1 .. n : body[13 + k] = payload[k]
  BY <1>1, BodyElements
<1>4. \A k \in 1 .. Len(body) : body[k] \in Byte
  <2>1. \A s \in Seq(Byte) : \A k \in 1 .. Len(s) : s[k] \in Byte
    OBVIOUS
  <2>2. QED
    BY <1>3, <2>1, Zenon
<1>5. \A k \in 1 .. n : payload[k] \in Byte
  OBVIOUS
<1>. HIDE DEF W, body
<1>6. ASSUME NEW j \in 2 .. 14 + n PROVE W[j] \in Selectors /\ W[j] # MARKER
  <2>1. PICK k \in 1 .. Len(body) : j = 1 + k
    <3>1. j - 1 \in 1 .. Len(body) /\ j = 1 + (j - 1)
      BY <1>1, <1>3
    <3>2. QED
      BY <3>1, Zenon
  <2>2. W[j] = ByteToSelector(body[k]) /\ body[k] \in Byte
    BY <1>2, <1>4, <2>1, Zenon
  <2>3. QED
    BY <2>2, CodecRoundTrip, Zenon
<1>7. ASSUME NEW k \in 1 .. 8 PROVE W[1 + k] = ByteToSelector(MAGIC[k])
  <2>1. k \in 1 .. Len(body)
    BY <1>1, <1>3
  <2>2. QED
    BY <1>2, <1>3, <2>1, Zenon
<1>8. [k \in 1 .. n |-> SelectorToByte(W[14 + k])] = payload
  <2>1. ASSUME NEW k \in 1 .. n PROVE SelectorToByte(W[14 + k]) = payload[k]
    <3>1. 13 + k \in 1 .. Len(body) /\ 1 + (13 + k) = 14 + k
      BY <1>1, <1>3
    <3>2. W[14 + k] = ByteToSelector(payload[k])
      BY <1>2, <1>3, <3>1, Zenon
    <3>3. QED
      BY <1>5, <3>2, CodecRoundTrip, Zenon
  <2>2. payload = [k \in 1 .. n |-> payload[k]]
    OBVIOUS
  <2>3. QED
    BY <2>1, <2>2, Zenon
<1>9. QED
  BY <1>1, <1>2, <1>6, <1>7, <1>8, Zenon DEF W

(* A mark that is put into a text is the only one, unless the text had one.  *)
LEMMA MarksAround ==
  ASSUME NEW before \in Seq(CodePoint), NEW after \in Seq(CodePoint),
         NEW payload \in Seq(Byte), Len(payload) <= MaxManifestLength,
         NEW i \in Marks(before \o BuildWrapper(payload) \o after), i # Len(before)
  PROVE  Marks(before \o after) # {}
<1>. DEFINE W == BuildWrapper(payload)
            t == before \o W \o after
            rest == before \o after
<1>1. PICK n \in Nat : n = Len(payload)
  OBVIOUS
<1>2. /\ W \in Seq(CodePoint) /\ Len(W) = 14 + n /\ W[1] = MARKER
      /\ \A j \in 2 .. 14 + n : W[j] # MARKER
  BY <1>1, BuiltReads
<1>11. i \in Marks(t)
  BY Zenon
<1>. HIDE DEF W
<1>14. t = before \o W \o after /\ rest = before \o after
  BY Zenon
<1>. HIDE DEF t, rest
<1>3. PICK b \in Nat, m \in Nat, a \in Nat : b = Len(before) /\ m = Len(W) /\ a = Len(after)
  <2>1. Len(before) \in Nat /\ Len(after) \in Nat
    OBVIOUS
  <2>2. Len(W) \in Nat
    BY <1>2
  <2>3. QED
    BY <2>1, <2>2, Zenon
<1>4. /\ Len(t) = b + m + a /\ Len(rest) = b + a
      /\ \A k \in 1 .. b : t[k] = before[k] /\ rest[k] = before[k]
      /\ \A k \in 1 .. m : t[b + k] = W[k]
      /\ \A k \in 1 .. a : t[b + m + k] = after[k] /\ rest[b + k] = after[k]
  <2>1. /\ Len(t) = Len(before) + Len(W) + Len(after) /\ Len(rest) = Len(before) + Len(after)
        /\ \A k \in 1 .. Len(before) : t[k] = before[k] /\ rest[k] = before[k]
        /\ \A k \in 1 .. Len(W) : t[Len(before) + k] = W[k]
        /\ \A k \in 1 .. Len(after) : /\ t[Len(before) + Len(W) + k] = after[k]
                                     /\ rest[Len(before) + k] = after[k]
    <3>1. W \in Seq(CodePoint)
      BY <1>2
    <3>2. QED
      BY <1>14, <3>1, ThreeParts, SMTT(40)
  <2>2. QED
    BY <1>3, <2>1, Zenon
<1>5. /\ i \in Nat /\ i + 9 <= Len(t) /\ t[i + 1] = MARKER
      /\ \A k \in 1 .. 8 : t[i + 1 + k] = ByteToSelector(MAGIC[k])
  <2>1. i \in 0 .. Len(t) - 1 /\ MarkAt(t, i)
    BY <1>11, Zenon DEF Marks
  <2>2. i \in Nat
    BY <2>1
  <2>3. QED
    BY <2>1, <2>2, Zenon DEF MarkAt
<1>6. \A k \in 1 .. 8 : ByteToSelector(MAGIC[k]) # MARKER
  BY MagicType, CodecRoundTrip, Zenon
<1>7. i < b \/ i >= b + m
  <2>. SUFFICES ASSUME ~ i < b, ~ i >= b + m PROVE FALSE
    OBVIOUS
  <2>1. PICK j \in Nat : i + 1 = b + j /\ j \in 2 .. m
    <3>3. i # b
      BY <1>3
    <3>1. i + 1 - b \in 2 .. m /\ i + 1 = b + (i + 1 - b) /\ i + 1 - b \in Nat
      BY <1>5, <3>3
    <3>2. QED
      BY <3>1
  <2>2. j \in 1 .. m /\ j \in 2 .. 14 + n
    BY <1>2, <1>3, <2>1
  <2>3. t[i + 1] = W[j]
    BY <1>4, <2>1, <2>2
  <2>4. QED
    BY <1>2, <1>5, <2>2, <2>3, Zenon
<1>8. CASE i < b
  <2>1. i + 9 <= b
    <3>. SUFFICES ASSUME ~ i + 9 <= b PROVE FALSE
      OBVIOUS
    <3>1. PICK k \in 1 .. 8 : i + 1 + k = b + 1
      <4>1. b - i \in 1 .. 8 /\ i + 1 + (b - i) = b + 1
        BY <1>5, <1>8
      <4>2. QED
        BY <4>1
    <3>2. 1 \in 1 .. m
      BY <1>2, <1>3
    <3>3. t[b + 1] = MARKER
      BY <1>2, <1>4, <3>2, Zenon
    <3>4. t[b + 1] = ByteToSelector(MAGIC[k])
      BY <1>5, <3>1, Zenon
    <3>5. QED
      BY <1>6, <3>3, <3>4, Zenon
  <2>2. /\ i + 1 \in 1 .. b /\ \A k \in 1 .. 8 : i + 1 + k \in 1 .. b
        /\ i \in 0 .. Len(rest) - 1 /\ i + 9 <= Len(rest)
    BY <1>4, <1>5, <2>1
  <2>3. rest[i + 1] = MARKER /\ \A k \in 1 .. 8 : rest[i + 1 + k] = ByteToSelector(MAGIC[k])
    BY <1>4, <1>5, <2>2, Zenon
  <2>4. i \in Marks(rest)
    BY <2>2, <2>3, Zenon DEF Marks, MarkAt
  <2>5. QED
    BY <2>4, Zenon DEF rest
<1>9. CASE i >= b + m
  <2>1. PICK l \in Nat : i = m + l
    <3>1. i - m \in Nat /\ i = m + (i - m)
      BY <1>3, <1>5, <1>9
    <3>2. QED
      BY <3>1
  <2>2. PICK d \in Nat : l = b + d
    <3>1. l - b \in Nat /\ l = b + (l - b)
      BY <1>9, <2>1
    <3>2. QED
      BY <3>1
  <2>3. /\ d + 1 \in 1 .. a /\ \A k \in 1 .. 8 : d + (1 + k) \in 1 .. a
        /\ l \in 0 .. Len(rest) - 1 /\ l + 9 <= Len(rest)
        /\ i + 1 = b + m + (d + 1) /\ \A k \in 1 .. 8 : i + 1 + k = b + m + (d + (1 + k))
        /\ l + 1 = b + (d + 1) /\ \A k \in 1 .. 8 : l + 1 + k = b + (d + (1 + k))
    <3>1. i = m + b + d /\ l = b + d /\ b + d + m + 9 <= b + m + a
      BY <1>3, <1>4, <1>5, <2>1, <2>2
    <3>2. d + 9 <= a
      BY <3>1
    <3>3. /\ d + 1 \in 1 .. a /\ \A k \in 1 .. 8 : d + (1 + k) \in 1 .. a
          /\ l \in 0 .. b + a - 1 /\ l + 9 <= b + a
      BY <3>1, <3>2
    <3>4. /\ i + 1 = b + m + (d + 1) /\ \A k \in 1 .. 8 : i + 1 + k = b + m + (d + (1 + k))
          /\ l + 1 = b + (d + 1) /\ \A k \in 1 .. 8 : l + 1 + k = b + (d + (1 + k))
      BY <3>1
    <3>5. QED
      BY <1>4, <3>3, <3>4
  <2>4. rest[l + 1] = MARKER
    <3>1. d + 1 \in 1 .. a /\ i + 1 = b + m + (d + 1) /\ l + 1 = b + (d + 1)
      BY <2>3, Zenon
    <3>2. t[b + m + (d + 1)] = after[d + 1] /\ rest[b + (d + 1)] = after[d + 1]
      BY <1>4, <3>1
    <3>4. t[i + 1] = after[d + 1] /\ rest[l + 1] = after[d + 1]
      BY <3>1, <3>2, Zenon
    <3>3. QED
      BY <1>5, <3>4, Zenon
  <2>5. \A k \in 1 .. 8 : rest[l + 1 + k] = ByteToSelector(MAGIC[k])
    <3>. TAKE k \in 1 .. 8
    <3>1. d + (1 + k) \in 1 .. a /\ i + 1 + k = b + m + (d + (1 + k)) /\ l + 1 + k = b + (d + (1 + k))
      BY <2>3, Zenon
    <3>2. t[i + 1 + k] = after[d + (1 + k)] /\ rest[l + 1 + k] = after[d + (1 + k)]
      BY <1>4, <3>1, Zenon
    <3>3. QED
      BY <1>5, <3>2, Zenon
  <2>6. l \in Marks(rest)
    BY <2>3, <2>4, <2>5, Zenon DEF Marks, MarkAt
  <2>7. QED
    BY <2>6, Zenon DEF rest
<1>10. QED
  BY <1>7, <1>8, <1>9

(* A built wrapper is a wrapper wherever it stands.                          *)
LEMMA BuiltIsWrapper ==
  ASSUME NEW before \in Seq(CodePoint), NEW after \in Seq(CodePoint),
         NEW payload \in Seq(Byte), Len(payload) <= MaxManifestLength
  PROVE  WrapperAt(before \o BuildWrapper(payload) \o after, Len(before), Len(payload))
<1>. DEFINE W == BuildWrapper(payload)
            t == before \o W \o after
<1>1. PICK n \in Nat : n = Len(payload)
  OBVIOUS
<1>2. /\ W \in Seq(CodePoint) /\ Len(W) = 14 + n /\ W[1] = MARKER
      /\ \A j \in 2 .. 14 + n : W[j] \in Selectors
  BY <1>1, BuiltReads
<1>12. [k \in 1 .. n |-> SelectorToByte(W[14 + k])] = payload
  BY <1>1, BuiltReads
<1>13. W \in Seq(CodePoint)
  BY <1>2
<1>. HIDE DEF W
<1>14. t = before \o W \o after
  BY Zenon
<1>. HIDE DEF t
<1>3. PICK b \in Nat, m \in Nat, a \in Nat : b = Len(before) /\ m = Len(W) /\ a = Len(after)
  <2>1. Len(before) \in Nat /\ Len(after) \in Nat
    OBVIOUS
  <2>2. Len(W) \in Nat
    BY <1>2
  <2>3. QED
    BY <2>1, <2>2, Zenon
<1>4. t \in Seq(CodePoint) /\ Len(t) = b + m + a /\ \A k \in 1 .. m : t[b + k] = W[k]
  <2>1. /\ t \in Seq(CodePoint) /\ Len(t) = Len(before) + Len(W) + Len(after)
        /\ \A k \in 1 .. Len(W) : t[Len(before) + k] = W[k]
    BY <1>13, <1>14, ThreeParts, SMTT(40)
  <2>2. QED
    BY <1>3, <2>1, Zenon
<1>5. /\ b + 14 + n <= Len(t) /\ b + m <= Len(t) /\ m = 14 + n /\ 1 \in 1 .. m
      /\ \A j \in 2 .. 14 + n : j \in 1 .. m
      /\ \A k \in 1 .. n : 14 + k \in 1 .. m
  BY <1>2, <1>3, <1>4
<1>6. t[b + 1] = MARKER /\ \A j \in 2 .. 14 + n : t[b + j] \in Selectors
  BY <1>2, <1>4, <1>5, Zenon
<1>7. [k \in 1 .. n |-> SelectorToByte(t[b + (14 + k)])] = payload
  <2>1. \A k \in 1 .. n : SelectorToByte(t[b + (14 + k)]) = SelectorToByte(W[14 + k])
    BY <1>4, <1>5, Zenon
  <2>2. QED
    BY <1>12, <2>1, Zenon
<1>8. SubSeq(t, b + 1, b + (14 + n)) = W
  <2>. DEFINE x == SubSeq(t, b + 1, b + m)
  <2>4. t \in Seq(CodePoint) /\ b + m <= Len(t)
    BY <1>4, <1>5, Zenon
  <2>1. x \in Seq(CodePoint) /\ Len(x) = m /\ \A k \in 1 .. m : x[k] = t[b + k]
    BY <2>4, SliceElements, ZenonT(40)
  <2>. HIDE DEF x
  <2>2. Len(x) = Len(W) /\ \A k \in 1 .. Len(x) : x[k] = W[k]
    BY <1>3, <1>4, <2>1, Zenon
  <2>3. x = W
    BY <1>2, <2>1, <2>2, SeqEqualByElements, Zenon
  <2>5. QED
    BY <1>5, <2>3, Zenon DEF x
<1>9. WrapperAt(t, b, n)
  <2>1. SubSeq(t, b + 1, b + (14 + n))
          = BuildWrapper([k \in 1 .. n |-> SelectorToByte(t[b + (14 + k)])])
    BY <1>7, <1>8, Zenon DEF W
  <2>2. QED
    BY <1>4, <1>5, <1>6, <2>1, WrapperElementwise, Zenon
<1>10. QED
  BY <1>1, <1>3, <1>9, Zenon DEF t, W

(* One mark in a text, with the payload, and what strip leaves of the text.  *)
OnlyMark(t, start, payload, rest) ==
  /\ t \in Seq(CodePoint) /\ rest \in Seq(CodePoint)
  /\ Wrappers(t) = {<<start, Len(payload)>>} /\ CorruptCandidates(t) = {}
  /\ PayloadOf(t, <<start, Len(payload)>>) = payload
  /\ Without(t) = rest

(* A text with one mark put into it: find_wrappers finds that one, its       *)
(* payload is read back, and strip takes out just what was put in.           *)
LEMMA OneMark ==
  ASSUME NEW before \in Seq(CodePoint), NEW after \in Seq(CodePoint),
         NEW payload \in Seq(Byte), Len(payload) <= MaxManifestLength,
         NEW t, t = before \o BuildWrapper(payload) \o after,
         NEW rest, rest = before \o after, Marks(rest) = {}
  PROVE  OnlyMark(t, Len(before), payload, rest)
<1>. DEFINE W == BuildWrapper(payload)
<1>1. PICK n \in Nat : n = Len(payload)
  OBVIOUS
<1>2. W \in Seq(CodePoint) /\ Len(W) = 14 + n /\ n \in 0 .. MaxManifestLength
  BY <1>1, BuiltReads
<1>12. [k \in 1 .. n |-> SelectorToByte(W[14 + k])] = payload
  BY <1>1, BuiltReads
<1>13. W \in Seq(CodePoint)
  BY <1>2
<1>3. WrapperAt(t, Len(before), n)
  <2>1. WrapperAt(before \o BuildWrapper(payload) \o after, Len(before), Len(payload))
    BY BuiltIsWrapper
  <2>2. QED
    BY <1>1, <2>1, Zenon
<1>4. \A i \in Marks(t) : i = Len(before)
  <2>1. \A i \in Marks(before \o BuildWrapper(payload) \o after) :
          i # Len(before) => Marks(before \o after) # {}
    BY MarksAround
  <2>2. QED
    BY <2>1, Zenon
<1>14. t = before \o W \o after
  BY Zenon
<1>. HIDE DEF W
<1>5. PICK b \in Nat, m \in Nat, a \in Nat : b = Len(before) /\ m = Len(W) /\ a = Len(after)
  <2>1. Len(before) \in Nat /\ Len(after) \in Nat
    OBVIOUS
  <2>2. Len(W) \in Nat
    BY <1>2
  <2>3. QED
    BY <2>1, <2>2, Zenon
<1>6. /\ t \in Seq(CodePoint) /\ Len(t) = b + m + a /\ rest \in Seq(CodePoint)
      /\ \A k \in 1 .. b : t[k] = before[k]
      /\ \A k \in 1 .. m : t[b + k] = W[k]
      /\ \A k \in 1 .. a : t[b + m + k] = after[k]
  <2>1. /\ t \in Seq(CodePoint) /\ Len(t) = Len(before) + Len(W) + Len(after) /\ rest \in Seq(CodePoint)
        /\ \A k \in 1 .. Len(before) : t[k] = before[k]
        /\ \A k \in 1 .. Len(W) : t[Len(before) + k] = W[k]
        /\ \A k \in 1 .. Len(after) : t[Len(before) + Len(W) + k] = after[k]
    BY <1>13, <1>14, ThreeParts, SMTT(40)
  <2>2. QED
    BY <1>5, <2>1, Zenon
<1>7. Wrappers(t) = {<<b, n>>}
  <2>1. ASSUME NEW w \in Wrappers(t) PROVE w = <<b, n>>
    <3>1. /\ w \in (0 .. Len(t) - 1) \X (0 .. MaxManifestLength) /\ WrapperAt(t, w[1], w[2])
      BY Zenon DEF Wrappers
    <3>2. w[1] = b
      BY <1>4, <1>5, <1>6, MarksAre, Zenon
    <3>3. w[2] = n
      <4>1. w[2] \in 0 .. MaxManifestLength /\ WrapperAt(t, b, w[2]) /\ WrapperAt(t, b, n)
        BY <1>3, <1>5, <3>1, <3>2, Zenon
      <4>2. QED
        BY <1>2, <1>5, <1>6, <4>1, OneWrapperAtPlace, Zenon
    <3>4. QED
      BY <3>1, <3>2, <3>3
  <2>2. <<b, n>> \in Wrappers(t)
    <3>1. b \in 0 .. Len(t) - 1
      BY <1>2, <1>5, <1>6
    <3>2. <<b, n>>[1] = b /\ <<b, n>>[2] = n /\ <<b, n>> \in (0 .. Len(t) - 1) \X (0 .. MaxManifestLength)
      BY <1>2, <3>1
    <3>3. QED
      BY <1>3, <1>5, <3>2, Zenon DEF Wrappers
  <2>3. QED
    BY <2>1, <2>2
<1>8. CorruptCandidates(t) = {}
  <2>. SUFFICES ASSUME NEW i \in CorruptCandidates(t) PROVE FALSE
    OBVIOUS
  <2>1. i = b
    BY <1>4, <1>5, <1>6, MarksAre, Zenon
  <2>2. ~ WrapperAt(t, i, n)
    BY <1>2, Zenon DEF CorruptCandidates
  <2>3. QED
    BY <1>3, <1>5, <2>1, <2>2, Zenon
<1>9. PayloadOf(t, <<b, n>>) = payload
  <2>1. <<b, n>>[1] = b /\ <<b, n>>[2] = n
    OBVIOUS
  <2>2. ASSUME NEW k \in 1 .. n PROVE t[b + 1 + HEADER_SIZE + k] = W[14 + k]
    <3>1. 14 + k \in 1 .. m /\ b + 1 + HEADER_SIZE + k = b + (14 + k)
      BY <1>2, <1>5 DEF HEADER_SIZE
    <3>2. QED
      BY <1>6, <3>1, Zenon
  <2>3. PayloadOf(t, <<b, n>>) = [k \in 1 .. n |-> SelectorToByte(t[b + 1 + HEADER_SIZE + k])]
    BY <2>1, Zenon DEF PayloadOf
  <2>4. QED
    BY <1>12, <2>2, <2>3, Zenon
<1>10. Without(t) = rest
  <2>. DEFINE R == InWrappers(t)
              kept(k) == IF k \in R THEN <<>> ELSE <<t[k]>>
              left == [k \in DOMAIN t |-> kept(k)]
              one(s) == [k \in DOMAIN s |-> <<s[k]>>]
              nothing == [k \in 1 .. m |-> <<>>]
  <2>1. R = b + 1 .. b + m
    <3>1. \A w \in {<<b, n>>} : w[1] + 1 .. w[1] + 1 + HEADER_SIZE + w[2] = b + 1 .. b + m
      <4>1. b + 1 + HEADER_SIZE + n = b + m
        BY <1>2, <1>5 DEF HEADER_SIZE
      <4>2. <<b, n>>[1] = b /\ <<b, n>>[2] = n
        OBVIOUS
      <4>3. QED
        BY <4>1, <4>2, Zenon
    <3>2. R = UNION {w[1] + 1 .. w[1] + 1 + HEADER_SIZE + w[2] : w \in {<<b, n>>}}
      BY <1>7, Zenon DEF InWrappers
    <3>3. QED
      BY <3>1, <3>2
  <2>2. Without(t) = FlattenSeq(left)
    BY Zenon DEF Without
  <2>. HIDE DEF R
  <2>3. /\ \A k \in 1 .. b : k \notin R /\ k \in 1 .. b + m + a
        /\ \A k \in 1 .. m : b + k \in R /\ b + k \in 1 .. b + m + a
        /\ \A k \in 1 .. a : b + m + k \notin R /\ b + m + k \in 1 .. b + m + a
    BY <2>1
  <2>4. /\ one(before) \in Seq(Seq(CodePoint)) /\ Len(one(before)) = b
        /\ \A k \in 1 .. b : one(before)[k] = <<before[k]>>
    BY <1>5
  <2>5. /\ one(after) \in Seq(Seq(CodePoint)) /\ Len(one(after)) = a
        /\ \A k \in 1 .. a : one(after)[k] = <<after[k]>>
    BY <1>5
  <2>6. nothing \in Seq(Seq(CodePoint)) /\ Len(nothing) = m /\ \A k \in 1 .. m : nothing[k] = <<>>
    BY <1>5
  <2>7. left \in Seq(Seq(CodePoint)) /\ Len(left) = b + m + a /\ \A k \in 1 .. b + m + a : left[k] = kept(k)
    <3>1. DOMAIN t = 1 .. b + m + a /\ \A k \in 1 .. b + m + a : t[k] \in CodePoint
      BY <1>6
    <3>2. \A k \in 1 .. b + m + a : kept(k) \in Seq(CodePoint)
      BY <3>1
    <3>3. left = [k \in 1 .. b + m + a |-> kept(k)]
      BY <3>1, Zenon
    <3>. HIDE DEF kept, left
    <3>4. QED
      BY <3>2, <3>3
  <2>. DEFINE whole == one(before) \o nothing \o one(after)
  <2>. HIDE DEF left, one, nothing
  <2>8. /\ whole \in Seq(Seq(CodePoint)) /\ Len(whole) = b + m + a
        /\ \A k \in 1 .. b : whole[k] = <<before[k]>>
        /\ \A k \in 1 .. m : whole[b + k] = <<>>
        /\ \A k \in 1 .. a : whole[b + m + k] = <<after[k]>>
        /\ one(before) \o nothing \in Seq(Seq(CodePoint))
    <3>1. \A p, q \in Seq(Seq(CodePoint)) : p \o q \in Seq(Seq(CodePoint))
      OBVIOUS
    <3>2. PICK p \in Seq(Seq(CodePoint)), c \in Seq(Seq(CodePoint)), q \in Seq(Seq(CodePoint)) : p = one(before) /\ c = nothing /\ q = one(after)
      BY <2>4, <2>5, <2>6, Zenon
    <3>3. PICK u : u = p \o c \o q
      BY Zenon
    <3>9. PICK v : v = p \o q
      BY Zenon
    <3>4. /\ u \in Seq(Seq(CodePoint)) /\ Len(u) = Len(p) + Len(c) + Len(q)
          /\ \A k \in 1 .. Len(p) : u[k] = p[k]
          /\ \A k \in 1 .. Len(c) : u[Len(p) + k] = c[k]
          /\ \A k \in 1 .. Len(q) : u[Len(p) + Len(c) + k] = q[k]
      BY <3>3, <3>9, ThreeParts, SMTT(40)
    <3>5. p \o c \in Seq(Seq(CodePoint))
      BY <3>1, Zenon
    <3>6. whole = u
      BY <3>2, <3>3, Zenon
    <3>. HIDE DEF whole
    <3>7. /\ whole \in Seq(Seq(CodePoint)) /\ Len(whole) = b + m + a
          /\ \A k \in 1 .. b : whole[k] = p[k]
          /\ \A k \in 1 .. m : whole[b + k] = c[k]
          /\ \A k \in 1 .. a : whole[b + m + k] = q[k]
      <4>1. Len(p) = b /\ Len(c) = m /\ Len(q) = a
        BY <2>4, <2>5, <2>6, <3>2, Zenon
      <4>2. QED
        BY <3>4, <3>6, <4>1, Zenon
    <3>8. /\ \A k \in 1 .. b : p[k] = <<before[k]>>
          /\ \A k \in 1 .. m : c[k] = <<>>
          /\ \A k \in 1 .. a : q[k] = <<after[k]>>
          /\ one(before) \o nothing \in Seq(Seq(CodePoint))
      BY <2>4, <2>5, <2>6, <3>2, <3>5, Zenon
    <3>10. QED
      BY <3>7, <3>8, Zenon
  <2>9. left = whole
    <3>. HIDE DEF whole
    <3>1. ASSUME NEW k \in 1 .. b PROVE left[k] = whole[k]
      <4>1. left[k] = kept(k) /\ whole[k] = <<before[k]>> /\ t[k] = before[k] /\ k \notin R
        BY <1>6, <2>3, <2>7, <2>8, Zenon
      <4>2. QED
        BY <4>1, Zenon
    <3>2. ASSUME NEW k \in 1 .. m PROVE left[b + k] = whole[b + k]
      <4>1. left[b + k] = kept(b + k) /\ whole[b + k] = <<>> /\ b + k \in R
        BY <2>3, <2>7, <2>8, Zenon
      <4>2. QED
        BY <4>1, Zenon
    <3>3. ASSUME NEW k \in 1 .. a PROVE left[b + m + k] = whole[b + m + k]
      <4>1. /\ left[b + m + k] = kept(b + m + k) /\ whole[b + m + k] = <<after[k]>>
            /\ t[b + m + k] = after[k] /\ b + m + k \notin R
        BY <1>6, <2>3, <2>7, <2>8, Zenon
      <4>2. QED
        BY <4>1, Zenon
    <3>4. ASSUME NEW j \in 1 .. b + m + a PROVE left[j] = whole[j]
      <4>1. \/ j \in 1 .. b
            \/ \E k \in 1 .. m : j = b + k
            \/ \E k \in 1 .. a : j = b + m + k
        <5>1. CASE j <= b
          BY <5>1
        <5>2. CASE ~ j <= b /\ j <= b + m
          <6>1. j - b \in 1 .. m /\ j = b + (j - b)
            BY <5>2
          <6>2. QED
            BY <6>1, Zenon
        <5>3. CASE ~ j <= b + m
          <6>1. j - b - m \in 1 .. a /\ j = b + m + (j - b - m)
            BY <5>3
          <6>2. QED
            BY <6>1, Zenon
        <5>4. QED
          BY <5>1, <5>2, <5>3
      <4>2. QED
        BY <3>1, <3>2, <3>3, <4>1, Zenon
    <3>5. Len(left) = Len(whole) /\ \A j \in 1 .. Len(left) : left[j] = whole[j]
      BY <2>7, <2>8, <3>4, Zenon
    <3>6. QED
      BY <2>7, <2>8, <3>5, SeqEqualByElements, ZenonT(40)
  <2>10. FlattenSeq(one(before)) = before /\ FlattenSeq(one(after)) = after
    BY FlattenSingletons DEF one
  <2>11. FlattenSeq(nothing) = <<>>
    <3>1. 0 \in 0 .. Len(nothing) /\ m \in 0 .. Len(nothing) /\ \A k \in 0 + 1 .. m : nothing[k] = <<>>
      BY <2>6
    <3>2. FlattenSeq(SubSeq(nothing, 1, m)) = FlattenSeq(SubSeq(nothing, 1, 0))
      BY <2>6, <3>1, EmptyPiecesAddNothing
    <3>3. SubSeq(nothing, 1, m) = nothing /\ SubSeq(nothing, 1, 0) = <<>>
      BY <2>6, WholePrefix
    <3>4. QED
      BY <3>2, <3>3, FlattenNothing, Zenon
  <2>12. FlattenSeq(whole) = FlattenSeq(one(before)) \o FlattenSeq(nothing) \o FlattenSeq(one(after))
    <3>1. FlattenSeq(whole) = FlattenSeq(one(before) \o nothing) \o FlattenSeq(one(after))
      BY <2>5, <2>8, FlattenConcat
    <3>2. FlattenSeq(one(before) \o nothing) = FlattenSeq(one(before)) \o FlattenSeq(nothing)
      BY <2>4, <2>6, FlattenConcat
    <3>3. QED
      BY <3>1, <3>2, Zenon
  <2>13. before \o <<>> = before
    OBVIOUS
  <2>14. QED
    BY <2>2, <2>9, <2>10, <2>11, <2>12, <2>13, Zenon
<1>11. QED
  BY <1>1, <1>5, <1>6, <1>7, <1>8, <1>9, <1>10, Zenon DEF W, OnlyMark

----------------------------------------------------------------------------
(* NFC, piece by piece.                                                      *)

(* A text rewritten code point by code point.                                *)
Pieces(f, s) == [i \in DOMAIN s |-> f[s[i]]]

Piecewise(f, s) == FlattenSeq(Pieces(f, s))

LEMMA PiecesType ==
  ASSUME NEW S, NEW T, NEW f, \A c \in S : f[c] \in Seq(T), NEW s \in Seq(S)
  PROVE  Pieces(f, s) \in Seq(Seq(T))
<1>1. DOMAIN s = 1 .. Len(s) /\ Len(s) \in Nat /\ \A i \in DOMAIN s : s[i] \in S
  OBVIOUS
<1>2. QED
  BY <1>1 DEF Pieces

LEMMA PiecesRead ==
  ASSUME NEW S, NEW f, NEW s \in Seq(S)
  PROVE  Len(Pieces(f, s)) = Len(s) /\ \A i \in 1 .. Len(s) : Pieces(f, s)[i] = f[s[i]]
<1>1. DOMAIN s = 1 .. Len(s) /\ Len(s) \in Nat
  OBVIOUS
<1>2. QED
  BY <1>1 DEF Pieces

LEMMA PiecewiseType ==
  ASSUME NEW S, NEW T, NEW f, \A c \in S : f[c] \in Seq(T), NEW s \in Seq(S)
  PROVE  Piecewise(f, s) \in Seq(T)
  BY PiecesType, FlattenType DEF Piecewise

LEMMA PiecewiseOne ==
  ASSUME NEW S, NEW T, NEW f, \A x \in S : f[x] \in Seq(T), NEW c \in S
  PROVE  Piecewise(f, <<c>>) = f[c]
<1>1. Pieces(f, <<c>>) = <<f[c]>>
  <2>1. DOMAIN <<c>> = {1} /\ <<c>>[1] = c
    OBVIOUS
  <2>2. QED
    BY <2>1 DEF Pieces
<1>2. f[c] \in Seq(T)
  OBVIOUS
<1>3. QED
  BY <1>1, <1>2, FlattenOne, Zenon DEF Piecewise

LEMMA PiecewiseConcat ==
  ASSUME NEW S, NEW T, NEW f, \A c \in S : f[c] \in Seq(T), NEW s \in Seq(S), NEW t \in Seq(S)
  PROVE  Piecewise(f, s \o t) = Piecewise(f, s) \o Piecewise(f, t)
<1>1. \A x \in Seq(S) : /\ Pieces(f, x) \in Seq(Seq(T)) /\ Len(Pieces(f, x)) = Len(x)
                        /\ \A i \in 1 .. Len(x) : Pieces(f, x)[i] = f[x[i]]
  <2>. TAKE x \in Seq(S)
  <2>1. Pieces(f, x) \in Seq(Seq(T))
    BY PiecesType
  <2>4. Len(Pieces(f, x)) = Len(x)
    BY PiecesRead
  <2>2. \A i \in 1 .. Len(x) : Pieces(f, x)[i] = f[x[i]]
    BY PiecesRead
  <2>3. QED
    BY <2>1, <2>2, <2>4
<1>2. /\ s \o t \in Seq(S) /\ Len(s) \in Nat /\ Len(t) \in Nat /\ Len(s \o t) = Len(s) + Len(t)
      /\ \A i \in 1 .. Len(s) + Len(t) : (s \o t)[i] = IF i <= Len(s) THEN s[i] ELSE t[i - Len(s)]
  BY ConcatReads
<1>3. Pieces(f, s \o t) = Pieces(f, s) \o Pieces(f, t)
  <2>. DEFINE l == Pieces(f, s \o t)
              r == Pieces(f, s) \o Pieces(f, t)
  <2>2. /\ l \in Seq(Seq(T)) /\ Len(l) = Len(s) + Len(t)
        /\ \A i \in 1 .. Len(s) + Len(t) : l[i] = f[(s \o t)[i]]
    BY <1>1, <1>2, Zenon
  <2>3. /\ r \in Seq(Seq(T)) /\ Len(r) = Len(s) + Len(t)
        /\ \A i \in 1 .. Len(s) + Len(t) :
             r[i] = IF i <= Len(s) THEN Pieces(f, s)[i] ELSE Pieces(f, t)[i - Len(s)]
    <3>1. Len(Pieces(f, s)) = Len(s) /\ Len(Pieces(f, t)) = Len(t)
      BY <1>1, Zenon
    <3>2. /\ r \in Seq(Seq(T)) /\ Len(r) = Len(Pieces(f, s)) + Len(Pieces(f, t))
          /\ \A i \in 1 .. Len(Pieces(f, s)) + Len(Pieces(f, t)) :
               r[i] = IF i <= Len(Pieces(f, s)) THEN Pieces(f, s)[i] ELSE Pieces(f, t)[i - Len(Pieces(f, s))]
      BY <1>1, ConcatReads, Zenon
    <3>3. QED
      BY <3>1, <3>2, Zenon
  <2>. HIDE DEF r, l
  <2>4. \A i \in 1 .. Len(s) + Len(t) : l[i] = r[i]
    <3>. TAKE i \in 1 .. Len(s) + Len(t)
    <3>1. CASE i <= Len(s)
      <4>1. i \in 1 .. Len(s)
        BY <1>2, <3>1
      <4>2. (s \o t)[i] = s[i] /\ r[i] = Pieces(f, s)[i] /\ l[i] = f[(s \o t)[i]]
        BY <1>2, <2>2, <2>3, <3>1
      <4>3. QED
        BY <1>1, <4>1, <4>2, Zenon
    <3>2. CASE ~ i <= Len(s)
      <4>1. i - Len(s) \in 1 .. Len(t)
        BY <1>2, <3>2
      <4>2. /\ (s \o t)[i] = t[i - Len(s)] /\ r[i] = Pieces(f, t)[i - Len(s)]
            /\ l[i] = f[(s \o t)[i]]
        BY <1>2, <2>2, <2>3, <3>2
      <4>3. QED
        BY <1>1, <4>1, <4>2, Zenon
    <3>3. QED
      BY <3>1, <3>2
  <2>5. Len(l) = Len(r) /\ \A i \in 1 .. Len(l) : l[i] = r[i]
    BY <2>2, <2>3, <2>4, Zenon
  <2>6. l = r
    BY <2>2, <2>3, <2>5, SeqEqualByElements, Zenon
  <2>7. QED
    BY <2>6 DEF l, r
<1>4. FlattenSeq(Pieces(f, s) \o Pieces(f, t)) = FlattenSeq(Pieces(f, s)) \o FlattenSeq(Pieces(f, t))
  BY <1>1, FlattenConcat
<1>5. QED
  BY <1>3, <1>4, Zenon DEF Piecewise

(* Decomposition.                                                            *)
LatinCodePoints == {Letter, Acute, Composed}

Decomposition == [c \in CodePoint |-> IF c = Composed THEN <<Letter, Acute>> ELSE <<c>>]

LEMMA LatinLetters ==
  /\ Letter \in CodePoint /\ Acute \in CodePoint /\ Composed \in CodePoint
  /\ Letter # Acute /\ Letter # Composed /\ Acute # Composed
  BY SMTT(30) DEF Letter, Acute, Composed, CodePoint

LEMMA DecompositionType == \A c \in CodePoint : Decomposition[c] \in Seq(CodePoint)
<1>1. <<Letter, Acute>> \in Seq(CodePoint) /\ \A c \in CodePoint : <<c>> \in Seq(CodePoint)
  BY LatinLetters
<1>2. QED
  BY <1>1 DEF Decomposition

LEMMA DecomposedIsPiecewise ==
  ASSUME NEW t \in Seq(CodePoint)
  PROVE  /\ Decomposed(t) = Piecewise(Decomposition, t)
         /\ \A i \in DOMAIN t : Decomposition[t[i]]
                                  = IF t[i] = Composed THEN <<Letter, Acute>> ELSE <<t[i]>>
<1>1. \A i \in DOMAIN t : Decomposition[t[i]]
                            = IF t[i] = Composed THEN <<Letter, Acute>> ELSE <<t[i]>>
  <2>1. \A i \in DOMAIN t : t[i] \in CodePoint
    OBVIOUS
  <2>2. QED
    BY <2>1, Zenon DEF Decomposition
<1>2. Decomposed(t) = Piecewise(Decomposition, t)
  BY <1>1, Zenon DEF Decomposed, Piecewise, Pieces
<1>3. QED
  BY <1>1, <1>2

LEMMA DecomposedReads ==
  ASSUME NEW s \in Seq(CodePoint)
  PROVE  /\ Decomposed(s) \in Seq(CodePoint)
         /\ \A t \in Seq(CodePoint) : Decomposed(s \o t) = Decomposed(s) \o Decomposed(t)
         /\ \A c \in CodePoint : Decomposed(<<c>>) = IF c = Composed THEN <<Letter, Acute>> ELSE <<c>>
         /\ Decomposed(<<>>) = <<>>
         /\ \A i \in 1 .. Len(Decomposed(s)) : Decomposed(s)[i] # Composed
<1>1. Decomposed(s) \in Seq(CodePoint)
  <2>1. Piecewise(Decomposition, s) \in Seq(CodePoint)
    BY DecompositionType, PiecewiseType
  <2>2. QED
    BY <2>1, DecomposedIsPiecewise, Zenon
<1>2. ASSUME NEW t \in Seq(CodePoint) PROVE Decomposed(s \o t) = Decomposed(s) \o Decomposed(t)
  <2>1. s \o t \in Seq(CodePoint)
    OBVIOUS
  <2>2. Piecewise(Decomposition, s \o t) = Piecewise(Decomposition, s) \o Piecewise(Decomposition, t)
    BY DecompositionType, PiecewiseConcat
  <2>3. QED
    BY <2>1, <2>2, DecomposedIsPiecewise, Zenon
<1>3. ASSUME NEW c \in CodePoint
      PROVE  Decomposed(<<c>>) = IF c = Composed THEN <<Letter, Acute>> ELSE <<c>>
  <2>1. <<c>> \in Seq(CodePoint)
    OBVIOUS
  <2>2. Piecewise(Decomposition, <<c>>) = Decomposition[c]
    BY DecompositionType, PiecewiseOne
  <2>3. QED
    BY <2>1, <2>2, DecomposedIsPiecewise, Zenon DEF Decomposition
<1>4. Decomposed(<<>>) = <<>>
  <2>1. [i \in DOMAIN <<>> |-> IF <<>>[i] = Composed THEN <<Letter, Acute>> ELSE <<<<>>[i]>>] = <<>>
    OBVIOUS
  <2>2. QED
    BY <2>1, FlattenNothing, Zenon DEF Decomposed
<1>5. ASSUME NEW i \in 1 .. Len(Decomposed(s)) PROVE Decomposed(s)[i] # Composed
  <2>0. PICK pieces : pieces = Pieces(Decomposition, s)
    BY Zenon
  <2>1. /\ pieces \in Seq(Seq(CodePoint)) /\ Len(pieces) = Len(s)
        /\ \A j \in 1 .. Len(s) : pieces[j] = Decomposition[s[j]]
    <3>1. Pieces(Decomposition, s) \in Seq(Seq(CodePoint))
      BY DecompositionType, PiecesType
    <3>4. Len(Pieces(Decomposition, s)) = Len(s)
      BY PiecesRead
    <3>2. \A j \in 1 .. Len(s) : Pieces(Decomposition, s)[j] = Decomposition[s[j]]
      BY PiecesRead
    <3>3. QED
      BY <2>0, <3>1, <3>2, <3>4, Zenon
  <2>2. Decomposed(s) = FlattenSeq(pieces)
    BY <2>0, DecomposedIsPiecewise, Zenon DEF Piecewise
  <2>3. Decomposed(s)[i] \in ToSet(FlattenSeq(pieces))
    BY <1>1, <2>2 DEF ToSet
  <2>4. PICK j \in 1 .. Len(pieces) : Decomposed(s)[i] \in ToSet(pieces[j])
    BY <2>1, <2>3, FlattenElements
  <2>5. j \in DOMAIN s
    BY <2>1
  <2>6. pieces[j] = IF s[j] = Composed THEN <<Letter, Acute>> ELSE <<s[j]>>
    BY <2>1, <2>4, <2>5, DecomposedIsPiecewise, Zenon
  <2>7. \A c : ToSet(<<c>>) = {c}
    BY DEF ToSet
  <2>8. ToSet(<<Letter, Acute>>) = {Letter, Acute}
    BY DEF ToSet
  <2>9. QED
    BY <2>4, <2>6, <2>7, <2>8, LatinLetters, Zenon
<1>6. QED
  BY <1>1, <1>2, <1>3, <1>4, <1>5

(* Composition.                                                              *)
ComposesAt(d, i) == i < Len(d) /\ d[i] = Letter /\ d[i + 1] = Acute

NfcPiece(d, i) ==
  IF ComposesAt(d, i) THEN <<Composed>>
  ELSE IF i > 1 /\ ComposesAt(d, i - 1) THEN <<>> ELSE <<d[i]>>

LEMMA NfcPieces ==
  ASSUME NEW t \in Seq(CodePoint), NEW d, d = Decomposed(t)
  PROVE  LET pieces == [i \in DOMAIN d |-> NfcPiece(d, i)]
         IN  /\ d \in Seq(CodePoint) /\ Len(d) \in Nat
             /\ pieces \in Seq(Seq(CodePoint)) /\ Len(pieces) = Len(d)
             /\ \A i \in 1 .. Len(d) : pieces[i] = NfcPiece(d, i)
             /\ Nfc(t) = FlattenSeq(pieces)
<1>. DEFINE pieces == [i \in DOMAIN d |-> NfcPiece(d, i)]
<1>1. Nfc(t) = FlattenSeq(pieces)
  BY Zenon DEF Nfc, NfcPiece, ComposesAt
<1>2. d \in Seq(CodePoint)
  BY DecomposedReads
<1>3. DOMAIN d = 1 .. Len(d) /\ Len(d) \in Nat /\ \A i \in DOMAIN d : d[i] \in CodePoint
  BY <1>2
<1>4. \A i \in DOMAIN d : NfcPiece(d, i) \in Seq(CodePoint)
  <2>1. <<Composed>> \in Seq(CodePoint) /\ <<>> \in Seq(CodePoint)
          /\ \A c \in CodePoint : <<c>> \in Seq(CodePoint)
    BY LatinLetters
  <2>2. QED
    BY <1>3, <2>1, Zenon DEF NfcPiece
<1>5. pieces \in Seq(Seq(CodePoint)) /\ Len(pieces) = Len(d)
  BY <1>3, <1>4
<1>6. QED
  BY <1>1, <1>2, <1>3, <1>5, Zenon

LEMMA NfcType ==
  ASSUME NEW t \in Seq(CodePoint)
  PROVE  Nfc(t) \in Seq(CodePoint)
<1>1. PICK d : d = Decomposed(t)
  BY Zenon
<1>2. QED
  BY <1>1, NfcPieces, FlattenType, Zenon

(* Composition can be taken back.                                            *)
LEMMA NfcDecomposes ==
  ASSUME NEW t \in Seq(CodePoint)
  PROVE  Decomposed(Nfc(t)) = Decomposed(t)
<1>1. PICK d : d = Decomposed(t)
  BY Zenon
<1>2. PICK pieces : pieces = [i \in DOMAIN d |-> NfcPiece(d, i)]
  BY Zenon
<1>3. /\ d \in Seq(CodePoint) /\ Len(d) \in Nat
      /\ pieces \in Seq(Seq(CodePoint)) /\ Len(pieces) = Len(d)
      /\ \A i \in 1 .. Len(d) : pieces[i] = NfcPiece(d, i)
      /\ Nfc(t) = FlattenSeq(pieces)
  BY <1>1, <1>2, NfcPieces, Zenon
<1>4. \A i \in 1 .. Len(d) : d[i] \in CodePoint /\ d[i] # Composed
  <2>1. \A i \in 1 .. Len(d) : d[i] \in CodePoint
    BY <1>3
  <2>2. QED
    BY <1>1, <2>1, DecomposedReads, Zenon
<1>. DEFINE n == Len(d)
            flat(k) == FlattenSeq(SubSeq(pieces, 1, k))
            reach(k) == IF k > 0 /\ ComposesAt(d, k) THEN k + 1 ELSE k
            T == {k \in 0 .. n : Decomposed(flat(k)) = SubSeq(d, 1, reach(k))}
<1>5. /\ \A k \in 0 .. n : flat(k) \in Seq(CodePoint)
      /\ \A k \in 0 .. n - 1 : flat(k + 1) = flat(k) \o pieces[k + 1]
      /\ flat(0) = <<>> /\ flat(n) = FlattenSeq(pieces)
  BY <1>3, FlattenByPrefix, Zenon
<1>. HIDE DEF flat
<1>6. 0 \in T
  <2>1. reach(0) = 0 /\ 0 \in 0 .. n
    BY <1>3
  <2>2. SubSeq(d, 1, 0) = <<>>
    BY <1>3, WholePrefix
  <2>3. Decomposed(flat(0)) = <<>>
    <3>1. <<>> \in Seq(CodePoint)
      OBVIOUS
    <3>2. QED
      BY <1>5, <3>1, DecomposedReads, Zenon
  <2>4. QED
    BY <2>1, <2>2, <2>3, Zenon
<1>7. ASSUME NEW k \in 0 .. n, k \in T, k < n PROVE k + 1 \in T
  <2>0. PICK c : c = d[k + 1]
    OBVIOUS
  <2>1. /\ k \in Nat /\ k \in 0 .. n - 1 /\ k + 1 \in 1 .. n /\ k + 1 > 0 /\ k + 1 \in 0 .. n
        /\ (k + 1) - 1 = k /\ (k + 1 > 1 <=> k > 0)
    BY <1>3, <1>7
  <2>2. c \in CodePoint /\ c # Composed
    BY <1>4, <2>0, <2>1, Zenon
  <2>3. /\ Decomposed(flat(k)) = SubSeq(d, 1, reach(k))
        /\ flat(k) \in Seq(CodePoint) /\ flat(k + 1) = flat(k) \o pieces[k + 1]
        /\ pieces[k + 1] = NfcPiece(d, k + 1) /\ pieces[k + 1] \in Seq(CodePoint)
    <3>1. \A i \in 1 .. Len(d) : pieces[i] \in Seq(CodePoint)
      BY <1>3
    <3>2. QED
      BY <1>3, <1>5, <1>7, <2>1, <3>1, Zenon
  <2>4. Decomposed(flat(k + 1)) = SubSeq(d, 1, reach(k)) \o Decomposed(pieces[k + 1])
    <3>1. \A p, q \in Seq(CodePoint) : Decomposed(p \o q) = Decomposed(p) \o Decomposed(q)
      BY DecomposedReads, Zenon
    <3>2. Decomposed(flat(k) \o pieces[k + 1]) = Decomposed(flat(k)) \o Decomposed(pieces[k + 1])
      BY <2>3, <3>1, Zenon
    <3>3. QED
      BY <2>3, <3>2, Zenon
  <2>5. CASE k > 0 /\ ComposesAt(d, k)
    <3>1. reach(k) = k + 1 /\ c = Acute
      BY <2>0, <2>5, Zenon DEF ComposesAt
    <3>2. ~ ComposesAt(d, k + 1)
      BY <2>0, <3>1, LatinLetters, Zenon DEF ComposesAt
    <3>3. pieces[k + 1] = <<>> /\ reach(k + 1) = k + 1
      BY <2>1, <2>3, <2>5, <3>2, Zenon DEF NfcPiece
    <3>4. Decomposed(<<>>) = <<>>
      BY <1>3, DecomposedReads, Zenon
    <3>5. SubSeq(d, 1, k + 1) \o <<>> = SubSeq(d, 1, k + 1)
      <4>1. SubSeq(d, 1, k + 1) \in Seq(CodePoint) /\ \A x \in Seq(CodePoint) : x \o <<>> = x
        BY <1>3, <2>1
      <4>2. QED
        BY <4>1, Zenon
    <3>6. QED
      BY <2>1, <2>4, <3>1, <3>3, <3>4, <3>5, Zenon
  <2>6. CASE ~ (k > 0 /\ ComposesAt(d, k)) /\ ComposesAt(d, k + 1)
    <3>1. reach(k) = k /\ reach(k + 1) = k + 1 + 1 /\ pieces[k + 1] = <<Composed>>
      BY <2>1, <2>3, <2>6, Zenon DEF NfcPiece
    <3>2. Decomposed(<<Composed>>) = <<Letter, Acute>>
      BY <1>3, DecomposedReads, LatinLetters, Zenon
    <3>3. k + 1 < Len(d) /\ d[k + 1] = Letter /\ d[k + 2] = Acute
      <4>1. k + 1 < Len(d) /\ d[k + 1] = Letter /\ d[k + 1 + 1] = Acute
        BY <2>6, Zenon DEF ComposesAt
      <4>2. k + 1 + 1 = k + 2
        BY <2>1
      <4>3. QED
        BY <4>1, <4>2, Zenon
    <3>4. SubSeq(d, 1, k) \o <<Letter, Acute>> = SubSeq(d, 1, k + 1 + 1)
      <4>1. SubSeq(d, 1, k + 1) = SubSeq(d, 1, k) \o <<Letter>>
        <5>1. SubSeq(d, 1, k + 1) = SubSeq(d, 1, k) \o <<d[k + 1]>>
          BY <1>3, <2>1, SplitReads
        <5>2. QED
          BY <3>3, <5>1, Zenon
      <4>2. SubSeq(d, 1, k + 1 + 1) = SubSeq(d, 1, k + 1) \o <<Acute>>
        <5>1. PICK l \in Nat : l = k + 1
          BY <2>1
        <5>2. l \in 0 .. Len(d) - 1
          BY <1>3, <3>3, <5>1
        <5>3. SubSeq(d, 1, l + 1) = SubSeq(d, 1, l) \o <<d[l + 1]>>
          BY <1>3, <5>2, SplitReads
        <5>4. d[l + 1] = Acute
          <6>1. l + 1 = k + 2
            BY <2>1, <5>1
          <6>2. QED
            BY <3>3, <6>1, Zenon
        <5>5. QED
          BY <5>1, <5>3, <5>4, Zenon
      <4>3. (SubSeq(d, 1, k) \o <<Letter>>) \o <<Acute>> = SubSeq(d, 1, k) \o (<<Letter>> \o <<Acute>>)
        <5>1. SubSeq(d, 1, k) \in Seq(CodePoint) /\ <<Letter>> \in Seq(CodePoint) /\ <<Acute>> \in Seq(CodePoint)
          BY <1>3, <2>1, LatinLetters
        <5>2. QED
          BY <5>1, ConcatAssociates
      <4>4. <<Letter>> \o <<Acute>> = <<Letter, Acute>>
        BY ConcatOfOne
      <4>5. QED
        BY <4>1, <4>2, <4>3, <4>4, Zenon
    <3>5. QED
      BY <2>1, <2>4, <3>1, <3>2, <3>4, Zenon
  <2>7. CASE ~ (k > 0 /\ ComposesAt(d, k)) /\ ~ ComposesAt(d, k + 1)
    <3>1. reach(k) = k /\ reach(k + 1) = k + 1 /\ pieces[k + 1] = <<c>>
      BY <2>0, <2>1, <2>3, <2>7, Zenon DEF NfcPiece
    <3>2. Decomposed(<<c>>) = <<c>>
      BY <1>3, <2>2, DecomposedReads, Zenon
    <3>3. SubSeq(d, 1, k + 1) = SubSeq(d, 1, k) \o <<c>>
      <4>1. SubSeq(d, 1, k + 1) = SubSeq(d, 1, k) \o <<d[k + 1]>>
        BY <1>3, <2>1, SplitReads
      <4>2. QED
        BY <2>0, <4>1, Zenon
    <3>4. QED
      BY <2>1, <2>4, <3>1, <3>2, <3>3, Zenon
  <2>8. QED
    BY <2>5, <2>6, <2>7, Zenon
<1>. HIDE DEF T
<1>8. n \in T
  <2>1. \A i \in 0 .. n : i \in T
    BY <1>3, <1>6, <1>7, UpwardInduction
  <2>2. n \in 0 .. n
    BY <1>3
  <2>3. QED
    BY <2>1, <2>2, Zenon
<1>9. reach(n) = n
  BY <1>3 DEF ComposesAt
<1>10. SubSeq(d, 1, n) = d
  BY <1>3, WholePrefix
<1>11. QED
  BY <1>1, <1>3, <1>5, <1>8, <1>9, <1>10, Zenon DEF T

LEMMA NfcIsStable ==
  ASSUME NEW t \in Seq(CodePoint)
  PROVE  Nfc(Nfc(t)) = Nfc(t) /\ (TooManyNonstarters(Nfc(t)) <=> TooManyNonstarters(t))
  BY NfcDecomposes, Zenon DEF Nfc, TooManyNonstarters

----------------------------------------------------------------------------
(* NFC adds no mark and removes none.                                        *)

(* Where the pieces of a flattened sequence are.                             *)
FlatLength(seqs, k) == Len(FlattenSeq(SubSeq(seqs, 1, k)))

LEMMA FlattenPlaces ==
  ASSUME NEW S, NEW seqs \in Seq(Seq(S)), NEW flat, flat = FlattenSeq(seqs)
  PROVE  /\ Len(flat) \in Nat /\ FlatLength(seqs, 0) = 0 /\ FlatLength(seqs, Len(seqs)) = Len(flat)
         /\ \A k \in 0 .. Len(seqs) : FlatLength(seqs, k) \in Nat
         /\ \A k \in 0 .. Len(seqs) - 1 :
              /\ FlatLength(seqs, k + 1) = FlatLength(seqs, k) + Len(seqs[k + 1])
              /\ \A j \in 1 .. Len(seqs[k + 1]) :
                   /\ FlatLength(seqs, k) + j <= Len(flat)
                   /\ flat[FlatLength(seqs, k) + j] = seqs[k + 1][j]
         /\ \A p \in 1 .. Len(flat) : \E k \in 0 .. Len(seqs) - 1 :
              FlatLength(seqs, k) < p /\ p <= FlatLength(seqs, k + 1)
<1>. DEFINE n == Len(seqs)
            upTo(k) == FlattenSeq(SubSeq(seqs, 1, k))
            l(k) == FlatLength(seqs, k)
<1>1. /\ n \in Nat /\ \A k \in 1 .. n : seqs[k] \in Seq(S)
      /\ \A k \in 0 .. n : upTo(k) \in Seq(S)
      /\ \A k \in 0 .. n - 1 : upTo(k + 1) = upTo(k) \o seqs[k + 1]
      /\ upTo(0) = <<>> /\ upTo(n) = flat
  BY FlattenByPrefix, Zenon
<1>2. \A k : l(k) = Len(upTo(k))
  BY Zenon DEF FlatLength
<1>. HIDE DEF upTo, l
<1>3. \A s \in Seq(S) : Len(s) \in Nat
  OBVIOUS
<1>4. /\ \A k \in 0 .. n : l(k) \in Nat
      /\ l(0) = 0 /\ l(n) = Len(flat) /\ Len(flat) \in Nat
  <2>1. \A k \in 0 .. n : l(k) \in Nat
    BY <1>1, <1>2, <1>3, Zenon
  <2>2. Len(<<>>) = 0 /\ 0 \in 0 .. n /\ n \in 0 .. n
    BY <1>1
  <2>3. QED
    BY <1>1, <1>2, <2>1, <2>2, Zenon
<1>5. ASSUME NEW k \in 0 .. n - 1
      PROVE  /\ k \in Nat /\ k \in 0 .. n /\ k + 1 \in 0 .. n /\ k + 1 \in 1 .. n
             /\ Len(seqs[k + 1]) \in Nat /\ l(k + 1) = l(k) + Len(seqs[k + 1])
             /\ \A j \in 1 .. l(k) : upTo(k + 1)[j] = upTo(k)[j]
             /\ \A j \in 1 .. Len(seqs[k + 1]) : upTo(k + 1)[l(k) + j] = seqs[k + 1][j]
  <2>1. k \in Nat /\ k \in 0 .. n /\ k + 1 \in 0 .. n /\ k + 1 \in 1 .. n
    BY <1>1
  <2>2. PICK a \in Seq(S), b \in Seq(S) : a = upTo(k) /\ b = seqs[k + 1]
    BY <1>1, <2>1, Zenon
  <2>3. PICK c : c = a \o b
    OBVIOUS
  <2>4. /\ Len(a) \in Nat /\ Len(b) \in Nat /\ Len(c) = Len(a) + Len(b)
        /\ \A j \in 1 .. Len(a) : c[j] = a[j] /\ \A m \in 1 .. Len(b) : c[Len(a) + m] = b[m]
    BY <2>3
  <2>8. \A j \in 1 .. Len(b) : c[Len(a) + j] = b[j]
    BY <2>3
  <2>5. c = upTo(k + 1)
    BY <1>1, <2>1, <2>2, <2>3, Zenon
  <2>6. l(k) = Len(a) /\ l(k + 1) = Len(c)
    BY <1>2, <2>2, <2>5, Zenon
  <2>7. QED
    BY <2>1, <2>2, <2>4, <2>5, <2>6, <2>8, Zenon
<1>6. ASSUME NEW k \in 0 .. n
      PROVE  l(k) <= Len(flat) /\ \A j \in 1 .. l(k) : flat[j] = upTo(k)[j]
  <2>. DEFINE T == {m \in k .. n : l(k) <= l(m) /\ \A j \in 1 .. l(k) : upTo(m)[j] = upTo(k)[j]}
  <2>1. k \in Nat /\ k \in k .. n /\ n \in k .. n /\ l(k) \in Nat
    BY <1>1, <1>4
  <2>2. k \in T
    BY <2>1
  <2>3. ASSUME NEW m \in k .. n, m \in T, m < n PROVE m + 1 \in T
    <3>1. m \in 0 .. n - 1 /\ m + 1 \in k .. n /\ l(k) <= l(m)
          /\ \A j \in 1 .. l(k) : upTo(m)[j] = upTo(k)[j]
      BY <1>1, <2>1, <2>3
    <3>2. /\ Len(seqs[m + 1]) \in Nat /\ l(m + 1) = l(m) + Len(seqs[m + 1])
          /\ \A j \in 1 .. l(m) : upTo(m + 1)[j] = upTo(m)[j] /\ l(m) \in Nat
      BY <1>4, <1>5, <3>1
    <3>5. l(m) \in Nat
      BY <1>4, <1>5, <3>1, Zenon
    <3>3. l(k) <= l(m + 1)
      BY <2>1, <3>1, <3>2, <3>5
    <3>4. \A j \in 1 .. l(k) : upTo(m + 1)[j] = upTo(k)[j]
      <4>1. \A j \in 1 .. l(k) : j \in 1 .. l(m)
        BY <2>1, <3>1, <3>5
      <4>2. QED
        BY <3>1, <3>2, <4>1, Zenon
    <3>6. QED
      BY <3>1, <3>3, <3>4, Zenon
  <2>. HIDE DEF T
  <2>4. \A m \in k .. n : m \in T
    BY <1>1, <2>1, <2>2, <2>3, UpwardInduction
  <2>5. n \in T
    BY <2>1, <2>4
  <2>6. QED
    BY <1>1, <1>4, <2>5, Zenon DEF T
<1>7. ASSUME NEW k \in 0 .. n - 1, NEW j \in 1 .. Len(seqs[k + 1])
      PROVE  l(k) + j <= Len(flat) /\ flat[l(k) + j] = seqs[k + 1][j]
  <2>1. l(k + 1) <= Len(flat) /\ \A i \in 1 .. l(k + 1) : flat[i] = upTo(k + 1)[i]
    BY <1>5, <1>6, Zenon
  <2>2. /\ l(k + 1) = l(k) + Len(seqs[k + 1]) /\ Len(seqs[k + 1]) \in Nat
        /\ upTo(k + 1)[l(k) + j] = seqs[k + 1][j] /\ l(k) \in Nat
    BY <1>4, <1>5, Zenon
  <2>3. l(k) + j \in 1 .. l(k + 1) /\ l(k) + j <= Len(flat)
    <3>1. PICK x \in Nat, y \in Nat, z \in Nat : x = l(k) /\ y = Len(seqs[k + 1]) /\ z = Len(flat)
      BY <1>4, <2>2, Zenon
    <3>2. x + y <= z /\ j \in 1 .. y /\ l(k + 1) = x + y
      BY <2>1, <2>2, <3>1, Zenon
    <3>3. x + j \in 1 .. x + y /\ x + j <= z
      BY <3>2
    <3>4. QED
      BY <3>1, <3>2, <3>3, Zenon
  <2>4. QED
    BY <2>1, <2>2, <2>3, Zenon
<1>8. ASSUME NEW p \in 1 .. Len(flat)
      PROVE  \E k \in 0 .. n - 1 : l(k) < p /\ p <= l(k + 1)
  <2>. DEFINE Reached == {m \in 0 .. n : p <= l(m)}
  <2>1. Reached \in SUBSET Nat /\ n \in Reached
    BY <1>1, <1>4
  <2>2. PICK m \in Reached : \A q \in Reached : m <= q
    <3>. HIDE DEF Reached
    <3>1. Reached # {}
      BY <2>1
    <3>2. QED
      BY <2>1, <3>1, LeastElement
  <2>3. m # 0
    BY <1>4, <2>2
  <2>4. PICK k \in Nat : m = k + 1
    <3>1. m - 1 \in Nat /\ m = (m - 1) + 1
      BY <2>2, <2>3
    <3>2. QED
      BY <3>1
  <2>5. k \in 0 .. n - 1 /\ k \in 0 .. n /\ k \notin Reached /\ p <= l(k + 1)
    BY <1>1, <2>2, <2>4
  <2>6. l(k) < p
    BY <1>4, <2>5
  <2>7. QED
    BY <2>5, <2>6
<1>9. QED
  BY <1>4, <1>5, <1>7, <1>8, Zenon DEF l

(* The mark, from its marker to the end of the magic, has no Latin code      *)
(* points.                                                                   *)
MarkCodePoint(k) == IF k = 1 THEN MARKER ELSE ByteToSelector(MAGIC[k - 1])

LEMMA MarkCodePoints ==
  /\ \A k \in 1 .. 9 : MarkCodePoint(k) \notin LatinCodePoints
  /\ \A t : \A i \in Nat : MarkAt(t, i) <=> i + 9 <= Len(t) /\ \A k \in 1 .. 9 : t[i + k] = MarkCodePoint(k)
<1>1. ASSUME NEW k \in 1 .. 9 PROVE MarkCodePoint(k) \notin LatinCodePoints
  <2>1. MARKER \notin LatinCodePoints /\ \A c \in Selectors : c \notin LatinCodePoints
    BY SMTT(30) DEF MARKER, Selectors, VS_LOW_BASE, VS_HIGH_BASE, LatinCodePoints, Letter, Acute, Composed
  <2>2. CASE k = 1
    BY <2>1, <2>2, Zenon DEF MarkCodePoint
  <2>3. CASE k # 1
    <3>1. k - 1 \in 1 .. 8
      BY <2>3
    <3>2. ByteToSelector(MAGIC[k - 1]) \in Selectors
      BY <3>1, MagicType, CodecRoundTrip, Zenon
    <3>3. QED
      BY <2>1, <2>3, <3>2, Zenon DEF MarkCodePoint
  <2>4. QED
    BY <2>2, <2>3
<1>2. ASSUME NEW t, NEW i \in Nat
      PROVE  MarkAt(t, i) <=> i + 9 <= Len(t) /\ \A k \in 1 .. 9 : t[i + k] = MarkCodePoint(k)
  <2>1. ASSUME MarkAt(t, i), NEW k \in 1 .. 9 PROVE t[i + k] = MarkCodePoint(k)
    <3>1. CASE k = 1
      BY <2>1, <3>1, Zenon DEF MarkAt, MarkCodePoint
    <3>2. CASE k # 1
      <4>1. k - 1 \in 1 .. 8 /\ i + 1 + (k - 1) = i + k
        BY <3>2
      <4>2. QED
        BY <2>1, <3>2, <4>1, Zenon DEF MarkAt, MarkCodePoint
    <3>3. QED
      BY <3>1, <3>2
  <2>2. ASSUME i + 9 <= Len(t), \A k \in 1 .. 9 : t[i + k] = MarkCodePoint(k) PROVE MarkAt(t, i)
    <3>1. 1 \in 1 .. 9 /\ \A k \in 1 .. 8 : k + 1 \in 1 .. 9 /\ k + 1 # 1 /\ (k + 1) - 1 = k /\ i + (k + 1) = i + 1 + k
      OBVIOUS
    <3>2. t[i + 1] = MARKER
      BY <2>2, <3>1, Zenon DEF MarkCodePoint
    <3>3. ASSUME NEW k \in 1 .. 8 PROVE t[i + 1 + k] = ByteToSelector(MAGIC[k])
      <4>1. t[i + (k + 1)] = MarkCodePoint(k + 1) /\ MarkCodePoint(k + 1) = ByteToSelector(MAGIC[k])
        BY <2>2, <3>1, Zenon DEF MarkCodePoint
      <4>2. QED
        BY <3>1, <4>1, Zenon
    <3>4. QED
      BY <2>2, <3>2, <3>3, Zenon DEF MarkAt
  <2>3. QED
    BY <2>1, <2>2, Zenon DEF MarkAt
<1>3. QED
  BY <1>1, <1>2

(* A rewriting that touches only Latin letters makes no mark and breaks      *)
(* none.                                                                     *)
LEMMA MarksSurvive ==
  ASSUME NEW t \in Seq(CodePoint), NEW pieces \in Seq(Seq(CodePoint)), Len(pieces) = Len(t),
         \A i \in 1 .. Len(t) : t[i] \notin LatinCodePoints => pieces[i] = <<t[i]>>,
         \A i \in 1 .. Len(t) : t[i] \in LatinCodePoints =>
           \A j \in 1 .. Len(pieces[i]) : pieces[i][j] \in LatinCodePoints,
         \A i \in 1 .. Len(t) : pieces[i] = <<>> => i > 1 /\ t[i - 1] \in LatinCodePoints
  PROVE  Marks(FlattenSeq(pieces)) = {} <=> Marks(t) = {}
<1>1. PICK u : u = FlattenSeq(pieces)
  OBVIOUS
<1>2. PICK n \in Nat : n = Len(t) /\ n = Len(pieces)
  OBVIOUS
<1>. DEFINE l(k) == FlatLength(pieces, k)
<1>3. /\ Len(u) \in Nat /\ l(0) = 0 /\ l(n) = Len(u)
      /\ \A k \in 0 .. n : l(k) \in Nat
      /\ \A k \in 0 .. n - 1 :
           /\ l(k + 1) = l(k) + Len(pieces[k + 1])
           /\ \A j \in 1 .. Len(pieces[k + 1]) : l(k) + j <= Len(u) /\ u[l(k) + j] = pieces[k + 1][j]
      /\ \A p \in 1 .. Len(u) : \E k \in 0 .. n - 1 : l(k) < p /\ p <= l(k + 1)
  <2>1. /\ Len(u) \in Nat /\ l(0) = 0 /\ l(Len(pieces)) = Len(u)
        /\ \A k \in 0 .. Len(pieces) : l(k) \in Nat
        /\ \A k \in 0 .. Len(pieces) - 1 :
             /\ l(k + 1) = l(k) + Len(pieces[k + 1])
             /\ \A j \in 1 .. Len(pieces[k + 1]) : l(k) + j <= Len(u) /\ u[l(k) + j] = pieces[k + 1][j]
        /\ \A p \in 1 .. Len(u) : \E k \in 0 .. Len(pieces) - 1 : l(k) < p /\ p <= l(k + 1)
    BY <1>1, FlattenPlaces
  <2>. HIDE DEF l
  <2>2. QED
    BY <1>2, <2>1, Zenon
<1>. HIDE DEF l
<1>4. \A k \in 1 .. n : pieces[k] \in Seq(CodePoint) /\ Len(pieces[k]) \in Nat /\ (pieces[k] # <<>> => Len(pieces[k]) >= 1)
  BY <1>2
<1>5. ASSUME NEW k \in 0 .. n - 1
      PROVE  /\ k \in Nat /\ k \in 0 .. n /\ k + 1 \in 1 .. n /\ k + 1 \in 0 .. n /\ l(k) \in Nat
  BY <1>3
(* A code point that is not Latin is a piece of its own.                     *)
<1>6. ASSUME NEW k \in 0 .. n - 1, t[k + 1] \notin LatinCodePoints
      PROVE  l(k + 1) = l(k) + 1 /\ l(k) + 1 <= Len(u) /\ u[l(k) + 1] = t[k + 1]
  <2>1. pieces[k + 1] = <<t[k + 1]>>
    BY <1>2, <1>5, <1>6, Zenon
  <2>2. Len(<<t[k + 1]>>) = 1 /\ <<t[k + 1]>>[1] = t[k + 1] /\ 1 \in 1 .. 1
    OBVIOUS
  <2>3. QED
    BY <1>3, <2>1, <2>2, Zenon
<1>7. ASSUME NEW i \in Marks(t) PROVE Marks(u) # {}
  <2>1. i \in Nat /\ i + 9 <= n /\ \A k \in 1 .. 9 : t[i + k] \notin LatinCodePoints /\ t[i + k] = MarkCodePoint(k)
    <3>1. i \in Nat /\ MarkAt(t, i)
      BY DEF Marks
    <3>2. i + 9 <= n /\ \A k \in 1 .. 9 : t[i + k] = MarkCodePoint(k)
      BY <1>2, <3>1, MarkCodePoints, Zenon
    <3>3. QED
      BY <3>1, <3>2, MarkCodePoints, Zenon
  <2>. DEFINE T == {k \in 0 .. 9 : l(i + k) = l(i) + k}
  <2>2. i + 0 = i /\ l(i) \in Nat /\ 0 \in T
    BY <1>3, <2>1
  <2>3. ASSUME NEW k \in 0 .. 9, k \in T, k < 9 PROVE k + 1 \in T
    <3>0. i \in Nat /\ i + 9 <= n
      BY <2>1, Zenon
    <3>1. i + k \in 0 .. n - 1 /\ k + 1 \in 1 .. 9 /\ i + k + 1 = i + (k + 1) /\ k + 1 \in 0 .. 9
      BY <2>3, <3>0
    <3>2. l(i + k + 1) = l(i + k) + 1
      BY <1>6, <2>1, <3>1, Zenon
    <3>3. l(i) + k + 1 = l(i) + (k + 1)
      BY <2>2
    <3>4. QED
      BY <2>3, <3>1, <3>2, <3>3, Zenon
  <2>. HIDE DEF T
  <2>4. \A k \in 0 .. 9 : k \in T
    BY <2>2, <2>3, UpwardInduction
  <2>5. ASSUME NEW k \in 1 .. 9 PROVE u[l(i) + k] = MarkCodePoint(k) /\ l(i) + k <= Len(u)
    <3>1. PICK a \in 0 .. 8 : k = a + 1
      <4>1. k - 1 \in 0 .. 8 /\ k = (k - 1) + 1
        OBVIOUS
      <4>2. QED
        BY <4>1, Zenon
    <3>0. i \in Nat /\ i + 9 <= n
      BY <2>1, Zenon
    <3>2. /\ i + a \in 0 .. n - 1 /\ i + a + 1 = i + k /\ a \in 0 .. 9 /\ l(i) + a + 1 = l(i) + k
      BY <2>2, <3>0, <3>1
    <3>3. l(i + a) = l(i) + a
      BY <2>4, <3>2, Zenon DEF T
    <3>4. l(i + a) + 1 <= Len(u) /\ u[l(i + a) + 1] = t[i + a + 1]
      BY <1>6, <2>1, <3>2, Zenon
    <3>5. QED
      BY <2>1, <3>2, <3>3, <3>4, Zenon
  <2>6. l(i) + 9 <= Len(u) /\ l(i) \in 0 .. Len(u) - 1
    <3>1. 9 \in 1 .. 9
      OBVIOUS
    <3>2. l(i) + 9 <= Len(u)
      BY <2>5, <3>1, Zenon
    <3>3. QED
      BY <1>3, <2>2, <3>2
  <2>7. MarkAt(u, l(i))
    BY <2>2, <2>5, <2>6, MarkCodePoints, Zenon
  <2>8. QED
    BY <2>6, <2>7, Zenon DEF Marks
<1>8. ASSUME NEW i \in Marks(u) PROVE Marks(t) # {}
  <2>1. i \in Nat /\ i + 9 <= Len(u) /\ \A k \in 1 .. 9 : u[i + k] \notin LatinCodePoints /\ u[i + k] = MarkCodePoint(k)
    <3>1. i \in Nat /\ MarkAt(u, i)
      BY <1>3 DEF Marks
    <3>2. i + 9 <= Len(u) /\ \A k \in 1 .. 9 : u[i + k] = MarkCodePoint(k)
      BY <3>1, MarkCodePoints, Zenon
    <3>3. QED
      BY <3>1, <3>2, MarkCodePoints, Zenon
  (* Where a code point that is not Latin comes from.                              *)
  <2>2. ASSUME NEW k \in 0 .. n - 1, NEW j \in 1 .. Len(pieces[k + 1]),
               u[l(k) + j] \notin LatinCodePoints
        PROVE  t[k + 1] \notin LatinCodePoints /\ l(k + 1) = l(k) + 1 /\ j = 1 /\ u[l(k) + 1] = t[k + 1]
    <3>1. u[l(k) + j] = pieces[k + 1][j]
      BY <1>3, Zenon
    <3>2. t[k + 1] \notin LatinCodePoints
      BY <1>2, <1>5, <2>2, <3>1, Zenon
    <3>3. Len(pieces[k + 1]) = 1
      <4>1. pieces[k + 1] = <<t[k + 1]>>
        BY <1>2, <1>5, <3>2, Zenon
      <4>2. Len(<<t[k + 1]>>) = 1
        OBVIOUS
      <4>3. QED
        BY <4>1, <4>2, Zenon
    <3>4. j = 1
      BY <3>3
    <3>5. QED
      BY <1>6, <3>2, <3>4, Zenon
  <2>3. PICK k \in 0 .. n - 1 : l(k) < i + 1 /\ i + 1 <= l(k + 1)
    <3>1. i + 1 \in 1 .. Len(u)
      BY <1>3, <2>1
    <3>2. QED
      BY <1>3, <3>1, Zenon
  <2>4. t[k + 1] \notin LatinCodePoints /\ l(k + 1) = i + 1 /\ t[k + 1] = u[i + 1]
    <3>1. PICK x \in Nat : x = l(k)
      BY <1>5, Zenon
    <3>2. PICK y \in Nat : y = Len(pieces[k + 1])
      BY <1>4, <1>5, Zenon
    <3>3. x < i + 1 /\ i + 1 <= x + y
      BY <1>3, <2>3, <3>1, <3>2, Zenon
    <3>4. PICK j \in 1 .. y : i + 1 = x + j
      <4>1. i + 1 - x \in 1 .. y /\ i + 1 = x + (i + 1 - x)
        BY <2>1, <3>3
      <4>2. QED
        BY <4>1, Zenon
    <3>5. 1 \in 1 .. 9 /\ u[i + 1] \notin LatinCodePoints
      BY <2>1
    <3>6. t[k + 1] \notin LatinCodePoints /\ l(k + 1) = l(k) + 1 /\ j = 1 /\ u[l(k) + 1] = t[k + 1]
      BY <2>2, <3>1, <3>2, <3>4, <3>5, Zenon
    <3>7. QED
      BY <3>1, <3>4, <3>6, Zenon
  <2>. DEFINE T == {m \in 1 .. 9 : k + m <= n /\ l(k + m) = i + m /\ t[k + m] = u[i + m]}
  <2>5. 1 \in T
    BY <1>5, <2>4
  <2>6. ASSUME NEW m \in 1 .. 9, m \in T, m < 9 PROVE m + 1 \in T
    <3>0. PICK a : a = k + m
      OBVIOUS
    <3>1. /\ a \in Nat /\ a <= n /\ a \in 1 .. n /\ a + 1 = k + (m + 1) /\ (a + 1) - 1 = a
          /\ m + 1 \in 1 .. 9 /\ i + m + 1 = i + (m + 1) /\ i + m < Len(u)
      BY <1>2, <1>5, <2>1, <2>6, <3>0
    <3>2. l(a) = i + m /\ t[a] = u[i + m]
      BY <2>6, <3>0, Zenon
    <3>3. a # n
      BY <1>3, <2>1, <3>1, <3>2
    <3>4. a \in 0 .. n - 1 /\ a + 1 \in 1 .. n /\ a + 1 <= n
      BY <3>1, <3>3
    <3>5. t[a] \notin LatinCodePoints
      BY <2>1, <3>2, Zenon
    <3>6. pieces[a + 1] # <<>>
      BY <1>2, <3>1, <3>4, <3>5, Zenon
    <3>7. 1 \in 1 .. Len(pieces[a + 1])
      BY <1>4, <3>4, <3>6
    <3>8. u[l(a) + 1] \notin LatinCodePoints
      BY <2>1, <3>1, <3>2, Zenon
    <3>9. l(a + 1) = l(a) + 1 /\ u[l(a) + 1] = t[a + 1]
      BY <2>2, <3>4, <3>7, <3>8, Zenon
    <3>10. QED
      BY <3>1, <3>2, <3>4, <3>9, Zenon
  <2>. HIDE DEF T
  <2>7. \A m \in 1 .. 9 : m \in T
    BY <2>5, <2>6, UpwardInduction
  <2>8. k \in Nat /\ k + 9 <= n /\ \A m \in 1 .. 9 : t[k + m] = MarkCodePoint(m)
    <3>1. 9 \in 1 .. 9
      OBVIOUS
    <3>2. QED
      BY <1>5, <2>1, <2>7, <3>1, Zenon DEF T
  <2>9. MarkAt(t, k)
    BY <1>2, <2>8, MarkCodePoints, Zenon
  <2>10. k \in 0 .. Len(t) - 1
    BY <1>2, <2>8
  <2>11. QED
    BY <2>9, <2>10, Zenon DEF Marks
<1>9. QED
  BY <1>1, <1>7, <1>8, Zenon

LEMMA NfcMarks ==
  ASSUME NEW t \in Seq(CodePoint)
  PROVE  Marks(Nfc(t)) = {} <=> Marks(t) = {}
<1>1. \A x : Len(<<x>>) = 1 /\ <<x>>[1] = x
  OBVIOUS
<1>0. \A x : <<x>> # <<>>
  OBVIOUS
<1>2. PICK d : d = Decomposed(t)
  BY Zenon
<1>3. d \in Seq(CodePoint) /\ \A i \in 1 .. Len(d) : d[i] # Composed
  BY <1>2, DecomposedReads, Zenon
<1>4. Marks(d) = {} <=> Marks(t) = {}
  <2>1. PICK pieces : pieces = Pieces(Decomposition, t)
    BY Zenon
  <2>2. /\ pieces \in Seq(Seq(CodePoint)) /\ Len(pieces) = Len(t)
        /\ \A j \in 1 .. Len(t) : pieces[j] = Decomposition[t[j]]
    <3>1. Pieces(Decomposition, t) \in Seq(Seq(CodePoint))
      BY DecompositionType, PiecesType
    <3>2. \A j \in 1 .. Len(t) : Pieces(Decomposition, t)[j] = Decomposition[t[j]]
      BY PiecesRead
    <3>4. Len(Pieces(Decomposition, t)) = Len(t)
      BY PiecesRead
    <3>3. QED
      BY <2>1, <3>1, <3>2, <3>4, Zenon
  <2>3. d = FlattenSeq(pieces)
    BY <1>2, <2>1, DecomposedIsPiecewise, Zenon DEF Piecewise
  <2>4. \A j \in 1 .. Len(t) : pieces[j] = IF t[j] = Composed THEN <<Letter, Acute>> ELSE <<t[j]>>
    <3>1. \A j \in 1 .. Len(t) : j \in DOMAIN t
      OBVIOUS
    <3>2. QED
      BY <2>2, <3>1, DecomposedIsPiecewise, Zenon
  <2>5. \A j \in 1 .. Len(t) : t[j] \notin LatinCodePoints => pieces[j] = <<t[j]>>
    BY <2>4, Zenon DEF LatinCodePoints
  <2>6. ASSUME NEW j \in 1 .. Len(t), t[j] \in LatinCodePoints, NEW k \in 1 .. Len(pieces[j])
        PROVE  pieces[j][k] \in LatinCodePoints
    <3>1. CASE t[j] = Composed
      <4>1. pieces[j] = <<Letter, Acute>>
        BY <2>4, <3>1, Zenon
      <4>2. \A m \in 1 .. Len(<<Letter, Acute>>) : <<Letter, Acute>>[m] \in {Letter, Acute}
        OBVIOUS
      <4>3. QED
        BY <4>1, <4>2, Zenon DEF LatinCodePoints
    <3>2. CASE t[j] # Composed
      <4>1. pieces[j] = <<t[j]>>
        BY <2>4, <3>2, Zenon
      <4>2. \A x : \A m \in 1 .. Len(<<x>>) : <<x>>[m] = x
        OBVIOUS
      <4>3. QED
        BY <2>6, <4>1, <4>2, ZenonT(40)
    <3>3. QED
      BY <3>1, <3>2
  <2>7. \A j \in 1 .. Len(t) : pieces[j] # <<>>
    <3>1. <<Letter, Acute>> # <<>>
      OBVIOUS
    <3>2. QED
      BY <1>0, <2>4, <3>1, Zenon
  <2>8. QED
    BY <2>2, <2>3, <2>5, <2>6, <2>7, MarksSurvive, Zenon
<1>5. Marks(Nfc(t)) = {} <=> Marks(d) = {}
  <2>1. PICK pieces : pieces = [i \in DOMAIN d |-> NfcPiece(d, i)]
    BY Zenon
  <2>2. /\ pieces \in Seq(Seq(CodePoint)) /\ Len(pieces) = Len(d)
        /\ \A i \in 1 .. Len(d) : pieces[i] = NfcPiece(d, i)
        /\ Nfc(t) = FlattenSeq(pieces)
    BY <1>2, <2>1, NfcPieces, Zenon
  <2>3. ASSUME NEW j \in 1 .. Len(d)
        PROVE  j > 1 => j - 1 + 1 = j
    OBVIOUS
  <2>4. \A j \in 1 .. Len(d) : d[j] \notin LatinCodePoints => pieces[j] = <<d[j]>>
    <3>. TAKE j \in 1 .. Len(d)
    <3>. HAVE d[j] \notin LatinCodePoints
    <3>1. ~ ComposesAt(d, j)
      BY Zenon DEF ComposesAt, LatinCodePoints
    <3>2. ~ (j > 1 /\ ComposesAt(d, j - 1))
      BY <2>3, Zenon DEF ComposesAt, LatinCodePoints
    <3>3. QED
      BY <2>2, <3>1, <3>2, Zenon DEF NfcPiece
  <2>5. ASSUME NEW j \in 1 .. Len(d), d[j] \in LatinCodePoints, NEW k \in 1 .. Len(pieces[j])
        PROVE  pieces[j][k] \in LatinCodePoints
    <3>1. pieces[j] = <<Composed>> \/ pieces[j] = <<>> \/ pieces[j] = <<d[j]>>
      BY <2>2, Zenon DEF NfcPiece
    <3>2. pieces[j] # <<>>
      <4>1. 1 .. Len(<<>>) = {}
        OBVIOUS
      <4>2. QED
        BY <2>5, <4>1, Zenon
    <3>3. \A x : \A m \in 1 .. Len(<<x>>) : <<x>>[m] = x
      OBVIOUS
    <3>4. Composed \in LatinCodePoints
      BY Zenon DEF LatinCodePoints
    <3>5. PICK x \in LatinCodePoints : pieces[j] = <<x>>
      BY <2>5, <3>1, <3>2, <3>4, Zenon
    <3>6. k \in 1 .. Len(<<x>>)
      BY <3>5, Zenon
    <3>7. <<x>>[k] = x
      BY <3>3, <3>6, Zenon
    <3>8. QED
      BY <3>5, <3>7, Zenon
  <2>6. \A j \in 1 .. Len(d) : pieces[j] = <<>> => j > 1 /\ d[j - 1] \in LatinCodePoints
    <3>. TAKE j \in 1 .. Len(d)
    <3>. HAVE pieces[j] = <<>>
    <3>1. j > 1 /\ ComposesAt(d, j - 1)
      BY <1>0, <2>2, Zenon DEF NfcPiece
    <3>2. QED
      BY <3>1, Zenon DEF ComposesAt, LatinCodePoints
  <2>7. QED
    BY <1>3, <2>2, <2>4, <2>5, <2>6, MarksSurvive, Zenon
<1>6. QED
  BY <1>4, <1>5

----------------------------------------------------------------------------
(* What the history of a text comes to: the inductive invariant.             *)

(* What embed has signed, and what it is about to sign.                      *)
Instants == Times \cup UNION {context.when : context \in Contexts}
Hashes == [alg : Algorithms, of : Seq(CodePoint)]

Drafts ==
  [source : Seq(CodePoint), start : Nat, hash : Hashes, algorithm : Algorithms,
   chain : Signers, when : Instants]

Manifests ==
  [payload : Seq(Byte), start : Nat, length : Nat, source : Seq(CodePoint), hash : Hashes,
   algorithm : Algorithms, chain : Signers, when : Instants, marked : Seq(CodePoint)]

TypesHold == text \in Seq(CodePoint) /\ issued \in Seq(Manifests) /\ draft \subseteq Drafts

(* What a draft or a manifest says of its source is true of a text that      *)
(* embed accepts.                                                            *)
SaysTheTruth(m) ==
  /\ m.start = Len(Encoded(Nfc(m.source))) /\ m.hash = Digest(m.algorithm, Nfc(m.source))
  /\ Marks(m.source) = {} /\ ~ TooManyNonstarters(m.source)
  /\ ValidWhenClaimed(m.chain, m.when)

DraftsAreOfTheText ==
  \A d \in draft : SaysTheTruth(d) /\ d.source = text /\ Len(issued) < MaxMarks

(* The manifest that the i-th mark holds.                                    *)
IssuedAs(m, i) ==
  /\ SaysTheTruth(m)
  /\ m.payload # <<>> /\ m.payload[1] = i /\ Len(m.payload) <= MaxManifestLength
  /\ m.length = Utf8Length(BuildWrapper(m.payload))
  /\ m.marked = Nfc(m.source) \o BuildWrapper(m.payload)

ManifestsAreTrue == \A i \in DOMAIN issued : IssuedAs(issued[i], i)

HistoryInvariant == TypesHold /\ DraftsAreOfTheText /\ ManifestsAreTrue /\ Len(issued) <= MaxMarks

LEMMA AnswersOf ==
  ASSUME NEW t \in Seq(CodePoint)
  PROVE  /\ Marks(t) = {} <=> Wrappers(t) = {} /\ CorruptCandidates(t) = {}
         /\ (\A a \in Answers("find_wrappers", t) : a.kind # "corrupt") /\ Wrappers(t) = {}
              => Marks(t) = {}
         /\ CorruptCandidates(t) = {} => Answers("strip", t) = {[kind |-> "text", text |-> Without(t)]}
         /\ \A a \in Answers("strip", t) : a.kind = "text" => a.text = Without(t)
         /\ Without(t) \in Seq(CodePoint)
<1>1. Marks(t) = {} <=> Wrappers(t) = {} /\ CorruptCandidates(t) = {}
  BY MarksAre
<1>2. ASSUME CorruptCandidates(t) # {}
      PROVE  /\ \A o : o = "strip" \/ Wrappers(t) = {} =>
                  Answers(o, t) = {[kind |-> "corrupt", offset |-> n] : n \in CorruptOffsets(t)}
             /\ CorruptOffsets(t) # {}
  <2>1. \A o : o = "strip" \/ Wrappers(t) = {} =>
          Answers(o, t) = {[kind |-> "corrupt", offset |-> n] : n \in CorruptOffsets(t)}
    BY <1>2, Zenon DEF Answers
  <2>. DEFINE first == Min(CorruptCandidates(t))
  <2>2. first \in 0 .. Len(t) - 1
    <3>1. CorruptCandidates(t) \in SUBSET Nat /\ CorruptCandidates(t) \subseteq 0 .. Len(t) - 1
      BY DEF CorruptCandidates, MarkersFrom
    <3>2. \E n \in CorruptCandidates(t) : \A m \in CorruptCandidates(t) : n <= m
      BY <1>2, <3>1, LeastElement
    <3>3. first \in CorruptCandidates(t)
      BY <3>2, Zenon DEF Min
    <3>4. QED
      BY <3>1, <3>3
  <2>. HIDE DEF first
  <2>3. first + 1 \in 0 .. Len(t) /\ first + 1 \in Nat
    BY <2>2
  <2>4. RunLength(t, first + 1) \in Nat
    <3>1. MAX_SELECTOR_RUN \in Nat
      BY MaxManifestLengthAssumption, SMTT(30) DEF MAX_SELECTOR_RUN, HEADER_SIZE, LengthRange
    <3>2. RunLength(t, first + 1) \in 0 .. MAX_SELECTOR_RUN
      BY <2>3, RunLengthIsLongest
    <3>3. QED
      BY <3>1, <3>2
  <2>5. first + 1 \in first + 1 .. first + 1 + RunLength(t, first + 1)
    BY <2>3, <2>4
  <2>6. Utf8Length(SubSeq(t, 1, first + 1)) \in CorruptOffsets(t)
    BY <2>5, Zenon DEF CorruptOffsets, first
  <2>7. QED
    BY <2>1, <2>6
<1>3. ASSUME CorruptCandidates(t) = {}
      PROVE  Answers("strip", t) = {[kind |-> "text", text |-> Without(t)]}
  BY <1>3 DEF Answers
<1>4. ASSUME \A a \in Answers("find_wrappers", t) : a.kind # "corrupt", Wrappers(t) = {}
      PROVE  Marks(t) = {}
  <2>1. CASE CorruptCandidates(t) # {}
    <3>1. PICK n : n \in CorruptOffsets(t)
      BY <1>2, <2>1
    <3>2. [kind |-> "corrupt", offset |-> n] \in Answers("find_wrappers", t)
      BY <1>2, <1>4, <2>1, <3>1, Zenon
    <3>3. [kind |-> "corrupt", offset |-> n].kind = "corrupt"
      OBVIOUS
    <3>4. QED
      BY <1>4, <3>2, <3>3, Zenon
  <2>2. QED
    BY <1>1, <1>4, <2>1
<1>5. ASSUME NEW a \in Answers("strip", t), a.kind = "text" PROVE a.text = Without(t)
  <2>1. CorruptCandidates(t) = {}
    <3>. SUFFICES ASSUME CorruptCandidates(t) # {} PROVE FALSE
      OBVIOUS
    <3>1. \A n : [kind |-> "corrupt", offset |-> n].kind # "text"
      OBVIOUS
    <3>2. QED
      BY <1>2, <1>5, <3>1, Zenon
  <2>2. [kind |-> "text", text |-> Without(t)].text = Without(t)
    OBVIOUS
  <2>3. QED
    BY <1>3, <2>1, <2>2, Zenon
<1>6. Without(t) \in Seq(CodePoint)
  <2>. DEFINE kept(i) == IF i \in InWrappers(t) THEN <<>> ELSE <<t[i]>>
              left == [i \in DOMAIN t |-> kept(i)]
  <2>1. \A i \in DOMAIN t : kept(i) \in Seq(CodePoint)
    <3>1. <<>> \in Seq(CodePoint) /\ \A i \in DOMAIN t : <<t[i]>> \in Seq(CodePoint)
      OBVIOUS
    <3>2. QED
      BY <3>1, Zenon
  <2>2. DOMAIN t = 1 .. Len(t) /\ Len(t) \in Nat
    OBVIOUS
  <2>. HIDE DEF kept
  <2>3. left \in Seq(Seq(CodePoint))
    BY <2>1, <2>2
  <2>4. FlattenSeq(left) \in Seq(CodePoint)
    BY <2>3, FlattenType
  <2>5. QED
    BY <2>4, Zenon DEF Without, kept
<1>7. QED
  BY <1>1, <1>3, <1>4, <1>5, <1>6

LEMMA HistoryInitially == Init => HistoryInvariant
<1>. SUFFICES ASSUME Init PROVE HistoryInvariant
  OBVIOUS
<1>1. text \in Seq(CodePoint) /\ issued = <<>> /\ draft = {}
  BY AuthoredAssumption, Zenon DEF Init
<1>2. <<>> \in Seq(Manifests) /\ Len(<<>>) = 0 /\ DOMAIN <<>> = {}
  OBVIOUS
<1>3. Len(issued) <= MaxMarks
  BY <1>1, <1>2, MaxMarksAssumption DEF Byte
<1>4. TypesHold /\ DraftsAreOfTheText /\ ManifestsAreTrue
  BY <1>1, <1>2, Zenon DEF TypesHold, DraftsAreOfTheText, ManifestsAreTrue
<1>5. QED
  BY <1>3, <1>4 DEF HistoryInvariant

(* What embed makes of a text that it does not refuse.                       *)
LEMMA DraftIsTrue ==
  ASSUME TypesHold, NEW chain \in Signers, NEW context \in Contexts, NEW now \in Times,
         NEW when, when = When(context, now), Refusal(chain, context, when) = "nothing"
  PROVE  LET d == Draft(chain, context, when)
         IN  d \in Drafts /\ SaysTheTruth(d) /\ d.source = text
<1>. DEFINE d == Draft(chain, context, when)
<1>1. text \in Seq(CodePoint)
  BY Zenon DEF TypesHold
<1>2. /\ context.algorithm \in Algorithms /\ ValidWhenClaimed(chain, when)
      /\ ~ \E a \in Answers("find_wrappers", text) : a.kind = "corrupt"
      /\ Wrappers(text) = {} /\ ~ TooManyNonstarters(text)
  BY DEF Refusal
<1>3. Marks(text) = {}
  BY <1>1, <1>2, AnswersOf, Zenon
<1>4. /\ d.source = text /\ d.start = Len(Encoded(Nfc(text)))
      /\ d.hash = Digest(context.algorithm, Nfc(text)) /\ d.algorithm = context.algorithm
      /\ d.chain = chain /\ d.when = when
  BY DEF Draft
<1>5. when \in Instants
  <2>1. CASE context.when = {}
    BY <2>1, Zenon DEF When, Instants
  <2>2. CASE context.when # {}
    <3>1. when \in context.when
      BY <2>2, Zenon DEF When
    <3>2. QED
      BY <3>1, Zenon DEF Instants
  <2>3. QED
    BY <2>1, <2>2
<1>6. Len(Encoded(Nfc(text))) \in Nat
  <2>1. Encoded(Nfc(text)) \in Seq(Byte)
    BY <1>1, NfcType, EncodedType
  <2>2. QED
    BY <2>1
<1>7. Digest(context.algorithm, Nfc(text)) \in Hashes
  BY <1>1, <1>2, NfcType DEF Digest, Hashes
<1>8. d \in Drafts
  BY <1>1, <1>2, <1>5, <1>6, <1>7 DEF Draft, Drafts
<1>9. SaysTheTruth(d)
  BY <1>2, <1>3, <1>4, Zenon DEF SaysTheTruth
<1>10. QED
  BY <1>4, <1>8, <1>9

LEMMA HistoryAfterEmbed == HistoryInvariant /\ Embed => HistoryInvariant'
<1>. SUFFICES ASSUME HistoryInvariant, Embed PROVE HistoryInvariant'
  OBVIOUS
<1>1. /\ TypesHold /\ DraftsAreOfTheText /\ ManifestsAreTrue /\ Len(issued) <= MaxMarks
      /\ text' = text /\ issued' = issued /\ Len(issued) < MaxMarks
  BY Zenon DEF HistoryInvariant, Embed, MayMark
<1>2. \/ draft' = draft
      \/ \E d : draft' = {d} /\ d \in Drafts /\ SaysTheTruth(d) /\ d.source = text
  <2>1. PICK chain \in Signers, context \in Contexts, now \in Times :
          \E when \in {When(context, now)} : \E why \in {Refusal(chain, context, when)} :
            \/ why # "nothing" /\ answer' = Raised(why) /\ UNCHANGED <<draft, search>>
            \/ /\ why = "nothing" /\ draft' = {Draft(chain, context, when)}
               /\ search' = Searching /\ answer' = [kind |-> "none"]
    BY Zenon DEF Embed
  <2>2. PICK when : /\ when = When(context, now)
                    /\ \/ draft' = draft
                       \/ /\ Refusal(chain, context, when) = "nothing"
                          /\ draft' = {Draft(chain, context, when)}
    BY <2>1
  <2>3. QED
    BY <1>1, <2>2, DraftIsTrue, Zenon
<1>3. TypesHold'
  BY <1>1, <1>2, Zenon DEF TypesHold
<1>4. DraftsAreOfTheText'
  BY <1>1, <1>2, Zenon DEF DraftsAreOfTheText, SaysTheTruth
<1>5. ManifestsAreTrue'
  BY <1>1, Zenon DEF ManifestsAreTrue
<1>6. QED
  BY <1>1, <1>3, <1>4, <1>5, Zenon DEF HistoryInvariant

(* The actions that leave the manifests alone, when no draft waits.          *)
LEMMA HistoryAfterEdit ==
  HistoryInvariant /\ draft = {} /\ draft' = draft /\ issued' = issued /\ text' \in Seq(CodePoint)
    => HistoryInvariant'
<1>. SUFFICES ASSUME HistoryInvariant, draft = {}, draft' = draft, issued' = issued, text' \in Seq(CodePoint)
              PROVE  HistoryInvariant'
  OBVIOUS
<1>1. TypesHold /\ ManifestsAreTrue /\ Len(issued) <= MaxMarks
  BY Zenon DEF HistoryInvariant
<1>2. TypesHold'
  BY <1>1, Zenon DEF TypesHold
<1>3. DraftsAreOfTheText'
  BY Zenon DEF DraftsAreOfTheText
<1>4. ManifestsAreTrue'
  BY <1>1, Zenon DEF ManifestsAreTrue
<1>5. QED
  BY <1>1, <1>2, <1>3, <1>4, Zenon DEF HistoryInvariant

(* The payload of the next mark.                                             *)
LEMMA PayloadReads ==
  ASSUME TypesHold, Len(issued) < MaxMarks, NEW payload \in Payloads
  PROVE  payload \in Seq(Byte) /\ payload # <<>> /\ payload[1] = Len(issued) + 1
<1>1. PICK padding \in Paddings : payload = <<Len(issued) + 1>> \o padding
  BY Zenon DEF Payloads
<1>2. padding \in Seq(Byte)
  BY PaddingsAssumption
<1>3. Len(issued) \in Nat
  BY DEF TypesHold
<1>4. PICK c \in Byte : c = Len(issued) + 1
  <2>1. MaxMarks \in 0 .. 255
    BY MaxMarksAssumption DEF Byte
  <2>2. Len(issued) + 1 \in Byte
    <3>1. PICK l \in Nat : l = Len(issued)
      BY <1>3, Zenon
    <3>2. PICK b \in 0 .. 255 : b = MaxMarks
      BY <2>1, Zenon
    <3>3. l < b
      BY <3>1, <3>2, Zenon
    <3>4. l + 1 \in 0 .. 255
      BY <3>3
    <3>5. QED
      BY <3>1, <3>4, Zenon DEF Byte
  <2>3. QED
    BY <2>2, Zenon
<1>5. \A q \in Seq(Byte) : <<c>> \o q \in Seq(Byte) /\ (<<c>> \o q)[1] = c /\ Len(<<c>> \o q) = 1 + Len(q)
  OBVIOUS
<1>6. payload = <<c>> \o padding
  BY <1>1, <1>4, Zenon
<1>7. payload \in Seq(Byte) /\ payload[1] = c /\ Len(payload) = 1 + Len(padding)
  BY <1>2, <1>5, <1>6, Zenon
<1>8. payload # <<>>
  BY <1>2, <1>7
<1>9. QED
  BY <1>4, <1>7, <1>8, Zenon

LEMMA WrapperType ==
  ASSUME NEW payload \in Seq(Byte), Len(payload) <= MaxManifestLength
  PROVE  BuildWrapper(payload) \in Seq(CodePoint) /\ Utf8Length(BuildWrapper(payload)) \in Nat
<1>1. BuildWrapper(payload) \in Seq(CodePoint)
  BY BuiltReads, Zenon
<1>2. QED
  BY <1>1, Utf8BytesFinite, Zenon

(* What embed returns, and the manifest in it.                               *)
LEMMA SignedManifestIsTrue ==
  ASSUME HistoryInvariant, draft # {}, NEW payload \in Payloads, Sign(payload)
  PROVE  \E m \in Manifests :
           /\ issued' = Append(issued, m) /\ IssuedAs(m, Len(issued) + 1)
           /\ m.source = text /\ text' = m.marked /\ Len(issued) < MaxMarks
           /\ m.payload = payload
<1>1. PICK d \in draft, n \in WrapperLengths :
        /\ search' = [phase |-> "found", declared |-> n, payload |-> Len(payload),
                      length |-> Utf8Length(BuildWrapper(payload))]
        /\ Solve!Find
        /\ issued' = Append(issued, [payload |-> payload, start |-> d.start, length |-> n,
             source |-> d.source, hash |-> d.hash, algorithm |-> d.algorithm,
             chain |-> d.chain, when |-> d.when, marked |-> Nfc(d.source) \o BuildWrapper(payload)])
        /\ text' = Nfc(d.source) \o BuildWrapper(payload)
  BY Zenon DEF Sign
<1>2. TypesHold /\ SaysTheTruth(d) /\ d.source = text /\ Len(issued) < MaxMarks /\ d \in Drafts
  BY Zenon DEF HistoryInvariant, DraftsAreOfTheText, TypesHold
<1>3. payload \in Seq(Byte) /\ payload # <<>> /\ payload[1] = Len(issued) + 1
  BY <1>2, PayloadReads, Zenon
<1>4. Len(payload) <= MaxManifestLength /\ n = Utf8Length(BuildWrapper(payload))
  <2>1. search'.payload \in {k \in Nat : k <= MaxManifestLength} /\ search'.declared = search'.length
    BY <1>1, Zenon DEF Solve!Find
  <2>2. /\ search'.payload = Len(payload) /\ search'.declared = n
        /\ search'.length = Utf8Length(BuildWrapper(payload))
    BY <1>1
  <2>3. Len(payload) \in {k \in Nat : k <= MaxManifestLength}
    BY <2>1, <2>2, Zenon
  <2>4. QED
    BY <2>1, <2>2, <2>3
<1>. DEFINE W == BuildWrapper(payload)
            before == Nfc(d.source)
            m == [payload |-> payload, start |-> d.start, length |-> n,
                  source |-> d.source, hash |-> d.hash, algorithm |-> d.algorithm,
                  chain |-> d.chain, when |-> d.when, marked |-> before \o W]
<1>5. W \in Seq(CodePoint) /\ Utf8Length(W) \in Nat
  BY <1>3, <1>4, WrapperType
<1>6. before \in Seq(CodePoint)
  <2>1. d.source \in Seq(CodePoint)
    BY <1>2 DEF TypesHold
  <2>2. QED
    BY <2>1, NfcType
<1>. HIDE DEF W, before
<1>7. before \o W \in Seq(CodePoint)
  BY <1>5, <1>6
<1>8. /\ m.payload = payload /\ m.start = d.start /\ m.length = n /\ m.source = d.source
      /\ m.hash = d.hash /\ m.algorithm = d.algorithm /\ m.chain = d.chain /\ m.when = d.when
      /\ m.marked = before \o W
  OBVIOUS
<1>9. m \in Manifests
  <2>1. n \in Nat
    BY <1>4, <1>5, Zenon DEF W
  <2>2. /\ d.source \in Seq(CodePoint) /\ d.start \in Nat /\ d.hash \in Hashes
        /\ d.algorithm \in Algorithms /\ d.chain \in Signers /\ d.when \in Instants
    BY <1>2 DEF Drafts
  <2>3. QED
    BY <1>3, <1>7, <2>1, <2>2 DEF Manifests
<1>10. issued' = Append(issued, m) /\ text' = m.marked
  BY <1>1, <1>8, Zenon DEF W, before
<1>. HIDE DEF m
<1>11. IssuedAs(m, Len(issued) + 1)
  BY <1>2, <1>3, <1>4, <1>8, Zenon DEF IssuedAs, SaysTheTruth, W, before
<1>12. QED
  BY <1>2, <1>8, <1>9, <1>10, <1>11, Zenon

LEMMA HistoryAfterFinish == HistoryInvariant /\ FinishEmbed => HistoryInvariant'
<1>. SUFFICES ASSUME HistoryInvariant, FinishEmbed PROVE HistoryInvariant'
  OBVIOUS
<1>1. TypesHold /\ ManifestsAreTrue /\ Len(issued) <= MaxMarks /\ draft # {} /\ draft' = {}
  BY Zenon DEF HistoryInvariant, FinishEmbed
<1>2. DraftsAreOfTheText'
  BY <1>1, Zenon DEF DraftsAreOfTheText
<1>3. CASE \E payload \in Payloads : Sign(payload)
  <2>1. PICK m \in Manifests : /\ issued' = Append(issued, m) /\ IssuedAs(m, Len(issued) + 1)
                               /\ text' = m.marked /\ Len(issued) < MaxMarks
    BY <1>1, <1>3, SignedManifestIsTrue, Zenon
  <2>2. issued \in Seq(Manifests) /\ Len(issued) \in Nat
    BY <1>1 DEF TypesHold
  <2>3. /\ issued' \in Seq(Manifests) /\ Len(issued') = Len(issued) + 1
        /\ DOMAIN issued' = 1 .. Len(issued) + 1 /\ DOMAIN issued = 1 .. Len(issued)
        /\ \A i \in 1 .. Len(issued) : issued'[i] = issued[i]
        /\ issued'[Len(issued) + 1] = m
    BY <2>1, <2>2
  <2>4. text' \in Seq(CodePoint)
    <3>1. m.marked \in Seq(CodePoint)
      BY DEF Manifests
    <3>2. QED
      BY <2>1, <3>1, Zenon
  <2>5. TypesHold'
    BY <1>1, <2>3, <2>4, Zenon DEF TypesHold
  <2>6. ManifestsAreTrue'
    <3>1. ASSUME NEW i \in DOMAIN issued' PROVE IssuedAs(issued'[i], i)
      <4>1. CASE i = Len(issued) + 1
        BY <2>1, <2>3, <4>1, Zenon
      <4>2. CASE i # Len(issued) + 1
        <5>1. i \in 1 .. Len(issued)
          BY <2>2, <2>3, <4>2
        <5>2. QED
          BY <1>1, <2>3, <5>1, Zenon DEF ManifestsAreTrue
      <4>3. QED
        BY <4>1, <4>2
    <3>2. QED
      BY <3>1, Zenon DEF ManifestsAreTrue, IssuedAs, SaysTheTruth
  <2>7. Len(issued') <= MaxMarks
    BY <2>1, <2>2, <2>3, MaxMarksAssumption DEF Byte
  <2>8. QED
    BY <1>2, <2>5, <2>6, <2>7 DEF HistoryInvariant
<1>4. CASE UNCHANGED <<text, issued>>
  <2>1. text' = text /\ issued' = issued
    BY <1>4
  <2>2. TypesHold' /\ ManifestsAreTrue'
    BY <1>1, <2>1, Zenon DEF TypesHold, ManifestsAreTrue
  <2>3. QED
    BY <1>1, <1>2, <2>1, <2>2, Zenon DEF HistoryInvariant
<1>5. QED
  BY <1>3, <1>4, Zenon DEF FinishEmbed

LEMMA SplicedType ==
  ASSUME text \in Seq(CodePoint), NEW at \in 0 .. Len(text), NEW inserted \in Seq(CodePoint), NEW skipped \in Nat
  PROVE  Spliced(at, inserted, skipped) \in Seq(CodePoint)
<1>1. Len(text) \in Nat /\ at + skipped + 1 \in Nat \ {0}
  OBVIOUS
<1>2. SubSeq(text, 1, at) \in Seq(CodePoint)
  OBVIOUS
<1>3. SubSeq(text, at + skipped + 1, Len(text)) \in Seq(CodePoint)
  BY <1>1
<1>4. \A a, b \in Seq(CodePoint) : a \o b \in Seq(CodePoint)
  OBVIOUS
<1>5. QED
  BY <1>2, <1>3, <1>4, Zenon DEF Spliced

LEMMA HistoryAfterRest == HistoryInvariant /\ (Strip \/ Edit) => HistoryInvariant'
<1>. SUFFICES ASSUME HistoryInvariant, Strip \/ Edit PROVE HistoryInvariant'
  OBVIOUS
<1>1. text \in Seq(CodePoint) /\ TypesHold /\ ManifestsAreTrue
  BY Zenon DEF HistoryInvariant, TypesHold
<1>2. ASSUME NEW t \in Seq(CodePoint), Rewrite(t) PROVE HistoryInvariant'
  BY <1>2, HistoryAfterEdit, Zenon DEF Rewrite
<1>3. CASE Strip
  <2>1. text' \in Seq(CodePoint)
    BY <1>1, <1>3, AnswersOf, Zenon DEF Strip
  <2>2. QED
    BY <1>3, <2>1, HistoryAfterEdit, Zenon DEF Strip
<1>4. CASE Type
  <2>1. PICK at \in 0 .. Len(text), c \in TypedCharacters : Rewrite(Spliced(at, <<c>>, 0))
    BY <1>4, Zenon DEF Type
  <2>2. c \in CodePoint
    <3>1. 7 \in Byte
      BY DEF Byte
    <3>2. ByteToSelector(7) \in CodePoint
      BY <3>1, CodecRoundTrip
    <3>3. MARKER \in CodePoint
      BY SMTT(30) DEF MARKER, CodePoint
    <3>4. QED
      BY <3>2, <3>3, LatinLetters, Zenon DEF TypedCharacters
  <2>3. <<c>> \in Seq(CodePoint) /\ 0 \in Nat
    BY <2>2
  <2>4. QED
    BY <1>1, <1>2, <2>1, <2>3, SplicedType, Zenon
<1>5. CASE Erase
  <2>1. PICK at \in 0 .. Len(text) - 1 : Rewrite(Spliced(at, <<>>, 1))
    BY <1>5, Zenon DEF Erase
  <2>2. at \in 0 .. Len(text) /\ <<>> \in Seq(CodePoint) /\ 1 \in Nat
    BY <1>1
  <2>3. QED
    BY <1>1, <1>2, <2>1, <2>2, SplicedType, Zenon
<1>6. CASE PasteMark
  <2>1. PICK i \in DOMAIN issued, at \in 0 .. Len(text) : Rewrite(Spliced(at, BuildWrapper(issued[i].payload), 0))
    BY <1>6, Zenon DEF PasteMark
  <2>2. issued[i].payload \in Seq(Byte) /\ Len(issued[i].payload) <= MaxManifestLength
    <3>1. issued[i] \in Manifests
      BY <1>1 DEF TypesHold
    <3>2. issued[i].payload \in Seq(Byte)
      BY <3>1 DEF Manifests
    <3>3. QED
      BY <1>1, <3>2, Zenon DEF ManifestsAreTrue, IssuedAs
  <2>3. BuildWrapper(issued[i].payload) \in Seq(CodePoint) /\ 0 \in Nat
    BY <2>2, WrapperType
  <2>4. QED
    BY <1>1, <1>2, <2>1, <2>3, SplicedType, Zenon
<1>7. CASE Recompose
  <2>1. Nfc(text) \in Seq(CodePoint) /\ Decomposed(text) \in Seq(CodePoint)
    BY <1>1, NfcType, DecomposedReads
  <2>2. QED
    BY <1>2, <1>7, <2>1, Zenon DEF Recompose
<1>8. QED
  BY <1>3, <1>4, <1>5, <1>6, <1>7 DEF Edit

LEMMA HistoryKept == HistoryInvariant /\ [Next]_vars => HistoryInvariant'
<1>. SUFFICES ASSUME HistoryInvariant, [Next]_vars PROVE HistoryInvariant'
  OBVIOUS
<1>1. CASE Next
  BY <1>1, HistoryAfterEmbed, HistoryAfterFinish, HistoryAfterRest DEF Next
<1>2. CASE UNCHANGED vars
  BY <1>2, Zenon DEF vars, HistoryInvariant, TypesHold, DraftsAreOfTheText, ManifestsAreTrue
<1>3. QED
  BY <1>1, <1>2

(* What embed promises of the manifests it has issued holds at every step.   *)
THEOREM HistoryHolds == Spec => []HistoryInvariant
  BY HistoryInitially, HistoryKept, PTL DEF Spec

----------------------------------------------------------------------------
(* What embed adds and strip takes back.                                     *)

LEMMA OneMarkAtEnd ==
  ASSUME NEW before \in Seq(CodePoint), Marks(before) = {},
         NEW payload \in Seq(Byte), Len(payload) <= MaxManifestLength,
         NEW t, t = before \o BuildWrapper(payload)
  PROVE  OnlyMark(t, Len(before), payload, before)
<1>1. PICK empty \in Seq(CodePoint) : empty = <<>> /\ \A s \in Seq(CodePoint) : s \o empty = s
  <2>1. <<>> \in Seq(CodePoint) /\ \A s \in Seq(CodePoint) : s \o <<>> = s
    OBVIOUS
  <2>2. QED
    BY <2>1, Zenon
<1>2. BuildWrapper(payload) \in Seq(CodePoint)
  BY WrapperType, Zenon
<1>3. before \o BuildWrapper(payload) \in Seq(CodePoint)
  <2>1. \A p, q \in Seq(CodePoint) : p \o q \in Seq(CodePoint)
    OBVIOUS
  <2>2. QED
    BY <1>2, <2>1, Zenon
<1>4. t = before \o BuildWrapper(payload) \o empty /\ before = before \o empty
  BY <1>1, <1>3, Zenon
<1>5. QED
  BY <1>4, OneMark

(* The text that embed returned: the author's, composed, and one mark at its *)
(* end.                                                                      *)
LEMMA MarkedText ==
  ASSUME NEW m \in Manifests, NEW k, IssuedAs(m, k)
  PROVE  /\ m.payload \in Seq(Byte) /\ Len(m.payload) <= MaxManifestLength
         /\ Nfc(m.source) \in Seq(CodePoint) /\ Marks(Nfc(m.source)) = {}
         /\ m.marked = Nfc(m.source) \o BuildWrapper(m.payload)
         /\ m.marked \in Seq(CodePoint)
         /\ Wrappers(m.marked) = {<<Len(Nfc(m.source)), Len(m.payload)>>}
         /\ CorruptCandidates(m.marked) = {}
         /\ PayloadOf(m.marked, <<Len(Nfc(m.source)), Len(m.payload)>>) = m.payload
         /\ Without(m.marked) = Nfc(m.source)
<1>1. m.payload \in Seq(Byte) /\ m.source \in Seq(CodePoint)
  BY DEF Manifests
<1>2. /\ Len(m.payload) <= MaxManifestLength
      /\ m.marked = Nfc(m.source) \o BuildWrapper(m.payload) /\ Marks(m.source) = {}
  BY Zenon DEF IssuedAs, SaysTheTruth
<1>3. Nfc(m.source) \in Seq(CodePoint) /\ Marks(Nfc(m.source)) = {}
  BY <1>1, <1>2, NfcType, NfcMarks, Zenon
<1>4. QED
  <2>1. OnlyMark(m.marked, Len(Nfc(m.source)), m.payload, Nfc(m.source))
    BY <1>1, <1>2, <1>3, OneMarkAtEnd, Zenon
  <2>2. QED
    BY <1>1, <1>2, <1>3, <2>1, Zenon DEF OnlyMark

(* StripUndoesEmbed: what strip makes of a text that embed returned is the   *)
(* text that was given to embed, composed; the whole mark goes and nothing   *)
(* else.                                                                     *)
THEOREM StripTakesBackEmbed == Spec => []StripUndoesEmbed
<1>1. HistoryInvariant => StripUndoesEmbed
  <2>. SUFFICES ASSUME HistoryInvariant, NEW i \in DOMAIN issued, text = issued[i].marked
                PROVE  Answers("strip", text) = {[kind |-> "text", text |-> Nfc(issued[i].source)]}
    BY Zenon DEF StripUndoesEmbed
  <2>1. text \in Seq(CodePoint) /\ issued[i] \in Manifests /\ IssuedAs(issued[i], i)
    <3>1. issued \in Seq(Manifests) /\ text \in Seq(CodePoint)
      BY Zenon DEF HistoryInvariant, TypesHold
    <3>2. issued[i] \in Manifests
      BY <3>1
    <3>3. QED
      BY <3>1, <3>2, Zenon DEF HistoryInvariant, ManifestsAreTrue
  <2>2. CorruptCandidates(text) = {} /\ Without(text) = Nfc(issued[i].source)
    BY <2>1, MarkedText, Zenon
  <2>3. QED
    BY <2>1, <2>2, AnswersOf, Zenon
<1>2. QED
  BY <1>1, HistoryHolds, PTL

(* EmbedAddsTheOnlyMark: embed signs only for a text without a mark, and its *)
(* mark is the only one in the text that it returns, and the end of it.      *)
THEOREM EmbedAddsOneMark == Spec => EmbedAddsTheOnlyMark
<1>1. ASSUME HistoryInvariant, [Next]_vars, issued' # issued
      PROVE  /\ Wrappers(text) = {} /\ CorruptCandidates(text) = {}
             /\ CorruptCandidates(text') = {}
             /\ Wrappers(text') = {<<Len(Nfc(text)), Len(issued'[Len(issued')].payload)>>}
  <2>1. PICK payload \in Payloads : draft # {} /\ Sign(payload)
    <3>1. FinishEmbed
      BY <1>1, Zenon DEF Next, vars, Embed, Strip, Edit, Type, Erase, PasteMark, Recompose, Rewrite
    <3>2. QED
      BY <1>1, <3>1, Zenon DEF FinishEmbed
  <2>2. PICK m \in Manifests : /\ issued' = Append(issued, m) /\ IssuedAs(m, Len(issued) + 1)
                               /\ m.source = text /\ text' = m.marked
    BY <1>1, <2>1, SignedManifestIsTrue, Zenon
  <2>3. text \in Seq(CodePoint) /\ issued \in Seq(Manifests)
    BY <1>1, Zenon DEF HistoryInvariant, TypesHold
  <2>4. issued'[Len(issued')] = m
    BY <2>2, <2>3
  <2>5. Marks(text) = {}
    BY <2>2, Zenon DEF IssuedAs, SaysTheTruth
  <2>6. Wrappers(text) = {} /\ CorruptCandidates(text) = {}
    BY <2>3, <2>5, AnswersOf, Zenon
  <2>7. CorruptCandidates(m.marked) = {} /\ Wrappers(m.marked) = {<<Len(Nfc(m.source)), Len(m.payload)>>}
    BY <2>2, MarkedText, Zenon
  <2>8. QED
    BY <2>2, <2>4, <2>6, <2>7, Zenon
<1>2. QED
  BY <1>1, HistoryHolds, PTL DEF Spec, EmbedAddsTheOnlyMark

----------------------------------------------------------------------------
(* What verify accepts.                                                      *)

(* The bytes that a wrapper takes up.                                        *)
TakesUp(t, before, m, n) ==
  RangeOf(t, <<Len(before), n>>) = <<Len(Encoded(before)), Len(Encoded(m))>>

LEMMA RangeOfMark ==
  ASSUME NEW before \in Seq(CodePoint), NEW after \in Seq(CodePoint),
         NEW m \in Seq(CodePoint), NEW n \in Nat, Len(m) = 14 + n,
         NEW t, t = before \o m \o after
  PROVE  TakesUp(t, before, m, n)
<1>1. \A p, q \in Seq(CodePoint) : SubSeq(p \o q, 1, Len(p)) = p /\ p \o q \in Seq(CodePoint)
  BY ConcatReads, SMTT(30)
<1>2. /\ SubSeq(t, 1, Len(before)) = before /\ SubSeq(t, 1, Len(before) + Len(m)) = before \o m
      /\ before \o m \in Seq(CodePoint)
  <2>1. m \o after \in Seq(CodePoint) /\ before \o m \in Seq(CodePoint)
    BY <1>1, Zenon
  <2>2. t = before \o (m \o after) /\ t = (before \o m) \o after
    BY ConcatAssociates
  <2>3. SubSeq(t, 1, Len(before)) = before
    BY <1>1, <2>1, <2>2, Zenon
  <2>4. Len(before \o m) = Len(before) + Len(m)
    BY ConcatReads
  <2>5. SubSeq(t, 1, Len(before \o m)) = before \o m
    BY <1>1, <2>1, <2>2, Zenon
  <2>6. QED
    BY <2>1, <2>3, <2>4, <2>5, Zenon
<1>3. PICK b \in Nat : b = Len(before)
  OBVIOUS
<1>4. b + 1 + HEADER_SIZE + n = b + (14 + n)
  BY DEF HEADER_SIZE
<1>5. <<b, n>>[1] = b /\ <<b, n>>[2] = n
  OBVIOUS
<1>6. \A s, u, v : s = <<u, v>> => s[1] = u /\ s[2] = v
  OBVIOUS
<1>7. SpanOf(t, <<b, n>>) = <<Utf8Length(before), Utf8Length(before \o m)>>
  BY <1>2, <1>3, <1>4, <1>5, Zenon DEF SpanOf
<1>8. Utf8Length(before) = Len(Encoded(before)) /\ Utf8Length(before \o m) = Len(Encoded(before \o m))
  BY <1>2, EncodedLength, Zenon
<1>9. Len(Encoded(before \o m)) = Len(Encoded(before)) + Len(Encoded(m))
  <2>1. Encoded(before \o m) = Encoded(before) \o Encoded(m)
    BY EncodedConcat, Zenon
  <2>2. \A p, q \in Seq(Byte) : Len(p \o q) = Len(p) + Len(q)
    OBVIOUS
  <2>3. QED
    BY <2>1, <2>2, EncodedType, Zenon
<1>10. PICK x \in Nat, y \in Nat : x = Len(Encoded(before)) /\ y = Len(Encoded(m))
  <2>1. \A p \in Seq(Byte) : Len(p) \in Nat
    OBVIOUS
  <2>2. QED
    BY <2>1, EncodedType, Zenon
<1>11. SpanOf(t, <<b, n>>)[1] = x /\ SpanOf(t, <<b, n>>)[2] = x + y
  <2>1. SpanOf(t, <<b, n>>)[1] = Utf8Length(before) /\ SpanOf(t, <<b, n>>)[2] = Utf8Length(before \o m)
    <3>1. PICK s : s = SpanOf(t, <<b, n>>)
      BY Zenon
    <3>2. PICK u, v : u = Utf8Length(before) /\ v = Utf8Length(before \o m)
      BY Zenon
    <3>3. s = <<u, v>>
      BY <1>7, <3>1, <3>2, Zenon
    <3>4. s[1] = u /\ s[2] = v
      BY <1>6, <3>3, Zenon
    <3>5. QED
      BY <3>1, <3>2, <3>4, Zenon
  <2>2. Utf8Length(before) = x
    BY <1>8, <1>10, Zenon
  <2>3. Utf8Length(before \o m) = x + y
    BY <1>8, <1>9, <1>10, Zenon
  <2>4. QED
    BY <2>1, <2>2, <2>3, Zenon
<1>12. x + y - x = y
  OBVIOUS
<1>13. RangeOf(t, <<b, n>>) = <<x, y>>
  <2>1. PICK s : s = SpanOf(t, <<b, n>>)
    BY Zenon
  <2>2. RangeOf(t, <<b, n>>) = <<s[1], s[2] - s[1]>>
    BY <2>1 DEF RangeOf
  <2>3. PICK u, v : u = s[1] /\ v = s[2]
    BY Zenon
  <2>4. u = x /\ v = x + y
    BY <1>11, <2>1, <2>3, Zenon
  <2>5. v - u = y
    BY <1>12, <2>4
  <2>6. QED
    BY <2>2, <2>3, <2>4, <2>5, Zenon
<1>14. QED
  BY <1>3, <1>10, <1>13, Zenon DEF TakesUp

(* What a match means for the one exclusion that embed declares.             *)
LEMMA BindsMeans ==
  ASSUME NEW t, NEW spans, NEW algorithm \in Algorithms, NEW of, NEW m,
         m.algorithm = algorithm, m.hash = Digest(algorithm, of)
  PROVE  "assertion.dataHash.match" \in ToSet(BindingStatuses(t, HashDataIn(m), {}, spans))
           <=> /\ <<m.start, m.length>> \in spans
               /\ ~ m.start + m.length > Len(Encoded(t))
               /\ of \in BoundText(t, <<<<m.start, m.length>>>>)
<1>. DEFINE h == HashDataAssertion(m.hash, m.start, m.length, algorithm)
            rs == <<<<m.start, m.length>>>>
<1>1. HashDataIn(m) = {h}
  BY Zenon DEF HashDataIn
<1>2. /\ h.alg = {algorithm} /\ h.hashForm = "bytes" /\ h.hash = Digest(algorithm, of)
      /\ h.exclusions = {rs}
  BY DEF HashDataAssertion
<1>3. (CHOOSE x \in {h} : TRUE) = h
  OBVIOUS
<1>. HIDE DEF h
<1>4. /\ Len(rs) = 1 /\ rs # <<>> /\ ToSet(rs) = {<<m.start, m.length>>}
      /\ rs[1][1] = m.start /\ rs[1][2] = m.length
  BY DEF ToSet
<1>5. ExclusionRanges(h) = {rs}
  <2>1. 1 .. Len(rs) - 1 = {}
    BY <1>4
  <2>. HIDE DEF rs
  <2>2. ExclusionRanges(h) = {r \in {rs} : r # <<>> /\ \A i \in 1 .. Len(r) - 1 : r[i][1] + r[i][2] <= r[i + 1][1]}
    BY <1>2, Zenon DEF ExclusionRanges
  <2>3. \A i \in 1 .. Len(rs) - 1 : rs[i][1] + rs[i][2] <= rs[i + 1][1]
    BY <2>1, Zenon
  <2>4. rs \in ExclusionRanges(h)
    BY <1>4, <2>2, <2>3, Zenon
  <2>5. QED
    BY <2>2, <2>4
<1>6. ResolveAlgorithm(h.alg, {}) = {algorithm}
  BY <1>2 DEF ResolveAlgorithm
<1>7. ParametersStatus(HashDataIn(m), {}) = "ok"
  <2>1. HashDataIn(m) # {} /\ {algorithm} # {} /\ {rs} # {}
    BY <1>1
  <2>. HIDE DEF rs
  <2>2. (CHOOSE x \in HashDataIn(m) : TRUE) = h
    BY <1>1, <1>3, Zenon
  <2>3. h.hashForm # "absent" /\ h.hashForm # "notBytes"
    BY <1>2
  <2>4. QED
    BY <1>5, <1>6, <2>1, <2>2, <2>3, Zenon DEF ParametersStatus
<1>8. (CHOOSE x \in HashDataIn(m) : TRUE) = h /\ (CHOOSE r \in ExclusionRanges(h) : TRUE) = rs
  <2>1. (CHOOSE r \in {rs} : TRUE) = rs
    OBVIOUS
  <2>. HIDE DEF rs
  <2>2. QED
    BY <1>1, <1>3, <1>5, <2>1, Zenon
<1>. DEFINE located == spans \cap {<<m.start, m.length>>}
            bound == BoundText(t, rs)
            late == m.start + m.length > Len(Encoded(t))
<1>9. BindingStatuses(t, HashDataIn(m), {}, spans)
        = IF located = {} THEN <<"assertion.dataHash.malformed">>
          ELSE IF Cardinality(located) > 1 THEN <<"manifest.text.multipleWrappers">>
          ELSE IF late THEN <<"assertion.dataHash.mismatch">>
          ELSE <<CompareDigest(t, h, {}, rs)>>
  <2>1. (\E r \in ToSet(rs) : r[1] + r[2] > Len(Encoded(t))) <=> late
    <3>1. <<m.start, m.length>>[1] = m.start /\ <<m.start, m.length>>[2] = m.length
      OBVIOUS
    <3>. HIDE DEF rs
    <3>2. (\E r \in ToSet(rs) : r[1] + r[2] > Len(Encoded(t)))
            <=> <<m.start, m.length>>[1] + <<m.start, m.length>>[2] > Len(Encoded(t))
      BY <1>4
    <3>3. QED
      BY <3>1, <3>2, Zenon
  <2>2. ~ Len(rs) > 1
    BY <1>4
  <2>3. \A x : <<>> \o <<x>> = <<x>>
    OBVIOUS
  <2>4. spans \cap ToSet(rs) = located
    BY <1>4, Zenon
  <2>. HIDE DEF rs, located, late
  <2>5. BindingStatuses(t, HashDataIn(m), {}, spans)
        = IF located = {} THEN <<"assertion.dataHash.malformed">>
          ELSE IF Cardinality(located) > 1 THEN <<"manifest.text.multipleWrappers">>
          ELSE IF \E r \in ToSet(rs) : r[1] + r[2] > Len(Encoded(t)) THEN <<"assertion.dataHash.mismatch">>
          ELSE (IF Len(rs) > 1
                 THEN <<"assertion.dataHash.additionalExclusionsPresent">> ELSE <<>>)
                \o <<CompareDigest(t, h, {}, rs)>>
    <3>1. ASSUME NEW hh, NEW rr, hh = (CHOOSE x \in HashDataIn(m) : TRUE),
                 rr = (CHOOSE r \in ExclusionRanges(hh) : TRUE), NEW ss, ss = spans \cap ToSet(rr)
          PROVE  BindingStatuses(t, HashDataIn(m), {}, spans)
                   = IF ss = {} THEN <<"assertion.dataHash.malformed">>
                     ELSE IF Cardinality(ss) > 1 THEN <<"manifest.text.multipleWrappers">>
                     ELSE IF \E r \in ToSet(rr) : r[1] + r[2] > Len(Encoded(t))
                     THEN <<"assertion.dataHash.mismatch">>
                     ELSE (IF Len(rr) > 1
                           THEN <<"assertion.dataHash.additionalExclusionsPresent">> ELSE <<>>)
                          \o <<CompareDigest(t, hh, {}, rr)>>
      BY <1>7, <3>1, SMT DEF BindingStatuses
    <3>2. QED
      BY <1>8, <2>4, <3>1, Zenon
  <2>6. (IF Len(rs) > 1 THEN <<"assertion.dataHash.additionalExclusionsPresent">> ELSE <<>>) = <<>>
    BY <2>2, Zenon
  <2>7. CASE located = {}
    BY <2>5, <2>7, Zenon
  <2>8. CASE located # {} /\ Cardinality(located) > 1
    BY <2>5, <2>8, Zenon
  <2>9. CASE located # {} /\ ~ Cardinality(located) > 1 /\ late
    BY <2>1, <2>5, <2>9, Zenon
  <2>10. CASE located # {} /\ ~ Cardinality(located) > 1 /\ ~ late
    <3>1. BindingStatuses(t, HashDataIn(m), {}, spans) = <<>> \o <<CompareDigest(t, h, {}, rs)>>
      BY <2>1, <2>5, <2>6, <2>10, Zenon
    <3>2. QED
      BY <2>3, <2>10, <3>1, Zenon
  <2>11. QED
    BY <2>7, <2>8, <2>9, <2>10, Zenon
<1>10. CompareDigest(t, h, {}, rs) = "assertion.dataHash.match" <=> of \in bound
  <2>1. (\E a \in ResolveAlgorithm(h.alg, {}) : \E u \in BoundText(t, rs) : h.hash = Digest(a, u))
          <=> of \in bound
    <3>1. \A u : Digest(algorithm, of) = Digest(algorithm, u) <=> of = u
      BY DEF Digest
    <3>. HIDE DEF rs
    <3>2. QED
      BY <1>2, <1>6, <3>1, Zenon
  <2>2. "assertion.dataHash.match" # "assertion.dataHash.mismatch"
        /\ "assertion.dataHash.match" # "assertion.dataHash.malformed"
    OBVIOUS
  <2>. HIDE DEF rs, bound
  <2>3. of \in bound => BoundText(t, rs) # {}
    BY DEF bound
  <2>4. QED
    BY <2>1, <2>2, <2>3, Zenon DEF CompareDigest
<1>11. \A x : ToSet(<<x>>) = {x}
  BY DEF ToSet
<1>12. located # {} <=> <<m.start, m.length>> \in spans
  OBVIOUS
<1>13. ~ Cardinality(located) > 1
  <2>1. located = {} \/ located = {<<m.start, m.length>>}
    OBVIOUS
  <2>2. Cardinality({}) = 0 /\ \A x : Cardinality({x}) = 1
    BY FS_EmptySet, FS_Singleton
  <2>3. Cardinality(located) = 0 \/ Cardinality(located) = 1
    BY <2>1, <2>2, Zenon
  <2>4. QED
    BY <2>3
<1>. HIDE DEF rs, located, late, bound
<1>14. "assertion.dataHash.match" # "assertion.dataHash.malformed"
       /\ "assertion.dataHash.match" # "manifest.text.multipleWrappers"
       /\ "assertion.dataHash.match" # "assertion.dataHash.mismatch"
  OBVIOUS
<1>15. "assertion.dataHash.match" \in ToSet(BindingStatuses(t, HashDataIn(m), {}, spans))
         <=> located # {} /\ ~ late /\ of \in bound
  <2>1. CASE located = {}
    <3>1. BindingStatuses(t, HashDataIn(m), {}, spans) = <<"assertion.dataHash.malformed">>
      BY <1>9, <2>1, Zenon
    <3>2. QED
      BY <1>11, <1>14, <2>1, <3>1, ZenonT(40)
  <2>2. CASE located # {} /\ late
    <3>1. BindingStatuses(t, HashDataIn(m), {}, spans) = <<"assertion.dataHash.mismatch">>
      BY <1>9, <1>13, <2>2, Zenon
    <3>2. QED
      BY <1>11, <1>14, <2>2, <3>1, Zenon
  <2>3. CASE located # {} /\ ~ late
    <3>1. BindingStatuses(t, HashDataIn(m), {}, spans) = <<CompareDigest(t, h, {}, rs)>>
      BY <1>9, <1>13, <2>3, Zenon
    <3>2. PICK c : c = CompareDigest(t, h, {}, rs)
      BY Zenon
    <3>3. ToSet(BindingStatuses(t, HashDataIn(m), {}, spans)) = {c}
      BY <1>11, <3>1, <3>2, Zenon
    <3>4. c = "assertion.dataHash.match" <=> of \in bound
      BY <1>10, <3>2, Zenon
    <3>5. QED
      BY <2>3, <3>3, <3>4
  <2>4. QED
    BY <2>1, <2>2, <2>3
<1>16. QED
  BY <1>12, <1>15, Zenon DEF rs, late, bound

(* A sequence is what comes before a slice of it, the slice, and what comes  *)
(* after.                                                                    *)
Cut(S, t, i, l) ==
  /\ SubSeq(t, 1, i) \in Seq(S) /\ SubSeq(t, i + 1, i + l) \in Seq(S)
  /\ SubSeq(t, i + l + 1, Len(t)) \in Seq(S) /\ Len(SubSeq(t, 1, i)) = i
  /\ t = SubSeq(t, 1, i) \o SubSeq(t, i + 1, i + l) \o SubSeq(t, i + l + 1, Len(t))

LEMMA CutReads ==
  ASSUME NEW S, NEW t \in Seq(S), NEW i \in Nat, NEW l \in Nat, i + l <= Len(t)
  PROVE  Cut(S, t, i, l)
<1>. DEFINE p == SubSeq(t, 1, i)
            m == SubSeq(t, i + 1, i + l)
            q == SubSeq(t, i + l + 1, Len(t))
<1>1. PICK r \in Nat : i + l + r = Len(t)
  <2>1. Len(t) \in Nat
    OBVIOUS
  <2>2. Len(t) - (i + l) \in Nat /\ i + l + (Len(t) - (i + l)) = Len(t)
    BY <2>1
  <2>3. QED
    BY <2>2, Zenon
<1>2. p \in Seq(S) /\ Len(p) = i /\ \A k \in 1 .. i : p[k] = t[k]
  <2>1. i <= Len(t)
    BY <1>1
  <2>2. QED
    BY <2>1
<1>3. m \in Seq(S) /\ Len(m) = l /\ \A k \in 1 .. l : m[k] = t[i + k]
  BY SliceElements
<1>4. q \in Seq(S) /\ Len(q) = r /\ \A k \in 1 .. r : q[k] = t[i + l + k]
  <2>1. PICK j \in Nat : j = i + l
    OBVIOUS
  <2>2. j + r <= Len(t) /\ j + r = Len(t)
    BY <1>1, <2>1
  <2>3. /\ SubSeq(t, j + 1, j + r) \in Seq(S) /\ Len(SubSeq(t, j + 1, j + r)) = r
        /\ \A k \in 1 .. r : SubSeq(t, j + 1, j + r)[k] = t[j + k]
    BY <2>2, SliceElements
  <2>4. QED
    BY <2>1, <2>2, <2>3, Zenon
<1>. HIDE DEF p, m, q
<1>5. PICK u, rest : u = p \o m \o q /\ rest = p \o q
  BY Zenon
<1>6. /\ u \in Seq(S) /\ Len(u) = i + l + r
      /\ \A k \in 1 .. i : u[k] = p[k]
      /\ \A k \in 1 .. l : u[i + k] = m[k]
      /\ \A k \in 1 .. r : u[i + l + k] = q[k]
  <2>1. /\ u \in Seq(S) /\ Len(u) = Len(p) + Len(m) + Len(q)
        /\ \A k \in 1 .. Len(p) : u[k] = p[k]
        /\ \A k \in 1 .. Len(m) : u[Len(p) + k] = m[k]
        /\ \A k \in 1 .. Len(q) : u[Len(p) + Len(m) + k] = q[k]
    <3>1. p \in Seq(S) /\ m \in Seq(S) /\ q \in Seq(S)
      BY <1>2, <1>3, <1>4
    <3>2. QED
      BY <1>5, <3>1, ThreeParts, SMTT(40)
  <2>2. QED
    BY <1>2, <1>3, <1>4, <2>1, Zenon
<1>7. ASSUME NEW j \in 1 .. i + l + r PROVE u[j] = t[j]
  <2>1. CASE j <= i
    <3>1. j \in 1 .. i
      BY <2>1
    <3>2. QED
      BY <1>2, <1>6, <3>1, Zenon
  <2>2. CASE ~ j <= i /\ j <= i + l
    <3>1. j - i \in 1 .. l /\ i + (j - i) = j
      BY <2>2
    <3>2. QED
      BY <1>3, <1>6, <3>1, ZenonT(40)
  <2>3. CASE ~ j <= i + l
    <3>1. j - (i + l) \in 1 .. r /\ i + l + (j - (i + l)) = j
      BY <2>3
    <3>2. QED
      BY <1>4, <1>6, <3>1, Zenon
  <2>4. QED
    BY <2>1, <2>2, <2>3
<1>8. u = t
  <2>1. Len(u) = Len(t) /\ \A j \in 1 .. Len(u) : u[j] = t[j]
    BY <1>1, <1>6, <1>7, Zenon
  <2>2. QED
    BY <1>6, <2>1, SeqEqualByElements, Zenon
<1>9. QED
  BY <1>2, <1>3, <1>4, <1>5, <1>8, Zenon DEF p, m, q, Cut

(* A wrapper of a text, what comes before it and what comes after, and its   *)
(* bytes.                                                                    *)
LEMMA WrapperInText ==
  ASSUME NEW t \in Seq(CodePoint), NEW w \in Wrappers(t)
  PROVE  \E before, after \in Seq(CodePoint), payload \in Seq(Byte) :
           /\ Len(payload) <= MaxManifestLength /\ w = <<Len(before), Len(payload)>>
           /\ t = before \o BuildWrapper(payload) \o after
           /\ RangeOf(t, w) = <<Len(Encoded(before)), Len(Encoded(BuildWrapper(payload)))>>
<1>1. /\ w \in (0 .. Len(t) - 1) \X (0 .. MaxManifestLength)
      /\ WrapperAt(t, w[1], w[2])
  BY Zenon DEF Wrappers
<1>2. PICK i \in Nat, n \in 0 .. MaxManifestLength : i = w[1] /\ n = w[2] /\ w = <<i, n>>
  <2>1. w[1] \in Nat /\ w[2] \in 0 .. MaxManifestLength /\ w = <<w[1], w[2]>>
    BY <1>1
  <2>2. QED
    BY <2>1, Zenon
<1>3. WrapperAt(t, i, n)
  BY <1>1, <1>2, Zenon
<1>4. /\ n \in Nat /\ i + 14 + n <= Len(t)
      /\ \E payload \in Seq(Byte) :
           /\ Len(payload) = n /\ SubSeq(t, i + 1, i + (14 + n)) = BuildWrapper(payload)
  <2>1. /\ n \in Nat /\ i + 14 + n <= Len(t)
        /\ \E payload \in Seq(Byte) :
             /\ Len(payload) = n /\ SubSeq(t, i + 1, i + (14 + n)) = BuildWrapper(payload)
             /\ payload = [k \in 1 .. n |-> SelectorToByte(t[i + (14 + k)])]
    BY <1>3, WrapperReads, ZenonT(40)
  <2>2. QED
    BY <2>1, Zenon
<1>5. PICK payload \in Seq(Byte) :
        Len(payload) = n /\ SubSeq(t, i + 1, i + (14 + n)) = BuildWrapper(payload)
  BY <1>4, Zenon
<1>6. PICK l \in Nat : l = 14 + n /\ i + l <= Len(t)
  <2>1. Len(t) \in Nat
    OBVIOUS
  <2>2. 14 + n \in Nat /\ i + (14 + n) <= Len(t)
    BY <1>4, <2>1
  <2>3. QED
    BY <2>2, Zenon
<1>7. PICK before \in Seq(CodePoint), m \in Seq(CodePoint), after \in Seq(CodePoint) :
        /\ Len(before) = i /\ m = SubSeq(t, i + 1, i + l)
        /\ t = before \o m \o after
  <2>1. PICK p, m, q : /\ p = SubSeq(t, 1, i) /\ m = SubSeq(t, i + 1, i + l)
                       /\ q = SubSeq(t, i + l + 1, Len(t))
    BY Zenon
  <2>2. Cut(CodePoint, t, i, l)
    BY <1>6, CutReads, Zenon
  <2>3. QED
    BY <2>1, <2>2, Zenon DEF Cut
<1>8. t = before \o BuildWrapper(payload) \o after
  BY <1>5, <1>6, <1>7, Zenon
<1>9. Len(payload) <= MaxManifestLength
  <2>1. n <= MaxManifestLength
    BY <1>4, MaxManifestLengthAssumption, SMTT(30) DEF LengthRange
  <2>2. QED
    BY <1>5, <2>1, Zenon
<1>10. BuildWrapper(payload) \in Seq(CodePoint) /\ Len(BuildWrapper(payload)) = 14 + n
  BY <1>5, <1>9, BuiltReads, Zenon
<1>11. RangeOf(t, <<Len(before), n>>) = <<Len(Encoded(before)), Len(Encoded(BuildWrapper(payload)))>>
  <2>1. m = BuildWrapper(payload) /\ Len(m) = 14 + n
    BY <1>5, <1>6, <1>7, <1>10, Zenon
  <2>2. t = before \o m \o after
    BY <1>7, Zenon
  <2>3. TakesUp(t, before, m, n)
    BY <1>4, <2>1, <2>2, RangeOfMark, Zenon
  <2>4. QED
    BY <2>1, <2>3, Zenon DEF TakesUp
<1>12. QED
  BY <1>2, <1>5, <1>7, <1>8, <1>9, <1>11, Zenon

(* What verify accepts: one selected wrapper, which binds and whose chain is *)
(* valid now.                                                                *)
Vouches(t, now, w) ==
  Selected(t) = {w} /\ Binds(t, w) /\ ValidWhenClaimed(ManifestAt(t, w).chain, now)

LEMMA AcceptedMeans ==
  ASSUME NEW t, NEW now
  PROVE  Accepted(t, now) <=> Wrappers(t) # {} /\ \E w \in Selected(t) : Vouches(t, now, w)
<1>1. Rank["VALID"] = 1 /\ Rank["INVALID"] = 0 /\ Rank["UNMARKED"] = 0
  BY DEF Rank
<1>2. ~ 0 >= 1 /\ 1 >= 1
  OBVIOUS
<1>3. AtLeast("VALID", "VALID") /\ ~ AtLeast("INVALID", "VALID") /\ ~ AtLeast("UNMARKED", "VALID")
  BY <1>1, <1>2, Zenon DEF AtLeast
<1>4. CASE Wrappers(t) = {}
  BY <1>3, <1>4, Zenon DEF Accepted, Verdict
<1>5. CASE Wrappers(t) # {} /\ \E w \in Selected(t) : Vouches(t, now, w)
  <2>1. Verdict(t, now) = "VALID"
    BY <1>5, Zenon DEF Verdict, Vouches
  <2>2. QED
    BY <1>3, <1>5, <2>1, Zenon DEF Accepted
<1>6. CASE Wrappers(t) # {} /\ ~ \E w \in Selected(t) : Vouches(t, now, w)
  <2>1. Verdict(t, now) = "INVALID"
    BY <1>6, Zenon DEF Verdict, Vouches
  <2>2. QED
    BY <1>3, <1>6, <2>1, Zenon DEF Accepted
<1>7. QED
  BY <1>4, <1>5, <1>6

(* The manifest in a wrapper is the one that embed wrote there: the first    *)
(* byte of a payload tells the manifests apart.                              *)
LEMMA ManifestRead ==
  ASSUME HistoryInvariant, NEW t, NEW w, NEW i \in DOMAIN issued, issued[i].payload = PayloadOf(t, w)
  PROVE  ManifestAt(t, w) = issued[i]
<1>1. \A j \in DOMAIN issued : issued[j].payload[1] = j
  BY Zenon DEF HistoryInvariant, ManifestsAreTrue, IssuedAs
<1>2. PICK j : j = CHOOSE k \in DOMAIN issued : issued[k].payload = PayloadOf(t, w)
  BY Zenon
<1>3. j \in DOMAIN issued /\ issued[j].payload = PayloadOf(t, w)
  BY <1>2, Zenon
<1>4. j = i
  BY <1>1, <1>3, Zenon
<1>5. QED
  BY <1>2, <1>4, Zenon DEF ManifestAt

LEMMA ManifestFacts ==
  ASSUME HistoryInvariant, NEW i \in DOMAIN issued
  PROVE  /\ issued[i] \in Manifests /\ IssuedAs(issued[i], i)
         /\ text \in Seq(CodePoint)
<1>1. issued \in Seq(Manifests) /\ text \in Seq(CodePoint)
  BY Zenon DEF HistoryInvariant, TypesHold
<1>2. issued[i] \in Manifests
  BY <1>1
<1>3. QED
  BY <1>1, <1>2, Zenon DEF HistoryInvariant, ManifestsAreTrue

(* A manifest that embed issued binds the wrapper of a text, that it was     *)
(* embedded in.                                                              *)
LEMMA MarkedBinds ==
  ASSUME NEW m \in Manifests, NEW i, IssuedAs(m, i), NEW w, ManifestAt(m.marked, w) = m,
         w = <<Len(Nfc(m.source)), Len(m.payload)>>
  PROVE  Binds(m.marked, w)
<1>1. PICK t, before, W : t = m.marked /\ before = Nfc(m.source) /\ W = BuildWrapper(m.payload)
  BY Zenon
<1>2. /\ m.payload \in Seq(Byte) /\ Len(m.payload) <= MaxManifestLength
      /\ before \in Seq(CodePoint) /\ t = before \o W
      /\ t \in Seq(CodePoint) /\ Wrappers(t) = {w}
  BY <1>1, MarkedText, Zenon
<1>3. PICK n \in Nat : n = Len(m.payload)
  BY <1>2
<1>4. W \in Seq(CodePoint) /\ Len(W) = 14 + n
  BY <1>1, <1>2, <1>3, BuiltReads, Zenon
<1>5. PICK empty \in Seq(CodePoint) : empty = <<>> /\ \A s \in Seq(CodePoint) : s \o empty = s
  <2>1. <<>> \in Seq(CodePoint) /\ \A s \in Seq(CodePoint) : s \o <<>> = s
    OBVIOUS
  <2>2. QED
    BY <2>1, Zenon
<1>6. t = before \o W \o empty /\ before = before \o empty
  BY <1>2, <1>5, Zenon
<1>7. RangeOf(t, w) = <<Len(Encoded(before)), Len(Encoded(W))>>
  <2>1. TakesUp(t, before, W, n)
    BY <1>2, <1>4, <1>6, RangeOfMark, Zenon
  <2>2. w = <<Len(before), n>>
    BY <1>1, <1>3, Zenon
  <2>3. QED
    BY <2>1, <2>2, Zenon DEF TakesUp
<1>8. /\ m.start = Len(Encoded(before)) /\ m.hash = Digest(m.algorithm, before)
      /\ ~ TooManyNonstarters(m.source) /\ m.length = Utf8Length(W)
  BY <1>1, Zenon DEF IssuedAs, SaysTheTruth
<1>9. m.length = Len(Encoded(W))
  BY <1>4, <1>8, EncodedLength, Zenon
<1>10. m.algorithm \in Algorithms /\ m.source \in Seq(CodePoint)
  BY DEF Manifests
<1>11. Nfc(before) = before /\ ~ TooManyNonstarters(before)
  BY <1>1, <1>8, <1>10, NfcIsStable, Zenon
<1>12. before \in BoundText(t, <<<<m.start, m.length>>>>)
  <2>1. BoundText(t, <<<<Len(Encoded(before)), Len(Encoded(W))>>>>) = {Nfc(before)}
    <3>1. BoundBy(t, before, W, before)
      BY <1>2, <1>4, <1>5, <1>6, BoundOutside, Zenon
    <3>2. QED
      BY <1>11, <3>1, Zenon DEF BoundBy
  <2>2. QED
    BY <1>8, <1>9, <1>11, <2>1, Zenon
<1>13. ~ m.start + m.length > Len(Encoded(t))
  <2>1. Encoded(t) = Encoded(before) \o Encoded(W)
    BY <1>2, <1>4, EncodedConcat, Zenon
  <2>2. \A p, q \in Seq(Byte) : Len(p \o q) = Len(p) + Len(q) /\ Len(p) + Len(q) \in Nat
    OBVIOUS
  <2>3. Encoded(before) \in Seq(Byte) /\ Encoded(W) \in Seq(Byte)
    BY <1>2, <1>4, EncodedType, Zenon
  <2>4. PICK x \in Nat : x = Len(Encoded(before)) + Len(Encoded(W)) /\ x = Len(Encoded(t))
    BY <2>1, <2>2, <2>3, Zenon
  <2>5. ~ x > x
    OBVIOUS
  <2>6. QED
    BY <1>8, <1>9, <2>4, <2>5, Zenon
<1>. DEFINE spans == {RangeOf(t, v) : v \in Wrappers(t)}
<1>14. <<m.start, m.length>> \in spans
  BY <1>2, <1>7, <1>8, <1>9, Zenon
<1>. HIDE DEF spans
<1>15. "assertion.dataHash.match" \in ToSet(BindingStatuses(t, HashDataIn(m), {}, spans))
  BY <1>8, <1>10, <1>12, <1>13, <1>14, BindsMeans, Zenon
<1>16. QED
  BY <1>1, <1>15, Zenon DEF Binds, spans

(* EmbeddedTextIsAccepted: what embed returned is accepted at exactly the    *)
(* instants at which all the certificates are valid, the instant it claims   *)
(* among them.                                                               *)
THEOREM EmbeddedIsAccepted == Spec => []EmbeddedTextIsAccepted
<1>1. ASSUME HistoryInvariant, NEW i \in DOMAIN issued, text = issued[i].marked
      PROVE  /\ \A now : Accepted(text, now) <=> ValidWhenClaimed(issued[i].chain, now)
             /\ Accepted(text, issued[i].when)
  <2>1. PICK m \in Manifests : m = issued[i] /\ IssuedAs(m, i)
    BY <1>1, ManifestFacts, Zenon
  <2>2. PICK w : w = <<Len(Nfc(m.source)), Len(m.payload)>>
    BY Zenon
  <2>3. text = m.marked /\ Wrappers(text) = {w} /\ PayloadOf(text, w) = m.payload
    BY <1>1, <2>1, <2>2, MarkedText, Zenon
  <2>4. ManifestAt(text, w) = m
    BY <1>1, <2>1, <2>3, ManifestRead, Zenon
  <2>5. Binds(text, w)
    BY <2>1, <2>2, <2>3, <2>4, MarkedBinds, Zenon
  <2>6. Selected(text) = {w}
    <3>1. Parsed(text) = {w}
      <4>1. Parsed(text) = {v \in {w} : \E j \in DOMAIN issued : issued[j].payload = PayloadOf(text, v)}
        BY <2>3, Zenon DEF Parsed
      <4>2. \E j \in DOMAIN issued : issued[j].payload = PayloadOf(text, w)
        BY <1>1, <2>1, <2>3, Zenon
      <4>3. QED
        BY <4>1, <4>2, Zenon
    <3>2. Cardinality(Wrappers(text)) = 1
      BY <2>3, FS_Singleton
    <3>3. QED
      BY <3>1, <3>2, Zenon DEF Selected
  <2>7. ASSUME NEW now PROVE Accepted(text, now) <=> ValidWhenClaimed(m.chain, now)
    <3>1. \A v \in Selected(text) : Vouches(text, now, v) <=> ValidWhenClaimed(m.chain, now)
      BY <2>4, <2>5, <2>6, Zenon DEF Vouches
    <3>2. Wrappers(text) # {} /\ w \in Selected(text)
      BY <2>3, <2>6
    <3>3. QED
      BY <3>1, <3>2, AcceptedMeans, Zenon
  <2>8. ValidWhenClaimed(m.chain, m.when)
    BY <2>1, Zenon DEF IssuedAs, SaysTheTruth
  <2>9. QED
    BY <2>1, <2>7, <2>8, Zenon
<1>2. \A chain, now : ValidWhenClaimed(chain, now)
                       <=> \A c \in ToSet(chain) : now \in c.from .. c.to
  BY Zenon DEF ValidWhenClaimed, ToSet
<1>3. HistoryInvariant => EmbeddedTextIsAccepted
  BY <1>1, <1>2, Zenon DEF EmbeddedTextIsAccepted
<1>4. QED
  BY <1>3, HistoryHolds, PTL

(* AcceptedTextWasEmbedded: an accepted text has one wrapper, the manifest   *)
(* in it is one that embed signed, and the text without the wrapper can be   *)
(* marked again and is, up to composition, the one that the author gave      *)
(* embed.                                                                    *)
THEOREM AcceptedWasEmbedded == Spec => []AcceptedTextWasEmbedded
<1>1. ASSUME HistoryInvariant, NEW now, Accepted(text, now)
      PROVE  \E manifest \in Extracted(text) :
               /\ \E i \in DOMAIN issued : issued[i] = manifest
               /\ Answers("strip", text) = {[kind |-> "text", text |-> Without(text)]}
               /\ Wrappers(Without(text)) = {} /\ CorruptCandidates(Without(text)) = {}
               /\ ~ TooManyNonstarters(Without(text))
               /\ Nfc(Without(text)) = Nfc(manifest.source)
  <2>1. PICK w \in Parsed(text) : Binds(text, w)
    <3>1. PICK w \in Selected(text) : Binds(text, w)
      BY <1>1, AcceptedMeans, Zenon DEF Vouches
    <3>2. w \in Parsed(text)
      BY <3>1, Zenon DEF Selected
    <3>3. QED
      BY <3>1, <3>2, Zenon
  <2>2. PICK i \in DOMAIN issued : w \in Wrappers(text) /\ issued[i].payload = PayloadOf(text, w)
    BY <2>1, Zenon DEF Parsed
  <2>3. PICK m \in Manifests : m = issued[i] /\ IssuedAs(m, i) /\ ManifestAt(text, w) = m
    BY <1>1, <2>2, ManifestFacts, ManifestRead, Zenon
  <2>4. m.algorithm \in Algorithms /\ m.source \in Seq(CodePoint) /\ text \in Seq(CodePoint)
    BY <1>1, <2>2, ManifestFacts DEF Manifests
  <2>. DEFINE spans == {RangeOf(text, v) : v \in Wrappers(text)}
  <2>5. /\ m.hash = Digest(m.algorithm, Nfc(m.source)) /\ Marks(m.source) = {}
    BY <2>3, Zenon DEF IssuedAs, SaysTheTruth
  <2>6. "assertion.dataHash.match" \in ToSet(BindingStatuses(text, HashDataIn(m), {}, spans))
    BY <2>1, <2>3, Zenon DEF Binds
  <2>. HIDE DEF spans
  <2>7. /\ <<m.start, m.length>> \in spans
        /\ Nfc(m.source) \in BoundText(text, <<<<m.start, m.length>>>>)
    BY <2>4, <2>5, <2>6, BindsMeans, Zenon
  <2>8. PICK v \in Wrappers(text) : RangeOf(text, v) = <<m.start, m.length>>
    BY <2>7, Zenon DEF spans
  <2>9. PICK before \in Seq(CodePoint), after \in Seq(CodePoint), payload \in Seq(Byte) :
           /\ Len(payload) <= MaxManifestLength /\ v = <<Len(before), Len(payload)>>
           /\ text = before \o BuildWrapper(payload) \o after
           /\ RangeOf(text, v) = <<Len(Encoded(before)), Len(Encoded(BuildWrapper(payload)))>>
    BY <2>4, <2>8, WrapperInText
  <2>10. PICK rest \in Seq(CodePoint) : rest = before \o after
    <3>1. \A p, q \in Seq(CodePoint) : p \o q \in Seq(CodePoint)
      OBVIOUS
    <3>2. QED
      BY <3>1, Zenon
  <2>11. ~ TooManyNonstarters(rest) /\ Nfc(rest) = Nfc(m.source)
    <3>1. BuildWrapper(payload) \in Seq(CodePoint)
      BY <2>9, WrapperType, Zenon
    <3>2. BoundBy(text, before, BuildWrapper(payload), rest)
      BY <2>9, <2>10, <3>1, BoundOutside, Zenon
    <3>3. Nfc(m.source) \in IF TooManyNonstarters(rest) THEN {} ELSE {Nfc(rest)}
      BY <2>7, <2>8, <2>9, <3>2, Zenon DEF BoundBy
    <3>4. QED
      BY <3>3
  <2>12. Marks(rest) = {}
    BY <2>4, <2>5, <2>10, <2>11, NfcMarks, Zenon
  <2>13. OnlyMark(text, Len(before), payload, rest)
    BY <2>9, <2>10, <2>12, OneMark, Zenon
  <2>14. Wrappers(text) = {v} /\ CorruptCandidates(text) = {} /\ Without(text) = rest
    BY <2>9, <2>13, Zenon DEF OnlyMark
  <2>15. m \in Extracted(text)
    <3>1. Wrappers(text) = {w}
      BY <2>2, <2>14
    <3>2. QED
      BY <2>1, <2>3, <3>1, Zenon DEF Extracted
  <2>16. Answers("strip", text) = {[kind |-> "text", text |-> Without(text)]}
    BY <2>4, <2>14, AnswersOf, Zenon
  <2>17. Wrappers(rest) = {} /\ CorruptCandidates(rest) = {}
    BY <2>12, AnswersOf, Zenon
  <2>18. QED
    BY <2>3, <2>11, <2>14, <2>15, <2>16, <2>17, Zenon
<1>2. HistoryInvariant => AcceptedTextWasEmbedded
  BY <1>1, Zenon DEF AcceptedTextWasEmbedded
<1>3. QED
  BY <1>2, HistoryHolds, PTL
=============================================================================
