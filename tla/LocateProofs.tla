----------------------------- MODULE LocateProofs -----------------------------
(***************************************************************************)
(* The scan of Locate is exact, for every text, every MAX_MANIFEST_LENGTH  *)
(* and any number of calls, and what its callers see of it is Calls.       *)
(***************************************************************************)
EXTENDS Locate, TextLemmas

----------------------------------------------------------------------------
(* The run after a marker.                                                   *)

LEMMA DecodedRun ==
  ASSUME NEW t \in Seq(CodePoint), NEW s \in 0 .. Len(t)
  PROVE  LET run == DecodeRun(t, s)
         IN  /\ run \in Seq(Byte) /\ Len(run) = RunLength(t, s)
             /\ \A k \in 1 .. Len(run) : /\ t[s + k] \in Selectors
                                         /\ run[k] = SelectorToByte(t[s + k])
                                         /\ t[s + k] = ByteToSelector(run[k])
<1> DEFINE r == RunLength(t, s)
<1>1. r \in Nat /\ s + r <= Len(t) /\ RunBetween(t, s, s + r)
  BY RunLengthIsLongest
<1> HIDE DEF r
<1>2. \A k \in 1 .. r : t[s + k] \in Selectors
  BY <1>1 DEF RunBetween
<1>3. DecodeRun(t, s) = [k \in 1 .. r |-> SelectorToByte(t[s + k])]
  BY DEF DecodeRun, r
<1>4. QED
  BY <1>1, <1>2, <1>3, CodecRoundTrip DEF r

----------------------------------------------------------------------------
(* A run is accepted exactly when it begins with a built wrapper.            *)

(* Four bytes are the length field of the length they declare.               *)
LEMMA DeclaredLengthRoundTrip ==
  ASSUME NEW body \in Seq(Byte), Len(body) >= 13
  PROVE  /\ DeclaredLength(body) \in Nat
         /\ \A k \in 1 .. 4 : LengthField(DeclaredLength(body))[k] = body[9 + k]
<1>1. \A k \in 1 .. 13 : body[k] \in Byte
  OBVIOUS
<1>2. /\ body[10] \in 0 .. 255 /\ body[11] \in 0 .. 255
      /\ body[12] \in 0 .. 255 /\ body[13] \in 0 .. 255
  BY <1>1 DEF Byte
<1>3. PICK n : n = DeclaredLength(body)
  OBVIOUS
<1>4. /\ n \in Nat /\ n \div 16777216 = body[10] /\ (n \div 65536) % 256 = body[11]
      /\ (n \div 256) % 256 = body[12] /\ n % 256 = body[13]
  <2>1. PICK a \in 0 .. 255, b \in 0 .. 255, c \in 0 .. 255, d \in 0 .. 255 :
          a = body[10] /\ b = body[11] /\ c = body[12] /\ d = body[13]
    BY <1>2
  <2>2. n = 16777216 * a + 65536 * b + 256 * c + d
    BY <1>3, <2>1, SMT DEF DeclaredLength
  <2>3. n \in Nat /\ n % 256 = d /\ n \div 256 = 65536 * a + 256 * b + c
    BY <2>2, SMT
  <2>4. n \div 65536 = 256 * a + b /\ n \div 16777216 = a
    BY <2>2, SMT
  <2>5. (65536 * a + 256 * b + c) % 256 = c /\ (256 * a + b) % 256 = b
    BY SMT
  <2>6. QED
    BY <2>1, <2>3, <2>4, <2>5, SMT
<1>5. LengthField(n) = <<body[10], body[11], body[12], body[13]>>
  BY <1>4, SMT DEF LengthField
<1>6. ASSUME NEW k \in 1 .. 4 PROVE LengthField(n)[k] = body[9 + k]
  <2>1. k = 1 \/ k = 2 \/ k = 3 \/ k = 4
    OBVIOUS
  <2>2. QED
    BY <1>5, <2>1
<1>7. QED
  BY <1>3, <1>4, <1>6

LEMMA MagicElements ==
  ASSUME NEW body \in Seq(Byte)
  PROVE  HasMagic(body) <=> Len(body) >= 8 /\ \A k \in 1 .. 8 : body[k] = MAGIC[k]
<1>1. MAGIC \in Seq(Byte) /\ Len(MAGIC) = 8
  BY DEF MAGIC, Byte
<1>2. ASSUME Len(body) >= 8
      PROVE  /\ Len(SubSeq(body, 1, 8)) = 8 /\ SubSeq(body, 1, 8) \in Seq(Byte)
             /\ \A k \in 1 .. 8 : SubSeq(body, 1, 8)[k] = body[k]
  BY <1>2
<1>3. QED
  BY <1>1, <1>2 DEF HasMagic

(* The code points that WrapperAt reads as the payload.                      *)
PayloadAt(t, i, n) == [k \in 1 .. n |-> SelectorToByte(t[i + 1 + HEADER_SIZE + k])]

(* What makes a wrapper, element by element of the decoded run.              *)
LEMMA WrapperAtByRun ==
  ASSUME NEW t \in Seq(CodePoint), NEW i \in 0 .. Len(t) - 1, t[i + 1] = MARKER,
         NEW n \in 0 .. MaxManifestLength, i + 14 + n <= Len(t),
         RunBetween(t, i + 1, i + 14 + n),
         NEW run \in Seq(Byte), Len(run) >= 13 + n,
         \A k \in 1 .. 13 + n : t[i + 1 + k] = ByteToSelector(run[k])
  PROVE  WrapperAt(t, i, n)
           <=> /\ \A k \in 1 .. 8 : run[k] = MAGIC[k]
               /\ run[9] = VERSION
               /\ \A k \in 1 .. 4 : run[9 + k] = LengthField(n)[k]
<1>1. n \in Nat /\ n \in LengthRange
  BY MaxManifestLengthAssumption, SMT DEF LengthRange
<1>2. PICK payload : payload = PayloadAt(t, i, n)
  OBVIOUS
<1>3. \A k \in 1 .. 13 + n : run[k] \in Byte /\ SelectorToByte(t[i + 1 + k]) = run[k]
  BY <1>1, CodecRoundTrip
<1>4. payload \in Seq(Byte) /\ Len(payload) = n /\ \A k \in 1 .. n : payload[k] = run[13 + k]
  <2>1. \A k \in 1 .. n : 13 + k \in 1 .. 13 + n
    BY <1>1
  <2>2. \A k \in 1 .. n : i + 1 + (13 + k) = i + 1 + HEADER_SIZE + k
    BY <1>1 DEF HEADER_SIZE
  <2>3. \A k \in 1 .. n : SelectorToByte(t[i + 1 + HEADER_SIZE + k]) = run[13 + k]
    BY <1>3, <2>1, <2>2
  <2>4. QED
    <3>1. \A k \in 1 .. n : run[13 + k] \in Byte
      BY <1>3, <2>1
    <3>2. payload = [k \in 1 .. n |-> run[13 + k]]
      BY <1>2, <2>3 DEF PayloadAt
    <3>3. QED
      BY <1>1, <3>1, <3>2
<1>5. PICK w : w = BuildWrapper(payload)
  OBVIOUS
<1>6. PICK body : body = WrapperBody(payload)
  OBVIOUS
<1>7. /\ body \in Seq(Byte) /\ Len(body) = 13 + n
      /\ \A k \in 1 .. 8 : body[k] = MAGIC[k]
      /\ body[9] = VERSION
      /\ \A k \in 1 .. 4 : body[9 + k] = LengthField(n)[k]
      /\ \A k \in 1 .. n : body[13 + k] = payload[k]
  BY <1>1, <1>4, <1>6, BodyElements
<1>8. /\ w \in Seq(CodePoint) /\ Len(w) = 14 + n /\ w[1] = MARKER
      /\ \A k \in 1 .. Len(body) : w[1 + k] = ByteToSelector(body[k])
  BY <1>1, <1>4, <1>5, <1>6, WrapperElements
<1>9. PICK found : found = SubSeq(t, i + 1, i + 14 + n)
  OBVIOUS
<1>10. /\ found \in Seq(CodePoint) /\ Len(found) = 14 + n
       /\ \A k \in 1 .. 14 + n : found[k] = t[i + k]
  <2>1. PICK q \in Nat : q = 14 + n
    BY <1>1
  <2>2. i \in Nat /\ i + q <= Len(t) /\ i + 14 + n = i + q
    BY <2>1, <1>1
  <2>3. found = SubSeq(t, i + 1, i + q)
    BY <1>9, <2>2
  <2>4. /\ found \in Seq(CodePoint) /\ Len(found) = q
        /\ \A k \in 1 .. q : found[k] = t[i + k]
    BY SMTT(30), <2>2, <2>3, SliceElements
  <2>5. QED
    BY <2>1, <2>4
<1>11. WrapperAt(t, i, n) <=> found = w
  <2>1. i + 1 + HEADER_SIZE + n = i + 14 + n
    BY <1>1 DEF HEADER_SIZE
  <2>2. QED
    BY <1>2, <1>5, <1>9, <2>1 DEF WrapperAt, PayloadAt
<1>12. found = w <=> \A k \in 1 .. 14 + n : t[i + k] = w[k]
  <2>1. found = w <=> \A k \in 1 .. 14 + n : found[k] = w[k]
    BY SMTT(30), <1>8, <1>10, SeqEqualByElements
  <2>2. QED
    BY <1>10, <2>1
<1>13. (\A k \in 1 .. 14 + n : t[i + k] = w[k]) <=> \A k \in 1 .. 13 + n : run[k] = body[k]
  <2>1. ASSUME \A k \in 1 .. 14 + n : t[i + k] = w[k], NEW k \in 1 .. 13 + n
        PROVE  run[k] = body[k]
    <3>1. PICK m \in 1 .. 14 + n : m = 1 + k
      BY <1>1
    <3>2. t[i + m] = w[m]
      BY <2>1
    <3>8. i + m = i + 1 + k
      BY <1>1, <3>1
    <3>3. t[i + 1 + k] = ByteToSelector(run[k]) /\ w[1 + k] = ByteToSelector(body[k])
      BY <1>7, <1>8
    <3>4. ByteToSelector(run[k]) = ByteToSelector(body[k])
      BY <3>1, <3>2, <3>8, <3>3
    <3>5. k \in 1 .. Len(body)
      BY <1>7
    <3>6. run[k] \in Byte /\ body[k] \in Byte
      BY <1>3, <1>7, <3>5, ElementOfSeq
    <3>7. QED
      BY <3>4, <3>6, CodecRoundTrip
  <2>2. ASSUME \A k \in 1 .. 13 + n : run[k] = body[k], NEW k \in 1 .. 14 + n
        PROVE  t[i + k] = w[k]
    <3>1. CASE k = 1
      BY <1>8, <3>1
    <3>2. CASE k # 1
      <4>1. k - 1 \in 1 .. 13 + n /\ i + 1 + (k - 1) = i + k /\ 1 + (k - 1) = k
        BY <1>1, <3>2
      <4>2. t[i + k] = ByteToSelector(run[k - 1]) /\ w[k] = ByteToSelector(body[k - 1])
        BY <1>7, <1>8, <4>1
      <4>3. QED
        BY <2>2, <4>1, <4>2
    <3>3. QED
      BY <3>1, <3>2
  <2>3. QED
    BY <2>1, <2>2
<1>14. (\A k \in 1 .. 13 + n : run[k] = body[k])
         <=> /\ \A k \in 1 .. 8 : run[k] = MAGIC[k]
             /\ run[9] = VERSION
             /\ \A k \in 1 .. 4 : run[9 + k] = LengthField(n)[k]
  <2>1. ASSUME \A k \in 1 .. 13 + n : run[k] = body[k]
        PROVE  /\ \A k \in 1 .. 8 : run[k] = MAGIC[k]
               /\ run[9] = VERSION
               /\ \A k \in 1 .. 4 : run[9 + k] = LengthField(n)[k]
    <3>1. \A k \in 1 .. 8 : k \in 1 .. 13 + n
      BY <1>1
    <3>2. 9 \in 1 .. 13 + n
      BY <1>1
    <3>3. \A k \in 1 .. 4 : 9 + k \in 1 .. 13 + n
      BY <1>1
    <3>4. QED
      BY <1>7, <2>1, <3>1, <3>2, <3>3
  <2>2. ASSUME \A k \in 1 .. 8 : run[k] = MAGIC[k], run[9] = VERSION,
               \A k \in 1 .. 4 : run[9 + k] = LengthField(n)[k],
               NEW k \in 1 .. 13 + n
        PROVE  run[k] = body[k]
    <3>1. CASE k \in 1 .. 8
      BY <1>7, <2>2, <3>1
    <3>2. CASE k = 9
      BY <1>7, <2>2, <3>2
    <3>3. CASE k \in 10 .. 13
      <4>1. PICK m \in 1 .. 4 : k = 9 + m
        <5>1. k - 9 \in 1 .. 4 /\ k = 9 + (k - 9)
          BY <3>3
        <5>2. QED
          BY <5>1
      <4>2. run[9 + m] = LengthField(n)[m] /\ body[9 + m] = LengthField(n)[m]
        BY <1>7, <2>2
      <4>3. QED
        BY <4>1, <4>2
    <3>4. CASE k \in 14 .. 13 + n
      <4>1. PICK m \in 1 .. n : k = 13 + m
        <5>1. k - 13 \in 1 .. n /\ k = 13 + (k - 13)
          BY <1>1, <3>4
        <5>2. QED
          BY <5>1
      <4>2. payload[m] = run[13 + m] /\ body[13 + m] = payload[m]
        BY <1>4, <1>7
      <4>3. QED
        BY <4>1, <4>2
    <3>5. k \in 1 .. 8 \/ k = 9 \/ k \in 10 .. 13 \/ k \in 14 .. 13 + n
      BY <1>1
    <3>6. QED
      BY <3>1, <3>2, <3>3, <3>4, <3>5
  <2>3. QED
    BY <2>1, <2>2
<1>15. QED
  BY <1>11, <1>12, <1>13, <1>14

LEMMA IntactBody ==
  ASSUME NEW body \in Seq(Byte)
  PROVE  BodyIntact(body) <=> /\ Len(body) >= 13 /\ body[9] = VERSION
                              /\ DeclaredLength(body) <= MaxManifestLength
                              /\ DeclaredLength(body) <= Len(body) - 13
<1>1. Len(MAGIC) = 8 /\ HEADER_SIZE = 13
  BY DEF MAGIC, HEADER_SIZE
<1>2. Len(body) \in Nat /\ MaxManifestLength \in Nat
  BY MaxManifestLengthAssumption, SMTT(30) DEF LengthRange
<1>3. Len(body) >= 13 => DeclaredLength(body) \in Nat
  BY DeclaredLengthRoundTrip
<1>4. (Len(body) >= 13 <=> ~ HeaderTruncated(body))
      /\ (body[9] = VERSION <=> ~ VersionUnsupported(body))
  BY <1>1, <1>2 DEF HeaderTruncated, VersionUnsupported
<1>5. CASE Len(body) >= 13
  <2>1. (DeclaredLength(body) <= MaxManifestLength <=> ~ LengthOverLimit(body))
    BY <1>2, <1>3, <1>5 DEF LengthOverLimit
  <2>2. (DeclaredLength(body) <= Len(body) - 13 <=> ~ LengthOverrunsRun(body))
    BY <1>1, <1>2, <1>3, <1>5 DEF LengthOverrunsRun
  <2>3. QED
    BY <1>4, <2>1, <2>2 DEF BodyIntact
<1>6. CASE ~ (Len(body) >= 13)
  BY <1>4, <1>6 DEF BodyIntact
<1>7. QED
  BY <1>5, <1>6

(* A run whose magic matches and whose body is intact begins with a wrapper. *)
LEMMA AcceptedRunIsWrapper ==
  ASSUME NEW t \in Seq(CodePoint), NEW i \in 0 .. Len(t) - 1, t[i + 1] = MARKER,
         NEW run, run = DecodeRun(t, i + 1), HasMagic(run), BodyIntact(run)
  PROVE  /\ DeclaredLength(run) \in 0 .. MaxManifestLength
         /\ i + 14 + DeclaredLength(run) <= Len(t)
         /\ RunBetween(t, i + 1, i + 14 + DeclaredLength(run))
         /\ WrapperAt(t, i, DeclaredLength(run))
         /\ WrapperPayload(run) \in Seq(Byte)
         /\ Len(WrapperPayload(run)) = DeclaredLength(run)
         /\ WrapperPayload(run) = PayloadAt(t, i, DeclaredLength(run))
<1>1. i + 1 \in 0 .. Len(t)
  OBVIOUS
<1>2. /\ run \in Seq(Byte) /\ Len(run) = RunLength(t, i + 1)
      /\ \A k \in 1 .. Len(run) : /\ t[i + 1 + k] \in Selectors
                                  /\ run[k] = SelectorToByte(t[i + 1 + k])
                                  /\ t[i + 1 + k] = ByteToSelector(run[k])
  BY <1>1, DecodedRun
<1>3. PICK n : n = DeclaredLength(run)
  OBVIOUS
<1>4. /\ Len(run) >= 13 /\ run[9] = VERSION
      /\ n \in Nat /\ n <= MaxManifestLength /\ n <= Len(run) - 13
  BY <1>2, <1>3, IntactBody, DeclaredLengthRoundTrip
<1>5. MaxManifestLength \in Nat
  BY MaxManifestLengthAssumption, SMTT(30) DEF LengthRange
<1>6. n \in 0 .. MaxManifestLength /\ Len(run) >= 13 + n
  BY <1>2, <1>4, <1>5
<1>7. i + 1 + Len(run) <= Len(t)
  BY <1>1, <1>2, RunLengthIsLongest
<1>8. i + 14 + n <= Len(t)
  BY <1>2, <1>4, <1>6, <1>7
<1>9. \A k \in 1 .. 13 + n : k \in 1 .. Len(run)
  BY <1>2, <1>4, <1>6
<1>10. RunBetween(t, i + 1, i + 14 + n)
  <2>1. ASSUME NEW j \in i + 2 .. i + 14 + n PROVE t[j] \in Selectors
    <3>1. PICK k \in 1 .. 13 + n : i + 1 + k = j
      <4>1. j - (i + 1) \in 1 .. 13 + n /\ i + 1 + (j - (i + 1)) = j
        BY <1>4
      <4>2. QED
        BY <4>1
    <3>2. QED
      BY <1>2, <1>9, <3>1
  <2>2. i + 1 + 1 = i + 2
    OBVIOUS
  <2>3. QED
    BY <2>1, <2>2 DEF RunBetween
<1>11. \A k \in 1 .. 8 : run[k] = MAGIC[k]
  BY <1>2, MagicElements
<1>12. \A k \in 1 .. 4 : run[9 + k] = LengthField(n)[k]
  BY <1>2, <1>3, <1>4, DeclaredLengthRoundTrip
<1>13. \A k \in 1 .. 13 + n : t[i + 1 + k] = ByteToSelector(run[k])
  BY <1>2, <1>9
<1>14. WrapperAt(t, i, n)
  <2>1. WrapperAt(t, i, n)
          <=> /\ \A k \in 1 .. 8 : run[k] = MAGIC[k]
              /\ run[9] = VERSION
              /\ \A k \in 1 .. 4 : run[9 + k] = LengthField(n)[k]
    BY ZenonT(30), <1>2, <1>6, <1>8, <1>10, <1>13, WrapperAtByRun
  <2>2. QED
    BY <1>4, <1>11, <1>12, <2>1
<1>15. /\ WrapperPayload(run) \in Seq(Byte) /\ Len(WrapperPayload(run)) = n
       /\ \A k \in 1 .. n : WrapperPayload(run)[k] = run[13 + k]
  <2>1. PICK h \in Nat : h = HEADER_SIZE
    BY DEF HEADER_SIZE
  <2>2. WrapperPayload(run) = SubSeq(run, h + 1, h + n)
    BY <1>3, <2>1 DEF WrapperPayload
  <2>3. h = 13 /\ h + n <= Len(run)
    BY <1>2, <1>6, <2>1 DEF HEADER_SIZE
  <2>4. /\ SubSeq(run, h + 1, h + n) \in Seq(Byte) /\ Len(SubSeq(run, h + 1, h + n)) = n
        /\ \A k \in 1 .. n : SubSeq(run, h + 1, h + n)[k] = run[h + k]
    BY <1>2, <1>4, <2>3, SliceElements
  <2>5. QED
    BY <2>2, <2>3, <2>4
<1>16. WrapperPayload(run) = PayloadAt(t, i, n)
  <2>1. ASSUME NEW k \in 1 .. n
        PROVE  WrapperPayload(run)[k] = SelectorToByte(t[i + 1 + HEADER_SIZE + k])
    <3>1. PICK m \in 1 .. Len(run) : m = 13 + k
      BY <1>2, <1>4, <1>6
    <3>2. i + 1 + m = i + 1 + HEADER_SIZE + k
      BY <3>1, <1>4 DEF HEADER_SIZE
    <3>3. run[m] = SelectorToByte(t[i + 1 + m])
      BY <1>2
    <3>4. WrapperPayload(run)[k] = run[m]
      BY <1>15, <3>1
    <3>5. QED
      BY <3>2, <3>3, <3>4
  <2>2. WrapperPayload(run) = [k \in 1 .. n |-> WrapperPayload(run)[k]]
    BY <1>15
  <2>3. QED
    BY <2>1, <2>2 DEF PayloadAt
<1>17. QED
  BY <1>3, <1>6, <1>8, <1>10, <1>14, <1>15, <1>16

(* A wrapper is accepted, with its own length: MAX_SELECTOR_RUN is never     *)
(* too short for it, and what follows it is never taken into it.             *)
LEMMA WrapperRunIsAccepted ==
  ASSUME NEW t \in Seq(CodePoint), NEW i \in 0 .. Len(t) - 1,
         NEW n \in 0 .. MaxManifestLength, WrapperAt(t, i, n),
         NEW run, run = DecodeRun(t, i + 1)
  PROVE  HasMagic(run) /\ BodyIntact(run) /\ DeclaredLength(run) = n
<1>1. MaxManifestLength \in Nat /\ n \in Nat /\ n <= MaxManifestLength
  BY MaxManifestLengthAssumption, SMTT(30) DEF LengthRange
<1>2. i + 1 + HEADER_SIZE + n = i + 14 + n
  BY <1>1 DEF HEADER_SIZE
<1>3. t[i + 1] = MARKER /\ i + 14 + n <= Len(t) /\ RunBetween(t, i + 1, i + 14 + n)
  BY <1>2 DEF WrapperAt
<1>4. i + 1 \in 0 .. Len(t)
  OBVIOUS
<1>5. /\ run \in Seq(Byte) /\ Len(run) = RunLength(t, i + 1)
      /\ \A k \in 1 .. Len(run) : /\ t[i + 1 + k] \in Selectors
                                  /\ run[k] = SelectorToByte(t[i + 1 + k])
                                  /\ t[i + 1 + k] = ByteToSelector(run[k])
  BY <1>4, DecodedRun
<1>6. Len(run) >= 13 + n
  <2>1. PICK m \in 0 .. MAX_SELECTOR_RUN : m = 13 + n
    BY <1>1 DEF MAX_SELECTOR_RUN, HEADER_SIZE
  <2>2. i + 1 + m = i + 14 + n
    BY <1>1, <2>1
  <2>3. i + 1 + m <= Len(t) /\ RunBetween(t, i + 1, i + 1 + m)
    BY <1>3, <2>2
  <2>4. m <= RunLength(t, i + 1)
    BY <1>4, <2>3, RunLengthIsLongest
  <2>5. QED
    BY <1>1, <1>5, <2>1, <2>4
<1>7. \A k \in 1 .. 13 + n : k \in 1 .. Len(run)
  BY <1>1, <1>5, <1>6
<1>8. \A k \in 1 .. 13 + n : t[i + 1 + k] = ByteToSelector(run[k])
  BY <1>5, <1>7
<1>9. /\ \A k \in 1 .. 8 : run[k] = MAGIC[k]
      /\ run[9] = VERSION
      /\ \A k \in 1 .. 4 : run[9 + k] = LengthField(n)[k]
  BY <1>3, <1>5, <1>6, <1>8, WrapperAtByRun
<1>10. HasMagic(run)
  <2>1. Len(run) >= 8
    BY <1>1, <1>5, <1>6
  <2>2. QED
    BY <1>5, <1>9, <2>1, MagicElements
<1>11. DeclaredLength(run) = n
  <2>1. n \in LengthRange
    BY <1>1, MaxManifestLengthAssumption, SMT DEF LengthRange
  <2>2. QED
    BY <1>9, <2>1, LengthFieldRoundTrip
<1>12. BodyIntact(run)
  <2>1. Len(run) >= 13 /\ n <= Len(run) - 13
    BY <1>1, <1>5, <1>6
  <2>2. QED
    BY <1>1, <1>5, <1>9, <1>11, <2>1, IntactBody
<1>13. QED
  BY <1>10, <1>11, <1>12

----------------------------------------------------------------------------
(* The text strip builds.                                                    *)

LEMMA DecodeType ==
  ASSUME NEW t \in Seq(CodePoint), NEW bytes
  PROVE  Decode(t, bytes) \in Seq(CodePoint)
<1>. DEFINE pieces == [i \in DOMAIN t |-> IF BytesOf(t, i) \subseteq bytes THEN <<t[i]>> ELSE <<>>]
<1>1. \A i \in 1 .. Len(t) : (IF BytesOf(t, i) \subseteq bytes THEN <<t[i]>> ELSE <<>>) \in Seq(CodePoint)
  <2>1. \A c \in CodePoint : <<c>> \in Seq(CodePoint) /\ <<>> \in Seq(CodePoint)
    OBVIOUS
  <2>2. \A i \in 1 .. Len(t) : t[i] \in CodePoint
    OBVIOUS
  <2>3. QED
    BY <2>1, <2>2, Zenon
<1>2. pieces \in Seq(Seq(CodePoint))
  <2>1. DOMAIN t = 1 .. Len(t) /\ Len(t) \in Nat
    OBVIOUS
  <2>2. pieces \in [1 .. Len(t) -> Seq(CodePoint)]
    BY <1>1, <2>1, Zenon
  <2>3. \A S : \A n \in Nat : \A f \in [1 .. n -> S] : f \in Seq(S)
    OBVIOUS
  <2>. HIDE DEF pieces
  <2>4. QED
    BY <2>1, <2>2, <2>3, Zenon
<1>3. Decode(t, bytes) = FlattenSeq(pieces)
  BY DEF Decode
<1>4. QED
  BY <1>2, <1>3, FlattenType, Zenon

----------------------------------------------------------------------------
(* Candidates.                                                               *)

(* The magic after a marker, in code points and in decoded bytes.            *)
LEMMA MagicByRun ==
  ASSUME NEW t \in Seq(CodePoint), NEW i \in 0 .. Len(t) - 1,
         NEW run, run = DecodeRun(t, i + 1)
  PROVE  HasMagic(run) <=> i + 9 <= Len(t) /\ SubSeq(t, i + 2, i + 9) = BytesToSelectors(MAGIC)
<1>1. i + 1 \in 0 .. Len(t) /\ i + 1 + 1 = i + 2 /\ i + 1 + 8 = i + 9
  OBVIOUS
<1>2. /\ run \in Seq(Byte) /\ Len(run) = RunLength(t, i + 1)
      /\ \A k \in 1 .. Len(run) : /\ t[i + 1 + k] \in Selectors
                                  /\ run[k] = SelectorToByte(t[i + 1 + k])
                                  /\ t[i + 1 + k] = ByteToSelector(run[k])
  BY <1>1, DecodedRun
<1>3. HasMagic(run) <=> Len(run) >= 8 /\ \A k \in 1 .. 8 : run[k] = MAGIC[k]
  BY <1>2, MagicElements
<1>4. /\ MAGIC \in Seq(Byte) /\ Len(MAGIC) = 8
      /\ \A k \in 1 .. 8 : MAGIC[k] \in Byte
  BY DEF MAGIC, Byte
<1> DEFINE head == SubSeq(t, i + 2, i + 9)
           word == BytesToSelectors(MAGIC)
<1>5. /\ word \in Seq(CodePoint) /\ Len(word) = 8
      /\ \A k \in 1 .. 8 : word[k] = ByteToSelector(MAGIC[k])
  BY <1>4, CodecRoundTrip DEF BytesToSelectors
<1>6. ASSUME i + 9 <= Len(t)
      PROVE  /\ head \in Seq(CodePoint) /\ Len(head) = 8
             /\ \A k \in 1 .. 8 : head[k] = t[i + 1 + k]
  <2>1. /\ SubSeq(t, i + 1 + 1, i + 1 + 8) \in Seq(CodePoint)
        /\ Len(SubSeq(t, i + 1 + 1, i + 1 + 8)) = 8
        /\ \A k \in 1 .. 8 : SubSeq(t, i + 1 + 1, i + 1 + 8)[k] = t[i + 1 + k]
    <3>1. i + 1 \in Nat /\ i + 1 + 8 <= Len(t) /\ 8 \in Nat
      BY <1>6
    <3>2. QED
      BY ZenonT(60), <3>1, SliceElements
  <2>2. QED
    BY <1>1, <2>1
<1>7. ASSUME HasMagic(run) PROVE i + 9 <= Len(t) /\ head = word
  <2>1. i + 1 + Len(run) <= Len(t)
    BY <1>1, <1>2, RunLengthIsLongest
  <2>2. i + 9 <= Len(t)
    BY <1>2, <1>3, <1>7, <2>1
  <2>3. \A k \in 1 .. 8 : k \in 1 .. Len(run)
    BY <1>2, <1>3, <1>7
  <2>4. \A k \in 1 .. 8 : head[k] = word[k]
    BY <1>2, <1>3, <1>5, <1>6, <1>7, <2>2, <2>3
  <2>5. head = word
    <3>1. PICK h, w : h = head /\ w = word
      OBVIOUS
    <3>2. /\ h \in Seq(CodePoint) /\ w \in Seq(CodePoint) /\ Len(h) = Len(w)
          /\ \A k \in 1 .. Len(h) : h[k] = w[k]
      BY <1>5, <1>6, <2>2, <2>4, <3>1
    <3>3. h = w
      BY <3>2, SeqEqualByElements
    <3>4. QED
      BY <3>1, <3>3
  <2>6. QED
    BY <2>2, <2>5
<1>8. ASSUME i + 9 <= Len(t), head = word PROVE HasMagic(run)
  <2>1. \A k \in 1 .. 8 : t[i + 1 + k] = ByteToSelector(MAGIC[k])
    BY <1>5, <1>6, <1>8
  <2>2. \A k \in 1 .. 8 : t[i + 1 + k] \in Selectors
    BY <1>4, <2>1, CodecRoundTrip
  <2>3. RunBetween(t, i + 1, i + 1 + 8)
    <3>1. ASSUME NEW j \in i + 2 .. i + 9 PROVE t[j] \in Selectors
      <4>1. PICK k \in 1 .. 8 : i + 1 + k = j
        <5>1. j - (i + 1) \in 1 .. 8 /\ i + 1 + (j - (i + 1)) = j
          OBVIOUS
        <5>2. QED
          BY <5>1
      <4>2. QED
        BY <2>2, <4>1
    <3>2. QED
      BY <1>1, <3>1 DEF RunBetween
  <2>4. 8 \in 0 .. MAX_SELECTOR_RUN
    BY MaxManifestLengthAssumption, SMTT(30) DEF LengthRange, MAX_SELECTOR_RUN, HEADER_SIZE
  <2>5. 8 <= RunLength(t, i + 1)
    BY <1>1, <1>8, <2>3, <2>4, RunLengthIsLongest
  <2>6. Len(run) >= 8 /\ \A k \in 1 .. 8 : k \in 1 .. Len(run)
    BY <1>2, <2>5
  <2>7. ASSUME NEW k \in 1 .. 8 PROVE run[k] = MAGIC[k]
    <3>1. MAGIC[k] \in Byte /\ t[i + 1 + k] = ByteToSelector(MAGIC[k]) /\ k \in 1 .. Len(run)
      BY <1>4, <2>1, <2>6
    <3>2. run[k] = SelectorToByte(t[i + 1 + k])
      BY <1>2, <3>1
    <3>3. SelectorToByte(ByteToSelector(MAGIC[k])) = MAGIC[k]
      BY <3>1, CodecRoundTrip
    <3>4. QED
      BY <3>1, <3>2, <3>3
  <2>8. QED
    BY <1>3, <2>6, <2>7
<1>9. QED
  BY <1>7, <1>8

(* The candidates the scan holds against a text are exactly the corrupt ones. *)
LEMMA CandidateByRun ==
  ASSUME NEW t \in Seq(CodePoint), NEW i \in 0 .. Len(t) - 1, t[i + 1] = MARKER,
         NEW run, run = DecodeRun(t, i + 1)
  PROVE  i \in CorruptCandidates(t) <=> HasMagic(run) /\ ~ BodyIntact(run)
<1>1. i \in MarkersFrom(t, 0)
  BY DEF MarkersFrom
<1>2. BodyIntact(run) /\ HasMagic(run) => \E n \in 0 .. MaxManifestLength : WrapperAt(t, i, n)
  BY AcceptedRunIsWrapper
<1>3. (\E n \in 0 .. MaxManifestLength : WrapperAt(t, i, n)) => BodyIntact(run)
  BY WrapperRunIsAccepted
<1>4. HasMagic(run) <=> i + 9 <= Len(t) /\ SubSeq(t, i + 2, i + 9) = BytesToSelectors(MAGIC)
  BY MagicByRun
<1>5. QED
  BY <1>1, <1>2, <1>3, <1>4 DEF CorruptCandidates

(* The code points an accepted wrapper occupies, from its payload.           *)
LEMMA CodePointsOfWrapper ==
  ASSUME NEW t \in Seq(CodePoint), NEW i \in 0 .. Len(t) - 1, t[i + 1] = MARKER,
         NEW run, run = DecodeRun(t, i + 1), HasMagic(run), BodyIntact(run)
  PROVE  SubSeq(t, i + 1, i + 14 + DeclaredLength(run)) = BuildWrapper(WrapperPayload(run))
<1>1. PICK n : n = DeclaredLength(run)
  OBVIOUS
<1>2. n \in 0 .. MaxManifestLength /\ WrapperAt(t, i, n) /\ WrapperPayload(run) = PayloadAt(t, i, n)
  BY <1>1, AcceptedRunIsWrapper
<1>3. i + 1 + HEADER_SIZE + n = i + 14 + n
  BY <1>2, MaxManifestLengthAssumption, SMTT(30) DEF HEADER_SIZE, LengthRange
<1>4. SubSeq(t, i + 1, i + 14 + n) = BuildWrapper(PayloadAt(t, i, n))
  BY <1>2, <1>3 DEF WrapperAt, PayloadAt
<1>5. QED
  BY <1>1, <1>2, <1>4

LEMMA CorruptionOffsetType ==
  ASSUME NEW body \in Seq(Byte), NEW offset \in Nat
  PROVE  CorruptionOffset(body, offset) \in Nat
<1>1. ASSUME NEW n \in Nat PROVE DocumentOffset(body, n, offset) \in Nat
  <2> DEFINE bytes == {p \in (1 .. n) \X (1 .. 4) : p[2] <= SelectorCost(body[p[1]])}
  <2>1. IsFiniteSet(1 .. n) /\ IsFiniteSet(1 .. 4)
    <3>1. 1 \in Int /\ 4 \in Int /\ n \in Int
      OBVIOUS
    <3>2. QED
      BY <3>1, FS_Interval
  <2>2. IsFiniteSet((1 .. n) \X (1 .. 4))
    BY <2>1, FS_Product
  <2>3. Cardinality(bytes) \in Nat
    BY <2>2, FS_Subset, FS_CardinalityType
  <2>4. DocumentOffset(body, n, offset) = offset + Cardinality(bytes)
    BY DEF DocumentOffset
  <2>5. QED
    BY <2>3, <2>4
<1>2. Len(MAGIC) \in Nat /\ Len(MAGIC) + 1 \in Nat /\ Len(body) \in Nat
  BY DEF MAGIC
<1>3. /\ DocumentOffset(body, Len(MAGIC), offset) \in Nat
      /\ DocumentOffset(body, Len(MAGIC) + 1, offset) \in Nat
      /\ DocumentOffset(body, Len(body), offset) \in Nat
  BY ZenonT(30), <1>1, <1>2
<1>4. QED
  BY <1>3 DEF CorruptionOffset

(* The bytes before a code point, of which there are more the later it is.    *)
Before(t, k) == Utf8Length(SubSeq(t, 1, k))

LEMMA BytesOfSome ==
  ASSUME NEW s \in Seq(CodePoint), s # <<>>
  PROVE  Utf8Length(s) \in Nat /\ Utf8Length(s) >= 1
<1>1. IsFiniteSet(Utf8Bytes(s)) /\ Utf8Length(s) \in Nat
  BY Utf8BytesFinite
<1>2. <<1, 1>> \in Utf8Bytes(s)
  <2>1. 1 \in 1 .. Len(s) /\ 1 \in 1 .. 4
    OBVIOUS
  <2>2. \A c : 1 <= Utf8Cost(c)
    BY DEF Utf8Cost
  <2>3. <<1, 1>> \in (1 .. Len(s)) \X (1 .. 4)
    BY <2>1
  <2>4. <<1, 1>>[1] = 1 /\ <<1, 1>>[2] = 1
    OBVIOUS
  <2>5. QED
    BY <2>2, <2>3, <2>4 DEF Utf8Bytes
<1>3. Cardinality(Utf8Bytes(s)) # 0
  BY <1>1, <1>2, FS_EmptySet
<1>4. QED
  BY <1>1, <1>3 DEF Utf8Length

LEMMA BeforeGrows ==
  ASSUME NEW t \in Seq(CodePoint)
  PROVE  /\ \A k \in 0 .. Len(t) : Before(t, k) \in Nat
         /\ \A a \in 0 .. Len(t) : \A b \in a + 1 .. Len(t) : Before(t, a) < Before(t, b)
         /\ \A a \in 0 .. Len(t) : \A b \in a .. Len(t) : Before(t, a) <= Before(t, b)
<1>1. ASSUME NEW k \in 0 .. Len(t) PROVE Before(t, k) \in Nat
  <2>1. SubSeq(t, 1, k) \in Seq(CodePoint)
    OBVIOUS
  <2>2. QED
    BY <2>1, Utf8BytesFinite DEF Before
<1>2. ASSUME NEW a \in 0 .. Len(t), NEW b \in a + 1 .. Len(t) PROVE Before(t, a) < Before(t, b)
  <2>1. b \in a .. Len(t) /\ b \in 0 .. Len(t)
    OBVIOUS
  <2>2. Before(t, b) = Before(t, a) + Utf8Length(SubSeq(t, a + 1, b))
    BY <2>1, Utf8LengthAdds DEF Before
  <2>3. SubSeq(t, a + 1, b) \in Seq(CodePoint) /\ SubSeq(t, a + 1, b) # <<>>
    OBVIOUS
  <2>4. Utf8Length(SubSeq(t, a + 1, b)) \in Nat /\ Utf8Length(SubSeq(t, a + 1, b)) >= 1
    BY <2>3, BytesOfSome
  <2>5. \A x, y, u \in Nat : u >= 1 /\ y = x + u => x < y
    OBVIOUS
  <2>6. QED
    BY <1>1, <2>1, <2>2, <2>4, <2>5
<1>3. ASSUME NEW a \in 0 .. Len(t), NEW b \in a .. Len(t) PROVE Before(t, a) <= Before(t, b)
  <2>1. CASE a = b
    BY <1>1, <2>1
  <2>2. CASE a # b
    <3>1. b \in a + 1 .. Len(t) /\ b \in 0 .. Len(t)
      BY <2>2
    <3>2. Before(t, a) < Before(t, b) /\ Before(t, a) \in Nat /\ Before(t, b) \in Nat
      BY <1>1, <1>2, <3>1
    <3>. HIDE DEF Before
    <3>3. QED
      BY <3>2
  <2>3. QED
    BY <2>1, <2>2
<1>4. QED
  BY <1>1, <1>2, <1>3

LEMMA MarkerTakesThree == Utf8Length(<<MARKER>>) = 3
<1>1. Utf8Bytes(<<MARKER>>) = {<<1, 1>>, <<1, 2>>} \cup {<<1, 3>>}
  <2>1. Utf8Cost(MARKER) = 3
    BY DEF Utf8Cost, MARKER
  <2>2. \A p : p \in (1 .. 1) \X (1 .. 4) /\ p[2] <= 3 <=> p \in {<<1, 1>>, <<1, 2>>, <<1, 3>>}
    OBVIOUS
  <2>3. Len(<<MARKER>>) = 1 /\ \A p \in (1 .. 1) \X (1 .. 4) : <<MARKER>>[p[1]] = MARKER
    OBVIOUS
  <2>4. QED
    BY <2>1, <2>2, <2>3 DEF Utf8Bytes
<1>2. IsFiniteSet({<<1, 1>>}) /\ Cardinality({<<1, 1>>}) = 1
  BY FS_Singleton
<1>3. IsFiniteSet({<<1, 1>>} \cup {<<1, 2>>}) /\ Cardinality({<<1, 1>>} \cup {<<1, 2>>}) = 2
  <2>1. <<1, 2>> \notin {<<1, 1>>}
    OBVIOUS
  <2>2. IsFiniteSet({<<1, 1>>} \cup {<<1, 2>>}) /\ Cardinality({<<1, 1>>} \cup {<<1, 2>>}) = 1 + 1
    BY <1>2, <2>1, FS_AddElement
  <2>3. QED
    BY <2>2
<1>4. {<<1, 1>>} \cup {<<1, 2>>} = {<<1, 1>>, <<1, 2>>}
  OBVIOUS
<1>5. Cardinality({<<1, 1>>, <<1, 2>>} \cup {<<1, 3>>}) = 2 + 1
  <2>1. <<1, 3>> \notin {<<1, 1>>, <<1, 2>>}
    OBVIOUS
  <2>2. IsFiniteSet({<<1, 1>>, <<1, 2>>}) /\ Cardinality({<<1, 1>>, <<1, 2>>}) = 2
    BY <1>3, <1>4
  <2>3. QED
    BY <2>1, <2>2, FS_AddElement
<1>6. QED
  BY <1>1, <1>5 DEF Utf8Length

(* An offset into a body is the byte before a code point of its run.           *)
LEMMA OffsetIsBoundary ==
  ASSUME NEW t \in Seq(CodePoint), NEW i \in 0 .. Len(t) - 1, t[i + 1] = MARKER,
         NEW run, run = DecodeRun(t, i + 1), NEW n \in 0 .. Len(run)
  PROVE  /\ Before(t, i) + 3 = Before(t, i + 1)
         /\ DocumentOffset(run, n, Before(t, i) + 3) = Before(t, i + 1 + n)
<1>1. i + 1 \in 0 .. Len(t) /\ i \in 0 .. Len(t) /\ i + 1 \in i .. Len(t) /\ i \in Nat
  OBVIOUS
<1>2. /\ run \in Seq(Byte) /\ Len(run) = RunLength(t, i + 1)
      /\ \A k \in 1 .. Len(run) : t[(i + 1) + k] = ByteToSelector(run[k])
  BY <1>1, DecodedRun
<1>3. i + 1 + RunLength(t, i + 1) <= Len(t)
  BY <1>1, RunLengthIsLongest
<1>4. n \in Nat /\ i + 1 + n \in 0 .. Len(t) /\ i + 1 + n \in i + 1 .. Len(t)
  BY <1>1, <1>2, <1>3
<1>5. Before(t, i) + 3 = Before(t, i + 1)
  <2>1. Before(t, i + 1) = Before(t, i) + Utf8Length(SubSeq(t, i + 1, i + 1))
    BY <1>1, Utf8LengthAdds DEF Before
  <2>2. SubSeq(t, i + 1, i + 1) = <<MARKER>>
    <3>1. i + 1 \in 1 .. Len(t)
      OBVIOUS
    <3>2. SubSeq(t, i + 1, i + 1) = <<t[i + 1]>>
      BY <3>1, OneCodePoint, Zenon
    <3>3. QED
      BY <3>2, Zenon
  <2>3. QED
    BY <2>1, <2>2, MarkerTakesThree
<1>6. Before(t, i + 1 + n) = Before(t, i + 1) + Utf8Length(SubSeq(t, (i + 1) + 1, i + 1 + n))
  BY <1>1, <1>4, Utf8LengthAdds DEF Before
<1>7. Utf8Bytes(SubSeq(t, (i + 1) + 1, i + 1 + n))
        = {p \in (1 .. n) \X (1 .. 4) : p[2] <= SelectorCost(run[p[1]])}
  <2>. DEFINE s == SubSeq(t, (i + 1) + 1, i + 1 + n)
  <2>1. Len(s) = n /\ \A k \in 1 .. n : s[k] = t[(i + 1) + k]
    BY <1>1, <1>4
  <2>2. \A k \in 1 .. n : s[k] = ByteToSelector(run[k])
    <3>1. \A k \in 1 .. n : k \in 1 .. Len(run)
      BY <1>2, <1>4
    <3>2. QED
      BY <1>2, <2>1, <3>1, Zenon
  <2>3. \A b \in Byte : Utf8Cost(ByteToSelector(b)) = SelectorCost(b)
    BY SMTT(30) DEF Byte, Utf8Cost, ByteToSelector, SelectorCost, VS_LOW_BASE, VS_HIGH_BASE, LOW_SPAN
  <2>4. \A k \in 1 .. n : run[k] \in Byte
    BY <1>2
  <2>. HIDE DEF s
  <2>5. \A k \in 1 .. n : Utf8Cost(s[k]) = SelectorCost(run[k])
    BY <2>2, <2>3, <2>4
  <2>6. \A p \in (1 .. n) \X (1 .. 4) : p[1] \in 1 .. n
    OBVIOUS
  <2>7. \A p \in (1 .. n) \X (1 .. 4) : Utf8Cost(s[p[1]]) = SelectorCost(run[p[1]])
    BY <2>5, <2>6, Zenon
  <2>8. Utf8Bytes(s) = {p \in (1 .. n) \X (1 .. 4) : p[2] <= Utf8Cost(s[p[1]])}
    BY <2>1 DEF Utf8Bytes
  <2>9. QED
    BY <2>7, <2>8 DEF s
<1>8. DocumentOffset(run, n, Before(t, i) + 3)
        = (Before(t, i) + 3) + Utf8Length(SubSeq(t, (i + 1) + 1, i + 1 + n))
  BY <1>7 DEF DocumentOffset, Utf8Length
<1>9. QED
  BY <1>5, <1>6, <1>8, Zenon

(* The offset of a corrupt candidate is a code point boundary in its run.      *)
LEMMA CorruptionIsInRun ==
  ASSUME NEW t \in Seq(CodePoint), NEW i \in 0 .. Len(t) - 1, t[i + 1] = MARKER,
         NEW run, run = DecodeRun(t, i + 1), HasMagic(run), ~ BodyIntact(run)
  PROVE  \E j \in i + 1 .. i + 1 + RunLength(t, i + 1) :
           CorruptionOffset(run, Before(t, i) + 3) = Before(t, j)
<1>1. /\ run \in Seq(Byte) /\ Len(run) = RunLength(t, i + 1) /\ Len(run) \in Nat
  BY DecodedRun
<1>2. Len(MAGIC) = 8
  BY DEF MAGIC
<1>3. i \in Nat /\ RunLength(t, i + 1) \in Nat
  BY <1>1
<1>4. ASSUME NEW n \in 0 .. Len(run)
      PROVE  /\ DocumentOffset(run, n, Before(t, i) + 3) = Before(t, i + 1 + n)
             /\ i + 1 + n \in i + 1 .. i + 1 + RunLength(t, i + 1)
  <2>1. DocumentOffset(run, n, Before(t, i) + 3) = Before(t, i + 1 + n)
    BY <1>4, OffsetIsBoundary
  <2>2. QED
    BY <1>1, <1>3, <2>1
<1>5. CASE HeaderTruncated(run)
  <2>1. CorruptionOffset(run, Before(t, i) + 3) = Before(t, i) + 3
    BY <1>5, Zenon DEF CorruptionOffset
  <2>2. 0 \in 0 .. Len(run)
    BY <1>1
  <2>3. Before(t, i) + 3 = Before(t, i + 1)
    BY <2>2, OffsetIsBoundary
  <2>4. i + 1 \in i + 1 .. i + 1 + RunLength(t, i + 1)
    BY <1>3
  <2>5. QED
    BY <2>1, <2>3, <2>4, Zenon
<1>6. CASE ~ HeaderTruncated(run)
  <2>1. 8 \in 0 .. Len(run) /\ 9 \in 0 .. Len(run) /\ Len(run) \in 0 .. Len(run) /\ 8 + 1 = 9
    BY <1>1, <1>6 DEF HeaderTruncated, HEADER_SIZE
  <2>2. \E n \in {8, 9, Len(run)} :
          CorruptionOffset(run, Before(t, i) + 3) = DocumentOffset(run, n, Before(t, i) + 3)
    BY <1>2, <1>6, <2>1, Zenon DEF CorruptionOffset
  <2>3. QED
    BY <1>4, <2>1, <2>2, Zenon
<1>7. QED
  BY <1>5, <1>6

----------------------------------------------------------------------------
(* The inductive invariant.                                                  *)

PrefixMeasured == prefixBytes = Utf8Length(SubSeq(text, 1, consumed))

(* A corrupt candidate is on record as soon as the scan is past one.         *)
CorruptOnRecord ==
  /\ pc = "scan" => (corrupt # {} <=> \E i \in CorruptCandidates(text) : i < index)
  /\ Returned => (corrupt # {} <=> CorruptCandidates(text) # {})

(* What a returned call answered is what its policy makes of the scan.       *)
OutcomeFollowsScan ==
  Returned =>
    IF op = "strip" THEN outcome.kind = "corrupt" <=> corrupt # {}
    ELSE outcome.kind = "corrupt" <=> matches = <<>> /\ corrupt # {}

ScanInvariant ==
  /\ TypeOK
  /\ PrefixMeasured
  /\ ScanFindsEveryWrapper
  /\ SpansAreWrapperBytes
  /\ CorruptOnRecord
  /\ OutcomeFollowsScan

----------------------------------------------------------------------------
(* The next marker.                                                          *)

LEMMA NextMarkerIsNext ==
  ASSUME TypeOK, NEW found \in NextMarker
  PROVE  /\ found \in index .. Len(text) - 1 /\ found \in 0 .. Len(text) - 1
         /\ found \in Nat /\ found + 1 \in 0 .. Len(text)
         /\ text[found + 1] = MARKER
         /\ \A j \in index .. found - 1 : text[j + 1] # MARKER
<1>1. text \in Seq(CodePoint) /\ index \in 0 .. Len(text)
  BY DEF TypeOK
<1>2. found \in index .. Len(text) - 1
  BY DEF NextMarker, MarkersFrom
<1>3. found \in Nat /\ found \in 0 .. Len(text) - 1 /\ found + 1 \in 0 .. Len(text)
  BY <1>1, <1>2
<1>4. QED
  BY <1>2, <1>3 DEF NextMarker, MarkersFrom

LEMMA NoMarkerIsLeft ==
  ASSUME TypeOK, NextMarker = {}
  PROVE  \A j \in index .. Len(text) - 1 : text[j + 1] # MARKER
<1>1. text \in Seq(CodePoint) /\ index \in 0 .. Len(text)
  BY DEF TypeOK
<1>2. ASSUME MarkersFrom(text, index) # {} PROVE FALSE
  <2>1. MarkersFrom(text, index) \in SUBSET Nat
    BY <1>1 DEF MarkersFrom
  <2>2. PICK i \in MarkersFrom(text, index) : \A m \in MarkersFrom(text, index) : i <= m
    BY <1>2, <2>1, LeastElement
  <2>3. i \in index .. Len(text) - 1
    BY DEF MarkersFrom
  <2>4. ASSUME NEW j \in index .. i - 1 PROVE text[j + 1] # MARKER
    <3>1. j \in index .. Len(text) - 1 /\ ~ (i <= j)
      BY <1>1, <2>3
    <3>2. QED
      BY <2>2, <3>1 DEF MarkersFrom
  <2>5. QED
    BY <2>4 DEF NextMarker
<1>3. QED
  BY <1>2 DEF MarkersFrom

(* The arguments of a turn: the decoded run, and the byte where the marker   *)
(* starts.                                                                   *)
LEMMA TurnArguments ==
  ASSUME TypeOK, PrefixMeasured, NEW found \in NextMarker
  PROVE  /\ RunAfter(found) = DecodeRun(text, found + 1)
         /\ RunAfter(found) \in Seq(Byte)
         /\ BytesBefore(found) = Utf8Length(SubSeq(text, 1, found))
         /\ BytesBefore(found) \in Nat
<1>1. text \in Seq(CodePoint) /\ index \in 0 .. Len(text) /\ consumed \in 0 .. index
  BY DEF TypeOK
<1>2. found \in index .. Len(text) - 1 /\ found + 1 \in 0 .. Len(text)
  BY NextMarkerIsNext
<1>3. RunAfter(found) = DecodeRun(text, found + 1) /\ RunAfter(found) \in Seq(Byte)
  BY <1>1, <1>2, DecodedRun DEF RunAfter
<1>4. consumed \in 0 .. Len(text) /\ found \in consumed .. Len(text) /\ found \in Nat
  BY <1>1, <1>2
<1>5. BytesBefore(found) = Utf8Length(SubSeq(text, 1, found))
  BY <1>1, <1>4, Utf8LengthAdds DEF BytesBefore, PrefixMeasured
<1>6. SubSeq(text, 1, found) \in Seq(CodePoint)
  BY <1>1, <1>4
<1>7. QED
  BY <1>3, <1>5, <1>6, Utf8BytesFinite

(* The wrappers and the corrupt candidates that the turn at `found` decides: *)
(* none starts strictly between two markers.                                 *)
LEMMA DecidedByTurn ==
  ASSUME TypeOK, NEW found \in NextMarker, NEW after \in found + 1 .. Len(text),
         \A j \in found + 1 .. after - 1 : text[j + 1] # MARKER
  PROVE  /\ {w \in Wrappers(text) : w[1] < after}
              = {w \in Wrappers(text) : w[1] < index} \cup {w \in Wrappers(text) : w[1] = found}
         /\ \A i \in CorruptCandidates(text) : i < after <=> (i < index \/ i = found)
<1>1. text \in Seq(CodePoint) /\ index \in 0 .. Len(text)
  BY DEF TypeOK
<1>2. /\ found \in index .. Len(text) - 1
      /\ \A j \in index .. found - 1 : text[j + 1] # MARKER
  BY NextMarkerIsNext
<1>3. ASSUME NEW i \in 0 .. Len(text) - 1, text[i + 1] = MARKER
      PROVE  i < after <=> (i < index \/ i = found)
  <2>1. ~ (i \in index .. found - 1) /\ ~ (i \in found + 1 .. after - 1)
    BY <1>2, <1>3
  <2>2. QED
    BY <1>1, <1>2, <2>1
<1>4. \A w \in Wrappers(text) : w[1] \in 0 .. Len(text) - 1 /\ text[w[1] + 1] = MARKER
  BY DEF Wrappers, WrapperAt
<1>5. \A i \in CorruptCandidates(text) : i \in 0 .. Len(text) - 1 /\ text[i + 1] = MARKER
  BY DEF CorruptCandidates, MarkersFrom
<1>6. \A w \in Wrappers(text) : w[1] < after <=> (w[1] < index \/ w[1] = found)
  BY <1>3, <1>4
<1>7. QED
  BY <1>3, <1>5, <1>6

LEMMA WrappersAtMarker ==
  ASSUME TypeOK, PrefixMeasured, NEW found \in NextMarker, NEW run, run = RunAfter(found)
  PROVE  /\ found \in CorruptCandidates(text) <=> HasMagic(run) /\ ~ BodyIntact(run)
         /\ ~ (HasMagic(run) /\ BodyIntact(run)) => {w \in Wrappers(text) : w[1] = found} = {}
         /\ HasMagic(run) /\ BodyIntact(run) =>
              {w \in Wrappers(text) : w[1] = found} = {<<found, DeclaredLength(run)>>}
<1>1. text \in Seq(CodePoint)
  BY DEF TypeOK
<1>2. found \in 0 .. Len(text) - 1 /\ text[found + 1] = MARKER
  BY NextMarkerIsNext
<1>3. run = DecodeRun(text, found + 1)
  BY TurnArguments
<1>4. \A n \in 0 .. MaxManifestLength :
        WrapperAt(text, found, n) => HasMagic(run) /\ BodyIntact(run) /\ DeclaredLength(run) = n
  BY <1>1, <1>2, <1>3, WrapperRunIsAccepted
<1>5. HasMagic(run) /\ BodyIntact(run) =>
        DeclaredLength(run) \in 0 .. MaxManifestLength /\ WrapperAt(text, found, DeclaredLength(run))
  BY <1>1, <1>2, <1>3, AcceptedRunIsWrapper
<1>6. \A w \in Wrappers(text) :
        w = <<w[1], w[2]>> /\ w[2] \in 0 .. MaxManifestLength /\ WrapperAt(text, w[1], w[2])
  BY DEF Wrappers
<1>7. \A w \in Wrappers(text) :
        w[1] = found => HasMagic(run) /\ BodyIntact(run) /\ w = <<found, DeclaredLength(run)>>
  BY <1>4, <1>6
<1>8. HasMagic(run) /\ BodyIntact(run) => <<found, DeclaredLength(run)>> \in Wrappers(text)
  BY <1>2, <1>5 DEF Wrappers
<1>9. found \in CorruptCandidates(text) <=> HasMagic(run) /\ ~ BodyIntact(run)
  BY <1>1, <1>2, <1>3, CandidateByRun
<1>10. QED
  BY <1>7, <1>8, <1>9

----------------------------------------------------------------------------
(* One step per disjunct of Turn.                                            *)

(* A candidate that is no wrapper is passed over by one code point.          *)
LEMMA DecoyTurn ==
  ASSUME ScanInvariant, pc = "scan", NEW found \in NextMarker,
         NEW run, run = RunAfter(found), NEW at, at = BytesBefore(found),
         ~ (HasMagic(run) /\ BodyIntact(run)),
         Visit(found, at), index' = found + 1, UNCHANGED matches,
         corrupt' \in SUBSET [offset : Nat, documentLength : Nat],
         \A e, f \in corrupt' : e = f,
         corrupt' # {} <=> corrupt # {} \/ HasMagic(run)
  PROVE  ScanInvariant'
<1>1. /\ TypeOK /\ PrefixMeasured /\ ScanFindsEveryWrapper /\ SpansAreWrapperBytes
      /\ CorruptOnRecord
  BY DEF ScanInvariant
<1>2. text' = text /\ op' = op /\ pc' = "scan" /\ outcome' = outcome /\ calls' = calls
  BY DEF Visit
<1>3. /\ found \in 0 .. Len(text) - 1 /\ found \in index .. Len(text) - 1 /\ found \in Nat
      /\ found + 1 \in 0 .. Len(text)
  BY <1>1, NextMarkerIsNext
<1>4. at = Utf8Length(SubSeq(text, 1, found)) /\ at \in Nat
  BY <1>1, TurnArguments
<1>5. TypeOK'
  <2>1. consumed' \in 0 .. index' /\ index' \in 0 .. Len(text') /\ prefixBytes' \in Nat
    BY <1>2, <1>3, <1>4 DEF Visit
  <2>2. QED
    BY <1>1, <1>2, <2>1 DEF TypeOK
<1>6. PrefixMeasured'
  BY <1>2, <1>4 DEF PrefixMeasured, Visit
<1>7. /\ {w \in Wrappers(text) : w[1] < found + 1}
           = {w \in Wrappers(text) : w[1] < index} \cup {w \in Wrappers(text) : w[1] = found}
      /\ \A i \in CorruptCandidates(text) : i < found + 1 <=> (i < index \/ i = found)
  <2>1. /\ found + 1 \in found + 1 .. Len(text)
        /\ \A j \in found + 1 .. (found + 1) - 1 : text[j + 1] # MARKER
    BY <1>3
  <2>2. QED
    BY <1>1, <2>1, DecidedByTurn
<1>8. /\ {w \in Wrappers(text) : w[1] = found} = {}
      /\ found \in CorruptCandidates(text) <=> HasMagic(run)
  BY <1>1, WrappersAtMarker
<1>9. ScanFindsEveryWrapper'
  <2>1. {w \in Wrappers(text) : w[1] < index'} = {w \in Wrappers(text) : w[1] < index}
    BY <1>7, <1>8
  <2>2. QED
    BY <1>1, <1>2, <2>1 DEF ScanFindsEveryWrapper, Returned
<1>10. SpansAreWrapperBytes'
  BY <1>1, <1>2 DEF SpansAreWrapperBytes
<1>11. CorruptOnRecord'
  <2>1. (\E i \in CorruptCandidates(text) : i < index')
          <=> (\E i \in CorruptCandidates(text) : i < index) \/ HasMagic(run)
    BY <1>7, <1>8
  <2>2. QED
    BY <1>1, <1>2, <2>1 DEF CorruptOnRecord, Returned
<1>12. OutcomeFollowsScan'
  BY <1>2 DEF OutcomeFollowsScan, Returned
<1>13. QED
  BY <1>5, <1>6, <1>9, <1>10, <1>11, <1>12 DEF ScanInvariant

LEMMA SkipKeepsInvariant ==
  ASSUME ScanInvariant, pc = "scan", NEW found \in NextMarker,
         NEW run, run = RunAfter(found), NEW at, at = BytesBefore(found),
         SkipCandidate(found, run, at)
  PROVE  ScanInvariant'
<1>1. /\ ~ HasMagic(run) /\ Visit(found, at) /\ index' = found + 1
      /\ matches' = matches /\ corrupt' = corrupt
  BY DEF SkipCandidate
<1>2. /\ corrupt' \in SUBSET [offset : Nat, documentLength : Nat]
      /\ \A e, f \in corrupt' : e = f
  BY <1>1 DEF ScanInvariant, TypeOK
<1>3. QED
  BY <1>1, <1>2, DecoyTurn

LEMMA RememberKeepsInvariant ==
  ASSUME ScanInvariant, pc = "scan", NEW found \in NextMarker,
         NEW run, run = RunAfter(found), NEW at, at = BytesBefore(found),
         RememberCorrupt(found, run, at)
  PROVE  ScanInvariant'
<1>1. /\ HasMagic(run) /\ ~ BodyIntact(run) /\ Visit(found, at) /\ index' = found + 1
      /\ matches' = matches
      /\ corrupt' = IF corrupt = {}
                    THEN {[offset |-> CorruptionOffset(run, at + 3),
                           documentLength |-> Utf8Length(text)]}
                    ELSE corrupt
  BY DEF RememberCorrupt
<1>2. TypeOK /\ PrefixMeasured
  BY DEF ScanInvariant
<1>3. CorruptionOffset(run, at + 3) \in Nat /\ Utf8Length(text) \in Nat
  <2>1. run \in Seq(Byte) /\ at \in Nat /\ text \in Seq(CodePoint)
    BY <1>2, TurnArguments DEF TypeOK
  <2>2. at + 3 \in Nat
    BY <2>1
  <2>3. QED
    BY <2>1, <2>2, CorruptionOffsetType, Utf8BytesFinite
<1>4. /\ corrupt' \in SUBSET [offset : Nat, documentLength : Nat]
      /\ \A e, f \in corrupt' : e = f
  BY <1>1, <1>2, <1>3 DEF TypeOK
<1>5. corrupt' # {}
  BY <1>1
<1>6. QED
  BY <1>1, <1>4, <1>5, DecoyTurn

(* An accepted wrapper is passed whole: its selectors hold no other marker.  *)
LEMMA AcceptKeepsInvariant ==
  ASSUME ScanInvariant, pc = "scan", NEW found \in NextMarker,
         NEW run, run = RunAfter(found), NEW at, at = BytesBefore(found),
         AcceptWrapper(found, run, at)
  PROVE  ScanInvariant'
<1>1. /\ TypeOK /\ PrefixMeasured /\ ScanFindsEveryWrapper /\ SpansAreWrapperBytes
      /\ CorruptOnRecord
  BY DEF ScanInvariant
<1>2. PICK payload : payload = WrapperPayload(run)
  OBVIOUS
<1>3. PICK after : after = found + WrapperChars(payload)
  OBVIOUS
<1>4. PICK m : m = [at |-> found, payload |-> payload, start |-> at,
                    stop |-> at + Utf8Length(SubSeq(text, found + 1, after))]
  OBVIOUS
<1>5. /\ HasMagic(run) /\ BodyIntact(run) /\ Visit(found, at)
      /\ matches' = Append(matches, m) /\ index' = after /\ corrupt' = corrupt
  BY <1>2, <1>3, <1>4 DEF AcceptWrapper
<1>6. text' = text /\ op' = op /\ pc' = "scan" /\ outcome' = outcome /\ calls' = calls
  BY <1>5 DEF Visit
<1>7. /\ found \in 0 .. Len(text) - 1 /\ found \in index .. Len(text) - 1 /\ found \in Nat
      /\ found + 1 \in 0 .. Len(text) /\ text[found + 1] = MARKER
  BY <1>1, NextMarkerIsNext
<1>8. /\ run = DecodeRun(text, found + 1) /\ at = Utf8Length(SubSeq(text, 1, found))
      /\ at \in Nat
  BY <1>1, TurnArguments
<1>9. PICK n : n = DeclaredLength(run)
  OBVIOUS
<1>10. text \in Seq(CodePoint)
  BY <1>1 DEF TypeOK
<1>11. /\ n \in 0 .. MaxManifestLength /\ found + 14 + n <= Len(text)
       /\ RunBetween(text, found + 1, found + 14 + n)
       /\ payload \in Seq(Byte) /\ Len(payload) = n
       /\ SubSeq(text, found + 1, found + 14 + n) = BuildWrapper(payload)
  BY <1>2, <1>5, <1>7, <1>8, <1>9, <1>10, AcceptedRunIsWrapper, CodePointsOfWrapper
<1>12. n \in Nat /\ after = found + 14 + n /\ after \in found + 1 .. Len(text)
  BY <1>3, <1>7, <1>11, MaxManifestLengthAssumption, SMTT(30) DEF WrapperChars, HEADER_SIZE, LengthRange
<1>13. \A j \in found + 1 .. after - 1 : text[j + 1] # MARKER
  <2>1. ASSUME NEW j \in found + 1 .. after - 1 PROVE text[j + 1] \in Selectors
    <3>1. j + 1 \in found + 1 + 1 .. found + 14 + n
      BY <1>7, <1>12
    <3>2. QED
      BY <1>11, <3>1 DEF RunBetween
  <2>2. QED
    BY <2>1, CodecRoundTrip
<1>14. m \in [at : Nat, payload : Seq(Byte), start : Nat, stop : Nat]
  <2>1. SubSeq(text, found + 1, after) \in Seq(CodePoint)
    BY <1>7, <1>10, <1>12
  <2>2. Utf8Length(SubSeq(text, found + 1, after)) \in Nat
    BY <2>1, Utf8BytesFinite
  <2>3. PICK u \in Nat : u = Utf8Length(SubSeq(text, found + 1, after))
    BY <2>2
  <2>4. m = [at |-> found, payload |-> payload, start |-> at, stop |-> at + u]
    BY <1>4, <2>3
  <2>5. at + u \in Nat
    BY <1>8
  <2>6. QED
    BY <1>7, <1>8, <1>11, <2>4, <2>5
<1>15. TypeOK'
  <2>1. consumed' \in 0 .. index' /\ index' \in 0 .. Len(text') /\ prefixBytes' \in Nat
    BY <1>5, <1>6, <1>7, <1>8, <1>12 DEF Visit
  <2>2. matches' \in Seq([at : Nat, payload : Seq(Byte), start : Nat, stop : Nat])
    BY <1>1, <1>5, <1>14 DEF TypeOK
  <2>3. QED
    BY <1>1, <1>5, <1>6, <2>1, <2>2 DEF TypeOK
<1>16. PrefixMeasured'
  BY <1>5, <1>6, <1>8 DEF PrefixMeasured, Visit
<1>17. /\ matches \in Seq([at : Nat, payload : Seq(Byte), start : Nat, stop : Nat])
       /\ Len(matches) \in Nat
       /\ DOMAIN matches = 1 .. Len(matches) /\ DOMAIN matches' = 1 .. Len(matches) + 1
       /\ \A i \in 1 .. Len(matches) : matches'[i] = matches[i]
       /\ matches'[Len(matches) + 1] = m
  BY <1>1, <1>5 DEF TypeOK
<1>18. /\ {w \in Wrappers(text) : w[1] < after}
            = {w \in Wrappers(text) : w[1] < index} \cup {<<found, n>>}
       /\ \A i \in CorruptCandidates(text) : i < after <=> i < index
  <2>1. /\ {w \in Wrappers(text) : w[1] < after}
             = {w \in Wrappers(text) : w[1] < index} \cup {w \in Wrappers(text) : w[1] = found}
        /\ \A i \in CorruptCandidates(text) : i < after <=> (i < index \/ i = found)
    BY <1>1, <1>12, <1>13, DecidedByTurn
  <2>2. /\ {w \in Wrappers(text) : w[1] = found} = {<<found, n>>}
        /\ found \notin CorruptCandidates(text)
    BY <1>1, <1>5, <1>9, WrappersAtMarker
  <2>3. QED
    BY <2>1, <2>2
<1>19. ScanFindsEveryWrapper'
  <2> DEFINE held == {<<matches[i].at, Len(matches[i].payload)>> : i \in DOMAIN matches}
             now == {<<matches'[i].at, Len(matches'[i].payload)>> : i \in DOMAIN matches'}
  <2>1. m.at = found /\ m.payload = payload
    BY <1>4
  <2>2. now = held \cup {<<found, n>>}
    <3>1. \A i : i \in 1 .. Len(matches) + 1 <=> i \in 1 .. Len(matches) \/ i = Len(matches) + 1
      BY <1>17
    <3>2. QED
      BY <1>11, <1>17, <2>1, <3>1
  <2>3. held = {w \in Wrappers(text) : w[1] < index}
    BY <1>1 DEF ScanFindsEveryWrapper
  <2>4. now = {w \in Wrappers(text) : w[1] < index'}
    BY <1>5, <1>18, <2>2, <2>3
  <2>5. QED
    BY <1>6, <2>4 DEF ScanFindsEveryWrapper, Returned
<1>20. SpansAreWrapperBytes'
  <2>1. /\ m.start = Utf8Length(SubSeq(text, 1, m.at))
        /\ m.stop = m.start + Utf8Length(BuildWrapper(m.payload))
    BY <1>4, <1>8, <1>11, <1>12
  <2>2. \A i \in DOMAIN matches' : i \in 1 .. Len(matches) \/ i = Len(matches) + 1
    BY <1>17
  <2>3. QED
    BY <1>1, <1>6, <1>17, <2>1, <2>2 DEF SpansAreWrapperBytes
<1>21. CorruptOnRecord'
  BY <1>1, <1>5, <1>6, <1>18 DEF CorruptOnRecord, Returned
<1>22. OutcomeFollowsScan'
  BY <1>6 DEF OutcomeFollowsScan, Returned
<1>23. QED
  BY <1>15, <1>16, <1>19, <1>20, <1>21, <1>22 DEF ScanInvariant

----------------------------------------------------------------------------
(* The other steps.                                                          *)

LEMMA BeginKeepsInvariant ==
  ASSUME ScanInvariant, NEW o \in Operations, NEW t \in Seq(CodePoint), Begin(o, t)
  PROVE  ScanInvariant'
<1>1. /\ op' = o /\ text' = t /\ index' = 0 /\ consumed' = 0 /\ prefixBytes' = 0
      /\ matches' = <<>> /\ corrupt' = {} /\ calls' = calls + 1 /\ calls < MaxCalls
  BY DEF Begin
<1>2. /\ pc' \in {"scan", "caller"}
      /\ outcome'.kind \in {"none", "unencodable"}
  BY DEF Begin
<1>3. TypeOK'
  <2>1. calls' \in 0 .. MaxCalls
    BY <1>1, MaxCallsAssumption DEF ScanInvariant, TypeOK
  <2>2. matches' \in Seq([at : Nat, payload : Seq(Byte), start : Nat, stop : Nat])
    BY <1>1
  <2>3. 0 \in 0 .. Len(t)
    OBVIOUS
  <2>4. QED
    BY <1>1, <1>2, <2>1, <2>2, <2>3 DEF TypeOK
<1>4. PrefixMeasured'
  <2>1. SubSeq(t, 1, 0) = <<>>
    OBVIOUS
  <2>2. Utf8Length(<<>>) = 0
    <3>1. Utf8Bytes(<<>>) = {}
      BY DEF Utf8Bytes
    <3>2. QED
      BY <3>1, FS_EmptySet DEF Utf8Length
  <2>3. QED
    BY <1>1, <2>1, <2>2 DEF PrefixMeasured
<1>5. ScanFindsEveryWrapper'
  <2>1. {w \in Wrappers(t) : w[1] < 0} = {}
    BY DEF Wrappers
  <2>2. DOMAIN matches' = {}
    BY <1>1
  <2>3. QED
    BY <1>1, <1>2, <2>1, <2>2 DEF ScanFindsEveryWrapper, Returned
<1>6. SpansAreWrapperBytes'
  BY <1>1 DEF SpansAreWrapperBytes
<1>7. CorruptOnRecord'
  <2>1. \A i \in CorruptCandidates(t) : ~ (i < 0)
    BY DEF CorruptCandidates, MarkersFrom
  <2>2. QED
    BY <1>1, <1>2, <2>1 DEF CorruptOnRecord, Returned
<1>8. OutcomeFollowsScan'
  BY <1>2 DEF OutcomeFollowsScan, Returned
<1>9. QED
  BY <1>3, <1>4, <1>5, <1>6, <1>7, <1>8 DEF ScanInvariant

(* When no marker is left, what was found is all there is.                   *)
LEMMA ReturnKeepsInvariant ==
  ASSUME ScanInvariant, Return
  PROVE  ScanInvariant'
<1>1. /\ TypeOK /\ PrefixMeasured /\ ScanFindsEveryWrapper /\ SpansAreWrapperBytes
      /\ CorruptOnRecord
  BY DEF ScanInvariant
<1>2. /\ pc = "scan" /\ NextMarker = {} /\ pc' = "caller"
      /\ text' = text /\ op' = op /\ index' = index /\ consumed' = consumed
      /\ prefixBytes' = prefixBytes /\ matches' = matches /\ corrupt' = corrupt
      /\ calls' = calls
  BY DEF Return, ScanOver, scanVars
<1>3. /\ op = "find_wrappers" => outcome' = FindWrappersOutcome
      /\ op = "locate" => outcome' = LocateOutcome
      /\ op = "strip" => outcome' = StripOutcome
      /\ op \in {"find_wrappers", "locate", "strip"}
  BY <1>1 DEF Return, TypeOK, Operations
<1>4. text \in Seq(CodePoint) /\ index \in 0 .. Len(text)
  BY <1>1 DEF TypeOK
<1>5. outcome'.kind = "text" => outcome'.text \in Seq(CodePoint)
  <2>1. op # "strip" => outcome'.kind # "text"
    BY <1>3 DEF FindWrappersOutcome, LocateOutcome, Raise
  <2>2. Decode(text, KeptBytes(text, matches)) \in Seq(CodePoint)
    BY <1>4, DecodeType
  <2>3. StripOutcome.kind = "text" => StripOutcome.text \in Seq(CodePoint)
    BY <1>4, <2>2 DEF StripOutcome, Raise
  <2>4. QED
    BY <1>3, <2>1, <2>3
<1>6. TypeOK'
  BY <1>1, <1>2, <1>5 DEF TypeOK
<1>7. \A j \in index .. Len(text) - 1 : text[j + 1] # MARKER
  BY <1>1, <1>2, NoMarkerIsLeft
<1>8. \A i \in 0 .. Len(text) - 1 : text[i + 1] = MARKER => i < index
  BY <1>4, <1>7
<1>9. ScanFindsEveryWrapper'
  <2>1. \A w \in Wrappers(text) : w[1] < index
    BY <1>8 DEF Wrappers, WrapperAt
  <2>2. {w \in Wrappers(text) : w[1] < index} = Wrappers(text)
    BY <2>1
  <2>3. QED
    BY <1>1, <1>2, <2>2 DEF ScanFindsEveryWrapper
<1>10. CorruptOnRecord'
  <2>1. \A i \in CorruptCandidates(text) : i < index
    BY <1>8 DEF CorruptCandidates, MarkersFrom
  <2>2. QED
    BY <1>1, <1>2, <2>1 DEF CorruptOnRecord
<1>11. OutcomeFollowsScan'
  <2>1. op # "strip" => (outcome'.kind = "corrupt" <=> matches = <<>> /\ corrupt # {})
    BY <1>3 DEF FindWrappersOutcome, LocateOutcome, Raise
  <2>2. op = "strip" => (outcome'.kind = "corrupt" <=> corrupt # {})
    BY <1>3 DEF StripOutcome, Raise
  <2>3. QED
    BY <1>2, <2>1, <2>2 DEF OutcomeFollowsScan
<1>12. PrefixMeasured' /\ SpansAreWrapperBytes'
  BY <1>1, <1>2 DEF PrefixMeasured, SpansAreWrapperBytes
<1>13. QED
  BY <1>6, <1>9, <1>10, <1>11, <1>12 DEF ScanInvariant

----------------------------------------------------------------------------
(* The theorems.                                                             *)

LEMMA InvariantHoldsAtFirst == Init => ScanInvariant
<1> SUFFICES ASSUME Init PROVE ScanInvariant
  OBVIOUS
<1>1. text \in Seq(CodePoint)
  BY TextsAssumption DEF Init
<1>2. TypeOK
  <2>1. 0 \in 0 .. Len(text) /\ 0 \in 0 .. MaxCalls
    BY <1>1, MaxCallsAssumption
  <2>2. matches \in Seq([at : Nat, payload : Seq(Byte), start : Nat, stop : Nat])
    BY DEF Init
  <2>3. QED
    BY <1>1, <2>1, <2>2 DEF Init, TypeOK, Operations
<1>3. PrefixMeasured
  <2>1. SubSeq(text, 1, 0) = <<>>
    BY <1>1
  <2>2. Utf8Length(<<>>) = 0
    <3>1. Utf8Bytes(<<>>) = {}
      BY DEF Utf8Bytes
    <3>2. QED
      BY <3>1, FS_EmptySet DEF Utf8Length
  <2>3. QED
    BY <2>1, <2>2 DEF Init, PrefixMeasured
<1>4. QED
  BY <1>2, <1>3 DEF Init, ScanInvariant, ScanFindsEveryWrapper, SpansAreWrapperBytes,
     CorruptOnRecord, OutcomeFollowsScan, Returned

LEMMA InvariantIsKept == ScanInvariant /\ [Next]_vars => ScanInvariant'
<1> SUFFICES ASSUME ScanInvariant, [Next]_vars PROVE ScanInvariant'
  OBVIOUS
<1>1. CASE Call
  <2>1. text \in Seq(CodePoint)
    BY DEF ScanInvariant, TypeOK
  <2>2. QED
    BY <1>1, <2>1, BeginKeepsInvariant DEF Call
<1>2. CASE CallOnStripped
  <2>1. outcome.text \in Seq(CodePoint)
    BY <1>2 DEF CallOnStripped, ScanInvariant, TypeOK
  <2>2. QED
    BY <1>2, <2>1, BeginKeepsInvariant DEF CallOnStripped
<1>3. CASE Turn
  <2>1. pc = "scan"
    BY <1>3 DEF Turn
  <2>2. PICK found \in NextMarker :
          \/ SkipCandidate(found, RunAfter(found), BytesBefore(found))
          \/ RememberCorrupt(found, RunAfter(found), BytesBefore(found))
          \/ AcceptWrapper(found, RunAfter(found), BytesBefore(found))
    BY <1>3 DEF Turn
  <2>3. QED
    BY <2>1, <2>2, SkipKeepsInvariant, RememberKeepsInvariant, AcceptKeepsInvariant
<1>4. CASE Return
  BY <1>4, ReturnKeepsInvariant
<1>5. CASE UNCHANGED vars
  <2>1. /\ text' = text /\ op' = op /\ pc' = pc /\ index' = index /\ consumed' = consumed
        /\ prefixBytes' = prefixBytes /\ matches' = matches /\ corrupt' = corrupt
        /\ outcome' = outcome /\ calls' = calls
    BY <1>5 DEF vars, scanVars
  <2>2. TypeOK'
    BY <2>1 DEF ScanInvariant, TypeOK
  <2>3. PrefixMeasured' /\ SpansAreWrapperBytes'
    BY <2>1 DEF ScanInvariant, PrefixMeasured, SpansAreWrapperBytes
  <2>4. ScanFindsEveryWrapper' /\ CorruptOnRecord' /\ OutcomeFollowsScan'
    BY <2>1 DEF ScanInvariant, ScanFindsEveryWrapper, CorruptOnRecord, OutcomeFollowsScan, Returned
  <2>5. QED
    BY <2>2, <2>3, <2>4 DEF ScanInvariant
<1>6. QED
  BY <1>1, <1>2, <1>3, <1>4, <1>5 DEF Next, ScanStep

(* The strengthened invariant holds in every reachable state of the scan.    *)
THEOREM ScanIsSound == Spec => []ScanInvariant
  BY InvariantHoldsAtFirst, InvariantIsKept, PTL DEF Spec

(* Type correctness: in particular `index` never passes the end of the text, *)
(* `consumed` never passes `index`, and at most one error is kept.           *)
THEOREM TypeCorrect == Spec => []TypeOK
<1>1. ScanInvariant => TypeOK
  BY DEF ScanInvariant
<1>2. QED
  BY <1>1, ScanIsSound, PTL

(* _scan_wrappers finds every wrapper of every text and nothing else, at     *)
(* each turn of its loop and in the end.                                     *)
THEOREM ScanIsExact == Spec => []ScanFindsEveryWrapper
<1>1. ScanInvariant => ScanFindsEveryWrapper
  BY DEF ScanInvariant
<1>2. QED
  BY <1>1, ScanIsSound, PTL

(* Each Span holds the UTF-8 bytes of its wrapper in the text as stored.     *)
THEOREM SpansAreExact == Spec => []SpansAreWrapperBytes
<1>1. ScanInvariant => SpansAreWrapperBytes
  BY DEF ScanInvariant
<1>2. QED
  BY <1>1, ScanIsSound, PTL

(* No decoy makes find_wrappers or locate fail on a text with a genuine      *)
(* wrapper, and a corrupt candidate alone is never taken for no mark.        *)
THEOREM DecoyIsHarmless == Spec => []DecoyCannotHideWrapper
<1>1. ScanInvariant => DecoyCannotHideWrapper
  <2>1. SUFFICES ASSUME ScanInvariant, Returned, op # "strip"
                 PROVE  outcome.kind = "corrupt"
                          <=> Wrappers(text) = {} /\ CorruptCandidates(text) # {}
    BY DEF DecoyCannotHideWrapper
  <2>2. outcome.kind = "corrupt" <=> matches = <<>> /\ corrupt # {}
    BY <2>1 DEF ScanInvariant, OutcomeFollowsScan
  <2>3. corrupt # {} <=> CorruptCandidates(text) # {}
    BY <2>1 DEF ScanInvariant, CorruptOnRecord
  <2>4. {<<matches[i].at, Len(matches[i].payload)>> : i \in DOMAIN matches} = Wrappers(text)
    BY <2>1 DEF ScanInvariant, ScanFindsEveryWrapper
  <2>5. matches = <<>> <=> DOMAIN matches = {}
    <3>1. matches \in Seq([at : Nat, payload : Seq(Byte), start : Nat, stop : Nat])
      BY <2>1 DEF ScanInvariant, TypeOK
    <3>2. QED
      BY <3>1
  <2>6. matches = <<>> <=> Wrappers(text) = {}
    BY <2>4, <2>5
  <2>7. QED
    BY <2>2, <2>3, <2>6
<1>2. QED
  BY <1>1, ScanIsSound, PTL

(* strip raises exactly on the texts with a candidate of unknown extent.     *)
THEOREM StripRefusal == Spec => []StripRefusesUnknownExtent
<1>1. ScanInvariant => StripRefusesUnknownExtent
  BY DEF ScanInvariant, OutcomeFollowsScan, CorruptOnRecord, StripRefusesUnknownExtent
<1>2. QED
  BY <1>1, ScanIsSound, PTL

----------------------------------------------------------------------------
(* The refinement of Calls.  What it needs beyond the scan being exact is    *)
(* order: the spans held are those of the text so far from left to right, the *)
(* wrappers held lie apart, and the error held is about the first candidate. *)

(* What stands at a code point: the span of the wrapper that starts there.   *)
StartingAt(t, i) == {w \in Wrappers(t) : w[1] = i}

SpanPiece(t, k) ==
  IF StartingAt(t, k - 1) = {} THEN <<>>
  ELSE <<SpanOf(t, CHOOSE w \in StartingAt(t, k - 1) : TRUE)>>

SpanPieces(t) == [k \in DOMAIN t |-> SpanPiece(t, k)]

EndOf(m) == m.at + 14 + Len(m.payload)

Held == [i \in 1 .. Len(matches) |-> <<matches[i].start, matches[i].stop>>]

(* The spans held are those of the text so far, in its order.                *)
SpansInOrder == pc = "scan" => Held = FlattenSeq(SubSeq(SpanPieces(text), 1, index))

(* The wrappers held lie apart, each between two code points.                *)
MatchesApart ==
  pc = "scan" =>
    \A i \in 1 .. Len(matches) :
      /\ EndOf(matches[i]) <= index
      /\ matches[i].start = Before(text, matches[i].at)
      /\ matches[i].stop = Before(text, EndOf(matches[i]))
      /\ \A j \in 1 .. Len(matches) : i < j => EndOf(matches[i]) <= matches[j].at

(* The error held is about the first corrupt candidate.                      *)
FirstCorruptHeld == pc = "scan" => \A e \in corrupt : e.offset \in CorruptOffsets(text)

CallInvariant == ScanInvariant /\ SpansInOrder /\ MatchesApart /\ FirstCorruptHeld

Span == Nat \X Nat

LEMMA SpanPieceType ==
  ASSUME NEW t \in Seq(CodePoint)
  PROVE  /\ SpanPieces(t) \in Seq(Seq(Span)) /\ Len(SpanPieces(t)) = Len(t)
         /\ \A k \in 1 .. Len(t) : SpanPieces(t)[k] = SpanPiece(t, k)
<1>1. Len(t) \in Nat /\ DOMAIN t = 1 .. Len(t)
  OBVIOUS
<1>2. ASSUME NEW w \in Wrappers(t) PROVE SpanOf(t, w) \in Span
  <2>1. /\ w[1] \in 0 .. Len(t) - 1 /\ w[2] \in 0 .. MaxManifestLength
        /\ WrapperAt(t, w[1], w[2])
    BY DEF Wrappers
  <2>2. w[1] \in 0 .. Len(t) /\ w[1] + 1 + HEADER_SIZE + w[2] \in 0 .. Len(t)
    BY <1>1, <2>1, MaxManifestLengthAssumption, SMTT(30) DEF WrapperAt, HEADER_SIZE, LengthRange
  <2>3. \A k \in 0 .. Len(t) : Before(t, k) \in Nat
    BY BeforeGrows, Zenon
  <2>4. SpanOf(t, w) = <<Before(t, w[1]), Before(t, w[1] + 1 + HEADER_SIZE + w[2])>>
    BY Zenon DEF SpanOf, Before
  <2>5. QED
    BY <2>2, <2>3, <2>4 DEF Span
<1>3. ASSUME NEW k \in 1 .. Len(t) PROVE SpanPiece(t, k) \in Seq(Span)
  <2>1. <<>> \in Seq(Span) /\ \A s \in Span : <<s>> \in Seq(Span)
    OBVIOUS
  <2>2. CASE StartingAt(t, k - 1) = {}
    BY <2>1, <2>2, Zenon DEF SpanPiece
  <2>3. CASE StartingAt(t, k - 1) # {}
    <3>1. PICK w : w = CHOOSE v \in StartingAt(t, k - 1) : TRUE
      OBVIOUS
    <3>2. w \in StartingAt(t, k - 1)
      BY <2>3, <3>1, Zenon
    <3>3. SpanOf(t, w) \in Span
      BY <1>2, <3>2, Zenon DEF StartingAt
    <3>4. QED
      BY <2>1, <2>3, <3>1, <3>3, Zenon DEF SpanPiece
  <2>4. QED
    BY <2>2, <2>3
<1>4. QED
  BY <1>1, <1>3 DEF SpanPieces

LEMMA SpansByPieces ==
  ASSUME NEW t
  PROVE  SpansIn(t) = FlattenSeq(SpanPieces(t))
  BY Zenon DEF SpansIn, SpanPieces, SpanPiece, StartingAt

LEMMA NoMarkerNoSpan ==
  ASSUME NEW t \in Seq(CodePoint), NEW k \in 1 .. Len(t), t[k] # MARKER
  PROVE  SpanPieces(t)[k] = <<>>
<1>1. ASSUME NEW w \in Wrappers(t), w[1] = k - 1 PROVE FALSE
  <2>1. t[w[1] + 1] = MARKER /\ w[1] + 1 = k
    BY <1>1 DEF Wrappers, WrapperAt
  <2>2. QED
    BY <2>1
<1>2. StartingAt(t, k - 1) = {}
  BY <1>1 DEF StartingAt
<1>3. QED
  BY <1>2, SpanPieceType, Zenon DEF SpanPiece

Match == [at : Nat, payload : Seq(Byte), start : Nat, stop : Nat]

LEMMA EndType ==
  ASSUME NEW m \in Match
  PROVE  m.at \in Nat /\ Len(m.payload) \in Nat /\ EndOf(m) \in Nat /\ m.at < EndOf(m)
<1>1. m.at \in Nat /\ m.payload \in Seq(Byte)
  BY DEF Match
<1>2. PICK a \in Nat, n \in Nat : a = m.at /\ n = Len(m.payload)
  BY <1>1
<1>3. EndOf(m) = a + 14 + n
  BY <1>2 DEF EndOf
<1>4. QED
  BY <1>2, <1>3

LEMMA ScanTypes ==
  ASSUME TypeOK
  PROVE  /\ text \in Seq(CodePoint) /\ Len(text) \in Nat
         /\ index \in Nat /\ index \in 0 .. Len(text)
         /\ matches \in Seq(Match) /\ Len(matches) \in Nat
         /\ \A i \in 1 .. Len(matches) : matches[i] \in Match
<1>1. text \in Seq(CodePoint) /\ index \in 0 .. Len(text) /\ matches \in Seq(Match)
  BY Zenon DEF TypeOK, Match
<1>2. Len(text) \in Nat /\ index \in Nat
  BY <1>1
<1>3. Len(matches) \in Nat /\ \A i \in 1 .. Len(matches) : matches[i] \in Match
  <2>. HIDE DEF Match
  <2>1. QED
    BY <1>1
<1>4. QED
  BY <1>1, <1>2, <1>3, Zenon

(* A turn that holds nothing moves past one marker.                          *)
LEMMA DecoyAddsNoSpan ==
  ASSUME TypeOK, PrefixMeasured, NEW found \in NextMarker, NEW run, run = RunAfter(found),
         ~ (HasMagic(run) /\ BodyIntact(run))
  PROVE  /\ index \in 0 .. Len(text) /\ found + 1 \in index .. Len(text)
         /\ \A k \in index + 1 .. found + 1 : SpanPieces(text)[k] = <<>>
<1>1. text \in Seq(CodePoint) /\ index \in 0 .. Len(text)
  BY DEF TypeOK
<1>2. /\ found \in index .. Len(text) - 1 /\ found \in Nat
      /\ \A j \in index .. found - 1 : text[j + 1] # MARKER
  BY NextMarkerIsNext
<1>3. StartingAt(text, found) = {}
  BY WrappersAtMarker DEF StartingAt
<1>4. SpanPieces(text)[found + 1] = <<>>
  <2>1. found + 1 \in 1 .. Len(text) /\ (found + 1) - 1 = found
    BY <1>1, <1>2
  <2>2. SpanPieces(text)[found + 1] = SpanPiece(text, found + 1)
    BY <1>1, <2>1, SpanPieceType, Zenon
  <2>3. SpanPiece(text, found + 1) = <<>>
    BY <1>3, <2>1, Zenon DEF SpanPiece
  <2>4. QED
    BY <2>2, <2>3
<1>5. ASSUME NEW k \in index + 1 .. found PROVE SpanPieces(text)[k] = <<>>
  <2>1. k - 1 \in index .. found - 1 /\ (k - 1) + 1 = k /\ k \in 1 .. Len(text)
    BY <1>1, <1>2
  <2>2. text[k] # MARKER
    BY <1>2, <2>1
  <2>3. QED
    BY <1>1, <2>1, <2>2, NoMarkerNoSpan
<1>6. \A k \in index + 1 .. found + 1 : k \in index + 1 .. found \/ k = found + 1
  BY <1>1, <1>2
<1>7. index \in 0 .. Len(text) /\ found + 1 \in index .. Len(text)
  BY <1>1, <1>2
<1>8. QED
  BY <1>4, <1>5, <1>6, <1>7, Zenon

LEMMA DecoyKeepsOrder ==
  ASSUME CallInvariant, pc = "scan", NEW found \in NextMarker,
         NEW run, run = RunAfter(found), NEW at, Visit(found, at), index' = found + 1,
         ~ (HasMagic(run) /\ BodyIntact(run)), UNCHANGED matches
  PROVE  SpansInOrder' /\ MatchesApart'
<1>1. TypeOK /\ PrefixMeasured /\ SpansInOrder /\ MatchesApart
  BY DEF CallInvariant, ScanInvariant
<1>2. text' = text /\ pc' = pc /\ matches' = matches
  BY DEF Visit
<1>3. /\ index \in 0 .. Len(text) /\ found + 1 \in index .. Len(text)
      /\ \A k \in index + 1 .. found + 1 : SpanPieces(text)[k] = <<>>
  BY <1>1, DecoyAddsNoSpan
<1>4. SpanPieces(text) \in Seq(Seq(Span)) /\ Len(SpanPieces(text)) = Len(text)
  BY <1>1, SpanPieceType DEF TypeOK
<1>5. FlattenSeq(SubSeq(SpanPieces(text), 1, found + 1))
        = FlattenSeq(SubSeq(SpanPieces(text), 1, index))
  BY <1>3, <1>4, EmptyPiecesAddNothing, Zenon
<1>6. Held' = Held
  BY <1>2 DEF Held
<1>7. SpansInOrder'
  <2>1. SpanPieces(text') = SpanPieces(text) /\ index' = found + 1
    BY <1>2
  <2>2. QED
    BY <1>1, <1>5, <1>6, <2>1, Zenon DEF SpansInOrder
<1>8. MatchesApart'
  <2>1. \A i \in 1 .. Len(matches) : EndOf(matches[i]) <= index => EndOf(matches[i]) <= index'
    <3>. TAKE i \in 1 .. Len(matches)
    <3>1. matches[i] \in Match
      BY <1>1, ScanTypes, Zenon
    <3>2. EndOf(matches[i]) \in Nat
      BY <3>1, EndType, Zenon
    <3>3. index \in Nat /\ Len(text) \in Nat
      BY <1>1, ScanTypes, Zenon
    <3>4. PICK a : a = index
      OBVIOUS
    <3>5. PICK b : b = found + 1
      OBVIOUS
    <3>6. a \in Nat /\ b \in Nat /\ a <= b
      BY <1>3, <3>3, <3>4, <3>5
    <3>7. PICK e \in Nat : e = EndOf(matches[i])
      BY <3>2
    <3>8. e <= a => e <= b
      BY <3>6
    <3>9. QED
      BY <3>4, <3>5, <3>7, <3>8, Zenon
  <2>2. QED
    BY <1>1, <1>2, <2>1, Zenon DEF MatchesApart
<1>9. QED
  BY <1>7, <1>8

(* What an accepted turn holds.                                              *)
LEMMA AcceptedTurn ==
  ASSUME TypeOK, PrefixMeasured, NEW found \in NextMarker,
         NEW run, run = RunAfter(found), NEW at, at = BytesBefore(found),
         AcceptWrapper(found, run, at)
  PROVE  \E m, n :
           /\ text' = text /\ pc' = pc /\ corrupt' = corrupt
           /\ matches' = Append(matches, m) /\ index' = found + 14 + n
           /\ m \in Match
           /\ m.at = found /\ Len(m.payload) = n /\ n \in Nat
           /\ m.start = Before(text, found) /\ m.stop = Before(text, found + 14 + n)
           /\ found + 14 + n <= Len(text) /\ StartingAt(text, found) = {<<found, n>>}
           /\ \A k \in found + 2 .. found + 14 + n : text[k] # MARKER
<1>1. text \in Seq(CodePoint) /\ index \in 0 .. Len(text)
  BY DEF TypeOK
<1>2. PICK payload : payload = WrapperPayload(run)
  OBVIOUS
<1>3. PICK after : after = found + WrapperChars(payload)
  OBVIOUS
<1>4. PICK m : m = [at |-> found, payload |-> payload, start |-> at,
                    stop |-> at + Utf8Length(SubSeq(text, found + 1, after))]
  OBVIOUS
<1>5. /\ HasMagic(run) /\ BodyIntact(run) /\ Visit(found, at)
      /\ matches' = Append(matches, m) /\ index' = after /\ corrupt' = corrupt
  BY <1>2, <1>3, <1>4 DEF AcceptWrapper
<1>6. text' = text /\ pc' = pc
  BY <1>5 DEF Visit
<1>7. found \in 0 .. Len(text) - 1 /\ found \in Nat /\ text[found + 1] = MARKER
  BY NextMarkerIsNext
<1>8. /\ run = DecodeRun(text, found + 1) /\ at = Before(text, found) /\ at \in Nat
  BY TurnArguments DEF Before
<1>9. PICK n : n = DeclaredLength(run)
  OBVIOUS
<1>10. /\ n \in 0 .. MaxManifestLength /\ found + 14 + n <= Len(text)
       /\ RunBetween(text, found + 1, found + 14 + n)
       /\ payload \in Seq(Byte) /\ Len(payload) = n
  BY <1>1, <1>2, <1>5, <1>7, <1>8, <1>9, AcceptedRunIsWrapper
<1>11. n \in Nat /\ after = found + 14 + n /\ after \in found .. Len(text)
  BY <1>3, <1>7, <1>10, MaxManifestLengthAssumption, SMTT(30) DEF WrapperChars, HEADER_SIZE, LengthRange
<1>12. \A k \in found + 2 .. found + 14 + n : text[k] # MARKER
  <2>1. ASSUME NEW k \in found + 2 .. found + 14 + n PROVE text[k] \in Selectors
    <3>1. k \in found + 1 + 1 .. found + 14 + n
      BY <1>7, <1>11
    <3>2. QED
      BY <1>10, <3>1 DEF RunBetween
  <2>2. QED
    BY <2>1, CodecRoundTrip
<1>13. StartingAt(text, found) = {<<found, n>>}
  BY <1>5, <1>9, WrappersAtMarker DEF StartingAt
<1>14. at + Utf8Length(SubSeq(text, found + 1, after)) = Before(text, after)
  <2>1. found \in 0 .. Len(text)
    BY <1>1, <1>7
  <2>2. QED
    BY <1>1, <1>8, <1>11, <2>1, Utf8LengthAdds DEF Before
<1>15. Before(text, after) \in Nat
  <2>1. after \in 0 .. Len(text)
    BY <1>7, <1>11
  <2>2. QED
    BY <1>1, <2>1, BeforeGrows, Zenon
<1>16. /\ m = [at |-> found, payload |-> payload, start |-> Before(text, found),
               stop |-> Before(text, after)]
  BY <1>4, <1>8, <1>14, Zenon
<1>17. /\ m \in Match
       /\ m.at = found /\ m.payload = payload
       /\ m.start = Before(text, found) /\ m.stop = Before(text, after)
  BY <1>7, <1>8, <1>10, <1>15, <1>16 DEF Match
<1>18. QED
  BY <1>5, <1>6, <1>10, <1>11, <1>12, <1>13, <1>17, Zenon

LEMMA NextHeld ==
  ASSUME NEW m, matches \in Seq(Match), m \in Match, matches' = Append(matches, m)
  PROVE  /\ Len(matches') = Len(matches) + 1
         /\ \A i \in 1 .. Len(matches) : matches'[i] = matches[i]
         /\ matches'[Len(matches) + 1] = m
         /\ Held \in Seq(Span) /\ Held' = Held \o <<<<m.start, m.stop>>>>
<1>1. /\ Len(matches') = Len(matches) + 1 /\ Len(matches) \in Nat
      /\ \A i \in 1 .. Len(matches) : matches'[i] = matches[i] /\ matches[i] \in Match
      /\ matches'[Len(matches) + 1] = m
  <2>. HIDE DEF Match
  <2>1. QED
    OBVIOUS
<1>2. \A v \in Match : <<v.start, v.stop>> \in Span
  BY DEF Match, Span
<1>3. PICK k \in Nat : k = Len(matches)
  BY <1>1
<1>4. PICK s : s = <<m.start, m.stop>>
  OBVIOUS
<1>. HIDE DEF Span, Match
<1>5. \A i \in 1 .. k : <<matches[i].start, matches[i].stop>> \in Span
  BY <1>1, <1>2, <1>3, Zenon
<1>6. /\ Held \in Seq(Span) /\ Len(Held) = k
      /\ \A i \in 1 .. k : Held[i] = <<matches[i].start, matches[i].stop>>
  BY <1>3, <1>5 DEF Held
<1>7. Held' = [i \in 1 .. k + 1 |-> <<matches'[i].start, matches'[i].stop>>]
  BY <1>1, <1>3 DEF Held
<1>8. \A i \in 1 .. k + 1 : <<matches'[i].start, matches'[i].stop>> = IF i <= k THEN Held[i] ELSE s
  <2>. TAKE i \in 1 .. k + 1
  <2>1. CASE i <= k
    <3>1. i \in 1 .. k
      BY <2>1
    <3>2. QED
      BY <1>1, <1>3, <1>6, <2>1, <3>1, Zenon
  <2>2. CASE ~ (i <= k)
    <3>1. i = k + 1
      BY <2>2
    <3>2. QED
      BY <1>1, <1>3, <1>4, <2>2, <3>1, Zenon
  <2>3. QED
    BY <2>1, <2>2
<1>9. s \in Span
  BY <1>2, <1>4, Zenon
<1>10. Held' = [i \in 1 .. k + 1 |-> IF i <= k THEN Held[i] ELSE s]
  BY <1>7, <1>8, Zenon
<1>11. PICK h \in Seq(Span) : h = Held
  BY <1>6
<1>12. PICK hh : hh = Held'
  OBVIOUS
<1>13. Len(h) = k /\ hh = [i \in 1 .. k + 1 |-> IF i <= k THEN h[i] ELSE s]
  BY <1>6, <1>10, <1>11, <1>12
<1>14. hh = h \o <<s>>
  BY <1>9, <1>11, <1>13
<1>15. QED
  BY <1>1, <1>4, <1>6, <1>11, <1>12, <1>14, Zenon

LEMMA AcceptKeepsOrder ==
  ASSUME CallInvariant, pc = "scan", NEW found \in NextMarker,
         NEW run, run = RunAfter(found), NEW at, at = BytesBefore(found),
         AcceptWrapper(found, run, at)
  PROVE  SpansInOrder' /\ MatchesApart'
<1>1. TypeOK /\ PrefixMeasured /\ SpansInOrder /\ MatchesApart
  BY DEF CallInvariant, ScanInvariant
<1>2. PICK m, n :
        /\ text' = text /\ pc' = pc /\ corrupt' = corrupt
        /\ matches' = Append(matches, m) /\ index' = found + 14 + n
        /\ m \in Match
        /\ m.at = found /\ Len(m.payload) = n /\ n \in Nat
        /\ m.start = Before(text, found) /\ m.stop = Before(text, found + 14 + n)
        /\ found + 14 + n <= Len(text) /\ StartingAt(text, found) = {<<found, n>>}
        /\ \A k \in found + 2 .. found + 14 + n : text[k] # MARKER
  BY <1>1, AcceptedTurn
<1>3. /\ text \in Seq(CodePoint) /\ Len(text) \in Nat /\ index \in Nat /\ matches \in Seq(Match)
      /\ Len(matches) \in Nat /\ \A i \in 1 .. Len(matches) : matches[i] \in Match
  BY <1>1, ScanTypes, Zenon
<1>4. /\ found \in index .. Len(text) - 1 /\ found \in Nat
      /\ \A j \in index .. found - 1 : text[j + 1] # MARKER
  BY <1>1, NextMarkerIsNext
<1>5. /\ Len(matches') = Len(matches) + 1
      /\ \A i \in 1 .. Len(matches) : matches'[i] = matches[i]
      /\ matches'[Len(matches) + 1] = m
      /\ Held \in Seq(Span) /\ Held' = Held \o <<<<m.start, m.stop>>>>
  BY <1>2, <1>3, NextHeld
<1>6. PICK p : p = SpanPieces(text)
  OBVIOUS
<1>7. /\ p \in Seq(Seq(Span)) /\ Len(p) = Len(text)
      /\ \A k \in 1 .. Len(text) : p[k] = SpanPiece(text, k)
  BY <1>3, <1>6, SpanPieceType
<1>8. PICK a : a = found + 14 + n
  OBVIOUS
<1>9. /\ found \in index .. Len(p) /\ index \in 0 .. Len(p)
      /\ found + 1 \in 0 .. Len(p) /\ a \in found + 1 .. Len(p)
      /\ found \in 0 .. Len(p) - 1 /\ found + 1 \in 1 .. Len(text)
      /\ (found + 1) - 1 = found /\ (found + 1) + 1 = found + 2
  <2>1. PICK l \in Nat : l = Len(text)
    BY <1>3
  <2>2. l = Len(p)
    BY <1>7, <2>1, Zenon
  <2>3. found \in index .. l - 1 /\ a <= l /\ a = found + 14 + n
    BY <1>2, <1>4, <1>8, <2>1, Zenon
  <2>4. /\ found \in index .. l /\ index \in 0 .. l
        /\ found + 1 \in 0 .. l /\ a \in found + 1 .. l
        /\ found \in 0 .. l - 1 /\ found + 1 \in 1 .. l
        /\ (found + 1) - 1 = found /\ (found + 1) + 1 = found + 2
    BY <1>2, <1>3, <1>4, <2>3
  <2>5. QED
    BY <2>1, <2>2, <2>4, Zenon
<1>10. \A k \in index + 1 .. found : p[k] = <<>>
  <2>1. ASSUME NEW k \in index + 1 .. found PROVE p[k] = <<>>
    <3>1. k - 1 \in index .. found - 1 /\ (k - 1) + 1 = k /\ k \in 1 .. Len(text)
      BY <1>3, <1>4
    <3>2. text[k] # MARKER
      BY <1>4, <3>1
    <3>3. QED
      BY <1>3, <1>6, <3>1, <3>2, NoMarkerNoSpan
  <2>2. QED
    BY <2>1
<1>11. \A k \in (found + 1) + 1 .. a : p[k] = <<>>
  <2>1. ASSUME NEW k \in (found + 1) + 1 .. a PROVE p[k] = <<>>
    <3>1. k \in found + 2 .. found + 14 + n /\ k \in 1 .. Len(text)
      BY <1>2, <1>3, <1>4, <1>8
    <3>2. text[k] # MARKER
      BY <1>2, <3>1
    <3>3. QED
      BY <1>3, <1>6, <3>1, <3>2, NoMarkerNoSpan
  <2>2. QED
    BY <2>1
<1>12. p[found + 1] = <<<<m.start, m.stop>>>>
  <2>1. p[found + 1] = SpanPiece(text, found + 1)
    BY <1>7, <1>9, Zenon
  <2>2. (CHOOSE w \in {<<found, n>>} : TRUE) = <<found, n>>
    OBVIOUS
  <2>3. SpanPiece(text, found + 1) = <<SpanOf(text, <<found, n>>)>>
    BY <1>2, <1>9, <2>2 DEF SpanPiece
  <2>4. found + 1 + HEADER_SIZE + n = found + 14 + n
    BY <1>2, <1>4 DEF HEADER_SIZE
  <2>5. SpanOf(text, <<found, n>>) = <<Before(text, found), Before(text, found + 14 + n)>>
    BY <2>4 DEF SpanOf, Before
  <2>6. QED
    BY <1>2, <2>1, <2>3, <2>5, Zenon
<1>13. FlattenSeq(SubSeq(p, 1, found)) = FlattenSeq(SubSeq(p, 1, index))
  BY <1>7, <1>9, <1>10, EmptyPiecesAddNothing, Zenon
<1>14. FlattenSeq(SubSeq(p, 1, a)) = FlattenSeq(SubSeq(p, 1, found + 1))
  BY <1>7, <1>9, <1>11, EmptyPiecesAddNothing, Zenon
<1>15. FlattenSeq(SubSeq(p, 1, found + 1)) = FlattenSeq(SubSeq(p, 1, found)) \o p[found + 1]
  BY <1>7, <1>9, FlattenByPrefix, Zenon
<1>16. SpansInOrder'
  <2>1. Held = FlattenSeq(SubSeq(p, 1, index))
    BY <1>1, <1>6, Zenon DEF SpansInOrder
  <2>2. Held' = FlattenSeq(SubSeq(p, 1, a))
    BY <1>5, <1>12, <1>13, <1>14, <1>15, <2>1, Zenon
  <2>3. SpanPieces(text') = p /\ index' = a
    BY <1>2, <1>6, <1>8, Zenon
  <2>4. QED
    BY <2>2, <2>3, Zenon DEF SpansInOrder
<1>17. MatchesApart'
  <2>1. EndOf(m) = a
    BY <1>2, <1>8 DEF EndOf
  <2>2. \A i \in 1 .. Len(matches) : EndOf(matches[i]) \in Nat /\ EndOf(matches[i]) <= found
    <3>. TAKE i \in 1 .. Len(matches)
    <3>1. EndOf(matches[i]) \in Nat
      BY <1>3, EndType, Zenon
    <3>2. PICK e \in Nat : e = EndOf(matches[i])
      BY <3>1
    <3>3. EndOf(matches[i]) <= index
      BY <1>1, Zenon DEF MatchesApart
    <3>4. e <= index
      BY <3>2, <3>3, Zenon
    <3>5. e <= found
      BY <1>3, <1>4, <3>4
    <3>6. QED
      BY <3>1, <3>2, <3>5, Zenon
  <2>3. found <= a /\ a <= a
    BY <1>9, <1>4
  <2>4. \A i \in 1 .. Len(matches) : EndOf(matches[i]) <= a
    <3>. TAKE i \in 1 .. Len(matches)
    <3>1. PICK e \in Nat : e = EndOf(matches[i])
      BY <2>2, Zenon
    <3>2. e <= found
      BY <2>2, <3>1, Zenon
    <3>3. e <= a
      BY <1>4, <1>9, <3>2
    <3>4. QED
      BY <3>1, <3>3, Zenon
  <2>5. PICK l \in Nat : l = Len(matches)
    BY <1>3
  <2>6. \A i \in 1 .. l + 1 : i \in 1 .. l \/ i = l + 1
    OBVIOUS
  <2>7. \A i \in 1 .. l + 1 : \A j \in 1 .. l + 1 :
          i < j => i \in 1 .. l /\ (j \in 1 .. l \/ j = l + 1)
    OBVIOUS
  <2>8. \A i \in 1 .. l : /\ matches'[i] = matches[i]
                          /\ matches[i].start = Before(text, matches[i].at)
                          /\ matches[i].stop = Before(text, EndOf(matches[i]))
                          /\ \A j \in 1 .. l : i < j => EndOf(matches[i]) <= matches[j].at
    BY <1>1, <1>5, <2>5, Zenon DEF MatchesApart
  <2>9. matches'[l + 1] = m /\ Len(matches') = l + 1
    BY <1>5, <2>5, Zenon
  <2>10. m.start = Before(text, m.at) /\ m.stop = Before(text, EndOf(m))
    BY <1>2, <1>8, <2>1, Zenon
  <2>11. \A i \in 1 .. l + 1 : /\ EndOf(matches'[i]) <= a
                               /\ matches'[i].start = Before(text, matches'[i].at)
                               /\ matches'[i].stop = Before(text, EndOf(matches'[i]))
    BY <2>1, <2>3, <2>4, <2>5, <2>6, <2>8, <2>9, <2>10, Zenon
  <2>12. \A i \in 1 .. l + 1 : \A j \in 1 .. l + 1 :
           i < j => EndOf(matches'[i]) <= matches'[j].at
    <3>. TAKE i \in 1 .. l + 1
    <3>. TAKE j \in 1 .. l + 1
    <3>. HAVE i < j
    <3>1. i \in 1 .. l /\ (j \in 1 .. l \/ j = l + 1)
      BY <2>7, Zenon
    <3>2. CASE j \in 1 .. l
      BY <2>8, <3>1, <3>2, Zenon
    <3>3. CASE j = l + 1
      <4>1. matches'[i] = matches[i] /\ EndOf(matches[i]) <= found
        BY <2>2, <2>5, <2>8, <3>1, Zenon
      <4>2. matches'[j].at = found
        BY <1>2, <2>9, <3>3, Zenon
      <4>3. QED
        BY <4>1, <4>2, Zenon
    <3>4. QED
      BY <3>1, <3>2, <3>3, Zenon
  <2>13. text' = text /\ index' = a
    BY <1>2, <1>8
  <2>14. QED
    BY <2>9, <2>11, <2>12, <2>13, Zenon DEF MatchesApart
<1>18. QED
  BY <1>16, <1>17

LEMMA MinIs ==
  ASSUME NEW S \in SUBSET Nat, NEW x \in S, \A y \in S : x <= y
  PROVE  Min(S) = x
<1>1. Min(S) \in S /\ \A y \in S : Min(S) <= y
  BY DEF Min
<1>2. Min(S) <= x /\ x <= Min(S) /\ Min(S) \in Nat /\ x \in Nat
  BY <1>1
<1>3. QED
  BY <1>2

LEMMA CandidatesType ==
  ASSUME NEW t \in Seq(CodePoint)
  PROVE  /\ CorruptCandidates(t) \in SUBSET Nat
         /\ \A i \in CorruptCandidates(t) : i \in 0 .. Len(t) - 1 /\ t[i + 1] = MARKER
  BY DEF CorruptCandidates, MarkersFrom

(* The first corrupt candidate met is the first of the text.                 *)
LEMMA RememberKeepsFirst ==
  ASSUME CallInvariant, pc = "scan", NEW found \in NextMarker,
         NEW run, run = RunAfter(found), NEW at, at = BytesBefore(found),
         RememberCorrupt(found, run, at)
  PROVE  FirstCorruptHeld'
<1>1. TypeOK /\ PrefixMeasured /\ CorruptOnRecord /\ FirstCorruptHeld
  BY DEF CallInvariant, ScanInvariant
<1>2. /\ HasMagic(run) /\ ~ BodyIntact(run) /\ text' = text /\ pc' = "scan"
      /\ corrupt' = IF corrupt = {}
                    THEN {[offset |-> CorruptionOffset(run, at + 3),
                           documentLength |-> Utf8Length(text)]}
                    ELSE corrupt
  BY DEF RememberCorrupt, Visit
<1>3. CASE corrupt # {}
  BY <1>1, <1>2, <1>3 DEF FirstCorruptHeld
<1>4. CASE corrupt = {}
  <2>1. /\ text \in Seq(CodePoint) /\ Len(text) \in Nat /\ index \in Nat
        /\ index \in 0 .. Len(text)
    BY <1>1, ScanTypes, Zenon
  <2>2. /\ found \in index .. Len(text) - 1 /\ found \in Nat
        /\ found \in 0 .. Len(text) - 1 /\ text[found + 1] = MARKER
    BY <1>1, NextMarkerIsNext
  <2>3. /\ run = DecodeRun(text, found + 1) /\ at = Before(text, found)
    BY <1>1, TurnArguments DEF Before
  <2>4. found \in CorruptCandidates(text)
    BY <1>1, <1>2, WrappersAtMarker
  <2>5. \A i \in CorruptCandidates(text) : i < found + 1 <=> (i < index \/ i = found)
    <3>1. found + 1 \in found + 1 .. Len(text)
      BY <2>1, <2>2
    <3>2. \A j \in found + 1 .. (found + 1) - 1 : text[j + 1] # MARKER
      BY <2>2
    <3>3. QED
      BY <1>1, <3>1, <3>2, DecidedByTurn
  <2>6. CorruptCandidates(text) \in SUBSET Nat
    BY <2>1, CandidatesType
  <2>7. \A i \in CorruptCandidates(text) : ~ (i < index)
    BY <1>1, <1>4 DEF CorruptOnRecord
  <2>8. \A i \in CorruptCandidates(text) : found <= i
    <3>. TAKE i \in CorruptCandidates(text)
    <3>1. i \in Nat /\ (i < found + 1 => i = found)
      BY <2>5, <2>6, <2>7
    <3>2. QED
      BY <2>2, <3>1
  <2>9. Min(CorruptCandidates(text)) = found
    BY <2>4, <2>6, <2>8, MinIs
  <2>10. PICK j \in found + 1 .. found + 1 + RunLength(text, found + 1) :
           CorruptionOffset(run, at + 3) = Before(text, j)
    <3>1. \E j \in found + 1 .. found + 1 + RunLength(text, found + 1) :
            CorruptionOffset(run, Before(text, found) + 3) = Before(text, j)
      BY <1>2, <2>1, <2>2, <2>3, CorruptionIsInRun
    <3>2. QED
      BY <2>3, <3>1
  <2>11. CorruptionOffset(run, at + 3) \in CorruptOffsets(text)
    BY <2>9, <2>10 DEF CorruptOffsets, Before
  <2>12. \A e \in corrupt' : e.offset = CorruptionOffset(run, at + 3)
    BY <1>2, <1>4
  <2>13. QED
    BY <1>2, <2>11, <2>12 DEF FirstCorruptHeld
<1>5. QED
  BY <1>3, <1>4

LEMMA CallInvariantAtFirst == Init => CallInvariant
<1>1. Init => ScanInvariant
  BY InvariantHoldsAtFirst
<1>2. Init => pc # "scan"
  BY DEF Init
<1>3. QED
  BY <1>1, <1>2 DEF CallInvariant, SpansInOrder, MatchesApart, FirstCorruptHeld

LEMMA BeginKeepsCall ==
  ASSUME CallInvariant, NEW o \in Operations, NEW t \in Seq(CodePoint), Begin(o, t)
  PROVE  CallInvariant'
<1>1. ScanInvariant'
  BY BeginKeepsInvariant DEF CallInvariant
<1>2. text' = t /\ index' = 0 /\ matches' = <<>> /\ corrupt' = {}
  BY DEF Begin
<1>3. SpansInOrder'
  <2>1. Held' = <<>>
    BY <1>2 DEF Held
  <2>2. FlattenSeq(SubSeq(SpanPieces(t), 1, 0)) = <<>>
    BY SpanPieceType, FlattenByPrefix, Zenon
  <2>3. QED
    BY <1>2, <2>1, <2>2 DEF SpansInOrder
<1>4. MatchesApart'
  <2>1. 1 .. Len(matches') = {}
    BY <1>2
  <2>2. QED
    BY <2>1, Zenon DEF MatchesApart
<1>5. FirstCorruptHeld'
  BY <1>2 DEF FirstCorruptHeld
<1>6. QED
  BY <1>1, <1>3, <1>4, <1>5 DEF CallInvariant

LEMMA CallInvariantIsKept == CallInvariant /\ [Next]_vars => CallInvariant'
<1> SUFFICES ASSUME CallInvariant, [Next]_vars PROVE CallInvariant'
  OBVIOUS
<1>1. ScanInvariant /\ ScanInvariant'
  BY InvariantIsKept DEF CallInvariant
<1>2. CASE Call
  <2>1. text \in Seq(CodePoint)
    BY <1>1 DEF ScanInvariant, TypeOK
  <2>2. QED
    BY <1>2, <2>1, BeginKeepsCall DEF Call
<1>3. CASE CallOnStripped
  <2>1. outcome.text \in Seq(CodePoint)
    BY <1>1, <1>3 DEF CallOnStripped, ScanInvariant, TypeOK
  <2>2. QED
    BY <1>3, <2>1, BeginKeepsCall DEF CallOnStripped
<1>4. CASE Turn
  <2>1. PICK found \in NextMarker :
          \/ SkipCandidate(found, RunAfter(found), BytesBefore(found))
          \/ RememberCorrupt(found, RunAfter(found), BytesBefore(found))
          \/ AcceptWrapper(found, RunAfter(found), BytesBefore(found))
    BY <1>4 DEF Turn
  <2>2. pc = "scan"
    BY <1>4 DEF Turn
  <2>3. CASE SkipCandidate(found, RunAfter(found), BytesBefore(found))
    <3>1. SpansInOrder' /\ MatchesApart'
      BY <2>2, <2>3, DecoyKeepsOrder DEF SkipCandidate
    <3>2. FirstCorruptHeld'
      BY <2>3 DEF CallInvariant, SkipCandidate, Visit, FirstCorruptHeld
    <3>3. QED
      BY <1>1, <3>1, <3>2 DEF CallInvariant
  <2>4. CASE RememberCorrupt(found, RunAfter(found), BytesBefore(found))
    <3>1. SpansInOrder' /\ MatchesApart'
      BY <2>2, <2>4, DecoyKeepsOrder DEF RememberCorrupt
    <3>2. FirstCorruptHeld'
      BY <2>2, <2>4, RememberKeepsFirst
    <3>3. QED
      BY <1>1, <3>1, <3>2 DEF CallInvariant
  <2>5. CASE AcceptWrapper(found, RunAfter(found), BytesBefore(found))
    <3>1. SpansInOrder' /\ MatchesApart'
      BY <2>2, <2>5, AcceptKeepsOrder
    <3>2. FirstCorruptHeld'
      BY <2>5 DEF CallInvariant, AcceptWrapper, Visit, FirstCorruptHeld
    <3>3. QED
      BY <1>1, <3>1, <3>2 DEF CallInvariant
  <2>6. QED
    BY <2>1, <2>3, <2>4, <2>5
<1>5. CASE Return
  <2>1. pc' # "scan"
    BY <1>5 DEF Return
  <2>2. QED
    BY <1>1, <2>1 DEF CallInvariant, SpansInOrder, MatchesApart, FirstCorruptHeld
<1>6. CASE UNCHANGED vars
  <2>1. text' = text /\ pc' = pc /\ index' = index /\ matches' = matches /\ corrupt' = corrupt
    BY <1>6 DEF vars, scanVars
  <2>2. Held' = Held
    BY <2>1 DEF Held
  <2>3. SpansInOrder' /\ MatchesApart' /\ FirstCorruptHeld'
    BY <2>1, <2>2, Zenon DEF CallInvariant, SpansInOrder, MatchesApart, FirstCorruptHeld
  <2>4. QED
    BY <1>1, <2>3 DEF CallInvariant
<1>7. QED
  BY <1>2, <1>3, <1>4, <1>5, <1>6 DEF Next, ScanStep

----------------------------------------------------------------------------
(* The splice of strip.                                                      *)

(* Intervals above[i] .. end[i] that lie apart leave gaps below n.           *)
GapFrom(end, i) == IF i = 1 THEN 0 ELSE end[i - 1]

GapTo(above, len, n, i) == IF i > len THEN n ELSE above[i]

LEMMA OutsideIsInGap ==
  ASSUME NEW l \in Nat, NEW n \in Nat, NEW a \in [1 .. l -> Nat], NEW e \in [1 .. l -> Nat],
         \A i \in 1 .. l : e[i] <= n,
         NEW k \in 1 .. n, \A i \in 1 .. l : a[i] < k => ~ (k <= e[i])
  PROVE  \E i \in 1 .. l + 1 : /\ GapFrom(e, i) \in 0 .. n /\ GapTo(a, l, n, i) \in Nat
                               /\ GapFrom(e, i) <= k - 1 /\ k <= GapTo(a, l, n, i)
<1>. DEFINE S == {i \in 1 .. l + 1 : i <= l => k <= a[i]}
<1>1. l + 1 \in S /\ S \in SUBSET Nat
  OBVIOUS
<1>2. PICK i \in S : \A j \in S : i <= j
  BY <1>1, LeastElement
<1>3. i \in 1 .. l + 1 /\ (i <= l => k <= a[i])
  BY <1>2
<1>4. GapTo(a, l, n, i) \in Nat /\ k <= GapTo(a, l, n, i)
  <2>1. CASE i > l
    BY <2>1 DEF GapTo
  <2>2. CASE ~ (i > l)
    <3>1. i \in 1 .. l /\ a[i] \in Nat /\ k <= a[i]
      BY <1>3, <2>2
    <3>2. QED
      BY <2>2, <3>1 DEF GapTo
  <2>3. QED
    BY <2>1, <2>2
<1>5. GapFrom(e, i) \in 0 .. n /\ GapFrom(e, i) <= k - 1
  <2>1. CASE i = 1
    BY <2>1 DEF GapFrom
  <2>2. CASE i # 1
    <3>1. PICK j \in 1 .. l : j = i - 1
      BY <1>3, <2>2
    <3>2. j \notin S
      BY <1>2, <1>3, <3>1
    <3>3. a[j] \in Nat /\ e[j] \in Nat /\ e[j] <= n /\ ~ (k <= a[j])
      BY <3>2
    <3>4. a[j] < k
      BY <3>3
    <3>5. ~ (k <= e[j])
      BY <3>4
    <3>6. e[j] \in 0 .. n /\ e[j] <= k - 1
      BY <3>3, <3>5
    <3>7. QED
      BY <2>2, <3>1, <3>6 DEF GapFrom
  <2>3. QED
    BY <2>1, <2>2
<1>6. QED
  BY <1>3, <1>4, <1>5

LEMMA InsideIsInNoGap ==
  ASSUME NEW l \in Nat, NEW n \in Nat, NEW a \in [1 .. l -> Nat], NEW e \in [1 .. l -> Nat],
         \A i \in 1 .. l : a[i] < e[i] /\ e[i] <= n,
         \A i \in 1 .. l : \A j \in 1 .. l : i < j => e[i] <= a[j],
         NEW k \in 1 .. n, NEW i \in 1 .. l, a[i] < k, k <= e[i], NEW j \in 1 .. l + 1
  PROVE  \/ GapTo(a, l, n, j) \in 0 .. k - 1
         \/ GapFrom(e, j) \in k .. n
<1>1. a[i] \in Nat /\ e[i] \in Nat
  OBVIOUS
<1>2. CASE j < i
  <2>1. j \in 1 .. l /\ ~ (j > l)
    BY <1>2
  <2>2. a[j] \in Nat /\ e[j] \in Nat /\ a[j] < e[j] /\ e[j] <= a[i]
    BY <1>2, <2>1
  <2>3. a[j] \in 0 .. k - 1
    BY <1>1, <2>2
  <2>4. QED
    BY <2>1, <2>3 DEF GapTo
<1>3. CASE j = i
  <2>1. ~ (j > l) /\ a[j] \in 0 .. k - 1
    BY <1>1, <1>3
  <2>2. QED
    BY <2>1 DEF GapTo
<1>4. CASE j = i + 1
  <2>1. j # 1 /\ j - 1 = i /\ e[i] \in k .. n
    BY <1>1, <1>4
  <2>2. QED
    BY <2>1 DEF GapFrom
<1>5. CASE j > i + 1
  <2>1. PICK g \in 1 .. l : g = j - 1 /\ i < g /\ j # 1
    BY <1>5
  <2>2. a[g] \in Nat /\ e[g] \in Nat /\ a[g] < e[g] /\ e[g] <= n /\ e[i] <= a[g]
    BY <2>1
  <2>3. e[g] \in k .. n
    BY <1>1, <2>2
  <2>4. QED
    BY <2>1, <2>3 DEF GapFrom
<1>6. QED
  BY <1>2, <1>3, <1>4, <1>5

(* The wrappers of a list lie apart in a text, each where its bytes are.     *)
LieApart(t, ms) ==
  \A i \in 1 .. Len(ms) :
    /\ EndOf(ms[i]) <= Len(t)
    /\ ms[i].start = Before(t, ms[i].at)
    /\ ms[i].stop = Before(t, EndOf(ms[i]))
    /\ \A j \in 1 .. Len(ms) : i < j => EndOf(ms[i]) <= ms[j].at

CutAt(ms, k) == \E i \in 1 .. Len(ms) : ms[i].at < k /\ k <= EndOf(ms[i])

(* The bytes kept are those of the code points in no wrapper.                *)
LEMMA SpliceIsExact ==
  ASSUME NEW t \in Seq(CodePoint), NEW ms \in Seq(Match), LieApart(t, ms), NEW k \in 1 .. Len(t)
  PROVE  /\ BytesOf(t, k) # {}
         /\ CutAt(ms, k) => BytesOf(t, k) \cap KeptBytes(t, ms) = {}
         /\ ~ CutAt(ms, k) => BytesOf(t, k) \subseteq KeptBytes(t, ms)
<1>1. PICK l \in Nat, n \in Nat : l = Len(ms) /\ n = Len(t)
  <2>1. Len(ms) \in Nat
    <3>. HIDE DEF Match
    <3>1. QED
      OBVIOUS
  <2>2. QED
    BY <2>1
<1>2. \A i \in 1 .. l : ms[i] \in Match
  <2>. HIDE DEF Match
  <2>1. QED
    BY <1>1
<1>3. \A i \in 1 .. l : /\ ms[i].at \in Nat /\ EndOf(ms[i]) \in Nat
                        /\ ms[i].at < EndOf(ms[i])
  BY <1>2, EndType, Zenon
<1>4. PICK a : a = [i \in 1 .. l |-> ms[i].at]
  OBVIOUS
<1>5. PICK e : e = [i \in 1 .. l |-> EndOf(ms[i])]
  OBVIOUS
<1>6. a \in [1 .. l -> Nat] /\ e \in [1 .. l -> Nat]
  BY <1>3, <1>4, <1>5, Zenon
<1>7. \A i \in 1 .. l : a[i] = ms[i].at /\ e[i] = EndOf(ms[i])
  BY <1>4, <1>5, Zenon
<1>8. \A i \in 1 .. l : /\ ms[i].start = Before(t, a[i]) /\ ms[i].stop = Before(t, e[i])
                        /\ e[i] <= n /\ a[i] < e[i]
                        /\ \A j \in 1 .. l : i < j => e[i] <= a[j]
  BY <1>1, <1>3, <1>7, Zenon DEF LieApart
<1>9. CutAt(ms, k) <=> \E i \in 1 .. l : a[i] < k /\ k <= e[i]
  BY <1>1, <1>7, Zenon DEF CutAt
<1>10. PICK B : B = [i \in 0 .. n |-> Before(t, i)]
  OBVIOUS
<1>11. /\ \A i \in 0 .. n : B[i] = Before(t, i) /\ B[i] \in Nat
       /\ \A x \in 0 .. n : \A y \in x + 1 .. n : B[x] < B[y]
       /\ \A x \in 0 .. n : \A y \in x .. n : B[x] <= B[y]
  <2>1. \A i \in 0 .. n : B[i] = Before(t, i)
    BY <1>10, Zenon
  <2>2. \A x \in 0 .. n : \A y \in x + 1 .. n : y \in 0 .. n
    OBVIOUS
  <2>3. \A x \in 0 .. n : \A y \in x .. n : y \in 0 .. n
    OBVIOUS
  <2>4. QED
    BY <1>1, <2>1, <2>2, <2>3, BeforeGrows, Zenon
<1>12. \A i \in 1 .. l + 1 : /\ GapFrom(e, i) \in 0 .. n /\ GapTo(a, l, n, i) \in 0 .. n
  <2>. TAKE i \in 1 .. l + 1
  <2>1. GapFrom(e, i) \in 0 .. n
    <3>1. CASE i = 1
      BY <3>1 DEF GapFrom
    <3>2. CASE i # 1
      <4>1. i - 1 \in 1 .. l
        BY <3>2
      <4>2. e[i - 1] \in Nat /\ e[i - 1] <= n
        BY <1>6, <1>8, <4>1
      <4>3. QED
        BY <3>2, <4>2 DEF GapFrom
    <3>3. QED
      BY <3>1, <3>2
  <2>2. GapTo(a, l, n, i) \in 0 .. n
    <3>1. CASE i > l
      BY <3>1 DEF GapTo
    <3>2. CASE ~ (i > l)
      <4>1. i \in 1 .. l
        BY <3>2
      <4>2. a[i] \in Nat /\ e[i] \in Nat /\ e[i] <= n /\ a[i] < e[i]
        BY <1>6, <1>8, <4>1
      <4>3. QED
        BY <3>2, <4>2 DEF GapTo
    <3>3. QED
      BY <3>1, <3>2
  <2>3. QED
    BY <2>1, <2>2
<1>13. KeptBytes(t, ms)
         = UNION {B[GapFrom(e, i)] .. B[GapTo(a, l, n, i)] - 1 : i \in 1 .. l + 1}
  <2>. DEFINE cursor(i) == IF i = 1 THEN 0 ELSE ms[i - 1].stop
              upTo(i)   == IF i > Len(ms) THEN Utf8Length(t) ELSE ms[i].start
  <2>1. KeptBytes(t, ms) = UNION {cursor(i) .. upTo(i) - 1 : i \in 1 .. l + 1}
    BY <1>1, Zenon DEF KeptBytes
  <2>2. B[0] = 0 /\ B[n] = Utf8Length(t)
    <3>1. SubSeq(t, 1, 0) = <<>> /\ SubSeq(t, 1, n) = t /\ 0 \in 0 .. n /\ n \in 0 .. n
      BY <1>1
    <3>2. Utf8Length(<<>>) = 0
      <4>1. Utf8Bytes(<<>>) = {}
        BY DEF Utf8Bytes
      <4>2. QED
        BY <4>1, FS_EmptySet DEF Utf8Length
    <3>3. QED
      BY <1>11, <3>1, <3>2, Zenon DEF Before
  <2>3. \A i \in 1 .. l + 1 : cursor(i) = B[GapFrom(e, i)]
    <3>. TAKE i \in 1 .. l + 1
    <3>1. CASE i = 1
      BY <2>2, <3>1, Zenon DEF GapFrom
    <3>2. CASE i # 1
      <4>1. i - 1 \in 1 .. l
        BY <3>2
      <4>2. ms[i - 1].stop = Before(t, e[i - 1]) /\ GapFrom(e, i) = e[i - 1]
        BY <1>8, <3>2, <4>1, Zenon DEF GapFrom
      <4>3. cursor(i) = ms[i - 1].stop
        BY <3>2, Zenon
      <4>4. QED
        BY <1>11, <1>12, <4>2, <4>3, Zenon
    <3>3. QED
      BY <3>1, <3>2
  <2>4. \A i \in 1 .. l + 1 : upTo(i) = B[GapTo(a, l, n, i)]
    <3>. TAKE i \in 1 .. l + 1
    <3>1. CASE i > l
      BY <1>1, <2>2, <3>1, Zenon DEF GapTo
    <3>2. CASE ~ (i > l)
      <4>1. i \in 1 .. l
        BY <3>2
      <4>2. ms[i].start = Before(t, a[i]) /\ GapTo(a, l, n, i) = a[i]
        BY <1>8, <3>2, <4>1, Zenon DEF GapTo
      <4>3. upTo(i) = ms[i].start
        BY <1>1, <3>2, Zenon
      <4>4. QED
        BY <1>11, <1>12, <4>2, <4>3, Zenon
    <3>3. QED
      BY <3>1, <3>2
  <2>. HIDE DEF cursor, upTo
  <2>5. QED
    BY <2>1, <2>3, <2>4, Zenon
<1>14. BytesOf(t, k) = B[k - 1] .. B[k] - 1 /\ k - 1 \in 0 .. n /\ k \in 0 .. n /\ B[k - 1] < B[k]
  <2>1. k - 1 \in 0 .. n /\ k \in 0 .. n /\ k \in (k - 1) + 1 .. n
    BY <1>1
  <2>2. B[k - 1] < B[k]
    BY <1>11, <2>1, Zenon
  <2>3. BytesOf(t, k) = B[k - 1] .. B[k] - 1
    BY <1>11, <2>1, Zenon DEF BytesOf, Before
  <2>4. QED
    BY <2>1, <2>2, <2>3
<1>15. BytesOf(t, k) # {}
  <2>1. B[k - 1] \in Nat /\ B[k] \in Nat
    BY <1>11, <1>14, Zenon
  <2>2. B[k - 1] \in B[k - 1] .. B[k] - 1
    BY <1>14, <2>1
  <2>3. QED
    BY <1>14, <2>2
<1>16. ASSUME CutAt(ms, k) PROVE BytesOf(t, k) \cap KeptBytes(t, ms) = {}
  <2>1. PICK i \in 1 .. l : a[i] < k /\ k <= e[i]
    BY <1>9, <1>16
  <2>2. ASSUME NEW j \in 1 .. l + 1, NEW b \in B[k - 1] .. B[k] - 1,
               b \in B[GapFrom(e, j)] .. B[GapTo(a, l, n, j)] - 1
        PROVE  FALSE
    <3>1. PICK x \in 0 .. n, y \in 0 .. n : x = GapFrom(e, j) /\ y = GapTo(a, l, n, j)
      BY <1>12, <2>2
    <3>2. y \in 0 .. k - 1 \/ x \in k .. n
      <4>1. k \in 1 .. n
        BY <1>1
      <4>2. GapTo(a, l, n, j) \in 0 .. k - 1 \/ GapFrom(e, j) \in k .. n
        BY <1>6, <1>8, <2>1, <2>2, <4>1, InsideIsInNoGap
      <4>3. QED
        BY <3>1, <4>2, Zenon
    <3>3. PICK u \in Nat, v \in Nat, f \in Nat, g \in Nat :
            u = B[x] /\ v = B[y] /\ f = B[k - 1] /\ g = B[k]
      BY <1>11, <1>14, <3>1
    <3>4. b \in f .. g - 1 /\ b \in u .. v - 1
      BY <2>2, <3>1, <3>3, Zenon
    <3>5. CASE y \in 0 .. k - 1
      <4>1. k - 1 \in y .. n
        BY <1>14, <3>5
      <4>2. v <= f
        BY <1>11, <3>1, <3>3, <4>1, Zenon
      <4>3. QED
        BY <3>3, <3>4, <4>2
    <3>6. CASE x \in k .. n
      <4>1. g <= u
        BY <1>11, <1>14, <3>3, <3>6, Zenon
      <4>2. QED
        BY <3>3, <3>4, <4>1
    <3>7. QED
      BY <3>2, <3>5, <3>6
  <2>3. QED
    BY <1>13, <1>14, <2>2, Zenon
<1>17. ASSUME ~ CutAt(ms, k) PROVE BytesOf(t, k) \subseteq KeptBytes(t, ms)
  <2>1. \A i \in 1 .. l : a[i] < k => ~ (k <= e[i])
    BY <1>9, <1>17, Zenon
  <2>2. k \in 1 .. n
    BY <1>1
  <2>3. PICK i \in 1 .. l + 1 : GapFrom(e, i) <= k - 1 /\ k <= GapTo(a, l, n, i)
    BY <1>6, <1>8, <2>1, <2>2, OutsideIsInGap
  <2>4. PICK x \in 0 .. n, y \in 0 .. n : x = GapFrom(e, i) /\ y = GapTo(a, l, n, i)
    BY <1>12
  <2>5. x <= k - 1 /\ k <= y
    BY <2>3, <2>4, Zenon
  <2>6. k - 1 \in x .. n /\ y \in k .. n
    BY <1>14, <2>4, <2>5
  <2>7. PICK u \in Nat, v \in Nat, f \in Nat, g \in Nat :
          u = B[x] /\ v = B[y] /\ f = B[k - 1] /\ g = B[k]
    BY <1>11, <1>14, <2>4
  <2>8. u <= f /\ g <= v
    BY <1>11, <1>14, <2>4, <2>6, <2>7, Zenon
  <2>9. f .. g - 1 \subseteq u .. v - 1
    <3>1. \A p, q, r, s \in Nat : p <= r /\ s <= q => r .. s - 1 \subseteq p .. q - 1
      OBVIOUS
    <3>2. QED
      BY <2>8, <3>1, Zenon
  <2>10. QED
    BY <1>13, <1>14, <2>4, <2>7, <2>9, Zenon
<1>18. QED
  BY <1>15, <1>16, <1>17

----------------------------------------------------------------------------
(* The answers.                                                              *)

(* When no marker is left, what is held is all there is to answer from.      *)
LEMMA HeldInTheEnd ==
  ASSUME CallInvariant, ScanOver
  PROVE  /\ Held = SpansIn(text)
         /\ corrupt # {} <=> CorruptCandidates(text) # {}
         /\ matches = <<>> <=> Wrappers(text) = {}
         /\ Wrappers(text) = {<<matches[i].at, Len(matches[i].payload)>> : i \in 1 .. Len(matches)}
         /\ LieApart(text, matches)
<1>1. /\ TypeOK /\ ScanFindsEveryWrapper /\ CorruptOnRecord /\ SpansInOrder /\ MatchesApart
      /\ pc = "scan" /\ NextMarker = {}
  BY DEF CallInvariant, ScanInvariant, ScanOver
<1>2. /\ text \in Seq(CodePoint) /\ Len(text) \in Nat /\ index \in Nat
      /\ index \in 0 .. Len(text) /\ matches \in Seq(Match) /\ Len(matches) \in Nat
      /\ \A i \in 1 .. Len(matches) : matches[i] \in Match
  BY <1>1, ScanTypes, Zenon
<1>3. \A j \in index .. Len(text) - 1 : text[j + 1] # MARKER
  BY <1>1, NoMarkerIsLeft
<1>4. \A i \in 0 .. Len(text) - 1 : text[i + 1] = MARKER => i < index
  BY <1>2, <1>3
<1>5. corrupt # {} <=> CorruptCandidates(text) # {}
  <2>1. \A i \in CorruptCandidates(text) : i < index
    BY <1>2, <1>4, CandidatesType
  <2>2. QED
    BY <1>1, <2>1 DEF CorruptOnRecord
<1>6. Wrappers(text) = {<<matches[i].at, Len(matches[i].payload)>> : i \in 1 .. Len(matches)}
  <2>1. \A w \in Wrappers(text) : w[1] < index
    BY <1>4 DEF Wrappers, WrapperAt
  <2>2. {w \in Wrappers(text) : w[1] < index} = Wrappers(text)
    BY <2>1, Zenon
  <2>3. DOMAIN matches = 1 .. Len(matches)
    <3>. HIDE DEF Match
    <3>1. QED
      BY <1>2
  <2>4. QED
    BY <1>1, <2>2, <2>3, Zenon DEF ScanFindsEveryWrapper
<1>7. matches = <<>> <=> Wrappers(text) = {}
  <2>1. matches = <<>> <=> 1 .. Len(matches) = {}
    <3>. HIDE DEF Match
    <3>1. QED
      BY <1>2
  <2>2. QED
    BY <1>6, <2>1, Zenon
<1>8. Held = SpansIn(text)
  <2>1. PICK p : p = SpanPieces(text)
    OBVIOUS
  <2>2. p \in Seq(Seq(Span)) /\ Len(p) = Len(text)
    BY <1>2, <2>1, SpanPieceType, Zenon
  <2>3. \A k \in index + 1 .. Len(text) : p[k] = <<>>
    <3>1. ASSUME NEW k \in index + 1 .. Len(text) PROVE p[k] = <<>>
      <4>1. k - 1 \in index .. Len(text) - 1 /\ (k - 1) + 1 = k /\ k \in 1 .. Len(text)
        BY <1>2
      <4>2. text[k] # MARKER
        BY <1>3, <4>1
      <4>3. QED
        BY <1>2, <2>1, <4>1, <4>2, NoMarkerNoSpan
    <3>2. QED
      BY <3>1
  <2>4. index \in 0 .. Len(p) /\ Len(p) \in index .. Len(p)
    BY <1>2, <2>2
  <2>5. FlattenSeq(SubSeq(p, 1, Len(p))) = FlattenSeq(SubSeq(p, 1, index))
    BY <2>2, <2>3, <2>4, EmptyPiecesAddNothing, Zenon
  <2>6. FlattenSeq(SubSeq(p, 1, Len(p))) = FlattenSeq(p)
    BY <2>2, FlattenByPrefix, Zenon
  <2>7. QED
    BY <1>1, <2>1, <2>5, <2>6, SpansByPieces, Zenon DEF SpansInOrder
<1>9. LieApart(text, matches)
  <2>1. \A i \in 1 .. Len(matches) : EndOf(matches[i]) <= Len(text)
    <3>. TAKE i \in 1 .. Len(matches)
    <3>1. PICK e \in Nat : e = EndOf(matches[i])
      BY <1>2, EndType, Zenon
    <3>2. e <= index
      BY <1>1, <3>1, Zenon DEF MatchesApart
    <3>3. e <= Len(text)
      BY <1>2, <3>2
    <3>4. QED
      BY <3>1, <3>3, Zenon
  <2>2. QED
    BY <1>1, <2>1, Zenon DEF MatchesApart, LieApart
<1>10. QED
  BY <1>5, <1>6, <1>7, <1>8, <1>9

LEMMA RaisedOffset ==
  ASSUME CallInvariant, pc = "scan", corrupt # {}
  PROVE  Raise(CHOOSE e \in corrupt : TRUE)
           \in {[kind |-> "corrupt", offset |-> n] : n \in CorruptOffsets(text)}
<1>1. PICK e : e = CHOOSE f \in corrupt : TRUE
  OBVIOUS
<1>2. e \in corrupt
  BY <1>1, Zenon
<1>3. e.offset \in CorruptOffsets(text)
  BY <1>2, Zenon DEF CallInvariant, FirstCorruptHeld
<1>4. QED
  BY <1>1, <1>3, Zenon DEF Raise

(* Splicing the spans out leaves the code points in no wrapper.              *)
LEMMA StripTakesWrappersOut ==
  ASSUME CallInvariant, ScanOver
  PROVE  /\ ~ CutsCodePoint(text, KeptBytes(text, matches))
         /\ Decode(text, KeptBytes(text, matches)) = Without(text)
         /\ Wrappers(text) = {} => Without(text) = text
<1>1. /\ LieApart(text, matches)
      /\ Wrappers(text) = {<<matches[i].at, Len(matches[i].payload)>> : i \in 1 .. Len(matches)}
  BY HeldInTheEnd
<1>2. /\ text \in Seq(CodePoint) /\ Len(text) \in Nat /\ matches \in Seq(Match)
      /\ \A i \in 1 .. Len(matches) : matches[i] \in Match
  BY ScanTypes, Zenon DEF CallInvariant, ScanInvariant
<1>3. PICK kept : kept = KeptBytes(text, matches)
  OBVIOUS
<1>4. \A k \in 1 .. Len(text) : /\ BytesOf(text, k) # {}
                                /\ CutAt(matches, k) => BytesOf(text, k) \cap kept = {}
                                /\ ~ CutAt(matches, k) => BytesOf(text, k) \subseteq kept
  BY <1>1, <1>2, <1>3, SpliceIsExact, Zenon
<1>5. DOMAIN text = 1 .. Len(text)
  BY <1>2
<1>6. ~ CutsCodePoint(text, kept)
  <2>1. ASSUME NEW k \in 1 .. Len(text) PROVE BytesOf(text, k) \cap kept \in {{}, BytesOf(text, k)}
    <3>1. BytesOf(text, k) \cap kept = {} \/ BytesOf(text, k) \subseteq kept
      BY <1>4, Zenon
    <3>2. QED
      BY <3>1
  <2>2. QED
    BY <2>1, Zenon DEF CutsCodePoint
<1>7. \A k \in 1 .. Len(text) : BytesOf(text, k) \subseteq kept <=> ~ CutAt(matches, k)
  <2>1. ASSUME NEW k \in 1 .. Len(text), CutAt(matches, k), BytesOf(text, k) \subseteq kept
        PROVE  FALSE
    <3>1. BytesOf(text, k) # {} /\ BytesOf(text, k) \cap kept = {}
      BY <1>4, <2>1, Zenon
    <3>2. QED
      BY <2>1, <3>1
  <2>2. QED
    BY <1>4, <2>1, Zenon
<1>8. PICK removed :
        removed = InWrappers(text)
  OBVIOUS
<1>9. \A k \in 1 .. Len(text) : k \in removed <=> CutAt(matches, k)
  <2>. TAKE k \in 1 .. Len(text)
  <2>1. k \in removed <=> \E w \in Wrappers(text) : k \in w[1] + 1 .. w[1] + 1 + HEADER_SIZE + w[2]
    BY <1>8, Zenon DEF InWrappers
  <2>2. ASSUME NEW i \in 1 .. Len(matches), NEW w, w = <<matches[i].at, Len(matches[i].payload)>>
        PROVE  k \in w[1] + 1 .. w[1] + 1 + HEADER_SIZE + w[2]
                 <=> matches[i].at < k /\ k <= EndOf(matches[i])
    <3>1. PICK a \in Nat, n \in Nat : a = matches[i].at /\ n = Len(matches[i].payload)
      BY <1>2, EndType, Zenon
    <3>2. w[1] = a /\ w[2] = n
      BY <2>2, <3>1
    <3>3. w[1] + 1 + HEADER_SIZE + w[2] = a + 14 + n /\ EndOf(matches[i]) = a + 14 + n
      BY <3>1, <3>2 DEF HEADER_SIZE, EndOf
    <3>4. k \in a + 1 .. a + 14 + n <=> a < k /\ k <= a + 14 + n
      OBVIOUS
    <3>5. QED
      BY <3>1, <3>2, <3>3, <3>4, Zenon
  <2>3. (\E w \in Wrappers(text) : k \in w[1] + 1 .. w[1] + 1 + HEADER_SIZE + w[2])
          <=> \E i \in 1 .. Len(matches) : matches[i].at < k /\ k <= EndOf(matches[i])
    <3>1. ASSUME NEW w \in Wrappers(text), k \in w[1] + 1 .. w[1] + 1 + HEADER_SIZE + w[2]
          PROVE  \E i \in 1 .. Len(matches) : matches[i].at < k /\ k <= EndOf(matches[i])
      <4>1. PICK i \in 1 .. Len(matches) : w = <<matches[i].at, Len(matches[i].payload)>>
        BY <1>1, Zenon
      <4>2. QED
        BY <2>2, <3>1, <4>1, Zenon
    <3>2. ASSUME NEW i \in 1 .. Len(matches), matches[i].at < k, k <= EndOf(matches[i])
          PROVE  \E w \in Wrappers(text) : k \in w[1] + 1 .. w[1] + 1 + HEADER_SIZE + w[2]
      <4>1. PICK w : w = <<matches[i].at, Len(matches[i].payload)>>
        OBVIOUS
      <4>2. w \in Wrappers(text)
        BY <1>1, <4>1, Zenon
      <4>3. QED
        BY <2>2, <3>2, <4>1, <4>2, Zenon
    <3>3. QED
      BY <3>1, <3>2
  <2>4. QED
    BY <2>1, <2>3, Zenon DEF CutAt
<1>10. \A k \in DOMAIN text : (IF BytesOf(text, k) \subseteq kept THEN <<text[k]>> ELSE <<>>)
                               = IF k \in removed THEN <<>> ELSE <<text[k]>>
  BY <1>5, <1>7, <1>9, Zenon
<1>11. Decode(text, kept) = Without(text)
  <2>1. [k \in DOMAIN text |-> IF BytesOf(text, k) \subseteq kept THEN <<text[k]>> ELSE <<>>]
          = [k \in DOMAIN text |-> IF k \in removed THEN <<>> ELSE <<text[k]>>]
    BY <1>10, Zenon
  <2>2. Without(text)
          = FlattenSeq([k \in DOMAIN text |-> IF k \in removed THEN <<>> ELSE <<text[k]>>])
    BY <1>8, Zenon DEF Without
  <2>3. QED
    BY <2>1, <2>2, Zenon DEF Decode
<1>12. ASSUME Wrappers(text) = {} PROVE Without(text) = text
  <2>1. removed = {}
    BY <1>8, <1>12 DEF InWrappers
  <2>2. \A k \in DOMAIN text : (IF k \in removed THEN <<>> ELSE <<text[k]>>) = <<text[k]>>
    BY <2>1
  <2>3. [k \in DOMAIN text |-> IF k \in removed THEN <<>> ELSE <<text[k]>>]
          = [k \in DOMAIN text |-> <<text[k]>>]
    BY <2>2, Zenon
  <2>4. FlattenSeq([k \in DOMAIN text |-> <<text[k]>>]) = text
    BY <1>2, FlattenSingletons
  <2>5. QED
    BY <1>8, <2>3, <2>4, Zenon DEF Without
<1>13. QED
  BY <1>3, <1>6, <1>11, <1>12, Zenon

(* Each policy answers as the specification of the calls does.               *)
LEMMA AnswersServe ==
  ASSUME CallInvariant, ScanOver
  PROVE  /\ FindWrappersOutcome \in Answers("find_wrappers", text)
         /\ LocateOutcome \in Answers("locate", text)
         /\ StripOutcome \in Answers("strip", text)
<1>1. /\ Held = SpansIn(text)
      /\ corrupt # {} <=> CorruptCandidates(text) # {}
      /\ matches = <<>> <=> Wrappers(text) = {}
  BY HeldInTheEnd
<1>2. pc = "scan"
  BY DEF ScanOver
<1>3. PICK raised : raised = {[kind |-> "corrupt", offset |-> n] : n \in CorruptOffsets(text)}
  OBVIOUS
<1>4. corrupt # {} => Raise(CHOOSE e \in corrupt : TRUE) \in raised
  BY <1>2, <1>3, RaisedOffset
<1>5. /\ corrupt # {} /\ matches = <<>> => \A o : Answers(o, text) = raised
      /\ corrupt # {} => Answers("strip", text) = raised
  BY <1>1, <1>3, Zenon DEF Answers
<1>6. ASSUME ~ (corrupt # {} /\ matches = <<>>)
      PROVE  /\ Answers("find_wrappers", text) = {[kind |-> "matches", spans |-> Held]}
             /\ Answers("locate", text)
                  = {IF matches = <<>> THEN [kind |-> "unmarked"]
                     ELSE [kind |-> "span", span |-> Head(Held)]}
  BY <1>1, <1>6 DEF Answers
<1>7. corrupt = {} => Answers("strip", text) = {[kind |-> "text", text |-> Without(text)]}
  BY <1>1 DEF Answers
<1>8. FindWrappersOutcome \in Answers("find_wrappers", text)
  <2>1. CASE corrupt # {} /\ matches = <<>>
    BY <1>4, <1>5, <2>1, Zenon DEF FindWrappersOutcome
  <2>2. CASE ~ (corrupt # {} /\ matches = <<>>)
    BY <1>6, <2>2, Zenon DEF FindWrappersOutcome, Held
  <2>3. QED
    BY <2>1, <2>2
<1>9. LocateOutcome \in Answers("locate", text)
  <2>1. CASE corrupt # {} /\ matches = <<>>
    <3>1. FindWrappersOutcome = Raise(CHOOSE e \in corrupt : TRUE)
      BY <2>1, Zenon DEF FindWrappersOutcome
    <3>2. LocateOutcome = FindWrappersOutcome
      BY <3>1 DEF LocateOutcome, Raise
    <3>3. QED
      BY <1>4, <1>5, <2>1, <3>1, <3>2, Zenon
  <2>2. CASE ~ (corrupt # {} /\ matches = <<>>)
    <3>1. FindWrappersOutcome = [kind |-> "matches", spans |-> Held]
      BY <2>2, Zenon DEF FindWrappersOutcome, Held
    <3>2. FindWrappersOutcome.kind # "corrupt"
      BY <3>1
    <3>3. CASE matches = <<>>
      BY <1>6, <2>2, <3>2, <3>3 DEF LocateOutcome
    <3>4. CASE matches # <<>>
      <4>1. Len(matches) \in Nat \ {0}
        <5>1. matches \in Seq(Match)
          BY ScanTypes, Zenon DEF CallInvariant, ScanInvariant
        <5>. HIDE DEF Match
        <5>2. QED
          BY <3>4, <5>1
      <4>2. 1 \in 1 .. Len(matches)
        BY <4>1
      <4>3. Held[1] = <<matches[1].start, matches[1].stop>>
        BY <4>2, Zenon DEF Held
      <4>4. Head(Held) = Held[1]
        OBVIOUS
      <4>5. LocateOutcome = [kind |-> "span", span |-> Head(Held)]
        BY <3>2, <3>4, <4>3, <4>4 DEF LocateOutcome
      <4>6. QED
        BY <1>6, <2>2, <3>4, <4>5, Zenon
    <3>5. QED
      BY <3>3, <3>4
  <2>3. QED
    BY <2>1, <2>2
<1>10. StripOutcome \in Answers("strip", text)
  <2>1. CASE corrupt # {}
    BY <1>4, <1>5, <2>1, Zenon DEF StripOutcome
  <2>2. CASE corrupt = {}
    <3>1. StripOutcome = [kind |-> "text", text |-> Without(text)]
      BY <1>1, <2>2, StripTakesWrappersOut, Zenon DEF StripOutcome
    <3>2. QED
      BY <1>7, <2>2, <3>1, Zenon
  <2>3. QED
    BY <2>1, <2>2
<1>11. QED
  BY <1>8, <1>9, <1>10

(* The entry of a call is what its caller asks, or the refusal of the text.  *)
LEMMA BeginAsks ==
  ASSUME NEW o \in Operations, NEW t \in Seq(CodePoint), Begin(o, t),
         t = text \/ (outcome.kind = "text" /\ t = outcome.text)
  PROVE  Service!Ask
<1>1. PICK bad : bad = {k \in 0 .. Len(t) - 1 : Unencodable(t[k + 1])}
  OBVIOUS
<1>2. /\ pc = "caller" /\ op' = o /\ text' = t
      /\ IF bad = {}
         THEN pc' = "scan" /\ outcome' = [kind |-> "none"]
         ELSE pc' = "caller" /\ outcome' = [kind |-> "unencodable", at |-> Min(bad)]
  BY <1>1, Zenon DEF Begin
<1>3. Refusals(t) = {[kind |-> "unencodable", at |-> k] : k \in {j \in bad : \A i \in bad : j <= i}}
  BY <1>1, Zenon DEF Refusals
<1>4. /\ op' \in {"find_wrappers", "locate", "strip"}
      /\ text' = text \/ (outcome.kind = "text" /\ text' = outcome.text)
  BY <1>2 DEF Operations
<1>5. (pc = "scan") = FALSE
  BY <1>2
<1>6. CASE bad = {}
  <2>1. Refusals(text') = {} /\ (pc' = "scan") = TRUE /\ outcome' = [kind |-> "none"]
    BY <1>2, <1>3, <1>6
  <2>2. QED
    BY <1>4, <1>5, <2>1 DEF Service!Ask
<1>7. CASE bad # {}
  <2>1. bad \in SUBSET Nat
    BY <1>1
  <2>2. PICK x \in bad : \A y \in bad : x <= y
    BY <1>7, <2>1, LeastElement
  <2>3. Min(bad) = x
    BY <2>1, <2>2, MinIs
  <2>4. outcome' = [kind |-> "unencodable", at |-> x] /\ (pc' = "scan") = FALSE
    BY <1>2, <1>7, <2>3
  <2>5. outcome' \in Refusals(text')
    BY <1>2, <1>3, <2>2, <2>4, Zenon
  <2>6. QED
    BY <1>4, <1>5, <2>4, <2>5 DEF Service!Ask
<1>8. QED
  BY <1>6, <1>7

LEMMA StepServes == CallInvariant /\ [Next]_vars => [Service!Next]_(Service!vars)
<1> SUFFICES ASSUME CallInvariant, [Next]_vars PROVE Service!Next \/ UNCHANGED Service!vars
  OBVIOUS
<1>1. TypeOK
  BY DEF CallInvariant, ScanInvariant
<1>2. CASE Call
  <2>1. text \in Seq(CodePoint)
    BY <1>1 DEF TypeOK
  <2>2. Service!Ask
    BY <1>2, <2>1, BeginAsks DEF Call
  <2>3. QED
    BY <2>2 DEF Service!Next
<1>3. CASE CallOnStripped
  <2>1. outcome.kind = "text" /\ outcome.text \in Seq(CodePoint)
    BY <1>1, <1>3 DEF CallOnStripped, TypeOK
  <2>2. Service!Ask
    BY <1>3, <2>1, BeginAsks DEF CallOnStripped
  <2>3. QED
    BY <2>2 DEF Service!Next
<1>4. CASE Turn
  BY <1>4 DEF Turn, SkipCandidate, RememberCorrupt, AcceptWrapper, Visit, Service!vars
<1>5. CASE Return
  <2>1. ScanOver /\ pc = "scan" /\ pc' = "caller" /\ text' = text /\ op' = op
    BY <1>5 DEF Return, ScanOver
  <2>2. /\ op = "find_wrappers" => outcome' = FindWrappersOutcome
        /\ op = "locate" => outcome' = LocateOutcome
        /\ op = "strip" => outcome' = StripOutcome
        /\ op \in {"find_wrappers", "locate", "strip"}
    BY <1>1, <1>5 DEF Return, TypeOK, Operations
  <2>3. outcome' \in Answers(op, text)
    BY <2>1, <2>2, AnswersServe, Zenon
  <2>4. Service!Answer
    BY <2>1, <2>3 DEF Service!Answer
  <2>5. QED
    BY <2>4 DEF Service!Next
<1>6. CASE UNCHANGED vars
  BY <1>6 DEF vars, scanVars, Service!vars
<1>7. QED
  BY <1>2, <1>3, <1>4, <1>5, <1>6 DEF Next, ScanStep

(* What callers see of find_wrappers, locate and strip is Calls: one answer per *)
(* call, a function of the wrappers of the text alone.                       *)
THEOREM ScanImplementsCalls == Spec => ScanServesCalls
<1>1. Init => Service!Init
  BY DEF Init, Service!Init
<1>2. Init => CallInvariant
  BY CallInvariantAtFirst
<1>3. QED
  BY <1>1, <1>2, CallInvariantIsKept, StepServes, PTL
     DEF Spec, ScanServesCalls, Service!Spec

(* A wrapper of the rest of a text that crosses no seam was one of the text. *)
LEMMA RemainingWrapperCrosses ==
  ASSUME NEW t \in Seq(CodePoint), NEW w \in Wrappers(Without(t))
  PROVE  \E s \in Seams(t) : w[1] < s /\ s < w[1] + 14 + w[2]
<1>1. PICK R : R = InWrappers(t)
  OBVIOUS
<1>2. PICK u : u = Without(t)
  OBVIOUS
<1>3. u = FlattenSeq(Left(t, R))
  BY <1>1, <1>2, Zenon DEF Without, Left
<1>4. Seams(t) = {LeftUpTo(R, v[1]) : v \in Wrappers(t)}
  BY <1>1, Zenon DEF Seams, LeftUpTo
<1>5. PICK N \in Nat : N = Len(t)
  OBVIOUS
<1>6. /\ u \in Seq(CodePoint) /\ Len(u) = LeftUpTo(R, N)
      /\ \A k \in 1 .. N : k \notin R => LeftUpTo(R, k) \in 1 .. Len(u) /\ u[LeftUpTo(R, k)] = t[k]
      /\ \A p \in 1 .. Len(u) : \E k \in 1 .. N : k \notin R /\ LeftUpTo(R, k) = p
  <2>. DEFINE rest == FlattenSeq(Left(t, R))
  <2>1. /\ rest \in Seq(CodePoint) /\ Len(rest) = LeftUpTo(R, Len(t))
        /\ \A k \in 1 .. Len(t) :
             k \notin R => LeftUpTo(R, k) \in 1 .. Len(rest) /\ rest[LeftUpTo(R, k)] = t[k]
        /\ \A p \in 1 .. Len(rest) : \E k \in 1 .. Len(t) : k \notin R /\ LeftUpTo(R, k) = p
    <3>1. IsLeft(CodePoint, t, R, rest)
      BY LeftElements, Zenon
    <3>. HIDE DEF rest
    <3>2. QED
      BY <3>1, Zenon DEF IsLeft
  <2>2. u = rest
    BY <1>3, Zenon
  <2>. HIDE DEF rest
  <2>3. QED
    BY <1>5, <2>1, <2>2, Zenon
<1>7. PICK a, n : a = w[1] /\ n = w[2]
  OBVIOUS
<1>8. /\ a \in 0 .. Len(u) - 1 /\ n \in 0 .. MaxManifestLength
      /\ WrapperAt(u, a, n)
  BY <1>2, <1>7 DEF Wrappers
<1>9. /\ Len(u) \in Nat /\ a \in Nat /\ n \in Nat /\ a + 14 + n <= Len(u) /\ a + 1 \in 1 .. Len(u)
  <2>1. Len(u) \in Nat
    BY <1>6
  <2>2. a \in Nat /\ n \in Nat /\ a + 1 \in 1 .. Len(u)
    BY <1>8, <2>1, MaxManifestLengthAssumption, SMTT(30) DEF LengthRange
  <2>3. a + 1 + HEADER_SIZE + n <= Len(u)
    BY <1>8, Zenon DEF WrapperAt
  <2>4. QED
    BY <2>1, <2>2, <2>3 DEF HEADER_SIZE
<1>10. PICK l \in Nat : l = 14 + n
  BY <1>9
<1>11. PICK q \in 1 .. N : q \notin R /\ LeftUpTo(R, q) = a + 1
  BY <1>6, <1>9, Zenon
<1>. SUFFICES ASSUME ~ \E s \in Seams(t) : a < s /\ s < a + 14 + n PROVE FALSE
  BY <1>7, Zenon
<1>. DEFINE T == {j \in 1 .. l : /\ q + j - 1 \in 1 .. N /\ q + j - 1 \notin R
                                 /\ LeftUpTo(R, q + j - 1) = a + j}
<1>12. 1 \in T
  <2>1. 1 \in 1 .. l /\ q + 1 - 1 = q
    BY <1>9, <1>10, <1>11
  <2>2. QED
    BY <1>11, <2>1
<1>13. ASSUME NEW j \in 1 .. l, j \in T, j < l PROVE j + 1 \in T
  <2>1. PICK r \in Nat : r = q + j - 1
    BY <1>11, <1>13
  <2>2. /\ r \in 1 .. N /\ r \notin R /\ LeftUpTo(R, r) = a + j
        /\ q + (j + 1) - 1 = r + 1 /\ a + (j + 1) = a + j + 1 /\ j + 1 \in 1 .. l
        /\ a < a + j /\ a + j < a + 14 + n
    BY <1>9, <1>10, <1>11, <1>13, <2>1
  <2>3. r + 1 \in 1 .. N
    <3>1. ASSUME r = N PROVE FALSE
      <4>1. Len(u) = a + j
        BY <1>6, <2>2, <3>1, Zenon
      <4>2. QED
        BY <1>9, <2>2, <4>1
    <3>2. QED
      BY <2>2, <3>1
  <2>4. r + 1 \notin R
    <3>. SUFFICES ASSUME r + 1 \in R PROVE FALSE
      OBVIOUS
    <3>1. PICK v \in Wrappers(t) : r + 1 \in v[1] + 1 .. v[1] + 1 + HEADER_SIZE + v[2]
      BY <1>1, Zenon DEF InWrappers
    <3>2. r \notin v[1] + 1 .. v[1] + 1 + HEADER_SIZE + v[2]
      BY <1>1, <2>2, Zenon DEF InWrappers
    <3>3. v[1] \in Nat /\ v[2] \in Nat
      BY MaxManifestLengthAssumption, SMTT(30) DEF Wrappers, LengthRange
    <3>4. PICK x \in Nat, y \in Nat : x = v[1] /\ y = v[2]
      BY <3>3
    <3>5. r + 1 \in x + 1 .. x + 14 + y /\ r \notin x + 1 .. x + 14 + y
      BY <3>1, <3>2, <3>4, SMTT(30) DEF HEADER_SIZE
    <3>6. r = x
      BY <3>5
    <3>7. a + j \in Seams(t)
      BY <1>4, <2>2, <3>4, <3>6, Zenon
    <3>8. QED
      BY <2>2, <3>7, Zenon
  <2>5. LeftUpTo(R, r + 1) = a + j + 1
    <3>1. LeftUpTo(R, r + 1) = LeftUpTo(R, r) + 1
      BY <2>4, LeftCounts
    <3>2. QED
      BY <2>2, <3>1, Zenon
  <2>6. QED
    BY <2>2, <2>3, <2>4, <2>5
<1>. HIDE DEF T
<1>14. \A j \in 1 .. l : j \in T
  <2>1. 1 \in Nat /\ l \in Nat
    OBVIOUS
  <2>2. QED
    BY <1>12, <1>13, <2>1, UpwardInduction
<1>15. PICK b \in Nat : b = q - 1
  BY <1>11
<1>16. \A j \in 1 .. l : t[b + j] = u[a + j] /\ b + j \in 1 .. N
  <2>. TAKE j \in 1 .. l
  <2>1. q + j - 1 = b + j
    BY <1>11, <1>15
  <2>2. b + j \in 1 .. N /\ b + j \notin R /\ LeftUpTo(R, b + j) = a + j
    BY <1>14, <2>1 DEF T
  <2>3. QED
    BY <1>6, <2>2, Zenon
<1>17. b + 14 + n <= Len(t)
  <2>1. l \in 1 .. l /\ b + l = b + 14 + n
    BY <1>9, <1>10
  <2>2. b + l \in 1 .. N
    BY <1>16, <2>1, Zenon
  <2>3. QED
    BY <1>5, <2>1, <2>2
<1>18. WrapperAt(t, b, n)
  <2>1. \A j \in 1 .. 14 + n : t[b + j] = u[a + j]
    BY <1>10, <1>16, Zenon
  <2>2. QED
    BY <1>6, <1>8, <1>9, <1>17, <2>1, WrapperMoves, Zenon
<1>19. <<b, n>> \in Wrappers(t)
  <2>1. b \in 0 .. Len(t) - 1
    BY <1>5, <1>11, <1>15
  <2>2. QED
    BY <1>8, <1>18, <2>1 DEF Wrappers
<1>20. q \in b + 1 .. b + 1 + HEADER_SIZE + n
  BY <1>9, <1>11, <1>15 DEF HEADER_SIZE
<1>21. q \in R
  BY <1>1, <1>19, <1>20 DEF InWrappers
<1>22. QED
  BY <1>11, <1>21

(* What strip returned is the text without its wrappers.                     *)
StrippedText ==
  Returned /\ op = "strip" /\ outcome.kind = "text" => outcome.text = Without(text)

LEMMA StrippedTextIsKept == CallInvariant /\ StrippedText /\ [Next]_vars => StrippedText'
<1> SUFFICES ASSUME CallInvariant, StrippedText, [Next]_vars PROVE StrippedText'
  OBVIOUS
<1>1. ASSUME NEW o, NEW t, Begin(o, t) PROVE StrippedText'
  <2>1. outcome'.kind \in {"none", "unencodable"}
    BY <1>1 DEF Begin
  <2>2. QED
    BY <2>1 DEF StrippedText, Returned
<1>2. CASE Turn
  <2>1. pc' = "scan"
    BY <1>2 DEF Turn, SkipCandidate, RememberCorrupt, AcceptWrapper, Visit
  <2>2. QED
    BY <2>1 DEF StrippedText, Returned
<1>3. CASE Return
  <2>1. ScanOver /\ text' = text /\ op' = op /\ (op = "strip" => outcome' = StripOutcome)
    BY <1>3 DEF Return
  <2>2. CASE corrupt # {}
    <3>1. StripOutcome = Raise(CHOOSE e \in corrupt : TRUE)
      BY <2>2, Zenon DEF StripOutcome
    <3>2. StripOutcome.kind # "text"
      BY <3>1 DEF Raise
    <3>3. QED
      BY <2>1, <3>2 DEF StrippedText
  <2>3. CASE corrupt = {}
    <3>1. StripOutcome = [kind |-> "text", text |-> Without(text)]
      <4>1. matches = <<>> <=> Wrappers(text) = {}
        BY <2>1, HeldInTheEnd
      <4>2. QED
        BY <2>1, <2>3, <4>1, StripTakesWrappersOut, Zenon DEF StripOutcome
    <3>2. StripOutcome.text = Without(text)
      BY <3>1
    <3>3. QED
      BY <2>1, <3>2 DEF StrippedText
  <2>4. QED
    BY <2>2, <2>3
<1>4. CASE UNCHANGED vars
  BY <1>4 DEF vars, scanVars, StrippedText, Returned
<1>5. QED
  BY <1>1, <1>2, <1>3, <1>4 DEF Next, Call, CallOnStripped, ScanStep

(* One pass of strip leaves only wrappers whose two halves stood on the two  *)
(* sides of one it removed.                                                  *)
THEOREM OnlySeamsLeaveWrappers == Spec => []RemainingWrapperStraddlesSeam
<1>1. Init => CallInvariant /\ StrippedText
  BY CallInvariantAtFirst DEF Init, StrippedText, Returned
<1>2. CallInvariant /\ StrippedText => RemainingWrapperStraddlesSeam
  <2>. SUFFICES ASSUME CallInvariant, StrippedText PROVE RemainingWrapperStraddlesSeam
    OBVIOUS
  <2>1. text \in Seq(CodePoint)
    BY DEF CallInvariant, ScanInvariant, TypeOK
  <2>2. QED
    BY <2>1, RemainingWrapperCrosses, Zenon DEF StrippedText, RemainingWrapperStraddlesSeam
<1>3. QED
  BY <1>1, <1>2, CallInvariantIsKept, StrippedTextIsKept, PTL DEF Spec
=============================================================================
