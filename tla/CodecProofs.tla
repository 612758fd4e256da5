------------------------------ MODULE CodecProofs -----------------------------
(***************************************************************************)
(* Theorems on the two codecs under a manifest: the decoder of Cbor and the  *)
(* parser of Jumbf, whatever the input declares.  Input of Cbor is any bytes *)
(* but the two that announce long floats, as many as a source allows: up to  *)
(* 2^24 - 1, eight times MAX_MANIFEST_LENGTH.  Data of Jumbf has any size.   *)
(*                                                                           *)
(* CBOR.  The deterministic mode reads a value that dumps can write from one *)
(* string of bytes only, the one that dumps writes. The argument is that the *)
(* writer of a value could follow the reader: while the decoder stands       *)
(* inside containers, the bytes between the start of one frame and that of   *)
(* the next are the head that dumps would write for that container once it   *)
(* is complete, then what it would write for the items read so far. The head *)
(* is right before the items are there because the count it declares is the  *)
(* number read and the number left; a map is right because its keys came in  *)
(* rising order, so that the writer's sorting puts each pair last.           *)
(* ReadingInvariant says this of every frame.                                *)
(*                                                                           *)
(* JUMBF.  No byte is read in two headers, and an accepted superbox is cut   *)
(* into its parts; and whatever box is written is read back. The parser      *)
(* stands at offset, every header it read ends there or before, and every    *)
(* box that it accepts is at least as long as its own header; so the next    *)
(* header starts after all the others, and the parts read so far lie side by *)
(* side up to offset (ParseInvariant). For a written box a second invariant  *)
(* is added: after k content boxes the parser stands where the writer put    *)
(* the next (WrittenIsRead). It rests on the places that the writer gives    *)
(* the boxes, which rise, so that each holds one header.                     *)
(***************************************************************************)
EXTENDS Cbor, Jumbf, TextLemmas

----------------------------------------------------------------------------
(* CBOR: arguments, their bytes without leading zeros.                       *)

(* From the first byte that is not zero on.                                  *)
LEMMA UnpaddedAt ==
  ASSUME NEW bytes \in Seq(Byte), NEW m \in 1 .. Len(bytes), bytes[m] # 0,
         \A j \in 1 .. m - 1 : bytes[j] = 0
  PROVE  Unpadded(bytes) = SubSeq(bytes, m, Len(bytes))
<1>. DEFINE first == {i \in DOMAIN bytes : bytes[i] # 0}
<1>1. m \in first /\ \A i \in first : m <= i
  OBVIOUS
<1>2. first \subseteq Nat
  OBVIOUS
<1>. HIDE DEF first
<1>3. \A x \in first : (\A y \in first : x <= y) => x = m
  BY <1>1, <1>2
<1>4. Min(first) = m
  BY <1>1, <1>3 DEF Min
<1>5. QED
  BY <1>1, <1>4 DEF Unpadded, first

(* Nothing but zeros: the argument zero, which has no bytes.                 *)
LEMMA UnpaddedNothing ==
  ASSUME NEW bytes \in Seq(Byte), \A j \in 1 .. Len(bytes) : bytes[j] = 0
  PROVE  Unpadded(bytes) = <<>>
<1>1. {i \in DOMAIN bytes : bytes[i] # 0} = {}
  OBVIOUS
<1>2. QED
  BY <1>1 DEF Unpadded

(* Arguments of up to three bytes, by cases.                                 *)
LEMMA UnpaddedShort ==
  ASSUME NEW a \in Byte, NEW b \in Byte, NEW c \in Byte
  PROVE  /\ a # 0 => Unpadded(<<a, b, c>>) = <<a, b, c>>
         /\ a = 0 /\ b # 0 => Unpadded(<<a, b, c>>) = <<b, c>>
         /\ a = 0 /\ b = 0 /\ c # 0 => Unpadded(<<a, b, c>>) = <<c>>
         /\ a = 0 /\ b = 0 /\ c = 0 => Unpadded(<<a, b, c>>) = <<>>
<1>. DEFINE t == <<a, b, c>>
<1>1. t \in Seq(Byte) /\ Len(t) = 3 /\ t[1] = a /\ t[2] = b /\ t[3] = c
  OBVIOUS
<1>. HIDE DEF t
<1>2. SubSeq(t, 2, 3) = <<b, c>> /\ SubSeq(t, 3, 3) = <<c>>
  <2>. DEFINE u == SubSeq(t, 2, 3)
  <2>1. u \in Seq(Byte) /\ Len(u) = 2 /\ u[1] = b /\ u[2] = c
    BY <1>1
  <2>. HIDE DEF u
  <2>2. u = <<b, c>>
    BY <2>1
  <2>3. 3 \in 1 .. Len(t)
    BY <1>1
  <2>4. SubSeq(t, 3, 3) = <<t[3]>>
    BY <1>1, <2>3, OneCodePoint
  <2>5. QED
    BY <1>1, <2>2, <2>4 DEF u
<1>3. ASSUME a # 0 PROVE Unpadded(t) = t
  <2>1. 1 \in 1 .. Len(t) /\ \A j \in 1 .. 1 - 1 : t[j] = 0
    BY <1>1
  <2>2. Unpadded(t) = SubSeq(t, 1, Len(t))
    BY <1>1, <1>3, <2>1, UnpaddedAt
  <2>3. QED
    BY <1>1, <2>2, WholePrefix
<1>4. ASSUME a = 0, b # 0 PROVE Unpadded(t) = <<b, c>>
  <2>1. 2 \in 1 .. Len(t) /\ \A j \in 1 .. 2 - 1 : t[j] = 0
    BY <1>1, <1>4
  <2>2. Unpadded(t) = SubSeq(t, 2, Len(t))
    BY <1>1, <1>4, <2>1, UnpaddedAt
  <2>3. QED
    BY <1>1, <1>2, <2>2
<1>5. ASSUME a = 0, b = 0, c # 0 PROVE Unpadded(t) = <<c>>
  <2>1. 3 \in 1 .. Len(t) /\ \A j \in 1 .. 3 - 1 : t[j] = 0
    BY <1>1, <1>5
  <2>2. Unpadded(t) = SubSeq(t, 3, Len(t))
    BY <1>1, <1>5, <2>1, UnpaddedAt
  <2>3. QED
    BY <1>1, <1>2, <2>2
<1>6. ASSUME a = 0, b = 0, c = 0 PROVE Unpadded(t) = <<>>
  <2>1. \A j \in 1 .. Len(t) : t[j] = 0
    BY <1>1, <1>6
  <2>2. QED
    BY <1>1, <2>1, UnpaddedNothing
<1>7. QED
  BY <1>3, <1>4, <1>5, <1>6 DEF t

----------------------------------------------------------------------------
(* The one shortest head of an argument, and the arguments that heads have.  *)

(* The choice that ItemHead makes among 1, 2, 4 and 8 bytes.                 *)
LEMMA WidthOfHead ==
  ASSUME NEW n \in 1 .. 8
  PROVE  (CHOOSE i \in 0..3 : 2^i >= n /\ (i = 0 \/ 2^(i - 1) < n))
           = IF n <= 1 THEN 0 ELSE IF n <= 2 THEN 1 ELSE IF n <= 4 THEN 2 ELSE 3
<1>1. 2^0 = 1 /\ 2^1 = 2 /\ 2^2 = 4 /\ 2^3 = 8
  OBVIOUS
<1>. DEFINE fits(i) == 2^i >= n /\ (i = 0 \/ 2^(i - 1) < n)
<1>2. /\ fits(0) <=> n <= 1
      /\ fits(1) <=> 1 < n /\ n <= 2
      /\ fits(2) <=> 2 < n /\ n <= 4
      /\ fits(3) <=> 4 < n
  BY <1>1
<1>3. 0 .. 3 = {0, 1, 2, 3}
  OBVIOUS
<1>. HIDE DEF fits
<1>4. (CHOOSE i \in {0, 1, 2, 3} : fits(i)) = IF n <= 1 THEN 0 ELSE IF n <= 2 THEN 1 ELSE IF n <= 4 THEN 2 ELSE 3
  BY <1>2
<1>5. QED
  BY <1>3, <1>4 DEF fits

(* Numbers of at most three bytes.                                           *)
Total(x, y, z) == 65536 * x + 256 * y + z

(* A number and its three bytes, leading zeros included.                     *)
LEMMA ThreeBytes ==
  ASSUME NEW x \in 0 .. 255, NEW y \in 0 .. 255, NEW z \in 0 .. 255
  PROVE  /\ Total(x, y, z) \in 0 .. Huge
         /\ FromNumber(Total(x, y, z)) = Unpadded(<<x, y, z>>)
<1>. DEFINE n == Total(x, y, z)
<1>1. Huge \in Nat /\ 16777215 < Huge
  BY SMT DEF Huge
<1>2. n = 65536 * x + 256 * y + z
  BY DEF Total
<1>. HIDE DEF n
<1>3. n \in Int /\ 0 <= n /\ n <= 16777215
  BY <1>2, SMT
<1>4. n \in 0 .. Huge
  BY <1>1, <1>3, SMT
<1>5. n \div 65536 = x /\ n \div 256 = 256 * x + y /\ n % 256 = z
  BY <1>2, SMT
<1>6. x % 256 = x /\ (256 * x + y) % 256 = y
  BY SMT
<1>7. FromNumber(n) = Unpadded(<<(n \div 65536) % 256, (n \div 256) % 256, n % 256>>)
  BY DEF FromNumber
<1>8. (n \div 65536) % 256 = x /\ (n \div 256) % 256 = y
  BY <1>5, <1>6
<1>9. QED
  BY <1>4, <1>5, <1>7, <1>8 DEF n

(* An argument without leading zeros is the bytes of its number, unless that *)
(* is Huge.                                                                  *)
LEMMA NumberRoundTrip ==
  ASSUME NEW arg \in Seq(Byte), Len(arg) # 0 => arg[1] # 0
  PROVE  /\ Number(arg) \in 0 .. Huge
         /\ Number(arg) < Huge => FromNumber(Number(arg)) = arg
<1>1. 0 \in Byte /\ Byte = 0 .. 255
  BY DEF Byte
<1>2. Huge \in Nat /\ 16777215 < Huge
  BY SMT DEF Huge
<1>3. CASE arg = <<>>
  <2>1. Number(arg) = 0
    BY <1>3 DEF Number
  <2>2. 0 \in 0 .. 255 /\ Total(0, 0, 0) = 0
    BY DEF Total
  <2>3. 0 \in 0 .. Huge /\ FromNumber(0) = Unpadded(<<0, 0, 0>>)
    <3>1. Total(0, 0, 0) \in 0 .. Huge /\ FromNumber(Total(0, 0, 0)) = Unpadded(<<0, 0, 0>>)
      BY <2>2, ThreeBytes
    <3>2. QED
      BY <2>2, <3>1
  <2>4. 0 \in Byte
    BY <1>1
  <2>5. Unpadded(<<0, 0, 0>>) = <<>>
    BY <2>4, UnpaddedShort
  <2>6. QED
    BY <1>3, <2>1, <2>3, <2>5, Zenon
<1>4. CASE Len(arg) = 1
  <2>. DEFINE c == arg[1]
  <2>1. c \in Byte /\ arg = <<c>> /\ c # 0
    BY <1>4
  <2>2. Number(arg) = c
    BY <1>4 DEF Number
  <2>. HIDE DEF c
  <2>3. 0 \in 0 .. 255 /\ c \in 0 .. 255 /\ c = Total(0, 0, c)
    BY <1>1, <2>1 DEF Total
  <2>4. c \in 0 .. Huge /\ FromNumber(c) = Unpadded(<<0, 0, c>>)
    <3>1. Total(0, 0, c) \in 0 .. Huge /\ FromNumber(Total(0, 0, c)) = Unpadded(<<0, 0, c>>)
      BY <2>3, ThreeBytes
    <3>2. QED
      BY <2>3, <3>1
  <2>5. Unpadded(<<0, 0, c>>) = <<c>>
    BY <1>1, <2>1, UnpaddedShort
  <2>6. FromNumber(c) = arg
    BY <2>1, <2>4, <2>5
  <2>7. QED
    BY <2>2, <2>4, <2>6
<1>5. CASE Len(arg) = 2
  <2>. DEFINE b == arg[1]
              c == arg[2]
              n == 256 * b + c
  <2>1. b \in Byte /\ c \in Byte /\ arg = <<b, c>> /\ b # 0
    BY <1>5
  <2>2. Number(arg) = n
    BY <1>5 DEF Number
  <2>. HIDE DEF b, c
  <2>3. 0 \in 0 .. 255 /\ b \in 0 .. 255 /\ c \in 0 .. 255 /\ n = Total(0, b, c)
    BY <1>1, <2>1 DEF Total
  <2>. HIDE DEF n
  <2>4. n \in 0 .. Huge /\ FromNumber(n) = Unpadded(<<0, b, c>>)
    <3>1. Total(0, b, c) \in 0 .. Huge /\ FromNumber(Total(0, b, c)) = Unpadded(<<0, b, c>>)
      BY <2>3, ThreeBytes
    <3>2. QED
      BY <2>3, <3>1
  <2>5. Unpadded(<<0, b, c>>) = <<b, c>>
    <3>1. 0 \in Byte /\ b \in Byte /\ c \in Byte /\ b # 0
      BY <1>1, <2>1
    <3>2. QED
      BY <3>1, UnpaddedShort, SMTT(30)
  <2>6. FromNumber(n) = arg
    BY <2>1, <2>4, <2>5
  <2>7. QED
    BY <2>2, <2>4, <2>6
<1>6. CASE Len(arg) = 3
  <2>. DEFINE a == arg[1]
              b == arg[2]
              c == arg[3]
              n == 65536 * a + 256 * b + c
  <2>1. a \in Byte /\ b \in Byte /\ c \in Byte /\ arg = <<a, b, c>> /\ a # 0
    BY <1>6
  <2>2. Number(arg) = n
    BY <1>6 DEF Number
  <2>. HIDE DEF a, b, c
  <2>3. a \in 0 .. 255 /\ b \in 0 .. 255 /\ c \in 0 .. 255 /\ n = Total(a, b, c)
    BY <1>1, <2>1 DEF Total
  <2>. HIDE DEF n
  <2>4. n \in 0 .. Huge /\ FromNumber(n) = Unpadded(<<a, b, c>>)
    <3>1. Total(a, b, c) \in 0 .. Huge /\ FromNumber(Total(a, b, c)) = Unpadded(<<a, b, c>>)
      BY <2>3, ThreeBytes
    <3>2. QED
      BY <2>3, <3>1
  <2>5. Unpadded(<<a, b, c>>) = <<a, b, c>>
    BY <2>1, UnpaddedShort
  <2>6. FromNumber(n) = arg
    BY <2>1, <2>4, <2>5
  <2>7. QED
    BY <2>2, <2>4, <2>6
<1>7. CASE arg # <<>> /\ Len(arg) # 1 /\ Len(arg) # 2 /\ Len(arg) # 3
  <2>1. Number(arg) = Huge
    BY <1>7 DEF Number
  <2>2. Huge \in 0 .. Huge /\ ~ (Huge < Huge)
    BY <1>2
  <2>3. QED
    BY <2>1, <2>2, Zenon
<1>8. QED
  BY <1>3, <1>4, <1>5, <1>6, <1>7, Zenon

(* The first byte of a head is its major type and its information.           *)
LEMMA ByteOfHead ==
  ASSUME NEW b \in Byte
  PROVE  /\ b \div 32 \in 0 .. 7 /\ b % 32 \in 0 .. 31
         /\ b = 32 * (b \div 32) + (b % 32)
  BY DEF Byte

(* The head of one byte, whose argument is below 24.                         *)
LEMMA ShortHead ==
  ASSUME NEW b \in Byte, b % 32 < 24
  PROVE  /\ FromNumber(b % 32) \in Seq(Byte)
         /\ Len(FromNumber(b % 32)) # 0 => FromNumber(b % 32)[1] # 0
         /\ ItemHead(b \div 32, FromNumber(b % 32)) = <<b>>
<1>. DEFINE n == b % 32
            m == b \div 32
<1>1. n \in 0 .. 23 /\ b = 32 * m + n /\ m \in 0 .. 7
  BY ByteOfHead
<1>. HIDE DEF n, m
<1>2. /\ (n \div 65536) % 256 = 0 /\ (n \div 256) % 256 = 0 /\ n % 256 = n
      /\ n \in Byte /\ 0 \in Byte
  BY <1>1 DEF Byte
<1>3. FromNumber(n) = Unpadded(<<0, 0, n>>)
  BY <1>2 DEF FromNumber
<1>4. CASE n = 0
  <2>1. FromNumber(n) = <<>>
    BY <1>2, <1>3, <1>4, UnpaddedShort
  <2>2. Immediate(<<>>) /\ Number(<<>>) = 0
    BY DEF Immediate, Number
  <2>3. ItemHead(m, <<>>) = <<32 * m + 0>>
    BY <2>2, Zenon DEF ItemHead
  <2>4. 32 * m + 0 = b
    BY <1>1, <1>4
  <2>5. <<>> \in Seq(Byte) /\ Len(<<>>) = 0
    OBVIOUS
  <2>6. QED
    BY <2>1, <2>3, <2>4, <2>5, Zenon DEF n, m
<1>5. CASE n # 0
  <2>1. FromNumber(n) = <<n>>
    BY <1>2, <1>3, <1>5, UnpaddedShort
  <2>2. Immediate(<<n>>) /\ Number(<<n>>) = n
    BY <1>1 DEF Immediate, Number
  <2>3. ItemHead(m, <<n>>) = <<32 * m + n>>
    BY <2>2, Zenon DEF ItemHead
  <2>5. <<n>> \in Seq(Byte) /\ <<n>>[1] = n
    BY <1>2
  <2>6. 32 * m + n = b
    BY <1>1
  <2>7. QED
    BY <1>5, <2>1, <2>3, <2>5, <2>6, Zenon DEF n, m
<1>6. QED
  BY <1>4, <1>5

(* Bytes after bytes.                                                        *)
LEMMA JoinedBytes ==
  ASSUME NEW s \in Seq(Byte), NEW t \in Seq(Byte)
  PROVE  /\ s \o t \in Seq(Byte) /\ Len(s \o t) = Len(s) + Len(t) /\ s \o <<>> = s
         /\ \A i \in 1 .. Len(s) : (s \o t)[i] = s[i]
         /\ \A i \in 1 .. Len(t) : (s \o t)[Len(s) + i] = t[i]
<1>1. s \o <<>> = s
  OBVIOUS
<1>2. /\ s \o t \in Seq(Byte) /\ Len(s \o t) = Len(s) + Len(t)
      /\ \A i \in 1 .. Len(s) : (s \o t)[i] = s[i]
      /\ \A i \in 1 .. Len(t) : (s \o t)[Len(s) + i] = t[i]
  BY ConcatElements
<1>3. QED
  BY <1>1, <1>2

LEMMA JoinedThrice ==
  ASSUME NEW s \in Seq(Byte), NEW t \in Seq(Byte), NEW u \in Seq(Byte)
  PROVE  (s \o t) \o u = s \o (t \o u)
  BY ConcatAssociates

(* w bytes follow the first: their leading zeros are fewer than half.        *)
LEMMA WideHead ==
  ASSUME NEW b \in Byte, NEW rest \in Seq(Byte), NEW e \in 0 .. 3, Len(rest) = 2^e,
         NEW m \in 1 .. Len(rest), rest[m] # 0, \A j \in 1 .. m - 1 : rest[j] = 0,
         e # 0 => m <= Len(rest) \div 2, e = 0 => rest[1] >= 24, b % 32 = 24 + e
  PROVE  /\ Unpadded(rest) \in Seq(Byte) /\ Len(Unpadded(rest)) # 0 /\ Unpadded(rest)[1] # 0
         /\ ItemHead(b \div 32, Unpadded(rest)) = <<b>> \o rest
<1>. DEFINE w == Len(rest)
            arg == Unpadded(rest)
<1>1. 2^0 = 1 /\ 2^1 = 2 /\ 2^2 = 4 /\ 2^3 = 8
  OBVIOUS
<1>2. /\ e = 0 => w = 1
      /\ e = 1 => w = 2
      /\ e = 2 => w = 4
      /\ e = 3 => w = 8
  BY <1>1
<1>3. e \in {0, 1, 2, 3}
  OBVIOUS
<1>4. arg = SubSeq(rest, m, w)
  BY UnpaddedAt
<1>5. PICK n : n = w - m + 1
  OBVIOUS
<1>6. /\ n \in 1 .. 8 /\ n <= w /\ w - n = m - 1
      /\ e = 0 => n = 1
      /\ e = 1 => n = 2
      /\ e = 2 => n \in 3 .. 4
      /\ e = 3 => n \in 5 .. 8
  BY <1>2, <1>3, <1>5
<1>7. /\ arg \in Seq(Byte) /\ Len(arg) = n
      /\ \A k \in 1 .. n : arg[k] = rest[m - 1 + k]
  BY <1>4, <1>5
<1>8. arg[1] = rest[m]
  BY <1>6, <1>7
<1>. HIDE DEF arg
<1>9. ~ Immediate(arg)
  <2>1. CASE n = 1
    <3>1. e = 0 /\ m = 1
      BY <1>2, <1>3, <1>5, <1>6, <2>1
    <3>2. arg[1] >= 24
      BY <1>8, <3>1
    <3>3. Number(arg) = arg[1]
      BY <1>7, <2>1 DEF Number
    <3>4. arg[1] \in Nat
      <4>1. 1 \in 1 .. Len(arg)
        BY <1>6, <1>7
      <4>2. arg[1] \in Byte
        BY <1>7, <4>1
      <4>. DEFINE a1 == arg[1]
      <4>3. a1 \in Byte
        BY <4>2
      <4>. HIDE DEF a1
      <4>4. a1 \in Nat
        BY <4>3, SMT DEF Byte
      <4>5. QED
        BY <4>4 DEF a1
    <3>5. QED
      BY <3>2, <3>3, <3>4 DEF Immediate
  <2>2. CASE n # 1
    BY <1>6, <1>7, <2>2 DEF Immediate
  <2>3. QED
    BY <2>1, <2>2
<1>10. (CHOOSE i \in 0..3 : 2^i >= Len(arg) /\ (i = 0 \/ 2^(i - 1) < Len(arg))) = e
  <2>1. (CHOOSE i \in 0..3 : 2^i >= n /\ (i = 0 \/ 2^(i - 1) < n))
          = IF n <= 1 THEN 0 ELSE IF n <= 2 THEN 1 ELSE IF n <= 4 THEN 2 ELSE 3
    BY <1>6, WidthOfHead
  <2>2. (IF n <= 1 THEN 0 ELSE IF n <= 2 THEN 1 ELSE IF n <= 4 THEN 2 ELSE 3) = e
    BY <1>3, <1>6
  <2>3. QED
    BY <1>7, <2>1, <2>2, Zenon
<1>11. ItemHead(b \div 32, arg) = <<32 * (b \div 32) + 24 + e>> \o Padded(arg, 2^e)
  BY <1>9, <1>10, Zenon DEF ItemHead
<1>12. 32 * (b \div 32) + 24 + e = b
  <2>. DEFINE m32 == b \div 32
              r32 == b % 32
  <2>1. b = 32 * m32 + r32 /\ m32 \in 0 .. 7 /\ r32 = 24 + e
    BY ByteOfHead
  <2>. HIDE DEF m32, r32
  <2>2. 32 * m32 + 24 + e = b
    BY <2>1
  <2>3. QED
    BY <2>2 DEF m32
<1>13. Padded(arg, 2^e) = rest
  <2>1. PICK zeros : zeros = [i \in 1 .. (w - n) |-> 0]
    OBVIOUS
  <2>2. zeros \in Seq(Byte) /\ Len(zeros) = w - n /\ \A i \in 1 .. (w - n) : zeros[i] = 0
    BY <1>6, <2>1 DEF Byte
  <2>3. PICK all : all = zeros \o arg
    OBVIOUS
  <2>4. /\ all \in Seq(Byte) /\ Len(all) = w
        /\ \A i \in 1 .. (w - n) : all[i] = 0
        /\ \A i \in 1 .. n : all[(w - n) + i] = arg[i]
    <3>1. Len(zeros) = w - n /\ Len(arg) = n /\ (w - n) + n = w
      BY <1>6, <1>7, <2>2
    <3>2. /\ all \in Seq(Byte) /\ Len(all) = Len(zeros) + Len(arg)
          /\ \A i \in 1 .. Len(zeros) : all[i] = zeros[i]
          /\ \A i \in 1 .. Len(arg) : all[Len(zeros) + i] = arg[i]
      <4>1. zeros \in Seq(Byte) /\ arg \in Seq(Byte)
        BY <1>7, <2>2
      <4>2. /\ zeros \o arg \in Seq(Byte) /\ Len(zeros \o arg) = Len(zeros) + Len(arg)
            /\ \A i \in 1 .. Len(zeros) : (zeros \o arg)[i] = zeros[i]
            /\ \A i \in 1 .. Len(arg) : (zeros \o arg)[Len(zeros) + i] = arg[i]
        BY <4>1, JoinedBytes, Zenon
      <4>3. QED
        BY <2>3, <4>2, Zenon
    <3>3. Len(all) = w /\ \A i \in 1 .. n : all[(w - n) + i] = arg[i]
      BY <3>1, <3>2
    <3>4. \A i \in 1 .. (w - n) : all[i] = 0
      BY <2>2, <3>2
    <3>5. QED
      BY <3>2, <3>3, <3>4
  <2>5. ASSUME NEW i \in 1 .. w PROVE all[i] = rest[i]
    <3>1. CASE i <= w - n
      BY <1>6, <2>4, <3>1
    <3>2. CASE i > w - n
      <4>1. PICK j \in 1 .. n : i = (w - n) + j
        <5>1. i - (w - n) \in 1 .. n
          BY <1>6, <3>2
        <5>2. i = (w - n) + (i - (w - n))
          BY <1>6
        <5>3. QED
          BY <5>1, <5>2
      <4>2. all[i] = arg[j] /\ arg[j] = rest[m - 1 + j] /\ m - 1 + j = i
        BY <1>6, <1>7, <2>4, <4>1
      <4>3. QED
        BY <4>2
    <3>3. QED
      BY <1>6, <3>1, <3>2
  <2>6. all = rest
    BY <2>4, <2>5, SeqEqualByElements
  <2>7. Padded(arg, 2^e) = zeros \o arg
    BY <1>7, <2>1 DEF Padded
  <2>8. QED
    BY <2>3, <2>6, <2>7
<1>14. ItemHead(b \div 32, arg) = <<b>> \o rest
  BY <1>11, <1>12, <1>13, Zenon
<1>15. arg \in Seq(Byte) /\ Len(arg) # 0 /\ arg[1] # 0
  BY <1>6, <1>7, <1>8
<1>16. QED
  BY <1>14, <1>15 DEF arg

(* All that the proofs know of the number that stands for what is too large. *)
LEMMA HugeIs == Huge \in Nat /\ 16777215 < Huge
  BY SMT DEF Huge

(* No leading zero is left.                                                  *)
LEMMA UnpaddedType ==
  ASSUME NEW bytes \in Seq(Byte)
  PROVE  /\ Unpadded(bytes) \in Seq(Byte) /\ Len(Unpadded(bytes)) <= Len(bytes)
         /\ Len(Unpadded(bytes)) # 0 => Unpadded(bytes)[1] # 0
<1>. DEFINE set == {i \in 1 .. Len(bytes) : bytes[i] # 0}
<1>1. CASE set = {}
  <2>1. Unpadded(bytes) = <<>>
    BY <1>1, UnpaddedNothing
  <2>2. <<>> \in Seq(Byte) /\ Len(<<>>) = 0 /\ 0 <= Len(bytes)
    OBVIOUS
  <2>3. QED
    BY <2>1, <2>2, Zenon
<1>2. CASE set # {}
  <2>1. set \in SUBSET Nat
    OBVIOUS
  <2>2. PICK m \in set : \A i \in set : m <= i
    BY <1>2, <2>1, LeastElement
  <2>3. m \in 1 .. Len(bytes) /\ bytes[m] # 0
    OBVIOUS
  <2>4. ASSUME NEW j \in 1 .. m - 1 PROVE bytes[j] = 0
    BY <2>2, <2>3
  <2>5. Unpadded(bytes) = SubSeq(bytes, m, Len(bytes))
    BY <2>3, <2>4, UnpaddedAt
  <2>. HIDE DEF set
  <2>6. /\ SubSeq(bytes, m, Len(bytes)) \in Seq(Byte) /\ Len(SubSeq(bytes, m, Len(bytes))) <= Len(bytes)
        /\ SubSeq(bytes, m, Len(bytes))[1] = bytes[m]
    BY <2>3
  <2>7. QED
    BY <2>3, <2>5, <2>6
<1>3. QED
  BY <1>1, <1>2

(* The bytes of a number.                                                    *)
LEMMA FromNumberType ==
  ASSUME NEW n \in Nat
  PROVE  FromNumber(n) \in Seq(Byte) /\ Len(FromNumber(n)) <= 3
<1>. DEFINE a == (n \div 65536) % 256
            b == (n \div 256) % 256
            c == n % 256
<1>1. a \in Byte /\ b \in Byte /\ c \in Byte
  BY DEF Byte
<1>. HIDE DEF a, b, c
<1>2. <<a, b, c>> \in Seq(Byte) /\ Len(<<a, b, c>>) = 3
  BY <1>1
<1>3. Unpadded(<<a, b, c>>) \in Seq(Byte) /\ Len(Unpadded(<<a, b, c>>)) <= 3
  BY <1>2, UnpaddedType
<1>4. QED
  BY <1>3 DEF FromNumber, a, b, c

(* The widths that arguments have.                                           *)
LEMMA PowersOfTwo == 2^0 = 1 /\ 2^1 = 2 /\ 2^2 = 4 /\ 2^3 = 8
  OBVIOUS

(* A head with all of its argument.                                          *)
WholeHead(h) == h \in Seq(Byte) /\ Len(h) \in Nat \ {0} /\ Info(h) <= 27 /\ Len(h) = 1 + Width(Info(h))

(* A whole head by its parts: the first byte, then as many as it announces.  *)
LEMMA HeadParts ==
  ASSUME NEW h, WholeHead(h)
  PROVE  /\ h[1] \in Byte /\ Info(h) = h[1] % 32 /\ Info(h) \in 0 .. 27
         /\ Major(h) = h[1] \div 32 /\ Major(h) \in 0 .. 7
         /\ h = <<h[1]>> \o SubSeq(h, 2, Len(h))
         /\ SubSeq(h, 2, Len(h)) \in Seq(Byte) /\ Len(SubSeq(h, 2, Len(h))) = Width(Info(h))
         /\ Info(h) < 24 => Width(Info(h)) = 0
         /\ Info(h) >= 24 => \E e \in 0 .. 3 : Info(h) = 24 + e /\ Width(Info(h)) = 2^e
         /\ Width(Info(h)) \in 0 .. 8
<1>. DEFINE b == h[1]
            i == Info(h)
            n == Len(h)
            w == Width(Info(h))
<1>1. h \in Seq(Byte) /\ n \in Nat \ {0} /\ i <= 27 /\ n = 1 + w
  BY Zenon DEF WholeHead
<1>2. b \in Byte /\ i = b % 32 /\ Major(h) = b \div 32
  BY <1>1 DEF Info, Major
<1>3. b % 32 \in 0 .. 31 /\ b \div 32 \in 0 .. 7
  BY <1>2, ByteOfHead
<1>4. i \in 0 .. 27
  <2>. DEFINE r == b % 32
  <2>1. i = r /\ r \in 0 .. 31 /\ i <= 27
    BY <1>1, <1>2, <1>3
  <2>. HIDE DEF i, r
  <2>2. QED
    BY <2>1
<1>5. i < 24 => w = 0
  BY DEF Width
<1>6. ASSUME i >= 24 PROVE \E e \in 0 .. 3 : i = 24 + e /\ w = 2^e
  <2>1. w = 2^(i - 24)
    BY <1>4, <1>6 DEF Width
  <2>2. i - 24 \in 0 .. 3 /\ i = 24 + (i - 24)
    BY <1>4, <1>6
  <2>3. QED
    BY <2>1, <2>2
<1>. HIDE DEF w, i
<1>7. w \in 0 .. 8
  <2>1. CASE i < 24
    BY <1>5, <2>1
  <2>2. CASE i >= 24
    <3>1. PICK e \in 0 .. 3 : w = 2^e
      BY <1>6, <2>2
    <3>2. e = 0 \/ e = 1 \/ e = 2 \/ e = 3
      OBVIOUS
    <3>3. w = 1 \/ w = 2 \/ w = 4 \/ w = 8
      BY <3>1, <3>2, PowersOfTwo, Zenon
    <3>4. QED
      BY <3>3
  <2>3. QED
    BY <1>4, <2>1, <2>2
<1>. DEFINE rest == SubSeq(h, 2, n)
<1>8. rest \in Seq(Byte) /\ Len(rest) = w /\ \A k \in 1 .. w : rest[k] = h[k + 1]
  BY <1>1, <1>7
<1>9. h = <<b>> \o rest
  <2>1. <<b>> \in Seq(Byte) /\ Len(<<b>>) = 1 /\ <<b>>[1] = b
    BY <1>2
  <2>. HIDE DEF rest
  <2>2. PICK all : all = <<b>> \o rest
    OBVIOUS
  <2>3. /\ all \in Seq(Byte) /\ Len(all) = n
        /\ all[1] = b /\ \A k \in 1 .. w : all[1 + k] = rest[k]
    BY <1>1, <1>7, <1>8, <2>1, <2>2
  <2>4. ASSUME NEW k \in 1 .. n PROVE h[k] = all[k]
    <3>1. CASE k = 1
      BY <2>3, <3>1
    <3>2. CASE k # 1
      <4>1. k - 1 \in 1 .. w /\ k = 1 + (k - 1) /\ k = (k - 1) + 1
        BY <1>1, <1>7, <3>2
      <4>2. all[1 + (k - 1)] = rest[k - 1] /\ rest[k - 1] = h[(k - 1) + 1]
        BY <1>8, <2>3, <4>1
      <4>3. QED
        BY <4>1, <4>2
    <3>3. QED
      BY <3>1, <3>2
  <2>5. h = all
    BY <1>1, <2>3, <2>4, SeqEqualByElements
  <2>6. QED
    BY <2>2, <2>5
<1>10. QED
  BY <1>2, <1>3, <1>4, <1>5, <1>6, <1>7, <1>8, <1>9 DEF w, i

(* What an argument is.                                                      *)
LEMMA ArgType ==
  ASSUME NEW h, WholeHead(h)
  PROVE  /\ Arg(h) \in Seq(Byte) /\ Len(Arg(h)) <= 8
         /\ Len(Arg(h)) # 0 => Arg(h)[1] # 0
         /\ Number(Arg(h)) \in 0 .. Huge
         /\ Number(Arg(h)) < Huge => FromNumber(Number(Arg(h))) = Arg(h)
<1>. DEFINE rest == SubSeq(h, 2, Len(h))
            i == Info(h)
<1>1. i \in 0 .. 27 /\ rest \in Seq(Byte) /\ Len(rest) \in 0 .. 8
  BY HeadParts
<1>5. i = h[1] % 32 /\ h[1] \in Byte
  BY HeadParts
<1>2. Arg(h) = Argument(i, rest)
  BY DEF Arg
<1>. HIDE DEF rest, i
<1>3. /\ Arg(h) \in Seq(Byte) /\ Len(Arg(h)) <= 8
      /\ Len(Arg(h)) # 0 => Arg(h)[1] # 0
  <2>1. CASE i < 24
    <3>1. Arg(h) = FromNumber(i)
      BY <1>2, <2>1 DEF Argument
    <3>0. i \in Nat
      BY <1>1
    <3>2. FromNumber(i) \in Seq(Byte) /\ Len(FromNumber(i)) <= 3
      BY <3>0, FromNumberType
    <3>3. Len(FromNumber(i)) # 0 => FromNumber(i)[1] # 0
      BY <1>5, <2>1, ShortHead
    <3>4. Len(FromNumber(i)) \in Nat
      BY <3>2
    <3>5. QED
      BY <3>1, <3>2, <3>3, <3>4
  <2>2. CASE ~ i < 24
    <3>1. Arg(h) = Unpadded(rest)
      BY <1>2, <2>2 DEF Argument
    <3>2. /\ Unpadded(rest) \in Seq(Byte) /\ Len(Unpadded(rest)) <= Len(rest)
          /\ Len(Unpadded(rest)) # 0 => Unpadded(rest)[1] # 0
      BY <1>1, UnpaddedType
    <3>3. Len(Unpadded(rest)) \in Nat
      BY <3>2
    <3>4. Len(Unpadded(rest)) <= 8
      <4>. DEFINE p == Len(Unpadded(rest))
                  q == Len(rest)
      <4>1. p \in Nat /\ p <= q /\ q \in 0 .. 8
        BY <1>1, <3>2, <3>3
      <4>. HIDE DEF p, q
      <4>2. p <= 8
        BY <4>1
      <4>3. QED
        BY <4>2 DEF p
    <3>5. QED
      BY <3>1, <3>2, <3>4, Zenon
  <2>3. QED
    BY <2>1, <2>2
<1>4. QED
  BY <1>3, NumberRoundTrip

(* A head in its shortest form is what dumps writes for its argument.        *)
LEMMA ShortestHead ==
  ASSUME NEW h, WholeHead(h), Info(h) >= 24 => ~ NotShortest(Info(h), SubSeq(h, 2, Len(h)))
  PROVE  ItemHead(Major(h), Arg(h)) = h
<1>. DEFINE rest == SubSeq(h, 2, Len(h))
            i == Info(h)
            b == h[1]
<1>1. /\ i \in 0 .. 27 /\ i = b % 32 /\ b \in Byte /\ Major(h) = b \div 32
      /\ rest \in Seq(Byte) /\ h = <<b>> \o rest
      /\ i < 24 => Len(rest) = 0
      /\ i >= 24 => \E e \in 0 .. 3 : i = 24 + e /\ Len(rest) = 2^e
  BY HeadParts
<1>2. Arg(h) = Argument(i, rest)
  BY DEF Arg
<1>3. i >= 24 => ~ NotShortest(i, rest)
  OBVIOUS
<1>. HIDE DEF rest, i, b
<1>4. CASE i < 24
  <2>1. Arg(h) = FromNumber(i)
    BY <1>2, <1>4 DEF Argument
  <2>2. ItemHead(b \div 32, FromNumber(i)) = <<b>>
    BY <1>1, <1>4, ShortHead
  <2>3. rest = <<>> /\ <<b>> \in Seq(Byte)
    BY <1>1, <1>4
  <2>4. h = <<b>>
    BY <1>1, <2>3
  <2>5. QED
    BY <1>1, <2>1, <2>2, <2>4
<1>5. CASE i >= 24
  <2>1. PICK e \in 0 .. 3 : i = 24 + e /\ Len(rest) = 2^e
    BY <1>1, <1>5
  <2>2. Arg(h) = Unpadded(rest)
    BY <1>1, <1>2, <1>5 DEF Argument
  <2>3. \E k \in 1 .. Len(rest) : rest[k] # 0 /\ (e # 0 => k <= Len(rest) \div 2) /\ (e = 0 => rest[1] >= 24)
    <3>1. CASE e = 0
      <4>1. i = 24 /\ Len(rest) = 1
        BY <2>1, <3>1, PowersOfTwo
      <4>2. rest[1] \in Byte
        BY <1>1, <4>1
      <4>3. ~ (rest[1] < 24)
        BY <1>3, <4>1 DEF NotShortest
      <4>. DEFINE r == rest[1]
      <4>. HIDE DEF r
      <4>4. r \in Byte /\ ~ (r < 24)
        BY <4>2, <4>3 DEF r
      <4>5. r # 0 /\ r >= 24
        BY <4>4 DEF Byte
      <4>6. QED
        BY <3>1, <4>1, <4>5 DEF r
    <3>2. CASE e # 0
      <4>1. i > 24
        BY <2>1, <3>2
      <4>2. PICK k \in 1 .. (Len(rest) \div 2) : rest[k] # 0
        BY <1>3, <1>5, <4>1 DEF NotShortest
      <4>3. Len(rest) \in Nat
        BY <1>1
      <4>. QED
        BY <3>2, <4>2, <4>3
    <3>3. QED
      BY <3>1, <3>2
  <2>. DEFINE set == {k \in 1 .. Len(rest) : rest[k] # 0}
  <2>4. set \in SUBSET Nat /\ set # {}
    <3>1. set \subseteq Nat
      OBVIOUS
    <3>2. set # {}
      BY <2>3
    <3>3. QED
      BY <3>1, <3>2
  <2>5. PICK m \in set : \A k \in set : m <= k
    BY <2>4, LeastElement
  <2>6. m \in 1 .. Len(rest) /\ rest[m] # 0
    OBVIOUS
  <2>7. ASSUME NEW j \in 1 .. m - 1 PROVE rest[j] = 0
    BY <1>1, <2>5, <2>6
  <2>8. /\ e # 0 => m <= Len(rest) \div 2
        /\ e = 0 => rest[1] >= 24
    BY <1>1, <2>3, <2>5
  <2>. HIDE DEF set
  <2>9. b % 32 = 24 + e
    BY <1>1, <2>1
  <2>10. ItemHead(b \div 32, Unpadded(rest)) = <<b>> \o rest
    BY <1>1, <2>1, <2>6, <2>7, <2>8, <2>9, WideHead
  <2>11. QED
    BY <1>1, <2>2, <2>10
<1>6. QED
  BY <1>1, <1>4, <1>5

----------------------------------------------------------------------------
(* Bytes still to come: what is read is what the input turns out to hold.    *)

(* The input is bytes, and the decoder stands within it.                     *)
InputInPlace == input \in Seq(Byte) /\ pos \in 0 .. Len(input) /\ source \in Sources \cup {Ended}

(* Every kind of input is made of bytes.                                     *)
LEMMA SourceBytes ==
  ASSUME InputInPlace
  PROVE  source.bytes \subseteq Byte /\ source.limit \in Nat
<1>1. Sources \subseteq [bytes : SUBSET (0 .. 255 \ {250, 251}), limit : 0 .. (Huge - 1)]
  BY CborAssumption
<1>2. CASE source \in Sources
  <2>1. source \in [bytes : SUBSET (0 .. 255 \ {250, 251}), limit : 0 .. (Huge - 1)]
    BY <1>1, <1>2
  <2>2. source.bytes \subseteq 0 .. 255 /\ source.limit \in 0 .. (Huge - 1)
    BY <2>1
  <2>3. QED
    BY <2>2, HugeIs DEF Byte
<1>3. CASE source = Ended
  BY <1>3 DEF Ended
<1>4. QED
  BY <1>2, <1>3 DEF InputInPlace

(* Bytes that are the input from here on, as far as it is held.              *)
Ahead(s) == s \in Seq(Byte) /\ \A i \in 1 .. Len(s) : pos + i <= Len(input) => s[i] = input[pos + i]

LEMMA NothingAhead == Ahead(<<>>)
  BY DEF Ahead

(* What _take may return agrees with the input and with what was read        *)
(* before.                                                                   *)
LEMMA MoreAhead ==
  ASSUME InputInPlace, NEW prefix, Ahead(prefix), NEW n \in Nat, NEW s \in More(prefix, n)
  PROVE  /\ Ahead(s) /\ Len(s) = Len(prefix) + n /\ n < Huge
         /\ \A i \in 1 .. Len(prefix) : s[i] = prefix[i]
<1>. DEFINE there == SubSeq(input, pos + 1, Len(input))
            held == IF Len(there) >= Len(prefix) THEN there ELSE prefix
            total == Len(prefix) + n
            p == Len(prefix)
            l == Len(input) - pos
<1>1. input \in Seq(Byte) /\ pos \in Nat /\ pos <= Len(input) /\ Len(input) \in Nat /\ l \in Nat
  BY DEF InputInPlace
<1>2. prefix \in Seq(Byte) /\ p \in Nat /\ \A i \in 1 .. p : pos + i <= Len(input) => prefix[i] = input[pos + i]
  BY DEF Ahead
<1>3. there \in Seq(Byte) /\ Len(there) = l /\ \A i \in 1 .. l : there[i] = input[pos + i]
  BY <1>1
<1>4. /\ ~ n >= Huge
      /\ s \in (IF total <= Len(held) THEN {SubSeq(held, 1, total)}
                ELSE IF pos + total <= source.limit
                     THEN {held \o t : t \in [1..(total - Len(held)) -> source.bytes]} ELSE {})
  BY DEF More
<1>5. total \in Nat
  BY <1>2
<1>. HIDE DEF there, p, l
<1>6. \A i \in Nat : pos + i <= Len(input) <=> i <= l
  BY <1>1 DEF l
<1>7. /\ held \in Seq(Byte) /\ Len(held) \in Nat /\ Len(held) >= p /\ Len(held) >= l
      /\ \A i \in 1 .. p : held[i] = prefix[i]
      /\ \A i \in 1 .. l : held[i] = input[pos + i]
  <2>1. CASE l >= p
    <3>1. held = there
      BY <1>3, <2>1 DEF p
    <3>2. ASSUME NEW i \in 1 .. p PROVE there[i] = prefix[i]
      <4>1. i \in 1 .. l /\ i \in Nat
        BY <1>1, <1>2, <2>1
      <4>2. pos + i <= Len(input)
        BY <1>6, <4>1
      <4>3. there[i] = input[pos + i] /\ prefix[i] = input[pos + i]
        BY <1>2, <1>3, <4>1, <4>2
      <4>4. QED
        BY <4>3
    <3>. HIDE DEF held
    <3>3. QED
      BY <1>1, <1>2, <1>3, <2>1, <3>1, <3>2
  <2>2. CASE ~ l >= p
    <3>1. held = prefix
      BY <1>3, <2>2 DEF p
    <3>2. ASSUME NEW i \in 1 .. l PROVE prefix[i] = input[pos + i]
      BY <1>1, <1>2, <1>6, <2>2
    <3>3. Len(prefix) = p
      BY DEF p
    <3>. HIDE DEF held
    <3>4. QED
      BY <1>1, <1>2, <2>2, <3>1, <3>2, <3>3
  <2>3. QED
    BY <2>1, <2>2
<1>8. total = p + n
  BY DEF p
<1>. HIDE DEF held, total
<1>9. s \in Seq(Byte) /\ Len(s) = total /\ \A i \in 1 .. total : i <= Len(held) => s[i] = held[i]
  <2>1. CASE total <= Len(held)
    <3>1. s = SubSeq(held, 1, total)
      BY <1>4, <2>1
    <3>2. QED
      BY <1>5, <1>7, <2>1, <3>1
  <2>2. CASE ~ total <= Len(held)
    <3>1. PICK t \in [1..(total - Len(held)) -> source.bytes] : s = held \o t
      BY <1>4, <2>2
    <3>2. total - Len(held) \in Nat
      BY <1>5, <1>7, <2>2
    <3>3. t \in Seq(Byte) /\ Len(t) = total - Len(held)
      BY <3>1, <3>2, SourceBytes
    <3>4. QED
      BY <1>5, <1>7, <3>1, <3>2, <3>3, ConcatReads
  <2>3. QED
    BY <2>1, <2>2
<1>10. ASSUME NEW i \in 1 .. total, i <= l PROVE s[i] = input[pos + i]
  <2>1. i \in 1 .. l /\ i <= Len(held)
    BY <1>1, <1>5, <1>7, <1>10
  <2>2. s[i] = held[i] /\ held[i] = input[pos + i]
    BY <1>7, <1>9, <2>1
  <2>3. QED
    BY <2>2
<1>11. \A i \in 1 .. p : s[i] = prefix[i]
  BY <1>2, <1>5, <1>7, <1>8, <1>9
<1>12. n < Huge
  BY <1>4, HugeIs
<1>13. Ahead(s)
  BY <1>5, <1>6, <1>9, <1>10 DEF Ahead
<1>14. QED
  BY <1>8, <1>9, <1>11, <1>12, <1>13 DEF p

(* Consuming bytes ahead leaves them in the input just before pos, and no    *)
(* byte before them changes.                                                 *)
LEMMA ConsumeReads ==
  ASSUME InputInPlace, NEW s, Ahead(s), Consume(s)
  PROVE  /\ input' \in Seq(Byte) /\ pos' \in 0 .. Len(input') /\ pos' = pos + Len(s)
         /\ SubSeq(input', pos + 1, pos') = s
         /\ \A k \in 1 .. pos : input'[k] = input[k]
<1>1. input \in Seq(Byte) /\ pos \in Nat /\ pos <= Len(input) /\ Len(input) \in Nat
  BY DEF InputInPlace
<1>2. /\ s \in Seq(Byte) /\ Len(s) \in Nat
      /\ \A i \in 1 .. Len(s) : pos + i <= Len(input) => s[i] = input[pos + i]
  BY DEF Ahead
<1>3. pos' = pos + Len(s)
  BY DEF Consume
<1>. DEFINE m == Len(s)
            now == input'
<1>4. now = IF pos + m > Len(input) THEN SubSeq(input, 1, pos) \o s ELSE input
  BY DEF Consume, Truncated
<1>. HIDE DEF m, now
<1>5. m \in Nat /\ Len(s) = m
  BY <1>2 DEF m
<1>6. /\ now \in Seq(Byte) /\ Len(now) \in Nat /\ pos + m <= Len(now)
      /\ \A k \in 1 .. pos : now[k] = input[k]
      /\ \A i \in 1 .. m : now[pos + i] = s[i]
  <2>1. CASE pos + m > Len(input)
    <3>. DEFINE b == SubSeq(input, 1, pos)
    <3>1. b \in Seq(Byte) /\ Len(b) = pos /\ \A k \in 1 .. pos : b[k] = input[k]
      BY <1>1
    <3>2. now = b \o s
      BY <1>4, <2>1
    <3>. HIDE DEF b
    <3>3. QED
      BY <1>1, <1>2, <1>5, <3>1, <3>2, ConcatElements
  <2>2. CASE ~ pos + m > Len(input)
    <3>1. now = input
      BY <1>4, <2>2
    <3>2. ASSUME NEW i \in 1 .. m PROVE input[pos + i] = s[i]
      BY <1>1, <1>2, <1>5, <2>2
    <3>3. QED
      BY <1>1, <1>5, <2>2, <3>1, <3>2
  <2>3. QED
    BY <2>1, <2>2
<1>7. SubSeq(now, pos + 1, pos + m) = s
  <2>1. /\ SubSeq(now, pos + 1, pos + m) \in Seq(Byte) /\ Len(SubSeq(now, pos + 1, pos + m)) = m
        /\ \A i \in 1 .. m : SubSeq(now, pos + 1, pos + m)[i] = now[pos + i]
    BY <1>1, <1>5, <1>6, SliceElements
  <2>. DEFINE slice == SubSeq(now, pos + 1, pos + m)
  <2>2. slice \in Seq(Byte) /\ Len(slice) = Len(s) /\ \A i \in 1 .. Len(slice) : slice[i] = s[i]
    BY <1>5, <1>6, <2>1
  <2>. HIDE DEF slice
  <2>3. slice = s
    BY <1>2, <2>2, SeqEqualByElements
  <2>4. QED
    BY <2>3 DEF slice
<1>8. pos + m \in 0 .. Len(now)
  BY <1>1, <1>5, <1>6
<1>9. QED
  BY <1>3, <1>6, <1>7, <1>8 DEF now, m

----------------------------------------------------------------------------
(* Lists of anything, the order of keys, and the pairs of a map in that      *)
(* order.                                                                    *)

(* A list of anything.                                                       *)
IsList(s) == s \in Seq({s[i] : i \in DOMAIN s})

(* Every sequence is a list.                                                 *)
LEMMA SequenceIsList ==
  ASSUME NEW S, NEW s \in Seq(S)
  PROVE  IsList(s) /\ Len(s) \in Nat /\ DOMAIN s = 1 .. Len(s)
<1>. DEFINE R == {s[i] : i \in DOMAIN s}
<1>1. DOMAIN s = 1 .. Len(s) /\ Len(s) \in Nat /\ s = [i \in 1 .. Len(s) |-> s[i]]
  OBVIOUS
<1>2. \A i \in 1 .. Len(s) : s[i] \in R
  BY <1>1
<1>. HIDE DEF R
<1>3. s \in [1 .. Len(s) -> R]
  BY <1>1, <1>2
<1>4. s \in Seq(R)
  BY <1>1, <1>3, SeqDef
<1>5. QED
  BY <1>1, <1>4 DEF IsList, R

LEMMA ListReads ==
  ASSUME NEW s, IsList(s)
  PROVE  Len(s) \in Nat /\ DOMAIN s = 1 .. Len(s) /\ (s = <<>> <=> Len(s) = 0)
<1>. DEFINE R == {s[i] : i \in DOMAIN s}
<1>1. s \in Seq(R)
  BY DEF IsList
<1>. HIDE DEF R
<1>2. QED
  BY <1>1

(* A list with one more element, of any kind.                                *)
LEMMA ListAppend ==
  ASSUME NEW s, IsList(s), NEW x
  PROVE  /\ IsList(Append(s, x)) /\ Len(Append(s, x)) = Len(s) + 1
         /\ Append(s, x)[Len(s) + 1] = x /\ \A i \in 1 .. Len(s) : Append(s, x)[i] = s[i]
         /\ SubSeq(Append(s, x), 1, Len(s)) = s
<1>. DEFINE R == {s[i] : i \in DOMAIN s} \cup {x}
<1>1. s \in Seq({s[i] : i \in DOMAIN s})
  BY DEF IsList
<1>2. s \in Seq(R) /\ x \in R
  BY <1>1
<1>. HIDE DEF R
<1>3. /\ Append(s, x) \in Seq(R) /\ Len(Append(s, x)) = Len(s) + 1
      /\ Append(s, x)[Len(s) + 1] = x /\ \A i \in 1 .. Len(s) : Append(s, x)[i] = s[i]
      /\ SubSeq(Append(s, x), 1, Len(s)) = s
  BY <1>2
<1>4. QED
  BY <1>3, SequenceIsList, Zenon

(* A prefix of a list.                                                       *)
LEMMA ListFront ==
  ASSUME NEW s, IsList(s), NEW n \in 0 .. Len(s)
  PROVE  /\ IsList(SubSeq(s, 1, n)) /\ Len(SubSeq(s, 1, n)) = n
         /\ \A i \in 1 .. n : SubSeq(s, 1, n)[i] = s[i]
<1>. DEFINE R == {s[i] : i \in DOMAIN s}
<1>1. s \in Seq(R)
  BY DEF IsList
<1>. HIDE DEF R
<1>2. /\ SubSeq(s, 1, n) \in Seq(R) /\ Len(SubSeq(s, 1, n)) = n
      /\ \A i \in 1 .. n : SubSeq(s, 1, n)[i] = s[i]
  BY <1>1
<1>3. QED
  BY <1>2, SequenceIsList, Zenon

(* The order of keys, by the first place where they differ.                  *)
LEMMA BelowReads ==
  ASSUME NEW a \in Seq(Byte), NEW b \in Seq(Byte)
  PROVE  Below(a, b)
           <=> \E k \in Nat : /\ k <= Len(a) /\ k < Len(b) /\ \A j \in 1 .. k : a[j] = b[j]
                              /\ k < Len(a) => a[k + 1] < b[k + 1]
<1>1. ASSUME NEW k \in 0 .. Len(a), k <= Len(b)
      PROVE  SubSeq(a, 1, k) = SubSeq(b, 1, k) <=> \A j \in 1 .. k : a[j] = b[j]
  <2>. DEFINE p == SubSeq(a, 1, k)
              q == SubSeq(b, 1, k)
  <2>1. /\ p \in Seq(Byte) /\ Len(p) = k /\ \A j \in 1 .. k : p[j] = a[j]
        /\ q \in Seq(Byte) /\ Len(q) = k /\ \A j \in 1 .. k : q[j] = b[j]
    BY <1>1
  <2>. HIDE DEF p, q
  <2>2. p = q <=> \A j \in 1 .. k : p[j] = q[j]
    BY <2>1, SeqEqualByElements
  <2>3. p = q <=> \A j \in 1 .. k : a[j] = b[j]
    BY <2>1, <2>2
  <2>4. QED
    BY <2>3 DEF p, q
<1>2. Len(a) \in Nat /\ Len(b) \in Nat
  OBVIOUS
<1>3. ASSUME Below(a, b)
      PROVE  \E k \in Nat : /\ k <= Len(a) /\ k < Len(b) /\ \A j \in 1 .. k : a[j] = b[j]
                            /\ k < Len(a) => a[k + 1] < b[k + 1]
  <2>1. PICK k \in 0 .. Len(a) :
          /\ k <= Len(b) /\ SubSeq(a, 1, k) = SubSeq(b, 1, k)
          /\ IF k < Len(a) THEN k < Len(b) /\ a[k + 1] < b[k + 1] ELSE k < Len(b)
    BY <1>3 DEF Below
  <2>2. \A j \in 1 .. k : a[j] = b[j]
    BY <1>1, <2>1
  <2>3. k \in Nat /\ k <= Len(a) /\ k < Len(b) /\ (k < Len(a) => a[k + 1] < b[k + 1])
    BY <1>2, <2>1
  <2>4. QED
    BY <2>2, <2>3
<1>4. ASSUME NEW k \in Nat, k <= Len(a), k < Len(b), \A j \in 1 .. k : a[j] = b[j],
             k < Len(a) => a[k + 1] < b[k + 1]
      PROVE  Below(a, b)
  <2>1. k \in 0 .. Len(a) /\ k <= Len(b)
    BY <1>2, <1>4
  <2>2. SubSeq(a, 1, k) = SubSeq(b, 1, k)
    BY <1>1, <1>4, <2>1
  <2>3. IF k < Len(a) THEN k < Len(b) /\ a[k + 1] < b[k + 1] ELSE k < Len(b)
    BY <1>4
  <2>4. QED
    BY <2>1, <2>2, <2>3, Zenon DEF Below
<1>5. QED
  BY <1>3, <1>4

(* So keys that rise one by one are in order.                                *)
LEMMA BelowTransitive ==
  ASSUME NEW a \in Seq(Byte), NEW b \in Seq(Byte), NEW c \in Seq(Byte), Below(a, b), Below(b, c)
  PROVE  Below(a, c)
<1>1. PICK k \in Nat : /\ k <= Len(a) /\ k < Len(b) /\ \A j \in 1 .. k : a[j] = b[j]
                       /\ k < Len(a) => a[k + 1] < b[k + 1]
  BY BelowReads
<1>2. PICK m \in Nat : /\ m <= Len(b) /\ m < Len(c) /\ \A j \in 1 .. m : b[j] = c[j]
                       /\ m < Len(b) => b[m + 1] < c[m + 1]
  BY BelowReads
<1>3. Len(a) \in Nat /\ Len(b) \in Nat /\ Len(c) \in Nat
  OBVIOUS
<1>4. ASSUME NEW s \in Seq(Byte), NEW j \in 1 .. Len(s) PROVE s[j] \in Nat
  <2>1. Byte \subseteq Nat
    BY DEF Byte
  <2>2. s[j] \in Byte
    OBVIOUS
  <2>3. QED
    BY <2>1, <2>2, Zenon
<1>5. \E n \in Nat : /\ n <= Len(a) /\ n < Len(c) /\ \A j \in 1 .. n : a[j] = c[j]
                     /\ n < Len(a) => a[n + 1] < c[n + 1]
  <2>1. CASE k < m
    <3>1. k <= Len(a) /\ k < Len(c) /\ \A j \in 1 .. k : a[j] = c[j]
      BY <1>1, <1>2, <1>3, <2>1
    <3>2. b[k + 1] = c[k + 1]
      BY <1>2, <2>1
    <3>3. QED
      BY <1>1, <3>1, <3>2
  <2>2. CASE m < k
    <3>1. m <= Len(a) /\ m < Len(c) /\ \A j \in 1 .. m : a[j] = c[j]
      BY <1>1, <1>2, <1>3, <2>2
    <3>2. a[m + 1] = b[m + 1] /\ m < Len(b)
      BY <1>1, <1>3, <2>2
    <3>3. QED
      BY <1>2, <3>1, <3>2
  <2>3. CASE m = k
    <3>1. k <= Len(a) /\ k < Len(c) /\ \A j \in 1 .. k : a[j] = c[j]
      BY <1>1, <1>2, <1>3, <2>3
    <3>2. ASSUME k < Len(a) PROVE a[k + 1] < c[k + 1]
      <4>1. a[k + 1] < b[k + 1] /\ b[k + 1] < c[k + 1]
        BY <1>1, <1>2, <2>3, <3>2
      <4>2. k + 1 \in 1 .. Len(a) /\ k + 1 \in 1 .. Len(b) /\ k + 1 \in 1 .. Len(c)
        BY <1>1, <1>2, <1>3, <2>3, <3>2
      <4>. DEFINE x == a[k + 1]
                  y == b[k + 1]
                  z == c[k + 1]
      <4>3. x \in Nat /\ y \in Nat /\ z \in Nat
        BY <1>4, <4>2
      <4>4. x < y /\ y < z
        BY <4>1
      <4>. HIDE DEF x, y, z
      <4>5. x < z
        BY <4>3, <4>4
      <4>6. QED
        BY <4>5 DEF x, z
    <3>3. QED
      BY <3>1, <3>2
  <2>4. QED
    BY <2>1, <2>2, <2>3
<1>6. QED
  BY <1>5, BelowReads

(* A pair of a map, as it will be written.                                   *)
Pair == [keyBytes : Seq(Byte), valueBytes : Seq(Byte)]

(* A pair whose key is above all the others goes last.                       *)
LEMMA InsertPairType ==
  ASSUME NEW pairs \in Seq(Pair), NEW p \in Pair
  PROVE  /\ InsertPair(pairs, p) \in Seq(Pair)
         /\ (\A i \in 1 .. Len(pairs) : Below(pairs[i].keyBytes, p.keyBytes))
              => InsertPair(pairs, p) = Append(pairs, p)
<1>. DEFINE smaller == {i \in DOMAIN pairs : Below(pairs[i].keyBytes, p.keyBytes)}
            n == Len(pairs)
<1>1. n \in Nat /\ DOMAIN pairs = 1 .. n
  OBVIOUS
<1>2. IsFiniteSet(1 .. n) /\ Cardinality(1 .. n) = n
  <2>1. 1 \in Int /\ n \in Int
    BY <1>1
  <2>2. QED
    BY <1>1, <2>1, FS_Interval
<1>3. smaller \subseteq 1 .. n
  BY <1>1
<1>. HIDE DEF smaller
<1>4. Cardinality(smaller) \in Nat /\ Cardinality(smaller) <= n
  BY <1>2, <1>3, FS_Subset, FS_CardinalityType
<1>5. InsertPair(pairs, p) = InsertAt(pairs, Cardinality(smaller) + 1, p)
  BY DEF InsertPair, smaller
<1>. DEFINE c == Cardinality(smaller)
<1>6. InsertAt(pairs, c + 1, p) = SubSeq(pairs, 1, (c + 1) - 1) \o <<p>> \o SubSeq(pairs, c + 1, n)
  BY DEF InsertAt
<1>7. c \in 0 .. n
  BY <1>1, <1>4
<1>. HIDE DEF c
<1>8. /\ SubSeq(pairs, 1, (c + 1) - 1) \in Seq(Pair) /\ <<p>> \in Seq(Pair)
      /\ SubSeq(pairs, c + 1, n) \in Seq(Pair)
  BY <1>1, <1>7
<1>9. SubSeq(pairs, 1, (c + 1) - 1) \o <<p>> \o SubSeq(pairs, c + 1, n) \in Seq(Pair)
  BY <1>8
<1>10. ASSUME \A i \in 1 .. n : Below(pairs[i].keyBytes, p.keyBytes)
       PROVE  InsertPair(pairs, p) = Append(pairs, p)
  <2>1. smaller = 1 .. n
    BY <1>1, <1>10 DEF smaller
  <2>2. c = n
    BY <1>2, <2>1 DEF c
  <2>3. (c + 1) - 1 = n
    BY <1>1, <2>2
  <2>4. SubSeq(pairs, 1, (c + 1) - 1) = pairs /\ SubSeq(pairs, c + 1, n) = <<>>
    BY <1>1, <2>2, <2>3
  <2>5. pairs \o <<p>> = Append(pairs, p) /\ Append(pairs, p) \in Seq(Pair)
    OBVIOUS
  <2>6. Append(pairs, p) \o <<>> = Append(pairs, p)
    BY <2>5
  <2>7. QED
    BY <1>5, <1>6, <2>4, <2>5, <2>6 DEF c
<1>11. QED
  BY <1>5, <1>6, <1>9, <1>10 DEF c

(* The bytes of a map grow with its last pair.                               *)
LEMMA MapBodyOf ==
  ASSUME NEW pairs \in Seq(Pair)
  PROVE  /\ MapBody(pairs) \in Seq(Byte)
         /\ \A p \in Pair : MapBody(Append(pairs, p)) = MapBody(pairs) \o (p.keyBytes \o p.valueBytes)
<1>. DEFINE pieces(x) == [i \in DOMAIN x |-> x[i].keyBytes \o x[i].valueBytes]
<1>1. ASSUME NEW x \in Seq(Pair) PROVE pieces(x) \in Seq(Seq(Byte)) /\ Len(pieces(x)) = Len(x)
  <2>1. DOMAIN x = 1 .. Len(x) /\ Len(x) \in Nat /\ \A i \in 1 .. Len(x) : x[i] \in Pair
    OBVIOUS
  <2>2. \A i \in 1 .. Len(x) : x[i].keyBytes \o x[i].valueBytes \in Seq(Byte)
    BY <2>1 DEF Pair
  <2>3. pieces(x) \in [1 .. Len(x) -> Seq(Byte)]
    BY <2>1, <2>2
  <2>. HIDE DEF pieces
  <2>4. QED
    BY <2>1, <2>3
<1>2. MapBody(pairs) \in Seq(Byte)
  BY <1>1, FlattenType DEF MapBody
<1>3. ASSUME NEW p \in Pair
      PROVE  MapBody(Append(pairs, p)) = MapBody(pairs) \o (p.keyBytes \o p.valueBytes)
  <2>. DEFINE more == Append(pairs, p)
              kv == p.keyBytes \o p.valueBytes
  <2>1. /\ more \in Seq(Pair) /\ Len(more) = Len(pairs) + 1 /\ more[Len(pairs) + 1] = p
        /\ \A i \in 1 .. Len(pairs) : more[i] = pairs[i]
        /\ Len(pairs) \in Nat
    OBVIOUS
  <2>2. kv \in Seq(Byte)
    BY DEF Pair
  <2>3. /\ \A i \in 1 .. Len(more) : pieces(more)[i] = more[i].keyBytes \o more[i].valueBytes
        /\ \A i \in 1 .. Len(pairs) : pieces(pairs)[i] = pairs[i].keyBytes \o pairs[i].valueBytes
    <3>1. DOMAIN more = 1 .. Len(more) /\ DOMAIN pairs = 1 .. Len(pairs)
      BY <2>1
    <3>. HIDE DEF more
    <3>2. QED
      BY <3>1
  <2>4. /\ pieces(more) \in Seq(Seq(Byte)) /\ Len(pieces(more)) = Len(more)
        /\ pieces(pairs) \in Seq(Seq(Byte)) /\ Len(pieces(pairs)) = Len(pairs)
    BY <1>1, <2>1
  <2>5. FlattenSeq(pieces(pairs)) = MapBody(pairs) /\ FlattenSeq(pieces(more)) = MapBody(more)
    BY DEF MapBody
  <2>6. more[Len(more)].keyBytes \o more[Len(more)].valueBytes = kv
    BY <2>1
  <2>. HIDE DEF pieces, kv, more
  <2>. DEFINE a == Append(pieces(pairs), kv)
              b == pieces(more)
  <2>7. /\ a \in Seq(Seq(Byte)) /\ Len(a) = Len(pairs) + 1 /\ a[Len(pairs) + 1] = kv
        /\ \A i \in 1 .. Len(pairs) : a[i] = pieces(pairs)[i]
    BY <2>2, <2>4
  <2>8. ASSUME NEW i \in 1 .. Len(more) PROVE b[i] = a[i]
    <3>1. CASE i = Len(more)
      BY <2>1, <2>3, <2>6, <2>7, <3>1
    <3>2. CASE i # Len(more)
      <4>1. i \in 1 .. Len(pairs)
        BY <2>1, <3>2
      <4>2. QED
        BY <2>1, <2>3, <2>7, <4>1
    <3>3. QED
      BY <3>1, <3>2
  <2>9. b = a
    <3>. HIDE DEF a, b
    <3>1. b \in Seq(Seq(Byte)) /\ Len(b) = Len(a)
      BY <2>1, <2>4, <2>7 DEF b
    <3>2. QED
      BY <2>1, <2>7, <2>8, <3>1, SeqEqualByElements
  <2>10. FlattenSeq(a) = FlattenSeq(pieces(pairs)) \o kv
    BY <2>2, <2>4, FlattenAppend
  <2>11. QED
    BY <2>5, <2>9, <2>10 DEF more, kv
<1>4. QED
  BY <1>2, <1>3

----------------------------------------------------------------------------
(* Frames: their types, and what one item changes in them.                   *)

(* The fields of a frame, and what they hold.                                *)
FrameFields == {"kind", "left", "tag", "ids", "body", "key", "start", "previous", "pairs"}

IsFrame(f) ==
  /\ DOMAIN f = FrameFields
  /\ f.kind \in {"array", "map", "tag", "bytes", "text"} /\ f.left \in -1 .. Huge
  /\ f.tag \in Seq(Byte) /\ Len(f.tag) <= 8 /\ f.start \in Nat /\ f.body \subseteq Seq(Byte)
  /\ f.previous \subseteq Seq(Byte) /\ f.pairs \in Seq(Pair)
  /\ \A k \in f.key : k.canon \subseteq Seq(Byte)
  /\ IsList(f.ids)
  /\ f.kind \in {"bytes", "text"} => f.ids \in Seq(Seq(Byte))

(* Counts go down to zero, and the one too large to count stays.             *)
LEMMA FewerIs ==
  ASSUME NEW left \in -1 .. Huge
  PROVE  /\ Fewer(left) \in -1 .. Huge
         /\ left < Huge /\ left >= 1 => Fewer(left) = left - 1 /\ Fewer(left) < Huge
         /\ left = Huge => Fewer(left) = Huge
         /\ left >= 0 => Fewer(left) >= 0
  BY HugeIs DEF Fewer

(* One of the first, then one of the second.                                 *)
JoinsSome(x, A, B) == \E a \in A : \E b \in B : x = a \o b

LEMMA JoinedReads ==
  ASSUME NEW A, NEW B, NEW x, x \in Joined(A, B)
  PROVE  JoinsSome(x, A, B)
  BY DEF Joined, JoinsSome

(* Bytes joined to bytes.                                                    *)
LEMMA JoinedType ==
  ASSUME NEW A, A \subseteq Seq(Byte), NEW B, B \subseteq Seq(Byte)
  PROVE  Joined(A, B) \subseteq Seq(Byte)
<1>1. ASSUME NEW a \in A, NEW b \in B PROVE a \o b \in Seq(Byte)
  <2>1. a \in Seq(Byte) /\ b \in Seq(Byte)
    OBVIOUS
  <2>2. QED
    BY <2>1
<1>2. ASSUME NEW x \in Joined(A, B) PROVE x \in Seq(Byte)
  <2>1. PICK a \in A, b \in B : x = a \o b
    BY JoinedReads DEF JoinsSome
  <2>2. QED
    BY <1>1, <2>1
<1>3. QED
  BY <1>2

(* The innermost frame after an item, a key or a value that ends at e; a new *)
(* one.                                                                      *)
ItemFrame(f, v, e) == [WithItem(f, v) EXCEPT !.start = e]
KeyFrame(f, v, raw, e) == [WithKey(f, v, raw) EXCEPT !.start = e]
ValueFrame(f, v, e) == [WithValue(f, v) EXCEPT !.start = e]
NewFrame(kind, left, tag, e) == [Frame(kind, left, tag) EXCEPT !.start = e]

IsItemFrame(g, f, v, e) ==
  /\ DOMAIN g = FrameFields /\ g.kind = f.kind /\ g.left = Fewer(f.left) /\ g.tag = f.tag
  /\ g.ids = Append(f.ids, v.id) /\ g.body = Joined(f.body, v.canon) /\ g.key = f.key
  /\ g.start = e /\ g.previous = f.previous /\ g.pairs = f.pairs

(* What an item changes in an array or a tag.                                *)
LEMMA ItemFrameIs ==
  ASSUME NEW f, DOMAIN f = FrameFields, NEW v, NEW e
  PROVE  IsItemFrame(ItemFrame(f, v, e), f, v, e)
  BY DEF IsItemFrame, ItemFrame, WithItem, FrameFields

(* What a frame keeps of a key.                                              *)
KeyOf(v) == [id |-> v.id, canon |-> IF Native(v.id) THEN v.canon ELSE {}]

IsKeyFrame(g, f, v, raw, e) ==
  /\ DOMAIN g = FrameFields /\ g.kind = f.kind /\ g.left = f.left /\ g.tag = f.tag
  /\ g.ids = f.ids /\ g.body = f.body /\ g.key = {KeyOf(v)}
  /\ g.start = e /\ g.previous = {raw} /\ g.pairs = f.pairs

(* What a key changes in a map.                                              *)
LEMMA KeyFrameIs ==
  ASSUME NEW f, DOMAIN f = FrameFields, NEW v, NEW raw, NEW e
  PROVE  IsKeyFrame(KeyFrame(f, v, raw, e), f, v, raw, e)
<1>1. WithKey(f, v, raw) = [f EXCEPT !.key = {KeyOf(v)}, !.previous = {raw}]
  BY DEF WithKey, KeyOf
<1>2. QED
  BY <1>1 DEF IsKeyFrame, KeyFrame, FrameFields

(* The pair of the key that waits and the value v, unless dumps writes       *)
(* neither.                                                                  *)
ThePair(k, v) ==
  [keyBytes |-> CHOOSE b \in k.canon : TRUE, valueBytes |-> CHOOSE b \in v.canon : TRUE]

TheKey(f) == CHOOSE k \in f.key : TRUE
Unwritable(f, v) == TheKey(f).canon = {} \/ v.canon = {}

IsValueFrame(g, f, v, e) ==
  /\ DOMAIN g = FrameFields /\ g.kind = f.kind /\ g.left = Fewer(f.left) /\ g.tag = f.tag
  /\ g.ids = Append(f.ids, <<TheKey(f).id, v.id>>) /\ g.key = {}
  /\ g.start = e /\ g.previous = f.previous
  /\ g.body = (IF Unwritable(f, v) THEN {} ELSE f.body)
  /\ g.pairs = (IF Unwritable(f, v) THEN f.pairs ELSE InsertPair(f.pairs, ThePair(TheKey(f), v)))

(* What a value changes in a map.                                            *)
LEMMA ValueFrameIs ==
  ASSUME NEW f, DOMAIN f = FrameFields, NEW v, NEW e
  PROVE  IsValueFrame(ValueFrame(f, v, e), f, v, e)
<1>1. WithValue(f, v) =
        [f EXCEPT !.key = {}, !.ids = Append(@, <<TheKey(f).id, v.id>>), !.left = Fewer(@),
           !.body = IF Unwritable(f, v) THEN {} ELSE @,
           !.pairs = IF Unwritable(f, v) THEN @ ELSE InsertPair(@, ThePair(TheKey(f), v))]
  BY DEF WithValue, TheKey, Unwritable, ThePair
<1>2. QED
  BY <1>1 DEF IsValueFrame, ValueFrame, FrameFields

(* Frames stay frames.                                                       *)
LEMMA WithItemType ==
  ASSUME NEW f, IsFrame(f), f.kind \notin {"bytes", "text"}, NEW v, v.canon \subseteq Seq(Byte), NEW e \in Nat
  PROVE  IsFrame(ItemFrame(f, v, e))
<1>. DEFINE g == ItemFrame(f, v, e)
<1>1. /\ DOMAIN g = FrameFields /\ g.kind = f.kind /\ g.left = Fewer(f.left) /\ g.tag = f.tag
      /\ g.ids = Append(f.ids, v.id) /\ g.body = Joined(f.body, v.canon) /\ g.key = f.key
      /\ g.start = e /\ g.previous = f.previous /\ g.pairs = f.pairs
  <2>1. DOMAIN f = FrameFields
    BY DEF IsFrame
  <2>2. IsItemFrame(g, f, v, e)
    BY <2>1, ItemFrameIs, Zenon
  <2>. HIDE DEF g
  <2>3. QED
    BY <2>2 DEF IsItemFrame
<1>. HIDE DEF g
<1>2. /\ f.kind \in {"array", "map", "tag", "bytes", "text"} /\ f.left \in -1 .. Huge
      /\ f.tag \in Seq(Byte) /\ Len(f.tag) <= 8 /\ f.body \subseteq Seq(Byte)
      /\ f.previous \subseteq Seq(Byte) /\ f.pairs \in Seq(Pair)
      /\ \A k \in f.key : k.canon \subseteq Seq(Byte)
      /\ IsList(f.ids)
  BY DEF IsFrame
<1>3. Fewer(f.left) \in -1 .. Huge
  BY <1>2, FewerIs
<1>4. Joined(f.body, v.canon) \subseteq Seq(Byte)
  BY <1>2, JoinedType
<1>5. IsList(Append(f.ids, v.id))
  BY <1>2, ListAppend
<1>6. IsFrame(g)
  BY <1>1, <1>2, <1>3, <1>4, <1>5, Zenon DEF IsFrame
<1>7. QED
  BY <1>6 DEF g

LEMMA WithKeyType ==
  ASSUME NEW f, IsFrame(f), NEW v, v.canon \subseteq Seq(Byte), NEW raw \in Seq(Byte), NEW e \in Nat
  PROVE  IsFrame(KeyFrame(f, v, raw, e))
<1>. DEFINE g == KeyFrame(f, v, raw, e)
<1>1. /\ DOMAIN g = FrameFields /\ g.kind = f.kind /\ g.left = f.left /\ g.tag = f.tag
      /\ g.ids = f.ids /\ g.body = f.body /\ g.key = {KeyOf(v)}
      /\ g.start = e /\ g.previous = {raw} /\ g.pairs = f.pairs
  <2>1. DOMAIN f = FrameFields
    BY DEF IsFrame
  <2>2. IsKeyFrame(g, f, v, raw, e)
    BY <2>1, KeyFrameIs, Zenon
  <2>. HIDE DEF g
  <2>3. QED
    BY <2>2 DEF IsKeyFrame
<1>. HIDE DEF g
<1>2. /\ f.kind \in {"array", "map", "tag", "bytes", "text"} /\ f.left \in -1 .. Huge
      /\ f.tag \in Seq(Byte) /\ Len(f.tag) <= 8 /\ f.body \subseteq Seq(Byte)
      /\ f.pairs \in Seq(Pair)
      /\ IsList(f.ids) /\ (f.kind \in {"bytes", "text"} => f.ids \in Seq(Seq(Byte)))
  BY DEF IsFrame
<1>3. KeyOf(v).canon \subseteq Seq(Byte)
  BY DEF KeyOf
<1>4. IsFrame(g)
  BY <1>1, <1>2, <1>3, Zenon DEF IsFrame
<1>5. QED
  BY <1>4 DEF g

LEMMA TheKeyIs == \A f : f.key # {} => TheKey(f) \in f.key
  BY DEF TheKey

LEMMA ThePairType ==
  ASSUME NEW f, IsFrame(f), f.key # {}, NEW v, v.canon \subseteq Seq(Byte), ~ Unwritable(f, v)
  PROVE  /\ ThePair(TheKey(f), v) \in Pair
         /\ ThePair(TheKey(f), v).keyBytes \in TheKey(f).canon
         /\ ThePair(TheKey(f), v).valueBytes \in v.canon
<1>1. TheKey(f) \in f.key
  BY TheKeyIs
<1>2. TheKey(f).canon \subseteq Seq(Byte)
  BY <1>1 DEF IsFrame
<1>3. TheKey(f).canon # {} /\ v.canon # {}
  BY DEF Unwritable
<1>. DEFINE a == CHOOSE b \in TheKey(f).canon : TRUE
            c == CHOOSE b \in v.canon : TRUE
<1>4. a \in TheKey(f).canon /\ c \in v.canon
  BY <1>3
<1>. HIDE DEF a, c
<1>5. ThePair(TheKey(f), v) = [keyBytes |-> a, valueBytes |-> c]
  BY DEF ThePair, a, c
<1>6. QED
  BY <1>2, <1>4, <1>5 DEF Pair

LEMMA WithValueType ==
  ASSUME NEW f, IsFrame(f), f.kind \notin {"bytes", "text"}, f.key # {},
         NEW v, v.canon \subseteq Seq(Byte), NEW e \in Nat
  PROVE  IsFrame(ValueFrame(f, v, e))
<1>. DEFINE g == ValueFrame(f, v, e)
            x == <<TheKey(f).id, v.id>>
<1>1. /\ DOMAIN g = FrameFields /\ g.kind = f.kind /\ g.left = Fewer(f.left) /\ g.tag = f.tag
      /\ g.ids = Append(f.ids, x) /\ g.key = {}
      /\ g.start = e /\ g.previous = f.previous
      /\ g.body = (IF Unwritable(f, v) THEN {} ELSE f.body)
      /\ g.pairs = (IF Unwritable(f, v) THEN f.pairs
                    ELSE InsertPair(f.pairs, ThePair(TheKey(f), v)))
  <2>1. DOMAIN f = FrameFields
    BY DEF IsFrame
  <2>2. IsValueFrame(g, f, v, e)
    BY <2>1, ValueFrameIs, Zenon
  <2>. HIDE DEF g
  <2>3. QED
    BY <2>2 DEF IsValueFrame, x
<1>. HIDE DEF g, x
<1>2. /\ f.kind \in {"array", "map", "tag", "bytes", "text"} /\ f.left \in -1 .. Huge
      /\ f.tag \in Seq(Byte) /\ Len(f.tag) <= 8 /\ f.body \subseteq Seq(Byte)
      /\ f.previous \subseteq Seq(Byte) /\ f.pairs \in Seq(Pair)
      /\ IsList(f.ids)
  BY DEF IsFrame
<1>3. Fewer(f.left) \in -1 .. Huge
  BY <1>2, FewerIs
<1>4. g.pairs \in Seq(Pair)
  <2>1. CASE Unwritable(f, v)
    BY <1>1, <1>2, <2>1
  <2>2. CASE ~ Unwritable(f, v)
    <3>1. ThePair(TheKey(f), v) \in Pair
      BY <2>2, ThePairType
    <3>2. InsertPair(f.pairs, ThePair(TheKey(f), v)) \in Seq(Pair)
      BY <1>2, <3>1, InsertPairType
    <3>3. QED
      BY <1>1, <2>2, <3>2
  <2>3. QED
    BY <2>1, <2>2
<1>5. g.body \subseteq Seq(Byte)
  BY <1>1, <1>2
<1>6. IsList(Append(f.ids, x))
  BY <1>2, ListAppend
<1>7. IsFrame(g)
  BY <1>1, <1>2, <1>3, <1>4, <1>5, <1>6, Zenon DEF IsFrame
<1>8. QED
  BY <1>7 DEF g

IsNewFrame(g, kind, left, tag, e) ==
  /\ DOMAIN g = FrameFields /\ g.kind = kind /\ g.left = left /\ g.tag = tag /\ g.ids = <<>>
  /\ g.body = {<<>>} /\ g.key = {} /\ g.start = e /\ g.previous = {} /\ g.pairs = <<>>

(* A frame without items.                                                    *)
LEMMA NewFrameIs ==
  ASSUME NEW kind, NEW left, NEW tag, NEW e
  PROVE  IsNewFrame(NewFrame(kind, left, tag, e), kind, left, tag, e)
  BY DEF IsNewFrame, NewFrame, Frame, FrameFields

LEMMA NewFrameType ==
  ASSUME NEW kind \in {"array", "map", "tag", "bytes", "text"}, NEW left \in -1 .. Huge,
         NEW tag \in Seq(Byte), Len(tag) <= 8, NEW e \in Nat
  PROVE  IsFrame(NewFrame(kind, left, tag, e))
<1>. DEFINE g == NewFrame(kind, left, tag, e)
<1>1. IsNewFrame(g, kind, left, tag, e)
  BY NewFrameIs
<1>. HIDE DEF g
<1>2. <<>> \in Seq(Byte) /\ <<>> \in Seq(Pair) /\ <<>> \in Seq(Seq(Byte))
  OBVIOUS
<1>3. IsList(<<>>)
  BY <1>2, SequenceIsList
<1>4. IsFrame(g)
  BY <1>1, <1>2, <1>3, SMT DEF IsFrame, IsNewFrame
<1>5. QED
  BY <1>4 DEF g

----------------------------------------------------------------------------
(* What a frame says of the bytes read for it.                               *)

(* The head that dumps will write for the container.                         *)
Opening(f) ==
  IF f.kind = "tag" THEN ItemHead(6, f.tag)
  ELSE ItemHead(IF f.kind = "array" THEN 4 ELSE 5, FromNumber(Len(f.ids) + f.left))

(* What it will write for a key whose value is still to come.                *)
KeyBytes(f) == IF f.key = {} THEN {<<>>} ELSE UNION {k.canon : k \in f.key}

(* What it will write for the items so far.                                  *)
Inside(f, b) == IF f.kind = "map" THEN MapBody(f.pairs) ELSE b

(* The bytes read for a frame are its opening, its contents, and the key     *)
(* that waits for its value.                                                 *)
Spells(f, bytes) ==
  f.left < Huge =>
    \A b \in f.body, k \in KeyBytes(f) : bytes = Opening(f) \o Inside(f, b) \o k

(* The key read last is above those of all the pairs, or is that of the      *)
(* last.                                                                     *)
KeysRise(f) ==
  /\ \A p, q \in f.previous : p = q
  /\ f.previous = {} => f.pairs = <<>>
  /\ \A k \in f.key : k.canon \subseteq f.previous
  /\ \A q \in f.previous, i \in 1 .. Len(f.pairs) :
       Below(f.pairs[i].keyBytes, q) \/ (f.key = {} /\ f.pairs[i].keyBytes = q)

(* What the deterministic mode lets onto the stack.                          *)
Faithful(f) ==
  /\ f.kind \in {"array", "map", "tag"} /\ f.left >= 0
  /\ f.key # {} => f.kind = "map" /\ f.left # 0
  /\ f.kind = "tag" => f.left + Len(f.ids) = 1
  /\ KeysRise(f)

(* Heads are bytes.                                                          *)
LEMMA HeadBytes ==
  ASSUME NEW m \in 0 .. 7, NEW arg \in Seq(Byte), Len(arg) <= 8
  PROVE  ItemHead(m, arg) \in Seq(Byte)
<1>. DEFINE n == Len(arg)
<1>0. n \in Nat /\ n <= 8 /\ (n = 0 <=> arg = <<>>)
  OBVIOUS
<1>1. CASE Immediate(arg)
  <2>1. ItemHead(m, arg) = <<32 * m + Number(arg)>>
    BY <1>1 DEF ItemHead
  <2>2. n <= 1 /\ Number(arg) < 24
    BY <1>1 DEF Immediate
  <2>3. Number(arg) \in Nat
    <3>1. CASE arg = <<>>
      BY <3>1 DEF Number
    <3>2. CASE arg # <<>>
      <4>1. n = 1
        BY <1>0, <2>2, <3>2
      <4>2. Number(arg) = arg[1] /\ arg[1] \in Byte
        BY <3>2, <4>1 DEF Number
      <4>3. Byte \subseteq Nat
        BY DEF Byte
      <4>4. QED
        BY <4>2, <4>3, Zenon
    <3>3. QED
      BY <3>1, <3>2
  <2>. DEFINE b == Number(arg)
  <2>4. b \in Nat /\ b < 24
    BY <2>2, <2>3
  <2>. HIDE DEF b
  <2>5. 32 * m + b \in 0 .. 255
    BY <2>4
  <2>6. <<32 * m + b>> \in Seq(Byte)
    BY <2>5 DEF Byte
  <2>7. QED
    BY <2>1, <2>6 DEF b
<1>2. CASE ~ Immediate(arg)
  <2>1. n \in 1 .. 8
    <3>1. Immediate(<<>>)
      BY DEF Immediate, Number
    <3>2. arg # <<>>
      BY <1>2, <3>1
    <3>3. n \in Nat /\ n # 0 /\ n <= 8
      BY <1>0, <3>2
    <3>. HIDE DEF n
    <3>4. QED
      BY <3>3
  <2>. DEFINE e == CHOOSE i \in 0..3 : 2^i >= Len(arg) /\ (i = 0 \/ 2^(i - 1) < Len(arg))
  <2>2. ItemHead(m, arg) = <<32 * m + 24 + e>> \o Padded(arg, 2^e)
    BY <1>2 DEF ItemHead
  <2>3. e = IF n <= 1 THEN 0 ELSE IF n <= 2 THEN 1 ELSE IF n <= 4 THEN 2 ELSE 3
    BY <2>1, WidthOfHead
  <2>. HIDE DEF e
  <2>4. e \in 0 .. 3
    BY <2>3
  <2>5. 2^e \in Nat /\ 2^e >= n
    <3>1. e = 0 \/ e = 1 \/ e = 2 \/ e = 3
      BY <2>4
    <3>2. QED
      BY <2>1, <2>3, <3>1, PowersOfTwo
  <2>. DEFINE w == 2^e
  <2>. HIDE DEF w
  <2>6. w \in Nat /\ w >= n
    BY <2>5 DEF w
  <2>. DEFINE zeros == [i \in 1 .. (w - n) |-> 0]
  <2>7. 0 \in Byte
    BY DEF Byte
  <2>8. zeros \in Seq(Byte)
    BY <1>0, <2>6, <2>7
  <2>. HIDE DEF zeros
  <2>9. zeros \o arg \in Seq(Byte)
    BY <2>8
  <2>10. Padded(arg, w) \in Seq(Byte)
    BY <2>9 DEF Padded, zeros
  <2>11. 32 * m + 24 + e \in 0 .. 255
    BY <2>4
  <2>12. <<32 * m + 24 + e>> \in Seq(Byte)
    BY <2>11 DEF Byte
  <2>13. <<32 * m + 24 + e>> \o Padded(arg, w) \in Seq(Byte)
    BY <2>10, <2>12
  <2>14. QED
    BY <2>2, <2>13 DEF w
<1>3. QED
  BY <1>1, <1>2

LEMMA OpeningType ==
  ASSUME NEW f, IsFrame(f), f.left >= 0
  PROVE  Opening(f) \in Seq(Byte)
<1>1. f.left \in -1 .. Huge /\ Len(f.ids) \in Nat /\ f.tag \in Seq(Byte) /\ Len(f.tag) <= 8
  BY ListReads DEF IsFrame
<1>2. Len(f.ids) + f.left \in Nat
  BY <1>1, HugeIs
<1>3. /\ FromNumber(Len(f.ids) + f.left) \in Seq(Byte)
      /\ Len(FromNumber(Len(f.ids) + f.left)) <= 3 /\ Len(FromNumber(Len(f.ids) + f.left)) \in Nat
  BY <1>2, FromNumberType
<1>4. Len(FromNumber(Len(f.ids) + f.left)) <= 8
  BY <1>3
<1>5. ASSUME NEW m \in {4, 5} PROVE ItemHead(m, FromNumber(Len(f.ids) + f.left)) \in Seq(Byte)
  <2>1. m \in 0 .. 7
    OBVIOUS
  <2>2. QED
    BY <1>3, <1>4, <2>1, HeadBytes, Zenon
<1>6. ItemHead(6, f.tag) \in Seq(Byte)
  BY <1>1, HeadBytes
<1>7. QED
  BY <1>5, <1>6 DEF Opening

(* An item in an array or under a tag.                                       *)
LEMMA ItemSpells ==
  ASSUME NEW f, IsFrame(f), Faithful(f), f.left # 0, f.kind # "map",
         NEW v, NEW raw \in Seq(Byte), v.canon \subseteq {raw},
         NEW bytes, Spells(f, bytes), NEW e \in Nat
  PROVE  Faithful(ItemFrame(f, v, e)) /\ Spells(ItemFrame(f, v, e), bytes \o raw)
<1>. DEFINE g == ItemFrame(f, v, e)
<1>1. IsItemFrame(g, f, v, e)
  BY ItemFrameIs, Zenon DEF IsFrame
<1>. HIDE DEF g
<1>2. /\ g.kind = f.kind /\ g.left = Fewer(f.left) /\ g.tag = f.tag
      /\ g.ids = Append(f.ids, v.id) /\ g.body = Joined(f.body, v.canon) /\ g.key = f.key
      /\ g.previous = f.previous /\ g.pairs = f.pairs
  BY <1>1 DEF IsItemFrame
<1>3. f.kind \in {"array", "tag"} /\ f.left >= 0 /\ f.key = {} /\ (f.kind = "tag" => f.left + Len(f.ids) = 1)
  BY DEF Faithful
<1>4. f.left \in -1 .. Huge /\ f.body \subseteq Seq(Byte) /\ Len(f.ids) \in Nat
  BY ListReads DEF IsFrame
<1>5. Len(g.ids) = Len(f.ids) + 1
  BY <1>2, ListAppend DEF IsFrame
<1>6. /\ g.left >= 0 /\ (g.left < Huge => f.left < Huge)
      /\ f.left < Huge => g.left = f.left - 1 /\ Len(g.ids) + g.left = Len(f.ids) + f.left
  <2>. DEFINE l == f.left
              m == g.left
              i == Len(f.ids)
              j == Len(g.ids)
  <2>1. l \in 0 .. Huge /\ l # 0 /\ i \in Nat /\ j = i + 1
    BY <1>3, <1>4, <1>5
  <2>2. /\ l < Huge /\ l >= 1 => m = l - 1 /\ m < Huge
        /\ l = Huge => m = Huge
    BY <1>2, <1>4, FewerIs
  <2>. HIDE DEF l, m, i, j
  <2>3. m >= 0 /\ (m < Huge => l < Huge) /\ (l < Huge => m = l - 1 /\ j + m = i + l)
    BY <2>1, <2>2, HugeIs
  <2>4. QED
    BY <2>3 DEF l, m, i, j
<1>7. KeysRise(g)
  <2>1. KeysRise(f)
    BY DEF Faithful
  <2>2. QED
    BY <1>2, <2>1, SMT DEF KeysRise
<1>8. Faithful(g)
  <2>1. ASSUME g.kind = "tag" PROVE g.left + Len(g.ids) = 1
    <3>1. f.left + Len(f.ids) = 1
      BY <1>2, <1>3, <2>1
    <3>2. f.left < Huge
      BY <1>4, <3>1, HugeIs
    <3>3. QED
      BY <1>4, <1>5, <1>6, <3>1, <3>2
  <2>2. QED
    BY <1>2, <1>3, <1>6, <1>7, <2>1 DEF Faithful
<1>9. Spells(g, bytes \o raw)
  <2>1. SUFFICES ASSUME g.left < Huge, NEW b \in g.body, NEW k \in KeyBytes(g)
                 PROVE  bytes \o raw = Opening(g) \o Inside(g, b) \o k
    BY DEF Spells
  <2>2. k = <<>> /\ <<>> \in KeyBytes(f)
    BY <1>2, <1>3 DEF KeyBytes
  <2>3. PICK a \in f.body, c \in v.canon : b = a \o c
    <3>1. b \in Joined(f.body, v.canon)
      BY <1>2
    <3>2. JoinsSome(b, f.body, v.canon)
      BY <3>1, JoinedReads, Zenon
    <3>3. QED
      BY <3>2, Zenon DEF JoinsSome
  <2>4. c = raw
    OBVIOUS
  <2>5. Opening(g) = Opening(f)
    <3>1. Len(g.ids) + g.left = Len(f.ids) + f.left
      BY <1>6, <2>1
    <3>2. QED
      BY <1>2, <3>1, Zenon DEF Opening
  <2>6. Inside(g, b) = b /\ Inside(f, a) = a
    BY <1>2, <1>3 DEF Inside
  <2>7. bytes = Opening(f) \o Inside(f, a) \o <<>>
    BY <1>6, <2>1, <2>2 DEF Spells
  <2>8. Opening(f) \in Seq(Byte) /\ a \in Seq(Byte)
    BY <1>3, <1>4, OpeningType
  <2>. DEFINE o == Opening(f)
  <2>. HIDE DEF o
  <2>9. o \in Seq(Byte) /\ bytes = o \o a \o <<>>
    BY <2>6, <2>7, <2>8 DEF o
  <2>10. o \o a \in Seq(Byte) /\ o \o a \o <<>> = o \o a
    <3>1. o \o a \in Seq(Byte)
      BY <2>8, <2>9, JoinedBytes, Zenon
    <3>2. (o \o a) \o <<>> = o \o a
      BY <3>1, JoinedBytes, Zenon
    <3>3. QED
      BY <3>1, <3>2, Zenon
  <2>11. (o \o a) \o raw = o \o (a \o raw)
    BY <2>8, <2>9, JoinedThrice, SMTT(30)
  <2>12. a \o raw \in Seq(Byte)
    BY <2>8
  <2>13. o \o (a \o raw) \in Seq(Byte)
    BY <2>9, <2>12
  <2>14. o \o (a \o raw) \o <<>> = o \o (a \o raw)
    BY <2>13
  <2>15. QED
    BY <2>2, <2>3, <2>4, <2>5, <2>6, <2>9, <2>10, <2>11, <2>14 DEF o
<1>10. QED
  BY <1>8, <1>9 DEF g

(* The key of a pair in a map.                                               *)
LEMMA KeySpells ==
  ASSUME NEW f, IsFrame(f), Faithful(f), f.left # 0, f.kind = "map", f.key = {},
         NEW v, NEW raw \in Seq(Byte), v.canon \subseteq {raw},
         \A p \in f.previous : Below(p, raw),
         NEW bytes \in Seq(Byte), Spells(f, bytes), NEW e \in Nat
  PROVE  Faithful(KeyFrame(f, v, raw, e)) /\ Spells(KeyFrame(f, v, raw, e), bytes \o raw)
<1>. DEFINE g == KeyFrame(f, v, raw, e)
<1>1. IsKeyFrame(g, f, v, raw, e)
  BY KeyFrameIs, Zenon DEF IsFrame
<1>. HIDE DEF g
<1>2. /\ g.kind = f.kind /\ g.left = f.left /\ g.tag = f.tag /\ g.ids = f.ids /\ g.body = f.body
      /\ g.key = {KeyOf(v)} /\ g.previous = {raw} /\ g.pairs = f.pairs
  BY <1>1 DEF IsKeyFrame
<1>3. f.left \in -1 .. Huge /\ f.body \subseteq Seq(Byte) /\ f.previous \subseteq Seq(Byte) /\ f.pairs \in Seq(Pair)
  BY DEF IsFrame
<1>4. f.left >= 0 /\ KeysRise(f)
  BY DEF Faithful
<1>5. KeyOf(v).canon \subseteq {raw}
  BY DEF KeyOf
<1>6. ASSUME NEW i \in 1 .. Len(f.pairs) PROVE Below(f.pairs[i].keyBytes, raw)
  <2>1. f.pairs # <<>>
    BY <1>3
  <2>2. PICK q \in f.previous : TRUE
    BY <1>4, <2>1 DEF KeysRise
  <2>3. Below(f.pairs[i].keyBytes, q) \/ f.pairs[i].keyBytes = q
    BY <1>4 DEF KeysRise
  <2>4. f.pairs[i].keyBytes \in Seq(Byte) /\ q \in Seq(Byte) /\ Below(q, raw)
    <3>1. f.pairs[i] \in Pair
      BY <1>3
    <3>2. QED
      BY <1>3, <3>1 DEF Pair
  <2>5. QED
    BY <2>3, <2>4, BelowTransitive
<1>7. KeysRise(g)
  BY <1>2, <1>5, <1>6 DEF KeysRise
<1>8. Faithful(g)
  BY <1>2, <1>4, <1>7 DEF Faithful
<1>9. Spells(g, bytes \o raw)
  <2>1. SUFFICES ASSUME g.left < Huge, NEW b \in g.body, NEW k \in KeyBytes(g)
                 PROVE  bytes \o raw = Opening(g) \o Inside(g, b) \o k
    BY DEF Spells
  <2>2. k = raw /\ <<>> \in KeyBytes(f)
    BY <1>2, <1>5 DEF KeyBytes
  <2>3. Opening(g) = Opening(f)
    BY <1>2, Zenon DEF Opening
  <2>4. Inside(g, b) = MapBody(f.pairs) /\ Inside(f, b) = MapBody(f.pairs)
    BY <1>2 DEF Inside
  <2>5. bytes = Opening(f) \o MapBody(f.pairs) \o <<>>
    BY <1>2, <2>1, <2>2, <2>4 DEF Spells
  <2>6. Opening(f) \in Seq(Byte) /\ MapBody(f.pairs) \in Seq(Byte)
    BY <1>3, <1>4, OpeningType, MapBodyOf
  <2>. DEFINE o == Opening(f) \o MapBody(f.pairs)
  <2>7. o \in Seq(Byte)
    BY <2>6
  <2>. HIDE DEF o
  <2>8. bytes = o
    BY <2>5, <2>7 DEF o
  <2>9. QED
    BY <2>2, <2>3, <2>4, <2>8 DEF o
<1>10. QED
  BY <1>8, <1>9 DEF g

(* Its value.                                                                *)
LEMMA ValueSpells ==
  ASSUME NEW f, IsFrame(f), Faithful(f), f.kind = "map", f.key # {},
         NEW v, NEW raw \in Seq(Byte), v.canon \subseteq {raw},
         NEW bytes \in Seq(Byte), Spells(f, bytes), NEW e \in Nat
  PROVE  Faithful(ValueFrame(f, v, e)) /\ Spells(ValueFrame(f, v, e), bytes \o raw)
<1>. DEFINE g == ValueFrame(f, v, e)
            p == ThePair(TheKey(f), v)
<1>1. IsValueFrame(g, f, v, e)
  BY ValueFrameIs, Zenon DEF IsFrame
<1>. HIDE DEF g
<1>2. /\ g.kind = f.kind /\ g.left = Fewer(f.left) /\ g.tag = f.tag
      /\ g.ids = Append(f.ids, <<TheKey(f).id, v.id>>) /\ g.key = {}
      /\ g.previous = f.previous
      /\ g.body = (IF Unwritable(f, v) THEN {} ELSE f.body)
      /\ g.pairs = (IF Unwritable(f, v) THEN f.pairs ELSE InsertPair(f.pairs, p))
  BY <1>1 DEF IsValueFrame
<1>3. /\ f.left \in -1 .. Huge /\ f.body \subseteq Seq(Byte) /\ f.previous \subseteq Seq(Byte)
      /\ f.pairs \in Seq(Pair) /\ Len(f.ids) \in Nat
  BY ListReads DEF IsFrame
<1>4. f.left >= 0 /\ f.left # 0 /\ KeysRise(f)
  BY DEF Faithful
<1>5. Len(g.ids) = Len(f.ids) + 1
  BY <1>2, ListAppend DEF IsFrame
<1>6. /\ g.left >= 0 /\ (g.left < Huge => f.left < Huge)
      /\ f.left < Huge => g.left = f.left - 1 /\ Len(g.ids) + g.left = Len(f.ids) + f.left
  <2>. DEFINE l == f.left
              m == g.left
              i == Len(f.ids)
              j == Len(g.ids)
  <2>1. l \in 0 .. Huge /\ l # 0 /\ i \in Nat /\ j = i + 1
    BY <1>3, <1>4, <1>5
  <2>2. /\ l < Huge /\ l >= 1 => m = l - 1 /\ m < Huge
        /\ l = Huge => m = Huge
    BY <1>2, <1>3, FewerIs
  <2>. HIDE DEF l, m, i, j
  <2>3. m >= 0 /\ (m < Huge => l < Huge) /\ (l < Huge => m = l - 1 /\ j + m = i + l)
    BY <2>1, <2>2, HugeIs
  <2>4. QED
    BY <2>3 DEF l, m, i, j
<1>7. TheKey(f) \in f.key
  BY TheKeyIs
<1>8. ASSUME ~ Unwritable(f, v)
      PROVE  /\ p \in Pair /\ p.keyBytes \in f.previous /\ p.keyBytes \in KeyBytes(f)
             /\ p.valueBytes = raw /\ InsertPair(f.pairs, p) = Append(f.pairs, p)
  <2>1. v.canon \subseteq Seq(Byte)
    OBVIOUS
  <2>2. p \in Pair /\ p.keyBytes \in TheKey(f).canon /\ p.valueBytes \in v.canon
    BY <1>8, <2>1, ThePairType
  <2>. HIDE DEF p
  <2>3. p.keyBytes \in f.previous
    BY <1>4, <1>7, <2>2 DEF KeysRise
  <2>4. p.keyBytes \in KeyBytes(f)
    BY <1>7, <2>2 DEF KeyBytes
  <2>5. \A i \in 1 .. Len(f.pairs) : Below(f.pairs[i].keyBytes, p.keyBytes)
    BY <1>4, <2>3 DEF KeysRise
  <2>6. InsertPair(f.pairs, p) = Append(f.pairs, p)
    BY <1>3, <2>2, <2>5, InsertPairType
  <2>7. QED
    BY <2>2, <2>3, <2>4, <2>6
<1>. HIDE DEF p
<1>9. KeysRise(g)
  <2>1. CASE Unwritable(f, v)
    <3>1. g.pairs = f.pairs
      BY <1>2, <2>1
    <3>2. QED
      BY <1>2, <1>4, <3>1 DEF KeysRise
  <2>2. CASE ~ Unwritable(f, v)
    <3>1. g.pairs = Append(f.pairs, p) /\ p.keyBytes \in f.previous
      BY <1>2, <1>8, <2>2
    <3>2. /\ Len(g.pairs) = Len(f.pairs) + 1 /\ g.pairs[Len(f.pairs) + 1] = p /\ Len(f.pairs) \in Nat
          /\ \A i \in 1 .. Len(f.pairs) : g.pairs[i] = f.pairs[i]
      BY <1>3, <1>8, <2>2, <3>1
    <3>3. ASSUME NEW q \in f.previous, NEW i \in 1 .. Len(g.pairs)
          PROVE  Below(g.pairs[i].keyBytes, q) \/ g.pairs[i].keyBytes = q
      <4>1. CASE i = Len(f.pairs) + 1
        <5>1. p.keyBytes = q
          BY <1>4, <3>1 DEF KeysRise
        <5>2. QED
          BY <3>2, <4>1, <5>1
      <4>2. CASE i # Len(f.pairs) + 1
        <5>1. i \in 1 .. Len(f.pairs)
          BY <3>2, <4>2
        <5>2. QED
          BY <1>4, <3>2, <5>1 DEF KeysRise
      <4>3. QED
        BY <4>1, <4>2
    <3>4. \A q, r \in f.previous : q = r
      BY <1>4 DEF KeysRise
    <3>5. QED
      BY <1>2, <3>1, <3>3, <3>4 DEF KeysRise
  <2>3. QED
    BY <2>1, <2>2
<1>10. Faithful(g)
  BY <1>2, <1>6, <1>9 DEF Faithful
<1>11. Spells(g, bytes \o raw)
  <2>1. SUFFICES ASSUME g.left < Huge, NEW b \in g.body, NEW k \in KeyBytes(g)
                 PROVE  bytes \o raw = Opening(g) \o Inside(g, b) \o k
    BY DEF Spells
  <2>2. ~ Unwritable(f, v) /\ b \in f.body /\ k = <<>>
    BY <1>2 DEF KeyBytes
  <2>3. Opening(g) = Opening(f)
    <3>1. Len(g.ids) + g.left = Len(f.ids) + f.left
      BY <1>6, <2>1
    <3>2. QED
      BY <1>2, <3>1, Zenon DEF Opening
  <2>4. Inside(g, b) = MapBody(Append(f.pairs, p)) /\ Inside(f, b) = MapBody(f.pairs)
    BY <1>2, <1>8, <2>2 DEF Inside
  <2>5. MapBody(Append(f.pairs, p)) = MapBody(f.pairs) \o (p.keyBytes \o raw)
    BY <1>3, <1>8, <2>2, MapBodyOf
  <2>6. bytes = Opening(f) \o MapBody(f.pairs) \o p.keyBytes
    <3>1. f.left < Huge /\ b \in f.body /\ p.keyBytes \in KeyBytes(f)
      BY <1>6, <1>8, <2>1, <2>2
    <3>2. bytes = Opening(f) \o Inside(f, b) \o p.keyBytes
      BY <3>1 DEF Spells
    <3>3. QED
      BY <2>4, <3>2
  <2>7. Opening(f) \in Seq(Byte) /\ MapBody(f.pairs) \in Seq(Byte) /\ p.keyBytes \in Seq(Byte)
    BY <1>3, <1>4, <1>8, <2>2, OpeningType, MapBodyOf
  <2>. DEFINE o == Opening(f)
              m == MapBody(f.pairs)
              y == p.keyBytes
  <2>. HIDE DEF o, m, y
  <2>8. o \in Seq(Byte) /\ m \in Seq(Byte) /\ y \in Seq(Byte) /\ bytes = o \o m \o y
    BY <2>6, <2>7 DEF o, m, y
  <2>9. y \o raw \in Seq(Byte) /\ m \o (y \o raw) \in Seq(Byte) /\ o \o m \in Seq(Byte)
    <3>1. y \o raw \in Seq(Byte) /\ o \o m \in Seq(Byte)
      BY <2>8, JoinedBytes, Zenon
    <3>2. QED
      BY <2>8, <3>1, JoinedBytes, Zenon
  <2>10. o \o (m \o (y \o raw)) \in Seq(Byte)
    BY <2>8, <2>9, JoinedBytes, Zenon
  <2>. DEFINE om == o \o m
              yr == y \o raw
  <2>. HIDE DEF om, yr
  <2>11. (om \o y) \o raw = om \o (y \o raw)
    <3>1. om \in Seq(Byte)
      BY <2>9 DEF om
    <3>2. y \in Seq(Byte) /\ raw \in Seq(Byte)
      BY <2>8
    <3>3. QED
      BY <3>1, <3>2, JoinedThrice, SMTT(30)
  <2>12. (o \o m) \o yr = o \o (m \o yr)
    <3>1. yr \in Seq(Byte)
      BY <2>9 DEF yr
    <3>2. o \in Seq(Byte) /\ m \in Seq(Byte)
      BY <2>8
    <3>3. QED
      BY <3>1, <3>2, JoinedThrice, SMTT(30)
  <2>13. o \o (m \o (y \o raw)) \o <<>> = o \o (m \o (y \o raw))
    BY <2>10, JoinedBytes, Zenon
  <2>14. QED
    BY <2>2, <2>3, <2>4, <2>5, <2>8, <2>11, <2>12, <2>13 DEF o, m, y, om, yr
<1>12. QED
  BY <1>10, <1>11 DEF g

----------------------------------------------------------------------------
(* Containers that begin, strings, and containers that end.                  *)

(* A container that has just begun.                                          *)
LEMMA NewSpells ==
  ASSUME NEW kind \in {"array", "map", "tag"}, NEW left \in 0 .. Huge, NEW tag \in Seq(Byte),
         NEW h \in Seq(Byte), NEW e \in Nat,
         kind = "tag" => left = 1 /\ h = ItemHead(6, tag),
         kind # "tag" /\ left < Huge => h = ItemHead(IF kind = "array" THEN 4 ELSE 5, FromNumber(left))
  PROVE  Faithful(NewFrame(kind, left, tag, e)) /\ Spells(NewFrame(kind, left, tag, e), h)
<1>. DEFINE g == NewFrame(kind, left, tag, e)
<1>1. IsNewFrame(g, kind, left, tag, e)
  BY NewFrameIs
<1>. HIDE DEF g
<1>2. /\ g.kind = kind /\ g.left = left /\ g.tag = tag /\ g.ids = <<>>
      /\ g.body = {<<>>} /\ g.key = {} /\ g.previous = {} /\ g.pairs = <<>>
  BY <1>1 DEF IsNewFrame
<1>3. Len(g.ids) = 0 /\ left >= 0 /\ left \in Int
  BY <1>2, HugeIs
<1>4. KeysRise(g)
  BY <1>2 DEF KeysRise
<1>5. Faithful(g)
  BY <1>2, <1>3, <1>4 DEF Faithful
<1>6. Spells(g, h)
  <2>1. SUFFICES ASSUME g.left < Huge, NEW b \in g.body, NEW k \in KeyBytes(g)
                 PROVE  h = Opening(g) \o Inside(g, b) \o k
    BY DEF Spells
  <2>2. b = <<>> /\ k = <<>>
    BY <1>2 DEF KeyBytes
  <2>3. MapBody(<<>>) = <<>>
    <3>1. [i \in DOMAIN <<>> |-> <<>>[i].keyBytes \o <<>>[i].valueBytes] = <<>>
      OBVIOUS
    <3>2. QED
      BY <3>1, FlattenNothing DEF MapBody
  <2>4. Inside(g, b) = <<>>
    BY <1>2, <2>2, <2>3 DEF Inside
  <2>5. Len(g.ids) + g.left = left
    BY <1>2, <1>3
  <2>6. Opening(g) = h
    <3>1. CASE kind = "tag"
      BY <1>2, <3>1 DEF Opening
    <3>2. CASE kind # "tag"
      <4>1. h = ItemHead(IF kind = "array" THEN 4 ELSE 5, FromNumber(left))
        BY <1>2, <2>1, <3>2
      <4>2. Opening(g) = ItemHead(IF kind = "array" THEN 4 ELSE 5, FromNumber(left))
        BY <1>2, <2>5, <3>2, Zenon DEF Opening
      <4>3. QED
        BY <4>1, <4>2
    <3>3. QED
      BY <3>1, <3>2
  <2>7. h \o <<>> \o <<>> = h
    <3>1. h \o <<>> = h
      OBVIOUS
    <3>2. QED
      BY <3>1
  <2>8. QED
    BY <2>2, <2>4, <2>6, <2>7
<1>7. QED
  BY <1>5, <1>6 DEF g

(* The encoding of a value is the one it is given.                           *)
LEMMA CanonOf == \A type, content, canon : Value(type, content, canon).canon = canon
  BY DEF Value

(* A string is written as its head and its bytes.                            *)
LEMMA StringType ==
  ASSUME NEW m \in 0 .. 7, NEW bytes \in Seq(Byte)
  PROVE  /\ StringValue(m, bytes).canon = {ItemHead(m, FromNumber(Len(bytes))) \o bytes}
         /\ StringValue(m, bytes).canon \subseteq Seq(Byte)
<1>1. StringValue(m, bytes).canon = {ItemHead(m, FromNumber(Len(bytes))) \o bytes}
  BY CanonOf DEF StringValue
<1>2. FromNumber(Len(bytes)) \in Seq(Byte) /\ Len(FromNumber(Len(bytes))) <= 3
  BY FromNumberType
<1>3. Len(FromNumber(Len(bytes))) <= 8
  <2>1. Len(FromNumber(Len(bytes))) \in Nat
    BY <1>2
  <2>2. QED
    BY <1>2, <2>1
<1>4. ItemHead(m, FromNumber(Len(bytes))) \in Seq(Byte)
  BY <1>2, <1>3, HeadBytes
<1>5. ItemHead(m, FromNumber(Len(bytes))) \o bytes \in Seq(Byte)
  BY <1>4
<1>6. QED
  BY <1>1, <1>5

(* What dumps writes for a container, by its kind.                           *)
LEMMA ClosedIs ==
  ASSUME NEW f
  PROVE  /\ f.kind = "array" =>
              Closed(f).canon = Joined({ItemHead(4, FromNumber(Len(f.ids)))}, f.body)
         /\ f.kind = "tag" =>
              Closed(f).canon = IF f.tag \in AllowedTags THEN Joined({ItemHead(6, f.tag)}, f.body) ELSE {}
         /\ f.kind = "map" =>
              Closed(f).canon = IF f.body = {} THEN {}
                                ELSE {ItemHead(5, FromNumber(Len(f.ids))) \o MapBody(f.pairs)}
         /\ f.kind \notin {"array", "tag", "map"} =>
              Closed(f) = StringValue(IF f.kind = "bytes" THEN 2 ELSE 3, FlattenSeq(f.ids))
  BY CanonOf DEF Closed

LEMMA ClosedType ==
  ASSUME NEW f, IsFrame(f)
  PROVE  Closed(f).canon \subseteq Seq(Byte)
<1>1. /\ f.kind \in {"array", "map", "tag", "bytes", "text"} /\ Len(f.ids) \in Nat
      /\ f.tag \in Seq(Byte) /\ Len(f.tag) <= 8 /\ f.body \subseteq Seq(Byte) /\ f.pairs \in Seq(Pair)
      /\ f.kind \in {"bytes", "text"} => f.ids \in Seq(Seq(Byte))
  BY ListReads DEF IsFrame
<1>2. ASSUME NEW m \in {4, 5} PROVE ItemHead(m, FromNumber(Len(f.ids))) \in Seq(Byte)
  <2>1. FromNumber(Len(f.ids)) \in Seq(Byte) /\ Len(FromNumber(Len(f.ids))) <= 3
    BY <1>1, FromNumberType
  <2>2. Len(FromNumber(Len(f.ids))) \in Nat
    BY <2>1
  <2>3. Len(FromNumber(Len(f.ids))) <= 8
    BY <2>1, <2>2
  <2>4. m \in 0 .. 7
    OBVIOUS
  <2>5. QED
    BY <2>1, <2>3, <2>4, HeadBytes, Zenon
<1>3. CASE f.kind = "array"
  <2>1. Closed(f).canon = Joined({ItemHead(4, FromNumber(Len(f.ids)))}, f.body)
    BY <1>3, ClosedIs
  <2>2. {ItemHead(4, FromNumber(Len(f.ids)))} \subseteq Seq(Byte)
    BY <1>2
  <2>3. QED
    BY <1>1, <2>1, <2>2, JoinedType
<1>4. CASE f.kind = "tag"
  <2>1. Closed(f).canon = IF f.tag \in AllowedTags THEN Joined({ItemHead(6, f.tag)}, f.body) ELSE {}
    BY <1>4, ClosedIs
  <2>2. {ItemHead(6, f.tag)} \subseteq Seq(Byte)
    BY <1>1, HeadBytes
  <2>3. Joined({ItemHead(6, f.tag)}, f.body) \subseteq Seq(Byte)
    BY <1>1, <2>2, JoinedType
  <2>4. QED
    BY <2>1, <2>3
<1>5. CASE f.kind = "map"
  <2>1. Closed(f).canon = IF f.body = {} THEN {}
                          ELSE {ItemHead(5, FromNumber(Len(f.ids))) \o MapBody(f.pairs)}
    BY <1>5, ClosedIs
  <2>2. ItemHead(5, FromNumber(Len(f.ids))) \in Seq(Byte) /\ MapBody(f.pairs) \in Seq(Byte)
    BY <1>1, <1>2, MapBodyOf
  <2>3. ItemHead(5, FromNumber(Len(f.ids))) \o MapBody(f.pairs) \in Seq(Byte)
    BY <2>2
  <2>4. QED
    BY <2>1, <2>3
<1>6. CASE f.kind \in {"bytes", "text"}
  <2>1. Closed(f) = StringValue(IF f.kind = "bytes" THEN 2 ELSE 3, FlattenSeq(f.ids))
    BY <1>6, ClosedIs
  <2>2. FlattenSeq(f.ids) \in Seq(Byte)
    BY <1>1, <1>6, FlattenType
  <2>3. (IF f.kind = "bytes" THEN 2 ELSE 3) \in 0 .. 7
    OBVIOUS
  <2>4. QED
    BY <2>1, <2>2, <2>3, StringType
<1>7. QED
  BY <1>1, <1>3, <1>4, <1>5, <1>6

(* A container that is complete.                                             *)
LEMMA ClosedSpells ==
  ASSUME NEW f, IsFrame(f), Faithful(f), f.left = 0, NEW bytes \in Seq(Byte), Spells(f, bytes)
  PROVE  Closed(f).canon \subseteq {bytes}
<1>1. f.kind \in {"array", "map", "tag"} /\ f.key = {}
  BY DEF Faithful
<1>2. KeyBytes(f) = {<<>>}
  BY <1>1 DEF KeyBytes
<1>3. Len(f.ids) \in Nat /\ f.body \subseteq Seq(Byte) /\ f.pairs \in Seq(Pair)
  BY ListReads DEF IsFrame
<1>4. Opening(f) \in Seq(Byte)
  BY OpeningType
<1>. DEFINE o == Opening(f)
<1>5. o = IF f.kind = "tag" THEN ItemHead(6, f.tag)
          ELSE ItemHead(IF f.kind = "array" THEN 4 ELSE 5, FromNumber(Len(f.ids)))
  <2>1. Len(f.ids) + f.left = Len(f.ids)
    BY <1>3
  <2>2. QED
    BY <2>1, Zenon DEF Opening
<1>6. ASSUME NEW b \in f.body PROVE bytes = o \o Inside(f, b)
  <2>1. bytes = o \o Inside(f, b) \o <<>>
    BY <1>2, HugeIs DEF Spells
  <2>2. Inside(f, b) \in Seq(Byte)
    BY <1>3, MapBodyOf DEF Inside
  <2>. DEFINE c == Inside(f, b)
  <2>. HIDE DEF o, c
  <2>3. o \in Seq(Byte) /\ c \in Seq(Byte)
    BY <1>4, <2>2 DEF o, c
  <2>4. o \o c \in Seq(Byte)
    BY <2>3
  <2>5. (o \o c) \o <<>> = o \o c
    BY <2>4
  <2>6. QED
    BY <2>1, <2>5 DEF c
<1>. HIDE DEF o
<1>7. CASE f.kind \in {"array", "tag"}
  <2>1. Closed(f).canon \subseteq Joined({o}, f.body)
    BY <1>5, <1>7, ClosedIs
  <2>2. SUFFICES ASSUME NEW x \in Closed(f).canon PROVE x = bytes
    OBVIOUS
  <2>3. JoinsSome(x, {o}, f.body)
    BY <2>1, JoinedReads
  <2>4. PICK b \in f.body : x = o \o b
    BY <2>3 DEF JoinsSome
  <2>5. Inside(f, b) = b
    BY <1>7 DEF Inside
  <2>6. QED
    BY <1>6, <2>4, <2>5
<1>8. CASE f.kind = "map"
  <2>1. SUFFICES ASSUME f.body # {} PROVE o \o MapBody(f.pairs) = bytes
    BY <1>5, <1>8, ClosedIs
  <2>2. PICK b \in f.body : TRUE
    BY <2>1
  <2>3. Inside(f, b) = MapBody(f.pairs)
    BY <1>8 DEF Inside
  <2>4. QED
    BY <1>6, <2>3
<1>9. QED
  BY <1>1, <1>7, <1>8

----------------------------------------------------------------------------
(* The frames of the stack, each with its own slice of the input.            *)

(* The bytes of a frame are those from the start of the frame before it to   *)
(* its own.                                                                  *)
StartsAt(frames, i) == IF i = 1 THEN 0 ELSE frames[i - 1].start

Reached(frames) == StartsAt(frames, Len(frames) + 1)

(* All frames say what was read for them, and none but the last is full.     *)
StackSpells(frames, bytes) ==
  \A i \in 1 .. Len(frames) :
    /\ Faithful(frames[i]) /\ StartsAt(frames, i) <= frames[i].start
    /\ Spells(frames[i], SubSeq(bytes, StartsAt(frames, i) + 1, frames[i].start))
    /\ i # Len(frames) => frames[i].left # 0

(* Frames that all begin before e.                                           *)
FramesTyped(frames, e) ==
  IsList(frames) /\ \A i \in 1 .. Len(frames) : IsFrame(frames[i]) /\ frames[i].start <= e

(* Strings of indefinite length, which hold chunks and no items.             *)
IsString(f) == f.kind \in {"bytes", "text"}

Containers(frames) == \A i \in 1 .. Len(frames) : ~ IsString(frames[i])

(* The innermost frame takes another item.                                   *)
MoreFollows(frames) == frames # <<>> => frames[Len(frames)].left # 0

(* Frames that begin before one place begin before every later one.          *)
LEMMA FramesLater ==
  ASSUME NEW frames, NEW d \in Nat, FramesTyped(frames, d), NEW e \in Nat, d <= e
  PROVE  FramesTyped(frames, e)
<1>1. ASSUME NEW i \in 1 .. Len(frames) PROVE frames[i].start <= e
  <2>1. frames[i].start \in Nat /\ frames[i].start <= d
    BY DEF FramesTyped, IsFrame
  <2>2. QED
    BY <2>1
<1>2. QED
  BY <1>1 DEF FramesTyped

(* One frame more.                                                           *)
LEMMA FramesAppend ==
  ASSUME NEW frames, NEW e, FramesTyped(frames, e), NEW g, IsFrame(g), g.start <= e
  PROVE  FramesTyped(Append(frames, g), e) /\ Len(Append(frames, g)) = Len(frames) + 1
<1>. DEFINE more == Append(frames, g)
<1>1. IsList(frames) /\ Len(frames) \in Nat
  BY ListReads DEF FramesTyped
<1>2. /\ IsList(more) /\ Len(more) = Len(frames) + 1
      /\ more[Len(frames) + 1] = g /\ \A i \in 1 .. Len(frames) : more[i] = frames[i]
  BY <1>1, ListAppend
<1>. HIDE DEF more
<1>3. ASSUME NEW i \in 1 .. Len(more) PROVE IsFrame(more[i]) /\ more[i].start <= e
  <2>1. CASE i = Len(frames) + 1
    BY <1>2, <2>1
  <2>2. CASE i # Len(frames) + 1
    <3>1. i \in 1 .. Len(frames)
      BY <1>1, <1>2, <2>2
    <3>2. QED
      BY <1>2, <3>1 DEF FramesTyped
  <2>3. QED
    BY <2>1, <2>2
<1>4. FramesTyped(more, e)
  BY <1>2, <1>3 DEF FramesTyped
<1>5. QED
  BY <1>2, <1>4 DEF more

(* The frames around the innermost.                                          *)
LEMMA FramesFront ==
  ASSUME NEW frames, NEW e, FramesTyped(frames, e), frames # <<>>
  PROVE  LET outer == SubSeq(frames, 1, Len(frames) - 1)
         IN  /\ FramesTyped(outer, e) /\ Len(outer) = Len(frames) - 1 /\ Len(outer) \in Nat
             /\ \A i \in 1 .. Len(outer) : outer[i] = frames[i]
             /\ Containers(frames) => Containers(outer)
<1>. DEFINE outer == SubSeq(frames, 1, Len(frames) - 1)
<1>1. IsList(frames) /\ Len(frames) \in Nat /\ Len(frames) # 0
  BY ListReads DEF FramesTyped
<1>2. Len(frames) - 1 \in 0 .. Len(frames)
  BY <1>1
<1>3. /\ IsList(outer) /\ Len(outer) = Len(frames) - 1
      /\ \A i \in 1 .. Len(frames) - 1 : outer[i] = frames[i]
  BY <1>1, <1>2, ListFront
<1>. HIDE DEF outer
<1>4. \A i \in 1 .. Len(outer) : i \in 1 .. Len(frames) /\ outer[i] = frames[i]
  BY <1>1, <1>3
<1>5. FramesTyped(outer, e)
  BY <1>3, <1>4 DEF FramesTyped
<1>6. Containers(frames) => Containers(outer)
  BY <1>4 DEF Containers
<1>7. Len(outer) \in Nat
  BY <1>1, <1>3
<1>8. QED
  BY <1>3, <1>4, <1>5, <1>6, <1>7 DEF outer

(* A new innermost frame.                                                    *)
LEMMA PushSpells ==
  ASSUME NEW frames, IsList(frames), NEW bytes, StackSpells(frames, bytes), MoreFollows(frames),
         NEW g, Faithful(g), Reached(frames) <= g.start,
         Spells(g, SubSeq(bytes, Reached(frames) + 1, g.start))
  PROVE  StackSpells(Append(frames, g), bytes) /\ Reached(Append(frames, g)) = g.start
<1>. DEFINE more == Append(frames, g)
            n == Len(frames)
<1>1. n \in Nat /\ (frames = <<>> <=> n = 0)
  BY ListReads
<1>2. /\ Len(more) = n + 1 /\ more[n + 1] = g /\ \A i \in 1 .. n : more[i] = frames[i]
  BY ListAppend
<1>. HIDE DEF more
<1>3. \A i \in 1 .. n + 1 : StartsAt(more, i) = StartsAt(frames, i)
  BY <1>1, <1>2 DEF StartsAt
<1>4. Reached(frames) = StartsAt(frames, n + 1)
  BY DEF Reached
<1>5. ASSUME NEW i \in 1 .. Len(more)
      PROVE  /\ Faithful(more[i]) /\ StartsAt(more, i) <= more[i].start
             /\ Spells(more[i], SubSeq(bytes, StartsAt(more, i) + 1, more[i].start))
             /\ i # Len(more) => more[i].left # 0
  <2>1. CASE i = n + 1
    <3>1. StartsAt(more, i) = Reached(frames) /\ more[i] = g /\ i = Len(more)
      BY <1>1, <1>2, <1>3, <1>4, <2>1
    <3>2. QED
      BY <3>1
  <2>2. CASE i # n + 1
    <3>1. i \in 1 .. n /\ i \in 1 .. n + 1
      BY <1>1, <1>2, <2>2
    <3>2. StartsAt(more, i) = StartsAt(frames, i) /\ more[i] = frames[i]
      BY <1>2, <1>3, <3>1
    <3>3. /\ Faithful(frames[i]) /\ StartsAt(frames, i) <= frames[i].start
          /\ Spells(frames[i], SubSeq(bytes, StartsAt(frames, i) + 1, frames[i].start))
          /\ i # n => frames[i].left # 0
      BY <3>1 DEF StackSpells
    <3>4. i = n => frames[i].left # 0
      BY <1>1, <3>1 DEF MoreFollows
    <3>5. QED
      BY <3>2, <3>3, <3>4
  <2>3. QED
    BY <2>1, <2>2
<1>6. StackSpells(more, bytes)
  BY <1>5 DEF StackSpells
<1>7. Reached(more) = g.start
  <2>1. Reached(more) = StartsAt(more, (n + 1) + 1)
    BY <1>2 DEF Reached
  <2>2. (n + 1) + 1 # 1 /\ ((n + 1) + 1) - 1 = n + 1
    BY <1>1
  <2>3. QED
    BY <1>2, <2>1, <2>2 DEF StartsAt
<1>8. QED
  BY <1>6, <1>7 DEF more

(* Without the innermost frame the others still say what was read.           *)
LEMMA FrontSpells ==
  ASSUME NEW frames, IsList(frames), frames # <<>>, NEW bytes, StackSpells(frames, bytes)
  PROVE  LET outer == SubSeq(frames, 1, Len(frames) - 1)
         IN  /\ StackSpells(outer, bytes) /\ Reached(outer) = StartsAt(frames, Len(frames))
             /\ MoreFollows(outer)
<1>. DEFINE n == Len(frames)
            outer == SubSeq(frames, 1, n - 1)
<1>1. n \in Nat /\ n # 0
  BY ListReads
<1>2. n - 1 \in 0 .. n
  BY <1>1
<1>3. IsList(outer) /\ Len(outer) = n - 1 /\ \A i \in 1 .. n - 1 : outer[i] = frames[i]
  BY <1>2, ListFront
<1>. HIDE DEF outer
<1>4. \A i \in 1 .. n : StartsAt(outer, i) = StartsAt(frames, i)
  BY <1>1, <1>3 DEF StartsAt
<1>5. ASSUME NEW i \in 1 .. n - 1
      PROVE  /\ outer[i] = frames[i] /\ StartsAt(outer, i) = StartsAt(frames, i)
             /\ Faithful(frames[i]) /\ StartsAt(frames, i) <= frames[i].start
             /\ Spells(frames[i], SubSeq(bytes, StartsAt(frames, i) + 1, frames[i].start))
             /\ frames[i].left # 0
  <2>1. i \in 1 .. n /\ i # n
    BY <1>1
  <2>2. QED
    BY <1>3, <1>4, <2>1 DEF StackSpells
<1>6. StackSpells(outer, bytes)
  BY <1>3, <1>5 DEF StackSpells
<1>7. Reached(outer) = StartsAt(frames, n)
  <2>1. (n - 1) + 1 = n /\ n \in 1 .. n
    BY <1>1
  <2>2. QED
    BY <1>3, <1>4, <2>1 DEF Reached
<1>8. MoreFollows(outer)
  <2>1. ASSUME outer # <<>> PROVE outer[Len(outer)].left # 0
    <3>1. Len(outer) \in 1 .. n - 1
      BY <1>1, <1>3, <2>1, ListReads
    <3>2. QED
      BY <1>5, <3>1
  <2>2. QED
    BY <2>1 DEF MoreFollows
<1>9. QED
  BY <1>6, <1>7, <1>8 DEF outer

(* Some of the bytes.                                                        *)
LEMMA ByteSlice ==
  ASSUME NEW s \in Seq(Byte), NEW i \in Nat, NEW n \in Nat, i + n <= Len(s)
  PROVE  /\ SubSeq(s, i + 1, i + n) \in Seq(Byte) /\ Len(SubSeq(s, i + 1, i + n)) = n
         /\ \A k \in 1 .. n : SubSeq(s, i + 1, i + n)[k] = s[i + k]
  BY SliceElements, SMTT(30)

(* The part of a text that is there already does not change as more is read. *)
LEMMA SameSlice ==
  ASSUME NEW s \in Seq(Byte), NEW t \in Seq(Byte), NEW p \in Nat, p <= Len(s), p <= Len(t),
         \A k \in 1 .. p : t[k] = s[k], NEW a \in Nat, NEW b \in Nat, a <= b, b <= p
  PROVE  SubSeq(t, a + 1, b) = SubSeq(s, a + 1, b)
<1>. DEFINE n == b - a
<1>1. /\ n \in Nat /\ a + n = b /\ a + n <= Len(s) /\ a + n <= Len(t)
      /\ Len(s) \in Nat /\ Len(t) \in Nat
  <2>1. Len(s) \in Nat /\ Len(t) \in Nat
    OBVIOUS
  <2>2. n \in Nat /\ a + n = b
    BY SMT
  <2>3. QED
    BY <2>1, <2>2, SMT
<1>. HIDE DEF n
<1>. DEFINE x == SubSeq(s, a + 1, a + n)
            y == SubSeq(t, a + 1, a + n)
<1>2. x \in Seq(Byte) /\ Len(x) = n /\ \A k \in 1 .. n : x[k] = s[a + k]
  BY <1>1, ByteSlice, Zenon
<1>3. y \in Seq(Byte) /\ Len(y) = n /\ \A k \in 1 .. n : y[k] = t[a + k]
  BY <1>1, ByteSlice, Zenon
<1>. HIDE DEF x, y
<1>4. ASSUME NEW k \in 1 .. n PROVE y[k] = x[k]
  <2>1. a + k \in 1 .. p
    BY <1>1
  <2>2. QED
    BY <1>2, <1>3, <2>1
<1>5. y = x
  <2>1. y \in Seq(Byte) /\ x \in Seq(Byte) /\ Len(y) = Len(x) /\ Len(y) = n
    BY <1>2, <1>3
  <2>2. y = x <=> \A k \in 1 .. Len(y) : y[k] = x[k]
    BY <2>1, SeqEqualByElements, Zenon
  <2>3. QED
    BY <1>4, <2>1, <2>2
<1>6. QED
  BY <1>1, <1>5 DEF x, y

(* Adjacent slices make one.                                                 *)
LEMMA SliceJoin ==
  ASSUME NEW s \in Seq(Byte), NEW a \in Nat, NEW b \in Nat, NEW c \in Nat, a <= b, b <= c, c <= Len(s)
  PROVE  /\ SubSeq(s, a + 1, b) \in Seq(Byte) /\ SubSeq(s, b + 1, c) \in Seq(Byte)
         /\ SubSeq(s, a + 1, c) = SubSeq(s, a + 1, b) \o SubSeq(s, b + 1, c)
<1>. DEFINE m == b - a
            n == c - b
<1>1. /\ m \in Nat /\ n \in Nat /\ a + m = b /\ b + n = c /\ a + (m + n) = c /\ m + n \in Nat
      /\ Len(s) \in Nat /\ a + m <= Len(s) /\ b + n <= Len(s) /\ a + (m + n) <= Len(s)
  OBVIOUS
<1>. HIDE DEF m, n
<1>. DEFINE x == SubSeq(s, a + 1, a + m)
            y == SubSeq(s, b + 1, b + n)
            z == SubSeq(s, a + 1, a + (m + n))
<1>2. x \in Seq(Byte) /\ Len(x) = m /\ \A k \in 1 .. m : x[k] = s[a + k]
  BY <1>1, SliceElements
<1>3. y \in Seq(Byte) /\ Len(y) = n /\ \A k \in 1 .. n : y[k] = s[b + k]
  BY <1>1, SliceElements
<1>4. z \in Seq(Byte) /\ Len(z) = m + n /\ \A k \in 1 .. m + n : z[k] = s[a + k]
  BY <1>1, SliceElements
<1>. HIDE DEF x, y, z
<1>5. /\ x \o y \in Seq(Byte) /\ Len(x \o y) = m + n
      /\ \A k \in 1 .. m : (x \o y)[k] = x[k]
      /\ \A k \in 1 .. n : (x \o y)[m + k] = y[k]
  BY <1>2, <1>3, ConcatElements
<1>6. ASSUME NEW k \in 1 .. m + n PROVE z[k] = (x \o y)[k]
  <2>1. CASE k <= m
    <3>1. k \in 1 .. m
      BY <1>1, <2>1
    <3>2. QED
      BY <1>2, <1>4, <1>5, <3>1
  <2>2. CASE ~ k <= m
    <3>1. k - m \in 1 .. n /\ m + (k - m) = k /\ b + (k - m) = a + k
      BY <1>1, <2>2
    <3>2. (x \o y)[m + (k - m)] = y[k - m] /\ y[k - m] = s[b + (k - m)]
      BY <1>3, <1>5, <3>1
    <3>3. QED
      BY <1>4, <3>1, <3>2
  <2>3. QED
    BY <2>1, <2>2
<1>7. z = x \o y
  <2>. DEFINE xy == x \o y
  <2>1. z \in Seq(Byte) /\ xy \in Seq(Byte) /\ Len(z) = Len(xy) /\ Len(z) = m + n
    BY <1>4, <1>5
  <2>2. \A k \in 1 .. m + n : z[k] = xy[k]
    BY <1>6
  <2>. HIDE DEF xy
  <2>3. z = xy <=> \A k \in 1 .. Len(z) : z[k] = xy[k]
    BY <2>1, SeqEqualByElements, Zenon
  <2>4. z = xy
    BY <2>1, <2>2, <2>3
  <2>5. QED
    BY <2>4 DEF xy
<1>8. QED
  BY <1>1, <1>2, <1>3, <1>7 DEF x, y, z

(* So the frames keep saying what was read as the input grows.               *)
LEMMA SpellsSame ==
  ASSUME NEW frames, NEW p \in Nat, FramesTyped(frames, p), NEW s \in Seq(Byte), NEW t \in Seq(Byte),
         p <= Len(s), p <= Len(t), \A k \in 1 .. p : t[k] = s[k], StackSpells(frames, s)
  PROVE  StackSpells(frames, t)
<1>1. ASSUME NEW i \in 1 .. Len(frames)
      PROVE  SubSeq(t, StartsAt(frames, i) + 1, frames[i].start)
               = SubSeq(s, StartsAt(frames, i) + 1, frames[i].start)
  <2>1. frames[i].start \in Nat /\ frames[i].start <= p
    BY DEF FramesTyped, IsFrame
  <2>2. StartsAt(frames, i) \in Nat
    <3>1. CASE i = 1
      BY <3>1 DEF StartsAt
    <3>2. CASE i # 1
      <4>1. Len(frames) \in Nat
        BY ListReads DEF FramesTyped
      <4>2. i - 1 \in 1 .. Len(frames)
        BY <3>2, <4>1
      <4>3. QED
        BY <3>2, <4>2 DEF StartsAt, FramesTyped, IsFrame
    <3>3. QED
      BY <3>1, <3>2
  <2>3. StartsAt(frames, i) <= frames[i].start
    BY DEF StackSpells
  <2>. DEFINE a == StartsAt(frames, i)
              b == frames[i].start
  <2>4. a \in Nat /\ b \in Nat /\ a <= b /\ b <= p
    BY <2>1, <2>2, <2>3
  <2>. HIDE DEF a, b
  <2>5. SubSeq(t, a + 1, b) = SubSeq(s, a + 1, b)
    BY <2>4, SameSlice
  <2>6. QED
    BY <2>5 DEF a, b
<1>2. QED
  BY <1>1 DEF StackSpells

(* The place that the frames have reached.                                   *)
LEMMA ReachedType ==
  ASSUME NEW frames, NEW e \in Nat, FramesTyped(frames, e)
  PROVE  /\ Reached(frames) \in Nat /\ Reached(frames) <= e
         /\ \A i \in 1 .. Len(frames) : StartsAt(frames, i) \in Nat /\ frames[i].start \in Nat
         /\ frames # <<>> => Reached(frames) = frames[Len(frames)].start
<1>1. Len(frames) \in Nat /\ (frames = <<>> <=> Len(frames) = 0)
  BY ListReads DEF FramesTyped
<1>2. \A i \in 1 .. Len(frames) : frames[i].start \in Nat /\ frames[i].start <= e
  BY DEF FramesTyped, IsFrame
<1>3. ASSUME NEW i \in 1 .. Len(frames) + 1
      PROVE  StartsAt(frames, i) \in Nat /\ StartsAt(frames, i) <= e
  <2>1. CASE i = 1
    BY <2>1 DEF StartsAt
  <2>2. CASE i # 1
    <3>1. i - 1 \in 1 .. Len(frames)
      BY <1>1, <2>2
    <3>2. QED
      BY <1>2, <2>2, <3>1 DEF StartsAt
  <2>3. QED
    BY <2>1, <2>2
<1>4. ASSUME frames # <<>> PROVE Reached(frames) = frames[Len(frames)].start
  <2>1. Len(frames) + 1 # 1 /\ (Len(frames) + 1) - 1 = Len(frames)
    BY <1>1, <1>4
  <2>2. QED
    BY <2>1 DEF Reached, StartsAt
<1>5. Len(frames) + 1 \in 1 .. Len(frames) + 1 /\ \A i \in 1 .. Len(frames) : i \in 1 .. Len(frames) + 1
  BY <1>1
<1>6. QED
  BY <1>2, <1>3, <1>4, <1>5 DEF Reached

(* The frame that takes an item, by what it is.                              *)
LEMMA PlacedIs ==
  ASSUME NEW frames, NEW v, NEW bytes, NEW e, NEW next \in Placed(frames, v, bytes, e)
  PROVE  LET f == frames[Len(frames)]
             outer == SubSeq(frames, 1, Len(frames) - 1)
             raw == SubSeq(bytes, f.start + 1, e)
         IN  \/ f.kind # "map" /\ next = Append(outer, ItemFrame(f, v, e))
             \/ f.kind = "map" /\ f.key # {} /\ next = Append(outer, ValueFrame(f, v, e))
             \/ /\ f.kind = "map" /\ f.key = {} /\ ~ KeyRefused(f, v.id, raw)
                /\ next = Append(outer, KeyFrame(f, v, raw, e))
<1>. DEFINE f == frames[Len(frames)]
            outer == SubSeq(frames, 1, Len(frames) - 1)
            raw == SubSeq(bytes, f.start + 1, e)
<1>1. Placed(frames, v, bytes, e) =
        CASE f.kind # "map" -> {Append(outer, ItemFrame(f, v, e))}
          [] f.kind = "map" /\ f.key # {} -> {Append(outer, ValueFrame(f, v, e))}
          [] OTHER -> IF KeyRefused(f, v.id, raw) THEN {} ELSE {Append(outer, KeyFrame(f, v, raw, e))}
  BY DEF Placed, ItemFrame, ValueFrame, KeyFrame
<1>. HIDE DEF f, outer, raw
<1>2. CASE f.kind # "map"
  BY <1>1, <1>2 DEF f, outer, raw
<1>3. CASE f.kind = "map" /\ f.key # {}
  BY <1>1, <1>3 DEF f, outer, raw
<1>4. CASE f.kind = "map" /\ f.key = {}
  <2>1. next \in (IF KeyRefused(f, v.id, raw) THEN {} ELSE {Append(outer, KeyFrame(f, v, raw, e))})
    BY <1>1, <1>4
  <2>2. ~ KeyRefused(f, v.id, raw) /\ next = Append(outer, KeyFrame(f, v, raw, e))
    BY <2>1
  <2>3. QED
    BY <1>4, <2>2 DEF f, outer, raw
<1>5. QED
  BY <1>2, <1>3, <1>4 DEF f, outer, raw

(* An item that is placed leaves frames that are typed.                      *)
LEMMA PlacedType ==
  ASSUME NEW e \in Nat, NEW frames, FramesTyped(frames, e), frames # <<>>, Containers(frames),
         NEW v, v.canon \subseteq Seq(Byte), NEW bytes \in Seq(Byte), e <= Len(bytes),
         NEW next \in Placed(frames, v, bytes, e)
  PROVE  FramesTyped(next, e) /\ Len(next) = Len(frames) /\ Containers(next)
<1>. DEFINE n == Len(frames)
            f == frames[n]
            outer == SubSeq(frames, 1, n - 1)
            raw == SubSeq(bytes, f.start + 1, e)
<1>1. n \in Nat /\ n # 0
  BY ListReads DEF FramesTyped
<1>2. /\ FramesTyped(outer, e) /\ Len(outer) = n - 1 /\ Len(outer) \in Nat
      /\ Containers(outer)
  BY FramesFront
<1>3. IsFrame(f) /\ ~ IsString(f) /\ f.start \in Nat /\ f.start <= e
  <2>1. n \in 1 .. n
    BY <1>1
  <2>2. QED
    BY <2>1 DEF FramesTyped, Containers, IsFrame
<1>4. raw \in Seq(Byte)
  BY <1>3, SliceJoin
<1>5. \E g : IsFrame(g) /\ g.start <= e /\ ~ IsString(g) /\ next = Append(outer, g)
  <2>1. CASE f.kind # "map" /\ next = Append(outer, ItemFrame(f, v, e))
    <3>. DEFINE g == ItemFrame(f, v, e)
    <3>1. IsItemFrame(g, f, v, e)
      BY <1>3, ItemFrameIs, Zenon DEF IsFrame
    <3>2. IsFrame(g)
      BY <1>3, WithItemType DEF IsString
    <3>. HIDE DEF g
    <3>3. g.start <= e /\ ~ IsString(g)
      BY <1>3, <3>1 DEF IsItemFrame, IsString
    <3>4. QED
      BY <2>1, <3>2, <3>3 DEF g
  <2>2. CASE f.kind = "map" /\ f.key # {} /\ next = Append(outer, ValueFrame(f, v, e))
    <3>. DEFINE g == ValueFrame(f, v, e)
    <3>1. IsValueFrame(g, f, v, e)
      BY <1>3, ValueFrameIs, Zenon DEF IsFrame
    <3>2. IsFrame(g)
      BY <1>3, <2>2, WithValueType DEF IsString
    <3>. HIDE DEF g
    <3>3. g.start <= e /\ ~ IsString(g)
      BY <1>3, <3>1 DEF IsValueFrame, IsString
    <3>4. QED
      BY <2>2, <3>2, <3>3 DEF g
  <2>3. CASE f.kind = "map" /\ f.key = {} /\ next = Append(outer, KeyFrame(f, v, raw, e))
    <3>. DEFINE g == KeyFrame(f, v, raw, e)
    <3>1. IsKeyFrame(g, f, v, raw, e)
      BY <1>3, KeyFrameIs, Zenon DEF IsFrame
    <3>2. IsFrame(g)
      BY <1>3, <1>4, WithKeyType
    <3>. HIDE DEF g
    <3>3. g.start <= e /\ ~ IsString(g)
      BY <1>3, <3>1 DEF IsKeyFrame, IsString
    <3>4. QED
      BY <2>3, <3>2, <3>3 DEF g
  <2>. HIDE DEF f, outer, raw
  <2>4. QED
    BY <2>1, <2>2, <2>3, PlacedIs DEF f, outer, raw
<1>. HIDE DEF f, outer, raw
<1>6. PICK g : IsFrame(g) /\ g.start <= e /\ ~ IsString(g) /\ next = Append(outer, g)
  BY <1>5
<1>7. FramesTyped(next, e) /\ Len(next) = n
  BY <1>1, <1>2, <1>6, FramesAppend
<1>8. Containers(next)
  <2>1. Len(next) = Len(outer) + 1 /\ next[Len(outer) + 1] = g /\ \A i \in 1 .. Len(outer) : next[i] = outer[i]
    BY <1>2, <1>6, ListAppend DEF FramesTyped
  <2>2. ASSUME NEW i \in 1 .. Len(next) PROVE ~ IsString(next[i])
    <3>1. CASE i = Len(outer) + 1
      BY <1>6, <2>1, <3>1
    <3>2. CASE i # Len(outer) + 1
      <4>1. i \in 1 .. Len(outer)
        BY <1>2, <2>1, <3>2
      <4>2. QED
        BY <1>2, <2>1, <4>1 DEF Containers
    <3>3. QED
      BY <3>1, <3>2
  <2>3. QED
    BY <2>2 DEF Containers
<1>9. QED
  BY <1>7, <1>8

(* An item that is spelt by the bytes up to e leaves frames that say so.     *)
LEMMA PlacedSpells ==
  ASSUME deterministic, NEW e \in Nat, NEW frames, FramesTyped(frames, e), frames # <<>>,
         NEW bytes \in Seq(Byte), e <= Len(bytes), StackSpells(frames, bytes), MoreFollows(frames),
         NEW v, v.canon \subseteq {SubSeq(bytes, Reached(frames) + 1, e)},
         NEW next \in Placed(frames, v, bytes, e)
  PROVE  StackSpells(next, bytes) /\ Reached(next) = e
<1>. DEFINE n == Len(frames)
            f == frames[n]
            outer == SubSeq(frames, 1, n - 1)
            raw == SubSeq(bytes, f.start + 1, e)
            start == StartsAt(frames, n)
            spelt == SubSeq(bytes, start + 1, f.start)
<1>1. n \in Nat /\ n # 0 /\ n \in 1 .. n
  BY ListReads DEF FramesTyped
<1>2. Reached(frames) = f.start /\ f.start \in Nat /\ f.start <= e /\ start \in Nat
  BY <1>1, ReachedType
<1>3. IsFrame(f) /\ Faithful(f) /\ start <= f.start /\ Spells(f, spelt) /\ f.left # 0
  BY <1>1 DEF FramesTyped, StackSpells, MoreFollows
<1>4. StackSpells(outer, bytes) /\ Reached(outer) = start /\ MoreFollows(outer)
  BY FrontSpells DEF FramesTyped
<1>5. IsList(outer)
  BY FramesFront DEF FramesTyped
<1>6. /\ spelt \in Seq(Byte) /\ raw \in Seq(Byte)
      /\ SubSeq(bytes, start + 1, e) = spelt \o raw
  <2>. DEFINE b == f.start
  <2>1. b \in Nat /\ start \in Nat /\ start <= b /\ b <= e
    BY <1>2, <1>3
  <2>. HIDE DEF b, start
  <2>2. /\ SubSeq(bytes, start + 1, b) \in Seq(Byte) /\ SubSeq(bytes, b + 1, e) \in Seq(Byte)
        /\ SubSeq(bytes, start + 1, e) = SubSeq(bytes, start + 1, b) \o SubSeq(bytes, b + 1, e)
    BY <2>1, SliceJoin
  <2>3. QED
    BY <2>2 DEF b
<1>7. v.canon \subseteq {raw}
  BY <1>2
<1>8. start <= e
  BY <1>2, <1>3
<1>. HIDE DEF raw, start, spelt
<1>9. \E g : Faithful(g) /\ Spells(g, spelt \o raw) /\ g.start = e /\ next = Append(outer, g)
  <2>1. CASE f.kind # "map" /\ next = Append(outer, ItemFrame(f, v, e))
    <3>. DEFINE g == ItemFrame(f, v, e)
    <3>1. IsItemFrame(g, f, v, e)
      BY <1>3, ItemFrameIs, Zenon DEF IsFrame
    <3>2. Faithful(g) /\ Spells(g, spelt \o raw)
      BY <1>3, <1>6, <1>7, <2>1, ItemSpells
    <3>. HIDE DEF g
    <3>3. g.start = e
      BY <3>1 DEF IsItemFrame
    <3>4. QED
      BY <2>1, <3>2, <3>3 DEF g
  <2>2. CASE f.kind = "map" /\ f.key # {} /\ next = Append(outer, ValueFrame(f, v, e))
    <3>. DEFINE g == ValueFrame(f, v, e)
    <3>1. IsValueFrame(g, f, v, e)
      BY <1>3, ValueFrameIs, Zenon DEF IsFrame
    <3>2. Faithful(g) /\ Spells(g, spelt \o raw)
      BY <1>3, <1>6, <1>7, <2>2, ValueSpells
    <3>. HIDE DEF g
    <3>3. g.start = e
      BY <3>1 DEF IsValueFrame
    <3>4. QED
      BY <2>2, <3>2, <3>3 DEF g
  <2>3. CASE f.kind = "map" /\ f.key = {} /\ ~ KeyRefused(f, v.id, raw) /\ next = Append(outer, KeyFrame(f, v, raw, e))
    <3>. DEFINE g == KeyFrame(f, v, raw, e)
    <3>1. IsKeyFrame(g, f, v, raw, e)
      BY <1>3, KeyFrameIs, Zenon DEF IsFrame
    <3>2. \A p \in f.previous : Below(p, raw)
      BY <2>3 DEF KeyRefused
    <3>3. Faithful(g) /\ Spells(g, spelt \o raw)
      BY <1>3, <1>6, <1>7, <2>3, <3>2, KeySpells
    <3>. HIDE DEF g
    <3>4. g.start = e
      BY <3>1 DEF IsKeyFrame
    <3>5. QED
      BY <2>3, <3>3, <3>4 DEF g
  <2>. HIDE DEF f, outer
  <2>4. QED
    BY <2>1, <2>2, <2>3, PlacedIs DEF f, outer, raw
<1>. HIDE DEF f, outer
<1>10. PICK g : Faithful(g) /\ Spells(g, spelt \o raw) /\ g.start = e /\ next = Append(outer, g)
  BY <1>9
<1>11. QED
  BY <1>4, <1>5, <1>6, <1>8, <1>10, PushSpells

----------------------------------------------------------------------------
(* The invariant, and an item that is delivered to the frame around it.      *)

(* The decoder and its frames, in either mode.                               *)
DecoderInPlace ==
  /\ InputInPlace /\ deterministic \in BOOLEAN /\ state \in {"item", "accepted", "failed"}
  /\ FramesTyped(stack, pos) /\ Len(stack) <= MaxDepth + 1
  /\ \A i \in 1 .. Len(stack) : i # Len(stack) => ~ IsString(stack[i])
  /\ state = "accepted" => stack = <<>>
  /\ result # {} <=> state = "accepted"
  /\ \A v \in result \cup before : v.canon \subseteq Seq(Byte)

(* In deterministic mode the frames account for every byte read so far.      *)
StackIsFaithful ==
  deterministic /\ state = "item" => pos = Reached(stack) /\ StackSpells(stack, input)

ReadingInvariant == DecoderInPlace /\ StackIsFaithful /\ OneEncoding

(* A refusal keeps the invariant: nothing is claimed of what was read.       *)
LEMMA FailPreserves ==
  ASSUME DecoderInPlace, state = "item", input' \in Seq(Byte), pos' \in 0 .. Len(input'), pos <= pos', Fail
  PROVE  ReadingInvariant'
<1>1. /\ state' = "failed" /\ source' = source /\ deterministic' = deterministic
      /\ stack' = stack /\ result' = result /\ before' = before
  BY DEF Fail
<1>2. InputInPlace'
  BY <1>1 DEF DecoderInPlace, InputInPlace
<1>3. FramesTyped(stack, pos')
  <2>1. FramesTyped(stack, pos) /\ pos \in Nat /\ pos' \in Nat
    BY DEF DecoderInPlace, InputInPlace
  <2>2. QED
    BY <2>1, FramesLater
<1>4. result = {}
  BY DEF DecoderInPlace
<1>5. DecoderInPlace'
  BY <1>1, <1>2, <1>3, <1>4 DEF DecoderInPlace
<1>6. StackIsFaithful' /\ OneEncoding'
  BY <1>1 DEF StackIsFaithful, OneEncoding
<1>7. QED
  BY <1>5, <1>6 DEF ReadingInvariant

(* A finished item, whose bytes are those since the innermost frame, is put  *)
(* into that frame, or is the result.                                        *)
LEMMA DeliverPreserves ==
  ASSUME DecoderInPlace, state = "item", input' \in Seq(Byte), pos' \in 0 .. Len(input'), pos <= pos',
         NEW frames, FramesTyped(frames, pos), Containers(frames), Len(frames) <= MaxDepth + 1,
         NEW v, v.canon \subseteq Seq(Byte), Deliver(frames, v),
         deterministic => /\ StackSpells(frames, input') /\ MoreFollows(frames)
                          /\ v.canon \subseteq {SubSeq(input', Reached(frames) + 1, pos')}
  PROVE  ReadingInvariant'
<1>1. /\ pos \in Nat /\ pos' \in Nat /\ result = {} /\ deterministic \in BOOLEAN
      /\ source \in Sources \cup {Ended} /\ \A w \in before : w.canon \subseteq Seq(Byte)
  BY DEF DecoderInPlace, InputInPlace
<1>2. FramesTyped(frames, pos')
  BY <1>1, FramesLater
<1>3. CASE Fail
  BY <1>3, FailPreserves
<1>4. CASE ~ Fail /\ frames = <<>>
  <2>1. /\ pos' = Len(input') /\ state' = "accepted" /\ result' = {v} /\ stack' = <<>>
        /\ source' = source /\ deterministic' = deterministic /\ before' = before
    BY <1>4 DEF Deliver
  <2>2. IsList(<<>>) /\ Len(<<>>) = 0
    <3>1. <<>> \in Seq(Byte)
      OBVIOUS
    <3>2. QED
      BY <3>1, SequenceIsList
  <2>3. FramesTyped(<<>>, pos')
    BY <2>2 DEF FramesTyped
  <2>4. InputInPlace'
    BY <1>1, <2>1 DEF InputInPlace
  <2>5. 0 <= MaxDepth + 1
    BY CborAssumption
  <2>6. DecoderInPlace'
    BY <1>1, <2>1, <2>2, <2>3, <2>4, <2>5 DEF DecoderInPlace
  <2>7. StackIsFaithful'
    BY <2>1 DEF StackIsFaithful
  <2>8. ASSUME deterministic PROVE v.canon \subseteq {input'}
    <3>1. Len(frames) = 0
      BY <1>4
    <3>2. Reached(frames) = 0
      BY <3>1 DEF Reached, StartsAt
    <3>3. SubSeq(input', Reached(frames) + 1, pos') = input'
      <4>1. SubSeq(input', 1, Len(input')) = input'
        BY WholePrefix
      <4>2. QED
        BY <2>1, <3>2, <4>1
    <3>4. QED
      BY <2>8, <3>3
  <2>9. OneEncoding'
    BY <2>1, <2>8 DEF OneEncoding
  <2>10. QED
    BY <2>6, <2>7, <2>9 DEF ReadingInvariant
<1>5. CASE ~ Fail /\ frames # <<>>
  <2>1. /\ stack' \in Placed(frames, v, input', pos')
        /\ source' = source /\ deterministic' = deterministic /\ state' = state /\ result' = result
        /\ before' = before
    BY <1>5 DEF Deliver
  <2>2. pos' <= Len(input')
    OBVIOUS
  <2>3. FramesTyped(stack', pos') /\ Len(stack') = Len(frames) /\ Containers(stack')
    BY <1>1, <1>2, <1>5, <2>1, <2>2, PlacedType
  <2>4. InputInPlace'
    BY <1>1, <2>1 DEF InputInPlace
  <2>5. DecoderInPlace'
    BY <1>1, <2>1, <2>3, <2>4 DEF DecoderInPlace, Containers
  <2>6. ASSUME deterministic PROVE StackSpells(stack', input') /\ Reached(stack') = pos'
    BY <1>1, <1>2, <1>5, <2>1, <2>2, <2>6, PlacedSpells
  <2>7. StackIsFaithful'
    BY <2>1, <2>6 DEF StackIsFaithful
  <2>8. OneEncoding'
    BY <2>1 DEF OneEncoding
  <2>9. QED
    BY <2>5, <2>7, <2>8 DEF ReadingInvariant
<1>6. QED
  BY <1>3, <1>4, <1>5

(* Where an item begins there is no string around it, and room in the frame. *)
LEMMA AtItemMeans ==
  ASSUME DecoderInPlace, AtItem
  PROVE  /\ state = "item" /\ Containers(stack) /\ MoreFollows(stack) /\ Len(stack) <= MaxDepth
         /\ FramesTyped(stack, pos)
<1>1. FramesTyped(stack, pos) /\ IsList(stack) /\ Len(stack) \in Nat /\ (stack = <<>> <=> Len(stack) = 0)
  BY ListReads DEF DecoderInPlace, FramesTyped
<1>2. /\ state = "item" /\ Len(stack) <= MaxDepth
      /\ stack # <<>> => stack[Len(stack)].left # 0 /\ stack[Len(stack)].kind \notin {"bytes", "text"}
  BY DEF AtItem, Depth, Full, InString, InContainer, Top
<1>3. ASSUME NEW i \in 1 .. Len(stack) PROVE ~ IsString(stack[i])
  <2>1. CASE i = Len(stack)
    BY <1>1, <1>2, <2>1 DEF IsString
  <2>2. CASE i # Len(stack)
    BY <2>2 DEF DecoderInPlace
  <2>3. QED
    BY <2>1, <2>2
<1>4. QED
  BY <1>1, <1>2, <1>3 DEF Containers, MoreFollows

(* An item of the bytes s.                                                   *)
LEMMA ItemPreserves ==
  ASSUME ReadingInvariant, AtItem, NEW s, Ahead(s), Consume(s),
         NEW v, v.canon \subseteq Seq(Byte), deterministic => v.canon \subseteq {s}, Deliver(stack, v)
  PROVE  ReadingInvariant'
<1>1. DecoderInPlace /\ InputInPlace /\ StackIsFaithful
  BY DEF ReadingInvariant, DecoderInPlace
<1>2. /\ state = "item" /\ Containers(stack) /\ MoreFollows(stack) /\ FramesTyped(stack, pos)
      /\ Len(stack) <= MaxDepth + 1
  BY <1>1, AtItemMeans DEF DecoderInPlace
<1>3. /\ input' \in Seq(Byte) /\ pos' \in 0 .. Len(input') /\ pos' = pos + Len(s)
      /\ SubSeq(input', pos + 1, pos') = s
      /\ \A k \in 1 .. pos : input'[k] = input[k]
  BY <1>1, ConsumeReads
<1>4. pos \in Nat /\ pos <= pos' /\ pos <= Len(input) /\ pos <= Len(input') /\ input \in Seq(Byte)
  BY <1>1, <1>3 DEF Ahead, InputInPlace
<1>5. ASSUME deterministic
      PROVE  /\ StackSpells(stack, input')
             /\ v.canon \subseteq {SubSeq(input', Reached(stack) + 1, pos')}
  <2>1. pos = Reached(stack) /\ StackSpells(stack, input)
    BY <1>1, <1>2, <1>5 DEF StackIsFaithful
  <2>2. StackSpells(stack, input')
    BY <1>2, <1>3, <1>4, <2>1, SpellsSame
  <2>3. QED
    BY <1>3, <1>5, <2>1, <2>2
<1>6. QED
  BY <1>1, <1>2, <1>3, <1>4, <1>5, DeliverPreserves

----------------------------------------------------------------------------
(* One lemma for every step of the decoder.                                  *)

(* The byte that an item begins with.                                        *)
LEMMA FirstRead ==
  ASSUME InputInPlace, NEW first \in Firsts
  PROVE  /\ first \in More(<<>>, 1) /\ Ahead(first) /\ Len(first) = 1
         /\ first \in Seq(Byte) /\ first[1] \in Byte
         /\ Info(first) \in 0 .. 31 /\ Major(first) \in 0 .. 7
<1>1. first \in More(<<>>, 1)
  BY DEF Firsts
<1>2. Ahead(first) /\ Len(first) = Len(<<>>) + 1
  BY <1>1, MoreAhead, NothingAhead
<1>3. Len(first) = 1
  BY <1>2
<1>4. first \in Seq(Byte)
  BY <1>2 DEF Ahead
<1>5. first[1] \in Byte
  BY <1>3, <1>4
<1>6. first[1] \div 32 \in 0 .. 7 /\ first[1] % 32 \in 0 .. 31
  BY <1>5, ByteOfHead
<1>7. QED
  BY <1>1, <1>2, <1>3, <1>4, <1>5, <1>6 DEF Info, Major

(* An argument has a width.                                                  *)
LEMMA WidthType ==
  ASSUME NEW i \in 0 .. 27
  PROVE  Width(i) \in Nat
<1>1. CASE i < 24
  BY <1>1 DEF Width
<1>2. CASE i >= 24
  <2>1. PICK e \in 0 .. 3 : e = i - 24
    BY <1>2
  <2>2. e = 0 \/ e = 1 \/ e = 2 \/ e = 3
    OBVIOUS
  <2>3. Width(i) = 2^e
    <3>1. ~ i < 24
      BY <1>2
    <3>2. Width(i) = 2^(i - 24)
      BY <3>1, Zenon DEF Width
    <3>3. QED
      BY <2>1, <3>2, Zenon
  <2>4. Width(i) = 1 \/ Width(i) = 2 \/ Width(i) = 4 \/ Width(i) = 8
    BY <2>2, <2>3, PowersOfTwo, Zenon
  <2>5. QED
    BY <2>4
<1>3. QED
  BY <1>1, <1>2

(* A head that is read and not refused: in deterministic mode it is the one  *)
(* that dumps writes for its argument.                                       *)
LEMMA HeadRead ==
  ASSUME InputInPlace, NEW first \in Firsts, NEW h \in Heads(first)
  PROVE  /\ Ahead(h) /\ h \in Seq(Byte) /\ Len(h) \in Nat
         /\ Major(h) = Major(first) /\ Major(h) \in 0 .. 7
         /\ Arg(h) \in Seq(Byte) /\ Len(Arg(h)) <= 8 /\ Number(Arg(h)) \in 0 .. Huge
         /\ Number(Arg(h)) < Huge => FromNumber(Number(Arg(h))) = Arg(h)
         /\ ItemHead(Major(h), Arg(h)) \in Seq(Byte)
         /\ deterministic => ItemHead(Major(h), Arg(h)) = h
<1>1. /\ Ahead(first) /\ Len(first) = 1 /\ first \in Seq(Byte) /\ first[1] \in Byte
      /\ Info(first) \in 0 .. 31 /\ Major(first) \in 0 .. 7
  BY FirstRead
<1>2. Info(first) <= 27 /\ h \in More(first, Width(Info(first))) /\ ~ ArgumentRefused(h)
  BY DEF Heads
<1>3. Width(Info(first)) \in Nat
  <2>. DEFINE i == Info(first)
  <2>1. i \in 0 .. 31 /\ i <= 27
    BY <1>1, <1>2
  <2>. HIDE DEF i
  <2>2. i \in 0 .. 27
    BY <2>1
  <2>3. Width(i) \in Nat
    BY <2>2, WidthType
  <2>4. QED
    BY <2>3 DEF i
<1>4. Ahead(h) /\ Len(h) = Len(first) + Width(Info(first)) /\ \A i \in 1 .. Len(first) : h[i] = first[i]
  BY <1>1, <1>2, <1>3, MoreAhead
<1>5. h[1] = first[1]
  BY <1>1, <1>4
<1>6. Info(h) = Info(first) /\ Major(h) = Major(first)
  BY <1>5 DEF Info, Major
<1>7. h \in Seq(Byte)
  BY <1>4 DEF Ahead
<1>8. Len(h) \in Nat \ {0} /\ Len(h) = 1 + Width(Info(h))
  BY <1>1, <1>3, <1>4, <1>6
<1>9. WholeHead(h)
  BY <1>2, <1>6, <1>7, <1>8 DEF WholeHead
<1>10. /\ Arg(h) \in Seq(Byte) /\ Len(Arg(h)) <= 8 /\ Number(Arg(h)) \in 0 .. Huge
       /\ Number(Arg(h)) < Huge => FromNumber(Number(Arg(h))) = Arg(h)
  BY <1>9, ArgType
<1>11. ItemHead(Major(h), Arg(h)) \in Seq(Byte)
  BY <1>1, <1>6, <1>10, HeadBytes
<1>12. ASSUME deterministic PROVE ItemHead(Major(h), Arg(h)) = h
  <2>1. Info(h) >= 24 => ~ NotShortest(Info(h), SubSeq(h, 2, Len(h)))
    BY <1>2, <1>12 DEF ArgumentRefused
  <2>2. QED
    BY <1>9, <2>1, ShortestHead
<1>13. QED
  BY <1>1, <1>4, <1>6, <1>7, <1>8, <1>10, <1>11, <1>12

(* An integer.                                                               *)
LEMMA IntegerPreserves ==
  ASSUME ReadingInvariant, Integer
  PROVE  ReadingInvariant'
<1>1. AtItem /\ InputInPlace
  BY DEF Integer, ReadingInvariant, DecoderInPlace
<1>2. PICK first \in Firsts : \E h \in Heads(first) :
        Consume(h) /\ Deliver(stack, IntegerValue(Major(h), Arg(h)))
  BY DEF Integer
<1>3. PICK h \in Heads(first) : Consume(h) /\ Deliver(stack, IntegerValue(Major(h), Arg(h)))
  BY <1>2
<1>4. /\ Ahead(h) /\ ItemHead(Major(h), Arg(h)) \in Seq(Byte)
      /\ deterministic => ItemHead(Major(h), Arg(h)) = h
  BY <1>1, HeadRead
<1>5. IntegerValue(Major(h), Arg(h)).canon = {ItemHead(Major(h), Arg(h))}
  BY CanonOf DEF IntegerValue
<1>. DEFINE v == IntegerValue(Major(h), Arg(h))
<1>6. Deliver(stack, v)
  BY <1>3
<1>7. v.canon \subseteq Seq(Byte) /\ (deterministic => v.canon \subseteq {h})
  BY <1>4, <1>5
<1>. HIDE DEF v
<1>8. QED
  BY <1>1, <1>3, <1>4, <1>6, <1>7, ItemPreserves

(* A string after its head.                                                  *)
LEMMA StringRead ==
  ASSUME InputInPlace, NEW first \in Firsts, NEW h \in Heads(first), NEW s \in More(h, Number(Arg(h)))
  PROVE  LET content == SubSeq(s, Len(h) + 1, Len(s))
         IN  /\ Ahead(s) /\ content \in Seq(Byte) /\ s = h \o content
             /\ FromNumber(Len(content)) = Arg(h)
<1>. DEFINE content == SubSeq(s, Len(h) + 1, Len(s))
            m == Len(h)
            n == Number(Arg(h))
<1>1. Ahead(h) /\ h \in Seq(Byte) /\ m \in Nat /\ n \in 0 .. Huge /\ (n < Huge => FromNumber(n) = Arg(h))
  BY HeadRead
<1>2. n \in Nat
  BY <1>1, HugeIs
<1>3. Ahead(s) /\ Len(s) = m + n /\ n < Huge /\ \A i \in 1 .. m : s[i] = h[i]
  BY <1>1, <1>2, MoreAhead
<1>4. s \in Seq(Byte)
  BY <1>3 DEF Ahead
<1>5. FromNumber(n) = Arg(h)
  BY <1>1, <1>3
<1>6. content = SubSeq(s, m + 1, m + n) /\ Len(h) = m
  BY <1>3
<1>. HIDE DEF m, n, content
<1>7. m + n <= Len(s) /\ 0 <= m /\ m <= m + n /\ m + n \in Nat
  BY <1>1, <1>2, <1>3
<1>8. content \in Seq(Byte) /\ Len(content) = n
  BY <1>1, <1>2, <1>4, <1>6, <1>7, SliceElements
<1>9. s = h \o content
  <2>. DEFINE front == SubSeq(s, 1, m)
  <2>1. SubSeq(s, 0 + 1, m + n) = SubSeq(s, 0 + 1, m) \o SubSeq(s, m + 1, m + n)
    BY <1>1, <1>4, <1>7, SliceJoin
  <2>2. SubSeq(s, 1, Len(s)) = s
    BY <1>4, WholePrefix
  <2>3. front \in Seq(Byte) /\ Len(front) = m /\ \A i \in 1 .. m : front[i] = s[i]
    BY <1>1, <1>4, <1>7
  <2>. HIDE DEF front
  <2>4. front = h
    BY <1>1, <1>3, <1>6, <2>3, SeqEqualByElements
  <2>5. 0 + 1 = 1
    OBVIOUS
  <2>6. SubSeq(s, 1, m + n) = SubSeq(s, 1, m) \o SubSeq(s, m + 1, m + n)
    BY <2>1, <2>5, Zenon
  <2>7. s = front \o content
    BY <1>3, <1>6, <2>2, <2>6, Zenon DEF front
  <2>8. QED
    BY <2>4, <2>7, Zenon
<1>10. QED
  BY <1>3, <1>5, <1>8, <1>9 DEF content

(* A string of bytes or of text.                                             *)
LEMMA StringPreserves ==
  ASSUME ReadingInvariant, String
  PROVE  ReadingInvariant'
<1>1. AtItem /\ InputInPlace
  BY DEF String, ReadingInvariant, DecoderInPlace
<1>2. PICK first \in Firsts : \E h \in Heads(first) :
        \E s \in More(h, Number(Arg(h))) : \E content \in {SubSeq(s, Len(h) + 1, Len(s))} :
          Consume(s) /\ Deliver(stack, StringValue(Major(h), content))
  BY DEF String
<1>3. PICK h \in Heads(first) :
        \E s \in More(h, Number(Arg(h))) : \E content \in {SubSeq(s, Len(h) + 1, Len(s))} :
          Consume(s) /\ Deliver(stack, StringValue(Major(h), content))
  BY <1>2
<1>4. PICK s \in More(h, Number(Arg(h))) : \E content \in {SubSeq(s, Len(h) + 1, Len(s))} :
          Consume(s) /\ Deliver(stack, StringValue(Major(h), content))
  BY <1>3
<1>. DEFINE content == SubSeq(s, Len(h) + 1, Len(s))
            v == StringValue(Major(h), content)
<1>5. Consume(s) /\ Deliver(stack, v)
  BY <1>4
<1>6. Major(h) \in 0 .. 7 /\ (deterministic => ItemHead(Major(h), Arg(h)) = h)
  BY <1>1, HeadRead
<1>7. /\ Ahead(s) /\ content \in Seq(Byte) /\ s = h \o content
      /\ FromNumber(Len(content)) = Arg(h)
  BY <1>1, StringRead
<1>. HIDE DEF content
<1>8. /\ v.canon = {ItemHead(Major(h), FromNumber(Len(content))) \o content}
      /\ v.canon \subseteq Seq(Byte)
  BY <1>6, <1>7, StringType
<1>9. deterministic => v.canon \subseteq {s}
  BY <1>6, <1>7, <1>8
<1>. HIDE DEF v
<1>10. QED
  BY <1>1, <1>5, <1>7, <1>8, <1>9, ItemPreserves

(* A container opens with the bytes h.                                       *)
LEMMA PushPreserves ==
  ASSUME ReadingInvariant, AtItem, NEW h, Ahead(h), Consume(h),
         NEW kind \in {"array", "map", "tag", "bytes", "text"}, NEW left \in -1 .. Huge,
         NEW tag \in Seq(Byte), Len(tag) <= 8,
         stack' = Append(stack, NewFrame(kind, left, tag, pos')),
         UNCHANGED <<source, deterministic, state, result, before>>,
         deterministic =>
           /\ kind \in {"array", "map", "tag"} /\ left \in 0 .. Huge
           /\ kind = "tag" => left = 1 /\ h = ItemHead(6, tag)
           /\ kind # "tag" /\ left < Huge
                => h = ItemHead(IF kind = "array" THEN 4 ELSE 5, FromNumber(left))
  PROVE  ReadingInvariant'
<1>. DEFINE g == NewFrame(kind, left, tag, pos')
<1>1. DecoderInPlace /\ InputInPlace /\ StackIsFaithful /\ OneEncoding
  BY DEF ReadingInvariant, DecoderInPlace
<1>2. /\ state = "item" /\ Containers(stack) /\ MoreFollows(stack) /\ FramesTyped(stack, pos)
      /\ Len(stack) <= MaxDepth
  BY <1>1, AtItemMeans
<1>3. /\ input' \in Seq(Byte) /\ pos' \in 0 .. Len(input') /\ pos' = pos + Len(h)
      /\ SubSeq(input', pos + 1, pos') = h
      /\ \A k \in 1 .. pos : input'[k] = input[k]
  BY <1>1, ConsumeReads
<1>4. /\ pos \in Nat /\ pos' \in Nat /\ pos <= pos' /\ pos <= Len(input) /\ pos <= Len(input')
      /\ input \in Seq(Byte) /\ h \in Seq(Byte)
  BY <1>1, <1>3 DEF Ahead, InputInPlace
<1>5. IsFrame(g) /\ g.start = pos' /\ g.kind = kind
  BY <1>4, NewFrameType, NewFrameIs DEF IsNewFrame
<1>6. FramesTyped(stack, pos') /\ IsList(stack) /\ Len(stack) \in Nat
  BY <1>2, <1>4, FramesLater, ListReads DEF FramesTyped
<1>. HIDE DEF g
<1>7. stack' = Append(stack, g)
  BY DEF g
<1>8. /\ FramesTyped(stack', pos') /\ Len(stack') = Len(stack) + 1
      /\ \A i \in 1 .. Len(stack) : stack'[i] = stack[i]
  <2>1. g.start <= pos'
    BY <1>4, <1>5
  <2>2. FramesTyped(stack', pos') /\ Len(stack') = Len(stack) + 1
    BY <1>5, <1>6, <1>7, <2>1, FramesAppend
  <2>3. QED
    BY <1>6, <1>7, <2>2, ListAppend
<1>9. DecoderInPlace'
  <2>1. InputInPlace'
    BY <1>1, <1>3 DEF InputInPlace
  <2>2. Len(stack') <= MaxDepth + 1
    <3>1. MaxDepth \in Nat
      BY CborAssumption
    <3>2. QED
      BY <1>2, <1>6, <1>8, <3>1
  <2>3. ASSUME NEW i \in 1 .. Len(stack'), i # Len(stack') PROVE ~ IsString(stack'[i])
    <3>1. i \in 1 .. Len(stack)
      BY <1>6, <1>8, <2>3
    <3>2. QED
      BY <1>2, <1>8, <3>1 DEF Containers
  <2>4. state' # "accepted"
    BY <1>2
  <2>5. QED
    BY <1>1, <1>8, <2>1, <2>2, <2>3, <2>4 DEF DecoderInPlace
<1>10. ASSUME deterministic PROVE pos' = Reached(stack') /\ StackSpells(stack', input')
  <2>1. pos = Reached(stack) /\ StackSpells(stack, input)
    BY <1>1, <1>2, <1>10 DEF StackIsFaithful
  <2>2. StackSpells(stack, input')
    BY <1>2, <1>3, <1>4, <2>1, SpellsSame
  <2>3. Faithful(g) /\ Spells(g, h)
    BY <1>4, <1>10, NewSpells DEF g
  <2>4. Reached(stack) <= g.start /\ Spells(g, SubSeq(input', Reached(stack) + 1, g.start))
    BY <1>3, <1>4, <1>5, <2>1, <2>3
  <2>5. StackSpells(stack', input') /\ Reached(stack') = g.start
    BY <1>2, <1>6, <1>7, <2>2, <2>3, <2>4, PushSpells
  <2>6. QED
    BY <1>5, <2>5
<1>11. StackIsFaithful' /\ OneEncoding'
  BY <1>2, <1>10 DEF StackIsFaithful, OneEncoding
<1>12. QED
  BY <1>9, <1>11 DEF ReadingInvariant

(* An array, a map or a tag begins.                                          *)
LEMMA ContainerPreserves ==
  ASSUME ReadingInvariant, Container
  PROVE  ReadingInvariant'
<1>1. AtItem /\ InputInPlace
  BY DEF Container, ReadingInvariant, DecoderInPlace
<1>2. PICK first \in Firsts :
        /\ Major(first) \in {4, 5, 6}
        /\ \E h \in Heads(first) :
             Push(h, CASE Major(h) = 4 -> Frame("array", Number(Arg(h)), <<>>)
                       [] Major(h) = 5 -> Frame("map", Number(Arg(h)), <<>>)
                       [] OTHER -> Frame("tag", 1, Arg(h)))
  BY DEF Container
<1>3. PICK h \in Heads(first) :
             Push(h, CASE Major(h) = 4 -> Frame("array", Number(Arg(h)), <<>>)
                       [] Major(h) = 5 -> Frame("map", Number(Arg(h)), <<>>)
                       [] OTHER -> Frame("tag", 1, Arg(h)))
  BY <1>2
<1>4. /\ Ahead(h) /\ Major(h) = Major(first)
      /\ Arg(h) \in Seq(Byte) /\ Len(Arg(h)) <= 8 /\ Number(Arg(h)) \in 0 .. Huge
      /\ Number(Arg(h)) < Huge => FromNumber(Number(Arg(h))) = Arg(h)
      /\ deterministic => ItemHead(Major(h), Arg(h)) = h
  BY <1>1, HeadRead
<1>5. Number(Arg(h)) \in -1 .. Huge /\ 1 \in -1 .. Huge /\ 1 \in 0 .. Huge
  BY <1>4, HugeIs
<1>6. <<>> \in Seq(Byte) /\ Len(<<>>) <= 8
  OBVIOUS
<1>7. Consume(h) /\ UNCHANGED <<source, deterministic, state, result, before>>
  BY <1>3 DEF Push
<1>8. CASE Major(h) = 4
  <2>1. Push(h, Frame("array", Number(Arg(h)), <<>>))
    BY <1>3, <1>8
  <2>2. stack' = Append(stack, NewFrame("array", Number(Arg(h)), <<>>, pos'))
    BY <2>1 DEF Push, NewFrame
  <2>. DEFINE n == Number(Arg(h))
              kind == "array"
              none == <<>>
  <2>3. /\ kind \in {"array", "map", "tag"} /\ kind \in {"array", "map", "tag", "bytes", "text"}
        /\ n \in 0 .. Huge /\ n \in -1 .. Huge /\ none \in Seq(Byte) /\ Len(none) <= 8
        /\ stack' = Append(stack, NewFrame(kind, n, none, pos'))
    BY <1>4, <1>5, <1>6, <2>2
  <2>4. /\ kind # "tag"
        /\ deterministic /\ n < Huge => h = ItemHead(IF kind = "array" THEN 4 ELSE 5, FromNumber(n))
    BY <1>4, <1>8
  <2>. HIDE DEF n, kind, none
  <2>5. QED
    BY <1>1, <1>4, <1>7, <2>3, <2>4, PushPreserves
<1>9. CASE Major(h) = 5
  <2>1. Push(h, Frame("map", Number(Arg(h)), <<>>))
    BY <1>3, <1>9
  <2>2. stack' = Append(stack, NewFrame("map", Number(Arg(h)), <<>>, pos'))
    BY <2>1 DEF Push, NewFrame
  <2>. DEFINE n == Number(Arg(h))
              kind == "map"
              none == <<>>
  <2>3. /\ kind \in {"array", "map", "tag"} /\ kind \in {"array", "map", "tag", "bytes", "text"}
        /\ n \in 0 .. Huge /\ n \in -1 .. Huge /\ none \in Seq(Byte) /\ Len(none) <= 8
        /\ stack' = Append(stack, NewFrame(kind, n, none, pos'))
    BY <1>4, <1>5, <1>6, <2>2
  <2>4. /\ kind # "tag"
        /\ deterministic /\ n < Huge => h = ItemHead(IF kind = "array" THEN 4 ELSE 5, FromNumber(n))
    BY <1>4, <1>9
  <2>. HIDE DEF n, kind, none
  <2>5. QED
    BY <1>1, <1>4, <1>7, <2>3, <2>4, PushPreserves
<1>10. CASE Major(h) = 6
  <2>1. Push(h, Frame("tag", 1, Arg(h)))
    BY <1>3, <1>10
  <2>2. stack' = Append(stack, NewFrame("tag", 1, Arg(h), pos'))
    BY <2>1 DEF Push, NewFrame
  <2>. DEFINE n == 1
              kind == "tag"
              tag == Arg(h)
  <2>3. /\ kind \in {"array", "map", "tag"} /\ kind \in {"array", "map", "tag", "bytes", "text"}
        /\ n \in 0 .. Huge /\ n \in -1 .. Huge /\ tag \in Seq(Byte) /\ Len(tag) <= 8
        /\ stack' = Append(stack, NewFrame(kind, n, tag, pos'))
    BY <1>4, <1>5, <2>2
  <2>4. kind = "tag" /\ n = 1 /\ (deterministic => h = ItemHead(6, tag))
    BY <1>4, <1>10
  <2>. HIDE DEF n, kind, tag
  <2>5. QED
    BY <1>1, <1>4, <1>7, <2>3, <2>4, PushPreserves
<1>11. QED
  BY <1>2, <1>4, <1>8, <1>9, <1>10

(* A container or string of indefinite length, in the relaxed mode only.     *)
LEMMA IndefiniteItemPreserves ==
  ASSUME ReadingInvariant, IndefiniteItem
  PROVE  ReadingInvariant'
<1>1. AtItem /\ InputInPlace /\ ~ deterministic
  BY DEF IndefiniteItem, ReadingInvariant, DecoderInPlace
<1>. DEFINE kindOf(first) == CASE Major(first) = 2 -> "bytes" [] Major(first) = 3 -> "text"
                               [] Major(first) = 4 -> "array" [] OTHER -> "map"
<1>2. PICK first \in Firsts : Push(first, Frame(kindOf(first), -1, <<>>))
  BY DEF IndefiniteItem
<1>3. Ahead(first)
  BY <1>1, FirstRead
<1>4. kindOf(first) \in {"array", "map", "tag", "bytes", "text"}
  OBVIOUS
<1>5. -1 \in -1 .. Huge /\ <<>> \in Seq(Byte) /\ Len(<<>>) <= 8
  BY HugeIs
<1>. HIDE DEF kindOf
<1>. DEFINE kind == kindOf(first)
            left == -1
            none == <<>>
<1>6. /\ kind \in {"array", "map", "tag", "bytes", "text"} /\ left \in -1 .. Huge
      /\ none \in Seq(Byte) /\ Len(none) <= 8
  BY <1>4, <1>5
<1>7. /\ Consume(first) /\ UNCHANGED <<source, deterministic, state, result, before>>
      /\ stack' = Append(stack, NewFrame(kind, left, none, pos'))
  BY <1>2 DEF Push, NewFrame
<1>. HIDE DEF kind, left, none
<1>8. QED
  BY <1>1, <1>3, <1>6, <1>7, PushPreserves

(* No float is written.                                                      *)
LEMMA FloatCanon == \A b : FloatValue(b).canon = {}
<1>1. SUFFICES ASSUME NEW b PROVE FloatValue(b).canon = {}
  OBVIOUS
<1>2. \E type, content : FloatValue(b) = Value(type, content, {})
  BY Zenon DEF FloatValue
<1>3. QED
  BY <1>2, CanonOf

(* Constants, simple values and floats.                                      *)
LEMMA SimplePreserves ==
  ASSUME ReadingInvariant, Simple
  PROVE  ReadingInvariant'
<1>1. AtItem /\ InputInPlace
  BY DEF Simple, ReadingInvariant, DecoderInPlace
<1>2. PICK first \in Firsts :
       \/ /\ Info(first) \in 20..22
          /\ Consume(first) /\ Deliver(stack, Value("constant", Info(first), {first}))
       \/ /\ Info(first) \in (0..19) \cup {23}
          /\ Consume(first) /\ Deliver(stack, Value("simple", Info(first), {}))
       \/ /\ Info(first) = 24
          /\ \E h \in More(first, 1) :
               h[2] >= 32 /\ Consume(h) /\ Deliver(stack, Value("simple", h[2], {}))
       \/ /\ Info(first) = 25
          /\ \E h \in More(first, 2) : \E b \in {SubSeq(h, 2, 3)} :
               /\ deterministic /\ IsNan(b) => b = <<126, 0>>
               /\ Consume(h) /\ Deliver(stack, FloatValue(b))
  BY DEF Simple
<1>3. Ahead(first) /\ first \in Seq(Byte)
  BY <1>1, FirstRead
<1>4. ASSUME NEW h, Ahead(h), Consume(h), NEW v, v.canon \subseteq {h}, Deliver(stack, v)
      PROVE  ReadingInvariant'
  <2>1. h \in Seq(Byte)
    BY <1>4 DEF Ahead
  <2>2. v.canon \subseteq Seq(Byte)
    BY <1>4, <2>1
  <2>3. QED
    BY <1>1, <1>4, <2>2, ItemPreserves
<1>5. CASE Consume(first) /\ Deliver(stack, Value("constant", Info(first), {first}))
  <2>. DEFINE v == Value("constant", Info(first), {first})
  <2>1. v.canon = {first}
    BY CanonOf
  <2>2. Deliver(stack, v)
    BY <1>5
  <2>. HIDE DEF v
  <2>3. QED
    BY <1>3, <1>4, <1>5, <2>1, <2>2
<1>6. CASE Consume(first) /\ Deliver(stack, Value("simple", Info(first), {}))
  <2>. DEFINE v == Value("simple", Info(first), {})
  <2>1. v.canon = {}
    BY CanonOf
  <2>2. Deliver(stack, v)
    BY <1>6
  <2>. HIDE DEF v
  <2>3. QED
    BY <1>3, <1>4, <1>6, <2>1, <2>2
<1>7. CASE \E h \in More(first, 1) : Consume(h) /\ Deliver(stack, Value("simple", h[2], {}))
  <2>1. PICK h \in More(first, 1) : Consume(h) /\ Deliver(stack, Value("simple", h[2], {}))
    BY <1>7
  <2>2. Ahead(h)
    BY <1>1, <1>3, MoreAhead
  <2>. DEFINE v == Value("simple", h[2], {})
  <2>3. v.canon = {}
    BY CanonOf
  <2>4. Deliver(stack, v)
    BY <2>1
  <2>. HIDE DEF v
  <2>5. QED
    BY <1>4, <2>1, <2>2, <2>3, <2>4
<1>8. CASE \E h \in More(first, 2) : \E b \in {SubSeq(h, 2, 3)} : Consume(h) /\ Deliver(stack, FloatValue(b))
  <2>1. PICK h \in More(first, 2) : \E b \in {SubSeq(h, 2, 3)} : Consume(h) /\ Deliver(stack, FloatValue(b))
    BY <1>8
  <2>2. PICK b : Consume(h) /\ Deliver(stack, FloatValue(b))
    BY <2>1
  <2>3. Ahead(h)
    BY <1>1, <1>3, MoreAhead
  <2>. DEFINE v == FloatValue(b)
  <2>4. v.canon = {}
    BY FloatCanon
  <2>5. Deliver(stack, v)
    BY <2>2
  <2>. HIDE DEF v
  <2>6. QED
    BY <1>4, <2>2, <2>3, <2>4, <2>5
<1>9. QED
  BY <1>2, <1>5, <1>6, <1>7, <1>8

(* The innermost container.                                                  *)
LEMMA TopIs ==
  ASSUME ReadingInvariant, stack # <<>>
  PROVE  /\ IsFrame(Top) /\ Top.start <= pos /\ Len(stack) \in Nat \ {0}
         /\ FramesTyped(Outer, pos) /\ Containers(Outer) /\ Len(Outer) = Len(stack) - 1
         /\ Len(Outer) <= MaxDepth + 1 /\ Len(Outer) + 1 <= MaxDepth + 1
         /\ \A i \in 1 .. Len(Outer) : Outer[i] = stack[i]
         /\ deterministic /\ state = "item" => Faithful(Top) /\ ~ IsString(Top)
<1>. DEFINE n == Len(stack)
<1>1. DecoderInPlace /\ StackIsFaithful /\ FramesTyped(stack, pos) /\ n <= MaxDepth + 1
  BY DEF ReadingInvariant, DecoderInPlace
<1>2. n \in Nat \ {0}
  BY <1>1, ListReads DEF FramesTyped
<1>3. n \in 1 .. n /\ Top = stack[n]
  BY <1>2 DEF Top
<1>4. IsFrame(Top) /\ Top.start <= pos
  BY <1>1, <1>3 DEF FramesTyped
<1>5. /\ FramesTyped(Outer, pos) /\ Len(Outer) = n - 1
      /\ \A i \in 1 .. Len(Outer) : Outer[i] = stack[i]
  BY <1>1, FramesFront DEF Outer
<1>. HIDE DEF n
<1>6. MaxDepth \in Nat
  BY CborAssumption
<1>7. Len(Outer) <= MaxDepth + 1 /\ Len(Outer) + 1 <= MaxDepth + 1
  BY <1>1, <1>2, <1>5, <1>6
<1>8. ASSUME NEW i \in 1 .. Len(Outer) PROVE ~ IsString(Outer[i])
  <2>1. i \in 1 .. n /\ i # n
    BY <1>2, <1>5, <1>8
  <2>2. ~ IsString(stack[i])
    BY <1>1, <2>1 DEF DecoderInPlace, n
  <2>3. QED
    BY <1>5, <2>2
<1>9. ASSUME deterministic, state = "item" PROVE Faithful(Top) /\ ~ IsString(Top)
  <2>1. Faithful(Top)
    BY <1>1, <1>3, <1>9 DEF StackIsFaithful, StackSpells, n
  <2>2. QED
    BY <2>1 DEF Faithful, IsString
<1>10. QED
  BY <1>2, <1>4, <1>5, <1>7, <1>8, <1>9 DEF Containers, n

(* A break ends what has no length, in the relaxed mode only.                *)
LEMMA BreakPreserves ==
  ASSUME ReadingInvariant, Break
  PROVE  ReadingInvariant'
<1>1. /\ DecoderInPlace /\ InputInPlace /\ state = "item" /\ stack # <<>> /\ Top.left = -1
      /\ <<255>> \in More(<<>>, 1) /\ Consume(<<255>>)
  BY DEF Break, Indefinite, InContainer, ReadingInvariant, DecoderInPlace
<1>2. ~ deterministic
  <2>1. ASSUME deterministic PROVE Top.left >= 0
    BY <1>1, <2>1, TopIs DEF Faithful
  <2>2. QED
    BY <1>1, <2>1
<1>3. Ahead(<<255>>)
  BY <1>1, MoreAhead, NothingAhead
<1>4. input' \in Seq(Byte) /\ pos' \in 0 .. Len(input') /\ pos' = pos + Len(<<255>>)
  BY <1>1, <1>3, ConsumeReads
<1>5. pos <= pos'
  BY <1>1, <1>4 DEF InputInPlace
<1>6. CASE Top.key # {}
  BY <1>1, <1>4, <1>5, <1>6, FailPreserves DEF Break
<1>7. CASE Top.key = {}
  <2>. DEFINE v == Closed(Top)
              frames == Outer
  <2>1. FramesTyped(frames, pos) /\ Containers(frames) /\ Len(frames) <= MaxDepth + 1
    BY <1>1, TopIs
  <2>2. v.canon \subseteq Seq(Byte)
    BY <1>1, TopIs, ClosedType
  <2>3. Deliver(frames, v)
    BY <1>7 DEF Break
  <2>. HIDE DEF v, frames
  <2>4. QED
    BY <1>1, <1>2, <1>4, <1>5, <2>1, <2>2, <2>3, DeliverPreserves
<1>8. QED
  BY <1>6, <1>7

(* The last item of a container is in: it goes into the frame around it.     *)
LEMMA ClosePreserves ==
  ASSUME ReadingInvariant, Close
  PROVE  ReadingInvariant'
<1>1. /\ DecoderInPlace /\ InputInPlace /\ StackIsFaithful /\ FramesTyped(stack, pos)
      /\ state = "item" /\ stack # <<>> /\ Top.left = 0
      /\ input' = input /\ pos' = pos /\ Deliver(Outer, Closed(Top))
  BY DEF Close, Full, InContainer, ReadingInvariant, DecoderInPlace
<1>2. /\ input \in Seq(Byte) /\ pos \in Nat /\ pos <= Len(input) /\ input' \in Seq(Byte)
      /\ pos' \in 0 .. Len(input') /\ pos <= pos'
  BY <1>1 DEF InputInPlace
<1>3. /\ IsFrame(Top) /\ FramesTyped(Outer, pos) /\ Containers(Outer) /\ Len(Outer) <= MaxDepth + 1
      /\ Len(stack) \in Nat \ {0}
  BY <1>1, TopIs
<1>4. Closed(Top).canon \subseteq Seq(Byte)
  BY <1>3, ClosedType
<1>5. ASSUME deterministic
      PROVE  /\ StackSpells(Outer, input') /\ MoreFollows(Outer)
             /\ Closed(Top).canon \subseteq {SubSeq(input', Reached(Outer) + 1, pos')}
  <2>. DEFINE n == Len(stack)
              a == StartsAt(stack, n)
              bytes == SubSeq(input, a + 1, pos)
  <2>1. pos = Reached(stack) /\ StackSpells(stack, input)
    BY <1>1, <1>5 DEF StackIsFaithful
  <2>2. IsList(stack) /\ n \in 1 .. n /\ Top = stack[n]
    BY <1>1, <1>3 DEF FramesTyped, Top
  <2>3. StackSpells(Outer, input) /\ Reached(Outer) = a /\ MoreFollows(Outer)
    BY <1>1, <2>1, <2>2, FrontSpells DEF Outer
  <2>4. Top.start = pos /\ a \in Nat
    BY <1>1, <1>2, <2>1, <2>2, ReachedType
  <2>5. Faithful(Top) /\ a <= Top.start /\ Spells(Top, SubSeq(input, a + 1, Top.start))
    BY <2>1, <2>2 DEF StackSpells
  <2>. HIDE DEF n, a
  <2>6. Spells(Top, bytes)
    BY <2>4, <2>5
  <2>7. bytes \in Seq(Byte)
    BY <1>2, <2>4, <2>5, SliceJoin
  <2>. HIDE DEF bytes
  <2>8. Closed(Top).canon \subseteq {bytes}
    BY <1>1, <1>3, <2>5, <2>6, <2>7, ClosedSpells
  <2>9. QED
    BY <1>1, <2>3, <2>8 DEF bytes
<1>. DEFINE v == Closed(Top)
            frames == Outer
<1>6. /\ FramesTyped(frames, pos) /\ Containers(frames) /\ Len(frames) <= MaxDepth + 1
      /\ v.canon \subseteq Seq(Byte) /\ Deliver(frames, v)
      /\ deterministic => /\ StackSpells(frames, input') /\ MoreFollows(frames)
                          /\ v.canon \subseteq {SubSeq(input', Reached(frames) + 1, pos')}
  BY <1>1, <1>3, <1>4, <1>5
<1>. HIDE DEF v, frames
<1>7. QED
  BY <1>1, <1>2, <1>6, DeliverPreserves

(* A refusal where an item begins.                                           *)
LEMMA RefusePreserves ==
  ASSUME ReadingInvariant, Refuse
  PROVE  ReadingInvariant'
<1>1. DecoderInPlace /\ InputInPlace /\ state = "item" /\ input' = input /\ pos' = pos /\ Fail
  BY DEF Refuse, ReadingInvariant, DecoderInPlace
<1>2. input' \in Seq(Byte) /\ pos' \in 0 .. Len(input') /\ pos <= pos'
  BY <1>1 DEF InputInPlace
<1>3. QED
  BY <1>1, <1>2, FailPreserves

ChunkFrame(f, content) == [f EXCEPT !.ids = Append(@, content)]

IsChunkFrame(g, f, content) ==
  /\ DOMAIN g = FrameFields /\ g.kind = f.kind /\ g.left = f.left /\ g.tag = f.tag
  /\ g.ids = Append(f.ids, content) /\ g.body = f.body /\ g.key = f.key
  /\ g.start = f.start /\ g.previous = f.previous /\ g.pairs = f.pairs

(* What a chunk changes in a string of indefinite length.                    *)
LEMMA ChunkFrameIs ==
  ASSUME NEW f, DOMAIN f = FrameFields, NEW content
  PROVE  IsChunkFrame(ChunkFrame(f, content), f, content)
  BY DEF IsChunkFrame, ChunkFrame, FrameFields

LEMMA ChunkFrameType ==
  ASSUME NEW f, IsFrame(f), f.kind \in {"bytes", "text"}, NEW content \in Seq(Byte)
  PROVE  IsFrame(ChunkFrame(f, content))
<1>. DEFINE g == ChunkFrame(f, content)
<1>1. DOMAIN f = FrameFields
  BY DEF IsFrame
<1>2. IsChunkFrame(g, f, content)
  BY <1>1, ChunkFrameIs
<1>. HIDE DEF g
<1>3. f.ids \in Seq(Seq(Byte))
  BY DEF IsFrame
<1>4. g.ids \in Seq(Seq(Byte))
  BY <1>2, <1>3 DEF IsChunkFrame
<1>5. IsList(g.ids)
  BY <1>4, SequenceIsList
<1>6. IsFrame(g)
  BY <1>2, <1>4, <1>5, Zenon DEF IsFrame, IsChunkFrame
<1>7. QED
  BY <1>6 DEF g

(* A chunk of a string of indefinite length, in the relaxed mode only.       *)
LEMMA ChunkPreserves ==
  ASSUME ReadingInvariant, Chunk
  PROVE  ReadingInvariant'
<1>1. /\ DecoderInPlace /\ InputInPlace /\ OneEncoding /\ state = "item" /\ stack # <<>>
      /\ Top.kind \in {"bytes", "text"}
  BY DEF Chunk, InString, InContainer, ReadingInvariant, DecoderInPlace
<1>2. ~ deterministic
  BY <1>1, TopIs DEF IsString
<1>3. PICK first \in Firsts : \E h \in Heads(first) : \E s \in More(h, Number(Arg(h))) :
         \E content \in {SubSeq(s, Len(h) + 1, Len(s))} :
           /\ Consume(s) /\ stack' = Append(Outer, [Top EXCEPT !.ids = Append(@, content)])
           /\ UNCHANGED <<source, deterministic, state, result, before>>
  BY DEF Chunk
<1>4. PICK h \in Heads(first) : \E s \in More(h, Number(Arg(h))) :
         \E content \in {SubSeq(s, Len(h) + 1, Len(s))} :
           /\ Consume(s) /\ stack' = Append(Outer, [Top EXCEPT !.ids = Append(@, content)])
           /\ UNCHANGED <<source, deterministic, state, result, before>>
  BY <1>3
<1>5. PICK s \in More(h, Number(Arg(h))) :
         \E content \in {SubSeq(s, Len(h) + 1, Len(s))} :
           /\ Consume(s) /\ stack' = Append(Outer, [Top EXCEPT !.ids = Append(@, content)])
           /\ UNCHANGED <<source, deterministic, state, result, before>>
  BY <1>4
<1>. DEFINE content == SubSeq(s, Len(h) + 1, Len(s))
            g == ChunkFrame(Top, content)
<1>6. /\ Consume(s) /\ stack' = Append(Outer, g)
      /\ UNCHANGED <<source, deterministic, state, result, before>>
  BY <1>5 DEF ChunkFrame
<1>7. Ahead(s) /\ content \in Seq(Byte)
  BY <1>1, StringRead
<1>. HIDE DEF content
<1>8. /\ IsFrame(Top) /\ Top.start <= pos /\ FramesTyped(Outer, pos) /\ Containers(Outer)
      /\ Len(Outer) + 1 <= MaxDepth + 1
  BY <1>1, TopIs
<1>9. IsFrame(g) /\ g.start = Top.start
  <2>1. DOMAIN Top = FrameFields
    BY <1>8 DEF IsFrame
  <2>2. IsChunkFrame(g, Top, content)
    BY <2>1, ChunkFrameIs
  <2>3. QED
    BY <1>1, <1>7, <1>8, <2>2, ChunkFrameType DEF IsChunkFrame
<1>. HIDE DEF g
<1>10. /\ input' \in Seq(Byte) /\ pos' \in 0 .. Len(input') /\ pos' = pos + Len(s)
  BY <1>1, <1>6, <1>7, ConsumeReads
<1>11. pos \in Nat /\ pos' \in Nat /\ pos <= pos'
  BY <1>1, <1>7, <1>10 DEF InputInPlace, Ahead
<1>12. FramesTyped(stack', pos) /\ Len(stack') = Len(Outer) + 1 /\ IsList(Outer) /\ Len(Outer) \in Nat
  <2>1. g.start <= pos
    BY <1>8, <1>9
  <2>2. IsList(Outer)
    BY <1>8 DEF FramesTyped
  <2>3. QED
    BY <1>6, <1>8, <1>9, <2>1, <2>2, FramesAppend, ListReads
<1>13. FramesTyped(stack', pos')
  BY <1>11, <1>12, FramesLater
<1>14. ASSUME NEW i \in 1 .. Len(stack'), i # Len(stack') PROVE ~ IsString(stack'[i])
  <2>1. i \in 1 .. Len(Outer)
    BY <1>12, <1>14
  <2>2. stack'[i] = Outer[i]
    BY <1>6, <1>12, <2>1, ListAppend
  <2>3. QED
    BY <1>8, <2>1, <2>2 DEF Containers
<1>15. InputInPlace'
  BY <1>1, <1>6, <1>10 DEF InputInPlace
<1>16. DecoderInPlace'
  BY <1>1, <1>6, <1>8, <1>12, <1>13, <1>14, <1>15 DEF DecoderInPlace
<1>17. StackIsFaithful' /\ OneEncoding'
  BY <1>1, <1>2, <1>6 DEF StackIsFaithful, OneEncoding
<1>18. QED
  BY <1>16, <1>17 DEF ReadingInvariant

(* Before the first item there is nothing to say.                            *)
LEMMA NoFrames ==
  /\ \A e : FramesTyped(<<>>, e)
  /\ Reached(<<>>) = 0 /\ \A bytes : StackSpells(<<>>, bytes)
<1>1. <<>> \in Seq(Byte) /\ Len(<<>>) = 0
  OBVIOUS
<1>2. IsList(<<>>)
  BY <1>1, SequenceIsList
<1>3. QED
  BY <1>1, <1>2 DEF FramesTyped, Reached, StartsAt, StackSpells

(* A second decoding begins with nothing read.                               *)
LEMMA AgainPreserves ==
  ASSUME ReadingInvariant, Again
  PROVE  ReadingInvariant'
<1>1. DecoderInPlace /\ InputInPlace /\ state = "accepted" /\ stack = <<>>
  BY DEF Again, ReadingInvariant, DecoderInPlace
<1>2. /\ before' = result /\ result' = {} /\ state' = "item" /\ pos' = 0 /\ source' = Ended
      /\ stack' = <<>> /\ deterministic' \in BOOLEAN
      /\ input' = input \/ \E v \in result : input' \in v.canon
  BY <1>1 DEF Again
<1>3. input' \in Seq(Byte)
  <2>1. input \in Seq(Byte) /\ \A v \in result : v.canon \subseteq Seq(Byte)
    BY <1>1 DEF DecoderInPlace, InputInPlace
  <2>2. QED
    BY <1>2, <2>1
<1>4. InputInPlace'
  BY <1>2, <1>3 DEF InputInPlace
<1>5. DecoderInPlace'
  <2>1. FramesTyped(stack', pos') /\ Len(stack') = 0
    BY <1>2, NoFrames
  <2>2. 0 <= MaxDepth + 1
    BY CborAssumption
  <2>3. \A v \in result' \cup before' : v.canon \subseteq Seq(Byte)
    BY <1>1, <1>2 DEF DecoderInPlace
  <2>4. \A i \in 1 .. Len(stack') : i # Len(stack') => ~ IsString(stack'[i])
    BY <2>1
  <2>5. QED
    BY <1>2, <1>4, <2>1, <2>2, <2>3, <2>4 DEF DecoderInPlace
<1>6. StackIsFaithful' /\ OneEncoding'
  BY <1>2, NoFrames DEF StackIsFaithful, OneEncoding
<1>7. QED
  BY <1>5, <1>6 DEF ReadingInvariant

(* Steps that change none of the variables.                                  *)
LEMMA StutterPreserves ==
  ASSUME ReadingInvariant, UNCHANGED vars
  PROVE  ReadingInvariant'
<1>1. /\ input' = input /\ source' = source /\ pos' = pos /\ deterministic' = deterministic
      /\ stack' = stack /\ state' = state /\ result' = result /\ before' = before
  BY DEF vars
<1>2. DecoderInPlace' /\ StackIsFaithful' /\ OneEncoding'
  BY <1>1 DEF ReadingInvariant, DecoderInPlace, InputInPlace, StackIsFaithful, OneEncoding
<1>3. QED
  BY <1>2 DEF ReadingInvariant

(* The invariant holds where decoding begins.                                *)
LEMMA InitReads == Init => ReadingInvariant
<1>1. SUFFICES ASSUME Init PROVE ReadingInvariant
  OBVIOUS
<1>2. /\ input = <<>> /\ source \in Sources /\ pos = 0 /\ deterministic \in BOOLEAN
      /\ stack = <<>> /\ state = "item" /\ result = {} /\ before = {}
  BY <1>1 DEF Init
<1>3. InputInPlace
  <2>1. input \in Seq(Byte) /\ Len(input) = 0
    BY <1>2
  <2>2. QED
    BY <1>2, <2>1 DEF InputInPlace
<1>4. FramesTyped(stack, pos) /\ Len(stack) = 0 /\ Reached(stack) = 0 /\ StackSpells(stack, input)
  BY <1>2, NoFrames
<1>5. 0 <= MaxDepth + 1
  BY CborAssumption
<1>6. DecoderInPlace
  BY <1>2, <1>3, <1>4, <1>5 DEF DecoderInPlace
<1>7. StackIsFaithful /\ OneEncoding
  BY <1>2, <1>4 DEF StackIsFaithful, OneEncoding
<1>8. QED
  BY <1>6, <1>7 DEF ReadingInvariant

(* In every state the frames on the stack are typed and in place, and in     *)
(* deterministic mode they spell the bytes read: ReadingInvariant of the     *)
(* decoder in _cbor.py, for every source of input, every depth limit and     *)
(* both modes.                                                               *)
THEOREM DecoderKeepsItsPlace == Spec => []ReadingInvariant
<1>1. Init => ReadingInvariant
  BY InitReads
<1>2. ReadingInvariant /\ [Next]_vars => ReadingInvariant'
  <2>1. SUFFICES ASSUME ReadingInvariant, [Next]_vars PROVE ReadingInvariant'
    OBVIOUS
  <2>2. CASE Integer
    BY <2>1, <2>2, IntegerPreserves
  <2>3. CASE String
    BY <2>1, <2>3, StringPreserves
  <2>4. CASE Container
    BY <2>1, <2>4, ContainerPreserves
  <2>5. CASE IndefiniteItem
    BY <2>1, <2>5, IndefiniteItemPreserves
  <2>6. CASE Simple
    BY <2>1, <2>6, SimplePreserves
  <2>7. CASE Break
    BY <2>1, <2>7, BreakPreserves
  <2>8. CASE Chunk
    BY <2>1, <2>8, ChunkPreserves
  <2>9. CASE Close
    BY <2>1, <2>9, ClosePreserves
  <2>10. CASE Refuse
    BY <2>1, <2>10, RefusePreserves
  <2>11. CASE Again
    BY <2>1, <2>11, AgainPreserves
  <2>12. CASE UNCHANGED vars
    BY <2>1, <2>12, StutterPreserves
  <2>13. QED
    BY <2>1, <2>2, <2>3, <2>4, <2>5, <2>6, <2>7, <2>8, <2>9, <2>10, <2>11, <2>12 DEF Next, Decode
<1>3. QED
  BY <1>1, <1>2, PTL DEF Spec

(* The position of the decoder never leaves the input, no frame begins after *)
(* it, and the stack of containers never grows beyond MAX_CBOR_DEPTH: what   *)
(* keeps hostile input harmless.                                             *)
THEOREM DecoderIsTyped == Spec => []TypeOK
<1>1. ReadingInvariant => TypeOK
  <2>1. SUFFICES ASSUME ReadingInvariant PROVE TypeOK
    OBVIOUS
  <2>2. DecoderInPlace /\ InputInPlace /\ FramesTyped(stack, pos)
    BY <2>1 DEF ReadingInvariant, DecoderInPlace
  <2>3. DOMAIN stack = 1 .. Len(stack)
    BY <2>2, ListReads DEF FramesTyped
  <2>4. pos \in Nat
    BY <2>2 DEF InputInPlace
  <2>5. ASSUME NEW i \in DOMAIN stack
        PROVE  /\ stack[i].kind \in {"array", "map", "tag", "bytes", "text"}
               /\ stack[i].left \in -1..Huge /\ stack[i].start \in 0..pos
    <3>1. IsFrame(stack[i]) /\ stack[i].start <= pos
      BY <2>2, <2>3, <2>5 DEF FramesTyped
    <3>2. stack[i].start \in Nat
      BY <3>1 DEF IsFrame
    <3>3. stack[i].start \in 0 .. pos
      BY <2>4, <3>1, <3>2
    <3>4. QED
      BY <3>1, <3>3 DEF IsFrame
  <2>6. /\ input \in Seq(0..255) /\ pos \in 0..Len(input)
        /\ source \in Sources \union {Ended} /\ deterministic \in BOOLEAN
        /\ state \in {"item", "accepted", "failed"}
        /\ Len(stack) <= MaxDepth + 1
        /\ (result # {}) = (state = "accepted")
    BY <2>2 DEF DecoderInPlace, InputInPlace, Byte
  <2>7. QED
    BY <2>5, <2>6 DEF TypeOK
<1>2. QED
  BY <1>1, DecoderKeepsItsPlace, PTL

(* loads in deterministic mode and dumps agree on one encoding: a value that *)
(* dumps can write is accepted from the bytes that dumps writes for it and   *)
(* from no others, whatever its size and nesting.                            *)
THEOREM OnlyOneEncodingIsRead == Spec => []OneEncoding
<1>1. ReadingInvariant => OneEncoding
  BY DEF ReadingInvariant
<1>2. QED
  BY <1>1, DecoderKeepsItsPlace, PTL

----------------------------------------------------------------------------
(* JUMBF: the state of the parser, and the parts of a superbox.              *)

(* What a header may hold.                                                   *)
IsHeader(h) == h.lbox \in Int /\ h.xlbox \in Nat /\ h.tbox \in BoxTypes

NumbersInPlace ==
  /\ size \in Nat /\ offset \in Nat /\ end \in Nat /\ end <= size
  /\ \A o \in DOMAIN known : IsHeader(known[o])
  /\ \A b \in fields : b \in Written
  /\ phase \in {"outer", "description", "content", "accepted", "failed"}
  /\ reads \subseteq [from : Nat, upto : Nat]
  /\ children \in Seq([tbox : BoxTypes, start : Nat, payload : Nat, stop : Nat])

ReadsEndBefore == phase # "failed" => \A r \in reads : r.upto <= offset

(* The header of the superbox, then that of the description, then its fields;  *)
(* `first` is where the content boxes begin.                                 *)
DescriptionFits(d, outer, inner, first) ==
  /\ outer.from = 0 /\ inner.from = outer.upto
  /\ inner.upto + FieldsLength(d) <= first
  /\ "private" \notin d.toggles /\ first <= size => inner.upto + FieldsLength(d) = first

First == IF children = <<>> THEN offset ELSE children[1].start

PartsInPlace ==
  /\ phase = "outer" => offset = 0
  /\ phase \in {"outer", "description"} => children = <<>> /\ description = {}
  /\ phase = "description" => \E outer \in reads : outer.from = 0 /\ outer.upto = offset
  /\ phase \in {"content", "accepted"} =>
       \E d \in description, outer, inner \in reads :
         d.label \in Nat /\ DescriptionFits(d, outer, inner, First)
  /\ children # <<>> => /\ children[Len(children)].stop = offset /\ offset <= end
                       /\ children[1].start <= size
  /\ \A i \in 1..(Len(children) - 1) : children[i].stop = children[i + 1].start
  /\ \A i \in DOMAIN children : children[i].start < children[i].stop
  /\ phase = "accepted" => children # <<>> /\ offset >= end

ParseInvariant == NumbersInPlace /\ ReadsEndBefore /\ HeadersNeverOverlap /\ PartsInPlace

----------------------------------------------------------------------------
(* Where the writer puts a box.                                              *)

Place(b, f, j) ==
  IF j = 1 THEN 2 * BOX_HEADER_SIZE + DescriptionLength(b)
  ELSE f[j - 1] + BOX_HEADER_SIZE + b.contents[j - 1].length

Places(f, b, n) == f = [j \in 1 .. n |-> Place(b, f, j)]

Starts(b) == CHOOSE f : Places(f, b, Len(b.contents) + 1)

LEMMA PlaceReads ==
  ASSUME NEW b, NEW f, NEW g, NEW j, j = 1 \/ f[j - 1] = g[j - 1]
  PROVE  Place(b, f, j) = Place(b, g, j)
  BY Zenon DEF Place

LEMMA PlacesAt ==
  ASSUME NEW b, NEW n, NEW f, Places(f, b, n)
  PROVE  \A k \in 1 .. n : f[k] = Place(b, f, k)
  BY DEF Places

LEMMA PlacesExtend ==
  ASSUME NEW b, NEW m \in Nat \ {0}, NEW f, Places(f, b, m)
  PROVE  \E g : Places(g, b, m + 1)
<1>. DEFINE g == [j \in 1 .. m + 1 |-> IF j = m + 1 THEN Place(b, f, m + 1) ELSE f[j]]
<1>1. ASSUME NEW j \in 1 .. m + 1 PROVE g[j] = Place(b, g, j)
  <2>1. j = 1 \/ f[j - 1] = g[j - 1]
    OBVIOUS
  <2>2. Place(b, g, j) = Place(b, f, j)
    BY <2>1, PlaceReads, Zenon
  <2>3. g[j] = Place(b, f, j)
    <3>1. CASE j = m + 1
      BY <3>1
    <3>2. CASE j # m + 1
      <4>1. j \in 1 .. m /\ g[j] = f[j]
        BY <3>2
      <4>2. QED
        BY <4>1, PlacesAt
    <3>3. QED
      BY <3>1, <3>2
  <2>4. QED
    BY <2>2, <2>3
<1>2. g = [j \in 1 .. m + 1 |-> Place(b, g, j)]
  BY <1>1
<1>3. QED
  BY <1>2 DEF Places

(* The recursive function of StartOf exists, so that it is what it says.     *)
LEMMA PlacesExist ==
  ASSUME NEW b, NEW n \in Nat \ {0}
  PROVE  \E f : Places(f, b, n)
<1>. DEFINE T == {m \in 1 .. n : \E f : Places(f, b, m)}
<1>1. 1 \in T
  <2>. DEFINE f == [j \in 1 .. 1 |-> 2 * BOX_HEADER_SIZE + DescriptionLength(b)]
  <2>1. f = [j \in 1 .. 1 |-> Place(b, f, j)]
    BY DEF Place
  <2>2. QED
    BY <2>1 DEF Places
<1>2. ASSUME NEW m \in 1 .. n, m \in T, m < n PROVE m + 1 \in T
  BY <1>2, PlacesExtend
<1>3. \A m \in 1 .. n : m \in T
  <2>. HIDE DEF T
  <2>1. QED
    BY <1>1, <1>2, UpwardInduction
<1>4. QED
  BY <1>3

LEMMA StartsUnroll ==
  ASSUME NEW b, Len(b.contents) \in Nat
  PROVE  \A j \in 1 .. Len(b.contents) + 1 : StartOf(b, j) = Place(b, Starts(b), j)
<1>1. Places(Starts(b), b, Len(b.contents) + 1)
  <2>1. Len(b.contents) + 1 \in Nat \ {0}
    OBVIOUS
  <2>2. QED
    BY <2>1, PlacesExist, Zenon DEF Starts
<1>2. ASSUME NEW j PROVE StartOf(b, j) = Starts(b)[j]
  BY DEF StartOf, Starts, Places, Place
<1>3. QED
  BY <1>1, <1>2, PlacesAt

(* A box that may be written.                                                *)
MayBeWritten(b) ==
  /\ b.description.label \in Nat /\ b.private \in Nat
  /\ "reserved" \notin b.description.toggles
  /\ "label" \in b.description.toggles => b.description.terminated /\ b.description.good
  /\ "requestable" \in b.description.toggles =>
       "label" \in b.description.toggles /\ b.description.label > 0
  /\ b.contents \in Seq([tbox : BoxTypes, length : Nat]) /\ b.contents # <<>>

LEMMA FieldsHaveLength ==
  ASSUME NEW d, d.label \in Nat
  PROVE  FieldsLength(d) \in Nat /\ FieldsLength(d) >= UUID_SIZE + 1
  BY DEF FieldsLength, UUID_SIZE, ID_SIZE, HASH_SIZE

LEMMA DescriptionHasLength ==
  ASSUME NEW b, MayBeWritten(b)
  PROVE  /\ DescriptionLength(b) \in Nat /\ DescriptionLength(b) >= UUID_SIZE + 1
         /\ FieldsLength(b.description) <= DescriptionLength(b)
         /\ "private" \notin b.description.toggles =>
              FieldsLength(b.description) = DescriptionLength(b)
<1>1. /\ FieldsLength(b.description) \in Nat
      /\ FieldsLength(b.description) >= UUID_SIZE + 1 /\ UUID_SIZE \in Nat
  BY FieldsHaveLength DEF MayBeWritten, UUID_SIZE
<1>2. /\ PrivateLength(b) \in Nat
      /\ "private" \notin b.description.toggles => PrivateLength(b) = 0
  BY DEF PrivateLength, MayBeWritten
<1>3. QED
  BY <1>1, <1>2 DEF DescriptionLength

LEMMA ContentsAre ==
  ASSUME NEW b, MayBeWritten(b)
  PROVE  /\ Len(b.contents) \in Nat \ {0} /\ DOMAIN b.contents = 1 .. Len(b.contents)
         /\ \A i \in 1 .. Len(b.contents) :
              b.contents[i].length \in Nat /\ b.contents[i].tbox \in BoxTypes
<1>. DEFINE Contents == [tbox : BoxTypes, length : Nat]
<1>1. \A s \in Seq(Contents) :
        /\ Len(s) \in Nat /\ DOMAIN s = 1 .. Len(s)
        /\ s # <<>> => Len(s) # 0
        /\ \A i \in 1 .. Len(s) : s[i] \in Contents
  <2>. HIDE DEF Contents
  <2>1. QED
    OBVIOUS
<1>2. b.contents \in Seq(Contents) /\ b.contents # <<>>
  BY DEF MayBeWritten
<1>3. \A c \in Contents : c.length \in Nat /\ c.tbox \in BoxTypes
  OBVIOUS
<1>. HIDE DEF Contents
<1>4. QED
  BY <1>1, <1>2, <1>3

LEMMA StartsAre ==
  ASSUME NEW b, MayBeWritten(b)
  PROVE  /\ StartOf(b, 1) = 2 * BOX_HEADER_SIZE + DescriptionLength(b)
         /\ \A i \in 1 .. Len(b.contents) :
              StartOf(b, i + 1) = StartOf(b, i) + BOX_HEADER_SIZE + b.contents[i].length
<1>1. Len(b.contents) \in Nat
  BY ContentsAre
<1>2. \A j \in 1 .. Len(b.contents) + 1 : StartOf(b, j) = Place(b, Starts(b), j)
  BY <1>1, StartsUnroll
<1>3. StartOf(b, 1) = 2 * BOX_HEADER_SIZE + DescriptionLength(b)
  <2>1. 1 \in 1 .. Len(b.contents) + 1
    BY <1>1
  <2>2. StartOf(b, 1) = Place(b, Starts(b), 1)
    BY <1>2, <2>1
  <2>3. QED
    BY <2>2, Zenon DEF Place
<1>4. ASSUME NEW j \in 1 .. Len(b.contents) + 1 PROVE StartOf(b, j) = Starts(b)[j]
  BY DEF StartOf, Starts, Places, Place
<1>5. ASSUME NEW i \in 1 .. Len(b.contents)
      PROVE  StartOf(b, i + 1) = StartOf(b, i) + BOX_HEADER_SIZE + b.contents[i].length
  <2>1. /\ i \in 1 .. Len(b.contents) + 1 /\ i + 1 \in 1 .. Len(b.contents) + 1
        /\ i + 1 # 1 /\ (i + 1) - 1 = i
    BY <1>1
  <2>2. StartOf(b, i + 1) = Place(b, Starts(b), i + 1)
    BY <1>2, <2>1
  <2>3. Place(b, Starts(b), i + 1) = Starts(b)[i] + BOX_HEADER_SIZE + b.contents[i].length
    BY <2>1, Zenon DEF Place
  <2>4. StartOf(b, i) = Starts(b)[i]
    BY <1>4, <2>1, Zenon
  <2>5. QED
    BY <2>2, <2>3, <2>4, Zenon
<1>6. QED
  BY <1>3, <1>5

(* Each box lies behind the ones before it.                                  *)
LEMMA StartsRise ==
  ASSUME NEW b, MayBeWritten(b)
  PROVE  /\ \A i \in 1 .. Len(b.contents) + 1 :
              StartOf(b, i) \in Nat /\ StartOf(b, i) >= 2 * BOX_HEADER_SIZE + DescriptionLength(b)
         /\ \A i, j \in 1 .. Len(b.contents) + 1 : i < j => StartOf(b, i) < StartOf(b, j)
<1>. DEFINE n == Len(b.contents)
            start(i) == StartOf(b, i)
            length(i) == b.contents[i].length
            D == 2 * BOX_HEADER_SIZE + DescriptionLength(b)
<1>1. /\ n \in Nat /\ D \in Nat /\ BOX_HEADER_SIZE \in Nat /\ BOX_HEADER_SIZE > 0
      /\ \A i \in 1 .. n : length(i) \in Nat
  BY ContentsAre, DescriptionHasLength DEF BOX_HEADER_SIZE
<1>2. /\ start(1) = D
      /\ \A i \in 1 .. n : start(i + 1) = start(i) + BOX_HEADER_SIZE + length(i)
  BY StartsAre
<1>. HIDE DEF n, start, length, D
<1>3. \A i \in 1 .. n + 1 : start(i) \in Nat /\ start(i) >= D
  <2>. DEFINE T == {i \in 1 .. n + 1 : start(i) \in Nat /\ start(i) >= D}
  <2>1. 1 \in T
    BY <1>1, <1>2
  <2>2. ASSUME NEW i \in 1 .. n + 1, i \in T, i < n + 1 PROVE i + 1 \in T
    <3>1. i \in 1 .. n /\ i + 1 \in 1 .. n + 1
      BY <1>1, <2>2
    <3>2. length(i) \in Nat /\ start(i + 1) = start(i) + BOX_HEADER_SIZE + length(i)
      BY <1>1, <1>2, <3>1
    <3>3. start(i) \in Nat /\ start(i) >= D
      BY <2>2
    <3>4. start(i + 1) \in Nat /\ start(i + 1) >= D
      BY <1>1, <3>2, <3>3
    <3>5. QED
      BY <3>1, <3>4
  <2>3. \A i \in 1 .. n + 1 : i \in T
    <3>1. n + 1 \in Nat
      BY <1>1
    <3>. HIDE DEF T
    <3>2. QED
      BY <2>1, <2>2, <3>1, UpwardInduction
  <2>4. QED
    BY <2>3
<1>4. ASSUME NEW i \in 1 .. n + 1, NEW j \in 1 .. n + 1, i < j PROVE start(i) < start(j)
  <2>. DEFINE T == {k \in i + 1 .. n + 1 : start(i) < start(k)}
  <2>1. \A k \in 1 .. n : start(k) < start(k + 1)
    <3>. SUFFICES ASSUME NEW k \in 1 .. n PROVE start(k) < start(k + 1)
      OBVIOUS
    <3>1. length(k) \in Nat /\ start(k) \in Nat /\ start(k + 1) = start(k) + BOX_HEADER_SIZE + length(k)
      BY <1>1, <1>2, <1>3
    <3>2. QED
      BY <1>1, <3>1
  <2>2. i + 1 \in T
    BY <1>1, <1>4, <2>1
  <2>3. ASSUME NEW k \in i + 1 .. n + 1, k \in T, k < n + 1 PROVE k + 1 \in T
    <3>1. k \in 1 .. n + 1 /\ k \in 1 .. n /\ k + 1 \in 1 .. n + 1 /\ k + 1 \in i + 1 .. n + 1
      BY <1>1, <2>3
    <3>2. start(i) < start(k) /\ start(k) < start(k + 1)
      BY <2>1, <2>3, <3>1
    <3>3. start(i) \in Nat /\ start(k) \in Nat /\ start(k + 1) \in Nat
      BY <1>3, <3>1
    <3>4. start(i) < start(k + 1)
      BY <3>2, <3>3
    <3>5. QED
      BY <3>1, <3>4
  <2>4. \A k \in i + 1 .. n + 1 : k \in T
    <3>1. n + 1 \in Nat /\ i + 1 \in Nat
      BY <1>1
    <3>. HIDE DEF T
    <3>2. QED
      BY <2>2, <2>3, <3>1, UpwardInduction
  <2>5. j \in i + 1 .. n + 1
    BY <1>1, <1>4
  <2>6. QED
    BY <2>4, <2>5
<1>5. QED
  BY <1>3, <1>4 DEF n, start, D

(* What the parser meets where the writer put a header.                      *)
LEMMA LayoutIs ==
  ASSUME NEW b, MayBeWritten(b)
  PROVE  /\ DOMAIN Layout(b) =
              {0, BOX_HEADER_SIZE} \cup {StartOf(b, i) : i \in 1 .. Len(b.contents)}
         /\ Layout(b)[0] = HeaderOf("jumb", SerializedSize(b) - BOX_HEADER_SIZE)
         /\ Layout(b)[BOX_HEADER_SIZE] = HeaderOf("jumd", DescriptionLength(b))
         /\ \A i \in 1 .. Len(b.contents) :
              Layout(b)[StartOf(b, i)] = HeaderOf(b.contents[i].tbox, b.contents[i].length)
<1>1. DOMAIN b.contents = 1 .. Len(b.contents) /\ Len(b.contents) \in Nat
  BY ContentsAre
<1>2. DOMAIN Layout(b) = {0, BOX_HEADER_SIZE} \cup {StartOf(b, i) : i \in 1 .. Len(b.contents)}
  BY <1>1, Zenon DEF Layout
<1>3. BOX_HEADER_SIZE # 0
  BY DEF BOX_HEADER_SIZE
<1>4. Layout(b)[0] = HeaderOf("jumb", SerializedSize(b) - BOX_HEADER_SIZE)
  <2>1. ASSUME NEW o \in {0, BOX_HEADER_SIZE} \cup {StartOf(b, k) : k \in DOMAIN b.contents}, o = 0
        PROVE  Layout(b)[o] = HeaderOf("jumb", SerializedSize(b) - BOX_HEADER_SIZE)
    BY <1>3, <2>1 DEF Layout
  <2>2. QED
    BY <2>1
<1>5. Layout(b)[BOX_HEADER_SIZE] = HeaderOf("jumd", DescriptionLength(b))
  BY <1>3 DEF Layout
<1>6. ASSUME NEW i \in 1 .. Len(b.contents)
      PROVE  Layout(b)[StartOf(b, i)] = HeaderOf(b.contents[i].tbox, b.contents[i].length)
  <2>1. /\ StartOf(b, i) \in Nat /\ StartOf(b, i) >= 2 * BOX_HEADER_SIZE + DescriptionLength(b)
        /\ DescriptionLength(b) \in Nat
    BY <1>1, StartsRise, DescriptionHasLength
  <2>2. StartOf(b, i) # 0 /\ StartOf(b, i) # BOX_HEADER_SIZE
    BY <2>1 DEF BOX_HEADER_SIZE
  <2>3. StartOf(b, i) \in {0, BOX_HEADER_SIZE} \cup {StartOf(b, k) : k \in DOMAIN b.contents}
    BY <1>1
  <2>4. Layout(b)[StartOf(b, i)] =
          HeaderOf(ContentAt(b, StartOf(b, i)).tbox, ContentAt(b, StartOf(b, i)).length)
    BY <2>2, <2>3 DEF Layout
  <2>5. ContentAt(b, StartOf(b, i)) = b.contents[i]
    <3>1. \A k \in DOMAIN b.contents : StartOf(b, k) = StartOf(b, i) <=> k = i
      <4>. SUFFICES ASSUME NEW k \in 1 .. Len(b.contents), k # i
                    PROVE  StartOf(b, k) # StartOf(b, i)
        BY <1>1
      <4>1. /\ i \in 1 .. Len(b.contents) + 1 /\ k \in 1 .. Len(b.contents) + 1
            /\ i < k \/ k < i
        BY <1>1
      <4>2. /\ StartOf(b, k) \in Nat /\ StartOf(b, i) \in Nat
            /\ StartOf(b, k) < StartOf(b, i) \/ StartOf(b, i) < StartOf(b, k)
        BY <4>1, StartsRise
      <4>3. QED
        BY <4>2
    <3>2. (CHOOSE k \in DOMAIN b.contents : StartOf(b, k) = StartOf(b, i)) = i
      BY <1>1, <3>1
    <3>3. QED
      BY <3>2, Zenon DEF ContentAt
  <2>6. QED
    BY <2>4, <2>5, Zenon
<1>7. QED
  BY <1>2, <1>4, <1>5, <1>6

LEMMA WrittenMay == \A b \in Written : MayBeWritten(b)
  BY WrittenAssumption DEF MayBeWritten

----------------------------------------------------------------------------
(* A header that is read is one that may be read, and it gives the box a     *)
(* length that holds the header itself.                                      *)
LEMMA HeaderIsInBox ==
  ASSUME NumbersInPlace, NEW at \in Nat, at + BOX_HEADER_SIZE <= size, NEW h \in HeadersAt(at)
  PROVE  /\ IsHeader(h) /\ HeaderLength(h) \in {8, 16}
         /\ HeaderAcceptable(at, h) => BoxLength(at, h) \in Nat /\ BoxLength(at, h) >= HeaderLength(h)
<1>1. IsHeader(h)
  <2>1. CASE at \in DOMAIN known
    BY <2>1 DEF HeadersAt, NumbersInPlace
  <2>2. CASE h \in {[lbox |-> l, tbox |-> t, xlbox |-> 0] :
                     l \in LBoxes \ {1}, t \in BoxTypes}
    BY <2>2 DEF LBoxes, IsHeader, NumbersInPlace
  <2>3. CASE h \in {[lbox |-> 1, tbox |-> t, xlbox |-> x] :
                     x \in XLBoxes, t \in BoxTypes}
    BY <2>3, JumbfAssumption DEF XLBoxes, IsHeader, NumbersInPlace
  <2>4. QED
    BY <2>1, <2>2, <2>3 DEF HeadersAt
<1>2. HeaderLength(h) \in {8, 16}
  BY DEF HeaderLength, BOX_HEADER_SIZE, XLBOX_SIZE
<1>3. ASSUME HeaderAcceptable(at, h)
      PROVE  BoxLength(at, h) \in Nat /\ BoxLength(at, h) >= HeaderLength(h)
  BY <1>1, <1>3 DEF HeaderAcceptable, BoxLength, HeaderLength, IsHeader, NumbersInPlace,
     BOX_HEADER_SIZE, XLBOX_SIZE, LBOX_RESERVED_MAX
<1>4. QED
  BY <1>1, <1>2, <1>3

(* One more header, read where all the others ended, overlaps none of them.  *)
LEMMA NextHeaderIsApart ==
  ASSUME NumbersInPlace, ReadsEndBefore, HeadersNeverOverlap, phase # "failed",
         NEW h \in HeadersAt(offset), Read(offset, h)
  PROVE  /\ HeadersNeverOverlap'
         /\ reads' \subseteq [from : Nat, upto : Nat]
         /\ \A r \in reads' : r.upto <= offset + HeaderLength(h)
<1>1. HeaderLength(h) \in {8, 16}
  BY DEF HeaderLength, BOX_HEADER_SIZE, XLBOX_SIZE
<1>2. offset \in Nat /\ reads \subseteq [from : Nat, upto : Nat]
  BY DEF NumbersInPlace
<1>3. \A r \in reads : r.upto <= offset
  BY DEF ReadsEndBefore
<1>4. reads' = reads \cup {[from |-> offset, upto |-> offset + HeaderLength(h)]}
  BY DEF Read
<1>5. reads' \subseteq [from : Nat, upto : Nat]
  BY <1>1, <1>2, <1>4
<1>6. \A r \in reads' : r.upto <= offset + HeaderLength(h)
  BY <1>1, <1>2, <1>3, <1>4
<1>7. HeadersNeverOverlap'
  BY <1>1, <1>2, <1>3, <1>4 DEF HeadersNeverOverlap
<1>8. QED
  BY <1>5, <1>6, <1>7

LEMMA WrittenHeadersAre ==
  ASSUME NEW b, MayBeWritten(b)
  PROVE  /\ SerializedSize(b) \in Nat
         /\ SerializedSize(b) >= 2 * BOX_HEADER_SIZE + DescriptionLength(b)
         /\ \A o \in DOMAIN Layout(b) : IsHeader(Layout(b)[o])
<1>. DEFINE n == Len(b.contents)
<1>1. /\ n \in Nat /\ DescriptionLength(b) \in Nat
      /\ \A i \in 1 .. n : b.contents[i].length \in Nat /\ b.contents[i].tbox \in BoxTypes
  BY ContentsAre, DescriptionHasLength
<1>2. /\ SerializedSize(b) \in Nat
      /\ SerializedSize(b) >= 2 * BOX_HEADER_SIZE + DescriptionLength(b)
  <2>1. n + 1 \in 1 .. n + 1
    BY <1>1
  <2>2. QED
    BY <2>1, StartsRise DEF SerializedSize
<1>3. \A t \in BoxTypes, p \in Int : IsHeader(HeaderOf(t, p))
  BY DEF IsHeader, HeaderOf, BOX_HEADER_SIZE
<1>4. ASSUME NEW o \in DOMAIN Layout(b) PROVE IsHeader(Layout(b)[o])
  <2>1. o \in {0, BOX_HEADER_SIZE} \cup {StartOf(b, i) : i \in 1 .. n}
    BY <1>4, LayoutIs
  <2>2. CASE o = 0
    <3>1. Layout(b)[o] = HeaderOf("jumb", SerializedSize(b) - BOX_HEADER_SIZE)
      BY <2>2, LayoutIs
    <3>2. "jumb" \in BoxTypes /\ SerializedSize(b) - BOX_HEADER_SIZE \in Int
      BY <1>2 DEF BoxTypes, BOX_HEADER_SIZE
    <3>3. QED
      BY <1>3, <3>1, <3>2
  <2>3. CASE o = BOX_HEADER_SIZE
    <3>1. Layout(b)[o] = HeaderOf("jumd", DescriptionLength(b))
      BY <2>3, LayoutIs
    <3>2. "jumd" \in BoxTypes /\ DescriptionLength(b) \in Int
      BY <1>1 DEF BoxTypes
    <3>3. QED
      BY <1>3, <3>1, <3>2
  <2>4. CASE \E i \in 1 .. n : o = StartOf(b, i)
    <3>1. PICK i \in 1 .. n : o = StartOf(b, i)
      BY <2>4
    <3>2. Layout(b)[o] = HeaderOf(b.contents[i].tbox, b.contents[i].length)
      BY <3>1, LayoutIs
    <3>3. b.contents[i].length \in Int /\ b.contents[i].tbox \in BoxTypes
      BY <1>1
    <3>4. QED
      BY <1>3, <3>2, <3>3
  <2>5. QED
    BY <2>1, <2>2, <2>3, <2>4
<1>5. QED
  BY <1>2, <1>4

LEMMA ParseInvariantInitially == ParserInit => ParseInvariant
<1>. SUFFICES ASSUME ParserInit PROVE ParseInvariant
  OBVIOUS
<1>1. /\ phase = "outer" /\ offset = 0 /\ end = 0 /\ reads = {} /\ description = {}
      /\ children = <<>>
  BY DEF ParserInit
<1>2. /\ size \in Nat /\ \A o \in DOMAIN known : IsHeader(known[o])
      /\ \A b \in fields : b \in Written
  <2>1. CASE size \in Sizes /\ known = <<>> /\ fields = {}
    BY <2>1, JumbfAssumption
  <2>2. CASE \E b \in Written : size = SerializedSize(b) /\ known = Layout(b) /\ fields = {b}
    <3>1. PICK b \in Written : size = SerializedSize(b) /\ known = Layout(b) /\ fields = {b}
      BY <2>2
    <3>2. MayBeWritten(b)
      BY WrittenMay
    <3>3. QED
      BY <3>1, <3>2, WrittenHeadersAre, JumbfAssumption
  <2>3. QED
    BY <2>1, <2>2 DEF ParserInit
<1>3. NumbersInPlace
  BY <1>1, <1>2 DEF NumbersInPlace
<1>4. ReadsEndBefore /\ HeadersNeverOverlap
  BY <1>1 DEF ReadsEndBefore, HeadersNeverOverlap
<1>5. PartsInPlace
  BY <1>1 DEF PartsInPlace
<1>6. QED
  BY <1>3, <1>4, <1>5 DEF ParseInvariant

----------------------------------------------------------------------------
(* The steps.                                                                *)

(* A parser that fails has read what it has read, and nothing more happens.  *)
LEMMA JumbfErrorPreserves ==
  ASSUME ParseInvariant, JumbfError, HeadersNeverOverlap', reads' \subseteq [from : Nat, upto : Nat]
  PROVE  ParseInvariant'
<1>1. /\ phase' = "failed" /\ offset' = 0 /\ end' = 0 /\ description' = {} /\ children' = <<>>
      /\ UNCHANGED <<size, known, fields>>
  BY DEF JumbfError, box
<1>2. NumbersInPlace'
  BY <1>1 DEF ParseInvariant, NumbersInPlace, IsHeader
<1>3. ReadsEndBefore' /\ PartsInPlace'
  BY <1>1 DEF ReadsEndBefore, PartsInPlace
<1>4. QED
  BY <1>2, <1>3 DEF ParseInvariant

LEMMA NoHeaderPreserves == ParseInvariant /\ NoHeader => ParseInvariant'
<1>. SUFFICES ASSUME ParseInvariant, NoHeader PROVE ParseInvariant'
  OBVIOUS
<1>1. JumbfError /\ reads' = reads
  BY DEF NoHeader
<1>2. HeadersNeverOverlap' /\ reads' \subseteq [from : Nat, upto : Nat]
  BY <1>1 DEF ParseInvariant, NumbersInPlace, HeadersNeverOverlap
<1>3. QED
  BY <1>1, <1>2, JumbfErrorPreserves

LEMMA SuperboxPreserves == ParseInvariant /\ Superbox => ParseInvariant'
<1>. SUFFICES ASSUME ParseInvariant, Superbox PROVE ParseInvariant'
  OBVIOUS
<1>1. PICK h \in HeadersAt(0) :
        /\ Read(0, h)
        /\ IF HeaderAcceptable(0, h) /\ h.tbox = "jumb" /\ BoxLength(0, h) <= size
           THEN /\ phase' = "description" /\ offset' = HeaderLength(h) /\ end' = BoxLength(0, h)
                /\ UNCHANGED <<box, description, children>>
           ELSE JumbfError
  BY DEF Superbox
<1>2. phase = "outer" /\ offset = 0 /\ children = <<>> /\ description = {}
  BY DEF Superbox, ParseInvariant, PartsInPlace
<1>3. /\ HeadersNeverOverlap' /\ reads' \subseteq [from : Nat, upto : Nat]
      /\ \A r \in reads' : r.upto <= HeaderLength(h)
  <2>1. HeaderLength(h) \in Nat
    BY DEF HeaderLength, BOX_HEADER_SIZE, XLBOX_SIZE
  <2>2. QED
    BY <1>1, <1>2, <2>1, NextHeaderIsApart DEF ParseInvariant
<1>4. CASE JumbfError
  BY <1>3, <1>4, JumbfErrorPreserves
<1>5. CASE ~ JumbfError
  <2>1. /\ HeaderAcceptable(0, h) /\ BoxLength(0, h) <= size
        /\ phase' = "description" /\ offset' = HeaderLength(h) /\ end' = BoxLength(0, h)
        /\ UNCHANGED <<size, known, fields, description, children>>
    BY <1>1, <1>5 DEF box
  <2>2. /\ HeaderLength(h) \in {8, 16} /\ BoxLength(0, h) \in Nat
    BY <1>1, <2>1, HeaderIsInBox DEF ParseInvariant, Read
  <2>3. NumbersInPlace'
    BY <1>3, <2>1, <2>2 DEF ParseInvariant, NumbersInPlace, IsHeader
  <2>4. ReadsEndBefore'
    BY <1>3, <2>1 DEF ReadsEndBefore
  <2>5. [from |-> 0, upto |-> HeaderLength(h)] \in reads'
    <3>1. [from |-> 0, upto |-> 0 + HeaderLength(h)] \in reads'
      BY <1>1 DEF Read
    <3>2. QED
      BY <2>2, <3>1
  <2>6. PartsInPlace'
    BY <1>2, <2>1, <2>5 DEF PartsInPlace
  <2>7. QED
    BY <1>3, <2>3, <2>4, <2>6 DEF ParseInvariant
<1>6. QED
  BY <1>4, <1>5

(* The description is a slice of the data, so it may be shorter than its box.   *)
LEMMA LesserIsMin ==
  ASSUME NEW a \in Nat, NEW b \in Nat
  PROVE  Min({a, b}) = IF a <= b THEN a ELSE b
  BY DEF Min

LEMMA DescriptionPreserves == ParseInvariant /\ Description => ParseInvariant'
<1>. SUFFICES ASSUME ParseInvariant, Description PROVE ParseInvariant'
  OBVIOUS
<1>. DEFINE next(h) == offset + BoxLength(offset, h)
            length(h) == Min({next(h), size}) - (offset + HeaderLength(h))
<1>1. PICK h \in HeadersAt(offset) :
        /\ Read(offset, h)
        /\ \/ JumbfError
           \/ /\ HeaderAcceptable(offset, h)
              /\ \E d \in IF fields = {} THEN Descriptions ELSE {b.description : b \in fields} :
                   /\ DescriptionAcceptable(d, length(h))
                   /\ phase' = "content" /\ offset' = next(h) /\ description' = {d}
                   /\ UNCHANGED <<box, end, children>>
  BY DEF Description
<1>2. phase = "description" /\ children = <<>> /\ offset \in Nat /\ size \in Nat
  BY DEF Description, ParseInvariant, PartsInPlace, NumbersInPlace
<1>3. /\ HeadersNeverOverlap' /\ reads' \subseteq [from : Nat, upto : Nat]
      /\ \A r \in reads' : r.upto <= offset + HeaderLength(h)
  BY <1>1, <1>2, NextHeaderIsApart DEF ParseInvariant
<1>4. CASE JumbfError
  BY <1>3, <1>4, JumbfErrorPreserves
<1>5. CASE ~ JumbfError
  <2>1. PICK d \in IF fields = {} THEN Descriptions ELSE {b.description : b \in fields} :
          /\ DescriptionAcceptable(d, length(h))
          /\ phase' = "content" /\ offset' = next(h) /\ description' = {d}
          /\ UNCHANGED <<box, end, children>>
    BY <1>1, <1>5
  <2>2. HeaderAcceptable(offset, h)
    BY <1>1, <1>5
  <2>3. d.label \in Nat
    BY JumbfAssumption, WrittenAssumption DEF ParseInvariant, NumbersInPlace
  <2>4. /\ HeaderLength(h) \in {8, 16} /\ BoxLength(offset, h) \in Nat
        /\ BoxLength(offset, h) >= HeaderLength(h)
    BY <1>1, <1>2, <2>2, HeaderIsInBox DEF ParseInvariant, Read
  <2>5. NumbersInPlace'
    BY <1>2, <1>3, <2>1, <2>4 DEF ParseInvariant, NumbersInPlace, IsHeader, box
  <2>6. ReadsEndBefore'
    BY <1>2, <1>3, <2>1, <2>4 DEF ReadsEndBefore
  <2>7. PICK outer \in reads : outer.from = 0 /\ outer.upto = offset
    BY <1>2 DEF ParseInvariant, PartsInPlace
  <2>. DEFINE inner == [from |-> offset, upto |-> offset + HeaderLength(h)]
  <2>8. outer \in reads' /\ inner \in reads'
    BY <1>1, <2>7 DEF Read
  <2>9. /\ inner.from = outer.upto /\ inner.upto + FieldsLength(d) <= next(h)
        /\ "private" \notin d.toggles /\ next(h) <= size' => inner.upto + FieldsLength(d) = next(h)
    <3>1. Min({next(h), size}) = IF next(h) <= size THEN next(h) ELSE size
      BY <1>2, <2>4, LesserIsMin
    <3>2. /\ FieldsLength(d) <= length(h)
          /\ "private" \notin d.toggles => FieldsLength(d) = length(h)
      BY <2>1 DEF DescriptionAcceptable
    <3>3. FieldsLength(d) \in Nat
      BY <2>3, FieldsHaveLength
    <3>4. inner.upto + FieldsLength(d) <= next(h)
      BY <1>2, <2>4, <3>1, <3>2, <3>3
    <3>5. "private" \notin d.toggles /\ next(h) <= size => inner.upto + FieldsLength(d) = next(h)
      BY <1>2, <2>4, <3>1, <3>2, <3>3
    <3>6. size' = size
      BY <2>1 DEF box
    <3>7. QED
      BY <2>7, <3>4, <3>5, <3>6
  <2>10. First' = next(h) /\ children' = <<>>
    BY <1>2, <2>1 DEF First
  <2>11. /\ inner.upto + FieldsLength(d) <= First'
         /\ "private" \notin d.toggles /\ First' <= size' => inner.upto + FieldsLength(d) = First'
    BY <2>9, <2>10
  <2>12. PartsInPlace'
    BY <2>1, <2>3, <2>7, <2>8, <2>9, <2>10, <2>11 DEF PartsInPlace, DescriptionFits
  <2>13. QED
    BY <1>3, <2>5, <2>6, <2>12 DEF ParseInvariant
<1>6. QED
  BY <1>4, <1>5

LEMMA ChildPreserves == ParseInvariant /\ Child => ParseInvariant'
<1>. SUFFICES ASSUME ParseInvariant, Child PROVE ParseInvariant'
  OBVIOUS
<1>. DEFINE stop(h) == offset + BoxLength(offset, h)
            child(h) == [tbox |-> h.tbox, start |-> offset, payload |-> offset + HeaderLength(h),
                         stop |-> offset + BoxLength(offset, h)]
            Box == [tbox : BoxTypes, start : Nat, payload : Nat, stop : Nat]
<1>1. PICK h \in HeadersAt(offset) :
        /\ Read(offset, h)
        /\ IF HeaderAcceptable(offset, h) /\ stop(h) <= end
           THEN /\ offset' = stop(h) /\ children' = Append(children, child(h))
                /\ UNCHANGED <<box, phase, end, description>>
           ELSE JumbfError
  BY DEF Child
<1>2. /\ phase = "content" /\ offset \in Nat /\ size \in Nat /\ end \in Nat
      /\ children \in Seq(Box)
  BY DEF Child, ParseInvariant, NumbersInPlace
<1>3. /\ HeadersNeverOverlap' /\ reads' \subseteq [from : Nat, upto : Nat]
      /\ \A r \in reads' : r.upto <= offset + HeaderLength(h)
  BY <1>1, <1>2, NextHeaderIsApart DEF ParseInvariant
<1>4. CASE JumbfError
  BY <1>3, <1>4, JumbfErrorPreserves
<1>5. CASE ~ JumbfError
  <2>1. /\ HeaderAcceptable(offset, h) /\ stop(h) <= end
        /\ offset' = stop(h) /\ children' = Append(children, child(h))
        /\ UNCHANGED <<size, known, fields, phase, end, description>>
    BY <1>1, <1>5 DEF box
  <2>2. /\ IsHeader(h) /\ HeaderLength(h) \in {8, 16} /\ BoxLength(offset, h) \in Nat
        /\ BoxLength(offset, h) >= HeaderLength(h)
    BY <1>1, <1>2, <2>1, HeaderIsInBox DEF ParseInvariant, Read
  <2>3. child(h) \in Box /\ stop(h) \in Nat
    BY <1>2, <2>2 DEF IsHeader
  <2>4. NumbersInPlace'
    <3>1. children' \in Seq(Box)
      BY <1>2, <2>1, <2>3
    <3>2. QED
      BY <1>2, <1>3, <2>1, <2>3, <3>1 DEF ParseInvariant, NumbersInPlace, IsHeader
  <2>5. ReadsEndBefore'
    <3>1. \A r \in reads' : r.upto <= stop(h)
      BY <1>2, <1>3, <2>2
    <3>2. QED
      BY <2>1, <3>1 DEF ReadsEndBefore
  <2>. DEFINE n == Len(children)
  <2>6. /\ n \in Nat /\ Len(children') = n + 1 /\ children'[n + 1] = child(h)
        /\ \A i \in 1..n : children'[i] = children[i]
        /\ children' # <<>> /\ children = <<>> <=> n = 0
    BY <1>2, <2>1, <2>3
  <2>7. First' = First
    BY <2>6 DEF First
  <2>8. reads \subseteq reads'
    BY <1>1 DEF Read
  <2>9. \E d \in description', outer, inner \in reads' :
          d.label \in Nat /\ DescriptionFits(d, outer, inner, First)
    BY <1>2, <2>1, <2>8 DEF ParseInvariant, PartsInPlace
  <2>10. \E d \in description', outer, inner \in reads' :
          d.label \in Nat /\ DescriptionFits(d, outer, inner, First)'
    BY <2>1, <2>7, <2>9 DEF DescriptionFits
  <2>11. \A i \in 1..(Len(children') - 1) : children'[i].stop = children'[i + 1].start
    <3>. SUFFICES ASSUME NEW i \in 1..n PROVE children'[i].stop = children'[i + 1].start
      BY <2>6
    <3>1. CASE i = n
      BY <2>6, <3>1 DEF ParseInvariant, PartsInPlace
    <3>2. CASE i # n
      BY <2>6, <3>2 DEF ParseInvariant, PartsInPlace
    <3>3. QED
      BY <3>1, <3>2
  <2>12. \A i \in DOMAIN children' : children'[i].start < children'[i].stop
    <3>1. DOMAIN children' = 1..(n + 1) /\ DOMAIN children = 1..n
      BY <1>2, <2>1, <2>3
    <3>2. \A i \in 1..n : children[i].start < children[i].stop
      BY <3>1 DEF ParseInvariant, PartsInPlace
    <3>3. offset < stop(h)
      BY <1>2, <2>2
    <3>4. QED
      BY <2>6, <3>1, <3>2, <3>3
  <2>13. children'[Len(children')].stop = offset' /\ offset' <= end'
    BY <2>1, <2>6
  <2>14. children'[1].start <= size'
    <3>1. CASE n = 0
      BY <1>2, <2>1, <2>2, <2>6, <3>1 DEF ParseInvariant, NumbersInPlace
    <3>2. CASE n # 0
      BY <2>1, <2>6, <3>2 DEF ParseInvariant, PartsInPlace
    <3>3. QED
      BY <3>1, <3>2
  <2>15. PartsInPlace'
    BY <1>2, <2>1, <2>6, <2>10, <2>11, <2>12, <2>13, <2>14 DEF PartsInPlace
  <2>16. QED
    BY <1>3, <2>4, <2>5, <2>15 DEF ParseInvariant
<1>6. QED
  BY <1>4, <1>5

LEMMA FinishPreserves == ParseInvariant /\ Finish => ParseInvariant'
<1>. SUFFICES ASSUME ParseInvariant, Finish PROVE ParseInvariant'
  OBVIOUS
<1>1. /\ phase = "content" /\ offset >= end /\ reads' = reads
      /\ HeadersNeverOverlap' /\ reads' \subseteq [from : Nat, upto : Nat]
  BY DEF Finish, ParseInvariant, NumbersInPlace, HeadersNeverOverlap
<1>2. CASE JumbfError
  BY <1>1, <1>2, JumbfErrorPreserves
<1>3. CASE ~ JumbfError
  <2>1. /\ children # <<>> /\ phase' = "accepted"
        /\ UNCHANGED <<size, known, fields, offset, end, description, children>>
    BY <1>3 DEF Finish, box
  <2>2. NumbersInPlace' /\ ReadsEndBefore'
    BY <1>1, <2>1 DEF ParseInvariant, NumbersInPlace, ReadsEndBefore, IsHeader
  <2>3. PartsInPlace'
    BY <1>1, <2>1 DEF ParseInvariant, PartsInPlace, DescriptionFits, First
  <2>4. QED
    BY <1>1, <2>2, <2>3 DEF ParseInvariant
<1>4. QED
  BY <1>2, <1>3

LEMMA ParserStutterPreserves == ParseInvariant /\ UNCHANGED parserVars => ParseInvariant'
  BY DEF parserVars, box, ParseInvariant, NumbersInPlace, IsHeader, ReadsEndBefore, HeadersNeverOverlap,
     PartsInPlace, DescriptionFits, First

THEOREM ParseStaysInPlace == ParserSpec => []ParseInvariant
<1>1. ParseInvariant /\ [ParserNext]_parserVars => ParseInvariant'
  BY NoHeaderPreserves, SuperboxPreserves, DescriptionPreserves, ChildPreserves, FinishPreserves,
     ParserStutterPreserves DEF ParserNext
<1>2. QED
  BY ParseInvariantInitially, <1>1, PTL DEF ParserSpec

----------------------------------------------------------------------------
(* No byte of the data is read as part of two headers, whatever lengths the  *)
(* boxes declare (_read_header refuses an extended length below 16).         *)
THEOREM HeadersAreApart == ParserSpec => []HeadersNeverOverlap
<1>1. ParseInvariant => HeadersNeverOverlap
  BY DEF ParseInvariant
<1>2. QED
  BY ParseStaysInPlace, <1>1, PTL

(* What parse_superbox accepts is cut into header, description and content   *)
(* boxes without gap, overlap or overrun.                                    *)
THEOREM PartsTile == ParserSpec => []PartsTileTheBox
<1>1. ParseInvariant => PartsTileTheBox
  <2>. SUFFICES ASSUME ParseInvariant, phase = "accepted"
                PROVE  /\ end <= size /\ children[Len(children)].stop = end
                       /\ \A i \in 1..(Len(children) - 1) : children[i].stop = children[i + 1].start
                       /\ \A i \in DOMAIN children : children[i].start < children[i].stop
                       /\ \E d \in description, outer, inner \in reads :
                            /\ outer.from = 0 /\ inner.from = outer.upto
                            /\ inner.upto + FieldsLength(d) <= children[1].start
                            /\ "private" \notin d.toggles =>
                                 inner.upto + FieldsLength(d) = children[1].start
    BY DEF PartsTileTheBox
  <2>1. /\ children # <<>> /\ offset \in Nat /\ end \in Nat /\ size \in Nat /\ end <= size
        /\ offset = end /\ children[Len(children)].stop = offset
    BY DEF ParseInvariant, NumbersInPlace, PartsInPlace
  <2>2. First = children[1].start
    BY <2>1 DEF First
  <2>3. children[1].start <= size
    BY <2>1 DEF ParseInvariant, PartsInPlace
  <2>4. QED
    BY <2>1, <2>2, <2>3 DEF ParseInvariant, PartsInPlace, DescriptionFits
<1>2. QED
  BY ParseStaysInPlace, <1>1, PTL

----------------------------------------------------------------------------
(* What the writer laid out is what the parser reads: after k content boxes  *)
(* it stands where the writer put the next one.                              *)
ReadSoFar(b) ==
  /\ known = Layout(b) /\ size = SerializedSize(b)
  /\ phase # "failed"
  /\ phase = "outer" => offset = 0
  /\ phase = "description" => offset = BOX_HEADER_SIZE /\ end = size
  /\ phase \in {"content", "accepted"} =>
       /\ description = {b.description} /\ end = size
       /\ Len(children) <= Len(b.contents) /\ offset = StartOf(b, Len(children) + 1)
       /\ \A i \in 1 .. Len(children) : children[i] = ChildrenOf(b)[i]
  /\ phase = "accepted" => offset >= end

WrittenIsRead == fields = {} \/ \E b \in Written : fields = {b} /\ ReadSoFar(b)

LEMMA KnownHeader ==
  ASSUME NEW at \in DOMAIN known
  PROVE  HeadersAt(at) = {known[at]}
  BY DEF HeadersAt

LEMMA WrittenHeaderIsRead ==
  ASSUME NEW t, NEW p \in Nat, NEW at
  PROVE  /\ HeaderAcceptable(at, HeaderOf(t, p)) /\ HeaderOf(t, p).tbox = t
         /\ BoxLength(at, HeaderOf(t, p)) = BOX_HEADER_SIZE + p
         /\ HeaderLength(HeaderOf(t, p)) = BOX_HEADER_SIZE
<1>1. /\ HeaderOf(t, p).lbox = 8 + p /\ HeaderOf(t, p).tbox = t
      /\ 8 + p > 7 /\ 8 + p # 1 /\ 8 + p # 0
  BY DEF HeaderOf, BOX_HEADER_SIZE
<1>2. HeaderAcceptable(at, HeaderOf(t, p))
  BY <1>1 DEF HeaderAcceptable, LBOX_RESERVED_MAX
<1>3. BoxLength(at, HeaderOf(t, p)) = BOX_HEADER_SIZE + p
  BY <1>1 DEF BoxLength, BOX_HEADER_SIZE
<1>4. HeaderLength(HeaderOf(t, p)) = BOX_HEADER_SIZE
  BY <1>1 DEF HeaderLength
<1>5. QED
  BY <1>1, <1>2, <1>3, <1>4

(* Where the parser stands among the content boxes.                          *)
LEMMA BoxAhead ==
  ASSUME NEW b, MayBeWritten(b), ReadSoFar(b), NumbersInPlace, phase \in {"content", "accepted"}
  PROVE  /\ Len(children) \in 0 .. Len(b.contents)
         /\ offset >= end => Len(children) = Len(b.contents)
         /\ offset < end =>
              /\ Len(children) + 1 \in 1 .. Len(b.contents)
              /\ offset + BOX_HEADER_SIZE + b.contents[Len(children) + 1].length
                   = StartOf(b, Len(children) + 2)
              /\ StartOf(b, Len(children) + 2) <= end
<1>. DEFINE n == Len(b.contents)
            k == Len(children)
            start(i) == StartOf(b, i)
<1>1. /\ n \in Nat /\ k \in Nat /\ k <= n
      /\ end = start(n + 1) /\ offset = start(k + 1)
  <2>1. n \in Nat
    BY ContentsAre
  <2>2. k \in Nat
    BY DEF NumbersInPlace
  <2>3. QED
    BY <2>1, <2>2 DEF ReadSoFar, SerializedSize
<1>2. /\ \A i \in 1 .. n + 1 : start(i) \in Nat
      /\ \A i, j \in 1 .. n + 1 : i < j => start(i) < start(j)
  BY StartsRise
<1>3. \A i \in 1 .. n : start(i + 1) = start(i) + BOX_HEADER_SIZE + b.contents[i].length
  BY StartsAre
<1>4. \A i \in 1 .. n + 1 : start(i) <= start(n + 1)
  <2>. HIDE DEF start, n
  <2>. SUFFICES ASSUME NEW i \in 1 .. n + 1 PROVE start(i) <= start(n + 1)
    OBVIOUS
  <2>1. i = n + 1 \/ i < n + 1
    BY <1>1
  <2>2. n + 1 \in 1 .. n + 1
    BY <1>1
  <2>3. i < n + 1 => start(i) < start(n + 1)
    BY <1>2, <2>2
  <2>4. start(i) \in Nat /\ start(n + 1) \in Nat
    BY <1>2, <2>2
  <2>5. QED
    BY <2>1, <2>3, <2>4
<1>5. ASSUME offset >= end PROVE k = n
  <2>. SUFFICES ASSUME k < n PROVE FALSE
    BY <1>1
  <2>1. k + 1 \in 1 .. n + 1 /\ n + 1 \in 1 .. n + 1 /\ k + 1 < n + 1
    BY <1>1
  <2>2. start(k + 1) < start(n + 1) /\ start(k + 1) \in Nat /\ start(n + 1) \in Nat
    BY <1>2, <2>1
  <2>. HIDE DEF start, n, k
  <2>3. QED
    BY <1>1, <1>5, <2>2
<1>6. ASSUME offset < end
      PROVE  /\ k + 1 \in 1 .. n
             /\ offset + BOX_HEADER_SIZE + b.contents[k + 1].length = start(k + 2)
             /\ start(k + 2) <= end
  <2>1. k # n
    <3>. SUFFICES ASSUME k = n PROVE FALSE
      OBVIOUS
    <3>1. offset = end
      BY <1>1
    <3>2. n + 1 \in 1 .. n + 1
      BY <1>1
    <3>3. start(n + 1) \in Nat
      BY <1>2, <3>2
    <3>. HIDE DEF start, n, k
    <3>4. QED
      BY <1>1, <1>6, <3>1, <3>3
  <2>2. k + 1 \in 1 .. n /\ (k + 1) + 1 = k + 2 /\ k + 2 \in 1 .. n + 1
    BY <1>1, <2>1
  <2>3. start((k + 1) + 1) = start(k + 1) + BOX_HEADER_SIZE + b.contents[k + 1].length
    BY <1>3, <2>2
  <2>4. start(k + 2) <= start(n + 1)
    BY <1>4, <2>2
  <2>5. offset + BOX_HEADER_SIZE + b.contents[k + 1].length = start(k + 2)
    <3>1. start((k + 1) + 1) = start(k + 2)
      BY <2>2
    <3>. HIDE DEF start, n, k
    <3>2. QED
      BY <1>1, <2>3, <3>1
  <2>6. start(k + 2) <= end
    BY <1>1, <2>4
  <2>7. QED
    BY <2>2, <2>5, <2>6
<1>7. k \in 0 .. n
  BY <1>1
<1>8. QED
  BY <1>5, <1>6, <1>7

LEMMA ReadInitially == ParserInit => WrittenIsRead
<1>. SUFFICES ASSUME ParserInit PROVE WrittenIsRead
  OBVIOUS
<1>1. phase = "outer" /\ offset = 0
  BY DEF ParserInit
<1>2. CASE fields = {}
  BY <1>2 DEF WrittenIsRead
<1>3. CASE \E b \in Written : size = SerializedSize(b) /\ known = Layout(b) /\ fields = {b}
  BY <1>1, <1>3 DEF WrittenIsRead, ReadSoFar
<1>4. QED
  BY <1>2, <1>3 DEF ParserInit

(* A header always follows.                                                  *)
LEMMA NoHeaderReads ==
  ASSUME NEW b, MayBeWritten(b), ReadSoFar(b), NumbersInPlace
  PROVE  ~ NoHeader
<1>. SUFFICES ASSUME NoHeader PROVE FALSE
  OBVIOUS
<1>1. /\ SerializedSize(b) \in Nat /\ DescriptionLength(b) \in Nat
      /\ SerializedSize(b) >= 2 * BOX_HEADER_SIZE + DescriptionLength(b)
  BY WrittenHeadersAre, DescriptionHasLength
<1>2. /\ phase \in {"outer", "description", "content"} /\ (phase = "content" => offset < end)
      /\ offset + BOX_HEADER_SIZE > size
  BY DEF NoHeader
<1>3. CASE phase = "outer"
  BY <1>1, <1>2, <1>3 DEF ReadSoFar, BOX_HEADER_SIZE
<1>4. CASE phase = "description"
  BY <1>1, <1>2, <1>4 DEF ReadSoFar, BOX_HEADER_SIZE
<1>5. CASE phase = "content"
  <2>1. /\ Len(children) + 1 \in 1 .. Len(b.contents)
        /\ offset + BOX_HEADER_SIZE + b.contents[Len(children) + 1].length <= end
    BY <1>2, <1>5, BoxAhead
  <2>2. b.contents[Len(children) + 1].length \in Nat
    BY <2>1, ContentsAre
  <2>3. offset \in Nat /\ end \in Nat /\ end = size
    BY <1>5 DEF NumbersInPlace, ReadSoFar
  <2>4. QED
    BY <1>2, <2>1, <2>2, <2>3 DEF BOX_HEADER_SIZE
<1>6. QED
  BY <1>2, <1>3, <1>4, <1>5

LEMMA SuperboxReads ==
  ASSUME NEW b, MayBeWritten(b), ReadSoFar(b), NumbersInPlace, Superbox
  PROVE  ReadSoFar(b)' /\ UNCHANGED fields
<1>. DEFINE h == HeaderOf("jumb", SerializedSize(b) - BOX_HEADER_SIZE)
<1>1. /\ SerializedSize(b) \in Nat /\ DescriptionLength(b) \in Nat
      /\ SerializedSize(b) >= 2 * BOX_HEADER_SIZE + DescriptionLength(b)
  BY WrittenHeadersAre, DescriptionHasLength
<1>2. SerializedSize(b) - BOX_HEADER_SIZE \in Nat
  BY <1>1 DEF BOX_HEADER_SIZE
<1>3. known = Layout(b) /\ size = SerializedSize(b)
  BY DEF ReadSoFar
<1>4. HeadersAt(0) = {h}
  <2>1. 0 \in DOMAIN known /\ known[0] = h
    BY <1>3, LayoutIs
  <2>2. QED
    BY <2>1, KnownHeader, Zenon
<1>5. /\ HeaderAcceptable(0, h) /\ h.tbox = "jumb" /\ HeaderLength(h) = BOX_HEADER_SIZE
      /\ BoxLength(0, h) = size
  <2>1. /\ HeaderAcceptable(0, h) /\ h.tbox = "jumb" /\ HeaderLength(h) = BOX_HEADER_SIZE
        /\ BoxLength(0, h) = BOX_HEADER_SIZE + (SerializedSize(b) - BOX_HEADER_SIZE)
    BY <1>2, WrittenHeaderIsRead
  <2>2. BOX_HEADER_SIZE + (SerializedSize(b) - BOX_HEADER_SIZE) = SerializedSize(b)
    BY <1>1 DEF BOX_HEADER_SIZE
  <2>3. QED
    BY <1>3, <2>1, <2>2
<1>6. size <= size
  BY <1>1, <1>3
<1>. HIDE DEF h
<1>7. /\ phase' = "description" /\ offset' = BOX_HEADER_SIZE /\ end' = size
      /\ UNCHANGED box
  <2>1. PICK g \in HeadersAt(0) :
          IF HeaderAcceptable(0, g) /\ g.tbox = "jumb" /\ BoxLength(0, g) <= size
          THEN /\ phase' = "description" /\ offset' = HeaderLength(g) /\ end' = BoxLength(0, g)
               /\ UNCHANGED <<box, description, children>>
          ELSE JumbfError
    BY DEF Superbox
  <2>2. g = h
    BY <1>4, <2>1
  <2>3. QED
    BY <1>5, <1>6, <2>1, <2>2
<1>8. QED
  BY <1>3, <1>7 DEF ReadSoFar, box

LEMMA DescriptionReads ==
  ASSUME NEW b, MayBeWritten(b), ReadSoFar(b), fields = {b}, ParseInvariant, Description
  PROVE  ReadSoFar(b)' /\ UNCHANGED fields
<1>. DEFINE D == DescriptionLength(b)
            h == HeaderOf("jumd", D)
<1>1. /\ SerializedSize(b) \in Nat /\ D \in Nat /\ SerializedSize(b) >= 2 * BOX_HEADER_SIZE + D
  BY WrittenHeadersAre, DescriptionHasLength
<1>2. /\ known = Layout(b) /\ size = SerializedSize(b) /\ phase = "description"
      /\ offset = BOX_HEADER_SIZE /\ end = size
  BY DEF ReadSoFar, Description
<1>3. children = <<>>
  BY <1>2 DEF ParseInvariant, PartsInPlace
<1>4. HeadersAt(offset) = {h}
  <2>1. offset \in DOMAIN known /\ known[offset] = h
    BY <1>2, LayoutIs
  <2>2. QED
    BY <2>1, KnownHeader, Zenon
<1>5. /\ HeaderAcceptable(offset, h) /\ h.tbox = "jumd" /\ HeaderLength(h) = BOX_HEADER_SIZE
      /\ BoxLength(offset, h) = BOX_HEADER_SIZE + D
  BY <1>1, WrittenHeaderIsRead
<1>6. Min({offset + BoxLength(offset, h), size}) - (offset + HeaderLength(h)) = D
  <2>1. /\ offset + BoxLength(offset, h) \in Nat /\ size \in Nat /\ offset + BoxLength(offset, h) <= size
        /\ offset + BoxLength(offset, h) = 2 * BOX_HEADER_SIZE + D
    BY <1>1, <1>2, <1>5 DEF BOX_HEADER_SIZE
  <2>2. Min({offset + BoxLength(offset, h), size}) = offset + BoxLength(offset, h)
    BY <2>1, LesserIsMin
  <2>3. QED
    BY <1>1, <1>2, <1>5, <2>1, <2>2 DEF BOX_HEADER_SIZE
<1>7. DescriptionAcceptable(b.description, D)
  BY DescriptionHasLength DEF DescriptionAcceptable, MayBeWritten
<1>. HIDE DEF h, D
<1>8. PICK g \in HeadersAt(offset) :
        \/ ~ (HeaderAcceptable(offset, g) /\ g.tbox = "jumd") /\ JumbfError
        \/ /\ HeaderAcceptable(offset, g) /\ g.tbox = "jumd"
           /\ \E next \in {offset + BoxLength(offset, g)} :
              \E length \in {Min({next, size}) - (offset + HeaderLength(g))} :
              \E d \in IF fields = {} THEN Descriptions ELSE {a.description : a \in fields} :
                IF DescriptionAcceptable(d, length)
                THEN /\ phase' = "content" /\ offset' = next /\ description' = {d}
                     /\ UNCHANGED <<box, end, children>>
                ELSE JumbfError
  BY DEF Description
<1>9. g = h
  BY <1>4, <1>8
<1>10. PICK d \in IF fields = {} THEN Descriptions ELSE {a.description : a \in fields} :
         IF DescriptionAcceptable(d, D)
         THEN /\ phase' = "content" /\ offset' = offset + BoxLength(offset, h) /\ description' = {d}
              /\ UNCHANGED <<box, end, children>>
         ELSE JumbfError
  <2>1. PICK next \in {offset + BoxLength(offset, g)} :
          \E length \in {Min({next, size}) - (offset + HeaderLength(g))} :
          \E d \in IF fields = {} THEN Descriptions ELSE {a.description : a \in fields} :
            IF DescriptionAcceptable(d, length)
            THEN /\ phase' = "content" /\ offset' = next /\ description' = {d}
                 /\ UNCHANGED <<box, end, children>>
            ELSE JumbfError
    BY <1>5, <1>8, <1>9, Zenon
  <2>2. next = offset + BoxLength(offset, h)
    BY <1>9
  <2>3. Min({next, size}) - (offset + HeaderLength(g)) = D
    BY <1>6, <1>9, <2>2, Zenon
  <2>4. PICK length \in {Min({next, size}) - (offset + HeaderLength(g))} :
          \E d \in IF fields = {} THEN Descriptions ELSE {a.description : a \in fields} :
            IF DescriptionAcceptable(d, length)
            THEN /\ phase' = "content" /\ offset' = next /\ description' = {d}
                 /\ UNCHANGED <<box, end, children>>
            ELSE JumbfError
    BY <2>1, Zenon
  <2>5. length = D
    BY <2>3
  <2>6. PICK d \in IF fields = {} THEN Descriptions ELSE {a.description : a \in fields} :
          IF DescriptionAcceptable(d, D)
          THEN /\ phase' = "content" /\ offset' = next /\ description' = {d}
               /\ UNCHANGED <<box, end, children>>
          ELSE JumbfError
    BY <2>4, <2>5, Zenon
  <2>7. QED
    BY <2>2, <2>6, Zenon
<1>11. d = b.description
  BY <1>10
<1>12. /\ phase' = "content" /\ offset' = offset + BoxLength(offset, h)
       /\ description' = {b.description} /\ UNCHANGED <<box, end, children>>
  BY <1>7, <1>10, <1>11
<1>13. offset' = StartOf(b, 1)
  <2>1. StartOf(b, 1) = 2 * BOX_HEADER_SIZE + D
    BY StartsAre DEF D
  <2>2. QED
    BY <1>1, <1>2, <1>5, <1>12, <2>1 DEF BOX_HEADER_SIZE
<1>14. Len(children') = 0 /\ 0 <= Len(b.contents) /\ 0 + 1 = 1
  BY <1>3, <1>12, ContentsAre
<1>15. /\ known' = Layout(b) /\ size' = SerializedSize(b) /\ end' = size' /\ fields' = fields
  BY <1>2, <1>12 DEF box
<1>16. \A i \in 1 .. 0 : children'[i] = ChildrenOf(b)[i]
  OBVIOUS
<1>17. QED
  BY <1>12, <1>13, <1>14, <1>15, <1>16 DEF ReadSoFar

LEMMA ChildReads ==
  ASSUME NEW b, MayBeWritten(b), ReadSoFar(b), NumbersInPlace, Child
  PROVE  ReadSoFar(b)' /\ UNCHANGED fields
<1>. DEFINE n == Len(b.contents)
            k == Len(children)
            c == b.contents[k + 1]
            h == HeaderOf(c.tbox, c.length)
            child(g) == [tbox |-> g.tbox, start |-> offset, payload |-> offset + HeaderLength(g),
                         stop |-> offset + BoxLength(offset, g)]
<1>1. /\ known = Layout(b) /\ size = SerializedSize(b) /\ phase = "content" /\ offset < end
      /\ offset = StartOf(b, k + 1) /\ end = size
  BY DEF ReadSoFar, Child
<1>2. /\ k \in 0 .. n /\ k + 1 \in 1 .. n
      /\ offset + BOX_HEADER_SIZE + c.length = StartOf(b, k + 2)
      /\ StartOf(b, k + 2) <= end
  BY <1>1, BoxAhead
<1>3. c.length \in Nat /\ n \in Nat /\ DOMAIN b.contents = 1 .. n
  BY <1>2, ContentsAre
<1>4. HeadersAt(offset) = {h}
  <2>1. offset \in DOMAIN known /\ known[offset] = h
    BY <1>1, <1>2, LayoutIs
  <2>2. QED
    BY <2>1, KnownHeader, Zenon
<1>5. /\ HeaderAcceptable(offset, h) /\ h.tbox = c.tbox /\ HeaderLength(h) = BOX_HEADER_SIZE
      /\ BoxLength(offset, h) = BOX_HEADER_SIZE + c.length
  BY <1>3, WrittenHeaderIsRead
<1>6. offset + BoxLength(offset, h) = StartOf(b, k + 2)
  <2>1. offset \in Nat
    BY DEF NumbersInPlace
  <2>. HIDE DEF k, c, h
  <2>2. QED
    BY <1>2, <1>3, <1>5, <2>1 DEF BOX_HEADER_SIZE
<1>7. child(h) = ChildrenOf(b)[k + 1]
  <2>1. ChildrenOf(b)[k + 1] =
          [tbox |-> c.tbox, start |-> StartOf(b, k + 1),
           payload |-> StartOf(b, k + 1) + BOX_HEADER_SIZE,
           stop |-> StartOf(b, k + 1) + BOX_HEADER_SIZE + c.length]
    BY <1>2, <1>3, Zenon DEF ChildrenOf
  <2>2. QED
    BY <1>1, <1>2, <1>5, <1>6, <2>1, Zenon
<1>. HIDE DEF h, child
<1>8. /\ offset' = StartOf(b, k + 2) /\ children' = Append(children, child(h))
      /\ UNCHANGED <<box, phase, end, description>>
  <2>1. PICK g \in HeadersAt(offset) :
          IF HeaderAcceptable(offset, g) /\ offset + BoxLength(offset, g) <= end
          THEN /\ offset' = offset + BoxLength(offset, g) /\ children' = Append(children, child(g))
               /\ UNCHANGED <<box, phase, end, description>>
          ELSE JumbfError
    BY DEF Child, child
  <2>2. g = h
    BY <1>4, <2>1
  <2>3. QED
    BY <1>2, <1>5, <1>6, <2>1, <2>2
<1>9. /\ Len(children') = k + 1
      /\ \A i \in 1 .. k : children'[i] = children[i]
      /\ children'[k + 1] = child(h)
  <2>1. \A s \in Seq([tbox : BoxTypes, start : Nat, payload : Nat, stop : Nat]) : \A e :
          /\ Len(Append(s, e)) = Len(s) + 1
          /\ \A i \in 1 .. Len(s) : Append(s, e)[i] = s[i]
          /\ Append(s, e)[Len(s) + 1] = e
    OBVIOUS
  <2>2. children \in Seq([tbox : BoxTypes, start : Nat, payload : Nat, stop : Nat])
    BY DEF NumbersInPlace
  <2>3. QED
    BY <1>8, <2>1, <2>2, Zenon
<1>10. \A i \in 1 .. k + 1 : children'[i] = ChildrenOf(b)[i]
  <2>1. \A i \in 1 .. k : children[i] = ChildrenOf(b)[i]
    BY <1>1 DEF ReadSoFar
  <2>2. ASSUME NEW i \in 1 .. k + 1 PROVE i \in 1 .. k \/ i = k + 1
    BY <1>2
  <2>. HIDE DEF k
  <2>3. QED
    BY <1>7, <1>9, <2>1, <2>2
<1>11. k + 1 <= n /\ (k + 1) + 1 = k + 2
  BY <1>2
<1>12. /\ known' = Layout(b) /\ size' = SerializedSize(b) /\ end' = size' /\ fields' = fields
       /\ phase' = "content" /\ description' = {b.description}
  BY <1>1, <1>8 DEF box, ReadSoFar
<1>13. offset' = StartOf(b, Len(children') + 1) /\ Len(children') <= Len(b.contents)
  BY <1>8, <1>9, <1>11
<1>14. \A i \in 1 .. Len(children') : children'[i] = ChildrenOf(b)[i]
  BY <1>9, <1>10
<1>15. QED
  BY <1>12, <1>13, <1>14 DEF ReadSoFar

LEMMA FinishReads ==
  ASSUME NEW b, MayBeWritten(b), ReadSoFar(b), NumbersInPlace, Finish
  PROVE  ReadSoFar(b)' /\ UNCHANGED fields
<1>1. phase = "content" /\ offset >= end
  BY DEF Finish
<1>2. Len(children) # 0
  BY <1>1, BoxAhead, ContentsAre
<1>3. children # <<>>
  BY <1>2
<1>4. phase' = "accepted" /\ UNCHANGED <<box, offset, end, description, children>>
  BY <1>3 DEF Finish
<1>5. QED
  BY <1>1, <1>4 DEF ReadSoFar, box

LEMMA WrittenStaysRead ==
  ASSUME ParseInvariant, WrittenIsRead, [ParserNext]_parserVars
  PROVE  WrittenIsRead'
<1>1. CASE fields = {}
  <2>1. fields' = fields
    BY DEF ParserNext, NoHeader, Superbox, Description, Child, Finish, JumbfError, parserVars, box
  <2>2. QED
    BY <1>1, <2>1 DEF WrittenIsRead
<1>2. CASE fields # {}
  <2>1. PICK b \in Written : fields = {b} /\ ReadSoFar(b)
    BY <1>2 DEF WrittenIsRead
  <2>2. MayBeWritten(b) /\ NumbersInPlace
    BY WrittenMay DEF ParseInvariant
  <2>3. ReadSoFar(b)' /\ UNCHANGED fields
    <3>1. CASE NoHeader
      BY <2>1, <2>2, <3>1, NoHeaderReads
    <3>2. CASE Superbox
      BY <2>1, <2>2, <3>2, SuperboxReads
    <3>3. CASE Description
      BY <2>1, <2>2, <3>3, DescriptionReads
    <3>4. CASE Child
      BY <2>1, <2>2, <3>4, ChildReads
    <3>5. CASE Finish
      BY <2>1, <2>2, <3>5, FinishReads
    <3>6. CASE UNCHANGED parserVars
      BY <2>1, <3>6 DEF parserVars, box, ReadSoFar
    <3>7. QED
      BY <3>1, <3>2, <3>3, <3>4, <3>5, <3>6 DEF ParserNext
  <2>4. QED
    BY <2>1, <2>3 DEF WrittenIsRead
<1>3. QED
  BY <1>1, <1>2

(* serialize_superbox writes what parse_superbox reads: whatever fields the  *)
(* description has and however many content boxes there are, a written box is    *)
(* accepted, with its description and its contents where they were put.      *)
THEOREM WrittenIsReadBack == ParserSpec => []WrittenBoxIsReadBack
<1>1. ParseInvariant /\ WrittenIsRead => WrittenBoxIsReadBack
  <2>. SUFFICES ASSUME ParseInvariant, NEW b \in Written, fields = {b}, ReadSoFar(b)
                PROVE  /\ phase # "failed"
                       /\ phase = "accepted" =>
                            /\ description = {b.description}
                            /\ children = ChildrenOf(b) /\ end = size
    BY DEF WrittenIsRead, WrittenBoxIsReadBack
  <2>1. phase # "failed"
    BY DEF ReadSoFar
  <2>2. ASSUME phase = "accepted" PROVE children = ChildrenOf(b)
    <3>1. MayBeWritten(b)
      BY WrittenMay
    <3>2. Len(children) = Len(b.contents)
      BY <2>2, <3>1, BoxAhead DEF ParseInvariant, ReadSoFar
    <3>3. DOMAIN ChildrenOf(b) = 1 .. Len(b.contents)
      BY <3>1, ContentsAre, Zenon DEF ChildrenOf
    <3>4. \A i \in 1 .. Len(b.contents) : children[i] = ChildrenOf(b)[i]
      BY <2>2, <3>2 DEF ReadSoFar
    <3>5. children = [i \in 1 .. Len(children) |-> children[i]]
      BY DEF ParseInvariant, NumbersInPlace
    <3>6. ChildrenOf(b) = [i \in 1 .. Len(b.contents) |-> ChildrenOf(b)[i]]
      BY <3>3, Zenon DEF ChildrenOf
    <3>7. QED
      BY <3>2, <3>4, <3>5, <3>6
  <2>3. QED
    BY <2>1, <2>2 DEF ReadSoFar
<1>2. ParserSpec => []WrittenIsRead
  <2>1. WrittenIsRead /\ ParseInvariant /\ [ParserNext]_parserVars => WrittenIsRead'
    BY WrittenStaysRead
  <2>2. QED
    BY ReadInitially, ParseStaysInPlace, <2>1, PTL DEF ParserSpec
<1>3. QED
  BY ParseStaysInPlace, <1>1, <1>2, PTL
===============================================================================
