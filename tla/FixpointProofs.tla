---------------------------- MODULE FixpointProofs ----------------------------
(***************************************************************************)
(* The padding search of Fixpoint is exact, misses no fitting pad and does *)
(* bounded work, for every wrapper, digest, signature and size limit.      *)
(***************************************************************************)
EXTENDS Fixpoint, TLAPS

----------------------------------------------------------------------------
(* What a 32-bit length can cost more or less after a small growth.          *)

LengthBound == 16777216                           \* 2^24

LEMMA CostRange == \A b \in Nat : SelectorCost(b) \in {3, 4}
  BY DEF SelectorCost

(* The three low digits of a length, base 256.                               *)
Low(n)  == n % 256
Mid(n)  == (n \div 256) % 256
High(n) == (n \div 65536) % 256

LEMMA Digits ==
  ASSUME NEW n \in Nat, n < 16777216
  PROVE  /\ Low(n) \in 0 .. 255 /\ Mid(n) \in 0 .. 255 /\ High(n) \in 0 .. 255
         /\ n = 65536 * High(n) + 256 * Mid(n) + Low(n)
         /\ FieldCost(n) = 3 + SelectorCost(High(n)) + SelectorCost(Mid(n)) + SelectorCost(Low(n))
<1>1. /\ n \div 16777216 = 0
      /\ Low(n) \in 0 .. 255 /\ Mid(n) \in 0 .. 255 /\ High(n) \in 0 .. 255
      /\ n = 65536 * High(n) + 256 * Mid(n) + Low(n)
  BY SMT DEF Low, Mid, High
<1>2. SelectorCost(0) = 3
  BY DEF SelectorCost, LOW_SPAN
<1>3. FieldCost(n) = SelectorCost(n \div 16777216) + SelectorCost(High(n)) + SelectorCost(Mid(n))
                       + SelectorCost(Low(n))
  BY SMT DEF FieldCost, Low, Mid, High
<1>4. QED
  BY <1>1, <1>2, <1>3, SMT

(* One carry at most reaches the second digit, one at most the third.        *)
LEMMA FieldGrowth ==
  ASSUME NEW n \in Nat, NEW g \in 0 .. 256, n + g < LengthBound
  PROVE  /\ FieldCost(n + g) \in Nat /\ FieldCost(n) \in Nat
         /\ FieldCost(n) - 2 <= FieldCost(n + g) /\ FieldCost(n + g) <= FieldCost(n) + 1
<1> DEFINE a == Low(n)
           b == Mid(n)
           c == High(n)
           x == Low(n + g)
           y == Mid(n + g)
           z == High(n + g)
<1>1. /\ a \in 0 .. 255 /\ b \in 0 .. 255 /\ c \in 0 .. 255
      /\ n = 65536 * c + 256 * b + a
      /\ FieldCost(n) = 3 + SelectorCost(c) + SelectorCost(b) + SelectorCost(a)
  <2>1. n < 16777216
    BY SMT DEF LengthBound
  <2>2. QED
    BY <2>1, Digits, SMT
<1>2. /\ x \in 0 .. 255 /\ y \in 0 .. 255 /\ z \in 0 .. 255
      /\ n + g = 65536 * z + 256 * y + x
      /\ FieldCost(n + g) = 3 + SelectorCost(z) + SelectorCost(y) + SelectorCost(x)
  <2>1. n + g \in Nat /\ n + g < 16777216
    BY SMT DEF LengthBound
  <2>2. QED
    BY <2>1, Digits, SMT
<1> HIDE DEF a, b, c, x, y, z
<1>3. PICK fn, fg : fn = FieldCost(n) /\ fg = FieldCost(n + g)
  OBVIOUS
<1>4. CASE a + g < 256
  <2>1. x = a + g /\ y = b /\ z = c
    BY <1>1, <1>2, <1>4, SMT
  <2>2. fn \in Nat /\ fg \in Nat /\ fn - 2 <= fg /\ fg <= fn + 1
    BY <1>1, <1>2, <1>3, <2>1, SMT DEF SelectorCost, LOW_SPAN
  <2>3. QED
    BY <1>3, <2>2
<1>5. CASE a + g >= 256 /\ b < 255
  <2>1. x = a + g - 256 /\ y = b + 1 /\ z = c
    BY <1>1, <1>2, <1>5, SMT
  <2>2. fn \in Nat /\ fg \in Nat /\ fn - 2 <= fg /\ fg <= fn + 1
    BY <1>1, <1>2, <1>3, <1>5, <2>1, SMT DEF SelectorCost, LOW_SPAN
  <2>3. QED
    BY <1>3, <2>2
<1>6. CASE a + g >= 256 /\ b = 255
  <2>1. x = a + g - 256 /\ y = 0 /\ z = c + 1
    BY <1>1, <1>2, <1>6, SMT
  <2>2. fn \in Nat /\ fg \in Nat /\ fn - 2 <= fg /\ fg <= fn + 1
    BY <1>1, <1>2, <1>3, <1>6, <2>1, SMT DEF SelectorCost, LOW_SPAN
  <2>3. QED
    BY <1>3, <2>2
<1>7. QED
  BY <1>1, <1>2, <1>4, <1>5, <1>6, SMT

----------------------------------------------------------------------------
(* How a wrapper grows with its pad.                                         *)

(* The fields of a frame are far enough from 2^24 for FieldGrowth.           *)
LEMMA FrameFields ==
  ASSUME NEW f \in Frames
  PROVE  /\ f.fixed \in Nat /\ f.fixed >= 256
         /\ f.store \in Nat /\ f.manifest \in Nat /\ f.assertions \in Nat
         /\ f.dataHash \in Nat /\ f.dataHashContent \in Nat
         /\ f.signature \in Nat /\ f.signatureContent \in Nat
         /\ f.store <= LargestLength /\ f.manifest <= LargestLength
         /\ f.assertions <= LargestLength /\ f.dataHash <= LargestLength
         /\ f.dataHashContent <= LargestLength
         /\ f.signature <= LargestLength /\ f.signatureContent <= LargestLength
<1>1. f \in Frame /\ \A l \in Lengths : f[l] <= LargestLength
  BY FramesAssumption
<1>2. /\ f["store"] <= LargestLength /\ f["manifest"] <= LargestLength
      /\ f["assertions"] <= LargestLength /\ f["dataHash"] <= LargestLength
      /\ f["dataHashContent"] <= LargestLength
      /\ f["signature"] <= LargestLength /\ f["signatureContent"] <= LargestLength
  BY <1>1 DEF Lengths
<1>3. QED
  BY <1>1, <1>2, SMTT(30) DEF Frame, LengthRange

LEMMA GrowFrom ==
  ASSUME NEW n \in Nat, n <= LargestLength, NEW w \in 0 .. 4, NEW g \in 0 .. 256
  PROVE  /\ FieldCost(n + w) \in Nat /\ FieldCost(n + w + g) \in Nat
         /\ FieldCost(n + w) - 2 <= FieldCost(n + w + g)
         /\ FieldCost(n + w + g) <= FieldCost(n + w) + 1
<1>1. n + w \in Nat /\ n + w + g < LengthBound
  BY SMT DEF LargestLength, LengthBound
<1>2. PICK m \in Nat : m = n + w
  BY <1>1
<1>3. m + g < LengthBound
  BY <1>1, <1>2
<1>4. QED
  BY <1>2, <1>3, FieldGrowth

LEMMA ShiftedCost ==
  ASSUME NEW n \in Nat, n <= LargestLength, NEW w \in 0 .. 4
  PROVE  FieldCost(n + w) \in Nat
<1>1. PICK g \in 0 .. 256 : g = 0
  OBVIOUS
<1>2. QED
  BY GrowFrom

LEMMA GrowFromZero ==
  ASSUME NEW n \in Nat, n <= LargestLength, NEW g \in 0 .. 256
  PROVE  /\ FieldCost(n) \in Nat /\ FieldCost(n + g) \in Nat
         /\ FieldCost(n) - 2 <= FieldCost(n + g) /\ FieldCost(n + g) <= FieldCost(n) + 1
<1>1. n + g < LengthBound
  BY SMT DEF LargestLength, LengthBound
<1>2. QED
  BY <1>1, FieldGrowth

LEMMA PlainCost ==
  ASSUME NEW n \in Nat, n <= LargestLength
  PROVE  FieldCost(n) \in Nat
<1>1. PICK g \in 0 .. 256 : g = 0
  OBVIOUS
<1>2. QED
  BY GrowFromZero

(* Growth is 3p + e with e in -10 .. 9 (comment on _WINDOW).                 *)
LEMMA PaddedLength ==
  ASSUME NEW f \in Frames, NEW d \in Nat, NEW o \in Nat, NEW p \in Pads
  PROVE  /\ WrapperLength(f, d, o, 0) \in Nat /\ WrapperLength(f, d, o, 0) >= 256
         /\ WrapperLength(f, d, o, p) \in Nat
         /\ p >= 24 => WrapperLength(f, d, o, p) >= WrapperLength(f, d, o, 0) + 3 * p - 6
         /\ WrapperLength(f, d, o, p) >= WrapperLength(f, d, o, 0) + 3 * p - 10
         /\ WrapperLength(f, d, o, p) <= WrapperLength(f, d, o, 0) + 3 * p + 9
<1> DEFINE w == HeadTail(d)
           g == PadGrowth(p)
<1>1. w \in 0 .. 4 /\ g \in 0 .. 256 /\ HeadTail(p) \in 0 .. 1 /\ (p >= 24 => HeadTail(p) = 1)
  BY DEF HeadTail, PadGrowth, Pads
<1>2. PadGrowth(0) = 0 /\ PadCost(0) = 4 /\ PadCost(p) = 4 + 4 * HeadTail(p) + 3 * p
  BY DEF PadGrowth, PadCost, HeadTail
<1>3. IntegerCost(d) \in Nat
  BY CostRange, SMT DEF IntegerCost
<1> HIDE DEF w, g
<1>4. /\ f.store \in Nat /\ f.manifest \in Nat /\ f.assertions \in Nat /\ f.dataHash \in Nat
      /\ f.dataHashContent \in Nat /\ f.signature \in Nat /\ f.signatureContent \in Nat
      /\ f.fixed \in Nat /\ f.fixed >= 256
  BY FrameFields
<1>5. PICK s0, s1 \in Nat : /\ s0 = FieldCost(f.store + w) /\ s1 = FieldCost(f.store + w + g)
                            /\ s0 - 2 <= s1 /\ s1 <= s0 + 1
  BY <1>1, FrameFields, GrowFrom
<1>6. PICK m0, m1 \in Nat : /\ m0 = FieldCost(f.manifest + w) /\ m1 = FieldCost(f.manifest + w + g)
                            /\ m0 - 2 <= m1 /\ m1 <= m0 + 1
  BY <1>1, FrameFields, GrowFrom
<1>7. PICK b1, b2, b3 \in Nat : /\ b1 = FieldCost(f.assertions + w)
                                /\ b2 = FieldCost(f.dataHash + w)
                                /\ b3 = FieldCost(f.dataHashContent + w)
  <2>1. /\ FieldCost(f.assertions + w) \in Nat /\ FieldCost(f.dataHash + w) \in Nat
        /\ FieldCost(f.dataHashContent + w) \in Nat
    BY <1>1, FrameFields, ShiftedCost
  <2>2. QED
    BY <2>1
<1>8. PICK u0, u1 \in Nat : /\ u0 = FieldCost(f.signature) /\ u1 = FieldCost(f.signature + g)
                            /\ u0 - 2 <= u1 /\ u1 <= u0 + 1
  BY <1>1, FrameFields, GrowFromZero
<1>9. PICK v0, v1 \in Nat : /\ v0 = FieldCost(f.signatureContent)
                            /\ v1 = FieldCost(f.signatureContent + g)
                            /\ v0 - 2 <= v1 /\ v1 <= v0 + 1
  BY <1>1, FrameFields, GrowFromZero
<1>10. WrapperLength(f, d, o, 0)
         = f.fixed + o + IntegerCost(d) + 4 + 2 * s0 + m0 + b1 + b2 + b3 + u0 + v0
  <2>1. /\ f.store + w + 0 = f.store + w /\ f.manifest + w + 0 = f.manifest + w
        /\ f.signature + 0 = f.signature /\ f.signatureContent + 0 = f.signatureContent
    BY <1>1, <1>4
  <2>2. QED
    BY <1>2, <1>5, <1>6, <1>7, <1>8, <1>9, <2>1 DEF WrapperLength, w
<1>11. WrapperLength(f, d, o, p)
         = f.fixed + o + IntegerCost(d) + PadCost(p) + 2 * s1 + m1 + b1 + b2 + b3 + u1 + v1
  BY <1>5, <1>6, <1>7, <1>8, <1>9 DEF WrapperLength, w, g
<1>12. PICK i, h \in Nat : i = IntegerCost(d) /\ h = HeadTail(p)
  BY <1>1, <1>3
<1>13. p \in Nat
  BY DEF Pads
<1>14. PICK fixed \in Nat : fixed = f.fixed /\ fixed >= 256
  BY <1>4
<1>15. PICK before, after :
         /\ before = fixed + o + i + 4 + 2 * s0 + m0 + b1 + b2 + b3 + u0 + v0
         /\ after = fixed + o + i + (4 + 4 * h + 3 * p) + 2 * s1 + m1 + b1 + b2 + b3 + u1 + v1
  OBVIOUS
<1>16. WrapperLength(f, d, o, 0) = before /\ WrapperLength(f, d, o, p) = after
  BY <1>2, <1>10, <1>11, <1>12, <1>14, <1>15
<1>17. h \in 0 .. 1 /\ (p >= 24 => h = 1)
  BY <1>1, <1>12
<1>18. /\ before \in Nat /\ before >= 256 /\ after \in Nat
       /\ p >= 24 => after >= before + 3 * p - 6
       /\ after >= before + 3 * p - 10 /\ after <= before + 3 * p + 9
  <2>1. /\ s0 - 2 <= s1 /\ s1 <= s0 + 1 /\ m0 - 2 <= m1 /\ m1 <= m0 + 1
        /\ u0 - 2 <= u1 /\ u1 <= u0 + 1 /\ v0 - 2 <= v1 /\ v1 <= v0 + 1
    BY <1>5, <1>6, <1>8, <1>9
  <2>2. QED
    BY <1>13, <1>14, <1>15, <1>17, <2>1
<1>19. QED
  BY <1>16, <1>18

(* Declaring a length instead of 0 saves at most 128 bytes of digest and     *)
(* signature and two for each of six lengths, and costs seven for itself:    *)
(* a candidate is at most 133 bytes shorter than the probe.                  *)
LEMMA CandidateAgainstProbe ==
  ASSUME NEW f \in Frames, NEW d \in Nat, d >= 256, NEW o \in 0 .. 128, NEW q \in 0 .. 128
  PROVE  WrapperLength(f, 0, q, 0) - WrapperLength(f, d, o, 0) <= 133
<1> DEFINE w == HeadTail(d)
<1>1. w \in 0 .. 4 /\ HeadTail(0) = 0
  BY DEF HeadTail
<1>2. PICK i \in Nat : i = IntegerCost(d) /\ i >= 10
  <2>1. HeadTail(d) \in {2, 4}
    BY DEF HeadTail
  <2>2. CASE HeadTail(d) = 2
    BY <2>2, CostRange, SMT DEF IntegerCost
  <2>3. CASE HeadTail(d) = 4
    BY <2>3, CostRange, SMT DEF IntegerCost
  <2>4. QED
    BY <2>1, <2>2, <2>3
<1>3. IntegerCost(0) = 3
  BY <1>1 DEF IntegerCost, SelectorCost, LOW_SPAN
<1>4. PadGrowth(0) = 0
  BY <1>1 DEF PadGrowth
<1>5. PICK c \in Nat : c = PadCost(0)
  BY <1>1 DEF PadCost
<1> HIDE DEF w
<1>6. w \in 0 .. 256
  BY <1>1
<1>7. PICK s0, s1 \in Nat :
        s0 = FieldCost(f.store) /\ s1 = FieldCost(f.store + w) /\ s0 - 2 <= s1
  <2>1. f.store \in Nat /\ f.store <= LargestLength
    BY FrameFields
  <2>2. /\ FieldCost(f.store) \in Nat /\ FieldCost(f.store + w) \in Nat
        /\ FieldCost(f.store) - 2 <= FieldCost(f.store + w)
        /\ FieldCost(f.store + w) <= FieldCost(f.store) + 1
    BY <1>6, <2>1, GrowFromZero
  <2>3. QED
    BY <2>2
<1>8. PICK m0, m1 \in Nat :
        m0 = FieldCost(f.manifest) /\ m1 = FieldCost(f.manifest + w) /\ m0 - 2 <= m1
  <2>1. f.manifest \in Nat /\ f.manifest <= LargestLength
    BY FrameFields
  <2>2. /\ FieldCost(f.manifest) \in Nat /\ FieldCost(f.manifest + w) \in Nat
        /\ FieldCost(f.manifest) - 2 <= FieldCost(f.manifest + w)
        /\ FieldCost(f.manifest + w) <= FieldCost(f.manifest) + 1
    BY <1>6, <2>1, GrowFromZero
  <2>3. QED
    BY <2>2
<1>9. PICK a0, a1 \in Nat :
        a0 = FieldCost(f.assertions) /\ a1 = FieldCost(f.assertions + w) /\ a0 - 2 <= a1
  <2>1. f.assertions \in Nat /\ f.assertions <= LargestLength
    BY FrameFields
  <2>2. /\ FieldCost(f.assertions) \in Nat /\ FieldCost(f.assertions + w) \in Nat
        /\ FieldCost(f.assertions) - 2 <= FieldCost(f.assertions + w)
        /\ FieldCost(f.assertions + w) <= FieldCost(f.assertions) + 1
    BY <1>6, <2>1, GrowFromZero
  <2>3. QED
    BY <2>2
<1>10. PICK h0, h1 \in Nat :
        h0 = FieldCost(f.dataHash) /\ h1 = FieldCost(f.dataHash + w) /\ h0 - 2 <= h1
  <2>1. f.dataHash \in Nat /\ f.dataHash <= LargestLength
    BY FrameFields
  <2>2. /\ FieldCost(f.dataHash) \in Nat /\ FieldCost(f.dataHash + w) \in Nat
        /\ FieldCost(f.dataHash) - 2 <= FieldCost(f.dataHash + w)
        /\ FieldCost(f.dataHash + w) <= FieldCost(f.dataHash) + 1
    BY <1>6, <2>1, GrowFromZero
  <2>3. QED
    BY <2>2
<1>11. PICK x0, x1 \in Nat :
        x0 = FieldCost(f.dataHashContent) /\ x1 = FieldCost(f.dataHashContent + w) /\ x0 - 2 <= x1
  <2>1. f.dataHashContent \in Nat /\ f.dataHashContent <= LargestLength
    BY FrameFields
  <2>2. /\ FieldCost(f.dataHashContent) \in Nat /\ FieldCost(f.dataHashContent + w) \in Nat
        /\ FieldCost(f.dataHashContent) - 2 <= FieldCost(f.dataHashContent + w)
        /\ FieldCost(f.dataHashContent + w) <= FieldCost(f.dataHashContent) + 1
    BY <1>6, <2>1, GrowFromZero
  <2>3. QED
    BY <2>2
<1>12. PICK u, v \in Nat : u = FieldCost(f.signature) /\ v = FieldCost(f.signatureContent)
  <2>1. FieldCost(f.signature) \in Nat /\ FieldCost(f.signatureContent) \in Nat
    BY FrameFields, PlainCost
  <2>2. QED
    BY <2>1
<1>13. PICK fixed \in Nat : fixed = f.fixed
  BY FrameFields
<1>14. WrapperLength(f, 0, q, 0) = fixed + q + 3 + c + 2 * s0 + m0 + a0 + h0 + x0 + u + v
  <2>1. /\ f.store + 0 + 0 = f.store /\ f.manifest + 0 + 0 = f.manifest
        /\ f.assertions + 0 = f.assertions /\ f.dataHash + 0 = f.dataHash
        /\ f.dataHashContent + 0 = f.dataHashContent
        /\ f.signature + 0 = f.signature /\ f.signatureContent + 0 = f.signatureContent
    BY FrameFields
  <2>2. QED
    BY <1>1, <1>3, <1>4, <1>5, <1>7, <1>8, <1>9, <1>10, <1>11, <1>12, <1>13, <2>1
       DEF WrapperLength
<1>15. WrapperLength(f, d, o, 0) = fixed + o + i + c + 2 * s1 + m1 + a1 + h1 + x1 + u + v
  <2>1. /\ f.store + w + 0 = f.store + w /\ f.manifest + w + 0 = f.manifest + w
        /\ f.signature + 0 = f.signature /\ f.signatureContent + 0 = f.signatureContent
    BY <1>6, FrameFields
  <2>2. QED
    BY <1>2, <1>4, <1>5, <1>7, <1>8, <1>9, <1>10, <1>11, <1>12, <1>13, <2>1
       DEF WrapperLength, w
<1>16. (fixed + q + 3 + c + 2 * s0 + m0 + a0 + h0 + x0 + u + v)
         - (fixed + o + i + c + 2 * s1 + m1 + a1 + h1 + x1 + u + v) <= 133
  <2>1. /\ s0 - 2 <= s1 /\ m0 - 2 <= m1 /\ a0 - 2 <= a1 /\ h0 - 2 <= h1 /\ x0 - 2 <= x1
        /\ i >= 10
    BY <1>2, <1>7, <1>8, <1>9, <1>10, <1>11
  <2>2. QED
    BY <1>13, <2>1
<1>17. QED
  BY <1>14, <1>15, <1>16

(* What the two comments of _fixpoint.py claim of every candidate: the need  *)
(* is at most 176 bytes, and the window holds every pad that meets it.       *)
LEMMA NeedIsBounded ==
  ASSUME frame \in Frames, NEW q \in Opaque, base = WrapperLength(frame, 0, q, 0) + SLACK,
         opaque \in Opaque, target \in base .. base + MAX_TARGETS - 1
  PROVE  target \in Nat /\ target >= 256 /\ target - Length(0) <= 176
<1>1. q \in 0 .. 128 /\ opaque \in 0 .. 128
  BY OpaqueAssumption
<1>2. WrapperLength(frame, 0, q, 0) \in Nat /\ WrapperLength(frame, 0, q, 0) >= 256
  <2>1. q \in Nat /\ 0 \in Nat /\ 0 \in Pads
    BY <1>1 DEF Pads
  <2>2. QED
    BY <2>1, PaddedLength
<1>3. target \in Nat /\ target >= 256 /\ target <= WrapperLength(frame, 0, q, 0) + 43
  BY <1>2 DEF SLACK, MAX_TARGETS
<1>4. Length(0) \in Nat
  <2>1. opaque \in Nat /\ 0 \in Pads
    BY <1>1 DEF Pads
  <2>2. QED
    BY <1>3, <2>1, PaddedLength DEF Length
<1>5. WrapperLength(frame, 0, q, 0) - Length(0) <= 133
  BY <1>1, <1>3, CandidateAgainstProbe DEF Length
<1>6. QED
  BY <1>2, <1>3, <1>4, <1>5

LEMMA WindowHoldsEveryFit ==
  ASSUME frame \in Frames, opaque \in Opaque, target \in Nat, target - Length(0) <= 176,
         Length(0) # target, NEW p \in Pads, Length(p) = target
  PROVE  p >= FirstPad /\ p <= LastPad
<1>1. opaque \in Nat /\ p \in Nat
  BY OpaqueAssumption DEF Pads
<1>2. /\ Length(0) \in Nat
      /\ p >= 24 => target >= Length(0) + 3 * p - 6
      /\ target >= Length(0) + 3 * p - 10 /\ target <= Length(0) + 3 * p + 9
  BY <1>1, PaddedLength DEF Length
<1>3. p # 0
  OBVIOUS
<1>4. PICK n \in Nat : n = Length(0)
  BY <1>2
<1>5. p <= 60
  BY <1>1, <1>2, <1>4
<1>6. CASE target > n
  <2>1. PICK e \in Nat : e = (target - n) \div 3
    BY <1>4, <1>6
  <2>2. 3 * e <= target - n /\ target - n <= 3 * e + 2
    BY <1>4, <1>6, <2>1
  <2>3. e <= p + 3 /\ p <= e + 4
    BY <1>1, <1>2, <1>4, <2>2
  <2>4. Estimate = e
    BY <1>4, <1>6, <2>1 DEF Estimate, BYTES_PER_ZERO
  <2>5. QED
    BY <1>1, <1>3, <1>5, <2>3, <2>4 DEF FirstPad, LastPad, WINDOW, MAX_PAD
<1>7. CASE ~ (target > n)
  <2>1. Estimate = 0
    BY <1>4, <1>7 DEF Estimate
  <2>2. p <= 4
    BY <1>1, <1>2, <1>4, <1>7
  <2>3. QED
    BY <1>1, <1>3, <2>1, <2>2 DEF FirstPad, LastPad, WINDOW, MAX_PAD
<1>8. QED
  BY <1>6, <1>7

LEMMA WindowShape ==
  ASSUME frame \in Frames, opaque \in Opaque, target \in Nat, target - Length(0) <= 176
  PROVE  /\ FirstPad \in 1 .. 54 /\ LastPad \in 0 .. MAX_PAD
         /\ FirstPad <= LastPad /\ LastPad - FirstPad <= 8
<1>1. Length(0) \in Nat
  <2>1. opaque \in Nat /\ 0 \in Pads
    BY OpaqueAssumption DEF Pads
  <2>2. QED
    BY <2>1, PaddedLength DEF Length
<1>2. Estimate \in 0 .. 58
  BY <1>1 DEF Estimate, BYTES_PER_ZERO
<1>3. QED
  BY <1>2 DEF FirstPad, LastPad, WINDOW, MAX_PAD

----------------------------------------------------------------------------
(* The inductive invariant.                                                  *)

Searching == {"prepare", "baseline", "pads", "done", "failed"}

BaseIsProbed ==
  pc \in Searching => \E q \in Opaque : base = WrapperLength(frame, 0, q, 0) + SLACK

WindowInPlace ==
  pc = "pads" => /\ opaque \in Opaque /\ Length(0) # target
                 /\ stop = LastPad /\ pad \in FirstPad .. stop + 1

(* Work done so far, from where the search stands.                           *)
WorkCounted ==
  /\ pc = "probe" => prepares = 0 /\ trials = 0
  /\ pc \in {"prepare", "failed"} => prepares = 1 + (target - base)
  /\ pc \in {"baseline", "pads", "done"} => prepares = 2 + (target - base)
  /\ pc = "baseline" => trials = 0 /\ opaque \in Opaque
  /\ pc = "pads" => trials = 1 + (pad - FirstPad)
  /\ WorkIsBounded

SearchInvariant ==
  /\ TypeOK
  /\ BaseIsProbed
  /\ WindowInPlace
  /\ WorkCounted
  /\ DeclaredLengthIsExact
  /\ NoFittingPadIsMissed

(* The bound on the need is a consequence of where the targets start.        *)
LEMMA NeedFollows ==
  ASSUME TypeOK, BaseIsProbed, pc \in {"baseline", "pads"}, opaque \in Opaque
  PROVE  target \in Nat /\ target >= 256 /\ target - Length(0) <= 176
<1>1. frame \in Frames /\ target \in base .. base + MAX_TARGETS - 1
  BY DEF TypeOK
<1>2. PICK q \in Opaque : base = WrapperLength(frame, 0, q, 0) + SLACK
  BY DEF BaseIsProbed, Searching
<1>3. QED
  BY <1>1, <1>2, NeedIsBounded

LEMMA ProbeKeepsInvariant == SearchInvariant /\ Probe => SearchInvariant'
<1> SUFFICES ASSUME SearchInvariant, Probe PROVE SearchInvariant'
  OBVIOUS
<1> USE DEF SearchInvariant
<1>1. CASE TooLong(frame, 0, 0) /\ Refuse
  BY <1>1 DEF Probe, Refuse, TypeOK, BaseIsProbed, Searching, WindowInPlace, WorkCounted,
     WorkIsBounded, DeclaredLengthIsExact, NoFittingPadIsMissed
<1>2. CASE ~ TooLong(frame, 0, 0)
  <2>1. PICK q \in Opaque : base' = WrapperLength(frame, 0, q, 0) + SLACK
    BY <1>2 DEF Probe
  <2>2. /\ frame' = frame /\ opaque' = opaque /\ pad' = pad /\ stop' = stop
        /\ target' = base' /\ pc' = "prepare" /\ prepares' = 1 /\ trials' = 1
    BY <1>2 DEF Probe
  <2>3. base' \in Nat
    <3>1. q \in Nat /\ 0 \in Nat /\ 0 \in Pads /\ frame \in Frames
      BY OpaqueAssumption DEF Pads, TypeOK
    <3>2. WrapperLength(frame, 0, q, 0) \in Nat
      BY <3>1, PaddedLength
    <3>3. QED
      BY <2>1, <3>2 DEF SLACK
  <2>4. TypeOK'
    <3>1. PICK b \in Nat : b = base' /\ b = target'
      BY <2>2, <2>3
    <3>2. b \in b .. b + MAX_TARGETS
      BY DEF MAX_TARGETS
    <3>3. target' \in base' .. base' + MAX_TARGETS
      BY <3>1, <3>2
    <3>4. QED
      BY <2>2, <2>3, <3>3 DEF TypeOK
  <2>5. BaseIsProbed'
    BY <2>1, <2>2 DEF BaseIsProbed
  <2>6. WorkCounted'
    <3>1. PICK b \in Nat : b = base' /\ b = target'
      BY <2>2, <2>3
    <3>2. b - b = 0
      OBVIOUS
    <3>3. target' - base' = 0
      BY <3>1, <3>2, Zenon
    <3>4. QED
      BY <2>2, <3>3 DEF WorkCounted, WorkIsBounded
  <2>7. WindowInPlace' /\ DeclaredLengthIsExact' /\ NoFittingPadIsMissed'
    BY <2>2 DEF WindowInPlace, DeclaredLengthIsExact, NoFittingPadIsMissed
  <2>8. QED
    BY <2>4, <2>5, <2>6, <2>7
<1>3. QED
  BY <1>1, <1>2 DEF Probe

LEMMA PrepareKeepsInvariant == SearchInvariant /\ Prepare => SearchInvariant'
<1> SUFFICES ASSUME SearchInvariant, Prepare PROVE SearchInvariant'
  OBVIOUS
<1>1. /\ TypeOK /\ BaseIsProbed /\ WorkCounted
  BY DEF SearchInvariant
<1>2. /\ pc = "prepare" /\ target < base + MAX_TARGETS /\ opaque' \in Opaque
      /\ prepares' = prepares + 1 /\ trials' = 0 /\ pc' = "baseline"
      /\ frame' = frame /\ base' = base /\ target' = target /\ pad' = pad /\ stop' = stop
  BY DEF Prepare
<1>3. TypeOK'
  BY <1>1, <1>2 DEF TypeOK, MAX_TARGETS
<1>4. BaseIsProbed'
  BY <1>1, <1>2 DEF BaseIsProbed, Searching
<1>5. WorkCounted'
  <2>1. target \in base .. base + MAX_TARGETS - 1 /\ base \in Nat
    BY <1>1, <1>2 DEF TypeOK, MAX_TARGETS
  <2>2. prepares = 1 + (target - base)
    BY <1>1, <1>2 DEF WorkCounted
  <2>3. QED
    BY <1>2, <2>1, <2>2 DEF WorkCounted, WorkIsBounded, MAX_TARGETS
<1>6. WindowInPlace' /\ DeclaredLengthIsExact' /\ NoFittingPadIsMissed'
  BY <1>2 DEF WindowInPlace, DeclaredLengthIsExact, NoFittingPadIsMissed
<1>7. QED
  BY <1>3, <1>4, <1>5, <1>6 DEF SearchInvariant

LEMMA GiveUpKeepsInvariant == SearchInvariant /\ GiveUp => SearchInvariant'
<1> SUFFICES ASSUME SearchInvariant, GiveUp PROVE SearchInvariant'
  OBVIOUS
<1>1. QED
  BY DEF SearchInvariant, GiveUp, TypeOK, BaseIsProbed, Searching, WindowInPlace, WorkCounted,
     WorkIsBounded, DeclaredLengthIsExact, NoFittingPadIsMissed

LEMMA RefuseKeepsInvariant ==
  ASSUME SearchInvariant, Refuse, prepares' = prepares, trials' = trials + 1, trials <= 9
  PROVE  SearchInvariant'
  BY DEF SearchInvariant, Refuse, TypeOK, BaseIsProbed, Searching, WindowInPlace, WorkCounted,
     WorkIsBounded, DeclaredLengthIsExact, NoFittingPadIsMissed

LEMMA BaselineKeepsInvariant == SearchInvariant /\ Baseline => SearchInvariant'
<1> SUFFICES ASSUME SearchInvariant, Baseline PROVE SearchInvariant'
  OBVIOUS
<1>1. /\ TypeOK /\ BaseIsProbed /\ WorkCounted
  BY DEF SearchInvariant
<1>2. /\ pc = "baseline" /\ opaque \in Opaque /\ trials = 0 /\ frame \in Frames
      /\ trials' = trials + 1 /\ prepares' = prepares
  BY <1>1 DEF Baseline, WorkCounted, TypeOK
<1>3. target \in Nat /\ target >= 256 /\ target - Length(0) <= 176
  BY <1>1, <1>2, NeedFollows
<1>4. CASE Refuse
  BY <1>2, <1>4, RefuseKeepsInvariant
<1>5. CASE /\ ~ TooLong(frame, target, 0) /\ Length(0) = target
           /\ pc' = "done" /\ pad' = 0
           /\ UNCHANGED <<frame, base, target, opaque, stop>>
  <2>1. TypeOK'
    BY <1>1, <1>2, <1>5 DEF TypeOK, MAX_PAD
  <2>2. BaseIsProbed' /\ WindowInPlace'
    BY <1>1, <1>2, <1>5 DEF BaseIsProbed, Searching, WindowInPlace
  <2>3. WorkCounted'
    BY <1>1, <1>2, <1>5 DEF WorkCounted, WorkIsBounded
  <2>4. DeclaredLengthIsExact' /\ NoFittingPadIsMissed'
    BY <1>5 DEF DeclaredLengthIsExact, NoFittingPadIsMissed, Length
  <2>5. QED
    BY <2>1, <2>2, <2>3, <2>4 DEF SearchInvariant
<1>6. CASE /\ Length(0) # target
           /\ pad' = FirstPad /\ stop' = LastPad /\ pc' = "pads"
           /\ UNCHANGED <<frame, base, target, opaque>>
  <2>1. /\ FirstPad \in 1 .. 54 /\ LastPad \in 0 .. MAX_PAD
        /\ FirstPad <= LastPad /\ LastPad - FirstPad <= 8
    BY <1>2, <1>3, WindowShape
  <2>2. TypeOK'
    BY <1>1, <1>2, <1>6, <2>1 DEF TypeOK, MAX_PAD
  <2>3. FirstPad' = FirstPad /\ LastPad' = LastPad /\ \A p \in Pads : Length(p)' = Length(p)
    BY <1>6 DEF FirstPad, LastPad, Estimate, Length
  <2>4. BaseIsProbed' /\ WindowInPlace'
    <3>1. Length(0)' = Length(0)
      BY <2>3 DEF Pads
    <3>2. FirstPad \in FirstPad .. LastPad + 1
      BY <2>1 DEF MAX_PAD
    <3>3. QED
      BY <1>1, <1>2, <1>6, <2>3, <3>1, <3>2 DEF BaseIsProbed, Searching, WindowInPlace
  <2>5. WorkCounted'
    BY <1>1, <1>2, <1>6, <2>1, <2>3 DEF WorkCounted, WorkIsBounded
  <2>6. NoFittingPadIsMissed'
    <3>1. ASSUME NEW p \in Pads, p < FirstPad \/ p > LastPad PROVE Length(p) # target
      <4>1. ASSUME Length(p) = target PROVE FALSE
        <5>1. p >= FirstPad /\ p <= LastPad
          BY <1>2, <1>3, <1>6, <4>1, WindowHoldsEveryFit
        <5>2. QED
          BY <2>1, <3>1, <5>1 DEF Pads, MAX_PAD
      <4>2. QED
        BY <4>1
    <3>2. QED
      BY <1>6, <2>3, <3>1 DEF NoFittingPadIsMissed
  <2>7. DeclaredLengthIsExact'
    BY <1>6 DEF DeclaredLengthIsExact
  <2>8. QED
    BY <2>2, <2>4, <2>5, <2>6, <2>7 DEF SearchInvariant
<1>7. QED
  BY <1>4, <1>5, <1>6 DEF Baseline

LEMMA TryPadKeepsInvariant == SearchInvariant /\ TryPad => SearchInvariant'
<1> SUFFICES ASSUME SearchInvariant, TryPad PROVE SearchInvariant'
  OBVIOUS
<1>1. /\ TypeOK /\ BaseIsProbed /\ WindowInPlace /\ WorkCounted /\ NoFittingPadIsMissed
  BY DEF SearchInvariant
<1>2. /\ pc = "pads" /\ pad <= stop /\ frame \in Frames
      /\ trials' = trials + 1 /\ prepares' = prepares
  BY <1>1 DEF TryPad, TypeOK
<1>3. /\ opaque \in Opaque /\ Length(0) # target /\ stop = LastPad
      /\ pad \in FirstPad .. stop + 1 /\ trials = 1 + (pad - FirstPad)
  BY <1>1, <1>2 DEF WindowInPlace, WorkCounted
<1>4. target \in Nat /\ target - Length(0) <= 176
  BY <1>1, <1>2, <1>3, NeedFollows
<1>5. /\ FirstPad \in 1 .. 54 /\ LastPad \in 0 .. MAX_PAD
      /\ FirstPad <= LastPad /\ LastPad - FirstPad <= 8
  BY <1>2, <1>3, <1>4, WindowShape
<1>6. trials \in Nat /\ trials <= 9 /\ pad \in 1 .. MAX_PAD
  BY <1>2, <1>3, <1>5 DEF MAX_PAD
<1>7. CASE Refuse
  BY <1>2, <1>6, <1>7, RefuseKeepsInvariant
<1>8. CASE /\ ~ TooLong(frame, target, pad) /\ Length(pad) = target
           /\ pc' = "done"
           /\ UNCHANGED <<frame, base, target, opaque, pad, stop>>
  <2>1. TypeOK'
    BY <1>1, <1>2, <1>8 DEF TypeOK
  <2>2. BaseIsProbed' /\ WindowInPlace'
    BY <1>1, <1>2, <1>8 DEF BaseIsProbed, Searching, WindowInPlace
  <2>3. WorkCounted'
    BY <1>1, <1>2, <1>6, <1>8 DEF WorkCounted, WorkIsBounded
  <2>4. DeclaredLengthIsExact'
    BY <1>8 DEF DeclaredLengthIsExact, Length
  <2>5. NoFittingPadIsMissed'
    <3>1. \A p \in 0 .. pad - 1 : p \in Pads /\ p < pad
      BY <1>6 DEF Pads, MAX_PAD
    <3>2. \A p \in 0 .. pad - 1 : Length(p) # target
      BY <1>1, <1>2, <3>1 DEF NoFittingPadIsMissed
    <3>3. \A p \in 0 .. pad - 1 : Length(p)' = Length(p)
      BY <1>8 DEF Length
    <3>4. QED
      BY <1>8, <3>2, <3>3 DEF NoFittingPadIsMissed
  <2>6. QED
    BY <2>1, <2>2, <2>3, <2>4, <2>5 DEF SearchInvariant
<1>9. CASE /\ Length(pad) # target /\ pad' = pad + 1
           /\ UNCHANGED <<frame, pc, base, target, opaque, stop>>
  <2>1. TypeOK'
    <3>1. pad' \in 0 .. MAX_PAD + 1
      BY <1>6, <1>9 DEF MAX_PAD
    <3>2. QED
      BY <1>1, <1>2, <1>6, <1>9, <3>1 DEF TypeOK
  <2>2. FirstPad' = FirstPad /\ LastPad' = LastPad /\ \A p \in Pads : Length(p)' = Length(p)
    BY <1>9 DEF FirstPad, LastPad, Estimate, Length
  <2>3. BaseIsProbed' /\ WindowInPlace'
    <3>1. Length(0)' = Length(0)
      BY <2>2 DEF Pads
    <3>2. pad + 1 \in FirstPad .. stop + 1
      BY <1>2, <1>3, <1>5, <1>6 DEF MAX_PAD
    <3>3. QED
      BY <1>1, <1>2, <1>3, <1>9, <2>2, <3>1, <3>2 DEF BaseIsProbed, Searching, WindowInPlace
  <2>4. WorkCounted'
    <3>1. trials' = 1 + (pad' - FirstPad')
      BY <1>2, <1>3, <1>5, <1>6, <1>9, <2>2 DEF MAX_PAD
    <3>2. trials' <= 10
      BY <1>2, <1>6
    <3>3. QED
      BY <1>1, <1>2, <1>9, <3>1, <3>2 DEF WorkCounted, WorkIsBounded
  <2>5. NoFittingPadIsMissed'
    <3>1. \A p \in Pads : p < pad + 1 => p < pad \/ p = pad
      BY <1>6 DEF Pads, MAX_PAD
    <3>2. \A p \in Pads : p < pad + 1 \/ p > stop => Length(p) # target
      BY <1>1, <1>2, <1>9, <3>1 DEF NoFittingPadIsMissed
    <3>3. QED
      BY <1>2, <1>9, <2>2, <3>2 DEF NoFittingPadIsMissed
  <2>6. DeclaredLengthIsExact'
    BY <1>2, <1>9 DEF DeclaredLengthIsExact
  <2>7. QED
    BY <2>1, <2>3, <2>4, <2>5, <2>6 DEF SearchInvariant
<1>10. QED
  BY <1>7, <1>8, <1>9 DEF TryPad

LEMMA NextTargetKeepsInvariant == SearchInvariant /\ NextTarget => SearchInvariant'
<1> SUFFICES ASSUME SearchInvariant, NextTarget PROVE SearchInvariant'
  OBVIOUS
<1>1. TypeOK /\ BaseIsProbed /\ WorkCounted
  BY DEF SearchInvariant
<1>2. /\ pc = "pads" /\ target' = target + 1 /\ pc' = "prepare"
      /\ opaque' = 0 /\ pad' = 0 /\ stop' = 0 /\ trials' = 0
      /\ frame' = frame /\ base' = base /\ prepares' = prepares
  BY DEF NextTarget
<1>3. target \in base .. base + MAX_TARGETS - 1 /\ base \in Nat
  BY <1>1, <1>2 DEF TypeOK
<1>4. TypeOK'
  <2>1. target + 1 \in base .. base + MAX_TARGETS
    BY <1>3 DEF MAX_TARGETS
  <2>2. 0 \in 0 .. MAX_PAD + 1 /\ 0 \in 0 .. MAX_PAD
    BY DEF MAX_PAD
  <2>3. QED
    BY <1>1, <1>2, <2>1, <2>2 DEF TypeOK
<1>5. BaseIsProbed'
  BY <1>1, <1>2 DEF BaseIsProbed, Searching
<1>6. WorkCounted'
  <2>1. prepares = 2 + (target - base) /\ prepares <= 33
    BY <1>1, <1>2 DEF WorkCounted, WorkIsBounded
  <2>2. prepares' = 1 + (target' - base') /\ prepares' <= 33
    BY <1>2, <1>3, <2>1 DEF MAX_TARGETS
  <2>3. QED
    BY <1>2, <2>2 DEF WorkCounted, WorkIsBounded
<1>7. WindowInPlace' /\ DeclaredLengthIsExact' /\ NoFittingPadIsMissed'
  BY <1>2 DEF WindowInPlace, DeclaredLengthIsExact, NoFittingPadIsMissed
<1>8. QED
  BY <1>4, <1>5, <1>6, <1>7 DEF SearchInvariant

----------------------------------------------------------------------------
(* The theorems.                                                             *)

LEMMA SearchStarts == Init => SearchInvariant
<1>1. 0 \in 0 .. MAX_PAD + 1 /\ 0 \in 0 .. MAX_PAD
  BY DEF MAX_PAD
<1>2. QED
  BY <1>1 DEF Init, SearchInvariant, TypeOK, BaseIsProbed, Searching, WindowInPlace, WorkCounted,
     WorkIsBounded, DeclaredLengthIsExact, NoFittingPadIsMissed

LEMMA SearchGoesOn == SearchInvariant /\ [Next]_vars => SearchInvariant'
<1> SUFFICES ASSUME SearchInvariant, [Next]_vars PROVE SearchInvariant'
  OBVIOUS
<1>1. CASE UNCHANGED vars
  BY <1>1 DEF vars, SearchInvariant, TypeOK, BaseIsProbed, Searching, WindowInPlace, WorkCounted,
     WorkIsBounded, DeclaredLengthIsExact, NoFittingPadIsMissed, FirstPad, LastPad, Estimate,
     Length
<1>2. QED
  BY <1>1, ProbeKeepsInvariant, PrepareKeepsInvariant, GiveUpKeepsInvariant,
     BaselineKeepsInvariant, TryPadKeepsInvariant, NextTargetKeepsInvariant DEF Next, Step

(* The invariant of the search holds in every reachable state.               *)
THEOREM SearchIsSound == Spec => []SearchInvariant
  BY SearchStarts, SearchGoesOn, PTL DEF Spec

(* A wrapper that solve returns declares its own UTF-8 length.               *)
THEOREM ResultIsExact == Spec => []DeclaredLengthIsExact
<1>1. SearchInvariant => DeclaredLengthIsExact
  BY DEF SearchInvariant
<1>2. QED
  BY <1>1, SearchIsSound, PTL

(* The window and the cap on the pad never cost solve a fitting pad.         *)
THEOREM SearchMissesNothing == Spec => []NoFittingPadIsMissed
<1>1. SearchInvariant => NoFittingPadIsMissed
  BY DEF SearchInvariant
<1>2. QED
  BY <1>1, SearchIsSound, PTL

(* The comment on _MAX_PAD: no target asks the pad for more than 176 bytes.  *)
THEOREM CapIsEnough == Spec => []GrowthStaysUnderCap
<1>1. SearchInvariant => GrowthStaysUnderCap
  <2>1. SUFFICES ASSUME SearchInvariant, pc \in {"baseline", "pads"}
                 PROVE  target - Length(0) <= 176
    BY DEF GrowthStaysUnderCap
  <2>2. opaque \in Opaque
    BY <2>1 DEF SearchInvariant, WindowInPlace, WorkCounted
  <2>3. QED
    BY <2>1, <2>2, NeedFollows DEF SearchInvariant
<1>2. QED
  BY <1>1, SearchIsSound, PTL

(* At most 33 signatures per embed, at most 10 wrappers for each.            *)
THEOREM WorkStaysBounded == Spec => []WorkIsBounded
<1>1. SearchInvariant => WorkIsBounded
  BY DEF SearchInvariant, WorkCounted
<1>2. QED
  BY <1>1, SearchIsSound, PTL

----------------------------------------------------------------------------
(* Fixpoint implements Search.                                               *)

LEMMA PayloadIsNatural ==
  SearchInvariant /\ pc = "done" => PayloadLength(frame, target, pad) \in Nat
<1> SUFFICES ASSUME SearchInvariant, pc = "done" PROVE PayloadLength(frame, target, pad) \in Nat
  OBVIOUS
<1>1. frame \in Frames /\ pad \in 0 .. MAX_PAD + 1 /\ target \in Int
  BY DEF SearchInvariant, TypeOK
<1>2. frame.store \in Nat
  BY <1>1, FrameFields
<1>3. HeadTail(target) \in Nat /\ HeadTail(pad) \in Nat
  BY DEF HeadTail
<1>4. QED
  BY <1>1, <1>2, <1>3 DEF PayloadLength, PadGrowth, MAX_PAD

LEMMA LengthIsNatural ==
  SearchInvariant /\ pc = "done" => target \in Nat /\ Length(pad) = target
<1> SUFFICES ASSUME SearchInvariant, pc = "done" PROVE target \in Nat /\ Length(pad) = target
  OBVIOUS
<1>1. target \in base .. base + MAX_TARGETS - 1 /\ base \in Nat
  BY DEF SearchInvariant, TypeOK
<1>2. QED
  BY <1>1 DEF SearchInvariant, DeclaredLengthIsExact

(* No answer is ever taken back.                                             *)
LEMMA AnswerIsFinal == Returned /\ Next => FALSE
  BY DEF Returned, Next, Step, Probe, Prepare, GiveUp, Baseline, TryPad, NextTarget

LEMMA SearchStartsAsPromised == Init => Promise!Init
  BY DEF Init, Promise!Init, Returned

LEMMA SearchStepsAsPromised ==
  SearchInvariant /\ SearchInvariant' /\ [Next]_vars => [Promise!Next]_(Promise!vars)
<1> SUFFICES ASSUME SearchInvariant, SearchInvariant', [Next]_vars
             PROVE  [Promise!Next]_(Promise!vars)
  OBVIOUS
<1> USE DEF Promise!vars, Promise!Next
<1>1. CASE UNCHANGED vars
  BY <1>1 DEF vars, Returned, Length
<1>2. CASE Next
  <2>1. ~ Returned
    BY <1>2, AnswerIsFinal
  <2>2. CASE ~ Returned'
    BY <2>1, <2>2 DEF Returned
  <2>3. CASE pc' = "done"
    <3>1. /\ PayloadLength(frame, target, pad)' \in Nat
          /\ PayloadLength(frame, target, pad)' <= MaxManifestLength
      <4>1. (SearchInvariant /\ pc = "done" => PayloadLength(frame, target, pad) \in Nat)'
        BY PayloadIsNatural, PTL
      <4>2. ~ TooLong(frame, target, pad)'
        BY <2>3 DEF SearchInvariant, DeclaredLengthIsExact
      <4>3. QED
        BY <2>3, <4>1, <4>2, MaxManifestLengthAssumption, SMTT(30) DEF TooLong, LengthRange
    <3>2. target' \in Nat /\ Length(pad)' = target'
      <4>1. (SearchInvariant /\ pc = "done" => target \in Nat /\ Length(pad) = target)'
        BY LengthIsNatural, PTL
      <4>2. QED
        BY <2>3, <4>1
    <3>3. Promise!Find
      BY <2>1, <2>3, <3>1, <3>2 DEF Promise!Find, Returned
    <3>4. QED
      BY <3>3
  <2>4. CASE pc' \in {"failed", "refused"}
    BY <2>1, <2>4 DEF Promise!Fail, Returned
  <2>5. QED
    BY <2>2, <2>3, <2>4 DEF Returned
<1>3. QED
  BY <1>1, <1>2

(* For every frame, every cost of digest and signature and every size limit,   *)
(* what solve answers is what embed was promised.                             *)
THEOREM SearchKeepsPromise == Spec => SolveKeepsPromise
<1>1. Spec => []SearchInvariant
  BY SearchIsSound
<1>2. QED
  BY <1>1, SearchStartsAsPromised, SearchStepsAsPromised, PTL
     DEF Spec, SolveKeepsPromise, Promise!Spec
=============================================================================
