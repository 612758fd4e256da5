------------------------------ MODULE TextLemmas ------------------------------
(***************************************************************************)
(* Facts that the proofs about several components share: about naturals,     *)
(* sequences and FlattenSeq, and about what this system writes as sequences, *)
(* the wrapper of Selectors and Framing and the UTF-8 of Binding.            *)
(*                                                                           *)
(* The library's induction rules take an operator as a parameter; here an    *)
(* induction is over a set of naturals, and rests on the library's theorem   *)
(* that a well-founded relation has minimal elements.                        *)
(***************************************************************************)
EXTENDS Binding, Framing, SequenceTheorems, FiniteSetTheorems, WellFoundedInduction, TLAPS

----------------------------------------------------------------------------
(* Least elements and induction.                                             *)

Less == {p \in Nat \X Nat : p[1] < p[2]}

LEMMA LessIff == \A a, b \in Nat : <<a, b>> \in Less <=> a < b
  BY DEF Less

LEMMA LessWellFounded == IsWellFoundedOn(Less, Nat)
<1>1. Less = OpToRel(<, Nat)
  BY DEF Less, OpToRel
<1>2. QED
  BY <1>1, NatLessThanWellFounded

(* Every non-empty set of naturals has a least element.                      *)
LEMMA LeastElement ==
  ASSUME NEW S \in SUBSET Nat, S # {}
  PROVE  \E n \in S : \A m \in S : n <= m
<1>1. \E n \in S : \A m \in S : ~ (<<m, n>> \in Less)
  BY LessWellFounded, WFMin
<1>2. PICK n \in S : \A m \in S : <<m, n>> \notin Less
  BY <1>1
<1>3. \A m \in S : ~ (m < n)
  BY <1>2, LessIff
<1>4. \A m \in S : n <= m
  BY <1>3
<1>5. QED
  BY <1>4

(* Induction from a to b.                                                    *)
LEMMA UpwardInduction ==
  ASSUME NEW a \in Nat, NEW b \in Nat, NEW T, a \in T,
         \A i \in a .. b : i \in T /\ i < b => i + 1 \in T
  PROVE  \A i \in a .. b : i \in T
<1>. DEFINE Missed == {i \in a .. b : i \notin T}
<1>. SUFFICES ASSUME Missed # {} PROVE FALSE
  OBVIOUS
<1>1. PICK n \in Missed : \A m \in Missed : n <= m
  <2>1. Missed \in SUBSET Nat
    OBVIOUS
  <2>2. QED
    BY <2>1, LeastElement
<1>2. n # a /\ n - 1 \in a .. b
  BY <1>1
<1>3. n - 1 \in T
  BY <1>1, <1>2
<1>4. QED
  BY <1>1, <1>2, <1>3

----------------------------------------------------------------------------
(* FlattenSeq.                                                               *)

Piece(seqs, f, i) == IF i = 1 THEN seqs[i] ELSE f[i - 1] \o seqs[i]

Unrolls(f, seqs, n) == f = [i \in 1 .. n |-> Piece(seqs, f, i)]

Flattening(seqs) == CHOOSE f : Unrolls(f, seqs, Len(seqs))

LEMMA PieceReads ==
  ASSUME NEW seqs, NEW f, NEW g, NEW i, i = 1 \/ f[i - 1] = g[i - 1]
  PROVE  Piece(seqs, f, i) = Piece(seqs, g, i)
  BY Zenon DEF Piece

LEMMA UnrollsAt ==
  ASSUME NEW seqs, NEW n, NEW f, Unrolls(f, seqs, n)
  PROVE  \A k \in 1 .. n : f[k] = Piece(seqs, f, k)
  BY DEF Unrolls

(* The recursive function of FlattenSeq exists, so that it is what it says.  *)
LEMMA FlatteningExtends ==
  ASSUME NEW seqs, NEW m \in Nat \ {0}, NEW f, Unrolls(f, seqs, m)
  PROVE  \E g : Unrolls(g, seqs, m + 1)
<1>. DEFINE g == [i \in 1 .. m + 1 |-> IF i = m + 1 THEN Piece(seqs, f, m + 1) ELSE f[i]]
<1>1. ASSUME NEW i \in 1 .. m + 1 PROVE g[i] = Piece(seqs, g, i)
  <2>1. CASE i = 1
    <3>1. g[i] = f[1] /\ f[1] = Piece(seqs, f, 1)
      BY <2>1 DEF Unrolls
    <3>2. QED
      BY <2>1, <3>1 DEF Piece
  <2>2. CASE i # 1
    <3>1. g[i - 1] = f[i - 1]
      BY <2>2
    <3>2. Piece(seqs, g, i) = Piece(seqs, f, i)
      BY <2>2, <3>1, PieceReads, Zenon
    <3>3. \A k \in 1 .. m : f[k] = Piece(seqs, f, k)
      BY UnrollsAt
    <3>4. g[i] = Piece(seqs, f, i)
      <4>1. CASE i = m + 1
        BY <4>1
      <4>2. CASE i # m + 1
        <5>1. i \in 1 .. m /\ g[i] = f[i]
          BY <4>2
        <5>2. QED
          BY <3>3, <5>1
      <4>3. QED
        BY <4>1, <4>2
    <3>5. QED
      BY <3>2, <3>4
  <2>3. QED
    BY <2>1, <2>2
<1>2. g = [i \in 1 .. m + 1 |-> Piece(seqs, g, i)]
  BY <1>1
<1>3. QED
  BY <1>2 DEF Unrolls

LEMMA FlatteningExists ==
  ASSUME NEW seqs, NEW n \in Nat \ {0}
  PROVE  \E f : Unrolls(f, seqs, n)
<1>. DEFINE T == {m \in 1 .. n : \E f : Unrolls(f, seqs, m)}
<1>1. 1 \in T
  <2>. DEFINE f == [i \in 1 .. 1 |-> seqs[i]]
  <2>1. f = [i \in 1 .. 1 |-> Piece(seqs, f, i)]
    BY DEF Piece
  <2>2. QED
    BY <2>1 DEF Unrolls
<1>2. ASSUME NEW m \in 1 .. n, m \in T, m < n PROVE m + 1 \in T
  BY <1>2, FlatteningExtends
<1>3. \A m \in 1 .. n : m \in T
  <2>. HIDE DEF T
  <2>1. QED
    BY <1>1, <1>2, UpwardInduction
<1>4. QED
  BY <1>3

LEMMA FlatteningUnrolls ==
  ASSUME NEW seqs, Len(seqs) \in Nat \ {0}
  PROVE  /\ FlattenSeq(seqs) = Flattening(seqs)[Len(seqs)]
         /\ Flattening(seqs)[1] = seqs[1]
         /\ \A i \in 1 .. Len(seqs) :
              i # 1 => Flattening(seqs)[i] = Flattening(seqs)[i - 1] \o seqs[i]
<1>. DEFINE n == Len(seqs)
     f == Flattening(seqs)
<1>1. Unrolls(f, seqs, n)
  BY FlatteningExists, Zenon DEF Flattening
<1>2. FlattenSeq(seqs) = f[n]
  BY DEF FlattenSeq, Flattening, Unrolls, Piece
<1>3. \A i \in 1 .. n : f[i] = Piece(seqs, f, i)
  BY <1>1, UnrollsAt
<1>4. f[1] = seqs[1]
  <2>1. f[1] = Piece(seqs, f, 1)
    BY <1>3
  <2>2. Piece(seqs, f, 1) = seqs[1]
    BY Zenon DEF Piece
  <2>3. QED
    BY <2>1, <2>2
<1>5. ASSUME NEW i \in 1 .. n, i # 1 PROVE f[i] = f[i - 1] \o seqs[i]
  <2>1. Piece(seqs, f, i) = f[i - 1] \o seqs[i]
    BY <1>5, Zenon DEF Piece
  <2>2. QED
    BY <1>3, <2>1, Zenon
<1>6. QED
  BY <1>2, <1>4, <1>5

LEMMA FlattenNothing == FlattenSeq(<<>>) = <<>>
  BY DEF FlattenSeq

LEMMA FlattenType ==
  ASSUME NEW S, NEW seqs \in Seq(Seq(S))
  PROVE  FlattenSeq(seqs) \in Seq(S)
<1>1. CASE seqs = <<>>
  <2>1. <<>> \in Seq(S)
    OBVIOUS
  <2>2. QED
    BY <1>1, <2>1, FlattenNothing, Zenon
<1>2. CASE seqs # <<>>
  <2>. DEFINE f == Flattening(seqs)
       T == {i \in 1 .. Len(seqs) : f[i] \in Seq(S)}
  <2>1. Len(seqs) \in Nat \ {0} /\ \A i \in 1 .. Len(seqs) : seqs[i] \in Seq(S)
    BY <1>2
  <2>2. /\ FlattenSeq(seqs) = f[Len(seqs)]
        /\ f[1] = seqs[1]
        /\ \A i \in 1 .. Len(seqs) : i # 1 => f[i] = f[i - 1] \o seqs[i]
    BY <2>1, FlatteningUnrolls, Zenon
  <2>. HIDE DEF f
  <2>3. 1 \in T
    BY <2>1, <2>2
  <2>4. ASSUME NEW i \in 1 .. Len(seqs), i \in T, i < Len(seqs) PROVE i + 1 \in T
    <3>0. i \in Nat /\ i + 1 \in 1 .. Len(seqs) /\ i + 1 # 1 /\ (i + 1) - 1 = i
      BY <2>1, <2>4
    <3>1. f[i] \in Seq(S) /\ seqs[i + 1] \in Seq(S) /\ f[i + 1] = f[i] \o seqs[i + 1]
      BY <2>1, <2>2, <2>4, <3>0
    <3>2. f[i] \o seqs[i + 1] \in Seq(S)
      BY <3>1
    <3>3. QED
      BY <3>0, <3>1, <3>2
  <2>5. \A i \in 1 .. Len(seqs) : i \in T
    <3>. HIDE DEF T
    <3>1. QED
      BY <2>1, <2>3, <2>4, UpwardInduction
  <2>6. QED
    BY <2>1, <2>2, <2>5
<1>3. QED
  BY <1>1, <1>2

(* Flattening goes on where it was.                                          *)
LEMMA FlattenAppend ==
  ASSUME NEW S, NEW seqs \in Seq(Seq(S)), NEW p \in Seq(S)
  PROVE  FlattenSeq(Append(seqs, p)) = FlattenSeq(seqs) \o p
<1>. DEFINE more == Append(seqs, p)
            f == Flattening(seqs)
            g == Flattening(more)
            n == Len(seqs)
<1>1. /\ n \in Nat /\ Len(more) = n + 1
      /\ \A i \in 1 .. n : more[i] = seqs[i]
      /\ more[n + 1] = p
  OBVIOUS
<1>2. /\ FlattenSeq(more) = g[n + 1]
      /\ g[1] = more[1]
      /\ \A i \in 1 .. n + 1 : i # 1 => g[i] = g[i - 1] \o more[i]
  <2>1. Len(more) \in Nat \ {0}
    BY <1>1
  <2>2. QED
    BY <1>1, <2>1, FlatteningUnrolls, Zenon
<1>3. CASE n = 0
  <2>1. seqs = <<>> /\ FlattenSeq(more) = p
    BY <1>1, <1>2, <1>3
  <2>2. <<>> \o p = p
    OBVIOUS
  <2>3. QED
    BY <2>1, <2>2, FlattenNothing, Zenon
<1>4. CASE n # 0
  <2>. DEFINE T == {i \in 1 .. n : g[i] = f[i]}
  <2>1. n \in Nat \ {0}
    BY <1>1, <1>4
  <2>2. /\ FlattenSeq(seqs) = f[n]
        /\ f[1] = seqs[1]
        /\ \A i \in 1 .. n : i # 1 => f[i] = f[i - 1] \o seqs[i]
    BY <2>1, FlatteningUnrolls, Zenon
  <2>. HIDE DEF f, g, more, n
  <2>3. 1 \in T
    BY <1>1, <1>2, <2>1, <2>2
  <2>4. ASSUME NEW i \in 1 .. n, i \in T, i < n PROVE i + 1 \in T
    <3>1. i \in Nat /\ i + 1 \in 1 .. n /\ i + 1 \in 1 .. n + 1 /\ i + 1 # 1 /\ (i + 1) - 1 = i
      BY <2>1, <2>4
    <3>2. g[i + 1] = g[i] \o more[i + 1] /\ f[i + 1] = f[i] \o seqs[i + 1] /\ g[i] = f[i]
      BY <1>2, <2>2, <2>4, <3>1
    <3>3. more[i + 1] = seqs[i + 1]
      BY <1>1, <3>1
    <3>4. g[i + 1] = f[i + 1]
      BY <3>2, <3>3, Zenon
    <3>5. QED
      BY <3>1, <3>4
  <2>5. \A i \in 1 .. n : i \in T
    <3>. HIDE DEF T
    <3>1. QED
      BY <2>1, <2>3, <2>4, UpwardInduction
  <2>6. g[n] = f[n]
    BY <2>1, <2>5
  <2>7. g[n + 1] = g[n] \o p
    <3>1. n + 1 \in 1 .. n + 1 /\ n + 1 # 1 /\ (n + 1) - 1 = n
      BY <2>1
    <3>2. g[n + 1] = g[(n + 1) - 1] \o more[n + 1]
      BY <1>2, <3>1
    <3>3. QED
      BY <1>1, <3>1, <3>2
  <2>8. FlattenSeq(more) = FlattenSeq(seqs) \o p
    BY <1>2, <2>2, <2>6, <2>7, Zenon
  <2>9. QED
    BY <2>8 DEF more
<1>5. QED
  BY <1>3, <1>4

----------------------------------------------------------------------------
(* Concatenation, prefixes and elements.                                     *)

LEMMA ToSetOfConcat ==
  ASSUME NEW S, NEW s \in Seq(S), NEW t \in Seq(S)
  PROVE  ToSet(s \o t) = ToSet(s) \cup ToSet(t)
<1>1. /\ DOMAIN (s \o t) = 1 .. Len(s) + Len(t) /\ DOMAIN s = 1 .. Len(s) /\ DOMAIN t = 1 .. Len(t)
      /\ Len(s) \in Nat /\ Len(t) \in Nat
      /\ \A i \in 1 .. Len(s) + Len(t) : (s \o t)[i] = IF i <= Len(s) THEN s[i] ELSE t[i - Len(s)]
  OBVIOUS
<1>2. ASSUME NEW x \in ToSet(s \o t) PROVE x \in ToSet(s) \cup ToSet(t)
  <2>1. PICK i \in 1 .. Len(s) + Len(t) : x = (s \o t)[i]
    BY <1>1 DEF ToSet
  <2>2. CASE i <= Len(s)
    BY <1>1, <2>1, <2>2 DEF ToSet
  <2>3. CASE ~ (i <= Len(s))
    <3>1. i - Len(s) \in 1 .. Len(t) /\ x = t[i - Len(s)]
      BY <1>1, <2>1, <2>3
    <3>2. QED
      BY <1>1, <3>1 DEF ToSet
  <2>4. QED
    BY <2>2, <2>3
<1>3. ASSUME NEW x \in ToSet(s) PROVE x \in ToSet(s \o t)
  <2>1. PICK i \in 1 .. Len(s) : x = s[i]
    BY <1>1 DEF ToSet
  <2>2. i \in 1 .. Len(s) + Len(t) /\ (s \o t)[i] = x
    BY <1>1, <2>1
  <2>3. QED
    BY <1>1, <2>2 DEF ToSet
<1>4. ASSUME NEW x \in ToSet(t) PROVE x \in ToSet(s \o t)
  <2>1. PICK i \in 1 .. Len(t) : x = t[i]
    BY <1>1 DEF ToSet
  <2>2. i + Len(s) \in 1 .. Len(s) + Len(t) /\ (s \o t)[i + Len(s)] = x
    BY <1>1, <2>1
  <2>3. QED
    BY <1>1, <2>2 DEF ToSet
<1>5. QED
  BY <1>2, <1>3, <1>4

LEMMA PrefixGrows ==
  ASSUME NEW S, NEW s \in Seq(S), NEW k \in 0 .. Len(s) - 1
  PROVE  SubSeq(s, 1, k + 1) = Append(SubSeq(s, 1, k), s[k + 1])
  OBVIOUS

LEMMA WholePrefix ==
  ASSUME NEW S, NEW s \in Seq(S)
  PROVE  SubSeq(s, 1, Len(s)) = s /\ SubSeq(s, 1, 0) = <<>>
  OBVIOUS

LEMMA ConcatIsPrefixed ==
  ASSUME NEW S, NEW s \in Seq(S), NEW t \in Seq(S)
  PROVE  IsPrefix(s, s \o t)
<1>1. Len(s) <= Len(s \o t)
  OBVIOUS
<1>2. SubSeq(s, 1, Len(s)) = SubSeq(s \o t, 1, Len(s))
  OBVIOUS
<1>3. QED
  BY <1>1, <1>2 DEF IsPrefix

(* Flattening, prefix by prefix.                                             *)
LEMMA FlattenByPrefix ==
  ASSUME NEW S, NEW seqs \in Seq(Seq(S))
  PROVE  /\ Len(seqs) \in Nat /\ \A k \in 1 .. Len(seqs) : seqs[k] \in Seq(S)
         /\ FlattenSeq(SubSeq(seqs, 1, 0)) = <<>>
         /\ FlattenSeq(SubSeq(seqs, 1, Len(seqs))) = FlattenSeq(seqs)
         /\ \A k \in 0 .. Len(seqs) : FlattenSeq(SubSeq(seqs, 1, k)) \in Seq(S)
         /\ \A k \in 0 .. Len(seqs) - 1 :
              FlattenSeq(SubSeq(seqs, 1, k + 1)) = FlattenSeq(SubSeq(seqs, 1, k)) \o seqs[k + 1]
<1>1. \A k \in 0 .. Len(seqs) : SubSeq(seqs, 1, k) \in Seq(Seq(S))
  OBVIOUS
<1>2. ASSUME NEW k \in 0 .. Len(seqs) - 1
      PROVE  FlattenSeq(SubSeq(seqs, 1, k + 1)) = FlattenSeq(SubSeq(seqs, 1, k)) \o seqs[k + 1]
  <2>1. SubSeq(seqs, 1, k) \in Seq(Seq(S)) /\ seqs[k + 1] \in Seq(S)
    OBVIOUS
  <2>2. SubSeq(seqs, 1, k + 1) = Append(SubSeq(seqs, 1, k), seqs[k + 1])
    BY PrefixGrows
  <2>3. FlattenSeq(Append(SubSeq(seqs, 1, k), seqs[k + 1])) = FlattenSeq(SubSeq(seqs, 1, k)) \o seqs[k + 1]
    BY <2>1, FlattenAppend, Zenon
  <2>4. QED
    BY <2>2, <2>3, Zenon
<1>3. /\ FlattenSeq(SubSeq(seqs, 1, 0)) = <<>>
      /\ FlattenSeq(SubSeq(seqs, 1, Len(seqs))) = FlattenSeq(seqs)
  BY WholePrefix, FlattenNothing, Zenon
<1>4. \A k \in 0 .. Len(seqs) : FlattenSeq(SubSeq(seqs, 1, k)) \in Seq(S)
  BY <1>1, FlattenType, Zenon
<1>5. Len(seqs) \in Nat /\ \A k \in 1 .. Len(seqs) : seqs[k] \in Seq(S)
  OBVIOUS
<1>6. QED
  BY <1>2, <1>3, <1>4, <1>5, Zenon

(* What is in the flattened sequence is in one of the pieces.                *)
LEMMA FlattenElements ==
  ASSUME NEW S, NEW seqs \in Seq(Seq(S))
  PROVE  ToSet(FlattenSeq(seqs)) = UNION {ToSet(seqs[i]) : i \in 1 .. Len(seqs)}
<1>. DEFINE n == Len(seqs)
            flat(k) == FlattenSeq(SubSeq(seqs, 1, k))
            all(k) == UNION {ToSet(seqs[i]) : i \in 1 .. k}
            T == {k \in 0 .. n : ToSet(flat(k)) = all(k)}
<1>1. /\ \A k \in 0 .. n : flat(k) \in Seq(S)
      /\ \A k \in 0 .. n - 1 : flat(k + 1) = flat(k) \o seqs[k + 1]
  BY FlattenByPrefix, Zenon
<1>2. /\ n \in Nat /\ flat(0) = <<>> /\ flat(n) = FlattenSeq(seqs)
      /\ \A k \in 1 .. n : seqs[k] \in Seq(S)
  BY FlattenByPrefix, Zenon
<1>3. ASSUME NEW k \in 0 .. n - 1 PROVE all(k + 1) = all(k) \cup ToSet(seqs[k + 1])
  <2>1. 1 .. k + 1 = (1 .. k) \cup {k + 1}
    BY <1>2
  <2>2. QED
    BY <2>1
<1>4. all(0) = {} /\ ToSet(<<>>) = {}
  BY DEF ToSet
<1>. HIDE DEF n, flat, all
<1>5. 0 \in T
  <2>1. 0 \in 0 .. n
    BY <1>2
  <2>2. ToSet(flat(0)) = all(0)
    BY <1>2, <1>4, Zenon
  <2>3. QED
    BY <2>1, <2>2, Zenon
<1>6. ASSUME NEW k \in 0 .. n, k \in T, k < n PROVE k + 1 \in T
  <2>1. k \in 0 .. n - 1 /\ k + 1 \in 0 .. n /\ k + 1 \in 1 .. n
    BY <1>2, <1>6
  <2>2. ToSet(flat(k) \o seqs[k + 1]) = ToSet(flat(k)) \cup ToSet(seqs[k + 1])
    BY <1>1, <1>2, <2>1, ToSetOfConcat
  <2>3. ToSet(flat(k + 1)) = all(k + 1)
    BY <1>1, <1>3, <1>6, <2>1, <2>2, Zenon
  <2>4. QED
    BY <2>1, <2>3
<1>7. \A k \in 0 .. n : k \in T
  <2>. HIDE DEF T
  <2>1. QED
    BY <1>2, <1>5, <1>6, UpwardInduction
<1>8. ToSet(flat(n)) = all(n)
  BY <1>2, <1>7
<1>9. QED
  BY <1>2, <1>8, Zenon DEF all, n

LEMMA FlattenOne ==
  ASSUME NEW S, NEW p \in Seq(S)
  PROVE  FlattenSeq(<<p>>) = p
<1>1. <<p>> = Append(<<>>, p) /\ <<>> \in Seq(Seq(S)) /\ <<>> \o p = p
  OBVIOUS
<1>2. FlattenSeq(Append(<<>>, p)) = FlattenSeq(<<>>) \o p
  BY <1>1, FlattenAppend
<1>3. QED
  BY <1>1, <1>2, FlattenNothing, Zenon

LEMMA FlattenConcat ==
  ASSUME NEW S, NEW p \in Seq(Seq(S)), NEW q \in Seq(Seq(S))
  PROVE  FlattenSeq(p \o q) = FlattenSeq(p) \o FlattenSeq(q)
<1>. DEFINE n == Len(q)
            flat(k) == FlattenSeq(SubSeq(q, 1, k))
            both(k) == FlattenSeq(p \o SubSeq(q, 1, k))
            first == FlattenSeq(p)
            T == {k \in 0 .. n : both(k) = first \o flat(k)}
<1>1. /\ \A k \in 0 .. n : flat(k) \in Seq(S)
      /\ \A k \in 0 .. n - 1 : flat(k + 1) = flat(k) \o q[k + 1]
  BY FlattenByPrefix, Zenon
<1>2. /\ n \in Nat /\ flat(0) = <<>> /\ flat(n) = FlattenSeq(q)
      /\ \A k \in 1 .. n : q[k] \in Seq(S)
  BY FlattenByPrefix, Zenon
<1>3. first \in Seq(S) /\ first \o <<>> = first
  <2>1. first \in Seq(S)
    BY FlattenType
  <2>2. QED
    BY <2>1
<1>4. both(0) = first /\ both(n) = FlattenSeq(p \o q)
  <2>1. p \o <<>> = p
    OBVIOUS
  <2>2. QED
    BY <2>1, WholePrefix
<1>5. ASSUME NEW k \in 0 .. n - 1 PROVE both(k + 1) = both(k) \o q[k + 1]
  <2>1. p \o SubSeq(q, 1, k) \in Seq(Seq(S)) /\ q[k + 1] \in Seq(S)
    BY <1>2
  <2>2. SubSeq(q, 1, k + 1) = Append(SubSeq(q, 1, k), q[k + 1])
    BY PrefixGrows
  <2>3. p \o Append(SubSeq(q, 1, k), q[k + 1]) = Append(p \o SubSeq(q, 1, k), q[k + 1])
    BY <1>2, SMTT(30)
  <2>4. FlattenSeq(Append(p \o SubSeq(q, 1, k), q[k + 1]))
          = FlattenSeq(p \o SubSeq(q, 1, k)) \o q[k + 1]
    BY <2>1, FlattenAppend, Zenon
  <2>5. QED
    BY <2>2, <2>3, <2>4, Zenon
<1>. HIDE DEF n, flat, both, first
<1>6. 0 \in T
  BY <1>2, <1>3, <1>4
<1>7. ASSUME NEW k \in 0 .. n, k \in T, k < n PROVE k + 1 \in T
  <2>1. k \in 0 .. n - 1 /\ k + 1 \in 0 .. n /\ k + 1 \in 1 .. n
    BY <1>2, <1>7
  <2>2. (first \o flat(k)) \o q[k + 1] = first \o (flat(k) \o q[k + 1])
    <3>1. first \in Seq(S) /\ flat(k) \in Seq(S) /\ q[k + 1] \in Seq(S)
      BY <1>1, <1>2, <1>3, <2>1
    <3>2. \A a, b, c \in Seq(S) : (a \o b) \o c = a \o (b \o c)
      BY SMTT(30)
    <3>3. QED
      BY <3>1, <3>2, Zenon
  <2>3. both(k + 1) = first \o flat(k + 1)
    BY <1>1, <1>5, <1>7, <2>1, <2>2, Zenon
  <2>4. QED
    BY <2>1, <2>3
<1>8. \A k \in 0 .. n : k \in T
  <2>. HIDE DEF T
  <2>1. QED
    BY <1>2, <1>6, <1>7, UpwardInduction
<1>9. both(n) = first \o flat(n)
  <2>1. n \in 0 .. n
    BY <1>2
  <2>2. n \in T
    BY <1>8, <2>1, Zenon
  <2>3. QED
    BY <2>2, Zenon
<1>10. QED
  BY <1>2, <1>4, <1>9, Zenon DEF first

LEMMA ConcatOfOne ==
  ASSUME NEW x, NEW y
  PROVE  <<>> \o <<x>> = <<x>> /\ <<y>> \o <<x>> = <<y, x>>
<1>. DEFINE S == {x, y}
<1>1. <<>> \in Seq(S) /\ <<x>> \in Seq(S) /\ <<y>> \in Seq(S) /\ <<y, x>> \in Seq(S)
  OBVIOUS
<1>3. \A a \in Seq(S) : <<>> \o a = a
  OBVIOUS
<1>. DEFINE l == <<y>> \o <<x>>
            r == <<y, x>>
<1>4. l \in Seq(S) /\ Len(l) = 2 /\ l[1] = y /\ l[2] = x
  BY <1>1
<1>5. r \in Seq(S) /\ Len(r) = 2 /\ r[1] = y /\ r[2] = x
  BY <1>1
<1>. HIDE DEF l, r, S
<1>6. l = r
  BY <1>4, <1>5, SeqEqual
<1>7. QED
  BY <1>3, <1>1, <1>6 DEF l, r

(* Empty pieces add nothing to what is flattened before them.                *)
LEMMA EmptyPiecesAddNothing ==
  ASSUME NEW S, NEW seqs \in Seq(Seq(S)), NEW a \in 0 .. Len(seqs), NEW b \in a .. Len(seqs),
         \A k \in a + 1 .. b : seqs[k] = <<>>
  PROVE  FlattenSeq(SubSeq(seqs, 1, b)) = FlattenSeq(SubSeq(seqs, 1, a))
<1>. DEFINE flat(k) == FlattenSeq(SubSeq(seqs, 1, k))
            T == {k \in a .. b : flat(k) = flat(a)}
<1>1. /\ \A k \in 0 .. Len(seqs) : flat(k) \in Seq(S)
      /\ \A k \in 0 .. Len(seqs) - 1 : flat(k + 1) = flat(k) \o seqs[k + 1]
  BY FlattenByPrefix, Zenon
<1>. HIDE DEF flat
<1>2. a \in Nat /\ b \in Nat /\ a \in T
  OBVIOUS
<1>3. ASSUME NEW i \in a .. b, i \in T, i < b PROVE i + 1 \in T
  <2>1. i \in 0 .. Len(seqs) - 1 /\ i \in 0 .. Len(seqs) /\ i + 1 \in a + 1 .. b /\ i + 1 \in a .. b
    BY <1>3
  <2>2. flat(i + 1) = flat(i) \o <<>>
    BY <1>1, <2>1
  <2>3. \A s \in Seq(S) : s \o <<>> = s
    OBVIOUS
  <2>4. flat(i + 1) = flat(i)
    BY <1>1, <2>1, <2>2, <2>3, Zenon
  <2>5. QED
    BY <1>3, <2>1, <2>4
<1>. HIDE DEF T
<1>4. \A i \in a .. b : i \in T
  BY <1>2, <1>3, UpwardInduction
<1>5. b \in T
  BY <1>2, <1>4
<1>6. QED
  BY <1>5 DEF T, flat

(* Flattening what is cut into single elements gives it back.                *)
LEMMA FlattenSingletons ==
  ASSUME NEW S, NEW s \in Seq(S)
  PROVE  FlattenSeq([i \in DOMAIN s |-> <<s[i]>>]) = s
<1>. DEFINE pieces == [i \in DOMAIN s |-> <<s[i]>>]
            n == Len(s)
            flat(k) == FlattenSeq(SubSeq(pieces, 1, k))
            T == {k \in 0 .. n : flat(k) = SubSeq(s, 1, k)}
<1>1. n \in Nat /\ DOMAIN s = 1 .. n /\ \A i \in 1 .. n : s[i] \in S /\ <<s[i]>> \in Seq(S)
  OBVIOUS
<1>2. pieces \in Seq(Seq(S)) /\ Len(pieces) = n /\ \A i \in 1 .. n : pieces[i] = <<s[i]>>
  BY <1>1
<1>3. /\ SubSeq(s, 1, 0) = <<>> /\ SubSeq(s, 1, n) = s
      /\ \A k \in 0 .. n - 1 : SubSeq(s, 1, k + 1) = SubSeq(s, 1, k) \o <<s[k + 1]>>
  OBVIOUS
<1>. HIDE DEF pieces
<1>4. /\ flat(0) = <<>> /\ flat(n) = FlattenSeq(pieces)
      /\ \A k \in 0 .. n - 1 : flat(k + 1) = flat(k) \o pieces[k + 1]
  BY <1>2, FlattenByPrefix
<1>. HIDE DEF flat, n
<1>5. 0 \in T
  <2>1. 0 \in 0 .. n
    BY <1>1
  <2>2. flat(0) = SubSeq(s, 1, 0)
    BY <1>3, <1>4, Zenon
  <2>3. QED
    BY <2>1, <2>2, Zenon
<1>6. ASSUME NEW i \in 0 .. n, i \in T, i < n PROVE i + 1 \in T
  <2>1. i \in 0 .. n - 1 /\ i + 1 \in 0 .. n /\ i + 1 \in 1 .. n
    BY <1>1, <1>6
  <2>2. flat(i + 1) = SubSeq(s, 1, i) \o <<s[i + 1]>>
    BY <1>2, <1>4, <1>6, <2>1, Zenon
  <2>3. QED
    BY <1>3, <2>1, <2>2, Zenon
<1>. HIDE DEF T
<1>7. \A i \in 0 .. n : i \in T
  BY <1>1, <1>5, <1>6, UpwardInduction
<1>8. n \in T
  BY <1>1, <1>7
<1>9. QED
  BY <1>3, <1>4, <1>8 DEF T, pieces

LEMMA ConcatAssociates ==
  ASSUME NEW S
  PROVE  \A a, b, c \in Seq(S) : (a \o b) \o c = a \o (b \o c)
  OBVIOUS

(* A sequence that another one is put into.                                  *)
LEMMA ThreeParts ==
  ASSUME NEW S, NEW p \in Seq(S), NEW m \in Seq(S), NEW q \in Seq(S),
         NEW t, t = p \o m \o q, NEW rest, rest = p \o q
  PROVE  /\ t \in Seq(S) /\ rest \in Seq(S) /\ p \o m \in Seq(S)
         /\ Len(p) \in Nat /\ Len(m) \in Nat /\ Len(q) \in Nat
         /\ Len(t) = Len(p) + Len(m) + Len(q) /\ Len(rest) = Len(p) + Len(q)
         /\ \A k \in 1 .. Len(p) : t[k] = p[k] /\ rest[k] = p[k]
         /\ \A k \in 1 .. Len(m) : t[Len(p) + k] = m[k]
         /\ \A k \in 1 .. Len(q) : t[Len(p) + Len(m) + k] = q[k] /\ rest[Len(p) + k] = q[k]
         /\ SubSeq(t, 1, Len(p)) = p /\ SubSeq(t, 1, Len(p) + Len(m)) = p \o m
<1>1. \A a, b \in Seq(S) : /\ a \o b \in Seq(S) /\ Len(a \o b) = Len(a) + Len(b)
                           /\ Len(a) \in Nat /\ Len(b) \in Nat
                           /\ SubSeq(a \o b, 1, Len(a)) = a
                           /\ \A k \in 1 .. Len(a) : (a \o b)[k] = a[k]
                           /\ \A k \in 1 .. Len(b) : (a \o b)[Len(a) + k] = b[k]
  OBVIOUS
<1>2. PICK u \in Seq(S) : u = p \o m
  BY <1>1
<1>3. t \in Seq(S) /\ t = u \o q
  BY <1>1, <1>2
<1>4. /\ Len(u) = Len(p) + Len(m) /\ SubSeq(u, 1, Len(p)) = p
      /\ Len(p) \in Nat /\ Len(m) \in Nat /\ Len(q) \in Nat
      /\ \A k \in 1 .. Len(p) : u[k] = p[k]
      /\ \A k \in 1 .. Len(m) : u[Len(p) + k] = m[k]
  BY <1>1, <1>2
<1>5. /\ Len(t) = Len(u) + Len(q) /\ SubSeq(t, 1, Len(u)) = u
      /\ \A k \in 1 .. Len(u) : t[k] = u[k]
      /\ \A k \in 1 .. Len(q) : t[Len(u) + k] = q[k]
  BY <1>1, <1>3
<1>6. SubSeq(t, 1, Len(p)) = p
  <2>1. \A a \in Seq(S) : \A i, j \in Nat : i <= j /\ j <= Len(a) =>
          SubSeq(SubSeq(a, 1, j), 1, i) = SubSeq(a, 1, i)
    <3>. SUFFICES ASSUME NEW a \in Seq(S), NEW i \in Nat, NEW j \in Nat, i <= j, j <= Len(a)
                  PROVE  SubSeq(SubSeq(a, 1, j), 1, i) = SubSeq(a, 1, i)
      OBVIOUS
    <3>1. PICK x : x = SubSeq(a, 1, j)
      OBVIOUS
    <3>2. x \in Seq(S) /\ Len(x) = j /\ \A k \in 1 .. j : x[k] = a[k]
      BY <3>1
    <3>3. QED
      BY <3>1, <3>2
  <2>2. Len(p) <= Len(u) /\ Len(u) <= Len(t) /\ Len(p) \in Nat /\ Len(u) \in Nat
    BY <1>4, <1>5
  <2>3. SubSeq(SubSeq(t, 1, Len(u)), 1, Len(p)) = SubSeq(t, 1, Len(p))
    BY <2>1, <2>2
  <2>4. QED
    BY <1>4, <1>5, <2>3
<1>7. \A k \in 1 .. Len(p) : k \in 1 .. Len(u)
  BY <1>4
<1>8. \A k \in 1 .. Len(m) : Len(p) + k \in 1 .. Len(u)
  BY <1>4
<1>9. /\ rest \in Seq(S) /\ Len(rest) = Len(p) + Len(q)
      /\ \A k \in 1 .. Len(p) : rest[k] = p[k]
      /\ \A k \in 1 .. Len(q) : rest[Len(p) + k] = q[k]
  BY <1>1
<1>10. t \in Seq(S) /\ p \o m \in Seq(S)
  BY <1>2, <1>3
<1>11. \A k \in 1 .. Len(p) : t[k] = p[k]
  BY <1>4, <1>5, <1>7, Zenon
<1>12. \A k \in 1 .. Len(m) : t[Len(p) + k] = m[k]
  BY <1>4, <1>5, <1>8, Zenon
<1>13. \A k \in 1 .. Len(q) : t[Len(p) + Len(m) + k] = q[k]
  BY <1>4, <1>5, Zenon
<1>14. Len(t) = Len(p) + Len(m) + Len(q) /\ SubSeq(t, 1, Len(p) + Len(m)) = p \o m
  BY <1>2, <1>4, <1>5, Zenon
<1>15. QED
  BY <1>4, <1>6, <1>9, <1>10, <1>11, <1>12, <1>13, <1>14, Zenon

LEMMA SliceElements ==
  ASSUME NEW S, NEW s \in Seq(S), NEW i \in Nat, NEW n \in Nat, i + n <= Len(s)
  PROVE  /\ SubSeq(s, i + 1, i + n) \in Seq(S) /\ Len(SubSeq(s, i + 1, i + n)) = n
         /\ \A k \in 1 .. n : SubSeq(s, i + 1, i + n)[k] = s[i + k]
  BY SMTT(30)

LEMMA SeqEqualByElements ==
  ASSUME NEW S, NEW s \in Seq(S), NEW t \in Seq(S), Len(s) = Len(t)
  PROVE  s = t <=> \A k \in 1 .. Len(s) : s[k] = t[k]
  BY SeqEqual

----------------------------------------------------------------------------
(* What is left of a sequence when some of its elements are taken out.       *)

(* What is left of a sequence without the places in R, and how many places   *)
(* up to k are left.                                                         *)
Left(s, R) == [i \in DOMAIN s |-> IF i \in R THEN <<>> ELSE <<s[i]>>]

LeftUpTo(R, k) == Cardinality({i \in 1 .. k : i \notin R})

IsLeft(S, s, R, rest) ==
  /\ rest \in Seq(S) /\ Len(rest) = LeftUpTo(R, Len(s))
  /\ \A k \in 1 .. Len(s) :
       k \notin R => LeftUpTo(R, k) \in 1 .. Len(rest) /\ rest[LeftUpTo(R, k)] = s[k]
  /\ \A p \in 1 .. Len(rest) : \E k \in 1 .. Len(s) : k \notin R /\ LeftUpTo(R, k) = p

LEMMA LeftCounts ==
  ASSUME NEW R, NEW k \in Nat
  PROVE  /\ LeftUpTo(R, 0) = 0 /\ LeftUpTo(R, k) \in Nat
         /\ k + 1 \in R => LeftUpTo(R, k + 1) = LeftUpTo(R, k)
         /\ k + 1 \notin R => LeftUpTo(R, k + 1) = LeftUpTo(R, k) + 1
<1>. DEFINE K(j) == {i \in 1 .. j : i \notin R}
<1>1. K(0) = {}
  OBVIOUS
<1>2. IsFiniteSet(1 .. k)
  BY FS_Interval
<1>3. IsFiniteSet(K(k)) /\ Cardinality(K(k)) \in Nat
  <2>1. K(k) \in SUBSET (1 .. k)
    OBVIOUS
  <2>2. QED
    BY <1>2, <2>1, FS_Subset, FS_CardinalityType
<1>4. k + 1 \in R => K(k + 1) = K(k)
  OBVIOUS
<1>5. k + 1 \notin R => K(k + 1) = K(k) \cup {k + 1} /\ k + 1 \notin K(k)
  OBVIOUS
<1>. HIDE DEF K
<1>6. k + 1 \notin R => Cardinality(K(k + 1)) = Cardinality(K(k)) + 1
  BY <1>3, <1>5, FS_AddElement
<1>7. Cardinality(K(0)) = 0
  BY <1>1, FS_EmptySet
<1>8. QED
  BY <1>3, <1>4, <1>6, <1>7 DEF LeftUpTo, K

(* Element by element: place k of the whole is place LeftUpTo(R, k) of the   *)
(* rest.                                                                     *)
LEMMA LeftElements ==
  ASSUME NEW S, NEW s \in Seq(S), NEW R
  PROVE  IsLeft(S, s, R, FlattenSeq(Left(s, R)))
<1>. DEFINE n == Len(s)
            pieces == Left(s, R)
            flat(k) == FlattenSeq(SubSeq(pieces, 1, k))
            C(k) == LeftUpTo(R, k)
            Places(k) == \A i \in 1 .. k : i \notin R => C(i) \in 1 .. C(k) /\ flat(k)[C(i)] = s[i]
            Covers(k) == \A p \in 1 .. C(k) : \E i \in 1 .. k : i \notin R /\ C(i) = p
            T == {k \in 0 .. n : Len(flat(k)) = C(k) /\ Places(k) /\ Covers(k)}
<1>1. n \in Nat /\ DOMAIN s = 1 .. n /\ \A k \in 1 .. n : s[k] \in S
  OBVIOUS
<1>2. \A k \in 1 .. n : (k \in R => pieces[k] = <<>>) /\ (k \notin R => pieces[k] = <<s[k]>>)
  BY <1>1, Zenon DEF Left
<1>3. pieces \in Seq(Seq(S)) /\ Len(pieces) = n
  <2>1. <<>> \in Seq(S) /\ \A x \in S : <<x>> \in Seq(S)
    OBVIOUS
  <2>2. \A k \in 1 .. n : (IF k \in R THEN <<>> ELSE <<s[k]>>) \in Seq(S)
    BY <1>1, <2>1, Zenon
  <2>3. QED
    BY <1>1, <2>2 DEF Left
<1>4. /\ flat(0) = <<>> /\ flat(n) = FlattenSeq(pieces)
      /\ \A k \in 0 .. n : flat(k) \in Seq(S)
      /\ \A k \in 0 .. n - 1 : flat(k + 1) = flat(k) \o pieces[k + 1]
  BY <1>3, FlattenByPrefix, Zenon
<1>5. \A k \in Nat : /\ C(0) = 0 /\ C(k) \in Nat
                     /\ k + 1 \in R => C(k + 1) = C(k)
                     /\ k + 1 \notin R => C(k + 1) = C(k) + 1
  BY LeftCounts, Zenon
<1>. HIDE DEF flat, C, pieces
<1>6. 0 \in T
  <2>1. C(0) = 0 /\ 1 .. 0 = {} /\ 1 .. C(0) = {} /\ Len(flat(0)) = 0 /\ 0 \in 0 .. n
    BY <1>1, <1>4, <1>5
  <2>2. QED
    BY <2>1
<1>7. ASSUME NEW k \in 0 .. n, k \in T, k < n PROVE k + 1 \in T
  <2>1. /\ k \in Nat /\ k \in 0 .. n - 1 /\ k + 1 \in 1 .. n /\ k + 1 \in 0 .. n
        /\ \A i \in 1 .. k + 1 : i \in 1 .. k \/ i = k + 1
        /\ \A i \in 1 .. k : i \in 1 .. k + 1
        /\ k + 1 \in 1 .. k + 1
    BY <1>1, <1>7
  <2>2. flat(k + 1) = flat(k) \o pieces[k + 1]
    BY <1>4, <2>1, Zenon
  <2>3. flat(k) \in Seq(S) /\ Len(flat(k)) = C(k) /\ C(k) \in Nat
    BY <1>4, <1>5, <1>7, <2>1
  <2>4. Places(k) /\ Covers(k)
    BY <1>7
  <2>5. CASE k + 1 \in R
    <3>1. C(k + 1) = C(k) /\ flat(k + 1) = flat(k)
      <4>1. pieces[k + 1] = <<>>
        BY <1>2, <2>1, <2>5, Zenon
      <4>2. \A x \in Seq(S) : x \o <<>> = x
        OBVIOUS
      <4>3. QED
        BY <1>5, <2>1, <2>2, <2>3, <2>5, <4>1, <4>2, Zenon
    <3>2. Places(k + 1)
      BY <2>1, <2>4, <2>5, <3>1, Zenon
    <3>3. Covers(k + 1)
      BY <2>1, <2>4, <3>1, Zenon
    <3>4. QED
      BY <2>1, <2>3, <3>1, <3>2, <3>3, Zenon
  <2>6. CASE k + 1 \notin R
    <3>1. C(k + 1) = C(k) + 1 /\ flat(k + 1) = flat(k) \o <<s[k + 1]>>
      <4>1. pieces[k + 1] = <<s[k + 1]>>
        BY <1>2, <2>1, <2>6, Zenon
      <4>2. QED
        BY <1>5, <2>1, <2>2, <2>6, <4>1, Zenon
    <3>2. PICK f \in Seq(S), c \in Nat : f = flat(k) /\ c = C(k) /\ Len(f) = c
      BY <2>3
    <3>3. PICK x \in S : x = s[k + 1]
      BY <1>1, <2>1
    <3>4. PICK g : g = f \o <<x>>
      OBVIOUS
    <3>5. Len(g) = c + 1 /\ (\A i \in 1 .. c : g[i] = f[i]) /\ g[c + 1] = x
      BY <3>2, <3>4
    <3>6. flat(k + 1) = g /\ C(k + 1) = c + 1
      BY <3>1, <3>2, <3>3, <3>4, Zenon
    <3>7. /\ \A i \in 1 .. c : i \in 1 .. c + 1
          /\ \A p \in 1 .. c + 1 : p \in 1 .. c \/ p = c + 1
          /\ c + 1 \in 1 .. c + 1
      OBVIOUS
    <3>8. Places(k + 1)
      <4>. SUFFICES ASSUME NEW i \in 1 .. k + 1, i \notin R
                    PROVE  C(i) \in 1 .. C(k + 1) /\ flat(k + 1)[C(i)] = s[i]
        BY Zenon
      <4>1. CASE i \in 1 .. k
        <5>1. C(i) \in 1 .. c /\ f[C(i)] = s[i]
          BY <2>4, <3>2, <4>1, Zenon
        <5>2. QED
          BY <3>5, <3>6, <3>7, <5>1, Zenon
      <4>2. CASE i = k + 1
        BY <3>3, <3>5, <3>6, <3>7, <4>2, Zenon
      <4>3. QED
        BY <2>1, <4>1, <4>2, Zenon
    <3>9. Covers(k + 1)
      <4>. SUFFICES ASSUME NEW p \in 1 .. C(k + 1)
                    PROVE  \E i \in 1 .. k + 1 : i \notin R /\ C(i) = p
        BY Zenon
      <4>1. CASE p \in 1 .. c
        BY <2>1, <2>4, <3>2, <4>1, Zenon
      <4>2. CASE p = c + 1
        BY <2>1, <2>6, <3>6, <4>2, Zenon
      <4>3. QED
        BY <3>6, <3>7, <4>1, <4>2, Zenon
    <3>10. QED
      BY <2>1, <3>5, <3>6, <3>8, <3>9, Zenon
  <2>7. QED
    BY <2>5, <2>6
<1>. HIDE DEF T
<1>8. \A k \in 0 .. n : k \in T
  BY <1>1, <1>6, <1>7, UpwardInduction
<1>9. n \in T
  BY <1>1, <1>8
<1>10. flat(n) \in Seq(S) /\ Len(flat(n)) = C(n) /\ Places(n) /\ Covers(n)
  <2>1. n \in 0 .. n
    BY <1>1
  <2>2. QED
    BY <1>4, <1>9, <2>1, Zenon DEF T
<1>11. QED
  BY <1>4, <1>10, Zenon DEF C, pieces, IsLeft

----------------------------------------------------------------------------
(* Finite sets.                                                              *)

(* Max of a non-empty bounded set of naturals is its greatest element.       *)
LEMMA MaxIsGreatest ==
  ASSUME NEW b \in Nat, NEW S \in SUBSET (0 .. b), S # {}
  PROVE  Max(S) \in S /\ \A m \in S : m <= Max(S)
<1> DEFINE D == {b - m : m \in S}
<1>0. \A m \in S : b - m \in Nat
  OBVIOUS
<1>1. D \in SUBSET Nat /\ D # {}
  BY <1>0
<1>2. PICK d \in D : \A e \in D : d <= e
  BY <1>1, LeastElement
<1>3. PICK n \in S : d = b - n
  BY <1>2
<1>4. \A m \in S : n >= m
  BY <1>2, <1>3
<1>5. QED
  BY <1>4 DEF Max

LEMMA SequenceIsFinite ==
  ASSUME NEW S, NEW s \in Seq(S)
  PROVE  IsFiniteSet(ToSet(s))
<1>1. s \in Surjection(1 .. Len(s), ToSet(s))
  <2>1. DOMAIN s = 1 .. Len(s) /\ s = [i \in 1 .. Len(s) |-> s[i]]
    OBVIOUS
  <2>2. \A i \in 1 .. Len(s) : s[i] \in ToSet(s)
    BY <2>1 DEF ToSet
  <2>3. s \in [1 .. Len(s) -> ToSet(s)]
    BY <2>1, <2>2
  <2>4. \A x \in ToSet(s) : \E i \in 1 .. Len(s) : s[i] = x
    BY <2>1 DEF ToSet
  <2>5. QED
    BY <2>3, <2>4 DEF Surjection
<1>2. Len(s) \in Nat
  OBVIOUS
<1>3. QED
  BY <1>1, <1>2, FS_NatSurjection DEF ExistsSurjection

LEMMA OneOrMany ==
  ASSUME NEW S, IsFiniteSet(S), S # {}, ~ Cardinality(S) > 1
  PROVE  \E x : S = {x}
<1>1. Cardinality(S) \in Nat /\ Cardinality(S) # 0
  BY FS_CardinalityType, FS_EmptySet
<1>2. Cardinality(S) = 1
  BY <1>1
<1>3. QED
  BY <1>2, FS_Singleton

----------------------------------------------------------------------------
(* The codec and the wrapper that is built with it (Selectors, Framing).     *)

(* byte_to_selector and selector_to_byte are inverse bijections between the  *)
(* 256 bytes and the 256 selectors; the marker is no selector.               *)
LEMMA CodecRoundTrip ==
  /\ \A b \in Byte : ByteToSelector(b) \in Selectors /\ SelectorToByte(ByteToSelector(b)) = b
  /\ \A c \in Selectors : SelectorToByte(c) \in Byte /\ ByteToSelector(SelectorToByte(c)) = c
  /\ MARKER \notin Selectors
  /\ Selectors \subseteq CodePoint
<1> USE DEF VS_LOW_BASE, VS_HIGH_BASE, LOW_SPAN
<1>1. ASSUME NEW b \in Byte
      PROVE  ByteToSelector(b) \in Selectors /\ SelectorToByte(ByteToSelector(b)) = b
  <2>1. b \in 0 .. 255
    BY SMT DEF Byte
  <2>2. CASE b < 16
    BY <2>1, <2>2, SMT DEF ByteToSelector, SelectorToByte, Selectors
  <2>3. CASE ~ (b < 16)
    BY <2>1, <2>3, SMT DEF ByteToSelector, SelectorToByte, Selectors
  <2>4. QED
    BY <2>2, <2>3
<1>2. ASSUME NEW c \in Selectors
      PROVE  SelectorToByte(c) \in Byte /\ ByteToSelector(SelectorToByte(c)) = c
  BY SMT DEF ByteToSelector, SelectorToByte, Selectors, Byte
<1>3. MARKER \notin Selectors
  BY SMT DEF MARKER, Selectors
<1>4. Selectors \subseteq CodePoint
  BY SMT DEF Selectors, CodePoint
<1>5. QED
  BY <1>1, <1>2, <1>3, <1>4

LEMMA DivisionOfDigits ==
  ASSUME NEW n \in LengthRange
  PROVE  /\ n \div 16777216 \in Byte /\ (n \div 65536) % 256 \in Byte
         /\ (n \div 256) % 256 \in Byte /\ n % 256 \in Byte
         /\ n = 16777216 * (n \div 16777216) + 65536 * ((n \div 65536) % 256)
                  + 256 * ((n \div 256) % 256) + (n % 256)
<1>1. n \in Nat /\ n <= 2147483647
  BY SMT DEF LengthRange
<1>2. /\ n \div 16777216 \in 0 .. 255 /\ (n \div 65536) % 256 \in 0 .. 255
      /\ (n \div 256) % 256 \in 0 .. 255 /\ n % 256 \in 0 .. 255
  BY <1>1, SMT
<1>3. n = 16777216 * (n \div 16777216) + 65536 * ((n \div 65536) % 256)
            + 256 * ((n \div 256) % 256) + (n % 256)
  BY <1>1, SMT
<1>4. QED
  BY <1>2, <1>3 DEF Byte

(* The length field of a payload within the limit decodes to its length.     *)
LEMMA LengthFieldRoundTrip ==
  ASSUME NEW n \in LengthRange
  PROVE  /\ LengthField(n) \in Seq(Byte)
         /\ Len(LengthField(n)) = 4
         /\ \A body : (\A k \in 1 .. 4 : body[9 + k] = LengthField(n)[k])
                         => DeclaredLength(body) = n
<1>1. LengthField(n) \in Seq(Byte) /\ Len(LengthField(n)) = 4
  BY DivisionOfDigits, SMT DEF LengthField
<1>2. ASSUME NEW body, \A k \in 1 .. 4 : body[9 + k] = LengthField(n)[k]
      PROVE  DeclaredLength(body) = n
  <2>1. /\ body[9 + 1] = LengthField(n)[1] /\ body[9 + 2] = LengthField(n)[2]
        /\ body[9 + 3] = LengthField(n)[3] /\ body[9 + 4] = LengthField(n)[4]
    BY <1>2
  <2>2. QED
    BY <2>1, DivisionOfDigits, SMT DEF DeclaredLength, LengthField
<1>3. QED
  BY <1>1, <1>2

LEMMA ConcatElements ==
  ASSUME NEW s \in Seq(Byte), NEW t \in Seq(Byte)
  PROVE  /\ s \o t \in Seq(Byte) /\ Len(s \o t) = Len(s) + Len(t)
         /\ \A k \in 1 .. Len(s) : (s \o t)[k] = s[k]
         /\ \A k \in 1 .. Len(t) : (s \o t)[Len(s) + k] = t[k]
  OBVIOUS

(* A built wrapper, code point by code point.                                *)
LEMMA BodyElements ==
  ASSUME NEW payload \in Seq(Byte), Len(payload) \in LengthRange
  PROVE  LET body == WrapperBody(payload)
         IN  /\ body \in Seq(Byte) /\ Len(body) = 13 + Len(payload)
             /\ \A k \in 1 .. 8 : body[k] = MAGIC[k]
             /\ body[9] = VERSION
             /\ \A k \in 1 .. 4 : body[9 + k] = LengthField(Len(payload))[k]
             /\ \A k \in 1 .. Len(payload) : body[13 + k] = payload[k]
<1> DEFINE field == LengthField(Len(payload))
<1>1. MAGIC \in Seq(Byte) /\ Len(MAGIC) = 8
  BY DEF MAGIC, Byte
<1>2. <<VERSION>> \in Seq(Byte) /\ Len(<<VERSION>>) = 1 /\ <<VERSION>>[1] = VERSION
  BY DEF VERSION, Byte
<1>3. field \in Seq(Byte) /\ Len(field) = 4
  BY LengthFieldRoundTrip
<1> HIDE DEF field
<1>4. PICK h1 : h1 = MAGIC \o <<VERSION>>
  OBVIOUS
<1>5. /\ h1 \in Seq(Byte) /\ Len(h1) = Len(MAGIC) + Len(<<VERSION>>)
      /\ \A k \in 1 .. Len(MAGIC) : h1[k] = MAGIC[k]
      /\ \A k \in 1 .. Len(<<VERSION>>) : h1[Len(MAGIC) + k] = <<VERSION>>[k]
  BY ZenonT(30), <1>1, <1>2, <1>4, ConcatElements
<1>6. Len(h1) = 9 /\ h1[9] = VERSION /\ \A k \in 1 .. 8 : h1[k] = MAGIC[k]
  BY <1>1, <1>2, <1>5
<1>7. PICK h2 : h2 = h1 \o field
  OBVIOUS
<1>8. /\ h2 \in Seq(Byte) /\ Len(h2) = Len(h1) + Len(field)
      /\ \A k \in 1 .. Len(h1) : h2[k] = h1[k]
      /\ \A k \in 1 .. Len(field) : h2[Len(h1) + k] = field[k]
  BY ZenonT(60), <1>3, <1>5, <1>7, ConcatElements
<1>9. /\ Len(h2) = 13 /\ \A k \in 1 .. 9 : h2[k] = h1[k]
      /\ \A k \in 1 .. 4 : h2[9 + k] = field[k]
  BY SMTT(30), <1>3, <1>6, <1>8
<1>10. PICK body : body = h2 \o payload
  OBVIOUS
<1>11. /\ body \in Seq(Byte) /\ Len(body) = Len(h2) + Len(payload)
       /\ \A k \in 1 .. Len(h2) : body[k] = h2[k]
       /\ \A k \in 1 .. Len(payload) : body[Len(h2) + k] = payload[k]
  BY <1>8, <1>10, ConcatElements
<1>12. /\ Len(body) = 13 + Len(payload)
       /\ \A k \in 1 .. 13 : body[k] = h2[k]
       /\ \A k \in 1 .. Len(payload) : body[13 + k] = payload[k]
  BY <1>9, <1>11
<1>13. (\A k \in 1 .. 8 : body[k] = MAGIC[k]) /\ body[9] = VERSION
  BY <1>6, <1>9, <1>12
<1>14. \A k \in 1 .. 4 : body[9 + k] = field[k]
  BY <1>9, <1>12
<1>15. WrapperBody(payload) = body
  BY <1>4, <1>7, <1>10 DEF WrapperBody, field
<1>16. QED
  BY <1>11, <1>12, <1>13, <1>14, <1>15 DEF field

LEMMA WrapperElements ==
  ASSUME NEW payload \in Seq(Byte), Len(payload) \in LengthRange
  PROVE  LET w == BuildWrapper(payload)
             body == WrapperBody(payload)
         IN  /\ Len(w) = 14 + Len(payload) /\ w[1] = MARKER
             /\ \A k \in 1 .. Len(body) : w[1 + k] = ByteToSelector(body[k])
             /\ w \in Seq(CodePoint)
<1> DEFINE body == WrapperBody(payload)
           sels == BytesToSelectors(body)
<1>1. body \in Seq(Byte) /\ Len(body) = 13 + Len(payload)
  BY BodyElements
<1> HIDE DEF body
<1>2. /\ sels \in Seq(CodePoint) /\ Len(sels) = Len(body)
      /\ \A k \in 1 .. Len(body) : sels[k] = ByteToSelector(body[k])
  BY <1>1, CodecRoundTrip DEF BytesToSelectors
<1> HIDE DEF sels
<1>3. MARKER \in CodePoint
  BY SMT DEF MARKER, CodePoint
<1>4. BuildWrapper(payload) = <<MARKER>> \o sels
  BY DEF BuildWrapper, sels, body
<1>5. QED
  BY <1>1, <1>2, <1>3, <1>4, SMT DEF body

(* A wrapper is one wherever its code points stand.                          *)
LEMMA WrapperElementwise ==
  ASSUME NEW t \in Seq(CodePoint), NEW a \in Nat, NEW n \in Nat, a + 14 + n <= Len(t)
  PROVE  WrapperAt(t, a, n)
           <=> /\ t[a + 1] = MARKER
               /\ \A j \in 2 .. 14 + n : t[a + j] \in Selectors
               /\ SubSeq(t, a + 1, a + (14 + n))
                    = BuildWrapper([k \in 1 .. n |-> SelectorToByte(t[a + (14 + k)])])
<1>1. a + 1 + HEADER_SIZE + n = a + (14 + n) /\ a + (14 + n) <= Len(t)
  BY DEF HEADER_SIZE
<1>2. \A k \in 1 .. n : a + 1 + HEADER_SIZE + k = a + (14 + k)
  BY DEF HEADER_SIZE
<1>3. [k \in 1 .. n |-> SelectorToByte(t[a + 1 + HEADER_SIZE + k])]
        = [k \in 1 .. n |-> SelectorToByte(t[a + (14 + k)])]
  BY <1>2, Zenon
<1>4. RunBetween(t, a + 1, a + (14 + n)) <=> \A j \in 2 .. 14 + n : t[a + j] \in Selectors
  <2>1. ASSUME \A j \in 2 .. 14 + n : t[a + j] \in Selectors, NEW k \in a + 1 + 1 .. a + (14 + n)
        PROVE  t[k] \in Selectors
    <3>1. k - a \in 2 .. 14 + n /\ a + (k - a) = k
      OBVIOUS
    <3>. HIDE DEF Selectors
    <3>2. QED
      BY <2>1, <3>1
  <2>2. ASSUME \A k \in a + 1 + 1 .. a + (14 + n) : t[k] \in Selectors, NEW j \in 2 .. 14 + n
        PROVE  t[a + j] \in Selectors
    <3>1. a + j \in a + 1 + 1 .. a + (14 + n)
      OBVIOUS
    <3>2. QED
      BY <2>2, <3>1, Zenon
  <2>3. QED
    BY <2>1, <2>2, Zenon DEF RunBetween
<1>5. QED
  BY <1>1, <1>3, <1>4, Zenon DEF WrapperAt

LEMMA WrapperMoves ==
  ASSUME NEW t \in Seq(CodePoint), NEW u \in Seq(CodePoint), NEW a \in Nat, NEW b \in Nat,
         NEW n \in Nat, a + 14 + n <= Len(u), b + 14 + n <= Len(t),
         \A j \in 1 .. 14 + n : t[b + j] = u[a + j],
         WrapperAt(u, a, n)
  PROVE  WrapperAt(t, b, n)
<1>1. PICK l \in Nat : l = 14 + n
  OBVIOUS
<1>2. /\ 1 \in 1 .. l /\ \A j \in 2 .. l : j \in 1 .. l
      /\ \A k \in 1 .. n : 14 + k \in 1 .. l
      /\ a + l <= Len(u) /\ b + l <= Len(t)
  BY <1>1
<1>3. \A j \in 1 .. l : t[b + j] = u[a + j]
  BY <1>1
<1>4. [k \in 1 .. n |-> SelectorToByte(t[b + (14 + k)])]
        = [k \in 1 .. n |-> SelectorToByte(u[a + (14 + k)])]
  BY <1>2, <1>3, Zenon
<1>5. SubSeq(t, b + 1, b + l) = SubSeq(u, a + 1, a + l)
  <2>. DEFINE x == SubSeq(t, b + 1, b + l)
              y == SubSeq(u, a + 1, a + l)
  <2>3. x \in Seq(CodePoint) /\ Len(x) = l /\ \A k \in 1 .. l : x[k] = t[b + k]
    BY <1>2, SliceElements
  <2>4. y \in Seq(CodePoint) /\ Len(y) = l /\ \A k \in 1 .. l : y[k] = u[a + k]
    BY <1>2, SliceElements
  <2>. HIDE DEF x, y
  <2>5. Len(x) = Len(y) /\ \A k \in 1 .. Len(x) : x[k] = y[k]
    BY <1>3, <2>3, <2>4, Zenon
  <2>6. x = y
    BY <2>3, <2>4, <2>5, SeqEqualByElements, Zenon
  <2>7. QED
    BY <2>6, Zenon DEF x, y
<1>6. /\ u[a + 1] = MARKER
      /\ \A j \in 2 .. l : u[a + j] \in Selectors
      /\ SubSeq(u, a + 1, a + l) = BuildWrapper([k \in 1 .. n |-> SelectorToByte(u[a + (14 + k)])])
  BY <1>1, WrapperElementwise, Zenon
<1>7. /\ t[b + 1] = MARKER
      /\ \A j \in 2 .. l : t[b + j] \in Selectors
      /\ SubSeq(t, b + 1, b + l) = BuildWrapper([k \in 1 .. n |-> SelectorToByte(t[b + (14 + k)])])
  BY <1>2, <1>3, <1>4, <1>5, <1>6, Zenon
<1>8. QED
  BY <1>1, <1>7, WrapperElementwise, Zenon

(* RunLength is the length of the longest run within the bound.              *)
LEMMA RunLengthIsLongest ==
  ASSUME NEW t \in Seq(CodePoint), NEW s \in 0 .. Len(t)
  PROVE  /\ RunLength(t, s) \in 0 .. MAX_SELECTOR_RUN
         /\ s + RunLength(t, s) <= Len(t)
         /\ RunBetween(t, s, s + RunLength(t, s))
         /\ \A n \in 0 .. MAX_SELECTOR_RUN :
              s + n <= Len(t) /\ RunBetween(t, s, s + n) => n <= RunLength(t, s)
<1> DEFINE R == {n \in 0 .. MAX_SELECTOR_RUN :
                   s + n <= Len(t) /\ RunBetween(t, s, s + n)}
<1>1. MAX_SELECTOR_RUN \in Nat
  BY MaxManifestLengthAssumption, SMT DEF MAX_SELECTOR_RUN, HEADER_SIZE, LengthRange
<1>2. 0 \in R
  BY <1>1 DEF RunBetween
<1>3. Max(R) \in R /\ \A n \in R : n <= Max(R)
  BY <1>1, <1>2, MaxIsGreatest
<1>4. RunLength(t, s) = Max(R)
  BY DEF RunLength
<1>5. QED
  BY <1>3, <1>4

----------------------------------------------------------------------------
(* The UTF-8 measure.                                                        *)

LEMMA Utf8BytesFinite ==
  ASSUME NEW t \in Seq(CodePoint)
  PROVE  IsFiniteSet(Utf8Bytes(t)) /\ Utf8Length(t) \in Nat
<1>1. IsFiniteSet(1 .. Len(t)) /\ IsFiniteSet(1 .. 4)
  <2>1. 1 \in Int /\ 4 \in Int /\ Len(t) \in Int
    OBVIOUS
  <2>2. QED
    BY <2>1, FS_Interval
<1>2. IsFiniteSet((1 .. Len(t)) \X (1 .. 4))
  BY <1>1, FS_Product
<1>3. Utf8Bytes(t) \subseteq (1 .. Len(t)) \X (1 .. 4)
  BY DEF Utf8Bytes
<1>4. QED
  BY <1>2, <1>3, FS_Subset, FS_CardinalityType DEF Utf8Length

(* The UTF-8 length of a text is the sum of those of its two parts, so the   *)
(* running offset of the scan is the offset of the whole prefix.             *)
LEMMA Utf8LengthAdds ==
  ASSUME NEW t \in Seq(CodePoint), NEW a \in 0 .. Len(t), NEW b \in a .. Len(t)
  PROVE  Utf8Length(SubSeq(t, 1, b))
           = Utf8Length(SubSeq(t, 1, a)) + Utf8Length(SubSeq(t, a + 1, b))
<1> DEFINE T == Utf8Bytes(SubSeq(t, 1, b))
           P == Utf8Bytes(SubSeq(t, 1, a))
           Q == Utf8Bytes(SubSeq(t, a + 1, b))
           Moved == {p \in T : p[1] > a}
<1>1. /\ a \in Nat /\ b \in Nat /\ b - a \in Nat /\ 0 \in Nat
      /\ 0 + 1 = 1 /\ 0 + a = a /\ 0 + b = b /\ a + (b - a) = b
      /\ a <= Len(t) /\ b <= Len(t)
  OBVIOUS
<1>2. /\ SubSeq(t, 1, b) \in Seq(CodePoint) /\ Len(SubSeq(t, 1, b)) = b
      /\ \A k \in 1 .. b : SubSeq(t, 1, b)[k] = t[k]
  BY <1>1
<1>3. /\ SubSeq(t, 1, a) \in Seq(CodePoint) /\ Len(SubSeq(t, 1, a)) = a
      /\ \A k \in 1 .. a : SubSeq(t, 1, a)[k] = t[k]
  BY <1>1
<1>4. /\ SubSeq(t, a + 1, b) \in Seq(CodePoint) /\ Len(SubSeq(t, a + 1, b)) = b - a
      /\ \A k \in 1 .. b - a : SubSeq(t, a + 1, b)[k] = t[a + k]
  <2>1. PICK n \in Nat : n = b - a
    BY <1>1
  <2>2. a + n = b /\ a + n <= Len(t)
    BY <1>1, <2>1
  <2>3. /\ SubSeq(t, a + 1, a + n) \in Seq(CodePoint) /\ Len(SubSeq(t, a + 1, a + n)) = n
        /\ \A k \in 1 .. n : SubSeq(t, a + 1, a + n)[k] = t[a + k]
    BY <1>1, <2>2, SliceElements
  <2>4. QED
    BY <2>1, <2>2, <2>3
<1>5. T = {p \in (1 .. b) \X (1 .. 4) : p[2] <= Utf8Cost(t[p[1]])}
  BY <1>2 DEF Utf8Bytes
<1>6. P = {p \in (1 .. a) \X (1 .. 4) : p[2] <= Utf8Cost(t[p[1]])}
  BY <1>3 DEF Utf8Bytes
<1>7. Q = {p \in (1 .. b - a) \X (1 .. 4) : p[2] <= Utf8Cost(t[a + p[1]])}
  BY <1>4 DEF Utf8Bytes
<1>8. IsFiniteSet(T) /\ IsFiniteSet(P) /\ IsFiniteSet(Q)
  BY <1>2, <1>3, <1>4, Utf8BytesFinite
<1> HIDE DEF T, P, Q
<1>9. T = P \cup Moved /\ P \cap Moved = {}
  <2>1. \A p \in T : p[1] \in 1 .. b
    BY <1>5
  <2>2. \A p : p \in P <=> p \in T /\ p[1] <= a
    BY <1>1, <1>5, <1>6
  <2>3. QED
    BY <1>1, <2>1, <2>2
<1>10. IsFiniteSet(Moved)
  BY <1>8, FS_Subset
<1>11. Cardinality(T) = Cardinality(P) + Cardinality(Moved)
  <2>1. Cardinality(P \cup Moved)
          = Cardinality(P) + Cardinality(Moved) - Cardinality(P \cap Moved)
    BY <1>8, <1>10, FS_Union
  <2>2. Cardinality({}) = 0
    BY FS_EmptySet
  <2>3. Cardinality(P) \in Nat /\ Cardinality(Moved) \in Nat
    BY <1>8, <1>10, FS_CardinalityType
  <2>4. PICK p, m \in Nat : p = Cardinality(P) /\ m = Cardinality(Moved)
    BY <2>3
  <2>5. Cardinality(T) = p + m - 0
    BY <1>9, <2>1, <2>2, <2>4
  <2>6. QED
    BY <2>4, <2>5
<1>12. Cardinality(Moved) = Cardinality(Q)
  <2> DEFINE f == [p \in Q |-> <<a + p[1], p[2]>>]
  <2>1. f \in Bijection(Q, Moved)
    <3>1. \A p \in Q : <<a + p[1], p[2]>> \in Moved
      BY <1>1, <1>5, <1>7
    <3>2. \A p, q \in Q : f[p] = f[q] => p = q
      BY <1>1, <1>7
    <3>3. \A m \in Moved : \E p \in Q : f[p] = m
      <4>1. ASSUME NEW m \in Moved PROVE \E p \in Q : f[p] = m
        <5>1. m \in (1 .. b) \X (1 .. 4) /\ m[2] <= Utf8Cost(t[m[1]]) /\ m[1] > a
          BY <1>5
        <5>2. <<m[1] - a, m[2]>> \in Q
          BY <1>1, <1>7, <5>1
        <5>3. f[<<m[1] - a, m[2]>>] = m
          BY <1>1, <5>1, <5>2
        <5>4. QED
          BY <5>2, <5>3
      <4>2. QED
        BY <4>1
    <3>4. f \in [Q -> Moved]
      BY <3>1
    <3>5. QED
      BY <3>2, <3>3, <3>4 DEF Bijection, Injection, Surjection, IsInjective
  <2>2. QED
    BY <1>8, <2>1, FS_Bijection DEF ExistsBijection
<1>13. QED
  BY <1>11, <1>12 DEF Utf8Length, T, P, Q

LEMMA OneCodePoint ==
  ASSUME NEW S, NEW s \in Seq(S), NEW k \in 1 .. Len(s)
  PROVE  SubSeq(s, k, k) = <<s[k]>>
<1>. DEFINE l == SubSeq(s, k, k)
            r == <<s[k]>>
<1>1. PICK i \in Nat : i = k - 1
  OBVIOUS
<1>2. i + 1 = k /\ i + 1 <= Len(s) /\ 1 \in Nat
  BY <1>1
<1>3. l \in Seq(S) /\ Len(l) = 1 /\ \A j \in 1 .. 1 : l[j] = s[i + j]
  BY ZenonT(60), <1>2, SliceElements
<1>4. s[k] \in S
  OBVIOUS
<1>5. r \in Seq(S) /\ Len(r) = 1 /\ r[1] = s[k]
  BY <1>4
<1>. HIDE DEF l, r
<1>6. \A j \in 1 .. 1 : l[j] = r[j]
  BY <1>2, <1>3, <1>5
<1>7. l = r
  BY <1>3, <1>5, <1>6, SeqEqual
<1>8. QED
  BY <1>7 DEF l, r

----------------------------------------------------------------------------
(* UTF-8: decoding gives back what was encoded (Binding).                    *)

LEMMA EncodeType ==
  ASSUME NEW c \in CodePoint
  PROVE  /\ Encode(c) \in Seq(Byte) /\ Len(Encode(c)) = Utf8Cost(c) /\ Utf8Cost(c) \in 1 .. 4
         /\ DOMAIN Encode(c) = 1 .. Utf8Cost(c)
<1>1. CASE Utf8Cost(c) = 1
  <2>1. Encode(c) = <<c>> /\ c \in Byte
    BY <1>1, SMTT(30) DEF Encode, Utf8Cost, CodePoint, Byte
  <2>2. QED
    BY <1>1, <2>1
<1>2. CASE Utf8Cost(c) = 2
  <2>1. Encode(c) = <<192 + (c \div 64), 128 + (c % 64)>>
    BY <1>2 DEF Encode
  <2>2. 192 + (c \div 64) \in Byte /\ 128 + (c % 64) \in Byte
    BY <1>2, SMTT(30) DEF Utf8Cost, CodePoint, Byte
  <2>3. QED
    BY <1>2, <2>1, <2>2
<1>3. CASE Utf8Cost(c) = 3
  <2>1. Encode(c) = <<224 + (c \div 4096), 128 + ((c \div 64) % 64), 128 + (c % 64)>>
    BY <1>3 DEF Encode
  <2>2. 224 + (c \div 4096) \in Byte /\ 128 + ((c \div 64) % 64) \in Byte /\ 128 + (c % 64) \in Byte
    BY <1>3, SMTT(30) DEF Utf8Cost, CodePoint, Byte
  <2>3. QED
    BY <1>3, <2>1, <2>2
<1>4. CASE Utf8Cost(c) = 4
  <2>1. Encode(c) = <<240 + (c \div 262144), 128 + ((c \div 4096) % 64),
                      128 + ((c \div 64) % 64), 128 + (c % 64)>>
    BY <1>4 DEF Encode
  <2>2. /\ 240 + (c \div 262144) \in Byte /\ 128 + ((c \div 4096) % 64) \in Byte
        /\ 128 + ((c \div 64) % 64) \in Byte /\ 128 + (c % 64) \in Byte
    BY <1>4, SMTT(30) DEF Utf8Cost, CodePoint, Byte
  <2>3. QED
    BY <1>4, <2>1, <2>2
<1>5. Utf8Cost(c) \in 1 .. 4
  BY DEF Utf8Cost
<1>6. QED
  BY <1>1, <1>2, <1>3, <1>4, <1>5

LEMMA EncodedPieces ==
  ASSUME NEW text \in Seq(CodePoint)
  PROVE  [i \in DOMAIN text |-> Encode(text[i])] \in Seq(Seq(Byte))
<1>1. \A i \in DOMAIN text : Encode(text[i]) \in Seq(Byte)
  <2>1. \A i \in DOMAIN text : text[i] \in CodePoint
    OBVIOUS
  <2>2. QED
    BY <2>1, EncodeType
<1>2. DOMAIN text = 1 .. Len(text) /\ Len(text) \in Nat
  OBVIOUS
<1>3. QED
  BY <1>1, <1>2

LEMMA EncodedType ==
  ASSUME NEW text \in Seq(CodePoint)
  PROVE  Encoded(text) \in Seq(Byte)
  BY EncodedPieces, FlattenType DEF Encoded

LEMMA EncodedOne ==
  ASSUME NEW c \in CodePoint
  PROVE  Encoded(<<c>>) = Encode(c)
<1>1. DOMAIN <<c>> = {1} /\ <<c>>[1] = c
  OBVIOUS
<1>2. [i \in DOMAIN <<c>> |-> Encode(<<c>>[i])] = <<Encode(c)>>
  BY <1>1
<1>3. Encoded(<<c>>) = FlattenSeq(<<Encode(c)>>)
  BY <1>2 DEF Encoded
<1>4. QED
  BY <1>3, EncodeType, FlattenOne

LEMMA ConcatReads ==
  ASSUME NEW S, NEW p \in Seq(S), NEW q \in Seq(S)
  PROVE  /\ p \o q \in Seq(S) /\ Len(p) \in Nat /\ Len(q) \in Nat /\ Len(p \o q) = Len(p) + Len(q)
         /\ \A i \in 1 .. Len(p) + Len(q) :
              (p \o q)[i] = IF i <= Len(p) THEN p[i] ELSE q[i - Len(p)]
  OBVIOUS

LEMMA SplitReads ==
  ASSUME NEW S, NEW v \in Seq(S), NEW k \in 0 .. Len(v) - 1
  PROVE  /\ SubSeq(v, 1, k) \in Seq(S) /\ SubSeq(v, 1, k + 1) \in Seq(S)
         /\ SubSeq(v, k + 2, Len(v)) \in Seq(S) /\ v[k + 1] \in S /\ <<v[k + 1]>> \in Seq(S)
         /\ SubSeq(v, 1, k + 1) = SubSeq(v, 1, k) \o <<v[k + 1]>>
         /\ v = SubSeq(v, 1, k + 1) \o SubSeq(v, k + 2, Len(v))
<1>1. /\ SubSeq(v, 1, k) \in Seq(S) /\ SubSeq(v, 1, k + 1) \in Seq(S)
      /\ SubSeq(v, k + 2, Len(v)) \in Seq(S) /\ v[k + 1] \in S
  OBVIOUS
<1>2. <<v[k + 1]>> \in Seq(S)
  BY <1>1
<1>3. SubSeq(v, 1, k + 1) = SubSeq(v, 1, k) \o <<v[k + 1]>>
  OBVIOUS
<1>4. v = SubSeq(v, 1, k + 1) \o SubSeq(v, k + 2, Len(v))
  <2>. DEFINE p == SubSeq(v, 1, k + 1)
              q == SubSeq(v, k + 2, Len(v))
  <2>1. /\ Len(p) = k + 1 /\ Len(q) = Len(v) - (k + 1)
        /\ \A i \in 1 .. k + 1 : p[i] = v[i]
        /\ \A i \in 1 .. Len(v) - (k + 1) : q[i] = v[k + 1 + i]
    OBVIOUS
  <2>. HIDE DEF p, q
  <2>2. p \in Seq(S) /\ q \in Seq(S)
    BY <1>1 DEF p, q
  <2>3. /\ p \o q \in Seq(S) /\ Len(p \o q) = Len(p) + Len(q)
        /\ \A i \in 1 .. Len(p) + Len(q) :
             (p \o q)[i] = IF i <= Len(p) THEN p[i] ELSE q[i - Len(p)]
    BY <2>2, ConcatReads, Zenon
  <2>. DEFINE r == p \o q
  <2>. HIDE DEF r
  <2>4. r \in Seq(S) /\ Len(r) = Len(v)
    BY <2>1, <2>3 DEF r
  <2>5. \A i \in 1 .. Len(v) : r[i] = v[i]
    <3>. TAKE i \in 1 .. Len(v)
    <3>1. r[i] = IF i <= k + 1 THEN p[i] ELSE q[i - (k + 1)]
      BY <2>1, <2>3 DEF r
    <3>2. CASE i <= k + 1
      BY <2>1, <3>1, <3>2
    <3>3. CASE ~ i <= k + 1
      <4>1. i - (k + 1) \in 1 .. Len(v) - (k + 1) /\ k + 1 + (i - (k + 1)) = i
        BY <3>3
      <4>2. QED
        BY <2>1, <3>1, <3>3, <4>1
    <3>4. QED
      BY <3>2, <3>3
  <2>6. v = r
    BY <2>4, <2>5, SeqEqual
  <2>7. QED
    BY <2>6 DEF p, q, r
<1>5. QED
  BY <1>1, <1>2, <1>3, <1>4, Zenon

LEMMA EncodedConcat ==
  ASSUME NEW s \in Seq(CodePoint), NEW t \in Seq(CodePoint)
  PROVE  Encoded(s \o t) = Encoded(s) \o Encoded(t)
<1>. DEFINE pieces(x) == [i \in DOMAIN x |-> Encode(x[i])]
<1>1. /\ pieces(s) \in Seq(Seq(Byte)) /\ pieces(t) \in Seq(Seq(Byte)) /\ pieces(s \o t) \in Seq(Seq(Byte))
  <2>1. s \o t \in Seq(CodePoint)
    OBVIOUS
  <2>2. QED
    BY <2>1, EncodedPieces
<1>2. \A x \in Seq(CodePoint) : /\ Len(pieces(x)) = Len(x)
                                /\ \A i \in 1 .. Len(x) : pieces(x)[i] = Encode(x[i])
  <2>. TAKE x \in Seq(CodePoint)
  <2>1. DOMAIN x = 1 .. Len(x) /\ Len(x) \in Nat
    OBVIOUS
  <2>2. QED
    BY <2>1
<1>. HIDE DEF pieces
<1>3. pieces(s \o t) = pieces(s) \o pieces(t)
  <2>. DEFINE l == pieces(s \o t)
              r == pieces(s) \o pieces(t)
  <2>1. /\ s \o t \in Seq(CodePoint) /\ Len(s) \in Nat /\ Len(t) \in Nat /\ Len(s \o t) = Len(s) + Len(t)
        /\ \A i \in 1 .. Len(s) + Len(t) : (s \o t)[i] = IF i <= Len(s) THEN s[i] ELSE t[i - Len(s)]
    OBVIOUS
  <2>2. /\ Len(l) = Len(s) + Len(t)
        /\ \A i \in 1 .. Len(s) + Len(t) : l[i] = Encode((s \o t)[i])
    BY <1>2, <2>1
  <2>3. /\ r \in Seq(Seq(Byte)) /\ Len(r) = Len(s) + Len(t)
        /\ \A i \in 1 .. Len(s) + Len(t) :
             r[i] = IF i <= Len(s) THEN pieces(s)[i] ELSE pieces(t)[i - Len(s)]
    <3>1. Len(pieces(s)) = Len(s) /\ Len(pieces(t)) = Len(t)
      BY <1>2, Zenon
    <3>2. /\ r \in Seq(Seq(Byte)) /\ Len(r) = Len(pieces(s)) + Len(pieces(t))
          /\ \A i \in 1 .. Len(pieces(s)) + Len(pieces(t)) :
               r[i] = IF i <= Len(pieces(s)) THEN pieces(s)[i] ELSE pieces(t)[i - Len(pieces(s))]
      BY <1>1, ConcatReads, Zenon
    <3>3. QED
      BY <3>1, <3>2, Zenon
  <2>4. \A i \in 1 .. Len(s) + Len(t) : l[i] = r[i]
    <3>. TAKE i \in 1 .. Len(s) + Len(t)
    <3>1. CASE i <= Len(s)
      <4>1. i \in 1 .. Len(s)
        BY <2>1, <3>1
      <4>2. QED
        BY <1>2, <2>1, <2>2, <2>3, <3>1, <4>1
    <3>2. CASE ~ i <= Len(s)
      <4>1. i - Len(s) \in 1 .. Len(t)
        BY <2>1, <3>2
      <4>2. QED
        BY <1>2, <2>1, <2>2, <2>3, <3>2, <4>1
    <3>3. QED
      BY <3>1, <3>2
  <2>. HIDE DEF r
  <2>5. l \in Seq(Seq(Byte))
    BY <1>1
  <2>. HIDE DEF l
  <2>6. l = r
    BY <2>2, <2>3, <2>4, <2>5, SeqEqual
  <2>7. QED
    BY <2>6 DEF l, r
<1>4. FlattenSeq(pieces(s) \o pieces(t)) = FlattenSeq(pieces(s)) \o FlattenSeq(pieces(t))
  BY <1>1, FlattenConcat
<1>5. \A x : Encoded(x) = FlattenSeq(pieces(x))
  BY DEF Encoded, pieces
<1>6. QED
  BY <1>3, <1>4, <1>5, Zenon

LEMMA Utf8LengthOfOne ==
  ASSUME NEW c \in CodePoint
  PROVE  Utf8Length(<<c>>) = Utf8Cost(c)
<1>1. PICK n \in 1 .. 4 : n = Utf8Cost(c)
  BY EncodeType, Zenon
<1>. DEFINE f == [j \in 1 .. n |-> <<1, j>>]
<1>2. Utf8Bytes(<<c>>) = {<<1, j>> : j \in 1 .. n}
  <2>1. Len(<<c>>) = 1 /\ <<c>>[1] = c
    OBVIOUS
  <2>2. Utf8Bytes(<<c>>) = {p \in {1} \X (1 .. 4) : p[2] <= n}
    <3>1. 1 .. 1 = {1}
      OBVIOUS
    <3>2. \A p \in {1} \X (1 .. 4) : p[1] = 1
      OBVIOUS
    <3>3. Utf8Bytes(<<c>>) = {p \in {1} \X (1 .. 4) : p[2] <= Utf8Cost(<<c>>[p[1]])}
      BY <2>1, <3>1, Zenon DEF Utf8Bytes
    <3>4. QED
      BY <1>1, <2>1, <3>2, <3>3, Zenon
  <2>3. QED
    BY <2>2
<1>3. f \in Bijection(1 .. n, Utf8Bytes(<<c>>))
  BY <1>2 DEF Bijection, Injection, Surjection, IsInjective
<1>4. IsFiniteSet(1 .. n) /\ Cardinality(1 .. n) = n
  <2>1. 1 \in Int /\ n \in Int /\ n >= 1 /\ n - 1 + 1 = n
    OBVIOUS
  <2>2. QED
    BY <2>1, FS_Interval
<1>5. QED
  BY <1>1, <1>3, <1>4, FS_Bijection DEF ExistsBijection, Utf8Length

LEMMA EncodedNothing == Encoded(<<>>) = <<>> /\ Utf8Length(<<>>) = 0
<1>1. Encoded(<<>>) = <<>>
  <2>1. DOMAIN <<>> = {}
    OBVIOUS
  <2>2. [i \in DOMAIN <<>> |-> Encode(<<>>[i])] = <<>>
    BY <2>1
  <2>3. QED
    BY <2>2, FlattenNothing, Zenon DEF Encoded
<1>2. Utf8Length(<<>>) = 0
  <2>1. Utf8Bytes(<<>>) = {}
    BY DEF Utf8Bytes
  <2>2. QED
    BY <2>1, FS_EmptySet DEF Utf8Length
<1>3. QED
  BY <1>1, <1>2

(* A text takes up as many bytes as its code points cost.                    *)
LEMMA EncodedLength ==
  ASSUME NEW t \in Seq(CodePoint)
  PROVE  Len(Encoded(t)) = Utf8Length(t)
<1>. DEFINE n == Len(t)
            upTo(k) == SubSeq(t, 1, k)
            T == {k \in 0 .. n : Len(Encoded(upTo(k))) = Utf8Length(upTo(k))}
<1>1. n \in Nat /\ upTo(n) = t /\ upTo(0) = <<>>
  OBVIOUS
<1>2. 0 \in T
  <2>1. Len(<<>>) = 0 /\ 0 \in 0 .. n
    BY <1>1
  <2>2. QED
    BY <1>1, <2>1, EncodedNothing, Zenon
<1>3. ASSUME NEW k \in 0 .. n, k \in T, k < n PROVE k + 1 \in T
  <2>1. k \in 0 .. Len(t) - 1 /\ k + 1 \in 0 .. n /\ k \in 0 .. Len(t) /\ k + 1 \in k .. Len(t)
        /\ k + 1 \in 1 .. Len(t)
    BY <1>3
  <2>2. /\ upTo(k) \in Seq(CodePoint) /\ upTo(k + 1) \in Seq(CodePoint)
        /\ t[k + 1] \in CodePoint /\ <<t[k + 1]>> \in Seq(CodePoint)
        /\ upTo(k + 1) = upTo(k) \o <<t[k + 1]>>
    BY <2>1, SplitReads
  <2>3. Utf8Length(upTo(k + 1)) = Utf8Length(upTo(k)) + Utf8Length(SubSeq(t, k + 1, k + 1))
    BY <2>1, Utf8LengthAdds
  <2>4. SubSeq(t, k + 1, k + 1) = <<t[k + 1]>>
    BY <2>1, OneCodePoint
  <2>5. Utf8Length(<<t[k + 1]>>) = Utf8Cost(t[k + 1]) /\ Len(Encode(t[k + 1])) = Utf8Cost(t[k + 1])
    BY <2>2, Utf8LengthOfOne, EncodeType, Zenon
  <2>6. Encoded(upTo(k + 1)) = Encoded(upTo(k)) \o Encode(t[k + 1])
    BY <2>2, EncodedConcat, EncodedOne, Zenon
  <2>. HIDE DEF upTo
  <2>7. Len(Encoded(upTo(k + 1))) = Len(Encoded(upTo(k))) + Len(Encode(t[k + 1]))
    <3>1. \A p, q \in Seq(Byte) : Len(p \o q) = Len(p) + Len(q)
      OBVIOUS
    <3>2. Encoded(upTo(k)) \in Seq(Byte) /\ Encode(t[k + 1]) \in Seq(Byte)
      BY <2>2, EncodedType, EncodeType, Zenon
    <3>3. QED
      BY <2>6, <3>1, <3>2, Zenon
  <2>8. Len(Encoded(upTo(k))) = Utf8Length(upTo(k))
    BY <1>3, Zenon
  <2>9. Len(Encoded(upTo(k + 1))) = Utf8Length(upTo(k + 1))
    BY <2>3, <2>4, <2>5, <2>7, <2>8, Zenon
  <2>10. QED
    BY <2>1, <2>9, Zenon
<1>. HIDE DEF T
<1>4. \A i \in 0 .. n : i \in T
  BY <1>1, <1>2, <1>3, UpwardInduction
<1>5. n \in T
  BY <1>1, <1>4
<1>6. QED
  BY <1>1, <1>5, Zenon DEF T

LEMMA OneAmongNone ==
  ASSUME NEW S, NEW c \in S, NEW n \in 1 .. 4
  PROVE  FlattenSeq([j \in 1 .. n |-> IF j = 1 THEN <<c>> ELSE <<>>]) = <<c>>
<1>. DEFINE s(k) == [j \in 1 .. k |-> IF j = 1 THEN <<c>> ELSE <<>>]
<1>1. ASSUME NEW k \in 1 .. 4 PROVE s(k) \in Seq(Seq(S)) /\ Len(s(k)) = k
  <2>1. <<c>> \in Seq(S) /\ <<>> \in Seq(S)
    OBVIOUS
  <2>2. QED
    BY <2>1
<1>2. s(1) = <<<<c>>>>
  OBVIOUS
<1>3. ASSUME NEW k \in 1 .. 3 PROVE s(k + 1) = Append(s(k), <<>>)
  <2>. DEFINE l == s(k + 1)
              r == Append(s(k), <<>>)
  <2>0. <<>> \in Seq(S)
    OBVIOUS
  <2>1. l \in Seq(Seq(S)) /\ Len(l) = k + 1
    BY <1>1
  <2>2. \A j \in 1 .. k + 1 : l[j] = IF j = 1 THEN <<c>> ELSE <<>>
    OBVIOUS
  <2>3. s(k) \in Seq(Seq(S)) /\ Len(s(k)) = k /\ \A j \in 1 .. k : s(k)[j] = IF j = 1 THEN <<c>> ELSE <<>>
    BY <1>1
  <2>. HIDE DEF l, s
  <2>4. r \in Seq(Seq(S)) /\ Len(r) = k + 1 /\ \A j \in 1 .. k + 1 : r[j] = IF j <= k THEN s(k)[j] ELSE <<>>
    BY <2>0, <2>3
  <2>5. \A j \in 1 .. k + 1 : l[j] = r[j]
    BY <2>2, <2>3, <2>4
  <2>. HIDE DEF r
  <2>6. l = r
    BY <2>1, <2>4, <2>5, SeqEqual
  <2>7. QED
    BY <2>6 DEF l, r
<1>. HIDE DEF s
<1>4. FlattenSeq(s(1)) = <<c>>
  <2>1. <<c>> \in Seq(S)
    OBVIOUS
  <2>2. FlattenSeq(<<<<c>>>>) = <<c>>
    BY <2>1, FlattenOne
  <2>3. QED
    BY <1>2, <2>2, Zenon
<1>5. ASSUME NEW k \in 1 .. 3, FlattenSeq(s(k)) = <<c>> PROVE FlattenSeq(s(k + 1)) = <<c>>
  <2>1. k \in 1 .. 4 /\ <<>> \in Seq(S)
    OBVIOUS
  <2>2. FlattenSeq(Append(s(k), <<>>)) = FlattenSeq(s(k)) \o <<>>
    BY <1>1, <2>1, FlattenAppend
  <2>3. <<c>> \o <<>> = <<c>>
    <3>1. <<c>> \in Seq(S) /\ \A a \in Seq(S) : a \o <<>> = a
      OBVIOUS
    <3>2. QED
      BY <3>1
  <2>4. QED
    BY <1>3, <1>5, <2>2, <2>3, Zenon
<1>6. FlattenSeq(s(2)) = <<c>> /\ FlattenSeq(s(3)) = <<c>> /\ FlattenSeq(s(4)) = <<c>>
  <2>1. FlattenSeq(s(2)) = <<c>>
    <3>1. 1 \in 1 .. 3 /\ 1 + 1 = 2
      OBVIOUS
    <3>2. QED
      BY <1>4, <1>5, <3>1
  <2>2. FlattenSeq(s(3)) = <<c>>
    <3>1. 2 \in 1 .. 3 /\ 2 + 1 = 3
      OBVIOUS
    <3>2. QED
      BY <1>5, <2>1, <3>1
  <2>3. FlattenSeq(s(4)) = <<c>>
    <3>1. 3 \in 1 .. 3 /\ 3 + 1 = 4
      OBVIOUS
    <3>2. QED
      BY <1>5, <2>2, <3>1
  <2>4. QED
    BY <2>1, <2>2, <2>3
<1>7. n = 1 \/ n = 2 \/ n = 3 \/ n = 4
  OBVIOUS
<1>8. FlattenSeq(s(n)) = <<c>>
  BY <1>4, <1>6, <1>7
<1>9. QED
  BY <1>8 DEF s

PieceAt(bytes, k) == IF bytes[k] \in 128 .. 191 THEN <<>> ELSE <<CodePointAt(bytes, k)>>

(* A number in base 64, and the bits that the first bytes of an encoding     *)
(* carry.                                                                    *)
LEMMA BaseSixtyFour ==
  /\ \A x \in Nat : x \div 64 \in Nat /\ x % 64 \in 0 .. 63 /\ x = 64 * (x \div 64) + (x % 64)
  /\ \A a, r \in Nat : r < 4096 => (4096 * a + r) \div 4096 = a
  /\ \A a, r \in Nat : r < 262144 => (262144 * a + r) \div 262144 = a
<1>1. \A x \in Nat : x \div 64 \in Nat /\ x % 64 \in 0 .. 63 /\ x = 64 * (x \div 64) + (x % 64)
  OBVIOUS
<1>2. ASSUME NEW a \in Nat, NEW r \in Nat, r < 4096 PROVE (4096 * a + r) \div 4096 = a
  <2>1. PICK x \in Nat : x = 4096 * a + r
    OBVIOUS
  <2>2. PICK q : q = x \div 4096
    OBVIOUS
  <2>3. q \in Nat /\ 4096 * q <= x /\ x < 4096 * q + 4096
    BY <2>2
  <2>4. q = a
    BY <1>2, <2>1, <2>3
  <2>5. QED
    BY <2>1, <2>2, <2>4
<1>3. ASSUME NEW a \in Nat, NEW r \in Nat, r < 262144 PROVE (262144 * a + r) \div 262144 = a
  <2>1. PICK x \in Nat : x = 262144 * a + r
    OBVIOUS
  <2>2. PICK q : q = x \div 262144
    OBVIOUS
  <2>3. q \in Nat /\ 262144 * q <= x /\ x < 262144 * q + 262144
    BY <2>2
  <2>4. q = a
    BY <1>3, <2>1, <2>3
  <2>5. QED
    BY <2>1, <2>2, <2>4
<1>4. QED
  BY <1>1, <1>2, <1>3

LEMMA TagBits ==
  /\ \A b \in Nat : b < 64 => (128 + b) % 64 = b
  /\ \A a \in Nat : a < 32 => (192 + a) % 32 = a
  /\ \A a \in Nat : a < 16 => (224 + a) % 16 = a
  /\ \A a \in Nat : a < 8 => (240 + a) % 8 = a
<1>1. ASSUME NEW b \in Nat, b < 64 PROVE (128 + b) % 64 = b
  <2>1. PICK x \in Nat : x = 128 + b
    OBVIOUS
  <2>2. PICK q, m : q = x \div 64 /\ m = x % 64
    OBVIOUS
  <2>3. q \in Nat /\ m \in Nat /\ m < 64 /\ x = 64 * q + m
    BY <2>2
  <2>4. m = b
    BY <1>1, <2>1, <2>3
  <2>5. QED
    BY <2>1, <2>2, <2>4
<1>2. ASSUME NEW a \in Nat, a < 32 PROVE (192 + a) % 32 = a
  <2>1. PICK x \in Nat : x = 192 + a
    OBVIOUS
  <2>2. PICK q, m : q = x \div 32 /\ m = x % 32
    OBVIOUS
  <2>3. q \in Nat /\ m \in Nat /\ m < 32 /\ x = 32 * q + m
    BY <2>2
  <2>4. m = a
    BY <1>2, <2>1, <2>3
  <2>5. QED
    BY <2>1, <2>2, <2>4
<1>3. ASSUME NEW a \in Nat, a < 16 PROVE (224 + a) % 16 = a
  <2>1. PICK x \in Nat : x = 224 + a
    OBVIOUS
  <2>2. PICK q, m : q = x \div 16 /\ m = x % 16
    OBVIOUS
  <2>3. q \in Nat /\ m \in Nat /\ m < 16 /\ x = 16 * q + m
    BY <2>2
  <2>4. m = a
    BY <1>3, <2>1, <2>3
  <2>5. QED
    BY <2>1, <2>2, <2>4
<1>4. ASSUME NEW a \in Nat, a < 8 PROVE (240 + a) % 8 = a
  <2>1. PICK x \in Nat : x = 240 + a
    OBVIOUS
  <2>2. PICK q, m : q = x \div 8 /\ m = x % 8
    OBVIOUS
  <2>3. q \in Nat /\ m \in Nat /\ m < 8 /\ x = 8 * q + m
    BY <2>2
  <2>4. m = a
    BY <1>4, <2>1, <2>3
  <2>5. QED
    BY <2>1, <2>2, <2>4
<1>5. QED
  BY <1>1, <1>2, <1>3, <1>4

(* The bytes of an encoding: a continuation, and what may come first.        *)
Continuation(y) == y \in 128 .. 191

LeadOfTwo(x) == x \in Nat /\ ~ Continuation(x) /\ ~ x < 128 /\ x < 224

LeadOfThree(x) == x \in Nat /\ ~ Continuation(x) /\ ~ x < 128 /\ ~ x < 224 /\ x < 240

LeadOfFour(x) == x \in Nat /\ ~ Continuation(x) /\ ~ x < 128 /\ ~ x < 224 /\ ~ x < 240

LEMMA TagRanges ==
  /\ \A b \in Nat : b < 64 => Continuation(128 + b)
  /\ \A a \in Nat : a < 32 => LeadOfTwo(192 + a)
  /\ \A a \in Nat : a < 16 => LeadOfThree(224 + a)
  /\ \A a \in Nat : LeadOfFour(240 + a)
<1>1. \A b \in Nat : b < 64 => Continuation(128 + b)
  BY SMT DEF Continuation
<1>2. \A a \in Nat : a < 32 => LeadOfTwo(192 + a)
  BY SMT DEF Continuation, LeadOfTwo
<1>3. \A a \in Nat : a < 16 => LeadOfThree(224 + a)
  BY SMT DEF Continuation, LeadOfThree
<1>4. \A a \in Nat : LeadOfFour(240 + a)
  BY SMT DEF Continuation, LeadOfFour
<1>5. QED
  BY <1>1, <1>2, <1>3, <1>4

(* How a code point is written in one, two, three and four bytes.            *)
WrittenInOne(c) ==
  Utf8Cost(c) = 1 /\ c \in 0 .. 127 /\ Encode(c) = <<c>>

WrittenInTwo(c, x, y) ==
  /\ Utf8Cost(c) = 2 /\ Encode(c) = <<x, y>> /\ LeadOfTwo(x) /\ Continuation(y)
  /\ c = (x % 32) * 64 + (y % 64)

WrittenInThree(c, x, y, z) ==
  /\ Utf8Cost(c) = 3 /\ Encode(c) = <<x, y, z>>
  /\ LeadOfThree(x) /\ Continuation(y) /\ Continuation(z)
  /\ c = (x % 16) * 4096 + 64 * (y % 64) + (z % 64)

WrittenInFour(c, w, x, y, z) ==
  /\ Utf8Cost(c) = 4 /\ Encode(c) = <<w, x, y, z>>
  /\ LeadOfFour(w) /\ Continuation(x) /\ Continuation(y) /\ Continuation(z)
  /\ c = (w % 8) * 262144 + 4096 * (x % 64) + 64 * (y % 64) + (z % 64)

LEMMA EncodingByWidth ==
  ASSUME NEW c \in CodePoint
  PROVE  \/ WrittenInOne(c)
         \/ \E x, y : WrittenInTwo(c, x, y)
         \/ \E x, y, z : WrittenInThree(c, x, y, z)
         \/ \E w, x, y, z : WrittenInFour(c, w, x, y, z)
<1>. DEFINE q == c \div 64
            e == c % 64
            r == q \div 64
            d == q % 64
            a == r \div 64
            b == r % 64
<1>0. c \in Nat /\ c <= 1114111
  BY SMTT(30) DEF CodePoint
<1>12. \A x \in Nat : x \div 64 \in Nat /\ x % 64 \in 0 .. 63 /\ x = 64 * (x \div 64) + (x % 64)
  BY BaseSixtyFour
<1>1. q \in Nat /\ e \in 0 .. 63 /\ c = 64 * q + e
  <2>1. c \in Nat
    BY <1>0
  <2>2. QED
    BY <1>12, <2>1, Zenon
<1>2. r \in Nat /\ d \in 0 .. 63 /\ q = 64 * r + d
  BY <1>12, <1>1, Zenon
<1>3. a \in Nat /\ b \in 0 .. 63 /\ r = 64 * a + b
  BY <1>12, <1>2, Zenon
<1>4. Encode(c) = CASE Utf8Cost(c) = 1 -> <<c>>
                    [] Utf8Cost(c) = 2 -> <<192 + q, 128 + e>>
                    [] Utf8Cost(c) = 3 -> <<224 + (c \div 4096), 128 + d, 128 + e>>
                    [] OTHER -> <<240 + (c \div 262144), 128 + ((c \div 4096) % 64),
                                  128 + d, 128 + e>>
  BY SMT DEF Encode
<1>. HIDE DEF q, e, r, d, a, b
<1>5. c \div 4096 = r
  <2>1. c = 4096 * r + (64 * d + e) /\ 64 * d + e \in Nat /\ 64 * d + e < 4096
    BY <1>1, <1>2
  <2>2. QED
    BY <1>2, <2>1, BaseSixtyFour, SMT
<1>6. c \div 262144 = a
  <2>1. /\ c = 262144 * a + (4096 * b + 64 * d + e)
        /\ 4096 * b + 64 * d + e \in Nat /\ 4096 * b + 64 * d + e < 262144
    BY <1>1, <1>2, <1>3
  <2>2. QED
    BY <1>3, <2>1, BaseSixtyFour, SMT
<1>7. CASE c < 128
  <2>1. Utf8Cost(c) = 1
    BY <1>7 DEF Utf8Cost
  <2>2. Encode(c) = <<c>> /\ c \in 0 .. 127
    BY <1>0, <1>4, <1>7, <2>1
  <2>3. QED
    BY <2>1, <2>2 DEF WrittenInOne
<1>8. CASE c >= 128 /\ c < 2048
  <2>1. Utf8Cost(c) = 2
    BY <1>0, <1>8 DEF Utf8Cost
  <2>2. Encode(c) = <<192 + q, 128 + e>>
    BY <1>4, <2>1
  <2>3. q \in 2 .. 31
    BY <1>0, <1>1, <1>8
  <2>4. q \in Nat /\ q < 32 /\ e \in Nat /\ e < 64
    BY <1>1, <2>3
  <2>5. PICK x, y : x = 192 + q /\ y = 128 + e
    OBVIOUS
  <2>6. LeadOfTwo(x) /\ Continuation(y) /\ x % 32 = q /\ y % 64 = e
    BY <2>4, <2>5, TagRanges, TagBits, SMT
  <2>7. WrittenInTwo(c, x, y)
    BY <1>1, <2>1, <2>2, <2>5, <2>6, SMT DEF WrittenInTwo
  <2>8. QED
    BY <2>7, Zenon
<1>9. CASE c >= 2048 /\ c < 65536
  <2>1. Utf8Cost(c) = 3
    BY <1>0, <1>9 DEF Utf8Cost
  <2>2. Encode(c) = <<224 + r, 128 + d, 128 + e>>
    BY <1>4, <1>5, <2>1
  <2>3. r \in 0 .. 15 /\ c = 4096 * r + 64 * d + e
    BY <1>0, <1>1, <1>2, <1>9
  <2>4. r \in Nat /\ r < 16 /\ d \in Nat /\ d < 64 /\ e \in Nat /\ e < 64
    BY <1>1, <1>2, <2>3
  <2>5. PICK x, y, z : x = 224 + r /\ y = 128 + d /\ z = 128 + e
    OBVIOUS
  <2>6. LeadOfThree(x) /\ Continuation(y) /\ Continuation(z)
    BY <2>4, <2>5, TagRanges, SMT
  <2>7. x % 16 = r /\ y % 64 = d /\ z % 64 = e
    BY <2>4, <2>5, TagBits, SMT
  <2>8. WrittenInThree(c, x, y, z)
    BY <2>1, <2>2, <2>3, <2>5, <2>6, <2>7, SMT DEF WrittenInThree
  <2>9. QED
    BY <2>8, Zenon
<1>10. CASE c >= 65536
  <2>1. Utf8Cost(c) = 4
    BY <1>0, <1>10 DEF Utf8Cost
  <2>2. Encode(c) = <<240 + a, 128 + b, 128 + d, 128 + e>>
    <3>1. r % 64 = b
      BY DEF b
    <3>2. QED
      BY <1>4, <1>5, <1>6, <2>1, <3>1
  <2>3. a \in 0 .. 4 /\ c = 262144 * a + 4096 * b + 64 * d + e
    BY <1>0, <1>1, <1>2, <1>3
  <2>4. /\ a \in Nat /\ a < 8 /\ b \in Nat /\ b < 64 /\ d \in Nat /\ d < 64
        /\ e \in Nat /\ e < 64
    BY <1>1, <1>2, <1>3, <2>3
  <2>5. PICK w, x, y, z : w = 240 + a /\ x = 128 + b /\ y = 128 + d /\ z = 128 + e
    OBVIOUS
  <2>6. LeadOfFour(w) /\ Continuation(x) /\ Continuation(y) /\ Continuation(z)
    BY <2>4, <2>5, TagRanges, SMT
  <2>7. w % 8 = a /\ x % 64 = b /\ y % 64 = d /\ z % 64 = e
    BY <2>4, <2>5, TagBits, SMT
  <2>8. WrittenInFour(c, w, x, y, z)
    BY <2>1, <2>2, <2>3, <2>5, <2>6, <2>7, SMT DEF WrittenInFour
  <2>9. QED
    BY <2>8, Zenon
<1>11. c < 128 \/ (c >= 128 /\ c < 2048) \/ (c >= 2048 /\ c < 65536) \/ c >= 65536
  BY <1>0, SMT
<1>. DEFINE P == \/ WrittenInOne(c)
                 \/ \E f, g : WrittenInTwo(c, f, g)
                 \/ \E f, g, h : WrittenInThree(c, f, g, h)
                 \/ \E f, g, h, i : WrittenInFour(c, f, g, h, i)
<1>13. (c < 128 => P) /\ (c >= 128 /\ c < 2048 => P) /\ (c >= 2048 /\ c < 65536 => P) /\ (c >= 65536 => P)
  BY <1>7, <1>8, <1>9, <1>10, SMT
<1>14. P
  <2>. HIDE DEF P
  <2>1. QED
    BY <1>11, <1>13, SMT
<1>15. QED
  BY <1>14

(* What is read where a code point is written: that one, and no other.       *)
LEMMA ReadOne ==
  ASSUME NEW bytes, NEW k \in Nat, NEW c, WrittenInOne(c), bytes[k] = c
  PROVE  CodePointAt(bytes, k) = c /\ bytes[k] \notin 128 .. 191
<1>1. c \in 0 .. 127
  BY DEF WrittenInOne
<1>2. c < 128 /\ c \notin 128 .. 191
  BY <1>1
<1>3. QED
  BY <1>2, SMT DEF CodePointAt

(* Where the encoding of a code point stands, one is decoded, that one.      *)
DecodedAfter(bytes, p, c) ==
  \A j \in 1 .. Utf8Cost(c) : PieceAt(bytes, p + j) = IF j = 1 THEN <<c>> ELSE <<>>

LEMMA DecodeOne ==
  ASSUME NEW bytes \in Seq(Byte), NEW c \in CodePoint, NEW p \in Nat,
         p + Utf8Cost(c) <= Len(bytes), \A j \in 1 .. Utf8Cost(c) : bytes[p + j] = Encode(c)[j]
  PROVE  DecodedAfter(bytes, p, c)
<1>. DEFINE n == Utf8Cost(c)
<1>0. /\ Len(bytes) \in Nat /\ p + 1 \in Nat
      /\ (p + 1) + 1 = p + 2 /\ (p + 1) + 2 = p + 3 /\ (p + 1) + 3 = p + 4
  OBVIOUS
<1>1. ASSUME CodePointAt(bytes, p + 1) = c, ~ Continuation(bytes[p + 1]),
             \A j \in 1 .. n : j # 1 => Continuation(bytes[p + j])
      PROVE  DecodedAfter(bytes, p, c)
  BY <1>1, Zenon DEF PieceAt, DecodedAfter, Continuation
<1>2. CASE WrittenInOne(c)
  <2>1. n = 1 /\ Encode(c) = <<c>>
    BY <1>2 DEF WrittenInOne
  <2>2. bytes[p + 1] = c
    BY <2>1, SMT
  <2>3. CodePointAt(bytes, p + 1) = c /\ ~ Continuation(bytes[p + 1])
    BY <1>0, <1>2, <2>2, ReadOne, SMT DEF Continuation
  <2>4. \A j \in 1 .. n : j = 1
    BY <2>1, SMT
  <2>5. QED
    BY <1>1, <2>3, <2>4, Zenon
<1>3. ASSUME NEW x, NEW y, WrittenInTwo(c, x, y) PROVE DecodedAfter(bytes, p, c)
  <2>1. n = 2 /\ Encode(c) = <<x, y>>
    BY <1>3, Zenon DEF WrittenInTwo
  <2>2. bytes[p + 1] = x /\ bytes[p + 2] = y /\ (p + 1) + 1 <= Len(bytes)
    BY <1>0, <2>1, SMT
  <2>3. CodePointAt(bytes, p + 1) = c
    <3>1. WrittenInTwo(c, x, y)
      BY <1>3
    <3>2. bytes[(p + 1) + 1] = y
      BY <1>0, <2>2, Zenon
    <3>3. CodePointAt(bytes, p + 1) = (x % 32) * 64 + (y % 64)
      BY <1>0, <2>2, <3>1, <3>2, SMT DEF CodePointAt, WrittenInTwo, LeadOfTwo
    <3>4. QED
      BY <3>1, <3>3, SMT DEF WrittenInTwo
  <2>4. ~ Continuation(x) /\ Continuation(y)
    BY <1>3, SMT DEF WrittenInTwo, LeadOfTwo
  <2>5. \A j \in 1 .. n : j = 1 \/ j = 2
    BY <2>1, SMT
  <2>6. QED
    BY <1>1, <2>2, <2>3, <2>4, <2>5, Zenon
<1>4. ASSUME NEW x, NEW y, NEW z, WrittenInThree(c, x, y, z) PROVE DecodedAfter(bytes, p, c)
  <2>1. n = 3 /\ Encode(c) = <<x, y, z>>
    BY <1>4, SMT DEF WrittenInThree
  <2>2. /\ bytes[p + 1] = x /\ bytes[p + 2] = y /\ bytes[p + 3] = z
        /\ (p + 1) + 1 <= Len(bytes) /\ (p + 1) + 2 <= Len(bytes)
    BY <1>0, <2>1, SMT
  <2>3. CodePointAt(bytes, p + 1) = c
    <3>1. WrittenInThree(c, x, y, z)
      BY <1>4
    <3>2. bytes[(p + 1) + 1] = y /\ bytes[(p + 1) + 2] = z
      BY <1>0, <2>2, Zenon
    <3>3. CodePointAt(bytes, p + 1) = (x % 16) * 4096 + 64 * (y % 64) + (z % 64)
      BY <1>0, <2>2, <3>1, <3>2, SMT DEF CodePointAt, WrittenInThree, LeadOfThree
    <3>4. QED
      BY <3>1, <3>3, SMT DEF WrittenInThree
  <2>4. ~ Continuation(x) /\ Continuation(y) /\ Continuation(z)
    BY <1>4, SMT DEF WrittenInThree, LeadOfThree
  <2>5. \A j \in 1 .. n : j = 1 \/ j = 2 \/ j = 3
    BY <2>1, SMT
  <2>6. QED
    BY <1>1, <2>2, <2>3, <2>4, <2>5, Zenon
<1>5. ASSUME NEW w, NEW x, NEW y, NEW z, WrittenInFour(c, w, x, y, z)
      PROVE  DecodedAfter(bytes, p, c)
  <2>1. n = 4 /\ Encode(c) = <<w, x, y, z>>
    BY <1>5, SMT DEF WrittenInFour
  <2>2. /\ bytes[p + 1] = w /\ bytes[p + 2] = x /\ bytes[p + 3] = y /\ bytes[p + 4] = z
        /\ (p + 1) + 1 <= Len(bytes) /\ (p + 1) + 2 <= Len(bytes) /\ (p + 1) + 3 <= Len(bytes)
    BY <1>0, <2>1, SMT
  <2>3. CodePointAt(bytes, p + 1) = c
    <3>1. WrittenInFour(c, w, x, y, z)
      BY <1>5
    <3>2. bytes[(p + 1) + 1] = x /\ bytes[(p + 1) + 2] = y /\ bytes[(p + 1) + 3] = z
      BY <1>0, <2>2, Zenon
    <3>3. CodePointAt(bytes, p + 1) = (w % 8) * 262144 + 4096 * (x % 64) + 64 * (y % 64) + (z % 64)
      BY <1>0, <2>2, <3>1, <3>2, SMT DEF CodePointAt, WrittenInFour, LeadOfFour
    <3>4. QED
      BY <3>1, <3>3, SMT DEF WrittenInFour
  <2>4. ~ Continuation(w) /\ Continuation(x) /\ Continuation(y) /\ Continuation(z)
    BY <1>5, SMT DEF WrittenInFour, LeadOfFour
  <2>5. \A j \in 1 .. n : j = 1 \/ j = 2 \/ j = 3 \/ j = 4
    BY <2>1, SMT
  <2>6. QED
    BY <1>1, <2>2, <2>3, <2>4, <2>5, Zenon
<1>6. \/ WrittenInOne(c)
      \/ \E x, y : WrittenInTwo(c, x, y)
      \/ \E x, y, z : WrittenInThree(c, x, y, z)
      \/ \E w, x, y, z : WrittenInFour(c, w, x, y, z)
  BY EncodingByWidth
<1>7. CASE \E x, y : WrittenInTwo(c, x, y)
  BY <1>3, <1>7, Zenon
<1>8. CASE \E x, y, z : WrittenInThree(c, x, y, z)
  BY <1>4, <1>8, Zenon
<1>9. CASE \E w, x, y, z : WrittenInFour(c, w, x, y, z)
  BY <1>5, <1>9, Zenon
<1>10. QED
  BY <1>2, <1>6, <1>7, <1>8, <1>9, Zenon

LEMMA DecodeEncoded ==
  ASSUME NEW v \in Seq(CodePoint)
  PROVE  DecodedText(Encoded(v)) = v
<1>. DEFINE bytes == Encoded(v)
            n == Len(v)
            S == CodePoint \cup {CodePointAt(bytes, k) : k \in 1 .. Len(bytes)}
            enc(k) == Encoded(SubSeq(v, 1, k))
            pieces(m) == [k \in 1 .. m |-> PieceAt(bytes, k)]
            T == {k \in 0 .. n : FlattenSeq(pieces(Len(enc(k)))) = SubSeq(v, 1, k)}
<1>1. /\ n \in Nat /\ bytes \in Seq(Byte) /\ Len(bytes) \in Nat
      /\ SubSeq(v, 1, 0) = <<>> /\ SubSeq(v, 1, n) = v
      /\ \A k \in 0 .. n : SubSeq(v, 1, k) \in Seq(CodePoint)
      /\ \A k \in 1 .. n : v[k] \in CodePoint
  BY EncodedType
<1>2. \A k \in 0 .. n : enc(k) \in Seq(Byte) /\ Len(enc(k)) \in Nat
  <2>. TAKE k \in 0 .. n
  <2>1. SubSeq(v, 1, k) \in Seq(CodePoint)
    BY <1>1
  <2>2. Encoded(SubSeq(v, 1, k)) \in Seq(Byte)
    BY <2>1, EncodedType, Zenon
  <2>. HIDE DEF enc
  <2>3. enc(k) \in Seq(Byte)
    BY <2>2 DEF enc
  <2>4. QED
    BY <2>3
<1>3. ASSUME NEW k \in 0 .. n - 1
      PROVE  /\ Len(enc(k + 1)) = Len(enc(k)) + Utf8Cost(v[k + 1])
             /\ Len(enc(k + 1)) <= Len(bytes)
             /\ \A j \in 1 .. Utf8Cost(v[k + 1]) : bytes[Len(enc(k)) + j] = Encode(v[k + 1])[j]
  <2>. DEFINE c == v[k + 1]
              before == SubSeq(v, 1, k)
              upTo == SubSeq(v, 1, k + 1)
              after == SubSeq(v, k + 2, n)
  <2>1. /\ before \in Seq(CodePoint) /\ upTo \in Seq(CodePoint) /\ after \in Seq(CodePoint)
        /\ c \in CodePoint /\ <<c>> \in Seq(CodePoint) /\ upTo = before \o <<c>>
    BY SplitReads, Zenon
  <2>2. v = upTo \o after
    BY SplitReads, Zenon
  <2>. HIDE DEF before, upTo, after, c
  <2>3. /\ Encoded(upTo) = Encoded(before) \o Encode(c)
        /\ bytes = Encoded(upTo) \o Encoded(after)
    <3>1. Encoded(before \o <<c>>) = Encoded(before) \o Encoded(<<c>>) /\ Encoded(<<c>>) = Encode(c)
      BY <2>1, EncodedConcat, EncodedOne, Zenon
    <3>2. Encoded(upTo \o after) = Encoded(upTo) \o Encoded(after)
      BY <2>1, EncodedConcat, Zenon
    <3>3. bytes = Encoded(upTo \o after)
      BY <2>2, Zenon
    <3>4. QED
      BY <2>1, <3>1, <3>2, <3>3, Zenon
  <2>4. /\ Encoded(before) \in Seq(Byte) /\ Encoded(after) \in Seq(Byte) /\ Encoded(upTo) \in Seq(Byte)
        /\ Encode(c) \in Seq(Byte) /\ Len(Encode(c)) = Utf8Cost(c) /\ Utf8Cost(c) \in 1 .. 4
    BY <2>1, EncodedType, EncodeType
  <2>. DEFINE a == Encoded(before)
              b == Encoded(upTo)
              d == Encoded(after)
              e == Encode(c)
              m == Utf8Cost(c)
  <2>. HIDE DEF a, b, d, e, m, bytes
  <2>5. a \in Seq(Byte) /\ b \in Seq(Byte) /\ d \in Seq(Byte) /\ e \in Seq(Byte) /\ Len(e) = m /\ m \in 1 .. 4
          /\ b = a \o e /\ bytes = b \o d
    BY <2>3, <2>4 DEF a, b, d, e, m
  <2>6. /\ Len(b) = Len(a) + m /\ Len(b) <= Len(bytes)
        /\ \A j \in 1 .. m : b[Len(a) + j] = e[j]
        /\ \A j \in 1 .. m : bytes[Len(a) + j] = b[Len(a) + j]
    <3>1. /\ Len(a) \in Nat /\ Len(e) \in Nat /\ Len(d) \in Nat /\ m \in Nat
      BY <2>5
    <3>2. /\ Len(b) = Len(a) + Len(e) /\ Len(bytes) = Len(b) + Len(d)
          /\ \A j \in 1 .. Len(e) : b[Len(a) + j] = e[j]
          /\ \A j \in 1 .. Len(b) : bytes[j] = b[j]
      <4>1. Len(a \o e) = Len(a) + Len(e) /\ \A j \in 1 .. Len(e) : (a \o e)[Len(a) + j] = e[j]
        BY <2>5, ConcatElements
      <4>2. Len(b \o d) = Len(b) + Len(d) /\ \A j \in 1 .. Len(b) : (b \o d)[j] = b[j]
        BY <2>5, ConcatElements
      <4>3. QED
        BY <2>5, <4>1, <4>2, Zenon
    <3>3. \A j \in 1 .. m : Len(a) + j \in 1 .. Len(b)
      BY <2>5, <3>1, <3>2
    <3>4. Len(b) <= Len(bytes)
      BY <3>1, <3>2
    <3>5. QED
      BY <2>5, <3>2, <3>3, <3>4, Zenon
  <2>7. /\ Len(b) = Len(a) + m /\ Len(b) <= Len(bytes)
        /\ \A j \in 1 .. m : bytes[Len(a) + j] = e[j]
    BY <2>6
  <2>8. QED
    BY <2>7, Zenon DEF a, b, e, m, before, upTo, c, enc
<1>4. \A m \in 0 .. Len(bytes) : pieces(m) \in Seq(Seq(S)) /\ Len(pieces(m)) = m
  <2>. TAKE m \in 0 .. Len(bytes)
  <2>1. \A k \in 1 .. m : PieceAt(bytes, k) \in Seq(S)
    <3>. TAKE k \in 1 .. m
    <3>1. CodePointAt(bytes, k) \in S
      BY <1>1
    <3>. HIDE DEF S
    <3>2. <<>> \in Seq(S) /\ <<CodePointAt(bytes, k)>> \in Seq(S)
      BY <3>1
    <3>3. QED
      BY <3>2 DEF PieceAt
  <2>2. m \in Nat
    BY <1>1
  <2>. HIDE DEF S, bytes
  <2>3. QED
    BY <2>1, <2>2
<1>5. ASSUME NEW k \in 0 .. n - 1, k \in T PROVE k + 1 \in T
  <2>. DEFINE p == Len(enc(k))
              c == v[k + 1]
              m == Utf8Cost(c)
              next == [j \in 1 .. m |-> PieceAt(bytes, p + j)]
  <2>1. /\ p \in Nat /\ m \in 1 .. 4 /\ p + m <= Len(bytes) /\ Len(enc(k + 1)) = p + m /\ c \in CodePoint
    BY <1>1, <1>2, <1>3, EncodeType
  <2>2. \A j \in 1 .. m : PieceAt(bytes, p + j) = IF j = 1 THEN <<c>> ELSE <<>>
    <3>1. \A j \in 1 .. m : bytes[p + j] = Encode(c)[j]
      BY <1>3
    <3>2. QED
      BY <1>1, <2>1, <3>1, DecodeOne DEF DecodedAfter
  <2>3. next = [j \in 1 .. m |-> IF j = 1 THEN <<c>> ELSE <<>>]
    BY <2>2
  <2>4. FlattenSeq(next) = <<c>>
    BY <2>1, <2>3, OneAmongNone
  <2>5. next \in Seq(Seq(S)) /\ Len(next) = m
    <3>1. c \in S
      BY <2>1, Zenon
    <3>. HIDE DEF S, bytes, p, c, m
    <3>2. <<c>> \in Seq(S) /\ <<>> \in Seq(S)
      BY <3>1
    <3>3. \A j \in 1 .. m : PieceAt(bytes, p + j) \in Seq(S)
      BY <2>2, <3>2, Zenon
    <3>4. m \in Nat
      BY <2>1
    <3>5. QED
      BY <3>3, <3>4
  <2>6. pieces(p + m) = pieces(p) \o next
    <3>. DEFINE l == pieces(p + m)
                r == pieces(p) \o next
    <3>1. l \in Seq(Seq(S)) /\ Len(l) = p + m /\ \A i \in 1 .. p + m : l[i] = PieceAt(bytes, i)
      BY <1>4, <2>1
    <3>2. pieces(p) \in Seq(Seq(S)) /\ Len(pieces(p)) = p /\ \A i \in 1 .. p : pieces(p)[i] = PieceAt(bytes, i)
      BY <1>4, <2>1
    <3>3. \A j \in 1 .. m : next[j] = PieceAt(bytes, p + j)
      OBVIOUS
    <3>. HIDE DEF next, pieces, S, bytes, p, c, m, l
    <3>4. /\ r \in Seq(Seq(S)) /\ Len(r) = p + m
          /\ \A i \in 1 .. p + m : r[i] = IF i <= p THEN pieces(p)[i] ELSE next[i - p]
      BY <2>1, <2>5, <3>2, SMTT(30)
    <3>. HIDE DEF r
    <3>5. \A i \in 1 .. p + m : l[i] = r[i]
      <4>. TAKE i \in 1 .. p + m
      <4>1. CASE i <= p
        <5>1. i \in 1 .. p
          BY <2>1, <4>1
        <5>2. QED
          BY <3>1, <3>2, <3>4, <4>1, <5>1
      <4>2. CASE ~ i <= p
        <5>1. i - p \in 1 .. m /\ p + (i - p) = i
          BY <2>1, <4>2
        <5>2. next[i - p] = PieceAt(bytes, p + (i - p))
          BY <3>3, <5>1
        <5>3. QED
          BY <3>1, <3>4, <4>2, <5>1, <5>2
      <4>3. QED
        BY <4>1, <4>2
    <3>6. l = r
      BY <3>1, <3>4, <3>5, SeqEqual
    <3>7. QED
      BY <3>6 DEF l, r
  <2>7. pieces(p) \in Seq(Seq(S))
    BY <1>4, <2>1
  <2>8. FlattenSeq(pieces(p) \o next) = FlattenSeq(pieces(p)) \o FlattenSeq(next)
    <3>. HIDE DEF pieces, next, S
    <3>1. QED
      BY <2>5, <2>7, FlattenConcat
  <2>9. FlattenSeq(pieces(p)) = SubSeq(v, 1, k)
    BY <1>5
  <2>10. SubSeq(v, 1, k + 1) = SubSeq(v, 1, k) \o <<c>>
    BY <1>1
  <2>11. FlattenSeq(pieces(p + m)) = SubSeq(v, 1, k + 1)
    <3>. HIDE DEF pieces, next, p, m, c
    <3>1. QED
      BY <2>4, <2>6, <2>8, <2>9, <2>10, Zenon
  <2>12. FlattenSeq(pieces(Len(enc(k + 1)))) = SubSeq(v, 1, k + 1)
    <3>. HIDE DEF pieces, p, m, c, enc
    <3>1. QED
      BY <2>1, <2>11, Zenon
  <2>13. k + 1 \in 0 .. n
    BY <1>1
  <2>14. QED
    BY <2>12, <2>13
<1>6. 0 \in T
  <2>1. enc(0) = <<>>
    <3>1. [i \in DOMAIN <<>> |-> Encode(<<>>[i])] = <<>>
      OBVIOUS
    <3>2. Encoded(<<>>) = <<>>
      BY <3>1, FlattenNothing, Zenon DEF Encoded
    <3>3. QED
      BY <1>1, <3>2, Zenon
  <2>2. pieces(0) = <<>>
    OBVIOUS
  <2>3. FlattenSeq(pieces(Len(enc(0)))) = <<>>
    <3>1. Len(<<>>) = 0
      OBVIOUS
    <3>. HIDE DEF pieces, enc
    <3>2. QED
      BY <2>1, <2>2, <3>1, FlattenNothing, Zenon
  <2>4. 0 \in 0 .. n
    BY <1>1
  <2>5. QED
    BY <1>1, <2>3, <2>4
<1>7. n \in T
  <2>. HIDE DEF T
  <2>1. \A k \in 0 .. n : k \in T /\ k < n => k + 1 \in T
    BY <1>1, <1>5
  <2>2. \A k \in 0 .. n : k \in T
    BY <1>1, <1>6, <2>1, UpwardInduction
  <2>3. QED
    BY <1>1, <2>2
<1>8. FlattenSeq(pieces(Len(enc(n)))) = SubSeq(v, 1, n)
  BY <1>7
<1>9. enc(n) = bytes
  BY <1>1, Zenon
<1>10. FlattenSeq(pieces(Len(bytes))) = v
  <2>. HIDE DEF pieces, enc, bytes
  <2>1. QED
    BY <1>1, <1>8, <1>9, Zenon
<1>11. DecodedText(bytes) = FlattenSeq(pieces(Len(bytes)))
  <2>1. DOMAIN bytes = 1 .. Len(bytes)
    BY <1>1
  <2>2. QED
    BY <2>1 DEF DecodedText, PieceAt
<1>12. QED
  BY <1>10, <1>11

----------------------------------------------------------------------------
(* The bytes outside a range, and the text that is hashed.                   *)

LEMMA TwoPieces ==
  ASSUME NEW S, NEW p \in Seq(S), NEW q \in Seq(S)
  PROVE  FlattenSeq(<<p, q>>) = p \o q
<1>1. <<p>> \in Seq(Seq(S)) /\ <<q>> \in Seq(Seq(S)) /\ <<p, q>> = <<p>> \o <<q>>
  <2>1. <<p>> \in Seq(Seq(S)) /\ <<q>> \in Seq(Seq(S))
    OBVIOUS
  <2>2. QED
    BY <2>1, ConcatOfOne, Zenon
<1>2. FlattenSeq(<<p>> \o <<q>>) = FlattenSeq(<<p>>) \o FlattenSeq(<<q>>)
  BY <1>1, FlattenConcat
<1>3. FlattenSeq(<<p>>) = p /\ FlattenSeq(<<q>>) = q
  BY FlattenOne
<1>4. QED
  BY <1>1, <1>2, <1>3, Zenon

(* Removing the bytes of a code point leaves those of the text without it.   *)
LEMMA RemainingOfOne ==
  ASSUME NEW p \in Seq(Byte), NEW m \in Seq(Byte), NEW q \in Seq(Byte)
  PROVE  Remaining(p \o m \o q, <<<<Len(p), Len(m)>>>>) = p \o q
<1>. DEFINE bytes == p \o m \o q
            ranges == <<<<Len(p), Len(m)>>>>
            start(i) == IF i = 1 THEN 0 ELSE ranges[i - 1][1] + ranges[i - 1][2]
            upTo(i)   == IF i > Len(ranges) THEN Len(bytes) ELSE ranges[i][1]
            pieces == [i \in 1 .. Len(ranges) + 1 |-> SubSeq(bytes, start(i) + 1, upTo(i))]
<1>1. /\ Len(p) \in Nat /\ Len(m) \in Nat /\ Len(q) \in Nat /\ Len(ranges) = 1
      /\ ranges[1][1] = Len(p) /\ ranges[1][2] = Len(m)
  OBVIOUS
<1>2. /\ bytes \in Seq(Byte) /\ Len(bytes) = Len(p) + Len(m) + Len(q)
      /\ SubSeq(bytes, 1, Len(p)) = p
      /\ SubSeq(bytes, Len(p) + Len(m) + 1, Len(p) + Len(m) + Len(q)) = q
  <2>1. \A a, b \in Seq(Byte) : /\ a \o b \in Seq(Byte) /\ Len(a \o b) = Len(a) + Len(b)
                                /\ SubSeq(a \o b, 1, Len(a)) = a
                                /\ SubSeq(a \o b, Len(a) + 1, Len(a) + Len(b)) = b
    OBVIOUS
  <2>2. bytes = p \o (m \o q) /\ bytes = (p \o m) \o q
    BY ConcatAssociates
  <2>. HIDE DEF bytes
  <2>3. m \o q \in Seq(Byte) /\ p \o m \in Seq(Byte) /\ Len(m \o q) = Len(m) + Len(q)
          /\ Len(p \o m) = Len(p) + Len(m)
    BY <2>1
  <2>4. bytes \in Seq(Byte) /\ SubSeq(bytes, 1, Len(p)) = p
    BY <2>1, <2>2, <2>3
  <2>5. Len(bytes) = Len(p \o m) + Len(q)
          /\ SubSeq(bytes, Len(p \o m) + 1, Len(p \o m) + Len(q)) = q
    BY <2>1, <2>2, <2>3
  <2>6. QED
    BY <1>1, <2>3, <2>4, <2>5
<1>. HIDE DEF ranges, bytes
<1>3. pieces = <<p, q>>
  <2>. DEFINE piece(i) == SubSeq(bytes, start(i) + 1, upTo(i))
  <2>1. start(1) + 1 = 1 /\ upTo(1) = Len(p)
    BY <1>1
  <2>2. start(2) + 1 = Len(p) + Len(m) + 1 /\ upTo(2) = Len(p) + Len(m) + Len(q)
    <3>1. start(2) = ranges[2 - 1][1] + ranges[2 - 1][2] /\ 2 - 1 = 1
      OBVIOUS
    <3>2. upTo(2) = Len(bytes)
      BY <1>1
    <3>3. QED
      BY <1>1, <1>2, <3>1, <3>2
  <2>3. pieces = [i \in 1 .. 2 |-> piece(i)]
    BY <1>1
  <2>. HIDE DEF start, upTo
  <2>4. piece(1) = p /\ piece(2) = q
    BY <1>2, <2>1, <2>2, Zenon
  <2>. HIDE DEF piece, pieces
  <2>5. pieces = <<piece(1), piece(2)>>
    BY <2>3
  <2>6. QED
    BY <2>4, <2>5
<1>4. Remaining(bytes, ranges) = FlattenSeq(pieces)
  BY DEF Remaining
<1>5. QED
  BY <1>3, <1>4, TwoPieces DEF bytes, ranges

BoundBy(t, before, m, rest) ==
  BoundText(t, <<<<Len(Encoded(before)), Len(Encoded(m))>>>>)
    = IF TooManyNonstarters(rest) THEN {} ELSE {Nfc(rest)}

(* When just the bytes of a part of the text are excluded, the rest is       *)
(* decoded again, composed and hashed.                                       *)
LEMMA BoundOutside ==
  ASSUME NEW before \in Seq(CodePoint), NEW m \in Seq(CodePoint), NEW after \in Seq(CodePoint),
         NEW t, t = before \o m \o after, NEW rest, rest = before \o after
  PROVE  BoundBy(t, before, m, rest)
<1>. DEFINE rs == <<<<Len(Encoded(before)), Len(Encoded(m))>>>>
            bytes == Encoded(t)
<1>1. /\ Encoded(before) \in Seq(Byte) /\ Encoded(m) \in Seq(Byte) /\ Encoded(after) \in Seq(Byte)
      /\ before \o m \in Seq(CodePoint) /\ rest \in Seq(CodePoint)
  BY EncodedType
<1>2. bytes = Encoded(before) \o Encoded(m) \o Encoded(after)
  <2>1. Encoded((before \o m) \o after) = Encoded(before \o m) \o Encoded(after)
    BY <1>1, EncodedConcat
  <2>2. Encoded(before \o m) = Encoded(before) \o Encoded(m)
    BY EncodedConcat
  <2>3. QED
    BY ZenonT(60), <2>1, <2>2
<1>3. Remaining(bytes, rs) = Encoded(before) \o Encoded(after)
  <2>1. Remaining(Encoded(before) \o Encoded(m) \o Encoded(after), rs)
          = Encoded(before) \o Encoded(after)
    BY <1>1, RemainingOfOne, ZenonT(40)
  <2>2. QED
    BY <1>2, <2>1, ZenonT(40)
<1>4. Remaining(bytes, rs) = Encoded(rest)
  BY <1>1, <1>3, EncodedConcat, Zenon
<1>5. DecodedText(Encoded(rest)) = rest
  BY <1>1, DecodeEncoded
<1>. HIDE DEF rs, bytes
<1>6. Decoded(Remaining(bytes, rs)) = {rest}
  <2>1. Decoded(Remaining(bytes, rs)) = {u \in {rest} : Encoded(u) = Encoded(rest)}
    BY <1>4, <1>5, Zenon DEF Decoded
  <2>2. QED
    BY <2>1
<1>7. BoundText(t, rs) = {Nfc(u) : u \in {u \in {rest} : ~ TooManyNonstarters(u)}}
  <2>1. UNION {Decoded(left) : left \in {Remaining(bytes, rs)}} = Decoded(Remaining(bytes, rs))
    OBVIOUS
  <2>2. {Remaining(b, rs) : b \in {bytes}} = {Remaining(bytes, rs)}
    OBVIOUS
  <2>3. UNION {Decoded(left) : left \in {Remaining(b, rs) : b \in {bytes}}} = {rest}
    BY <1>6, <2>1, <2>2, Zenon
  <2>4. QED
    BY <2>3, Zenon DEF BoundText, bytes
<1>8. CASE TooManyNonstarters(rest)
  BY <1>7, <1>8 DEF rs, BoundBy
<1>9. CASE ~ TooManyNonstarters(rest)
  BY <1>7, <1>9 DEF rs, BoundBy
<1>10. QED
  BY <1>8, <1>9

(* Nothing but the text outside the only range is hashed, when that range is *)
(* a code point's.                                                           *)
LEMMA BoundOutsideOne ==
  ASSUME NEW before \in Seq(CodePoint), NEW c \in CodePoint, NEW after \in Seq(CodePoint),
         NEW bound \in BoundText(before \o <<c>> \o after,
                                 <<<<Len(Encoded(before)), Len(Encode(c))>>>>)
  PROVE  bound = Nfc(before \o after)
<1>1. PICK m \in Seq(CodePoint) : m = <<c>> /\ Encoded(m) = Encode(c)
  <2>1. <<c>> \in Seq(CodePoint)
    OBVIOUS
  <2>2. QED
    BY <2>1, EncodedOne, Zenon
<1>2. PICK t, rest : t = before \o m \o after /\ rest = before \o after
  BY Zenon
<1>3. BoundBy(t, before, m, rest)
  BY <1>2, BoundOutside, Zenon
<1>4. bound \in IF TooManyNonstarters(rest) THEN {} ELSE {Nfc(rest)}
  BY <1>1, <1>2, <1>3, Zenon DEF BoundBy
<1>5. QED
  BY <1>2, <1>4
=============================================================================
