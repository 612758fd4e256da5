-------------------------------- MODULE Framing --------------------------------
(***************************************************************************)
(* What the wrappers of a text are, said without a scan, and what the three *)
(* public functions of src/c2patxt/_locate.py answer about them.  Calls is  *)
(* the specification built from these answers; Locate, the scan of the      *)
(* code, implements it, and Lifecycle uses the answers.                     *)
(***************************************************************************)
EXTENDS Selectors, SequencesExt

Unencodable(c) == c \in 55296 .. 57343            \* a lone surrogate

MarkersFrom(t, i) == {k \in i .. Len(t) - 1 : t[k + 1] = MARKER}

RunBetween(t, i, j) == \A k \in i + 1 .. j : t[k] \in Selectors

(* The run after the first `start` code points, up to MAX_SELECTOR_RUN.      *)
RunLength(t, start) ==
  Max({n \in 0 .. MAX_SELECTOR_RUN :
         start + n <= Len(t) /\ RunBetween(t, start, start + n)})

----------------------------------------------------------------------------
(* A wrapper: the code points that build_wrapper would emit for some payload  *)
(* the reader accepts.                                                       *)

WrapperAt(t, i, n) ==
  LET stop == i + 1 + HEADER_SIZE + n
      payload == [k \in 1 .. n |-> SelectorToByte(t[i + 1 + HEADER_SIZE + k])]
  IN  /\ t[i + 1] = MARKER
      /\ stop <= Len(t) /\ RunBetween(t, i + 1, stop)
      /\ SubSeq(t, i + 1, stop) = BuildWrapper(payload)

Wrappers(t) ==
  {w \in (0 .. Len(t) - 1) \X (0 .. MaxManifestLength) : WrapperAt(t, w[1], w[2])}

(* A marker followed by the magic that starts no wrapper.                    *)
CorruptCandidates(t) ==
  {i \in MarkersFrom(t, 0) :
     /\ i + 9 <= Len(t) /\ SubSeq(t, i + 2, i + 9) = BytesToSelectors(MAGIC)
     /\ \A n \in 0 .. MaxManifestLength : ~ WrapperAt(t, i, n)}

SpanOf(t, w) ==
  <<Utf8Length(SubSeq(t, 1, w[1])), Utf8Length(SubSeq(t, 1, w[1] + 1 + HEADER_SIZE + w[2]))>>

(* The spans, from left to right.                                            *)
SpansIn(t) ==
  LET all == Wrappers(t)
      startingAt(i) == {w \in all : w[1] = i}
  IN  FlattenSeq([k \in DOMAIN t |->
        IF startingAt(k - 1) = {} THEN <<>>
        ELSE <<SpanOf(t, CHOOSE w \in startingAt(k - 1) : TRUE)>>])

WithoutSelectors(t) ==                                            \* defect
  LET removed == UNION {w[1] + 2 .. w[1] + 1 + HEADER_SIZE + w[2] : w \in Wrappers(t)}
  IN  FlattenSeq([i \in DOMAIN t |-> IF i \in removed THEN <<>> ELSE <<t[i]>>])

(* The code points of the wrappers, counted from 1.                           *)
InWrappers(t) == UNION {w[1] + 1 .. w[1] + 1 + HEADER_SIZE + w[2] : w \in Wrappers(t)}

Without(t) ==
  LET removed == InWrappers(t)
  IN  FlattenSeq([i \in DOMAIN t |-> IF i \in removed THEN <<>> ELSE <<t[i]>>])

(* Where the first corrupt candidate may be reported: a code point boundary   *)
(* inside it and the run of selectors after it.                              *)
CorruptOffsets(t) ==
  LET first == Min(CorruptCandidates(t))
  IN  {Utf8Length(SubSeq(t, 1, j)) : j \in first + 1 .. first + 1 + RunLength(t, first + 1)}

(* What a text is refused with before it is read: one that UTF-8 cannot encode. *)
Refusals(t) ==
  LET bad == {k \in 0 .. Len(t) - 1 : Unencodable(t[k + 1])}
  IN  {[kind |-> "unencodable", at |-> k] : k \in {j \in bad : \A i \in bad : j <= i}}

(* What each function may answer, and raise, once it reads.                   *)
Answers(o, t) ==
  IF CorruptCandidates(t) # {} /\ (o = "strip" \/ Wrappers(t) = {})
  THEN {[kind |-> "corrupt", offset |-> n] : n \in CorruptOffsets(t)}
  ELSE CASE o = "find_wrappers" -> {[kind |-> "matches", spans |-> SpansIn(t)]}
         [] o = "locate" -> {IF Wrappers(t) = {} THEN [kind |-> "unmarked"]
                             ELSE [kind |-> "span", span |-> Head(SpansIn(t))]}
         [] o = "strip" -> {[kind |-> "text", text |-> Without(t)]}
=============================================================================
