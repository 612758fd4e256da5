-------------------------------- MODULE Locate --------------------------------
(***************************************************************************)
(* src/c2patxt/_locate.py: the scan for wrappers that every public call    *)
(* starts with, and the three calls built directly on it, find_wrappers,   *)
(* locate and strip.                                                       *)
(*                                                                         *)
(* One step of the scan is one turn of the while loop of _scan_wrappers.   *)
(* Between calls the caller holds `text`; after strip it may go on with    *)
(* the text strip returned, at most MaxCalls times.                        *)
(***************************************************************************)
EXTENDS Framing

CONSTANTS
  Texts,       \* the texts a caller may hold at first
  MaxCalls     \* bound on the number of calls of one caller

ASSUME TextsAssumption == Texts \subseteq Seq(CodePoint)
ASSUME MaxCallsAssumption == MaxCalls \in Nat \ {0}

VARIABLES
  text,         \* the text in the caller's hands, the argument of the call
  op,           \* the public function running, or run last
  pc,           \* "caller" between calls, "scan" inside the loop
  index,        \* index: code points before it are done with
  consumed,     \* consumed_index
  prefixBytes,  \* prefix_bytes: UTF-8 bytes of text[:consumed_index]
  matches,      \* matches, each with its code point index `at`
  corrupt,      \* the first MarkCorruptError met: a set of at most one
  outcome,      \* what the last call returned or raised
  calls         \* calls begun so far

scanVars == <<index, consumed, prefixBytes, matches, corrupt>>
vars == <<text, op, pc, scanVars, outcome, calls>>

Operations == {"find_wrappers", "locate", "strip"}

----------------------------------------------------------------------------
(* Helpers of the scan.                                                     *)

DecodeRun(t, start) ==
  [k \in 1 .. RunLength(t, start) |-> SelectorToByte(t[start + k])]

WrapperChars(payload) == 1 + HEADER_SIZE + Len(payload)

----------------------------------------------------------------------------
(* The splice of strip.  Code point i of a text occupies the UTF-8 bytes     *)
(* BytesOf(t, i); the bytes outside the spans are kept, and they decode if   *)
(* they cut no code point in two.                                            *)

BytesOf(t, i) ==
  Utf8Length(SubSeq(t, 1, i - 1)) .. Utf8Length(SubSeq(t, 1, i)) - 1

KeptBytesKeepMarkers(t, ms) ==                                    \* defect
  (0 .. Utf8Length(t) - 1)
    \ UNION {ms[i].start + 3 .. ms[i].stop - 1 : i \in 1 .. Len(ms)}

KeptBytes(t, ms) ==
  LET cursor(i) == IF i = 1 THEN 0 ELSE ms[i - 1].stop
      upTo(i)   == IF i > Len(ms) THEN Utf8Length(t) ELSE ms[i].start
  IN  UNION {cursor(i) .. upTo(i) - 1 : i \in 1 .. Len(ms) + 1}

CutsCodePoint(t, bytes) ==
  \E i \in 1 .. Len(t) : BytesOf(t, i) \cap bytes \notin {{}, BytesOf(t, i)}

Decode(t, bytes) ==
  FlattenSeq([i \in DOMAIN t |-> IF BytesOf(t, i) \subseteq bytes THEN <<t[i]>> ELSE <<>>])

----------------------------------------------------------------------------
Init ==
  /\ text \in Texts
  /\ op = "find_wrappers"
  /\ pc = "caller"
  /\ index = 0 /\ consumed = 0 /\ prefixBytes = 0
  /\ matches = <<>> /\ corrupt = {}
  /\ outcome = [kind |-> "none"]
  /\ calls = 0

(* Entry of a public call.  require_encodable is its first act.             *)
Begin(o, t) ==
  /\ pc = "caller" /\ calls < MaxCalls
  /\ op' = o /\ text' = t /\ calls' = calls + 1
  /\ index' = 0 /\ consumed' = 0 /\ prefixBytes' = 0
  /\ matches' = <<>> /\ corrupt' = {}
  /\ LET bad == {k \in 0 .. Len(t) - 1 : Unencodable(t[k + 1])}
     IN  IF bad = {}
         THEN pc' = "scan" /\ outcome' = [kind |-> "none"]
         ELSE pc' = "caller" /\ outcome' = [kind |-> "unencodable", at |-> Min(bad)]

Call == \E o \in Operations : Begin(o, text)

(* The caller goes on with the text that strip returned.                    *)
CallOnStripped ==
  /\ outcome.kind = "text"
  /\ \E o \in Operations : Begin(o, outcome.text)

----------------------------------------------------------------------------
(* One turn of the loop: `found` is the next marker, `run` the bytes of the *)
(* selectors after it and `at` the document byte where the marker starts.   *)

NextMarker == {i \in MarkersFrom(text, index) : \A j \in index .. i - 1 : text[j + 1] # MARKER}
RunAfter(found) == DecodeRun(text, found + 1)
BytesBeforeSkipsMarkers(found) ==                                 \* defect
  prefixBytes + Utf8Length(SubSeq(text, index + 1, found))
BytesBefore(found) == prefixBytes + Utf8Length(SubSeq(text, consumed + 1, found))

Visit(found, at) ==
  /\ consumed' = found /\ prefixBytes' = at
  /\ UNCHANGED <<text, op, pc, outcome, calls>>

(* The magic does not match, or the run is too short to hold it.             *)
SkipStaysOnMarker(found, run, at) ==                              \* defect
  /\ ~ HasMagic(run)
  /\ Visit(found, at)
  /\ index' = found
  /\ UNCHANGED <<matches, corrupt>>

SkipCandidate(found, run, at) ==
  /\ ~ HasMagic(run)
  /\ Visit(found, at)
  /\ index' = found + 1
  /\ UNCHANGED <<matches, corrupt>>

RememberEveryCorrupt(found, run, at) ==                           \* defect
  /\ HasMagic(run) /\ ~ BodyIntact(run)
  /\ Visit(found, at)
  /\ index' = found + 1
  /\ corrupt' = corrupt \cup {[offset |-> CorruptionOffset(run, at + 3),
                               documentLength |-> Utf8Length(text)]}
  /\ UNCHANGED matches

RememberCorrupt(found, run, at) ==
  /\ HasMagic(run) /\ ~ BodyIntact(run)
  /\ Visit(found, at)
  /\ index' = found + 1
  /\ corrupt' = IF corrupt = {}
                THEN {[offset |-> CorruptionOffset(run, at + 3),
                       documentLength |-> Utf8Length(text)]}
                ELSE corrupt
  /\ UNCHANGED matches

AcceptWrapper(found, run, at) ==
  /\ HasMagic(run) /\ BodyIntact(run)
  /\ Visit(found, at)
  /\ \E payload \in {WrapperPayload(run)} :
       LET after == found + WrapperChars(payload)
       IN  /\ matches' = Append(matches,
                [at |-> found, payload |-> payload, start |-> at,
                 stop |-> at + Utf8Length(SubSeq(text, found + 1, after))])
           /\ index' = after
  /\ UNCHANGED corrupt

Turn ==
  /\ pc = "scan"
  /\ \E found \in NextMarker :
       \E run \in {RunAfter(found)}, at \in {BytesBefore(found)} :
         \/ SkipCandidate(found, run, at)
         \/ RememberCorrupt(found, run, at)
         \/ AcceptWrapper(found, run, at)

----------------------------------------------------------------------------
(* No marker is left: the call applies its own policy to what was found.     *)

ScanOver == pc = "scan" /\ NextMarker = {}

Raise(error) == [kind |-> "corrupt", offset |-> error.offset]

FindWrappersFailsOnDecoy ==                                       \* defect
  IF corrupt # {}
  THEN Raise(CHOOSE e \in corrupt : TRUE)
  ELSE [kind |-> "matches", spans |-> [i \in 1 .. Len(matches) |->
          <<matches[i].start, matches[i].stop>>]]

FindWrappersOutcome ==
  IF matches = <<>> /\ corrupt # {}
  THEN Raise(CHOOSE e \in corrupt : TRUE)
  ELSE [kind |-> "matches", spans |-> [i \in 1 .. Len(matches) |->
          <<matches[i].start, matches[i].stop>>]]

LocateTakesLast ==                                                \* defect
  IF FindWrappersOutcome.kind = "corrupt" THEN FindWrappersOutcome
  ELSE IF matches = <<>> THEN [kind |-> "unmarked"]
  ELSE [kind |-> "span", span |-> <<matches[Len(matches)].start, matches[Len(matches)].stop>>]

LocateOutcome ==
  IF FindWrappersOutcome.kind = "corrupt" THEN FindWrappersOutcome
  ELSE IF matches = <<>> THEN [kind |-> "unmarked"]
  ELSE [kind |-> "span", span |-> <<matches[1].start, matches[1].stop>>]

StripToleratesDecoy ==                                            \* defect
  IF matches = <<>> /\ corrupt # {} THEN Raise(CHOOSE e \in corrupt : TRUE)
  ELSE [kind |-> "text", text |-> Decode(text, KeptBytes(text, matches))]

StripRemovesFirstOnly ==                                          \* defect
  LET first == SubSeq(matches, 1, IF matches = <<>> THEN 0 ELSE 1)
  IN  IF corrupt # {} THEN Raise(CHOOSE e \in corrupt : TRUE)
      ELSE [kind |-> "text", text |-> Decode(text, KeptBytes(text, first))]

StripOutcome ==
  LET kept == KeptBytes(text, matches)
  IN  IF corrupt # {} THEN Raise(CHOOSE e \in corrupt : TRUE)
      ELSE IF matches = <<>> THEN [kind |-> "text", text |-> text]
      ELSE IF CutsCodePoint(text, kept) THEN [kind |-> "decode_error"]
      ELSE [kind |-> "text", text |-> Decode(text, kept)]

Return ==
  /\ ScanOver
  /\ pc' = "caller"
  /\ outcome' = CASE op = "find_wrappers" -> FindWrappersOutcome
                  [] op = "locate" -> LocateOutcome
                  [] op = "strip" -> StripOutcome
  /\ UNCHANGED <<text, op, scanVars, calls>>

ScanStep == Turn \/ Return

Next == Call \/ CallOnStripped \/ ScanStep

(* A call runs to its end in the caller's thread; the caller need not call.  *)
Spec == Init /\ [][Next]_vars
FairSpec == Spec /\ WF_vars(ScanStep)

----------------------------------------------------------------------------
Returned == pc = "caller" /\ outcome.kind \notin {"none", "unencodable"}

----------------------------------------------------------------------------
(* Properties.                                                               *)

(* Every variable of the scan keeps its type; at most one error is kept.     *)
TypeOK ==
  /\ text \in Seq(CodePoint) /\ op \in Operations /\ pc \in {"caller", "scan"}
  /\ index \in 0 .. Len(text) /\ consumed \in 0 .. index /\ prefixBytes \in Nat
  /\ matches \in Seq([at : Nat, payload : Seq(Byte), start : Nat, stop : Nat])
  /\ corrupt \in SUBSET [offset : Nat, documentLength : Nat]
  /\ \A e, f \in corrupt : e = f
  /\ outcome.kind = "text" => outcome.text \in Seq(CodePoint)
  /\ calls \in 0 .. MaxCalls

(* The scan of _scan_wrappers is exact at every turn: the wrappers it holds   *)
(* are all the wrappers that start before `index`, whatever decoys, partial   *)
(* magics and long selector runs surround them, and in the end all there are. *)
ScanFindsEveryWrapper ==
  LET held == {<<matches[i].at, Len(matches[i].payload)>> : i \in DOMAIN matches}
  IN  /\ pc = "scan" => held = {w \in Wrappers(text) : w[1] < index}
      /\ Returned => held = Wrappers(text)

(* A Span indexes the UTF-8 bytes of the text as stored and ends where the    *)
(* declared length says, never at the end of the selector run.                *)
SpansAreWrapperBytes ==
  \A i \in DOMAIN matches :
    LET m == matches[i]
    IN  /\ m.start = Utf8Length(SubSeq(text, 1, m.at))
        /\ m.stop = m.start + Utf8Length(BuildWrapper(m.payload))

(* find_wrappers and locate fail on a corrupt candidate only when the text    *)
(* holds no genuine wrapper at all.                                           *)
DecoyCannotHideWrapper ==
  Returned /\ op # "strip" =>
    (outcome.kind = "corrupt" <=> Wrappers(text) = {} /\ CorruptCandidates(text) # {})

(* strip returns text exactly when the text holds no candidate of unknown     *)
(* extent, even beside genuine wrappers.                                      *)
StripRefusesUnknownExtent ==
  Returned /\ op = "strip" =>
    (outcome.kind = "corrupt" <=> CorruptCandidates(text) # {})

(* Where each removed wrapper was, in code points of the stripped text.       *)
Seams(t) ==
  LET removed == InWrappers(t)
  IN  {Cardinality({k \in 1 .. w[1] : k \notin removed}) : w \in Wrappers(t)}

(* One pass of strip can leave a wrapper only by joining its two halves        *)
(* across the place of a wrapper it removed.                                  *)
RemainingWrapperStraddlesSeam ==
  Returned /\ op = "strip" /\ outcome.kind = "text" =>
    \A w \in Wrappers(outcome.text) :
      \E s \in Seams(text) : w[1] < s /\ s < w[1] + 14 + w[2]

(* What the docstring of strip promises: "text with every Content Credential  *)
(* removed".                                                                  *)
StripLeavesNoWrapper ==
  Returned /\ op = "strip" /\ outcome.kind = "text" => Wrappers(outcome.text) = {}

(* A caller sees calls that answer at once, from what wrappers are in the text: *)
(* the scan, its order and its arithmetic show in nothing.                    *)
Service == INSTANCE Calls WITH
  argument <- text, operation <- op, running <- pc = "scan", answer <- outcome

ScanServesCalls == Service!Spec

(* Every call returns or raises: each turn of the loop moves past a marker.   *)
EveryCallReturns == pc = "scan" ~> pc = "caller"
=============================================================================
