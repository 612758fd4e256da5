------------------------------- MODULE Fixpoint -------------------------------
(***************************************************************************)
(* src/c2patxt/_fixpoint.py: the search for a wrapper that is as long, in   *)
(* UTF-8, as the exclusion range it declares, with the wrapper that embed   *)
(* (_embed.py) builds for it.                                              *)
(*                                                                          *)
(* A wrapper is represented by what its length depends on.  Everything in   *)
(* it is fixed by the caller's inputs except the exclusion length, a CBOR   *)
(* integer; the digest over the assertion that holds it and the signature   *)
(* over the claim that holds the digest, whose bytes are arbitrary; the     *)
(* zero bytes of the COSE pad; and the 32-bit lengths of what encloses them.*)
(***************************************************************************)
EXTENDS Selectors

CONSTANTS
  Frames,      \* the fixed parts of the wrappers that embed may be building
  Opaque       \* UTF-8 bytes the digest and the signature may cost above 3 a byte

LargestLength == 16000000

(* A wrapper is never shorter than 256 bytes, digest and signature have at   *)
(* most 64 bytes each, and a manifest of 2^24 bytes is out of the question.  *)
Frame == [fixed : {n \in Nat : n >= 256}, store : LengthRange, manifest : LengthRange,
          assertions : LengthRange, dataHash : LengthRange, dataHashContent : LengthRange,
          signature : LengthRange, signatureContent : LengthRange]
Lengths == {"store", "manifest", "assertions", "dataHash", "dataHashContent",
            "signature", "signatureContent"}

ASSUME FramesAssumption ==
  /\ Frames \subseteq Frame
  /\ \A f \in Frames, l \in Lengths : f[l] <= LargestLength
ASSUME OpaqueAssumption == Opaque \subseteq 0 .. 128

VARIABLES
  frame,       \* the caller's inputs
  pc,          \* where solve stands
  base,        \* the first declared length to try
  target,      \* the declared length being tried
  opaque,      \* the digest and signature of the candidate prepared last
  pad, stop,   \* the next pad to try, and the last of the window
  prepares,    \* candidates prepared and signed
  trials       \* wrappers built for the candidate prepared last

vars == <<frame, pc, base, target, opaque, pad, stop, prepares, trials>>

----------------------------------------------------------------------------
(* The tuning constants of the search.                                       *)

SLACK == 12
MAX_TARGETS == 32
MAX_PAD == 60
BYTES_PER_ZERO == 3
WindowOfOne == 1                                                  \* defect
WINDOW == 4

----------------------------------------------------------------------------
(* The UTF-8 length of a wrapper.                                            *)

(* CBOR heads (_cbor._head): of an unsigned integer, bytes after the first.  *)
HeadTail(n) == IF n < 24 THEN 0 ELSE IF n < 256 THEN 1 ELSE IF n < 65536 THEN 2 ELSE 4

IntegerCost(n) ==
  CASE HeadTail(n) = 0 -> SelectorCost(n)
    [] HeadTail(n) = 1 -> 4 + SelectorCost(n)
    [] HeadTail(n) = 2 -> 4 + SelectorCost(n \div 256) + SelectorCost(n % 256)
    [] OTHER -> 4 + SelectorCost(n \div 16777216) + SelectorCost((n \div 65536) % 256)
                  + SelectorCost((n \div 256) % 256) + SelectorCost(n % 256)

(* A byte string of zeros: its head (first byte at least 64) and its bytes.  *)
Pads == 0 .. 255
PadGrowth(p) == p + HeadTail(p)
PadCost(p) == 4 + 4 * HeadTail(p) + 3 * p

FieldCost(n) ==
  SelectorCost(n \div 16777216) + SelectorCost((n \div 65536) % 256)
    + SelectorCost((n \div 256) % 256) + SelectorCost(n % 256)

(* The box of the manifest store is the wrapper's payload: its length is     *)
(* written twice, as LBox and as manifestLength.                             *)
PayloadLength(f, declared, p) == f.store + HeadTail(declared) + PadGrowth(p)

WrapperLength(f, declared, o, p) ==
  LET w == HeadTail(declared)
      g == PadGrowth(p)
  IN  f.fixed + o + IntegerCost(declared) + PadCost(p)
        + 2 * FieldCost(f.store + w + g) + FieldCost(f.manifest + w + g)
        + FieldCost(f.assertions + w) + FieldCost(f.dataHash + w)
        + FieldCost(f.dataHashContent + w)
        + FieldCost(f.signature + g) + FieldCost(f.signatureContent + g)

(* build_wrapper raises on a payload that a reader would refuse.             *)
TooLong(f, declared, p) == PayloadLength(f, declared, p) > MaxManifestLength

Length(p) == WrapperLength(frame, target, opaque, p)

----------------------------------------------------------------------------
Init ==
  /\ frame \in Frames
  /\ pc = "probe"
  /\ base = 0 /\ target = 0 /\ opaque = 0 /\ pad = 0 /\ stop = 0
  /\ prepares = 0 /\ trials = 0

Refuse == pc' = "refused" /\ UNCHANGED <<frame, base, target, opaque, pad, stop>>

(* solve: the zero probe sets where the targets start.                       *)
Probe ==
  /\ pc = "probe"
  /\ prepares' = 1 /\ trials' = 1
  /\ \/ TooLong(frame, 0, 0) /\ Refuse
     \/ /\ ~ TooLong(frame, 0, 0)
        /\ \E o \in Opaque : base' = WrapperLength(frame, 0, o, 0) + SLACK
        /\ target' = base'
        /\ pc' = "prepare"
        /\ UNCHANGED <<frame, opaque, pad, stop>>

(* The next target: another claim, another digest, another signature.        *)

PrepareOneMore ==                                                 \* defect
  /\ pc = "prepare" /\ target <= base + MAX_TARGETS
  /\ opaque' \in Opaque
  /\ prepares' = prepares + 1
  /\ trials' = 0 /\ pc' = "baseline"
  /\ UNCHANGED <<frame, base, target, pad, stop>>

Prepare ==
  /\ pc = "prepare" /\ target < base + MAX_TARGETS
  /\ opaque' \in Opaque
  /\ prepares' = prepares + 1
  /\ trials' = 0 /\ pc' = "baseline"
  /\ UNCHANGED <<frame, base, target, pad, stop>>

(* FixpointError.                                                            *)
GiveUpReturnsLastTry ==                                           \* defect
  /\ pc = "prepare" /\ target >= base + MAX_TARGETS
  /\ pc' = "done"
  /\ UNCHANGED <<frame, base, target, opaque, pad, stop, prepares, trials>>

GiveUp ==
  /\ pc = "prepare" /\ target >= base + MAX_TARGETS
  /\ pc' = "failed"
  /\ UNCHANGED <<frame, base, target, opaque, pad, stop, prepares, trials>>

(* _try_padding: without padding, then the window around the estimate.       *)
Estimate == IF target > Length(0) THEN (target - Length(0)) \div BYTES_PER_ZERO ELSE 0

(* The window: pad 0 is the baseline and is skipped.                         *)
FirstPad == IF Estimate > WINDOW THEN Estimate - WINDOW ELSE 1
LastPad  == IF Estimate + WINDOW < MAX_PAD THEN Estimate + WINDOW ELSE MAX_PAD

BaselineTakesShorter ==                                           \* defect
  /\ pc = "baseline"
  /\ trials' = trials + 1 /\ UNCHANGED prepares
  /\ \/ TooLong(frame, target, 0) /\ Refuse
     \/ /\ ~ TooLong(frame, target, 0) /\ Length(0) <= target
        /\ pc' = "done" /\ pad' = 0
        /\ UNCHANGED <<frame, base, target, opaque, stop>>
     \/ /\ ~ TooLong(frame, target, 0) /\ Length(0) > target
        /\ pad' = 1 /\ stop' = WINDOW /\ pc' = "pads"
        /\ UNCHANGED <<frame, base, target, opaque>>

Baseline ==
  /\ pc = "baseline"
  /\ trials' = trials + 1 /\ UNCHANGED prepares
  /\ \/ TooLong(frame, target, 0) /\ Refuse
     \/ /\ ~ TooLong(frame, target, 0) /\ Length(0) = target
        /\ pc' = "done" /\ pad' = 0
        /\ UNCHANGED <<frame, base, target, opaque, stop>>
     \/ /\ ~ TooLong(frame, target, 0) /\ Length(0) # target
        /\ pad' = FirstPad /\ stop' = LastPad /\ pc' = "pads"
        /\ UNCHANGED <<frame, base, target, opaque>>

TryPadAgain ==                                                    \* defect
  /\ pc = "pads" /\ pad <= stop
  /\ UNCHANGED <<frame, base, target, opaque, stop, prepares, trials>>
  /\ IF Length(pad) = target
     THEN pc' = "done" /\ UNCHANGED pad
     ELSE /\ pad' = IF Length(pad) > target /\ pad > 0 THEN pad - 1 ELSE pad + 1
          /\ UNCHANGED pc

TryPad ==
  /\ pc = "pads" /\ pad <= stop
  /\ trials' = trials + 1 /\ UNCHANGED prepares
  /\ \/ TooLong(frame, target, pad) /\ Refuse
     \/ /\ ~ TooLong(frame, target, pad) /\ Length(pad) = target
        /\ pc' = "done"
        /\ UNCHANGED <<frame, base, target, opaque, pad, stop>>
     \/ /\ ~ TooLong(frame, target, pad) /\ Length(pad) # target
        /\ pad' = pad + 1
        /\ UNCHANGED <<frame, pc, base, target, opaque, stop>>

NextTarget ==
  /\ pc = "pads" /\ pad > stop
  /\ target' = target + 1 /\ pc' = "prepare"
  /\ opaque' = 0 /\ pad' = 0 /\ stop' = 0 /\ trials' = 0
  /\ UNCHANGED <<frame, base, prepares>>

Step == Probe \/ Prepare \/ GiveUp \/ Baseline \/ TryPad \/ NextTarget

Returned == pc \in {"done", "failed", "refused"}

Next == Step

(* solve runs to its end in the caller's thread.                             *)
Spec == Init /\ [][Next]_vars
FairSpec == Spec /\ WF_vars(Step)

----------------------------------------------------------------------------
(* Properties.                                                               *)

(* The counters stay in the ranges the search gives them.                    *)
TypeOK ==
  /\ frame \in Frames /\ opaque \in Opaque \cup {0}
  /\ pc \in {"probe", "prepare", "baseline", "pads", "done", "failed", "refused"}
  /\ base \in Nat
  /\ pc = "probe" => target = 0
  /\ pc \in {"prepare", "failed"} => target \in base .. base + MAX_TARGETS
  /\ pc \in {"baseline", "pads", "done"} => target \in base .. base + MAX_TARGETS - 1
  /\ pad \in 0 .. MAX_PAD + 1 /\ stop \in 0 .. MAX_PAD
  /\ prepares \in Nat /\ trials \in Nat

(* solve returns a wrapper only if its UTF-8 length is the exclusion length  *)
(* its own manifest declares, and only within the size readers accept.       *)
DeclaredLengthIsExact ==
  pc = "done" => Length(pad) = target /\ ~ TooLong(frame, target, pad)

(* The window around the estimate loses nothing: no pad of any size that     *)
(* would hit the target lies outside it or is passed over inside it, so a    *)
(* target is only dropped when no pad fits it, and the pad is the shortest.  *)
NoFittingPadIsMissed ==
  /\ pc = "pads" => \A p \in Pads : p < pad \/ p > stop => Length(p) # target
  /\ pc = "done" => \A p \in 0 .. pad - 1 : Length(p) # target

(* The growth a target asks of the pad stays below that of pad 61, so the    *)
(* cap of 60 never cuts a fitting pad off (comment on _MAX_PAD).             *)
GrowthStaysUnderCap ==
  pc \in {"baseline", "pads"} => target - Length(0) <= 176

(* At most 33 candidates are prepared and signed, and at most 10 wrappers    *)
(* built of each.                                                            *)
WorkIsBounded == prepares <= 33 /\ trials <= 10

(* solve returns or raises: it never loops.                                  *)
SolveReturns == <>Returned

(* All that a caller of solve sees is one answer: everything the search does   *)
(* before is invisible, no answer is taken back, and a wrapper among the       *)
(* answers has the length it declares and a payload that readers accept.       *)
Promise == INSTANCE Search WITH
  MaxPayload <- MaxManifestLength,
  phase    <- IF pc = "done" THEN "found" ELSE IF Returned THEN pc ELSE "searching",
  declared <- IF pc = "done" THEN target ELSE 0,
  length   <- IF pc = "done" THEN Length(pad) ELSE 0,
  payload  <- IF pc = "done" THEN PayloadLength(frame, target, pad) ELSE 0

SolveKeepsPromise == Promise!Spec
=============================================================================
