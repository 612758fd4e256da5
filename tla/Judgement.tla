------------------------------- MODULE Judgement -------------------------------
(***************************************************************************)
(* What a Verdict promises (src/c2patxt/verdict.py), however verify comes   *)
(* to it: statuses are filed in three buckets and never withdrawn, a state   *)
(* is given once, and the statuses filed by then explain it.  Verify        *)
(* implements this specification.                                          *)
(***************************************************************************)
EXTENDS SequencesExt

VARIABLES
  provenance,                          \* "pending", then a Provenance
  success, informational, failure      \* the status codes, in order

vars == <<provenance, success, informational, failure>>

(* UNMARKED says nothing at all; INVALID names a failure other than a missing *)
(* trust anchor; TRUSTED names the anchor, VALID has neither.                 *)
Explains(p, good, note, bad) ==
  LET fatal == ToSet(bad) \ {"signingCredential.untrusted"}
      anchored == "signingCredential.trusted" \in ToSet(good)
  IN  CASE p = "UNMARKED" -> good \o note \o bad = <<>>
        [] p = "INVALID" -> fatal # {}
        [] p = "VALID" -> fatal = {} /\ good # <<>> /\ ~ anchored
        [] p = "TRUSTED" -> fatal = {} /\ anchored

Init == provenance = "pending" /\ success = <<>> /\ informational = <<>> /\ failure = <<>>

File ==
  /\ provenance = "pending"
  /\ IsPrefix(success, success') /\ IsPrefix(informational, informational')
  /\ IsPrefix(failure, failure')

Report == File /\ UNCHANGED provenance

Judge ==
  /\ File
  /\ provenance' \in {"UNMARKED", "INVALID", "VALID", "TRUSTED"}
  /\ Explains(provenance', success', informational', failure')

Next == Report \/ Judge

Spec == Init /\ [][Next]_vars
=============================================================================
