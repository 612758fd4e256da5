---------------------------- MODULE ClaimSignature ----------------------------
(***************************************************************************)
(* What verify concludes from a claim signature, in the terms in which the   *)
(* module Verify has it: whether the COSE structure and the credential it    *)
(* carries are sound, what each certificate is, which key signed what.        *)
(***************************************************************************)
EXTENDS Sequences

(* _cose.parse, _check_algorithm, _load_chain, _accept_credential and        *)
(* _verify_signature.                                                        *)
SignatureIgnoresClaim(s, claim) ==                                \* defect
  IF claim.signature # "own box" THEN "claimSignature.missing"
  ELSE IF s.cose = "bad credential" THEN "signingCredential.invalid"
  ELSE IF s.cose = "bad structure" THEN "general.error"
  ELSE IF ~ s.algorithmAllowed THEN "algorithm.unsupported"
  ELSE IF \E i \in DOMAIN s.chain : ~ s.chain[i].readable \/ ~ s.chain[i].conforming
  THEN "signingCredential.invalid"
  ELSE IF s.key # s.chain[1].key THEN "claimSignature.mismatch"
  ELSE "claimSignature.validated"

SignatureStatus(s, claim) ==
  IF claim.signature # "own box" THEN "claimSignature.missing"
  ELSE IF s.cose = "bad credential" THEN "signingCredential.invalid"
  ELSE IF s.cose = "bad structure" THEN "general.error"
  ELSE IF ~ s.algorithmAllowed THEN "algorithm.unsupported"
  ELSE IF \E i \in DOMAIN s.chain : ~ s.chain[i].readable \/ ~ s.chain[i].conforming
  THEN "signingCredential.invalid"
  ELSE IF s.key # s.chain[1].key \/ s.over # claim THEN "claimSignature.mismatch"
  ELSE "claimSignature.validated"
=============================================================================
