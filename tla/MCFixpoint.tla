------------------------------ MODULE MCFixpoint ------------------------------
(* Small instances of Fixpoint.                                              *)
EXTENDS Fixpoint

(* The boxes of one embed: a description box of 40 bytes and a header of 8   *)
(* around the data hash and around the signature, 38 around the manifest.    *)
FrameOf(signatureContent, assertions, dataHashContent, fixed) ==
  LET manifest == assertions + signatureContent + 48 + 700
  IN  [fixed |-> fixed, store |-> manifest + 38, manifest |-> manifest,
       assertions |-> assertions, dataHash |-> dataHashContent + 48,
       dataHashContent |-> dataHashContent,
       signature |-> signatureContent + 48, signatureContent |-> signatureContent]

(* Lengths just below a change of their second or third byte, and far off    *)
(* any; one frame whose padding reaches MAX_MANIFEST_LENGTH, one that is     *)
(* past it from the start.                                                   *)
MCFrames ==
  {FrameOf(700, 900, 120, 8300), FrameOf(740, 1000, 249, 8191),
   FrameOf(970, 1018, 216, 9984), FrameOf(65470, 65260, 120, 462000),
   FrameOf(751, 1010, 206, 3330), FrameOf(723, 798, 131, 65400),
   FrameOf(200, 138700, 120, 520000), FrameOf(200, 139000, 120, 520000)}

MCOpaque == {0, 2, 65, 128}

MCMaxManifestLength == 139700
=============================================================================
