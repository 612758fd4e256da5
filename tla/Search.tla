-------------------------------- MODULE Search --------------------------------
(***************************************************************************)
(* What solve of src/c2patxt/_fixpoint.py promises embed, whatever it does  *)
(* to keep the promise: one answer, and if that answer is a wrapper, one    *)
(* that is as long as it declares and not longer than a reader accepts.     *)
(* Fixpoint implements this specification, and Lifecycle embeds by it.      *)
(***************************************************************************)
EXTENDS Integers

CONSTANT MaxPayload      \* MAX_MANIFEST_LENGTH

VARIABLES
  phase,         \* "searching", then the kind of the answer
  declared,      \* the exclusion length that the wrapper's manifest declares
  length,        \* the UTF-8 length of the wrapper
  payload        \* the bytes of its payload

vars == <<phase, declared, length, payload>>

Init == phase = "searching" /\ declared = 0 /\ length = 0 /\ payload = 0

(* The wrapper that solve returns.                                           *)
Find ==
  /\ phase = "searching" /\ phase' = "found"
  /\ payload' \in {n \in Nat : n <= MaxPayload}
  /\ length' \in Nat /\ declared' = length'

(* FixpointError, or the ValueError of build_wrapper.                        *)
Fail ==
  /\ phase = "searching" /\ phase' \in {"failed", "refused"}
  /\ UNCHANGED <<declared, length, payload>>

Next == Find \/ Fail

Spec == Init /\ [][Next]_vars
FairSpec == Spec /\ WF_vars(Next)
=============================================================================
