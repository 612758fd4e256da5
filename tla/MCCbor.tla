-------------------------------- MODULE MCCbor --------------------------------
(***************************************************************************)
(* Instances of Cbor: short inputs over most kinds of first byte, and longer   *)
(* ones over the few that make maps and nesting.                             *)
(***************************************************************************)
EXTENDS Cbor

(* 0, 1, 23, integers of one and two bytes, a reserved head, -1; strings of    *)
(* both types, empty, of one byte, indefinite; arrays, maps and tags; simple    *)
(* values, floats, break; bytes of two-byte characters and of a NaN.          *)
Bytes ==
  {0, 1, 23, 24, 25, 28, 32, 64, 65, 95, 97, 127, 129, 130, 161, 162, 159, 191, 193, 194, 210,
   224, 245, 248, 249, 126, 255}

MapBytes == {0, 24, 64, 129, 159, 161, 162, 191, 255}

MCSources == {[bytes |-> Bytes, limit |-> 4], [bytes |-> MapBytes, limit |-> 6]}
=============================================================================
