------------------------------- MODULE MCLocate -------------------------------
(***************************************************************************)
(* Texts for checking Locate: every concatenation of two fragments, and of   *)
(* up to MaxFragments of most of them, so that genuine wrappers meet         *)
(* byte-order marks, cut or damaged wrappers, selectors of both widths, wide *)
(* code points and a surrogate in every order.                              *)
(***************************************************************************)
EXTENDS Locate

CONSTANT MaxFragments

Magic == BytesToSelectors(MAGIC)
Sel(bytes) == BytesToSelectors(bytes)

Fragments == {
  <<MARKER>>,                                           \* a byte-order mark
  <<MARKER>> \o SubSeq(Magic, 1, 4),                    \* a wrapper cut in its magic
  SubSeq(Magic, 5, 8) \o Sel(<<1, 0, 0, 0, 0>>),        \* ... and the rest of it
  BuildWrapper(<<>>),
  BuildWrapper(<<5>>),
  BuildWrapper(<<65, 0>>),                              \* the longest payload
  <<MARKER>> \o Magic \o Sel(<<1, 0>>),                 \* header truncated
  <<MARKER>> \o Magic \o Sel(<<2, 0, 0, 0, 0>>),        \* unsupported version
  <<MARKER>> \o Magic \o Sel(<<1, 0, 0, 0, 2>>),        \* payload missing, or next
  <<MARKER>> \o Magic \o Sel(<<1, 1, 0, 0, 0, 9, 9>>),  \* length over the limit
  Sel(<<200>>),
  <<97>>, <<233>>,                                      \* "a", e-acute
  <<55296>> }                                           \* a lone surrogate

(* Fragments that a third one beside them treats as it does another.          *)
Repeats == {BuildWrapper(<<5>>), <<MARKER>> \o Magic \o Sel(<<2, 0, 0, 0, 0>>), <<97>>, <<233>>}

MCTexts ==
  {FlattenSeq(fs) : fs \in BoundedSeq(Fragments, 2) \union BoundedSeq(Fragments \ Repeats, MaxFragments)}
=============================================================================
