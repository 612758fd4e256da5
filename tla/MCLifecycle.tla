------------------------------ MODULE MCLifecycle ------------------------------
(***************************************************************************)
(* An instance of Lifecycle: two marks and an edit between or after them, or  *)
(* a mark and two edits, with a chain, contexts and clocks that embed may      *)
(* refuse.                                                                    *)
(***************************************************************************)
EXTENDS Lifecycle

Cut == <<MARKER>> \o BytesToSelectors(MAGIC \o <<1, 0>>)

(* A text that composes and ends in a byte-order mark, and ones that            *)
(* embed refuses: a damaged wrapper, another producer's, two accents in a row, *)
(* a surrogate.                                                                *)
MCAuthored ==
  {<<Letter, Acute, MARKER>>, <<Letter, Acute, Acute>>,
   <<Letter>> \o Cut, BuildWrapper(<<9>>) \o <<Letter>>, <<Letter, 55296>>}

Period(from, to) == [from |-> from, to |-> to]

MCPaddings == {<<>>}

(* Other certificates than the signer's may be out of their time alone; a       *)
(* context may pin the time, or hold something that embed refuses.             *)
MCSigners == {<<Period(1, 3), Period(2, 2)>>}

PlainContext == [algorithm |-> "sha256", when |-> {}, representable |-> TRUE]
Pinned(t) == [PlainContext EXCEPT !.when = {t}]
MCContexts == {PlainContext, Pinned(2), [PlainContext EXCEPT !.algorithm = "md5"],
               [Pinned(1) EXCEPT !.representable = FALSE]}
=============================================================================
