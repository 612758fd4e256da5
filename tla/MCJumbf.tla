------------------------------- MODULE MCJumbf -------------------------------
(***************************************************************************)
(* Instances of Jumbf: data too short for a box, for a description, for a     *)
(* content box, for one and for two; an extended length anywhere; boxes that   *)
(* the writer lays out with every field a description may have.              *)
(***************************************************************************)
EXTENDS Jumbf

MCSizes == {0, 7, 8, 15, 33, 41, 57}
MCExtendedLengths == {2000000000}
MCPrivateLengths == {0, 9}

Of(toggles) == [toggles |-> toggles, label |-> 2, terminated |-> TRUE, good |-> TRUE]
MCDescriptions ==
  {Of(t) : t \in {{}, {"requestable"}, {"requestable", "label"}, {"label", "id"}, {"private"},
                  {"label", "private"}, {"label", "reserved"}, {"signature"}}}
  \cup {[Of({"label"}) EXCEPT !.terminated = FALSE], [Of({"label"}) EXCEPT !.good = FALSE],
        [Of({"requestable", "label"}) EXCEPT !.label = 0]}

Content(tbox, length) == [tbox |-> tbox, length |-> length]

MCWritten ==
  {[description |-> Of(t), private |-> p, contents |-> c] :
     t \in {t \in SUBSET (Toggles \ {"reserved"}) : "requestable" \in t => "label" \in t},
     p \in MCPrivateLengths,
     c \in {<<Content("other", 0)>>, <<Content("other", 3), Content("jumb", 40)>>,
            <<Content("jumb", 33), Content("jumb", 0), Content("other", 1)>>}}
=============================================================================
