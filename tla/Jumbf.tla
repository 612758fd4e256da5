-------------------------------- MODULE Jumbf --------------------------------
(***************************************************************************)
(* parse_superbox in src/c2patxt/_jumbf.py, on bytes that nobody vouches for, *)
(* and the layout that serialize_superbox writes.                            *)
(*                                                                           *)
(* Only the bytes that steer the parser are modelled: box headers, read at   *)
(* offsets that the parser arrives at, and the fields of the description.    *)
(* What a header says is chosen when it is read, unless the writer laid it out *)
(* (`known`).  That is sound only while no byte is read in two headers;      *)
(* HeadersNeverOverlap says so, and why it could fail.                       *)
(***************************************************************************)
EXTENDS SequencesExt

CONSTANTS
  Sizes,          \* lengths of the data
  ExtendedLengths,\* values of XLBox to meet beyond the length of the data
  Descriptions,   \* what a description may hold
  Written         \* boxes that serialize_superbox writes, and parses back

BOX_HEADER_SIZE == 8
XLBOX_SIZE == 8
UUID_SIZE == 16
ID_SIZE == 4
HASH_SIZE == 32
LBOX_RESERVED_MAX == 7

ASSUME JumbfAssumption ==
  /\ Sizes \subseteq Nat /\ ExtendedLengths \subseteq Nat
  /\ \A d \in Descriptions : d.label \in Nat

VARIABLES
  size,           \* bytes of data
  known,          \* headers by offset: [lbox, tbox, xlbox]
  fields,         \* the description as written: a set of at most one
  phase,          \* "outer", "description", "content", "accepted", "failed"
  offset, end,
  reads,          \* the bytes that headers were read from: [from, upto]
  description,    \* a set of at most one
  children        \* the content boxes: [tbox, start, payload, stop]

box == <<size, known, fields>>
parserVars == <<box, phase, offset, end, reads, description, children>>

----------------------------------------------------------------------------
(* Descriptions: the toggle bits and the lengths of the fields they announce.  *)
(* label is the length of the text, terminated whether a NUL ends it, good   *)
(* whether it is UTF-8 without forbidden characters.                         *)

Toggles == {"requestable", "label", "id", "signature", "private", "reserved"}

FieldsLength(d) ==
  UUID_SIZE + 1
    + (IF "label" \in d.toggles THEN d.label + 1 ELSE 0)
    + (IF "id" \in d.toggles THEN ID_SIZE ELSE 0)
    + (IF "signature" \in d.toggles THEN HASH_SIZE ELSE 0)

(* _parse_description and DescriptionBox.__post_init__, on a payload of so   *)
(* many bytes.                                                               *)
TrailingBytesPass(d, length) ==                                   \* defect
  /\ length >= UUID_SIZE + 1 /\ "reserved" \notin d.toggles
  /\ "label" \in d.toggles => d.terminated /\ d.good
  /\ FieldsLength(d) <= length
  /\ "requestable" \in d.toggles => "label" \in d.toggles /\ d.label > 0

DescriptionAcceptable(d, length) ==
  /\ length >= UUID_SIZE + 1 /\ "reserved" \notin d.toggles
  /\ "label" \in d.toggles => d.terminated /\ d.good
  /\ FieldsLength(d) <= length
  /\ "private" \in d.toggles \/ FieldsLength(d) = length
  /\ "requestable" \in d.toggles => "label" \in d.toggles /\ d.label > 0

----------------------------------------------------------------------------
(* _read_header: the header at an offset and the length it gives the box, {} *)
(* when it is refused.                                                       *)

LBoxes == 0..(size + 1)
XLBoxes == 0..(size + 1) \cup ExtendedLengths

AnyXLBox(at, h) ==                                                \* defect
  IF h.lbox = 1 THEN at + BOX_HEADER_SIZE + XLBOX_SIZE <= size
  ELSE h.lbox = 0 \/ h.lbox > LBOX_RESERVED_MAX

HeaderAcceptable(at, h) ==
  IF h.lbox = 1 THEN /\ at + BOX_HEADER_SIZE + XLBOX_SIZE <= size
                     /\ h.xlbox >= BOX_HEADER_SIZE + XLBOX_SIZE
  ELSE h.lbox = 0 \/ h.lbox > LBOX_RESERVED_MAX

BoxLength(at, h) ==
  CASE h.lbox = 1 -> h.xlbox
    [] h.lbox = 0 -> size - at
    [] OTHER -> h.lbox

HeaderLength(h) == IF h.lbox = 1 THEN BOX_HEADER_SIZE + XLBOX_SIZE ELSE BOX_HEADER_SIZE

BoxTypes == {"jumb", "jumd", "other"}

HeadersAt(at) ==
  IF at \in DOMAIN known THEN {known[at]}
  ELSE {[lbox |-> l, tbox |-> t, xlbox |-> 0] : l \in LBoxes \ {1}, t \in BoxTypes}
       \cup {[lbox |-> 1, tbox |-> t, xlbox |-> x] : x \in XLBoxes, t \in BoxTypes}

Read(at, h) ==
  /\ at + BOX_HEADER_SIZE <= size
  /\ reads' = reads \cup {[from |-> at, upto |-> at + HeaderLength(h)]}

(* JumbfError: nothing that was read is returned.                            *)
JumbfError ==
  /\ phase' = "failed" /\ offset' = 0 /\ end' = 0 /\ description' = {} /\ children' = <<>>
  /\ UNCHANGED box

----------------------------------------------------------------------------
(* serialize_superbox: a box is [description, contents], contents the lengths  *)
(* and types of its content boxes.                                           *)

PayloadOnly(tbox, payload) == [lbox |-> payload, tbox |-> tbox, xlbox |-> 0]  \* defect

HeaderOf(tbox, payload) == [lbox |-> BOX_HEADER_SIZE + payload, tbox |-> tbox, xlbox |-> 0]

PrivateLength(b) == IF "private" \in b.description.toggles THEN b.private ELSE 0
DescriptionLength(b) == FieldsLength(b.description) + PrivateLength(b)

(* Where content box i starts, the box that would follow the last included.  *)
StartOf(b, i) ==
  LET starts[j \in 1..(Len(b.contents) + 1)] ==
        IF j = 1 THEN 2 * BOX_HEADER_SIZE + DescriptionLength(b)
        ELSE starts[j - 1] + BOX_HEADER_SIZE + b.contents[j - 1].length
  IN  starts[i]

SerializedSize(b) == StartOf(b, Len(b.contents) + 1)

ContentAt(b, o) == b.contents[CHOOSE i \in DOMAIN b.contents : StartOf(b, i) = o]

Layout(b) ==
  [o \in {0, BOX_HEADER_SIZE} \cup {StartOf(b, i) : i \in DOMAIN b.contents} |->
     CASE o = 0 -> HeaderOf("jumb", SerializedSize(b) - BOX_HEADER_SIZE)
       [] o = BOX_HEADER_SIZE -> HeaderOf("jumd", DescriptionLength(b))
       [] OTHER -> HeaderOf(ContentAt(b, o).tbox, ContentAt(b, o).length)]

(* What is written has a description that its dataclass lets be, and one or  *)
(* more content boxes (JumbfBox).                                            *)
ASSUME WrittenAssumption ==
  \A b \in Written :
    /\ b.description.label \in Nat /\ b.private \in Nat
    /\ "reserved" \notin b.description.toggles
    /\ "label" \in b.description.toggles => b.description.terminated /\ b.description.good
    /\ "requestable" \in b.description.toggles =>
         "label" \in b.description.toggles /\ b.description.label > 0
    /\ b.contents \in Seq([tbox : BoxTypes, length : Nat]) /\ b.contents # <<>>

ChildrenOf(b) ==
  [i \in DOMAIN b.contents |->
     [tbox |-> b.contents[i].tbox, start |-> StartOf(b, i), payload |-> StartOf(b, i) + BOX_HEADER_SIZE,
      stop |-> StartOf(b, i) + BOX_HEADER_SIZE + b.contents[i].length]]

----------------------------------------------------------------------------
(* parse_superbox.                                                           *)

ParserInit ==
  /\ \/ size \in Sizes /\ known = <<>> /\ fields = {}
     \/ \E b \in Written : size = SerializedSize(b) /\ known = Layout(b) /\ fields = {b}
  /\ phase = "outer" /\ offset = 0 /\ end = 0 /\ reads = {} /\ description = {} /\ children = <<>>

NoHeader ==
  /\ phase \in {"outer", "description", "content"} /\ (phase = "content" => offset < end)
  /\ offset + BOX_HEADER_SIZE > size
  /\ JumbfError /\ UNCHANGED reads

Superbox ==
  /\ phase = "outer"
  /\ \E h \in HeadersAt(0) :
       /\ Read(0, h)
       /\ IF HeaderAcceptable(0, h) /\ h.tbox = "jumb" /\ BoxLength(0, h) <= size
          THEN /\ phase' = "description" /\ offset' = HeaderLength(h) /\ end' = BoxLength(0, h)
               /\ UNCHANGED <<box, description, children>>
          ELSE JumbfError

(* The payload of the description is a slice: it stops at the end of the data,  *)
(* not at the end of the superbox.                                           *)
Description ==
  /\ phase = "description"
  /\ \E h \in HeadersAt(offset) :
       /\ Read(offset, h)
       /\ \/ ~ (HeaderAcceptable(offset, h) /\ h.tbox = "jumd") /\ JumbfError
          \/ /\ HeaderAcceptable(offset, h) /\ h.tbox = "jumd"
             /\ \E next \in {offset + BoxLength(offset, h)} :
                \E length \in {Min({next, size}) - (offset + HeaderLength(h))} :
                \E d \in IF fields = {} THEN Descriptions ELSE {b.description : b \in fields} :
                  IF DescriptionAcceptable(d, length)
                  THEN /\ phase' = "content" /\ offset' = next /\ description' = {d}
                       /\ UNCHANGED <<box, end, children>>
                  ELSE JumbfError

ChildMayOverrun ==                                                \* defect
  /\ phase = "content" /\ offset < end
  /\ \E h \in HeadersAt(offset) :
       /\ Read(offset, h)
       /\ IF HeaderAcceptable(offset, h) /\ offset + BoxLength(offset, h) <= size
          THEN /\ offset' = offset + BoxLength(offset, h)
               /\ children' = Append(children, [tbox |-> h.tbox, start |-> offset,
                                payload |-> offset + HeaderLength(h), stop |-> offset + BoxLength(offset, h)])
               /\ UNCHANGED <<box, phase, end, description>>
          ELSE JumbfError

Child ==
  /\ phase = "content" /\ offset < end
  /\ \E h \in HeadersAt(offset) :
       /\ Read(offset, h)
       /\ IF HeaderAcceptable(offset, h) /\ offset + BoxLength(offset, h) <= end
          THEN /\ offset' = offset + BoxLength(offset, h)
               /\ children' = Append(children, [tbox |-> h.tbox, start |-> offset,
                                payload |-> offset + HeaderLength(h), stop |-> offset + BoxLength(offset, h)])
               /\ UNCHANGED <<box, phase, end, description>>
          ELSE JumbfError

FinishAtTheEnd ==                                                 \* defect
  /\ phase = "content" /\ offset = end
  /\ \/ children = <<>> /\ JumbfError
     \/ children # <<>> /\ phase' = "accepted" /\ UNCHANGED <<box, offset, end, description, children>>
  /\ UNCHANGED reads

Finish ==
  /\ phase = "content" /\ offset >= end
  /\ \/ children = <<>> /\ JumbfError
     \/ children # <<>> /\ phase' = "accepted" /\ UNCHANGED <<box, offset, end, description, children>>
  /\ UNCHANGED reads

ParserNext == NoHeader \/ Superbox \/ Description \/ Child \/ Finish

ParserSpec == ParserInit /\ [][ParserNext]_parserVars

ParserFairSpec == ParserSpec /\ WF_parserVars(ParserNext)

----------------------------------------------------------------------------

(* No byte is read as part of two headers, whatever lengths the boxes declare:   *)
(* an extended length below its own header would have the next read start    *)
(* inside that header, or on it again, and report a box that is not there.   *)
HeadersNeverOverlap ==
  \A r, s \in reads : r = s \/ r.upto <= s.from \/ s.upto <= r.from

(* An accepted superbox is cut into its parts without gap, overlap or overrun:   *)
(* the fields fill the description box unless a private field ends them, each    *)
(* child begins where the part before ended, the last ends where the box ends.  *)
PartsTileTheBox ==
  phase = "accepted" =>
    /\ end <= size /\ children[Len(children)].stop = end
    /\ \A i \in 1..(Len(children) - 1) : children[i].stop = children[i + 1].start
    /\ \A i \in DOMAIN children : children[i].start < children[i].stop
    /\ \E d \in description, outer, inner \in reads :
         /\ outer.from = 0 /\ inner.from = outer.upto
         /\ inner.upto + FieldsLength(d) <= children[1].start
         /\ "private" \notin d.toggles => inner.upto + FieldsLength(d) = children[1].start

(* serialize_superbox writes what parse_superbox reads: a box that was written  *)
(* is accepted, with its description and its contents where they were put.   *)
WrittenBoxIsReadBack ==
  \A b \in fields :
    /\ phase # "failed"
    /\ phase = "accepted" =>
         description = {b.description} /\ children = ChildrenOf(b) /\ end = size

(* Whatever lengths hostile data declares, the parser comes to an end.       *)
EveryBoxIsJudged == <>(phase \in {"accepted", "failed"})
=============================================================================
