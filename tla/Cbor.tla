--------------------------------- MODULE Cbor ---------------------------------
(***************************************************************************)
(* src/c2patxt/_cbor.py: loads as a machine that reads bytes nobody vouches  *)
(* for, and what dumps would write for the value it builds.                  *)
(*                                                                           *)
(* The input is chosen byte by byte as the decoder asks for it, so the runs  *)
(* cover every string of a source's bytes that the decoder can tell          *)
(* apart.  The recursion of decode is a stack of frames, one per container.  *)
(* A value is [id, canon]: its identity in the data model of RFC 8949, and   *)
(* its encoding by dumps, {} when dumps refuses it.                          *)
(***************************************************************************)
EXTENDS SequencesExt

CONSTANTS
  Sources,       \* kinds of input: the bytes that may occur, and the bound on its length
  MaxDepth       \* MAX_CBOR_DEPTH

(* Any count of more than three bytes.  No input is as long: it comes out of *)
(* a manifest of at most MAX_MANIFEST_LENGTH, 2^21, bytes.                   *)
Huge == 16777216

(* Floats of 4 and 8 bytes are left out: 250 and 251 announce them.          *)
ASSUME CborAssumption ==
  /\ Sources \subseteq [bytes : SUBSET (0..255 \ {250, 251}), limit : 0..(Huge - 1)]
  /\ MaxDepth \in Nat

VARIABLES
  input, source, \* the bytes so far, and the kind of input that those to come are from
  pos,
  deterministic,
  stack,         \* the containers around the next item, the innermost last
  state,         \* "item", "accepted" or "failed"
  result,        \* the value: a set of at most one
  before         \* the value that a first decoding made of it, {} before that

vars == <<input, source, pos, deterministic, stack, state, result, before>>

----------------------------------------------------------------------------
(* Heads.  An argument is its big-endian bytes without leading zeros.        *)

Unpadded(bytes) ==
  LET first == {i \in DOMAIN bytes : bytes[i] # 0}
  IN  IF first = {} THEN <<>> ELSE SubSeq(bytes, Min(first), Len(bytes))

Padded(bytes, width) == [i \in 1..(width - Len(bytes)) |-> 0] \o bytes

Number(arg) ==
  CASE arg = <<>> -> 0
    [] Len(arg) = 1 -> arg[1]
    [] Len(arg) = 2 -> 256 * arg[1] + arg[2]
    [] Len(arg) = 3 -> 65536 * arg[1] + 256 * arg[2] + arg[3]
    [] OTHER -> Huge

FromNumber(n) == Unpadded(<<(n \div 65536) % 256, (n \div 256) % 256, n % 256>>)

Immediate(arg) == Len(arg) <= 1 /\ Number(arg) < 24

ItemHeadEarly(major, arg) ==                                   \* defect
  IF Len(arg) <= 1 /\ Number(arg) < 23 THEN <<32 * major + Number(arg)>>
  ELSE LET i == CHOOSE i \in 0..3 : 2^i >= Len(arg) /\ (i = 0 \/ 2^(i - 1) < Len(arg))
       IN  <<32 * major + 24 + i>> \o Padded(arg, 2^i)

ItemHead(major, arg) ==
  IF Immediate(arg) THEN <<32 * major + Number(arg)>>
  ELSE LET i == CHOOSE i \in 0..3 : 2^i >= Len(arg) /\ (i = 0 \/ 2^(i - 1) < Len(arg))
       IN  <<32 * major + 24 + i>> \o Padded(arg, 2^i)

(* The widths of arguments by additional information, and the forms that a   *)
(* shorter one could replace.                                                *)
Width(info) == IF info < 24 THEN 0 ELSE 2^(info - 24)
Argument(info, bytes) == IF info < 24 THEN FromNumber(info) ELSE Unpadded(bytes)

NotShortest(info, bytes) ==
  \/ info = 24 /\ bytes[1] < 24
  \/ info > 24 /\ \A i \in 1..(Len(bytes) \div 2) : bytes[i] = 0

(* Text must be UTF-8.                                                       *)
Utf8Form(b) ==
  \/ Len(b) = 1 /\ b[1] < 128
  \/ Len(b) = 2 /\ b[1] \in 194..223
  \/ Len(b) = 3 /\ b[1] \in 224..239 /\ (b[1] = 224 => b[2] >= 160) /\ (b[1] = 237 => b[2] < 160)
  \/ Len(b) = 4 /\ b[1] \in 240..244 /\ (b[1] = 240 => b[2] >= 144) /\ (b[1] = 244 => b[2] < 144)

IsUtf8(bytes) ==
  LET valid[i \in 1..(Len(bytes) + 1)] ==
        \/ i = Len(bytes) + 1
        \/ \E k \in 1..4 : /\ i + k <= Len(bytes) + 1
                           /\ Utf8Form(SubSeq(bytes, i, i + k - 1))
                           /\ \A j \in (i + 1)..(i + k - 1) : bytes[j] \in 128..191
                           /\ valid[i + k]
  IN  valid[1]

(* Bytewise order, a prefix first.                                           *)
Below(a, b) ==
  \E k \in 0..Len(a) :
    /\ k <= Len(b) /\ SubSeq(a, 1, k) = SubSeq(b, 1, k)
    /\ IF k < Len(a) THEN k < Len(b) /\ a[k + 1] < b[k + 1] ELSE k < Len(b)

----------------------------------------------------------------------------
(* Values.                                                                   *)

Value(type, content, canon) == [id |-> [type |-> type, content |-> content], canon |-> canon]

IntegerValue(major, arg) == Value("int", <<major>> \o arg, {ItemHead(major, arg)})
StringValue(major, bytes) ==
  Value(IF major = 2 THEN "bytes" ELSE "text", bytes, {ItemHead(major, FromNumber(Len(bytes))) \o bytes})

(* The keys that a Python dict holds as they are.                            *)
Native(id) == id.type \in {"int", "bytes", "text"}

(* Half-precision floats: the sign of a zero does not tell keys apart, nor   *)
(* that of a NaN.                                                            *)
IsNan(b) == b[1] % 128 >= 124 /\ (b[1] % 4 # 0 \/ b[2] # 0)
FloatValue(b) ==
  IF IsNan(b) THEN Value("nan", <<b[1] % 4, b[2]>>, {})
  ELSE Value("float", IF b[1] = 128 /\ b[2] = 0 THEN <<0, 0>> ELSE b, {})

(* A frame of the stack; left is -1 for an indefinite length.                *)
Frame(kind, left, tag) ==
  [kind |-> kind, left |-> left, tag |-> tag, ids |-> <<>>, body |-> {<<>>},
   key |-> {}, start |-> 0, previous |-> {}, pairs |-> <<>>]

Joined(bodies, more) == {b \o m : b \in bodies, m \in more}

UnsortedPair(pairs, p) == Append(pairs, p)                        \* defect

InsertPair(pairs, p) ==
  LET smaller == {i \in DOMAIN pairs : Below(pairs[i].keyBytes, p.keyBytes)}
  IN  InsertAt(pairs, Cardinality(smaller) + 1, p)

MapBody(pairs) ==
  FlattenSeq([i \in DOMAIN pairs |-> pairs[i].keyBytes \o pairs[i].valueBytes])

AllowedTags == {<<>>, <<18>>}

Closed(f) ==
  LET n == Len(f.ids)
  IN  CASE f.kind = "array" ->
             Value("array", f.ids, Joined({ItemHead(4, FromNumber(n))}, f.body))
        [] f.kind = "tag" ->
             Value("tag", <<f.tag, f.ids[1]>>,
                   IF f.tag \in AllowedTags THEN Joined({ItemHead(6, f.tag)}, f.body) ELSE {})
        [] f.kind = "map" ->
             Value("map", ToSet(f.ids),
                   IF f.body = {} THEN {} ELSE {ItemHead(5, FromNumber(n)) \o MapBody(f.pairs)})
        [] OTHER -> StringValue(IF f.kind = "bytes" THEN 2 ELSE 3, FlattenSeq(f.ids))

----------------------------------------------------------------------------
(* Reading.                                                                  *)

(* What prefix and n more bytes may be: the bytes that are there, then any   *)
(* that may follow.                                                          *)
More(prefix, n) ==
  LET there == SubSeq(input, pos + 1, Len(input))
      known == IF Len(there) >= Len(prefix) THEN there ELSE prefix
      total == Len(prefix) + n
  IN  IF n >= Huge THEN {}
      ELSE IF total <= Len(known) THEN {SubSeq(known, 1, total)}
      ELSE IF pos + total <= source.limit
           THEN {known \o s : s \in [1..(total - Len(known)) -> source.bytes]} ELSE {}

(* The input may end before the next n bytes.                                *)
Truncated(n) == pos + n > Len(input)

Consume(bytes) ==
  /\ input' = IF Truncated(Len(bytes)) THEN SubSeq(input, 1, pos) \o bytes ELSE input
  /\ pos' = pos + Len(bytes)

Major(bytes) == bytes[1] \div 32
Info(bytes) == bytes[1] % 32
Arg(head) == Argument(Info(head), SubSeq(head, 2, Len(head)))

(* _argument.                                                                *)
ArgumentRefused(head) ==
  deterministic /\ Info(head) >= 24 /\ NotShortest(Info(head), SubSeq(head, 2, Len(head)))

Heads(first) ==
  IF Info(first) <= 27
  THEN {h \in More(first, Width(Info(first))) : ~ ArgumentRefused(h)} ELSE {}

HeadRefused(first) ==
  \/ Info(first) \in 28..30
  \/ Info(first) <= 27 /\ Truncated(1 + Width(Info(first)))
  \/ Info(first) <= 27 /\ \E h \in More(first, Width(Info(first))) : ArgumentRefused(h)

(* A definite string.                                                        *)
StringRefused(head) ==
  \/ Number(Arg(head)) >= Huge \/ Truncated(Len(head) + Number(Arg(head)))
  \/ Major(head) = 3 /\ \E s \in More(head, Number(Arg(head))) :
                          ~ IsUtf8(SubSeq(s, Len(head) + 1, Len(s)))

Init ==
  /\ input = <<>> /\ source \in Sources /\ pos = 0 /\ deterministic \in BOOLEAN
  /\ stack = <<>> /\ state = "item" /\ result = {} /\ before = {}

Fail ==
  /\ state' = "failed" /\ UNCHANGED <<source, deterministic, stack, result, before>>

(* A finished item goes into the frame around it.                            *)
Top == stack[Len(stack)]
Outer == SubSeq(stack, 1, Len(stack) - 1)

KeysInAnyOrder(f, id, bytes) ==                                   \* defect
  \E i \in DOMAIN f.ids : f.ids[i][1] = id

KeyRefused(f, id, bytes) ==
  \/ deterministic /\ \E p \in f.previous : ~ Below(p, bytes)
  \/ \E i \in DOMAIN f.ids : f.ids[i][1] = id

Fewer(left) == IF left \in 1..(Huge - 1) THEN left - 1 ELSE left

WithItem(f, v) ==
  [f EXCEPT !.ids = Append(@, v.id), !.left = Fewer(@),
            !.body = Joined(@, v.canon)]

WithKey(f, v, bytes) ==
  [f EXCEPT !.key = {[id |-> v.id, canon |-> IF Native(v.id) THEN v.canon ELSE {}]},
            !.previous = {bytes}]

WithValue(f, v) ==
  LET k == CHOOSE k \in f.key : TRUE
  IN  [f EXCEPT !.key = {}, !.ids = Append(@, <<k.id, v.id>>), !.left = Fewer(@),
         !.body = IF k.canon = {} \/ v.canon = {} THEN {} ELSE @,
         !.pairs = IF k.canon = {} \/ v.canon = {} THEN @
                   ELSE InsertPair(@, [keyBytes |-> CHOOSE b \in k.canon : TRUE,
                                       valueBytes |-> CHOOSE b \in v.canon : TRUE])]

(* The frames after an item that ends at end, {} if it is refused there.     *)
Placed(frames, v, bytes, end) ==
  LET f == frames[Len(frames)]
      outer == SubSeq(frames, 1, Len(frames) - 1)
      raw == SubSeq(bytes, f.start + 1, end)
  IN  CASE f.kind # "map" -> {Append(outer, [WithItem(f, v) EXCEPT !.start = end])}
        [] f.kind = "map" /\ f.key # {} -> {Append(outer, [WithValue(f, v) EXCEPT !.start = end])}
        [] OTHER -> IF KeyRefused(f, v.id, raw) THEN {}
                    ELSE {Append(outer, [WithKey(f, v, raw) EXCEPT !.start = end])}

Deliver(frames, v) ==
  IF frames = <<>>
  THEN \/ /\ pos' = Len(input') /\ state' = "accepted" /\ result' = {v} /\ stack' = <<>>
          /\ UNCHANGED <<source, deterministic, before>>
       \/ (pos' < source.limit \/ pos' < Len(input')) /\ Fail              \* bytes follow
  ELSE LET placed == Placed(frames, v, input', pos')
       IN  \/ placed = {} /\ Fail
           \/ /\ placed # {} /\ stack' \in placed
              /\ UNCHANGED <<source, deterministic, state, result, before>>

Push(head, frame) ==
  /\ Consume(head) /\ stack' = Append(stack, [frame EXCEPT !.start = pos'])
  /\ UNCHANGED <<source, deterministic, state, result, before>>

----------------------------------------------------------------------------
(* decode, one item at a time.                                               *)

InContainer == stack # <<>>
Full == InContainer /\ Top.left = 0
Indefinite == InContainer /\ Top.left = -1
InString == InContainer /\ Top.kind \in {"bytes", "text"}

(* An item begins here, with a byte that is no break where one may stand.    *)
Firsts == {b \in More(<<>>, 1) : Indefinite => b # <<255>>}

DepthOfLists == Cardinality({i \in DOMAIN stack : stack[i].kind = "array"})  \* defect

Depth == Len(stack)

AtItem == state = "item" /\ ~ Full /\ ~ InString /\ Depth <= MaxDepth

Integer ==
  /\ AtItem
  /\ \E first \in {b \in Firsts : Major(b) \in {0, 1}} : \E h \in Heads(first) :
       Consume(h) /\ Deliver(stack, IntegerValue(Major(h), Arg(h)))

String ==
  /\ AtItem
  /\ \E first \in {b \in Firsts : Major(b) \in {2, 3}} : \E h \in Heads(first) :
       \E s \in More(h, Number(Arg(h))) : \E content \in {SubSeq(s, Len(h) + 1, Len(s))} :
         /\ Major(h) = 3 => IsUtf8(content)
         /\ Consume(s) /\ Deliver(stack, StringValue(Major(h), content))

Container ==
  /\ AtItem
  /\ \E first \in {b \in Firsts : Major(b) \in {4, 5, 6}} : \E h \in Heads(first) :
       Push(h, CASE Major(h) = 4 -> Frame("array", Number(Arg(h)), <<>>)
                 [] Major(h) = 5 -> Frame("map", Number(Arg(h)), <<>>)
                 [] OTHER -> Frame("tag", 1, Arg(h)))

IndefiniteItem ==
  /\ AtItem /\ ~ deterministic
  /\ \E first \in {b \in Firsts : Major(b) \in 2..5 /\ Info(b) = 31} :
       Push(first, Frame(CASE Major(first) = 2 -> "bytes" [] Major(first) = 3 -> "text"
                           [] Major(first) = 4 -> "array" [] OTHER -> "map", -1, <<>>))

(* _simple and _float.                                                       *)
Simple ==
  /\ AtItem
  /\ \E first \in {b \in Firsts : Major(b) = 7} :
       \/ /\ Info(first) \in 20..22
          /\ Consume(first) /\ Deliver(stack, Value("constant", Info(first), {first}))
       \/ /\ Info(first) \in (0..19) \cup {23}
          /\ Consume(first) /\ Deliver(stack, Value("simple", Info(first), {}))
       \/ /\ Info(first) = 24
          /\ \E h \in More(first, 1) :
               h[2] >= 32 /\ Consume(h) /\ Deliver(stack, Value("simple", h[2], {}))
       \/ /\ Info(first) = 25
          /\ \E h \in More(first, 2) : \E b \in {SubSeq(h, 2, 3)} :
               /\ deterministic /\ IsNan(b) => b = <<126, 0>>
               /\ Consume(h) /\ Deliver(stack, FloatValue(b))

(* _take_break, where a break may stand.                                     *)
Break ==
  /\ state = "item" /\ Indefinite /\ <<255>> \in More(<<>>, 1) /\ Consume(<<255>>)
  /\ IF Top.key # {} THEN Fail ELSE Deliver(Outer, Closed(Top))

(* _indefinite_string: definite chunks of its own type.                      *)
Chunk ==
  /\ state = "item" /\ InString
  /\ \E first \in {b \in Firsts : Major(b) = IF Top.kind = "bytes" THEN 2 ELSE 3} :
       \E h \in Heads(first) : \E s \in More(h, Number(Arg(h))) :
         \E content \in {SubSeq(s, Len(h) + 1, Len(s))} :
           /\ Top.kind = "text" => IsUtf8(content)
           /\ Consume(s) /\ stack' = Append(Outer, [Top EXCEPT !.ids = Append(@, content)])
           /\ UNCHANGED <<source, deterministic, state, result, before>>

Close ==
  /\ state = "item" /\ Full /\ UNCHANGED <<input, pos>>
  /\ Deliver(Outer, Closed(Top))

(* Everything that raises CborDecodeError where an item or a chunk begins.   *)
ItemRefused(first) ==
  CASE Major(first) = 7 ->
         \/ Info(first) >= 28
         \/ Info(first) = 24 /\ (Truncated(2) \/ \E h \in More(first, 1) : h[2] < 32)
         \/ Info(first) = 25 /\ Truncated(3)
         \/ /\ Info(first) = 25 /\ deterministic
            /\ \E h \in More(first, 2) : IsNan(SubSeq(h, 2, 3)) /\ SubSeq(h, 2, 3) # <<126, 0>>
    [] Major(first) # 7 /\ Info(first) = 31 -> deterministic \/ Major(first) \in {0, 1, 6}
    [] OTHER -> \/ HeadRefused(first)
                \/ Major(first) \in {2, 3} /\ \E h \in Heads(first) : StringRefused(h)

ChunkRefused(first) ==
  \/ Major(first) # (IF Top.kind = "bytes" THEN 2 ELSE 3) \/ Info(first) = 31
  \/ HeadRefused(first) \/ \E h \in Heads(first) : StringRefused(h)

RefuseButNotTheEnd ==                                             \* defect
  /\ state = "item" /\ ~ Full
  /\ \/ ~ InString /\ Depth > MaxDepth
     \/ ~ InString /\ \E first \in Firsts : ItemRefused(first)
     \/ InString /\ \E first \in Firsts : ChunkRefused(first)
  /\ Fail /\ UNCHANGED <<input, pos>>

Refuse ==
  /\ state = "item" /\ ~ Full
  /\ \/ ~ InString /\ Depth > MaxDepth
     \/ Truncated(1)
     \/ ~ InString /\ \E first \in Firsts : ItemRefused(first)
     \/ InString /\ \E first \in Firsts : ChunkRefused(first)
  /\ Fail /\ UNCHANGED <<input, pos>>

Decode ==
  \/ Integer \/ String \/ Container \/ IndefiniteItem \/ Simple
  \/ Break \/ Chunk \/ Close \/ Refuse

----------------------------------------------------------------------------
(* A second decoding: of the same bytes by the other mode, or of what dumps  *)
(* writes for the value.                                                     *)
Ended == [bytes |-> {}, limit |-> 0]

Again ==
  /\ state = "accepted" /\ before = {}
  /\ \/ deterministic /\ input' = input /\ deterministic' = FALSE
     \/ \E v \in result : input' \in v.canon /\ deterministic' = TRUE
  /\ before' = result /\ result' = {} /\ state' = "item" /\ pos' = 0 /\ source' = Ended
  /\ UNCHANGED stack

Next == Decode \/ Again

Spec == Init /\ [][Next]_vars

FairSpec == Spec /\ WF_vars(Decode)

----------------------------------------------------------------------------
(* Types, and the two bounds that keep hostile input harmless: nesting, and  *)
(* reading no byte twice or out of range.                                    *)
TypeOK ==
  /\ input \in Seq(0..255) /\ pos \in 0..Len(input)
  /\ source \in Sources \union {Ended} /\ deterministic \in BOOLEAN
  /\ state \in {"item", "accepted", "failed"}
  /\ Len(stack) <= MaxDepth + 1
  /\ \A i \in DOMAIN stack :
       /\ stack[i].kind \in {"array", "map", "tag", "bytes", "text"}
       /\ stack[i].left \in -1..Huge /\ stack[i].start \in 0..pos
  /\ (result # {}) = (state = "accepted")

(* The deterministic reader and the writer agree on one encoding: a value that  *)
(* dumps can write is only ever read, in this mode, from the bytes it writes.  *)
OneEncoding ==
  state = "accepted" /\ deterministic => \A v \in result : v.canon \subseteq {input}

(* What the deterministic mode reads the relaxed mode reads as the same value,  *)
(* and what dumps writes for a value, however that was encoded when it came, *)
(* both read back as that value.                                             *)
SecondReadingAgrees ==
  before # {} => state # "failed" /\ (state = "accepted" => result = before)

(* Every input is decoded or refused.                                        *)
EveryInputIsJudged == (state = "item") ~> (state # "item")
=============================================================================
