------------------------------ MODULE Envelope ------------------------------
(***************************************************************************)
(* The LXMF message on the wire (src/lxmf/lxmf.c): the MessagePack walker, *)
(* lxmf_pack, lxmf_unpack and the ticket carried in a message's fields.    *)
(*                                                                         *)
(* A wire is a sequence of tokens.  A header token stands for an object's  *)
(* first byte with the length bytes behind it and has their width; data    *)
(* tokens follow it.  A hash is the value it hashes and a signature names  *)
(* its signer and what was signed.                                         *)
(***************************************************************************)
EXTENDS Integers, Sequences

CONSTANTS MaxNesting,    \* LXMF_MAX_NESTING
          TicketField,   \* LXMF_FIELD_TICKET
          TicketLength,  \* LXMF_TICKET_LENGTH
          StampLengths,  \* LXMF_STAMP_LENGTH and LXMF_POW_STAMP_LENGTH
          TimeLimit,     \* 2^64 seconds
          Texts,         \* titles and contents: sequences of data tokens
          FieldKeys, FieldValues,  \* objects a field may have as key or value
          MaxFields      \* bound: fields of a message

VARIABLES letter,     \* the message the application sends
          field_list, \* its fields as <<key, value>> pairs of objects
          copy,       \* the packet as it is received, << >> before it is sent
          result      \* what lxmf_unpack makes of it

envelopeVars == <<letter, field_list, copy, result>>

T(code, n) == [code |-> code, n |-> n]
Data(n) == T("data", n)

Strings == {"fixstr", "str8", "bin8", "bin16"}
Maps == {"fixmap", "map16"}
Arrays == {"fixarray", "array16"}
Scalars == {"nil", "fixint", "uint8", "double"}

\* put_bin writes the shortest of the binary headers; 16 bits are needed past
\* one data token here, past 255 bytes there.
ShortMax == 1

\* The bytes a token takes.
Width(t) ==
    CASE t.code = "double" -> 8
      [] t.code \in {"str8", "bin8"} -> 2
      [] t.code \in {"bin16", "map16", "array16"} -> 3
      [] OTHER -> 1

RECURSIVE Bytes(_)
Bytes(w) == IF w = << >> THEN 0 ELSE Width(Head(w)) + Bytes(Tail(w))

-----------------------------------------------------------------------------
(* skip_obj: the position after one object, 0 when there is none.          *)

DataLength(h) ==
    CASE h.code \in Strings -> h.n
      [] h.code \in {"uint8", "double"} -> 1
      [] OTHER -> 0

Items_PairsOnce(h) == IF h.code \in Maps \cup Arrays THEN h.n ELSE 0

Items(h) ==
    CASE h.code \in Maps -> 2 * h.n
      [] h.code \in Arrays -> h.n
      [] OTHER -> 0

RECURSIVE SkipObj(_, _, _), SkipItems(_, _, _, _)
SkipObj(w, p, depth) ==
    IF depth > MaxNesting \/ p > Len(w) THEN 0
    ELSE LET h == w[p]
             after == p + 1 + DataLength(h)
         IN  IF h.code \notin Strings \cup Maps \cup Arrays \cup Scalars
                \/ after > Len(w) + 1
             THEN 0
             ELSE SkipItems(w, after, Items(h), depth)

SkipItems(w, p, n, depth) ==
    IF n = 0 \/ p = 0 THEN p
    ELSE SkipItems(w, SkipObj(w, p, depth + 1), n - 1, depth)

\* What a get_.. returns: the value and the position behind it, 0 if refused.
Refusal == [at |-> 0, value |-> << >>]

GetBin(w, p) ==
    LET end == SkipObj(w, p, 0)
    IN  IF end = 0 \/ w[p].code \notin Strings THEN Refusal
        ELSE [at |-> end, value |-> SubSeq(w, p + 1, end - 1)]

GetDouble(w, p) ==
    IF p + 1 > Len(w) \/ w[p].code # "double" THEN Refusal
    ELSE [at |-> p + 2, value |-> w[p + 1].n]

GetContainerCount(w, p, codes) ==
    IF p > Len(w) \/ w[p].code \notin codes THEN Refusal
    ELSE [at |-> p + 1, value |-> w[p].n]

GetUnsigned(w, p) ==
    CASE p > Len(w) -> Refusal
      [] p <= Len(w) /\ w[p].code = "fixint" -> [at |-> p + 1, value |-> w[p].n]
      [] p < Len(w) /\ w[p].code = "uint8" -> [at |-> p + 2, value |-> w[p + 1].n]
      [] OTHER -> Refusal

\* get_expiry: seconds, or a double (in half seconds) rounded down.
GetExpiry(w, p) ==
    LET d == GetDouble(w, p)
    IN  IF p > Len(w) \/ w[p].code # "double" THEN GetUnsigned(w, p)
        ELSE IF d.at = 0 \/ ~(d.value >= 0 /\ d.value < 2 * TimeLimit)
        THEN Refusal
        ELSE [at |-> d.at, value |-> d.value \div 2]

-----------------------------------------------------------------------------
(* lxmf_fields_parse_ticket: the pairs of a map in turn.                   *)

Absent == [present |-> FALSE, expires_at |-> 0, ticket |-> << >>]
BadFields == [present |-> FALSE, expires_at |-> -1, ticket |-> << >>]

TicketValue(w, p) ==
    LET list == GetContainerCount(w, p, Arrays)
        expiry == GetExpiry(w, list.at)
        bytes == GetBin(w, expiry.at)
    IN  IF list.at = 0 \/ list.value # 2 THEN [at |-> 0, ticket |-> Absent]
        ELSE IF expiry.at = 0 THEN [at |-> 0, ticket |-> Absent]
        ELSE IF bytes.at = 0 \/ Len(bytes.value) # TicketLength
        THEN [at |-> 0, ticket |-> Absent]
        ELSE [at |-> bytes.at,
              ticket |-> [present |-> TRUE, expires_at |-> expiry.value,
                          ticket |-> bytes.value]]

RECURSIVE ParsePairs(_, _, _, _)
ParsePairs(w, p, n, found) ==
    IF n = 0 THEN IF p = Len(w) + 1 THEN found ELSE BadFields
    ELSE LET key == GetUnsigned(w, p)
             value_at == SkipObj(w, p, 0)
             mine == key.at # 0 /\ key.value = TicketField
             read == TicketValue(w, value_at)
             after == IF mine THEN read.at ELSE SkipObj(w, value_at, 0)
         IN  IF value_at = 0 \/ (mine /\ found.present) THEN BadFields
             ELSE IF after = 0 THEN BadFields
             ELSE ParsePairs(w, after, n - 1, IF mine THEN read.ticket ELSE found)

ParseTicket(w) ==
    LET map == GetContainerCount(w, 1, Maps)
    IN  IF map.at = 0 THEN BadFields ELSE ParsePairs(w, map.at, map.value, Absent)

-----------------------------------------------------------------------------
(* lxmf_pack and lxmf_unpack.  A message has a source, a destination, a    *)
(* time, a title, a content, fields (tokens, none for no fields) and a     *)
(* stamp (data tokens, none for no stamp).                                 *)

PutBin(s) == <<T(IF Len(s) <= ShortMax THEN "bin8" ELSE "bin16", Len(s))>> \o s

IsMap(w) == /\ w # << >>
            /\ SkipObj(w, 1, 0) = Len(w) + 1
            /\ w[1].code \in Maps

\* encode_payload into room bytes.
EncodePayload(m, stamped, room) ==
    LET text == <<T("fixarray", IF stamped THEN 5 ELSE 4),
                  T("double", 8), Data(m.time)>>
                \o PutBin(m.title) \o PutBin(m.content)
        whole == text \o (IF m.fields = << >> THEN <<T("fixmap", 0)>> ELSE m.fields)
                 \o (IF stamped THEN PutBin(m.stamp) ELSE << >>)
    IN  CASE Bytes(text) > room -> [status |-> "bounds", w |-> << >>]
          [] Bytes(text) <= room /\ m.fields # << >> /\ ~IsMap(m.fields) ->
                 [status |-> "format", w |-> << >>]
          [] stamped /\ Len(m.stamp) \notin StampLengths ->
                 [status |-> "format", w |-> << >>]
          [] OTHER -> [status |-> IF Bytes(whole) > room THEN "bounds" ELSE "ok",
                       w |-> whole]

\* lxmf_pack_bound, in bytes of payload: five for every binary header.
PackBound(m) ==
    10 + (IF m.fields = << >> THEN 1 ELSE Bytes(m.fields))
    + 5 + Len(m.title) + 5 + Len(m.content)
    + (IF m.stamp = << >> THEN 0 ELSE 5 + Len(m.stamp))

\* The id leaves the stamp out: it is found only once the id is known.
Id(m, payload) == <<m.destination, m.source, payload>>

Signed(by, m, payload) ==
    [by |-> by, over |-> <<m.destination, m.source, payload, Id(m, payload)>>]

Pack(m) ==
    LET base == EncodePayload(m, FALSE, PackBound(m))
        full == EncodePayload(m, m.stamp # << >>, PackBound(m))
    IN  IF base.status # "ok" \/ full.status # "ok"
        THEN [status |-> "refused", packet |-> << >>]
        ELSE [status |-> "ok",
              packet |-> [destination |-> m.destination, source |-> m.source,
                          signature |-> Signed(m.source, m, base.w),
                          payload |-> full.w]]

NoMessage == [status |-> "format", message |-> << >>, id |-> << >>]

\* The walk through the payload: four objects, a fifth for a stamp, no more.
ReadPayload(packet) ==
    LET w == packet.payload
        stamped == w[1] = T("fixarray", 5)
        time == GetDouble(w, 2)
        title == GetBin(w, time.at)
        content == GetBin(w, title.at)
        fields_end == SkipObj(w, content.at, 0)
        stamp == IF stamped THEN GetBin(w, fields_end)
                 ELSE [at |-> fields_end, value |-> << >>]
    IN  IF w[1] \notin {T("fixarray", 4), T("fixarray", 5)} THEN << >>
        ELSE IF time.at = 0 THEN << >>
        ELSE IF title.at = 0 THEN << >>
        ELSE IF content.at = 0 THEN << >>
        ELSE IF fields_end = 0 \/ w[content.at].code \notin Maps THEN << >>
        ELSE IF stamp.at = 0 THEN << >>
        ELSE IF stamped /\ Len(stamp.value) \notin StampLengths THEN << >>
        ELSE IF stamp.at # Len(w) + 1 THEN << >>
        ELSE [destination |-> packet.destination, source |-> packet.source,
              time |-> time.value, title |-> title.value,
              content |-> content.value,
              fields |-> SubSeq(w, content.at, fields_end - 1),
              stamp |-> stamp.value]

\* The base is encoded again, in the room the payload came in.
Unpack(packet, known) ==
    IF packet.payload = << >> THEN NoMessage
    ELSE LET m == ReadPayload(packet)
             base == EncodePayload(m, FALSE, Bytes(packet.payload))
             id == Id(m, base.w)
             status ==
                 CASE base.status # "ok" -> base.status
                   [] base.status = "ok" /\ m.source \notin known -> "unknown signer"
                   [] base.status = "ok" /\ m.source \in known /\
                      packet.signature # Signed(m.source, m, base.w) -> "signature"
                   [] OTHER -> "ok"
         IN  IF m = << >> THEN NoMessage
             ELSE [status |-> status, message |-> m, id |-> id]

-----------------------------------------------------------------------------
(* A message is packed, travels, and is unpacked.  On the way it may be    *)
(* cut short or run on, its stamp may be replaced or taken off, and a      *)
(* sender with another encoder may have written its headers differently.   *)

\* Objects as trees, [code, data, parts], and the tokens they are written as.
RECURSIVE Flat(_), FlatAll(_)
Flat(t) ==
    <<T(t.code, IF t.code \in Maps THEN Len(t.parts) \div 2
                ELSE IF t.code \in Arrays THEN Len(t.parts)
                ELSE IF t.code = "fixint" THEN t.data[1].n ELSE Len(t.data))>>
    \o (IF t.code = "fixint" THEN << >> ELSE t.data) \o FlatAll(t.parts)

FlatAll(ts) == IF ts = << >> THEN << >> ELSE Flat(Head(ts)) \o FlatAll(Tail(ts))

RECURSIVE Deep(_)
Deep(t) ==
    LET below == {Deep(t.parts[i]) : i \in 1..Len(t.parts)}
    IN  IF below = {} THEN 0
        ELSE 1 + CHOOSE d \in below : \A e \in below : e <= d

RECURSIVE Joined(_)
Joined(pairs) ==
    IF pairs = << >> THEN << >> ELSE Head(pairs) \o Joined(Tail(pairs))

FieldTree == [code |-> "fixmap", data |-> << >>, parts |-> Joined(field_list)]

FieldLists == UNION {[1..n -> FieldKeys \X FieldValues] : n \in 0..MaxFields}

TypeOK ==
    /\ field_list \in FieldLists
    /\ letter.title \in Texts /\ letter.content \in Texts
    /\ copy = << >> \/ copy.source = letter.source

Written(fields, title, content, source) ==
    /\ field_list = fields
    /\ letter = [destination |-> "us", source |-> source, time |-> 1,
                 title |-> title, content |-> content,
                 fields |-> IF field_list = << >> THEN << >> ELSE Flat(FieldTree),
                 stamp |-> << >>]
    /\ copy = << >>
    /\ result = NoMessage

Init ==
    \E fields \in FieldLists, title, content \in Texts, source \in {"known", "stranger"} :
        Written(fields, title, content, source)

\* The stamp is worked out from the id and added before the message is sent.
AddStamp ==
    \E n \in StampLengths :
        /\ copy = << >> /\ letter.stamp = << >>
        /\ letter' = [letter EXCEPT !.stamp = [i \in 1..n |-> Data(7)]]
        /\ UNCHANGED <<field_list, copy, result>>

Send ==
    /\ copy = << >>
    /\ Pack(letter).status = "ok"
    /\ copy' = Pack(letter).packet
    /\ UNCHANGED <<letter, field_list, result>>

\* The ways a payload differs from the one that was packed.
Damaged(w) ==
    {SubSeq(w, 1, n) : n \in 0..Len(w) - 1} \cup {Append(w, T("nil", 0))}
Reencoded(w) ==
    {[w EXCEPT ![i] = T(c, @.n)] :
        i \in {j \in 1..Len(w) : w[j].code \in Strings},
        c \in {"fixstr", "str8", "bin16"}}

Travel ==
    /\ copy # << >>
    /\ copy = Pack(letter).packet
    /\ \E w \in Damaged(copy.payload) \cup Reencoded(copy.payload) :
          copy' = [copy EXCEPT !.payload = w]
    /\ UNCHANGED <<letter, field_list, result>>

Receive ==
    /\ copy # << >>
    /\ result = NoMessage
    /\ result' = Unpack(copy, {"known"})
    /\ UNCHANGED <<letter, field_list, copy>>

Next == AddStamp \/ Send \/ Travel \/ Receive

Spec == Init /\ [][Next]_envelopeVars

-----------------------------------------------------------------------------
Given(m) == IF m.fields = << >> THEN [m EXCEPT !.fields = <<T("fixmap", 0)>>] ELSE m

\* What was sent is what is read: an unchanged packet is accepted exactly when
\* its sender is known, with the parts the application gave it and with the
\* id of the same message without a stamp; a packet that was changed on the
\* way is accepted only with those same parts (lxmf_pack, lxmf_unpack).
ReadIsSent ==
    /\ result # NoMessage /\ copy = Pack(letter).packet =>
           /\ result.status = IF letter.source = "known" THEN "ok"
                              ELSE "unknown signer"
           /\ result.id = Unpack(Pack([letter EXCEPT !.stamp = << >>]).packet,
                                 {"known"}).id
    /\ result.status = "ok" =>
           result.message = [Given(letter) EXCEPT !.stamp = result.message.stamp]

\* The ticket the fields hold, read off the objects.
Tickets ==
    LET mine == {i \in 1..Len(field_list) :
                    /\ field_list[i][1].code \in {"fixint", "uint8"}
                    /\ field_list[i][1].data[1].n = TicketField}
        good(v) == /\ v.code \in Arrays /\ Len(v.parts) = 2
                   /\ v.parts[1].code \in {"fixint", "uint8", "double"}
                   /\ v.parts[1].data[1].n >= 0
                   /\ v.parts[1].code = "double" =>
                          v.parts[1].data[1].n < 2 * TimeLimit
                   /\ v.parts[2].code \in Strings
                   /\ Len(v.parts[2].data) = TicketLength
        value(i) == field_list[i][2].parts
        seconds(e) == IF e.code = "double" THEN e.data[1].n \div 2 ELSE e.data[1].n
    IN  IF mine = {} THEN Absent
        ELSE LET i == CHOOSE j \in mine : TRUE
             IN  IF mine # {i} \/ ~good(field_list[i][2]) THEN BadFields
                 ELSE [present |-> TRUE, expires_at |-> seconds(value(i)[1]),
                       ticket |-> value(i)[2].data]

\* The walker steps over exactly one object, whatever is nested in it and
\* whatever follows, refuses one nested too deep or cut short, and finds the
\* ticket that the fields hold: the pairs with the ticket's key, of which
\* there may be one (skip_obj, lxmf_fields_parse_ticket).
WalkExact ==
    LET w == Flat(FieldTree)
        fits == Deep(FieldTree) <= MaxNesting
    IN  copy = << >> =>
        /\ \A more \in {<< >>, <<T("fixarray", 2)>>} :
              SkipObj(w \o more, 1, 0) = IF fits THEN Len(w) + 1 ELSE 0
        /\ \A n \in 0..Len(w) - 1 : SkipObj(SubSeq(w, 1, n), 1, 0) = 0
        /\ fits => ParseTicket(w) = Tickets
        /\ (Pack(letter).status = "ok") <=> fits

\* Messages are read as they were written (both of the above).
EnvelopeExact == TypeOK /\ ReadIsSent /\ WalkExact
=============================================================================
