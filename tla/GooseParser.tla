---------------------------- MODULE GooseParser -----------------------------
(***************************************************************************)
(* The parser of GOOSE PDUs (goose_parser.c).  A call of goose_parse_pdu() *)
(* is a record that GooseStep takes one TLV further, so that every moment  *)
(* of it can be spoken of: the fields and the elements of allData are the  *)
(* caller's arrays, as the sequences of what has been written to them, and *)
(* frames is the stack of the calls of parse_mms_sequence().  It reads BER *)
(* with the functions of asn1_ber.c.                                       *)
(***************************************************************************)
EXTENDS Integers, Bytes, SequencesExt

CONSTANT
  TagWord       \* the number of values of a uint32_t, in which a tag number is

-----------------------------------------------------------------------------
(* asn1_ber.c.  A window is the len bytes of the buffer buf from the byte  *)
(* from on (the pair of arguments buf and len in C), an offset lies within *)
(* it.                                                                     *)

(* ber_read_tag(): one byte; or, when its five low bits are set, the tag   *)
(* number follows in at most five bytes of seven bits, the last of which   *)
(* has its high bit clear.                                                 *)
BerReadTag(buf, from, len, off) ==
  LET byte(k) == At(buf, from + off + k)
      ends == {k \in 1 .. 5 : /\ off + k < len
                              /\ byte(k) < 128
                              /\ \A j \in 1 .. k - 1 : byte(j) >= 128}
      Tag(number, next) ==
        [ok |-> TRUE, octet |-> byte(0), class |-> byte(0) \div 64,
         constructed |-> (byte(0) \div 32) % 2 = 1, number |-> number, next |-> next]
  IN  IF off >= len THEN Failed
      ELSE IF byte(0) % 32 # 31 THEN Tag(byte(0) % 32, off + 1)
      ELSE IF ends = {} THEN Failed
      ELSE LET last == CHOOSE k \in ends : TRUE
           IN  Tag(BigEndian(128, TagWord, [k \in 1 .. last |-> byte(k) % 128], last),
                   off + last + 1)

(* ber_read_length(): one byte below 128, or their number and that many    *)
(* bytes; none at all (an indefinite length) is refused.                   *)
BerReadLength(buf, from, len, off) ==
  LET first == At(buf, from + off)
      nbytes == first - 128
  IN  IF off >= len THEN Failed
      ELSE IF first < 128 THEN [ok |-> TRUE, length |-> first, next |-> off + 1]
      ELSE IF nbytes = 0 \/ nbytes > SizeBytes \/ off + 1 + nbytes > len THEN Failed
      ELSE [ok |-> TRUE, next |-> off + 1 + nbytes,
            length |-> BigEndian(256, SizeWord,
                                 [k \in 1 .. nbytes |-> At(buf, from + off + k)], nbytes)]

(* ber_next_tlv(); tlv and value are places in buf.  The sum that is       *)
(* compared with the window's length is one of size_t: of a length near    *)
(* the largest size_t it starts again from 0.  The record keeps, for the   *)
(* properties, what the sum would be without that.                         *)
BerNextTlv(buf, from, len, off) ==
  LET tag == BerReadTag(buf, from, len, off)
      length == BerReadLength(buf, from, len, tag.next)
      sum == length.next + length.length
      end == sum % SizeWord
  IN  IF ~tag.ok THEN Failed
      ELSE IF ~length.ok THEN Failed
      ELSE IF end > len THEN Failed
      ELSE [ok |-> TRUE, tag |-> tag, tlv |-> from + off,
            tlv_len |-> (length.next - off + length.length) % SizeWord,
            value |-> from + length.next, value_len |-> length.length, next |-> end,
            sum |-> sum]

-----------------------------------------------------------------------------
(* The fields and the types of a PDU *)

(* GOOSE_FID_ALLDATA and GOOSE_FID_UNKNOWN *)
AllData == 11
UnknownField == 255

(* goose_field_from_context_tagnum() *)
GooseField(number) == IF number <= 11 THEN number ELSE UnknownField

(* mms_type_from_tag_octet() *)
MmsType(octet) ==
  CASE octet = 129 -> "ARRAY"          [] octet = 130 -> "STRUCTURE"
    [] octet = 131 -> "BOOLEAN"        [] octet = 132 -> "BIT_STRING"
    [] octet = 133 -> "INTEGER"        [] octet = 134 -> "UNSIGNED"
    [] octet = 135 -> "FLOATING_POINT" [] octet = 137 -> "OCTET_STRING"
    [] octet = 138 -> "VISIBLE_STRING" [] octet = 140 -> "TIME_OF_DAY"
    [] octet = 141 -> "BCD"            [] octet = 142 -> "BOOLEAN_ARRAY"
    [] octet = 145 -> "UTC_TIME"       [] OTHER       -> "UNKNOWN"

IsGoose(tlv) == tlv.tag.class = 1 /\ tlv.tag.constructed /\ tlv.tag.number = 1

(* goose_find_pdu(): the first place where a PDU can be read. *)
GooseFindPdu(buf) ==
  LET len == Len(buf)
      places == {i \in 0 .. len - 3 : /\ At(buf, i) = 97
                                      /\ BerNextTlv(buf, 0, len, i).ok
                                      /\ IsGoose(BerNextTlv(buf, 0, len, i))}
  IN  IF places = {} THEN [status |-> "ERR_NOT_GOOSE"]
      ELSE LET i == CHOOSE i \in places : \A j \in places : i <= j
           IN  [status |-> "OK", pdu |-> i, pdu_len |-> BerNextTlv(buf, 0, len, i).tlv_len]

-----------------------------------------------------------------------------
(* goose_parse_pdu(), the PDU being len bytes of buf from the byte pdu on. *)
(* inner and inner_len are the part of its value that is still unread.     *)
(* sums is no variable of the program: whether a sum of ber_next_tlv() has *)
(* wrapped in a TLV that the call has accepted.                            *)
Sums(tlv, before) == IF tlv.sum < SizeWord THEN before ELSE "WRAPPED"

GooseStart(buf, pdu, len, field_capacity, mms_capacity) ==
  LET outer == BerNextTlv(buf, pdu, len, 0)
      Start(status, inner, inner_len, sums) ==
        [status |-> status, buf |-> buf, inner |-> inner, inner_len |-> inner_len,
         fields |-> <<>>, field_capacity |-> field_capacity, field_count |-> field_capacity,
         mms |-> <<>>, mms_cnt |-> mms_capacity, frames |-> <<>>, sums |-> sums]
  IN  IF ~outer.ok THEN Start("ERR_BER", pdu, 0, "EXACT")
      ELSE IF ~IsGoose(outer) THEN Start("ERR_NOT_GOOSE", pdu, 0, "EXACT")
      ELSE Start("PARSING", outer.value, outer.value_len, Sums(outer, "EXACT"))

(* A call of parse_mms_sequence(): its window, its offset, and the offset  *)
(* before the last TLV.  How many calls are below it is its depth.         *)
Frame(from, len, parent) ==
  [from |-> from, len |-> len, off |-> 0, before |-> -1, parent |-> parent]

Returns(p, status) == [p EXCEPT !.status = status]

(* The loop over the fields of the PDU.  A TLV that cannot be read ends it *)
(* as its end does, and only there the caller is told the number of fields.*)
FieldStep(p) ==
  LET tlv == BerNextTlv(p.buf, p.inner, p.inner_len, 0)
      id == IF tlv.tag.class = 2 THEN GooseField(tlv.tag.number) ELSE UnknownField
      field == [id |-> id, tag_octet |-> tlv.tag.octet,
                value |-> tlv.value, value_len |-> tlv.value_len]
  IN  IF p.inner_len = 0 \/ ~tlv.ok
      THEN [p EXCEPT !.status = "OK", !.field_count = Len(p.fields)]
      ELSE IF Len(p.fields) >= p.field_capacity THEN Returns(p, "ERR_TOO_MANY_FIELDS")
      ELSE [p EXCEPT !.inner = @ + tlv.tlv_len,
                     !.inner_len = (@ - tlv.tlv_len) % SizeWord,
                     !.fields = Append(@, field),
                     !.frames = IF id = AllData
                                THEN <<Frame(tlv.value, tlv.value_len, -1)>> ELSE <<>>,
                     !.sums = Sums(tlv, @)]

(* The loop of parse_mms_sequence(), in the call on top of the stack.  The *)
(* array is filled from its end, mms_cnt being the slots left in it; and a *)
(* TLV that did not move the offset is noticed when the loop goes round.   *)
MmsStep(p) ==
  LET n == Len(p.frames)
      top == p.frames[n]
      tlv == BerNextTlv(p.buf, top.from, top.len, top.off)
      element == [index |-> p.mms_cnt - 1, depth |-> n - 1, parent_index |-> top.parent,
                  type |-> MmsType(tlv.tag.octet), tag_octet |-> tlv.tag.octet,
                  value |-> tlv.value, value_len |-> tlv.value_len]
      moved == [p.frames EXCEPT ![n] = [@ EXCEPT !.before = top.off, !.off = tlv.next]]
  IN  IF top.before = top.off THEN Returns(p, "ERR_BER")
      ELSE IF top.off >= top.len THEN [p EXCEPT !.frames = Front(@)]
      ELSE IF ~tlv.ok THEN Returns(p, "ERR_BER")
      ELSE IF p.mms_cnt = 0 THEN Returns(p, "ERR_TOO_MANY_MMS")
      ELSE [p EXCEPT !.mms = Append(@, element),
                     !.mms_cnt = @ - 1,
                     !.frames = IF tlv.tag.constructed
                                THEN Append(moved, Frame(tlv.value, tlv.value_len, p.mms_cnt - 1))
                                ELSE moved,
                     !.sums = Sums(tlv, @)]

GooseStep(p) ==
  IF p.status # "PARSING" THEN p
  ELSE IF p.frames = <<>> THEN FieldStep(p) ELSE MmsStep(p)

-----------------------------------------------------------------------------
(* goose_decode_unsigned(), in a word of word values; and                  *)
(* goose_decode_boolean().                                                 *)
DecodeUnsigned(word, value) ==
  IF value = <<>> \/ Len(value) > 8 THEN Failed
  ELSE [ok |-> TRUE, out |-> BigEndian(256, word, value, Len(value))]

DecodeBoolean(value) ==
  IF Len(value) # 1 THEN Failed ELSE [ok |-> TRUE, out |-> value[1] # 0]

-----------------------------------------------------------------------------
(* What a caller may rely on, of every moment of a call: of the slots      *)
(* always, of the rest unless a sum has wrapped.                           *)

EndOf(e) == e.value + e.value_len

(* e was read in the value of outer. *)
Within(e, outer) == outer.value + 2 <= e.value /\ EndOf(e) <= EndOf(outer)

(* The elements are a tree: one without a parent lies in an allData field, *)
(* at depth 0, and any other in the value of the element that its          *)
(* parent_index names, which was written before it, one level deeper.      *)
ElementsNest(p) ==
  \A k \in 1 .. Len(p.mms) :
    LET e == p.mms[k]
    IN  \/ /\ e.parent_index = -1 /\ e.depth = 0
           /\ \E f \in 1 .. Len(p.fields) : /\ p.fields[f].id = AllData
                                            /\ Within(e, p.fields[f])
        \/ \E j \in 1 .. k - 1 : /\ p.mms[j].index = e.parent_index
                                 /\ e.depth = p.mms[j].depth + 1
                                 /\ Within(e, p.mms[j])

(* They are in the order of the PDU, none written over another: of two, the *)
(* later lies within the earlier or behind it.                              *)
ElementsInOrder(p) ==
  \A j, k \in 1 .. Len(p.mms) :
    j < k => Within(p.mms[k], p.mms[j]) \/ EndOf(p.mms[j]) + 2 <= p.mms[k].value

(* Every element has a slot of its own, from the array's end downwards. *)
SlotsFromTheEnd(p, mms_capacity) ==
  /\ p.mms_cnt = mms_capacity - Len(p.mms) /\ p.mms_cnt >= 0
  /\ \A k \in 1 .. Len(p.mms) : p.mms[k].index = mms_capacity - k

(* All that the caller is handed lies in the PDU. *)
ReferencesInside(p) ==
  /\ \A k \in 1 .. Len(p.fields) : EndOf(p.fields[k]) <= Len(p.buf)
  /\ \A k \in 1 .. Len(p.mms) : EndOf(p.mms[k]) <= Len(p.buf)

(* What the parser types as an Array or a Structure has no children: the   *)
(* tags 0x81 and 0x82 are primitive ones, and only a constructed TLV is    *)
(* entered, whose type is then unknown.                                    *)
TypedAreLeaves(p) ==
  \A j, k \in 1 .. Len(p.mms) :
    p.mms[k].parent_index = p.mms[j].index => p.mms[j].type = "UNKNOWN"
=============================================================================
