------------------------------- MODULE SerTlv -------------------------------
(***************************************************************************)
(* The encoding in which the events go to the browser (asn_tlv_codec.hpp): *)
(* the encoder, the decoder beside it, and the decoder of the page         *)
(* (combine_ser.js), which is another.  A string is the sequence of its    *)
(* bytes, and a record a function from the tags of its fields.  A call of  *)
(* a decoder is a record that DecodeStep takes one TLV further.            *)
(***************************************************************************)
EXTENDS Integers, Bytes, SequencesExt

CONSTANTS
  PageWord,     \* 2^32: the page computes a length with the operators of an int32
  TextDecode(_) \* TextDecoder.decode() of the browser: the text it makes of bytes

Byte == 0 .. 255
Fields == 128 .. 133        \* record_id, timestamp, status, description, relay_id, relay_name
RecordTag == 48
TopTag == 97

SerRecord == [Fields -> Seq(Byte)]
NoRecord == [f \in Fields |-> <<>>]

-----------------------------------------------------------------------------
(* The encoder *)

(* What is left of a length when its last k bytes have been shifted out. *)
Shifts(n) ==
  LET tmp[k \in 0 .. SizeBytes] == IF k = 0 THEN n ELSE tmp[k - 1] \div 256
  IN  tmp

(* berAppendLength(): one byte, or their number and the bytes that n takes. *)
BerLength(n) ==
  LET tmp == Shifts(n)
      count == CHOOSE c \in 1 .. SizeBytes : tmp[c] = 0 /\ tmp[c - 1] > 0
  IN  IF n < 128 THEN <<n>>
      ELSE <<128 + count>> \o [i \in 1 .. count |-> tmp[count - i] % 256]

BerTlv(tag, value) == <<tag>> \o BerLength(Len(value)) \o value

RecordValue(rec) == FlattenSeq([i \in 1 .. 6 |-> BerTlv(127 + i, rec[127 + i])])
EncodeRecord(rec) == BerTlv(RecordTag, RecordValue(rec))

(* encodeSerRecordsToTlv() *)
Content(records) == FlattenSeq([i \in 1 .. Len(records) |-> EncodeRecord(records[i])])
Encode(records) == BerTlv(TopTag, Content(records))

-----------------------------------------------------------------------------
(* Reading a TLV.  Failed stands for a return of false, or for a throw. *)

(* readLength(), in a word of word values *)
ReadLength(word, buffer, offset) ==
  LET first == At(buffer, offset)
      count == first - 128
  IN  IF offset >= Len(buffer) THEN Failed
      ELSE IF first < 128 THEN [ok |-> TRUE, length |-> first, next |-> offset + 1]
      ELSE IF count = 0 \/ offset + count >= Len(buffer) THEN Failed
      ELSE [ok |-> TRUE, next |-> offset + 1 + count,
            length |-> BigEndian(256, word, [k \in 1 .. count |-> At(buffer, offset + k)], count)]

(* readTlv() *)
ReadTlv(buffer, offset) ==
  LET l == ReadLength(SizeWord, buffer, offset + 1)
      end == (l.next + l.length) % SizeWord
  IN  IF offset >= Len(buffer) THEN Failed
      ELSE IF ~l.ok THEN Failed
      ELSE IF end > Len(buffer) THEN Failed
      ELSE [ok |-> TRUE, tag |-> At(buffer, offset), start |-> l.next, end |-> end]

(* _cserReadTlv().  Outside the buffer there is undefined, which as a      *)
(* length makes the offset NaN; and a length of 2^31 and more is negative. *)
NaN == 0 - 2 * PageWord
Before(offset, end) == offset # NaN /\ end # NaN /\ offset < end

PageReadTlv(buffer, offset) ==
  LET l == ReadLength(PageWord, buffer, offset + 1)
      length == IF 2 * l.length < PageWord THEN l.length ELSE l.length - PageWord
      tag == IF offset \in 0 .. Len(buffer) - 1 THEN At(buffer, offset) ELSE NaN
  IN  IF offset + 1 \notin 0 .. Len(buffer) - 1
      THEN [ok |-> TRUE, tag |-> tag, start |-> offset + 2, end |-> NaN]
      ELSE IF ~l.ok THEN Failed
      ELSE [ok |-> TRUE, tag |-> tag, start |-> l.next, end |-> l.next + length]

(* The string(data + valueStart, length); and buffer.slice(), for which a  *)
(* negative place counts from the buffer's end.                            *)
ValueOf(buffer, tlv) == SubSeq(buffer, tlv.start + 1, tlv.end)

Place(buffer, n) ==
  IF n = NaN THEN 0
  ELSE IF n >= Len(buffer) THEN Len(buffer)
  ELSE IF n >= 0 THEN n
  ELSE IF n + Len(buffer) > 0 THEN n + Len(buffer) ELSE 0

Slice(buffer, tlv) == SubSeq(buffer, Place(buffer, tlv.start) + 1, Place(buffer, tlv.end))

-----------------------------------------------------------------------------
(* decodeSerRecordsFromTlv(), and _cserDecodeTlv() when d.page, before it  *)
(* puts the fields into the table's columns.                               *)
Tlv(d, offset) ==
  IF d.page THEN PageReadTlv(d.buffer, offset) ELSE ReadTlv(d.buffer, offset)

(* A string of C++ has the bytes as they are; the page shows what its      *)
(* TextDecoder makes of them, which is not the same for what is no UTF-8.  *)
FieldText(d, tlv) ==
  IF d.page THEN TextDecode(Slice(d.buffer, tlv)) ELSE ValueOf(d.buffer, tlv)

DecodeStart(page, buffer) ==
  LET d == [status |-> "DECODING", page |-> page, buffer |-> buffer, offset |-> 0, end |-> 0,
            in_record |-> FALSE, field |-> 0, record_end |-> 0, rec |-> NoRecord, out |-> <<>>]
      top == Tlv(d, 0)
  IN  IF ~top.ok THEN [d EXCEPT !.status = "FAILED"]
      ELSE IF top.tag # TopTag THEN [d EXCEPT !.status = "FAILED"]
      ELSE [d EXCEPT !.offset = top.start, !.end = top.end]

(* The loop over the records. *)
SerRecordStep(d) ==
  LET tlv == Tlv(d, d.offset)
  IN  IF ~Before(d.offset, d.end) THEN [d EXCEPT !.status = "OK"]
      ELSE IF ~tlv.ok THEN [d EXCEPT !.status = "FAILED"]
      ELSE IF tlv.tag # RecordTag THEN [d EXCEPT !.offset = tlv.end]
      ELSE [d EXCEPT !.offset = tlv.end, !.in_record = TRUE, !.rec = NoRecord,
                     !.field = tlv.start, !.record_end = tlv.end]

(* The loop over the fields of a record: a field that comes again          *)
(* overwrites, a tag that is none of a field is skipped.                   *)
SerFieldStep(d) ==
  LET tlv == Tlv(d, d.field)
  IN  IF ~Before(d.field, d.record_end)
      THEN [d EXCEPT !.in_record = FALSE, !.out = Append(@, d.rec)]
      ELSE IF ~tlv.ok THEN [d EXCEPT !.status = "FAILED"]
      ELSE [d EXCEPT !.field = tlv.end,
                     !.rec = [f \in Fields |-> IF f = tlv.tag THEN FieldText(d, tlv) ELSE @[f]]]

DecodeStep(d) ==
  IF d.status # "DECODING" THEN d ELSE IF d.in_record THEN SerFieldStep(d) ELSE SerRecordStep(d)
=============================================================================
