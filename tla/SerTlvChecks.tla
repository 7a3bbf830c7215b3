---------------------------- MODULE SerTlvChecks ----------------------------
(***************************************************************************)
(* What the encoding of SerTlv promises, over records the lengths of which *)
(* lie on both sides of the places where the form of a length changes.     *)
(***************************************************************************)
EXTENDS Integers, Sequences

(* The characters that TextDecoder makes of the strings below: bytes of    *)
(* 128 and more are no UTF-8 in them, and each becomes U+FFFD.             *)
Utf8Text(bytes) == [i \in 1 .. Len(bytes) |-> IF bytes[i] < 128 THEN bytes[i] ELSE 65533]

LOCAL INSTANCE SerTlv WITH SizeBytes <- 3, SizeWord <- 2 ^ 22, PageWord <- 2 ^ 22,
                           TextDecode <- Utf8Text

(* A call of a decoder: its steps until it returns. *)
RECURSIVE Decoded(_)
Decoded(d) == IF d.status # "DECODING" THEN d ELSE Decoded(DecodeStep(d))
Decode(buffer) == Decoded(DecodeStart(FALSE, buffer))
PageDecode(buffer) == Decoded(DecodeStart(TRUE, buffer))
Returned(d, table) == d.status = "OK" /\ d.out = table

Lengths8 == {0, 1, 127, 128, 129, 255, 256, 257, 65535, 65536}

(* Strings of bytes that are tags and lengths elsewhere. *)
Text(byte, n) == [i \in 1 .. n |-> byte]
Records ==
  {[f \in Fields |-> IF f = 131 THEN Text(byte, n) ELSE Text(f, 1)] :
     byte \in {0, 48, 97, 128, 255}, n \in {0, 1, 106, 107, 108, 127, 128, 256}}
  \union {NoRecord}
Tables ==
  {<<>>} \union {<<rec>> : rec \in Records}
    \union {<<rec, NoRecord, [NoRecord EXCEPT ![128] = Text(48, 2)]>> : rec \in Records}

(* A length is read back as it was appended, and the reader is behind it. *)
ASSUME LengthsReadBack ==
  \A n \in Lengths8 :
    LET buffer == <<RecordTag>> \o BerLength(n)
    IN  ReadLength(2 ^ 22, buffer, 1) = [ok |-> TRUE, length |-> n, next |-> Len(buffer)]

(* What encodeSerRecordsToTlv() has written, decodeSerRecordsFromTlv()     *)
(* reads; and the page, a program of its own, reads of every field the     *)
(* text that it makes of the field's bytes.                                *)
ASSUME TablesReadBack ==
  \A table \in Tables :
    /\ Returned(Decode(Encode(table)), table)
    /\ Returned(PageDecode(Encode(table)),
                [i \in 1 .. Len(table) |-> [f \in Fields |-> Utf8Text(table[i][f])]])

(* A payload that has been cut short is refused by the decoder in C++, and *)
(* one with bytes behind it is read all the same.  The page does not       *)
(* refuse: it may show the records before the cut, and a part of one.      *)
ASSUME CutIsRefused ==
  \A table \in {t \in Tables : Len(Encode(t)) < 150} :
    LET payload == Encode(table)
    IN  /\ \A n \in 0 .. Len(payload) - 1 : Decode(SubSeq(payload, 1, n)).status = "FAILED"
        /\ Returned(Decode(payload \o <<0>>), table)

ASSUME CutIsShown ==
  LET payload == Encode(<<[NoRecord EXCEPT ![128] = Text(49, 2)], NoRecord>>)
      cut == PageDecode(SubSeq(payload, 1, Len(payload) - 4))
  IN  cut.status = "OK" /\ cut.out[1][128] = Text(49, 2)
=============================================================================
