---------------------------- MODULE GooseChecks -----------------------------
(***************************************************************************)
(* What the GOOSE parser promises, over small PDUs of every shape: sound,  *)
(* cut short, with lengths that lie, nested, with too small an array.      *)
(***************************************************************************)
EXTENDS Integers, Sequences, FiniteSets

LOCAL INSTANCE GooseParser WITH SizeBytes <- 2, SizeWord <- 65536, TagWord <- 2 ^ 20

Strings(bytes, n) == UNION {[1 .. k -> bytes] : k \in 0 .. n}

(* 0x80 gocbRef, 0xAB allData, 0x81 an Array, 0xA2 a constructed TLV, 0x83 *)
(* a Boolean, and small numbers, which are lengths and values.             *)
Pdus ==
  {<<97, Len(s)>> \o s : s \in Strings({171, 129, 162, 0, 2, 4}, 5)}
    \union {<<97, Len(s) + 2, 171, Len(s)>> \o s : s \in Strings({162, 131, 0, 1, 2, 3, 4}, 5)}

(* The call of goose_parse_pdu(): its steps until it returns. *)
RECURSIVE Parsed(_)
Parsed(p) == IF p.status # "PARSING" THEN p ELSE Parsed(GooseStep(p))
Parse(pdu, field_capacity, mms_capacity) ==
  Parsed(GooseStart(pdu, 0, Len(pdu), field_capacity, mms_capacity))

(* What the caller of one of these has been handed is a tree of elements,  *)
(* in order, each in a slot of its own.                                    *)
ASSUME GooseTree ==
  \A pdu \in Pdus, capacity \in {0, 1, 3} :
    LET p == Parse(pdu, 2, capacity)
    IN  /\ ElementsNest(p)
        /\ ElementsInOrder(p)
        /\ SlotsFromTheEnd(p, capacity)
        /\ ReferencesInside(p)
        /\ TypedAreLeaves(p)
        /\ p.sums = "EXACT"

(* Among them are trees with a branch, and every way to return. *)
ASSUME GooseCases ==
  LET calls == {Parse(pdu, 1, capacity) : pdu \in Pdus, capacity \in {1, 2}}
  IN  /\ {p.status : p \in calls} = {"OK", "ERR_BER", "ERR_TOO_MANY_FIELDS", "ERR_TOO_MANY_MMS"}
      /\ \E p \in calls : \E k \in 1 .. Len(p.mms) : p.mms[k].depth = 1

(* The first test of test_main.c, and the fields and elements it prints.   *)
(* The elements are in the array's last slots.                             *)
Sample ==
  <<97, 24, 128, 4, 84, 69, 83, 84, 129, 2, 3, 232, 138, 1, 2, 171, 9,
    131, 1, 1, 134, 4, 0, 0, 0, 42>>

ASSUME GooseSample ==
  LET p == Parse(Sample, 32, 64)
      Value(ref) == SubSeq(Sample, ref.value + 1, ref.value + ref.value_len)
  IN  /\ p.status = "OK" /\ p.field_count = 4 /\ p.mms_cnt = 62
      /\ [k \in 1 .. 4 |-> p.fields[k].id] = <<0, 1, 10, 11>>
      /\ DecodeUnsigned(65536, Value(p.fields[2])) = [ok |-> TRUE, out |-> 1000]
      /\ [k \in 1 .. 2 |-> <<p.mms[k].index, p.mms[k].type>>]
           = <<<<63, "BOOLEAN">>, <<62, "UNSIGNED">>>>
      /\ DecodeBoolean(Value(p.mms[1])) = [ok |-> TRUE, out |-> TRUE]
      /\ DecodeUnsigned(65536, Value(p.mms[2])) = [ok |-> TRUE, out |-> 42]

(* Its second test: a PDU behind other bytes.  The last two bytes of a     *)
(* buffer are not looked at, though they may be a PDU.                     *)
ASSUME GooseFound ==
  /\ GooseFindPdu(<<0, 1, 2, 3, 97, 2, 128, 0>>) = [status |-> "OK", pdu |-> 4, pdu_len |-> 4]
  /\ Parse(<<97, 0>>, 1, 1).status = "OK"
  /\ GooseFindPdu(<<0, 97, 0>>).status = "ERR_NOT_GOOSE"

(* A field that is cut short ends the PDU without an error, an element that *)
(* is cut short does not.                                                   *)
ASSUME GooseCut ==
  /\ Parse(<<97, 3, 128, 4, 65>>, 1, 1).status = "OK"
  /\ Parse(<<97, 5, 171, 3, 131, 4, 65>>, 1, 1).status = "ERR_BER"

(* A length so near the largest size_t that the sum of ber_next_tlv() is 0 *)
(* takes the parser back to the first element.  It returns when the array  *)
(* is full, and only of the slots does the caller know what it knew.       *)
ASSUME GooseWrapped ==
  LET p == Parse(<<97, 8, 171, 6, 131, 0, 131, 130, 255, 250>>, 2, 5)
  IN  /\ p.status = "ERR_TOO_MANY_MMS" /\ p.sums = "WRAPPED"
      /\ SlotsFromTheEnd(p, 5)
      /\ ~ReferencesInside(p) /\ ~ElementsInOrder(p)
=============================================================================
