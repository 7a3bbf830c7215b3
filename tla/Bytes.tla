------------------------------- MODULE Bytes --------------------------------
(***************************************************************************)
(* Reading in a buffer of bytes, as both decoders of BER do: a buffer is   *)
(* the sequence of its bytes, an offset counts from 0, and a number of     *)
(* several bytes is built up in a word of the machine.                     *)
(***************************************************************************)
EXTENDS Naturals, Sequences

CONSTANTS
  SizeBytes,    \* sizeof(size_t)
  SizeWord      \* the number of values of a size_t

(* buffer[offset] *)
At(buffer, offset) == buffer[offset + 1]

(* What a reader that returns false leaves. *)
Failed == [ok |-> FALSE]

(* The number of the digits digit[1] .. digit[n], in a word of word values: *)
(* value = (value << bits) | digit, once for each of them.                  *)
BigEndian(base, word, digit, n) ==
  LET value[k \in 0 .. n] ==
        IF k = 0 THEN 0 ELSE (value[k - 1] * base + digit[k]) % word
  IN  value[n]
=============================================================================
