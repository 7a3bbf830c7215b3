------------------------------ MODULE PageRing ------------------------------
(***************************************************************************)
(* The ring of ring_buffer.js, in a SharedArrayBuffer between the Web      *)
(* Worker that writes (ser_worker.js) and the page that reads.  No lock:   *)
(* both threads work on the positions with atomic loads and stores, and    *)
(* on the bytes with plain ones.  One slot of the readers' table is        *)
(* modelled: each page has a ring of its own and registers once.           *)
(*                                                                         *)
(* A payload is a snapshot of the table, the version of which stands for   *)
(* its bytes; a cell of the ring knows of which record it is a byte.       *)
(***************************************************************************)
EXTENDS Naturals

CONSTANTS
  Capacity,       \* bytes of the data ring
  Prefix,         \* bytes of a length (4 in the code)
  Sizes,          \* the snapshots: Sizes[v] is the number of bytes of version v
  Junk            \* what bytes that are no length may read as

ASSUME RingAssumption ==
  /\ Capacity \in Nat /\ Prefix \in Nat \ {0} /\ Prefix < Capacity
  /\ Sizes \in [DOMAIN Sizes -> Nat] /\ DOMAIN Sizes # {}
  /\ Junk \subseteq Nat

Versions == DOMAIN Sizes
Record(v) == Prefix + Sizes[v]

Inactive == Capacity            \* -1 of the code
Nothing == [whole |-> FALSE, of |-> {}]

VARIABLES
  mem,            \* the data ring: mem[p] = <<v, i>>, byte i of a record of v; <<>>: never written
  writePos,
  readPos,        \* the reader's slot
  signalled,      \* the signal counter is not what the reader saw last
  wpc,            \* the writer: "idle", or where it is in writePayload()
  writing,        \* the version it writes, ...
  target,         \* ... its copy of writePos, ...
  slowest,        \* ... the position it drops from, ...
  skipTo,         \* ... and where the reader will go on
  rpc,            \* the reader: "off", "wait", or where it is in readPayload()
  from,           \* its copy of readPos, 0 out of the call, ...
  next,           \* ... the position it will store, ...
  length,         \* ... the length it read (0: it returns null), ...
  payload         \* ... and what it copied: a snapshot as it was written, or bytes `of' some

ring == <<mem, writePos, readPos, signalled>>
writer == <<wpc, writing, target, slowest, skipTo>>
reader == <<rpc, from, next, length, payload>>

Positions == 0 .. Capacity - 1

RingTypeOK ==
  /\ mem \in [Positions -> {<<>>} \union (Versions \X Nat)]
  /\ writePos \in Positions /\ readPos \in Positions \union {Inactive}
  /\ signalled \in BOOLEAN
  /\ wpc \in {"idle", "free", "drop", "compare", "move", "put", "publish", "notify"}
  /\ writing \in Versions
  /\ target \in Positions /\ slowest \in Positions /\ skipTo \in Positions
  /\ rpc \in {"off", "wait", "begin", "look", "copy", "store", "decode"}
  /\ from \in Positions /\ next \in Positions
  /\ length \in 0 .. Capacity
  /\ payload \in [whole : BOOLEAN, of : SUBSET Versions]

RingInit ==
  /\ mem = [p \in Positions |-> <<>>]
  /\ writePos = 0 /\ readPos = Inactive /\ signalled = FALSE
  /\ wpc = "idle" /\ writing = CHOOSE v \in Versions : TRUE
  /\ target = 0 /\ slowest = 0 /\ skipTo = 0
  /\ rpc = "off" /\ from = 0 /\ next = 0 /\ length = 0 /\ payload = Nothing

Wrap(p) == IF p >= Capacity THEN 0 ELSE p

(* The n bytes from p are read while the writer is at them: some are old,  *)
(* some new.                                                               *)
Racing(p, n) == wpc = "put" /\ p < target + Record(writing) /\ target < p + n

(* readLength(p): a length that is there whole, nothing but zeros, or      *)
(* bytes of something else.                                                *)
Lengths(p) ==
  LET cells == {mem[p + i] : i \in 0 .. Prefix - 1}
      there == IF cells = {<<>>} THEN {0}
               ELSE IF \E v \in Versions : \A i \in 0 .. Prefix - 1 : mem[p + i] = <<v, i>>
                    THEN {Sizes[mem[p][1]]}
                    ELSE Junk
  IN  IF Racing(p, Prefix) THEN there \union Junk ELSE there

NoLength(n) == n = 0 \/ n > Capacity - Prefix

-----------------------------------------------------------------------------
(* writePayload(v), step by step *)

(* The lengths that can be written at all; and where. *)
WriteBegins(v) ==
  /\ wpc = "idle" /\ Sizes[v] # 0 /\ Sizes[v] <= Capacity - Prefix
  /\ writing' = v
  /\ target' = IF writePos + Record(v) > Capacity THEN 0 ELSE writePos
  /\ wpc' = "free"
  /\ UNCHANGED <<slowest, skipTo, ring, reader>>

(* Bytes that the reader has before it, seen from w. *)
Used(w) ==
  IF readPos = Inactive THEN 0
  ELSE IF w >= readPos THEN w - readPos ELSE Capacity - (readPos - w)

(* freeBytes(), again after every drop. *)
Free ==
  /\ wpc = "free"
  /\ wpc' = IF Capacity - Used(target) >= Record(writing) THEN "put" ELSE "drop"
  /\ UNCHANGED <<writing, target, slowest, skipTo, ring, reader>>

(* dropOldestForSlowest(): the reader's position is loaded and the length  *)
(* there is read, ...                                                      *)
Drop ==
  /\ wpc = "drop"
  /\ LET pos == IF readPos + Prefix > Capacity THEN 0 ELSE readPos
     IN  IF Used(target) = 0 \/ (pos # readPos /\ pos = target)
         THEN wpc' = "free" /\ UNCHANGED <<slowest, skipTo>>
         ELSE /\ slowest' = readPos
              /\ \E n \in Lengths(pos) :
                   skipTo' = IF NoLength(n) THEN target ELSE Wrap(pos + Prefix + n)
              /\ wpc' = "compare"
  /\ UNCHANGED <<writing, target, ring, reader>>

(* ... a reader that is still there ... *)
Compare ==
  /\ wpc = "compare"
  /\ wpc' = IF readPos = slowest THEN "move" ELSE "free"
  /\ UNCHANGED <<writing, target, slowest, skipTo, ring, reader>>

(* ... is moved, wherever it has got to since. *)
Move ==
  /\ wpc = "move"
  /\ readPos' = skipTo /\ wpc' = "free"
  /\ UNCHANGED <<mem, writePos, signalled, writing, target, slowest, skipTo, reader>>

(* writeLength() and data.set() *)
Put ==
  /\ wpc = "put"
  /\ mem' = [p \in Positions |->
               IF p \in target .. target + Record(writing) - 1
               THEN <<writing, p - target>> ELSE mem[p]]
  /\ wpc' = "publish"
  /\ UNCHANGED <<writePos, readPos, signalled, writing, target, slowest, skipTo, reader>>

Publish ==
  /\ wpc = "publish"
  /\ writePos' = Wrap(target + Record(writing))
  /\ wpc' = "notify"
  /\ UNCHANGED <<mem, readPos, signalled, writing, target, slowest, skipTo, reader>>

(* Mutant: no signal when the reader had something to read. *)
NotifyWhenEmpty ==
  /\ wpc = "notify" /\ wpc' = "idle"
  /\ signalled' = (signalled \/ readPos = target)
  /\ UNCHANGED <<mem, writePos, readPos, writing, target, slowest, skipTo, reader>>

(* Atomics.add() and notify() *)
Notify ==
  /\ wpc = "notify" /\ wpc' = "idle"
  /\ signalled' = TRUE
  /\ UNCHANGED <<mem, writePos, readPos, writing, target, slowest, skipTo, reader>>

Write == Free \/ Drop \/ Compare \/ Move \/ Put \/ Publish \/ Notify

-----------------------------------------------------------------------------
(* The reader: registerReader(), unregisterReader(), and readPayload()     *)
(* called until it returns null                                            *)

Register ==
  /\ readPos' = writePos /\ signalled' = FALSE
  /\ rpc' = "wait"
  /\ UNCHANGED <<mem, writePos, writer, from, next, length, payload>>

Unregister ==
  /\ readPos' = Inactive
  /\ UNCHANGED <<mem, writePos, signalled, writer, reader>>

(* The pump has seen that the counter moved. *)
Wake ==
  /\ rpc = "wait" /\ signalled
  /\ signalled' = FALSE /\ rpc' = "begin"
  /\ UNCHANGED <<mem, writePos, readPos, writer, from, next, length, payload>>

(* Its position is loaded, ... *)
ReadBegins ==
  /\ rpc = "begin"
  /\ from' = readPos /\ rpc' = "look"
  /\ UNCHANGED <<ring, writer, next, length, payload>>

(* The place it would read from, and the length there, given that a record *)
(* which does not fit before the end begins at 0, unless the writer is     *)
(* there.                                                                  *)
Places ==
  LET pos == IF from + Prefix > Capacity THEN 0 ELSE from
  IN  {[pos |-> pos, len |-> n] :
         n \in {k \in Lengths(pos) : ~NoLength(k) => pos + Prefix + k <= Capacity}}
      \union
      {[pos |-> 0, len |-> n] :
         n \in {k \in IF writePos = 0 THEN {0} ELSE Lengths(0) :
                                   \E j \in Lengths(pos) :
                                     ~NoLength(j) /\ pos + Prefix + j > Capacity}}

(* What readPayload() knew is gone when it returns. *)
Forget == from' = 0 /\ next' = 0 /\ length' = 0

(* ... then the writer's and the length. *)
Look ==
  /\ rpc = "look"
  /\ \/ /\ from = writePos
        /\ rpc' = "wait" /\ Forget
     \/ /\ from # writePos /\ UNCHANGED from
        /\ \E place \in Places :
             IF NoLength(place.len)
             THEN next' = writePos /\ length' = 0 /\ rpc' = "store"
             ELSE /\ next' = place.pos /\ length' = place.len
                  /\ rpc' = "copy"
  /\ UNCHANGED <<ring, writer, payload>>

(* slice(): the bytes as they are now, which may have been overwritten or  *)
(* be overwritten meanwhile.                                               *)
IsWhole == \E v \in Versions :
             /\ Sizes[v] = length
             /\ \A i \in 0 .. length - 1 : mem[next + Prefix + i] = <<v, Prefix + i>>

Owners == {v \in Versions : \E i \in 0 .. length - 1 : LET cell == mem[next + Prefix + i]
                                                       IN  cell # <<>> /\ cell[1] = v}

Copy ==
  /\ rpc = "copy"
  /\ \/ payload' = [whole |-> IsWhole, of |-> Owners]
     \/ /\ Racing(next + Prefix, length)
        /\ payload' = [whole |-> FALSE, of |-> Owners \union {writing}]
  /\ next' = Wrap(next + Prefix + length)
  /\ rpc' = "store"
  /\ UNCHANGED <<ring, writer, from, length>>

Store ==
  /\ rpc = "store"
  /\ readPos' = next
  /\ rpc' = IF length = 0 THEN "wait" ELSE "decode"
  /\ Forget
  /\ UNCHANGED <<mem, writePos, signalled, writer, payload>>

Read == ReadBegins \/ Look \/ Copy \/ Store

=============================================================================
