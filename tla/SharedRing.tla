----------------------------- MODULE SharedRing -----------------------------
(***************************************************************************)
(* SharedRingBuffer (shared_memory/shared_ring_buffer.hpp): a ring of      *)
(* bytes in shared memory, through which processing workers hand encoded   *)
(* records to readers in other processes.  A record is a length prefix and *)
(* a payload, and never wraps around the end: one that does not fit there  *)
(* goes to the start.  The interprocess mutex makes each operation one     *)
(* step, except that write() is shown drop by drop while it holds the      *)
(* mutex.                                                                  *)
(***************************************************************************)
EXTENDS Integers, Sequences

CONSTANTS
  MaxReaders,   \* kMaxReaders
  Capacity,     \* header_->capacity, in bytes
  HeaderSize,   \* kHeaderSize, the bytes of a length prefix
  Lengths,      \* payload lengths that writers ask for
  MaxWrites     \* bound of the model: records ever written

MaxPayloadSize == Capacity - HeaderSize

(* The constructor wants room for more than a prefix; write() refuses      *)
(* other lengths before it does anything.                                  *)
ASSUME SharedRingAssumption ==
  /\ MaxReaders \in Nat
  /\ HeaderSize \in Nat \ {0}
  /\ Capacity \in Nat /\ Capacity > HeaderSize
  /\ Lengths \subseteq 1 .. MaxPayloadSize
  /\ MaxWrites \in Nat

ReaderId == 0 .. MaxReaders - 1
Positions == 0 .. Capacity - 1

(* A byte of the ring: byte k of record m, whose payload has len bytes.    *)
(* The ring starts out zeroed.                                             *)
Zero == [m |-> 0, k |-> 0, len |-> 0]
Bytes == [m : Nat, k : Nat, len : Nat]

VARIABLES
  buffer,         \* buffer_
  write_pos,      \* header_->write_pos
  total_writes,   \* header_->total_writes
  drop_count,     \* header_->drop_count
  overwrite_flag, \* header_->overwrite_flag
  active,         \* header_->readers[r].active
  read_pos,       \* header_->readers[r].read_pos
  total_reads,    \* header_->readers[r].total_reads
  job             \* the write() that holds the mutex: where its record goes and the
                  \* length of its payload (0: the mutex is free)

(* History, which no action reads: *)
VARIABLES
  refused,        \* write() has returned false for a legal length
  top,            \* where the writer last went back to the start
  since,          \* since[r]: total_writes when reader r registered
  got             \* got[r]: the records given to r since, 0 for one that is torn

header == <<write_pos, total_writes, drop_count, overwrite_flag>>
readers == <<active, read_pos, total_reads>>
vars == <<buffer, write_pos, total_writes, drop_count, overwrite_flag, active, read_pos,
          total_reads, job, refused, top, since, got>>

TypeOK ==
  /\ buffer \in [Positions -> Bytes]
  /\ write_pos \in Positions
  /\ total_writes \in Nat /\ drop_count \in Nat /\ overwrite_flag \in BOOLEAN
  /\ active \in [ReaderId -> BOOLEAN]
  /\ read_pos \in [ReaderId -> Positions]
  /\ total_reads \in [ReaderId -> Nat]
  /\ job \in [pos : Positions, len : 0 .. MaxPayloadSize]
  /\ job.pos + HeaderSize + job.len <= Capacity
  /\ refused \in BOOLEAN /\ top \in 0 .. Capacity
  /\ since \in [ReaderId -> Nat] /\ got \in [ReaderId -> Seq(Nat)]

Free == [pos |-> 0, len |-> 0]

Init ==
  /\ buffer = [p \in Positions |-> Zero]
  /\ write_pos = 0 /\ total_writes = 0 /\ drop_count = 0 /\ overwrite_flag = FALSE
  /\ active = [r \in ReaderId |-> FALSE]
  /\ read_pos = [r \in ReaderId |-> 0]
  /\ total_reads = [r \in ReaderId |-> 0]
  /\ job = Free
  /\ refused = FALSE /\ top = 0
  /\ since = [r \in ReaderId |-> 0] /\ got = [r \in ReaderId |-> <<>>]

-----------------------------------------------------------------------------
(* Helpers *)

(* Mutants, which no behaviour of the specification uses: a reader that    *)
(* has read everything taken for one that has read nothing; room for the   *)
(* payload only.                                                           *)
UsedWhenEqual(rp, wp) == IF wp > rp THEN wp - rp ELSE Capacity - (rp - wp)

FitsPayloadOnly(wp, n) ==
  \A r \in ReaderId : active[r] =>
    LET rp == IF read_pos[r] > MaxPayloadSize THEN 0 ELSE read_pos[r]
    IN  n <= Capacity - (IF wp >= rp THEN wp - rp ELSE Capacity - (rp - wp))

(* normalizePos(): no prefix fits behind the last possible start. *)
Normal(p) == IF p > MaxPayloadSize THEN 0 ELSE p

(* Where the record after one of n payload bytes at p begins. *)
After(p, n) == IF p + HeaderSize + n >= Capacity THEN 0 ELSE p + HeaderSize + n

(* usedBytes() *)
Used(rp, wp) == IF wp >= rp THEN wp - rp ELSE Capacity - (rp - wp)

(* Record m of n payload bytes begins at p, and all of it is there. *)
Whole(p, m, n) ==
  \A i \in 0 .. HeaderSize + n - 1 :
    p + i \in Positions /\ buffer[p + i] = [m |-> m, k |-> i, len |-> n]

(* What readLength(p) can find: the length of the record that begins at p, *)
(* 0 where nothing was ever written, and anything at all in the middle of  *)
(* some record (a value above MaxPayloadSize stands for all of them).      *)
ReadLength(p) ==
  LET prefix == [i \in 0 .. HeaderSize - 1 |-> buffer[p + i]]
  IN  IF prefix[0].m > 0 /\ \A i \in 0 .. HeaderSize - 1 : prefix[i] = [prefix[0] EXCEPT !.k = i]
      THEN {prefix[0].len}
      ELSE IF \A i \in 0 .. HeaderSize - 1 : prefix[i] = Zero
           THEN {0}
           ELSE 0 .. MaxPayloadSize + 1

Corrupt(n) == n = 0 \/ n > MaxPayloadSize

(* Does a record of n payload bytes at wp leave every reader alone?        *)
(* (freeBytes() from effectiveReadPos())                                   *)
Fits(wp, n) ==
  \A r \in ReaderId : active[r] =>
    HeaderSize + n <= Capacity - Used(Normal(read_pos[r]), wp)

(* slowestReaderIndex() *)
Slowest(wp) ==
  {r \in ReaderId : active[r] /\ \A s \in ReaderId : active[s] =>
     Used(Normal(read_pos[s]), wp) <= Used(Normal(read_pos[r]), wp)}

-----------------------------------------------------------------------------
(* Readers come and go *)

RegisterReader(r) ==
  /\ job.len = 0
  /\ ~active[r] /\ \A s \in ReaderId : s < r => active[s]
  /\ active' = [active EXCEPT ![r] = TRUE]
  /\ read_pos' = [read_pos EXCEPT ![r] = write_pos]
  /\ total_reads' = [total_reads EXCEPT ![r] = 0]
  /\ since' = [since EXCEPT ![r] = total_writes]
  /\ got' = [got EXCEPT ![r] = <<>>]
  /\ UNCHANGED <<buffer, header, job, refused, top>>

UnregisterReader(r) ==
  /\ job.len = 0
  /\ active' = [active EXCEPT ![r] = FALSE]
  /\ UNCHANGED <<buffer, header, read_pos, total_reads, job, refused, top, since, got>>

ClearOverwriteFlag ==
  /\ job.len = 0
  /\ overwrite_flag' = FALSE
  /\ UNCHANGED <<buffer, write_pos, total_writes, drop_count, readers, job, refused, top,
                 since, got>>

-----------------------------------------------------------------------------
(* write() *)

(* The mutex is taken, and the place of the record is known. *)
BeginWrite(n) ==
  /\ job.len = 0 /\ total_writes < MaxWrites
  /\ job' = [pos |-> IF Normal(write_pos) + HeaderSize + n > Capacity
                     THEN 0 ELSE Normal(write_pos),
             len |-> n]
  /\ top' = IF job'.pos = 0 /\ write_pos # 0 THEN write_pos ELSE top
  /\ UNCHANGED <<buffer, header, readers, refused, since, got>>

(* Mutants: a drop that leaves a reader at what it cannot read; a write    *)
(* position that forgets the prefix.                                       *)
DropStuck ==
  /\ job.len > 0 /\ ~Fits(job.pos, job.len)
  /\ \E r \in Slowest(job.pos) :
       LET p == Normal(read_pos[r])
       IN  \E n \in ReadLength(p) :
             read_pos' = [s \in ReaderId |->
               IF active[s] /\ Normal(read_pos[s]) = p /\ ~Corrupt(n)
               THEN After(p, n) ELSE read_pos[s]]
  /\ drop_count' = IF read_pos' = read_pos THEN drop_count ELSE drop_count + 1
  /\ overwrite_flag' = TRUE
  /\ UNCHANGED <<buffer, write_pos, total_writes, active, total_reads, job, refused, top,
                 since, got>>

EndWriteNoPrefix ==
  /\ job.len > 0 /\ Fits(job.pos, job.len)
  /\ total_writes' = total_writes + 1
  /\ buffer' = [p \in Positions |->
                  IF p \in job.pos .. job.pos + HeaderSize + job.len - 1
                  THEN [m |-> total_writes', k |-> p - job.pos, len |-> job.len]
                  ELSE buffer[p]]
  /\ write_pos' = job.pos + job.len
  /\ job' = Free
  /\ UNCHANGED <<drop_count, overwrite_flag, readers, refused, top, since, got>>

(* One turn of the loop: dropOldestForSlowest(), which moves all readers   *)
(* at the place of the slowest, or gives up.                               *)
Drop ==
  /\ job.len > 0 /\ ~Fits(job.pos, job.len)
  /\ \E r \in Slowest(job.pos) :
       LET p == Normal(read_pos[r])
       IN  IF p = job.pos
           THEN /\ job' = Free /\ refused' = TRUE
                /\ UNCHANGED <<read_pos, drop_count, overwrite_flag>>
           ELSE /\ \E n \in ReadLength(p) :
                     read_pos' = [s \in ReaderId |->
                       IF active[s] /\ Normal(read_pos[s]) = p
                       THEN IF Corrupt(n) THEN job.pos ELSE After(p, n)
                       ELSE read_pos[s]]
                /\ drop_count' = drop_count + 1 /\ overwrite_flag' = TRUE
                /\ UNCHANGED <<job, refused>>
  /\ UNCHANGED <<buffer, write_pos, total_writes, active, total_reads, top, since, got>>

(* There is room: the record is copied and published. *)
EndWrite ==
  /\ job.len > 0 /\ Fits(job.pos, job.len)
  /\ total_writes' = total_writes + 1
  /\ buffer' = [p \in Positions |->
                  IF p \in job.pos .. job.pos + HeaderSize + job.len - 1
                  THEN [m |-> total_writes', k |-> p - job.pos, len |-> job.len]
                  ELSE buffer[p]]
  /\ write_pos' = After(job.pos, job.len)
  /\ top' = IF write_pos' = 0 THEN Capacity ELSE top
  /\ job' = Free
  /\ UNCHANGED <<drop_count, overwrite_flag, readers, refused, since, got>>

-----------------------------------------------------------------------------
(* waitRead() *)

(* What a reader makes of a record of n bytes it finds at p: a record that *)
(* is there, or something torn.                                            *)
Given(p, n) == IF Whole(p, buffer[p].m, n) THEN buffer[p].m ELSE 0

Take(r, p, n) ==
  /\ read_pos' = [read_pos EXCEPT ![r] = After(p, n)]
  /\ total_reads' = [total_reads EXCEPT ![r] = @ + 1]
  /\ got' = [got EXCEPT ![r] = Append(@, Given(p, n))]

(* The reader gives up what it has not read, and waitRead() returns false. *)
Skip(r, p) ==
  /\ read_pos' = [read_pos EXCEPT ![r] = p]
  /\ UNCHANGED <<total_reads, got>>

TakeOrSkip(r, p, n) ==
  IF Corrupt(n) THEN Skip(r, Normal(write_pos)) ELSE Take(r, p, n)

(* With stop_flag set it returns false and changes nothing; likewise when  *)
(* the positions differ but are the same to normalizePos().                *)
WaitRead(r) ==
  /\ job.len = 0 /\ active[r] /\ Normal(read_pos[r]) # Normal(write_pos)
  /\ LET p == Normal(read_pos[r])
     IN  \E n \in ReadLength(p) :
           \/ /\ Corrupt(n) \/ p + HeaderSize + n <= Capacity
              /\ TakeOrSkip(r, p, n)
           \/ /\ ~Corrupt(n) /\ p + HeaderSize + n > Capacity
              /\ IF Normal(write_pos) = 0 THEN Skip(r, 0)
                 ELSE \E n0 \in ReadLength(0) : TakeOrSkip(r, 0, n0)
  /\ UNCHANGED <<buffer, header, active, job, refused, top, since>>

-----------------------------------------------------------------------------
Next ==
  \/ \E r \in ReaderId : RegisterReader(r) \/ UnregisterReader(r) \/ WaitRead(r)
  \/ ClearOverwriteFlag
  \/ \E n \in Lengths : BeginWrite(n)
  \/ Drop \/ EndWrite

Spec == Init /\ [][Next]_vars

(* A write() that has the mutex runs on. *)
FairSpec == Spec /\ WF_vars(Drop \/ EndWrite)

-----------------------------------------------------------------------------
(* Properties *)

(* write() returns false only for lengths that can never fit ("true on     *)
(* success, false if data is null, len is 0, or len exceeds capacity"):    *)
(* dropping always makes room in the end, whatever readers are where.      *)
NeverRefused == ~refused

(* ... and it does end: the loop over drops cannot go round for ever while *)
(* it holds the mutex of all processes, even when it reads its lengths out *)
(* of the middle of old records.                                           *)
WriteReturns == job.len > 0 ~> job.len = 0

(* Below write_pos the ring is a row of whole records, the writer's lap.   *)
LapWhole ==
  \A p \in Positions : p < write_pos =>
    LET b == buffer[p]
    IN  /\ b.m > 0 /\ b.k <= p
        /\ p - b.k + HeaderSize + b.len <= write_pos
        /\ Whole(p - b.k, b.m, b.len)

(* A reader's cursor is at the beginning of a whole record, in the         *)
(* writer's lap as in what is left of the one before, wherever drops left  *)
(* it; only behind the end of the previous lap it may be anywhere.         *)
CursorOnRecord ==
  \A r \in ReaderId : active[r] =>
    LET p == Normal(read_pos[r])
    IN  (p < write_pos \/ (p > write_pos /\ p < top)) =>
          buffer[p].m > 0 /\ Whole(p, buffer[p].m, buffer[p].len)

(* Nothing is lost without being counted: "Each registered reader receives *)
(* every message written to the buffer" (line 9), unless it is dropped to  *)
(* make room (line 19).                                                    *)
NoSilentLoss ==
  \A r \in ReaderId : active[r] /\ drop_count = 0 /\ job.len = 0 =>
    /\ \A i \in 1 .. Len(got[r]) : got[r][i] = since[r] + i
    /\ read_pos[r] = write_pos => Len(got[r]) = total_writes - since[r]
=============================================================================
