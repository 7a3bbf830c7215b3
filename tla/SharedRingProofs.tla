-------------------------- MODULE SharedRingProofs --------------------------
(***************************************************************************)
(* Theorems about SharedRing, for any capacity, size of the length prefix, *)
(* number of readers and lengths of records.                               *)
(***************************************************************************)
EXTENDS SharedRing, TLAPS

(* Where the write that holds the mutex puts its record: where the writer  *)
(* is, or at the start.                                                    *)
JobInv ==
  job.len > 0 => \/ job.pos = write_pos
                 \/ job.pos = 0 /\ write_pos > 0 /\ top = write_pos

(* A record begins at p and is all there; another one begins behind it, or *)
(* hi is its end.                                                          *)
Record(p, hi) ==
  LET b == buffer[p]
      e == p + HeaderSize + b.len
  IN  /\ b.m > 0 /\ b.k = 0 /\ b.len \in 1 .. MaxPayloadSize
      /\ Whole(p, b.m, b.len)
      /\ e = hi \/ (e < hi /\ buffer[e].k = 0)

(* The records of the writer's lap, and what is left of the one before. *)
LapInv ==
  /\ write_pos > 0 => buffer[0].k = 0
  /\ \A p \in Positions : p < write_pos /\ buffer[p].k = 0 => Record(p, write_pos)
PrevInv ==
  \A p \in Positions : p > write_pos /\ p < top /\ buffer[p].k = 0 => Record(p, top)

(* Where a reader may be: *)
Place(p) == p < write_pos \/ (p > write_pos /\ p < top) => buffer[p].k = 0
CursorInv == \A r \in ReaderId : active[r] => Place(Normal(read_pos[r]))

IInv == TypeOK /\ JobInv /\ ~refused /\ LapInv /\ PrevInv /\ LapWhole /\ CursorInv

-----------------------------------------------------------------------------
(* Places and lengths *)

LEMMA Sizes ==
  /\ MaxReaders \in Nat /\ Capacity \in Nat /\ HeaderSize \in Nat \ {0}
  /\ MaxPayloadSize \in Nat \ {0} /\ MaxPayloadSize = Capacity - HeaderSize
  /\ Lengths \subseteq 1 .. MaxPayloadSize /\ MaxWrites \in Nat
  /\ 0 \in Positions /\ Positions = 0 .. Capacity - 1
BY SharedRingAssumption DEF MaxPayloadSize, Positions

(* normalizePos() keeps a position or starts over, and leaves room for a   *)
(* prefix.                                                                 *)
LEMMA NormalPlace ==
  ASSUME NEW p \in Positions
  PROVE  /\ Normal(p) \in Positions /\ Normal(p) <= MaxPayloadSize
         /\ Normal(p) = p \/ (Normal(p) = 0 /\ p > MaxPayloadSize)
BY Sizes DEF Normal

(* The place behind a record is behind it, or the start. *)
LEMMA AfterPlace ==
  ASSUME NEW p \in Positions, NEW n \in 1 .. MaxPayloadSize
  PROVE  /\ After(p, n) \in Positions
         /\ \/ After(p, n) = p + HeaderSize + n /\ p + HeaderSize + n < Capacity
            \/ After(p, n) = 0 /\ p + HeaderSize + n >= Capacity
BY Sizes DEF After

(* What is not taken for corrupt is a length. *)
LEMMA LengthRead ==
  ASSUME TypeOK, NEW p \in Positions, p <= MaxPayloadSize, NEW n \in ReadLength(p),
         ~Corrupt(n)
  PROVE  n \in 1 .. MaxPayloadSize
<1>1. buffer[p] \in Bytes
  BY DEF TypeOK
<1>2. buffer[p].len \in Nat
  BY <1>1 DEF Bytes
<1>3. 0 \in 0 .. HeaderSize - 1
  BY Sizes
<1> DEFINE prefix == [i \in 0 .. HeaderSize - 1 |-> buffer[p + i]]
<1>4. p + 0 = p
  BY Sizes
<1>5. prefix[0] = buffer[p]
  BY <1>3, <1>4
<1>6. n = prefix[0].len \/ n = 0 \/ n \in 0 .. MaxPayloadSize + 1
  BY DEF ReadLength
<1>7. n \in Nat
  BY <1>2, <1>5, <1>6, Sizes
<1>8. QED
  BY <1>7, Sizes DEF Corrupt

(* At the beginning of a record its length is read. *)
LEMMA LengthOfRecord ==
  ASSUME TypeOK, NEW p \in Positions, p <= MaxPayloadSize, NEW hi, Record(p, hi),
         NEW n \in ReadLength(p)
  PROVE  n = buffer[p].len
<1> DEFINE b == buffer[p]
<1> DEFINE prefix == [i \in 0 .. HeaderSize - 1 |-> buffer[p + i]]
<1>1. b \in Bytes /\ b.k = 0 /\ b.m > 0 /\ b.len \in 1 .. MaxPayloadSize
  BY DEF TypeOK, Record
<1>2. \A i \in 0 .. HeaderSize - 1 : prefix[i] = [m |-> b.m, k |-> i, len |-> b.len]
  <2> SUFFICES ASSUME NEW i \in 0 .. HeaderSize - 1
               PROVE  prefix[i] = [m |-> b.m, k |-> i, len |-> b.len]
    OBVIOUS
  <2>1. i \in 0 .. HeaderSize + b.len - 1
    BY <1>1, Sizes
  <2>2. buffer[p + i] = [m |-> b.m, k |-> i, len |-> b.len]
    BY <2>1 DEF Record, Whole
  <2>3. QED
    BY <2>2
<1>3. 0 \in 0 .. HeaderSize - 1
  BY Sizes
<1>4. prefix[0] = [m |-> b.m, k |-> 0, len |-> b.len]
  BY <1>2, <1>3
<1>5. ASSUME NEW i \in 0 .. HeaderSize - 1  PROVE  prefix[i] = [prefix[0] EXCEPT !.k = i]
  <2> HIDE DEF prefix
  <2>1. [[m |-> b.m, k |-> 0, len |-> b.len] EXCEPT !.k = i] = [m |-> b.m, k |-> i, len |-> b.len]
    OBVIOUS
  <2>2. QED
    BY <1>2, <1>4, <2>1
<1>6. prefix[0].m > 0 /\ prefix[0].len = b.len
  BY <1>1, <1>4
<1>7. ReadLength(p) = {prefix[0].len}
  <2> HIDE DEF prefix
  <2>1. ReadLength(p) =
          IF prefix[0].m > 0
             /\ \A i \in 0 .. HeaderSize - 1 : prefix[i] = [prefix[0] EXCEPT !.k = i]
          THEN {prefix[0].len}
          ELSE IF \A i \in 0 .. HeaderSize - 1 : prefix[i] = Zero
               THEN {0} ELSE 0 .. MaxPayloadSize + 1
    BY DEF ReadLength, prefix
  <2>2. QED
    BY <2>1, <1>5, <1>6
<1>8. QED
  BY <1>6, <1>7

-----------------------------------------------------------------------------
(* Cursors *)

(* Positions and what is in them, out of TypeOK. *)
LEMMA Types ==
  ASSUME TypeOK
  PROVE  /\ write_pos \in Positions /\ top \in 0 .. Capacity
         /\ \A p \in Positions : buffer[p] \in Bytes
         /\ \A r \in ReaderId : read_pos[r] \in Positions
         /\ job.pos \in Positions /\ job.len \in 0 .. MaxPayloadSize
         /\ job.pos + HeaderSize + job.len <= Capacity
BY DEF TypeOK

(* The start of the ring and the writer's place will do for any reader. *)
LEMMA PlaceStart == ASSUME TypeOK, LapInv PROVE Place(0)
BY Types, Sizes DEF LapInv, Place

LEMMA PlaceWriter == ASSUME TypeOK, LapInv
                     PROVE  Place(write_pos) /\ Place(Normal(write_pos))
<1>1. Place(write_pos)
  BY Types, Sizes DEF Place
<1>2. Normal(write_pos) = write_pos \/ Normal(write_pos) = 0
  BY Types, NormalPlace
<1>3. QED
  BY <1>1, <1>2, PlaceStart

LEMMA PlaceNormal == ASSUME TypeOK, LapInv, NEW p \in Positions, Place(p)
                     PROVE  Place(Normal(p))
<1>1. Normal(p) = p \/ Normal(p) = 0
  BY NormalPlace
<1>2. QED
  BY <1>1, PlaceStart

(* Whoever skips the record at his cursor is at the next one, or where     *)
(* nothing is claimed.  A cursor at write_pos may skip what it finds there *)
(* only while nothing is left of the previous lap.                         *)
LEMMA NextCursor ==
  ASSUME TypeOK, LapInv, PrevInv, NEW p \in Positions, p <= MaxPayloadSize, Place(p),
         p = write_pos => top <= write_pos,
         NEW n \in ReadLength(p), ~Corrupt(n)
  PROVE  After(p, n) \in Positions /\ Place(After(p, n))
<1>1. n \in 1 .. MaxPayloadSize
  BY LengthRead
<1>2. /\ After(p, n) \in Positions
      /\ \/ After(p, n) = p + HeaderSize + n /\ p + HeaderSize + n < Capacity
         \/ After(p, n) = 0 /\ p + HeaderSize + n >= Capacity
  BY <1>1, AfterPlace
<1>3. CASE After(p, n) = 0
  BY <1>2, <1>3, PlaceStart
<1>4. CASE After(p, n) = p + HeaderSize + n
  <2>1. CASE p < write_pos
    <3>1. Record(p, write_pos)
      BY <2>1 DEF Place, LapInv
    <3>2. n = buffer[p].len
      BY <3>1, LengthOfRecord
    <3>3. \/ After(p, n) = write_pos
          \/ After(p, n) < write_pos /\ buffer[After(p, n)].k = 0
      BY <1>4, <3>1, <3>2 DEF Record
    <3>4. QED
      BY <1>2, <3>3, Types, Sizes DEF Place
  <2>2. CASE p > write_pos /\ p < top
    <3>1. Record(p, top)
      BY <2>2 DEF Place, PrevInv
    <3>2. n = buffer[p].len
      BY <3>1, LengthOfRecord
    <3>3. \/ After(p, n) = top
          \/ After(p, n) < top /\ buffer[After(p, n)].k = 0
      BY <1>4, <3>1, <3>2 DEF Record
    <3>4. After(p, n) > write_pos
      BY <1>1, <1>4, <2>2, Types, Sizes
    <3>5. QED
      BY <1>2, <3>3, <3>4, Types, Sizes DEF Place
  <2>3. CASE p >= write_pos /\ p >= top
    <3>1. After(p, n) > write_pos /\ After(p, n) > top
      BY <1>1, <1>4, <2>3, Types, Sizes
    <3>2. QED
      BY <1>2, <3>1, Types, Sizes DEF Place
  <2>4. QED
    BY <2>1, <2>2, <2>3, Types, Sizes
<1>5. QED
  BY <1>2, <1>3, <1>4

(* Operations that leave the bytes and the writer alone leave what is said *)
(* of them alone.                                                          *)
LEMMA Frame ==
  ASSUME IInv, UNCHANGED <<buffer, write_pos, top>>
  PROVE  /\ LapInv' /\ PrevInv' /\ LapWhole'
         /\ \A p \in Positions : Place(p)' <=> Place(p)
<1>1. \A p, m, n : Whole(p, m, n)' <=> Whole(p, m, n)
  BY DEF Whole
<1>2. \A p, hi : Record(p, hi)' <=> Record(p, hi)
  BY <1>1 DEF Record
<1>3. LapInv' /\ PrevInv'
  BY <1>2 DEF IInv, LapInv, PrevInv
<1>4. LapWhole'
  BY <1>1 DEF IInv, LapWhole
<1>5. \A p \in Positions : Place(p)' <=> Place(p)
  BY DEF Place
<1>6. QED
  BY <1>3, <1>4, <1>5

(* ... and if it is the cursors that move, each must go to a good place. *)
LEMMA FrameCursors ==
  ASSUME IInv, UNCHANGED <<buffer, write_pos, top>>, TypeOK', JobInv', ~refused',
         \A r \in ReaderId : active'[r] => Place(Normal(read_pos'[r]))
  PROVE  IInv'
<1>1. \A r \in ReaderId : Normal(read_pos'[r]) \in Positions
  BY NormalPlace DEF TypeOK
<1>2. CursorInv'
  BY <1>1, Frame DEF CursorInv, Place, Normal
<1>3. QED
  BY <1>2, Frame DEF IInv

-----------------------------------------------------------------------------
(* The actions *)

LEMMA InitIInv == Init => IInv
<1> SUFFICES ASSUME Init PROVE IInv
  OBVIOUS
<1>1. TypeOK
  <2>1. Zero \in Bytes
    BY DEF Zero, Bytes
  <2>2. buffer \in [Positions -> Bytes]
    BY <2>1 DEF Init
  <2>3. job \in [pos : Positions, len : 0 .. MaxPayloadSize]
        /\ job.pos + HeaderSize + job.len <= Capacity
    BY Sizes DEF Init, Free
  <2>4. got \in [ReaderId -> Seq(Nat)]
    BY DEF Init
  <2>5. /\ active \in [ReaderId -> BOOLEAN] /\ read_pos \in [ReaderId -> Positions]
        /\ total_reads \in [ReaderId -> Nat] /\ since \in [ReaderId -> Nat]
    BY Sizes DEF Init
  <2>6. write_pos \in Positions /\ top \in 0 .. Capacity
    BY Sizes DEF Init
  <2>7. QED
    BY <2>2, <2>3, <2>4, <2>5, <2>6 DEF Init, TypeOK
<1>2. JobInv
  BY DEF Init, Free, JobInv
<1>3. LapInv /\ PrevInv /\ LapWhole /\ CursorInv
  BY Sizes DEF Init, LapInv, PrevInv, LapWhole, CursorInv
<1>4. QED
  BY <1>1, <1>2, <1>3 DEF Init, IInv

LEMMA RegisterIInv == ASSUME IInv, NEW r \in ReaderId, RegisterReader(r) PROVE IInv'
<1>1. TypeOK'
  BY Types DEF IInv, TypeOK, RegisterReader, header
<1>2. JobInv' /\ ~refused'
  BY DEF IInv, JobInv, RegisterReader, header
<1>3. \A s \in ReaderId : active'[s] => Place(Normal(read_pos'[s]))
  BY PlaceWriter DEF IInv, TypeOK, CursorInv, RegisterReader
<1>4. QED
  BY <1>1, <1>2, <1>3, FrameCursors DEF RegisterReader, header

LEMMA UnregisterIInv == ASSUME IInv, NEW r \in ReaderId, UnregisterReader(r) PROVE IInv'
<1>1. TypeOK'
  BY DEF IInv, TypeOK, UnregisterReader, header
<1>2. JobInv' /\ ~refused'
  BY DEF IInv, JobInv, UnregisterReader, header
<1>3. \A s \in ReaderId : active'[s] => Place(Normal(read_pos'[s]))
  BY DEF IInv, TypeOK, CursorInv, UnregisterReader
<1>4. QED
  BY <1>1, <1>2, <1>3, FrameCursors DEF UnregisterReader, header

LEMMA ClearIInv == ASSUME IInv, ClearOverwriteFlag PROVE IInv'
<1>1. TypeOK'
  BY DEF IInv, TypeOK, ClearOverwriteFlag, readers
<1>2. JobInv' /\ ~refused'
  BY DEF IInv, JobInv, ClearOverwriteFlag
<1>3. \A s \in ReaderId : active'[s] => Place(Normal(read_pos'[s]))
  BY DEF IInv, CursorInv, ClearOverwriteFlag, readers
<1>4. QED
  BY <1>1, <1>2, <1>3, FrameCursors DEF ClearOverwriteFlag

(* Going back to the start, the writer leaves its lap as the previous one, *)
(* with nothing behind write_pos in it.                                    *)
LEMMA BeginWriteIInv == ASSUME IInv, NEW n \in Lengths, BeginWrite(n) PROVE IInv'
<1> DEFINE p == IF Normal(write_pos) + HeaderSize + n > Capacity
                THEN 0 ELSE Normal(write_pos)
<1>1. TypeOK
  BY DEF IInv
<1>2. n \in 1 .. MaxPayloadSize
  BY Sizes
<1>3. /\ p \in Positions /\ p + HeaderSize + n <= Capacity
      /\ p = write_pos \/ p = 0
  BY <1>1, <1>2, Types, NormalPlace, Sizes
<1>4. job' = [pos |-> p, len |-> n]
  BY DEF BeginWrite
<1>5. job'.pos = p /\ job'.len = n
  BY <1>4
<1>6. top' = IF p = 0 /\ write_pos # 0 THEN write_pos ELSE top
  BY <1>5 DEF BeginWrite
<1>7. TypeOK'
  <2>1. top' \in 0 .. Capacity
    BY <1>1, <1>6, Types, Sizes
  <2>2. job' \in [pos : Positions, len : 0 .. MaxPayloadSize]
        /\ job'.pos + HeaderSize + job'.len <= Capacity
    BY <1>2, <1>3, <1>4, <1>5, Sizes
  <2>3. QED
    BY <1>1, <2>1, <2>2 DEF TypeOK, BeginWrite, header, readers
<1>8. write_pos' = write_pos /\ buffer' = buffer /\ ~refused'
      /\ active' = active /\ read_pos' = read_pos
  BY DEF BeginWrite, header, readers, IInv
<1>9. CASE top' = top
  <2>1. JobInv'
    BY <1>1, <1>3, <1>5, <1>6, <1>8, <1>9, Types, Sizes DEF JobInv
  <2>2. \A s \in ReaderId : active'[s] => Place(Normal(read_pos'[s]))
    BY <1>8 DEF IInv, CursorInv
  <2>3. QED
    BY <1>7, <1>8, <1>9, <2>1, <2>2, FrameCursors
<1>10. CASE p = 0 /\ write_pos # 0
  <2>1. top' = write_pos /\ write_pos > 0
    BY <1>1, <1>6, <1>10, Types, Sizes
  <2>2. JobInv'
    BY <1>5, <1>8, <1>10, <2>1 DEF JobInv
  <2>3. PrevInv'
    BY <1>1, <1>8, <2>1, Types, Sizes DEF PrevInv
  <2>4. \A q, m, k : Whole(q, m, k)' <=> Whole(q, m, k)
    BY <1>8 DEF Whole
  <2>5. \A q, hi : Record(q, hi)' <=> Record(q, hi)
    BY <1>8, <2>4 DEF Record
  <2>6. LapInv' /\ LapWhole'
    BY <1>8, <2>4, <2>5 DEF IInv, LapInv, LapWhole
  <2>7. CursorInv'
    <3> SUFFICES ASSUME NEW s \in ReaderId, active[s] PROVE Place(Normal(read_pos[s]))'
      BY <1>8 DEF CursorInv
    <3>1. Normal(read_pos[s]) \in Positions
      BY <1>1, Types, NormalPlace
    <3>2. Place(Normal(read_pos[s]))
      BY DEF IInv, CursorInv
    <3>3. Normal(read_pos[s])' = Normal(read_pos[s])
      BY <1>8 DEF Normal
    <3>4. QED
      BY <1>1, <1>8, <2>1, <3>1, <3>2, <3>3, Types, Sizes DEF Place
  <2>8. QED
    BY <1>7, <1>8, <2>2, <2>3, <2>6, <2>7 DEF IInv
<1>11. QED
  BY <1>6, <1>9, <1>10

(* A reader that bars the way has read less than everything, so that it    *)
(* is not at the place of the new record.                                  *)
LEMMA SlowestLags ==
  ASSUME TypeOK, job.len > 0, ~Fits(job.pos, job.len), NEW r \in Slowest(job.pos)
  PROVE  Normal(read_pos[r]) # job.pos
<1> SUFFICES ASSUME Normal(read_pos[r]) = job.pos PROVE FALSE
  OBVIOUS
<1>1. r \in ReaderId /\ active[r]
  BY DEF Slowest
<1>2. Used(Normal(read_pos[r]), job.pos) = 0
  BY Types, Sizes DEF Used
<1>3. \A s \in ReaderId : active[s] => Used(Normal(read_pos[s]), job.pos) <= 0
  BY <1>2 DEF Slowest
<1>4. \A s \in ReaderId : active[s] => Used(Normal(read_pos[s]), job.pos) \in Int
  BY Types, NormalPlace, Sizes DEF Used
<1>5. HeaderSize + job.len <= Capacity
  BY Types, Sizes
<1>6. Fits(job.pos, job.len)
  BY <1>3, <1>4, <1>5, Types, Sizes DEF Fits
<1>7. QED
  BY <1>6

LEMMA DropIInv == ASSUME IInv, Drop PROVE IInv'
<1>1. TypeOK /\ JobInv /\ LapInv /\ PrevInv
  BY DEF IInv
<1>2. PICK r \in Slowest(job.pos) :
        LET p == Normal(read_pos[r])
        IN  IF p = job.pos
            THEN /\ job' = Free /\ refused' = TRUE
                 /\ UNCHANGED <<read_pos, drop_count, overwrite_flag>>
            ELSE /\ \E n \in ReadLength(p) :
                      read_pos' = [s \in ReaderId |->
                        IF active[s] /\ Normal(read_pos[s]) = p
                        THEN IF Corrupt(n) THEN job.pos ELSE After(p, n)
                        ELSE read_pos[s]]
                 /\ drop_count' = drop_count + 1 /\ overwrite_flag' = TRUE
                 /\ UNCHANGED <<job, refused>>
  BY DEF Drop
<1> DEFINE p == Normal(read_pos[r])
<1>3. r \in ReaderId /\ active[r]
  BY DEF Slowest
<1>4. p # job.pos
  BY <1>1, SlowestLags DEF Drop
<1>5. PICK n \in ReadLength(p) :
        read_pos' = [s \in ReaderId |-> IF active[s] /\ Normal(read_pos[s]) = p
                                       THEN IF Corrupt(n) THEN job.pos ELSE After(p, n)
                                       ELSE read_pos[s]]
  BY <1>2, <1>4
<1>6. drop_count' = drop_count + 1 /\ overwrite_flag' = TRUE /\ UNCHANGED <<job, refused>>
  BY <1>2, <1>4
<1>7. p \in Positions /\ p <= MaxPayloadSize /\ Place(p)
  BY <1>1, <1>3, Types, NormalPlace DEF IInv, CursorInv
<1>8. job.pos = write_pos \/ (job.pos = 0 /\ top = write_pos)
  BY <1>1 DEF JobInv, Drop
<1> DEFINE q == IF Corrupt(n) THEN job.pos ELSE After(p, n)
<1>9. q \in Positions /\ Place(q)
  <2>1. CASE Corrupt(n)
    BY <1>1, <1>8, <2>1, Types, PlaceStart, PlaceWriter
  <2>2. CASE ~Corrupt(n)
    <3>1. p = write_pos => top <= write_pos
      BY <1>1, <1>4, <1>8, Types, Sizes
    <3>2. QED
      BY <1>1, <1>7, <2>2, <3>1, NextCursor
  <2>3. QED
    BY <2>1, <2>2
<1>10. read_pos' \in [ReaderId -> Positions]
  BY <1>1, <1>5, <1>9, Types
<1>11. UNCHANGED <<buffer, write_pos, total_writes, active, total_reads, top, since, got>>
  BY DEF Drop
<1>12. TypeOK'
  BY <1>1, <1>6, <1>10, <1>11 DEF TypeOK
<1>13. JobInv' /\ ~refused'
  BY <1>6, <1>11 DEF IInv, JobInv
<1>14. \A s \in ReaderId : active'[s] => Place(Normal(read_pos'[s]))
  <2> SUFFICES ASSUME NEW s \in ReaderId, active[s] PROVE Place(Normal(read_pos'[s]))
    BY <1>11
  <2>1. read_pos'[s] = q \/ read_pos'[s] = read_pos[s]
    BY <1>5
  <2>2. CASE read_pos'[s] = q
    BY <1>1, <1>9, <2>2, PlaceNormal
  <2>3. CASE read_pos'[s] = read_pos[s]
    BY <2>3 DEF IInv, CursorInv
  <2>4. QED
    BY <2>1, <2>2, <2>3
<1>15. QED
  BY <1>11, <1>12, <1>13, <1>14, FrameCursors

(* What a reader does with its cursor, wherever it looked for a record. *)
LEMMA TakeOrSkipPlace ==
  ASSUME TypeOK, LapInv, PrevInv, NEW r \in ReaderId, NEW p \in Positions,
         p <= MaxPayloadSize, Place(p), p # write_pos, NEW n \in ReadLength(p),
         TakeOrSkip(r, p, n)
  PROVE  /\ \E q \in Positions : Place(q) /\ read_pos' = [read_pos EXCEPT ![r] = q]
         /\ total_reads' \in [ReaderId -> Nat] /\ got' \in [ReaderId -> Seq(Nat)]
<1>1. CASE Corrupt(n)
  <2>1. Normal(write_pos) \in Positions /\ Place(Normal(write_pos))
    BY Types, NormalPlace, PlaceWriter
  <2>2. QED
    BY <1>1, <2>1 DEF TakeOrSkip, Skip, TypeOK
<1>2. CASE ~Corrupt(n)
  <2>1. After(p, n) \in Positions /\ Place(After(p, n))
    BY <1>2, NextCursor
  <2>2. Given(p, n) \in Nat
    <3>1. buffer[p] \in Bytes
      BY Types
    <3>2. QED
      BY <3>1 DEF Given, Bytes
  <2>3. got' \in [ReaderId -> Seq(Nat)]
    <3>1. Append(got[r], Given(p, n)) \in Seq(Nat)
      BY <2>2 DEF TypeOK
    <3>2. got' = [got EXCEPT ![r] = Append(got[r], Given(p, n))]
      BY <1>2 DEF TakeOrSkip, Take
    <3>3. QED
      BY <3>1, <3>2 DEF TypeOK
  <2>4. total_reads' \in [ReaderId -> Nat]
    BY <1>2 DEF TakeOrSkip, Take, TypeOK
  <2>5. read_pos' = [read_pos EXCEPT ![r] = After(p, n)]
    BY <1>2 DEF TakeOrSkip, Take
  <2>6. QED
    BY <2>1, <2>3, <2>4, <2>5
<1>3. QED
  BY <1>1, <1>2

LEMMA WaitReadIInv == ASSUME IInv, NEW r \in ReaderId, WaitRead(r) PROVE IInv'
<1>1. TypeOK /\ JobInv /\ LapInv /\ PrevInv
  BY DEF IInv
<1> DEFINE p == Normal(read_pos[r])
<1>2. PICK n \in ReadLength(p) :
        \/ TakeOrSkip(r, p, n)
        \/ IF Normal(write_pos) = 0 THEN Skip(r, 0)
           ELSE \E n0 \in ReadLength(0) : TakeOrSkip(r, 0, n0)
  BY DEF WaitRead
<1>3. p \in Positions /\ p <= MaxPayloadSize /\ Place(p)
  BY <1>1, Types, NormalPlace DEF IInv, CursorInv, WaitRead
<1>4. p # write_pos
  BY <1>1, <1>3, Types, NormalPlace, Sizes DEF WaitRead, Normal
<1>5. Place(0)
  BY <1>1, PlaceStart
<1>6. UNCHANGED <<buffer, write_pos, total_writes, drop_count, overwrite_flag, active, job,
                  refused, top, since>>
  BY DEF WaitRead, header
<1>7. /\ \E q \in Positions : Place(q) /\ read_pos' = [read_pos EXCEPT ![r] = q]
      /\ total_reads' \in [ReaderId -> Nat] /\ got' \in [ReaderId -> Seq(Nat)]
  <2>1. CASE TakeOrSkip(r, p, n)
    BY <1>1, <1>3, <1>4, <2>1, TakeOrSkipPlace
  <2>2. CASE Normal(write_pos) = 0 /\ Skip(r, 0)
    BY <1>1, <1>5, <2>2, Sizes DEF Skip, TypeOK
  <2>3. CASE Normal(write_pos) # 0 /\ \E n0 \in ReadLength(0) : TakeOrSkip(r, 0, n0)
    <3>1. 0 # write_pos
      BY <1>1, <2>3, Types, NormalPlace, Sizes DEF Normal
    <3>2. PICK n0 \in ReadLength(0) : TakeOrSkip(r, 0, n0)
      BY <2>3
    <3>3. 0 \in Positions /\ 0 <= MaxPayloadSize
      BY Sizes
    <3>4. QED
      BY <1>1, <1>5, <3>1, <3>2, <3>3, TakeOrSkipPlace
  <2>4. QED
    BY <1>2, <2>1, <2>2, <2>3
<1>8. PICK q \in Positions : Place(q) /\ read_pos' = [read_pos EXCEPT ![r] = q]
  BY <1>7
<1>9. TypeOK'
  BY <1>1, <1>6, <1>7, <1>8 DEF TypeOK
<1>10. JobInv' /\ ~refused'
  BY <1>6 DEF IInv, JobInv
<1>11. \A s \in ReaderId : active'[s] => Place(Normal(read_pos'[s]))
  <2> SUFFICES ASSUME NEW s \in ReaderId, active[s] PROVE Place(Normal(read_pos'[s]))
    BY <1>6
  <2>1. CASE s = r
    BY <1>1, <1>8, <2>1, PlaceNormal DEF TypeOK
  <2>2. CASE s # r
    BY <1>1, <1>8, <2>2 DEF IInv, CursorInv, TypeOK
  <2>3. QED
    BY <2>1, <2>2
<1>12. QED
  BY <1>6, <1>9, <1>10, <1>11, FrameCursors

-----------------------------------------------------------------------------
(* The end of a write *)

(* Record m of n payload bytes has been stored at q. *)
Stored(q, n, m) ==
  /\ q \in Positions /\ n \in 1 .. MaxPayloadSize /\ m \in Nat \ {0}
  /\ q + HeaderSize + n <= Capacity
  /\ \A p \in Positions :
       buffer'[p] = IF q <= p /\ p < q + HeaderSize + n
                    THEN [m |-> m, k |-> p - q, len |-> n] ELSE buffer[p]

(* It is a record, and no other begins in it. *)
LEMMA NewRecord ==
  ASSUME NEW q, NEW n, NEW m, Stored(q, n, m)
  PROVE  /\ Whole(q, m, n)' /\ Record(q, q + HeaderSize + n)' /\ buffer'[q].k = 0
         /\ \A p \in Positions : q < p /\ p < q + HeaderSize + n => buffer'[p].k # 0
<1>1. /\ q \in Positions /\ n \in 1 .. MaxPayloadSize /\ m \in Nat \ {0}
      /\ q + HeaderSize + n <= Capacity
  BY DEF Stored
<1>2. ASSUME NEW i \in 0 .. HeaderSize + n - 1
      PROVE  q + i \in Positions /\ buffer'[q + i] = [m |-> m, k |-> i, len |-> n]
  <2>1. q + i \in Positions /\ q <= q + i /\ q + i < q + HeaderSize + n /\ (q + i) - q = i
    BY <1>1, Sizes
  <2>2. buffer'[q + i] = [m |-> m, k |-> (q + i) - q, len |-> n]
    BY <2>1 DEF Stored
  <2>3. QED
    BY <2>1, <2>2
<1>3. Whole(q, m, n)'
  BY <1>2 DEF Whole
<1>4. buffer'[q] = [m |-> m, k |-> 0, len |-> n]
  <2>1. 0 \in 0 .. HeaderSize + n - 1 /\ q + 0 = q
    BY <1>1, Sizes
  <2>2. QED
    BY <1>2, <2>1
<1>5. buffer'[q].k = 0 /\ buffer'[q].m = m /\ buffer'[q].len = n
  BY <1>4
<1>6. Record(q, q + HeaderSize + n)'
  BY <1>1, <1>3, <1>5 DEF Record
<1>7. ASSUME NEW p \in Positions, q < p, p < q + HeaderSize + n PROVE buffer'[p].k # 0
  <2>1. buffer'[p] = [m |-> m, k |-> p - q, len |-> n]
    BY <1>1, <1>7, Sizes DEF Stored
  <2>2. p - q # 0
    BY <1>1, <1>7, Sizes
  <2>3. QED
    BY <2>1, <2>2
<1>8. QED
  BY <1>3, <1>5, <1>6, <1>7

(* Bytes elsewhere stay as they are. *)
LEMMA Elsewhere ==
  ASSUME NEW q, NEW n, NEW m, Stored(q, n, m), NEW p \in Positions,
         p < q \/ p >= q + HeaderSize + n
  PROVE  buffer'[p] = buffer[p]
<1>1. q \in Positions /\ n \in 1 .. MaxPayloadSize
  BY DEF Stored
<1>2. ~(q <= p /\ p < q + HeaderSize + n)
  BY <1>1, Sizes
<1>3. QED
  BY <1>2 DEF Stored

LEMMA OldWhole ==
  ASSUME NEW q, NEW n, NEW m, Stored(q, n, m),
         NEW p \in Positions, NEW x, NEW l \in Nat, Whole(p, x, l),
         p + HeaderSize + l <= q \/ p >= q + HeaderSize + n
  PROVE  Whole(p, x, l)'
<1> SUFFICES ASSUME NEW i \in 0 .. HeaderSize + l - 1
             PROVE  p + i \in Positions /\ buffer'[p + i] = [m |-> x, k |-> i, len |-> l]
  BY DEF Whole
<1>1. p + i \in Positions /\ buffer[p + i] = [m |-> x, k |-> i, len |-> l]
  BY DEF Whole
<1>2. q \in Positions /\ n \in 1 .. MaxPayloadSize
  BY DEF Stored
<1>3. ~(q <= p + i /\ p + i < q + HeaderSize + n)
  BY <1>1, <1>2, Sizes
<1>4. QED
  BY <1>1, <1>3 DEF Stored

(* A record that ends at or before the new one has that behind it. *)
LEMMA RecordBelow ==
  ASSUME TypeOK, NEW q, NEW n, NEW m, Stored(q, n, m), NEW p \in Positions, p < q,
         Record(p, q)
  PROVE  Record(p, q + HeaderSize + n)'
<1>1. q \in Positions /\ n \in 1 .. MaxPayloadSize /\ q + HeaderSize + n <= Capacity
  BY DEF Stored
<1>2. buffer'[p] = buffer[p]
  BY Elsewhere
<1> DEFINE l == buffer[p].len
<1> DEFINE e == p + HeaderSize + l
<1>3. l \in 1 .. MaxPayloadSize /\ buffer[p].m > 0 /\ buffer[p].k = 0 /\ Whole(p, buffer[p].m, l)
      /\ (e = q \/ (e < q /\ buffer[e].k = 0))
  BY DEF Record
<1>4. e <= q /\ e \in Positions /\ e < q + HeaderSize + n
  BY <1>1, <1>3, Sizes
<1>5. \A x, k : k \in Nat /\ Whole(p, x, k) /\ p + HeaderSize + k <= q => Whole(p, x, k)'
  BY OldWhole
<1>6. \A x, k : x = buffer[p].m /\ k = l => Whole(p, x, k)'
  BY <1>3, <1>4, <1>5, Sizes
<1>7. Whole(p, buffer[p].m, buffer[p].len)'
  BY <1>2, <1>6 DEF Whole
<1>8. buffer'[e].k = 0
  <2>1. CASE e = q
    BY <2>1, NewRecord
  <2>2. CASE e < q
    <3>1. buffer'[e] = buffer[e]
      BY <1>4, <2>2, Elsewhere
    <3>2. QED
      BY <1>3, <2>2, <3>1, <1>1, <1>4, Sizes
  <2>3. QED
    BY <1>3, <2>1, <2>2
<1>9. QED
  BY <1>2, <1>3, <1>4, <1>7, <1>8 DEF Record

(* A record behind the new one stays what it is. *)
LEMMA RecordAbove ==
  ASSUME TypeOK, NEW q, NEW n, NEW m, Stored(q, n, m), NEW p \in Positions,
         p >= q + HeaderSize + n, NEW hi \in 0 .. Capacity, Record(p, hi)
  PROVE  Record(p, hi)'
<1>1. q \in Positions /\ n \in 1 .. MaxPayloadSize
  BY DEF Stored
<1>2. buffer'[p] = buffer[p]
  BY Elsewhere
<1> DEFINE l == buffer[p].len
<1> DEFINE e == p + HeaderSize + l
<1>3. l \in 1 .. MaxPayloadSize /\ buffer[p].m > 0 /\ buffer[p].k = 0 /\ Whole(p, buffer[p].m, l)
      /\ (e = hi \/ (e < hi /\ buffer[e].k = 0))
  BY DEF Record
<1>4. \A x, k : k \in Nat /\ Whole(p, x, k) => Whole(p, x, k)'
  BY OldWhole
<1>5. \A x, k : x = buffer[p].m /\ k = l => Whole(p, x, k)'
  BY <1>3, <1>4, Sizes
<1>6. Whole(p, buffer[p].m, buffer[p].len)'
  BY <1>2, <1>5 DEF Whole
<1>7. e < hi => buffer'[e] = buffer[e]
  <2> SUFFICES ASSUME e < hi PROVE buffer'[e] = buffer[e]
    OBVIOUS
  <2>1. e \in Positions /\ e >= q + HeaderSize + n
    BY <1>1, <1>3, Sizes
  <2>2. QED
    BY <2>1, Elsewhere
<1>8. QED
  BY <1>2, <1>3, <1>6, <1>7 DEF Record

LEMMA EndWriteStores ==
  ASSUME TypeOK, EndWrite
  PROVE  /\ Stored(job.pos, job.len, total_writes + 1)
         /\ write_pos' = After(job.pos, job.len)
         /\ buffer' \in [Positions -> Bytes]
<1>1. /\ job.pos \in Positions /\ job.len \in 1 .. MaxPayloadSize
      /\ job.pos + HeaderSize + job.len <= Capacity /\ total_writes + 1 \in Nat \ {0}
  BY Types, Sizes DEF EndWrite, TypeOK
<1>2. ASSUME NEW p \in Positions
      PROVE  /\ buffer'[p] = IF job.pos <= p /\ p < job.pos + HeaderSize + job.len
                             THEN [m |-> total_writes + 1, k |-> p - job.pos, len |-> job.len]
                             ELSE buffer[p]
             /\ buffer'[p] \in Bytes
  <2>1. buffer'[p] = IF p \in job.pos .. job.pos + HeaderSize + job.len - 1
                     THEN [m |-> total_writes + 1, k |-> p - job.pos, len |-> job.len]
                     ELSE buffer[p]
    BY DEF EndWrite
  <2>2. p \in job.pos .. job.pos + HeaderSize + job.len - 1
          <=> job.pos <= p /\ p < job.pos + HeaderSize + job.len
    BY <1>1, Sizes
  <2>3. job.pos <= p => p - job.pos \in Nat
    BY <1>1, Sizes
  <2>4. QED
    BY <1>1, <2>1, <2>2, <2>3, Types, Sizes DEF Bytes
<1>3. buffer' \in [Positions -> Bytes]
  BY <1>2 DEF EndWrite
<1>4. QED
  BY <1>1, <1>2, <1>3 DEF EndWrite, Stored

(* Nobody who has something to read is where the record goes. *)
LEMMA RoomLeft ==
  ASSUME TypeOK, Fits(job.pos, job.len), NEW r \in ReaderId, active[r]
  PROVE  LET p == Normal(read_pos[r])
         IN  p <= job.pos \/ p >= job.pos + HeaderSize + job.len
<1> DEFINE p == Normal(read_pos[r])
<1>1. p \in Positions
  BY Types, NormalPlace
<1>2. HeaderSize + job.len <= Capacity - Used(p, job.pos)
  BY DEF Fits
<1>3. CASE p > job.pos
  <2>1. Used(p, job.pos) = Capacity - (p - job.pos)
    BY <1>1, <1>3, Types, Sizes DEF Used
  <2>2. QED
    BY <1>1, <1>2, <2>1, Types, Sizes
<1>4. QED
  BY <1>1, <1>3, Types, Sizes

LEMMA EndWriteIInv == ASSUME IInv, EndWrite PROVE IInv'
<1>1. TypeOK /\ JobInv /\ LapInv /\ PrevInv /\ LapWhole /\ CursorInv
  BY DEF IInv
<1>2. PICK q \in Positions, n \in 1 .. MaxPayloadSize, m \in Nat \ {0} :
        q = job.pos /\ n = job.len /\ Stored(q, n, m)
  BY <1>1, EndWriteStores DEF Stored
<1> DEFINE e == q + HeaderSize + n
<1>3. e <= Capacity /\ e > q /\ e \in Nat
  BY <1>2, Sizes DEF Stored
<1>4. \/ write_pos' = e /\ e < Capacity /\ top' = top
      \/ write_pos' = 0 /\ e = Capacity /\ top' = Capacity
  <2>1. /\ write_pos' = After(q, n)
        /\ top' = IF write_pos' = 0 THEN Capacity ELSE top
    BY <1>2 DEF EndWrite
  <2>2. QED
    BY <1>3, <2>1, AfterPlace, Sizes
<1>5. q = write_pos \/ (q = 0 /\ write_pos > 0 /\ top = write_pos)
  BY <1>1, <1>2 DEF JobInv, EndWrite
<1>6. /\ write_pos \in Positions /\ top \in 0 .. Capacity
      /\ write_pos' \in Positions /\ top' \in 0 .. Capacity
  BY <1>1, <1>3, <1>4, Types, Sizes
<1>7. TypeOK'
  <2>1. buffer' \in [Positions -> Bytes]
    BY <1>1, EndWriteStores
  <2>2. job' \in [pos : Positions, len : 0 .. MaxPayloadSize]
        /\ job'.pos + HeaderSize + job'.len <= Capacity
    BY Sizes DEF EndWrite, Free
  <2>3. total_writes' \in Nat
    BY <1>1 DEF EndWrite, TypeOK
  <2>4. QED
    BY <1>1, <1>6, <2>1, <2>2, <2>3 DEF EndWrite, TypeOK, readers
<1>8. JobInv' /\ ~refused'
  BY DEF EndWrite, Free, JobInv, IInv
<1>9. /\ buffer'[q].k = 0 /\ Record(q, e)'
      /\ \A p \in Positions : q < p /\ p < e => buffer'[p].k # 0
      /\ \A p \in Positions : p < q \/ p >= e => buffer'[p] = buffer[p]
  BY <1>2, NewRecord, Elsewhere
(* In the lap that the record ends, it and those before it are records.    *)
<1>10. ASSUME NEW p \in Positions, p < e, buffer'[p].k = 0, q = write_pos \/ p >= q
       PROVE  Record(p, e)'
  <2>1. CASE p < q
    <3>1. q = write_pos
      BY <1>2, <1>10, <2>1, Sizes
    <3>2. buffer[p].k = 0
      BY <1>9, <1>10, <2>1
    <3>3. Record(p, q)
      BY <1>1, <2>1, <3>1, <3>2 DEF LapInv
    <3>4. QED
      BY <1>1, <1>2, <2>1, <3>3, RecordBelow
  <2>2. CASE p = q
    BY <1>9, <2>2
  <2>3. CASE p > q
    BY <1>9, <1>10, <2>3
  <2>4. QED
    BY <1>2, <2>1, <2>2, <2>3, Sizes
<1>11. LapInv'
  <2>1. CASE write_pos' = 0
    BY <2>1, Sizes DEF LapInv
  <2>2. CASE write_pos' = e
    <3>1. \A p, hi : p \in Positions /\ p < e /\ buffer'[p].k = 0 /\ hi = e => Record(p, hi)'
      BY <1>2, <1>5, <1>10, Sizes
    <3>2. buffer'[0].k = 0
      BY <1>1, <1>2, <1>5, <1>9, Sizes DEF LapInv
    <3>3. \A p \in Positions : p < write_pos' /\ buffer'[p].k = 0 => Record(p, write_pos)'
      BY <2>2, <3>1 DEF Record
    <3>4. QED
      BY <3>2, <3>3 DEF LapInv
  <2>3. QED
    BY <1>4, <2>1, <2>2
<1>12. PrevInv'
  <2>1. CASE write_pos' = 0 /\ e = Capacity /\ top' = Capacity
    <3>1. \A p, hi : p \in Positions /\ p > 0 /\ buffer'[p].k = 0 /\ hi = e => Record(p, hi)'
      BY <1>2, <1>3, <1>5, <1>9, <1>10, <2>1, Sizes
    <3>2. \A p \in Positions : p > write_pos' /\ p < top' /\ buffer'[p].k = 0 => Record(p, top)'
      BY <2>1, <3>1 DEF Record
    <3>3. QED
      BY <3>2 DEF PrevInv
  <2>2. CASE write_pos' = e /\ top' = top
    <3>1. ASSUME NEW p \in Positions, p > e, p < top, buffer'[p].k = 0
          PROVE  Record(p, top)
      <4>1. buffer[p].k = 0
        BY <1>2, <1>3, <1>9, <3>1, Sizes
      <4>2. CASE q = write_pos
        BY <1>1, <1>2, <1>3, <1>6, <3>1, <4>1, <4>2, Sizes DEF PrevInv
      <4>3. CASE top = write_pos
        BY <1>1, <3>1, <4>1, <4>3 DEF LapInv
      <4>4. QED
        BY <1>5, <4>2, <4>3
    <3>2. \A p, hi : p \in Positions /\ p > e /\ p < top /\ buffer'[p].k = 0 /\ hi = top
                       => Record(p, hi)'
      <4> SUFFICES ASSUME NEW p \in Positions, p > e, p < top, buffer'[p].k = 0,
                          NEW hi, hi = top
                   PROVE  Record(p, hi)'
        OBVIOUS
      <4>1. Record(p, hi) /\ hi \in 0 .. Capacity /\ p >= q + HeaderSize + n
        BY <1>2, <1>3, <1>6, <3>1, Sizes
      <4>2. QED
        BY <1>1, <1>2, <4>1, RecordAbove
    <3>3. \A p \in Positions : p > write_pos' /\ p < top' /\ buffer'[p].k = 0 => Record(p, top)'
      BY <2>2, <3>2 DEF Record
    <3>4. QED
      BY <3>3 DEF PrevInv
  <2>3. QED
    BY <1>4, <2>1, <2>2
<1>13. LapWhole'
  <2> SUFFICES ASSUME NEW p \in Positions, p < write_pos'
               PROVE  /\ buffer'[p].m > 0 /\ buffer'[p].k <= p
                      /\ p - buffer'[p].k + HeaderSize + buffer'[p].len <= write_pos'
                      /\ Whole(p - buffer[p].k, buffer[p].m, buffer[p].len)'
    BY DEF LapWhole
  <2>1. write_pos' = e
    BY <1>4, Sizes
  <2>2. CASE p >= q
    <3>1. buffer'[p] = [m |-> m, k |-> p - q, len |-> n]
      BY <1>2, <2>1, <2>2 DEF Stored
    <3>2. p - (p - q) = q /\ p - q <= p
      BY <1>2, Sizes
    <3>3. Whole(q, m, n)'
      BY <1>2, NewRecord
    <3>4. \A x, y, z : x = q /\ y = m /\ z = n => Whole(x, y, z)'
      BY <3>3
    <3>5. Whole(p - buffer[p].k, buffer[p].m, buffer[p].len)'
      BY <3>1, <3>2, <3>4 DEF Whole
    <3>6. QED
      BY <1>2, <1>3, <2>1, <3>1, <3>2, <3>5, Sizes
  <2>3. CASE p < q
    <3>1. q = write_pos
      BY <1>2, <1>5, <2>3, Sizes
    <3>2. buffer'[p] = buffer[p]
      BY <1>9, <2>3
    <3> DEFINE b == buffer[p]
    <3>3. /\ b.m > 0 /\ b.k <= p /\ p - b.k + HeaderSize + b.len <= q
          /\ Whole(p - b.k, b.m, b.len)
      BY <1>1, <2>3, <3>1 DEF LapWhole
    <3>4. b.k \in Nat /\ b.len \in Nat
      BY <1>1, Types DEF Bytes
    <3>5. p - b.k \in Positions
      BY <3>3, <3>4, Sizes
    <3>6. \A x, y, z : x = p - b.k /\ y = b.m /\ z = b.len => Whole(x, y, z)'
      BY <1>2, <3>3, <3>4, <3>5, OldWhole
    <3>7. Whole(p - buffer[p].k, buffer[p].m, buffer[p].len)'
      BY <3>2, <3>6 DEF Whole
    <3>8. p - b.k + HeaderSize + b.len <= e
      BY <1>3, <3>3, <3>4, Sizes
    <3>9. QED
      BY <2>1, <3>2, <3>3, <3>7, <3>8
  <2>4. QED
    BY <1>2, <2>2, <2>3, Sizes
<1>14. CursorInv'
  <2>1. active' = active /\ read_pos' = read_pos
    BY DEF EndWrite, readers
  <2> SUFFICES ASSUME NEW r \in ReaderId, active[r] PROVE Place(Normal(read_pos[r]))'
    BY <2>1 DEF CursorInv
  <2>2. PICK p \in Positions : p = Normal(read_pos[r])
    BY <1>1, Types, NormalPlace
  <2>3. p <= q \/ p >= e
    BY <1>1, <1>2, <2>2, RoomLeft DEF EndWrite
  <2>4. Place(p)
    BY <1>1, <2>2 DEF CursorInv
  <2>5. p < write_pos' \/ (p > write_pos' /\ p < top') => buffer'[p].k = 0
    <3>1. CASE p = q
      BY <1>9, <3>1
    <3>2. CASE p < q
      <4>1. q = write_pos /\ buffer'[p] = buffer[p]
        BY <1>2, <1>5, <1>9, <3>2, Sizes
      <4>2. QED
        BY <2>4, <3>2, <4>1 DEF Place
    <3>3. CASE p >= e
      <4>1. buffer'[p] = buffer[p]
        BY <1>9, <3>3
      <4>2. write_pos' = e /\ top' = top
        BY <1>4, <3>3, Sizes
      <4>3. p > e /\ p < top => buffer[p].k = 0
        BY <1>2, <1>3, <1>5, <1>6, <2>4, Sizes DEF Place
      <4>4. QED
        BY <1>3, <3>3, <4>1, <4>2, <4>3, Sizes
    <3>4. QED
      BY <1>2, <2>3, <3>1, <3>2, <3>3, Sizes
  <2>6. Normal(read_pos[r])' = p
    BY <2>1, <2>2 DEF Normal
  <2>7. QED
    BY <2>5, <2>6 DEF Place
<1>15. QED
  BY <1>7, <1>8, <1>11, <1>12, <1>13, <1>14 DEF IInv

-----------------------------------------------------------------------------
(* The theorems *)

LEMMA NextIInv == IInv /\ [Next]_vars => IInv'
<1> SUFFICES ASSUME IInv, [Next]_vars PROVE IInv'
  OBVIOUS
<1>1. CASE \E r \in ReaderId : RegisterReader(r)
  BY <1>1, RegisterIInv
<1>2. CASE \E r \in ReaderId : UnregisterReader(r)
  BY <1>2, UnregisterIInv
<1>3. CASE \E r \in ReaderId : WaitRead(r)
  BY <1>3, WaitReadIInv
<1>4. CASE ClearOverwriteFlag
  BY <1>4, ClearIInv
<1>5. CASE \E n \in Lengths : BeginWrite(n)
  BY <1>5, BeginWriteIInv
<1>6. CASE Drop
  BY <1>6, DropIInv
<1>7. CASE EndWrite
  BY <1>7, EndWriteIInv
<1>8. CASE UNCHANGED vars
  <2>1. TypeOK' /\ JobInv' /\ ~refused'
    BY <1>8 DEF vars, IInv, TypeOK, JobInv
  <2>2. \A r \in ReaderId : active'[r] => Place(Normal(read_pos'[r]))
    BY <1>8 DEF vars, IInv, CursorInv
  <2>3. QED
    BY <1>8, <2>1, <2>2, FrameCursors DEF vars
<1>9. QED
  BY <1>1, <1>2, <1>3, <1>4, <1>5, <1>6, <1>7, <1>8 DEF Next

LEMMA AlwaysIInv == Spec => []IInv
BY InitIInv, NextIInv, PTL DEF Spec

(* The type invariant, for any capacity, readers and lengths: no position  *)
(* or record of shared_ring_buffer.hpp ever passes the end of the ring.    *)
THEOREM RingTypeCorrect == Spec => []TypeOK
<1>1. IInv => TypeOK
  BY DEF IInv
<1>2. QED
  BY <1>1, AlwaysIInv, PTL

(* shared_ring_buffer.hpp:227-276: write() returns false for no length     *)
(* that can fit, wherever readers are, and whatever drops find.            *)
THEOREM WriteNeverRefused == Spec => []NeverRefused
<1>1. IInv => NeverRefused
  BY DEF IInv, NeverRefused
<1>2. QED
  BY <1>1, AlwaysIInv, PTL

(* shared_ring_buffer.hpp:236-268: what the writer has written since it    *)
(* was at the start is a row of whole records.                             *)
THEOREM LapIsWhole == Spec => []LapWhole
<1>1. IInv => LapWhole
  BY DEF IInv
<1>2. QED
  BY <1>1, AlwaysIInv, PTL

(* shared_ring_buffer.hpp:318-355, 647-697: reads and drops leave cursors  *)
(* at the beginning of whole records, although lengths are taken from      *)
(* unmarked bytes behind the end of a lap.                                 *)
THEOREM CursorsOnRecords == Spec => []CursorOnRecord
<1>1. IInv => CursorOnRecord
  <2> SUFFICES ASSUME IInv, NEW r \in ReaderId, active[r],
                      NEW p, p = Normal(read_pos[r]),
                      p < write_pos \/ (p > write_pos /\ p < top)
               PROVE  buffer[p].m > 0 /\ Whole(p, buffer[p].m, buffer[p].len)
    BY DEF CursorOnRecord
  <2>1. p \in Positions
    BY Types, NormalPlace DEF IInv
  <2>2. buffer[p].k = 0
    BY DEF IInv, CursorInv, Place
  <2>3. Record(p, write_pos) \/ Record(p, top)
    BY <2>1, <2>2 DEF IInv, LapInv, PrevInv
  <2>4. QED
    BY <2>3 DEF Record
<1>2. QED
  BY <1>1, AlwaysIInv, PTL

-----------------------------------------------------------------------------
(* The loop of write() *)

(* The bytes that reader r has before it, seen from where the record goes. *)
Lag(r) == Used(Normal(read_pos[r]), job.pos)

(* write(), which holds the mutex of all processes while it drops, gets    *)
(* nearer to its end with every drop: no reader falls back, not even one   *)
(* whose cursor was moved by a length out of the middle of an old record,  *)
(* and one at least moves on.                                              *)
DropsAdvance ==
  [][Drop => /\ job' = job
             /\ \A r \in ReaderId : active[r] => Lag(r)' <= Lag(r)
             /\ \E r \in ReaderId : active[r] /\ Lag(r)' < Lag(r)]_vars

(* There are at most Capacity drops for each reader in one write(). *)
LagBounded == \A r \in ReaderId : Lag(r) \in 0 .. Capacity

(* A reader's distance is within one lap. *)
LEMMA LagTyped ==
  ASSUME NEW p \in Positions, NEW w \in Positions
  PROVE  Used(Normal(p), w) \in 0 .. Capacity
BY Sizes, NormalPlace DEF Used

(* From a cursor at p, a drop leads nearer to the place of the record. *)
LEMMA DropNearer ==
  ASSUME IInv, job.len > 0, NEW p \in Positions, p <= MaxPayloadSize, Place(p), p # job.pos,
         NEW n \in ReadLength(p)
  PROVE  LET q == IF Corrupt(n) THEN job.pos ELSE After(p, n)
         IN  Used(Normal(q), job.pos) < Used(p, job.pos)
<1>1. TypeOK /\ JobInv /\ LapInv /\ PrevInv
  BY DEF IInv
<1>2. /\ job.pos \in Positions /\ job.pos <= MaxPayloadSize /\ write_pos \in Positions
      /\ HeaderSize \in Nat \ {0} /\ Capacity \in Nat /\ MaxPayloadSize = Capacity - HeaderSize
      /\ Positions = 0 .. Capacity - 1
  BY <1>1, Types, Sizes
<1>3. CASE Corrupt(n)
  BY <1>2, <1>3 DEF Normal, Used
<1>4. CASE ~Corrupt(n)
  <2>1. n \in 1 .. MaxPayloadSize
    BY <1>1, <1>4, LengthRead
  <2>. DEFINE q == After(p, n)
  <2>2. \/ q = p + HeaderSize + n /\ p + HeaderSize + n < Capacity
        \/ q = 0
    BY <2>1, AfterPlace
  <2>3. p < job.pos => q = p + HeaderSize + n /\ q <= job.pos
    <3>1. SUFFICES ASSUME p < job.pos PROVE q = p + HeaderSize + n /\ q <= job.pos
      OBVIOUS
    <3>2. job.pos = write_pos
      BY <1>1, <1>2, <3>1 DEF JobInv
    <3>3. Record(p, write_pos)
      BY <1>1, <3>1, <3>2 DEF Place, LapInv
    <3>4. n = buffer[p].len
      BY <1>1, <3>3, LengthOfRecord
    <3>5. p + HeaderSize + n <= write_pos
      <4>1. \/ p + HeaderSize + n = write_pos
            \/ p + HeaderSize + n < write_pos
        BY <3>3, <3>4 DEF Record
      <4>2. QED
        BY <1>2, <2>1, <4>1
    <3>6. p + HeaderSize + n < Capacity
      BY <1>2, <2>1, <3>5
    <3>7. QED
      BY <1>2, <2>1, <3>2, <3>5, <3>6 DEF After
  <2>. HIDE DEF q
  <2>4. Normal(q) = q \/ (Normal(q) = 0 /\ q > MaxPayloadSize)
    BY DEF Normal
  <2>. p \in Nat /\ n \in Nat /\ n > 0 /\ job.pos \in Nat /\ job.pos < Capacity
    BY <1>2, <2>1
  <2>5. ASSUME p < job.pos  PROVE  Used(Normal(q), job.pos) < Used(p, job.pos)
    <3>1. q = p + HeaderSize + n /\ q <= job.pos /\ q \in Nat /\ q > p
      BY <1>2, <2>3, <2>5
    <3>2. Normal(q) = q
      BY <1>2, <2>4, <3>1
    <3>3. Used(q, job.pos) = job.pos - q /\ Used(p, job.pos) = job.pos - p
      BY <2>5, <3>1 DEF Used
    <3>4. QED
      BY <3>1, <3>2, <3>3
  <2>6. ASSUME p > job.pos  PROVE  Used(Normal(q), job.pos) < Used(p, job.pos)
    <3>1. Normal(q) = 0 \/ (Normal(q) = p + HeaderSize + n /\ p + HeaderSize + n < Capacity)
      BY <2>2, <2>4
    <3>2. Used(p, job.pos) = Capacity - (p - job.pos) /\ p < Capacity
      BY <1>2, <2>6 DEF Used
    <3>3. CASE Normal(q) = 0
      <4>1. Used(Normal(q), job.pos) = job.pos
        BY <3>3 DEF Used
      <4>2. QED
        BY <1>2, <3>2, <4>1
    <3>4. CASE Normal(q) = p + HeaderSize + n /\ p + HeaderSize + n < Capacity
      <4>1. ~(job.pos >= p + HeaderSize + n)
        BY <1>2, <2>6
      <4>2. Used(p + HeaderSize + n, job.pos) = Capacity - (p + HeaderSize + n - job.pos)
        BY <1>2, <4>1 DEF Used
      <4>3. Used(Normal(q), job.pos) = Used(p + HeaderSize + n, job.pos)
        BY <3>4
      <4>4. QED
        BY <1>2, <3>2, <4>2, <4>3
    <3>5. QED
      BY <3>1, <3>3, <3>4
  <2>7. QED
    BY <1>2, <1>4, <2>5, <2>6 DEF q
<1>5. QED
  BY <1>3, <1>4

(* What a drop does, in states of the invariant: it is never refused. *)
LEMMA DropEffect ==
  ASSUME IInv, Drop
  PROVE  /\ job' = job /\ job.len > 0
         /\ \E r \in ReaderId :
              /\ active[r] /\ Normal(read_pos[r]) # job.pos
              /\ \E n \in ReadLength(Normal(read_pos[r])) :
                   read_pos' = [s \in ReaderId |->
                     IF active[s] /\ Normal(read_pos[s]) = Normal(read_pos[r])
                     THEN IF Corrupt(n) THEN job.pos ELSE After(Normal(read_pos[r]), n)
                     ELSE read_pos[s]]
<1>1. TypeOK
  BY DEF IInv
<1>2. PICK r \in Slowest(job.pos) :
        LET p == Normal(read_pos[r])
        IN  IF p = job.pos
            THEN /\ job' = Free /\ refused' = TRUE
                 /\ UNCHANGED <<read_pos, drop_count, overwrite_flag>>
            ELSE /\ \E n \in ReadLength(p) :
                      read_pos' = [s \in ReaderId |->
                        IF active[s] /\ Normal(read_pos[s]) = p
                        THEN IF Corrupt(n) THEN job.pos ELSE After(p, n)
                        ELSE read_pos[s]]
                 /\ drop_count' = drop_count + 1 /\ overwrite_flag' = TRUE
                 /\ UNCHANGED <<job, refused>>
  BY DEF Drop
<1>3. r \in ReaderId /\ active[r]
  BY DEF Slowest
<1>4. Normal(read_pos[r]) # job.pos /\ job.len > 0
  BY <1>1, SlowestLags DEF Drop
<1>5. QED
  BY <1>2, <1>3, <1>4

(* The dropped reader gets nearer, and nobody falls back. *)
LEMMA DropAdvances ==
  ASSUME IInv, Drop
  PROVE  /\ job' = job
         /\ \A r \in ReaderId : active[r] => Lag(r)' <= Lag(r)
         /\ \E r \in ReaderId : active[r] /\ Lag(r)' < Lag(r)
<1>1. PICK r \in ReaderId :
        /\ active[r] /\ Normal(read_pos[r]) # job.pos
        /\ \E n \in ReadLength(Normal(read_pos[r])) :
             read_pos' = [s \in ReaderId |->
               IF active[s] /\ Normal(read_pos[s]) = Normal(read_pos[r])
               THEN IF Corrupt(n) THEN job.pos ELSE After(Normal(read_pos[r]), n)
               ELSE read_pos[s]]
  BY DropEffect
<1>11. PICK n \in ReadLength(Normal(read_pos[r])) :
         read_pos' = [s \in ReaderId |->
           IF active[s] /\ Normal(read_pos[s]) = Normal(read_pos[r])
           THEN IF Corrupt(n) THEN job.pos ELSE After(Normal(read_pos[r]), n)
           ELSE read_pos[s]]
  BY <1>1
<1>2. job' = job /\ job.len > 0
  BY DropEffect
<1>. DEFINE p == Normal(read_pos[r])
            q == IF Corrupt(n) THEN job.pos ELSE After(p, n)
<1>3. p \in Positions /\ p <= MaxPayloadSize /\ Place(p)
  BY <1>1, Types, NormalPlace DEF IInv, CursorInv
<1>4. Used(Normal(q), job.pos) < Used(p, job.pos)
  BY <1>1, <1>2, <1>3, DropNearer
<1>5. \A s \in ReaderId : read_pos[s] \in Positions /\ job.pos \in Positions
  BY Types DEF IInv
<1>6. ASSUME NEW s \in ReaderId  PROVE  Lag(s) \in 0 .. Capacity
  BY <1>5, LagTyped DEF Lag
<1>7. ASSUME NEW s \in ReaderId, active[s], Normal(read_pos[s]) = p
      PROVE  Lag(s)' < Lag(s)
  BY <1>11, <1>2, <1>4, <1>7 DEF Lag, Used, Normal
<1>8. ASSUME NEW s \in ReaderId, ~(active[s] /\ Normal(read_pos[s]) = p)
      PROVE  Lag(s)' = Lag(s)
  BY <1>11, <1>2, <1>8 DEF Lag, Used, Normal
<1>9. \A s \in ReaderId : Lag(s)' <= Lag(s)
  <2>1. SUFFICES ASSUME NEW s \in ReaderId PROVE Lag(s)' <= Lag(s)
    OBVIOUS
  <2>2. Lag(s) \in Int /\ Lag(s)' \in Int
    <3>1. Lag(s)' \in 0 .. Capacity
      <4>1. TypeOK'
        BY DropIInv DEF IInv
      <4>2. read_pos'[s] \in Positions /\ job'.pos \in Positions
        BY <4>1 DEF TypeOK
      <4>3. QED
        BY <4>2, LagTyped DEF Lag
    <3>2. QED
      BY <1>6, <3>1
  <2>3. CASE active[s] /\ Normal(read_pos[s]) = p
    BY <1>7, <2>2, <2>3
  <2>4. CASE ~(active[s] /\ Normal(read_pos[s]) = p)
    BY <1>8, <2>2, <2>4
  <2>5. QED
    BY <2>3, <2>4
<1>10. QED
  BY <1>1, <1>2, <1>7, <1>9

(* For any readers, lengths and capacity, and whatever the drops read.     *)
THEOREM WriteGetsOn == Spec => ([]LagBounded) /\ DropsAdvance
<1>1. IInv => LagBounded
  <2>1. SUFFICES ASSUME IInv, NEW r \in ReaderId PROVE Lag(r) \in 0 .. Capacity
    BY DEF LagBounded
  <2>2. TypeOK
    BY <2>1 DEF IInv
  <2>3. read_pos[r] \in Positions /\ job.pos \in Positions
    BY <2>2, Types
  <2>4. QED
    BY <2>3, LagTyped DEF Lag
<1>2. IInv /\ [Next]_vars =>
        [Drop => /\ job' = job
                 /\ \A r \in ReaderId : active[r] => Lag(r)' <= Lag(r)
                 /\ \E r \in ReaderId : active[r] /\ Lag(r)' < Lag(r)]_vars
  BY DropAdvances
<1>3. QED
  BY <1>1, <1>2, AlwaysIInv, PTL DEF Spec, DropsAdvance
=============================================================================
