--------------------------- MODULE RawDataProofs ----------------------------
(***************************************************************************)
(* Theorems about what carries and what takes apart raw bytes.  RawDataRing:*)
(* for every number of reader slots, every capacity and every bound on the *)
(* number of messages pushed.  GooseParser: for every buffer, and arrays of *)
(* every capacity.  SerTlv: for every table of records whose bytes a length *)
(* can count.                                                               *)
(***************************************************************************)
EXTENDS RawDataRing, GooseParser, SerTlv, WellFoundedInduction, SequenceTheorems, TLAPS

-----------------------------------------------------------------------------
(* The ring of raw buffers *)

(* The deque is the tail of the log that starts at base_index. *)
QueueIsLogTail ==
  /\ End = Len(log)
  /\ total_writes = Len(log)
  /\ \A i \in 1 .. Len(queue) : queue[i] = log[base_index + i]

(* ReaderStream, stated element by element. *)
StreamInv ==
  \A r \in ReaderId : active[r] =>
    /\ total_reads[r] + missed[r] + since[r] = read_index[r]
    /\ Len(got[r]) = total_reads[r]
    /\ missed[r] = 0 => \A i \in 1 .. Len(got[r]) : got[r][i] = log[since[r] + i]

(* Either some reader is at the front, or no reader has moved since it     *)
(* registered: the front is then older than all of them.                   *)
FrontInv ==
  (queue # <<>> /\ \E r \in ReaderId : active[r])
    => \/ \E r \in ReaderId : active[r] /\ read_index[r] = base_index
       \/ \A r \in ReaderId : active[r] => read_index[r] = since[r]

IInv == TypeOK /\ CursorInWindow /\ QueueIsLogTail /\ StreamInv /\ FrontInv

-----------------------------------------------------------------------------
(* Dropping the k oldest elements of a sequence. *)
LEMMA DropFront ==
  ASSUME NEW S, NEW q \in Seq(S), NEW k \in 0 .. Len(q)
  PROVE  /\ SubSeq(q, k + 1, Len(q)) \in Seq(S)
         /\ Len(SubSeq(q, k + 1, Len(q))) = Len(q) - k
         /\ \A i \in 1 .. Len(q) - k : SubSeq(q, k + 1, Len(q))[i] = q[k + i]
<1>1. /\ k + 1 \in Int
      /\ Len(q) \in Int
      /\ \A i \in k + 1 .. Len(q) : q[i] \in S
  OBVIOUS
<1>2. /\ SubSeq(q, k + 1, Len(q)) \in Seq(S)
      /\ Len(SubSeq(q, k + 1, Len(q))) = IF k + 1 <= Len(q) THEN Len(q) - (k + 1) + 1 ELSE 0
      /\ \A i \in 1 .. Len(q) - (k + 1) + 1 : SubSeq(q, k + 1, Len(q))[i] = q[k + 1 + i - 1]
  BY <1>1, SubSeqProperties
<1>3. QED
  BY <1>2

(* The elements of a sequence after the first a, up to the b-th. *)
LEMMA Segment ==
  ASSUME NEW S, NEW q \in Seq(S), NEW a \in Nat, NEW b \in Nat, a <= b, b <= Len(q)
  PROVE  /\ SubSeq(q, a + 1, b) \in Seq(S)
         /\ Len(SubSeq(q, a + 1, b)) = b - a
         /\ \A i \in 1 .. b - a : SubSeq(q, a + 1, b)[i] = q[a + i]
<1>1. /\ a + 1 \in Int
      /\ b \in Int
      /\ \A i \in a + 1 .. b : q[i] \in S
  OBVIOUS
<1>2. /\ SubSeq(q, a + 1, b) \in Seq(S)
      /\ Len(SubSeq(q, a + 1, b)) = IF a + 1 <= b THEN b - (a + 1) + 1 ELSE 0
      /\ \A i \in 1 .. b - (a + 1) + 1 : SubSeq(q, a + 1, b)[i] = q[a + 1 + i - 1]
  BY <1>1, SubSeqProperties
<1>3. QED
  BY <1>2

(* What trimConsumed() does: it drops from the front some messages, none   *)
(* of them unread by an active reader, and when it stops short of emptying *)
(* the deque a reader is at the new front.                                 *)
LEMMA TrimEffect ==
  ASSUME TypeOK,
         NEW act \in [ReaderId -> BOOLEAN], NEW cur \in [ReaderId -> Nat],
         \A r \in ReaderId : act[r] => cur[r] \in base_index .. End,
         TrimConsumed(act, cur)
  PROVE  /\ base_index' \in base_index .. End
         /\ base_index' \in Nat
         /\ queue' \in Seq(Messages)
         /\ Len(queue') \in Nat /\ base_index' + Len(queue') = base_index + Len(queue)
         /\ End' = End
         /\ \A i \in 1 .. Len(queue') : queue'[i] = queue[base_index' - base_index + i]
         /\ \A r \in ReaderId : act[r] => cur[r] \in base_index' .. End
         /\ (queue' # <<>> /\ \E r \in ReaderId : act[r])
              => \E r \in ReaderId : act[r] /\ cur[r] = base_index'
<1>. DEFINE k == base_index' - base_index
<1>1. PICK b \in base_index .. End :
         /\ TrimsTo(b, act, cur)
         /\ base_index' = b
         /\ queue' = SubSeq(queue, b - base_index + 1, Len(queue))
  BY DEF TrimConsumed
<1>2. /\ base_index \in Nat
      /\ queue \in Seq(Messages)
      /\ Len(queue) \in Nat
      /\ End = base_index + Len(queue)
  BY DEF TypeOK, End
<1>3. k \in 0 .. Len(queue)
  BY <1>1, <1>2
<1>4. /\ queue' \in Seq(Messages)
      /\ Len(queue') = Len(queue) - k
      /\ \A i \in 1 .. Len(queue) - k : queue'[i] = queue[k + i]
  BY <1>1, <1>2, <1>3, DropFront
<1>5. End' = End
  BY <1>1, <1>2, <1>4 DEF End
<1>6. \A r \in ReaderId : act[r] => cur[r] \in base_index' .. End
  BY <1>1, <1>2 DEF TrimsTo
<1>7. ASSUME queue' # <<>>, NEW s \in ReaderId, act[s]
      PROVE  \E r \in ReaderId : act[r] /\ cur[r] = base_index'
  <2>1. Len(queue') # 0
    BY <1>4, <1>7
  <2>2. base_index' # End
    BY <1>1, <1>2, <1>4, <2>1
  <2>3. PICK r \in ReaderId : act[r] /\ cur[r] <= base_index'
    BY <1>1, <1>7, <2>2 DEF TrimsTo
  <2>4. cur[r] = base_index'
    BY <1>1, <1>2, <1>6, <2>3
  <2>5. QED
    BY <2>3, <2>4
<1>8. /\ base_index' \in base_index .. End /\ base_index' \in Nat
      /\ Len(queue') \in Nat /\ base_index' + Len(queue') = base_index + Len(queue)
  BY <1>1, <1>2, <1>4
<1>9. QED
  BY <1>4, <1>5, <1>6, <1>7, <1>8

-----------------------------------------------------------------------------
LEMMA InitIInv == Init => IInv
<1>1. SUFFICES ASSUME Init PROVE IInv
  OBVIOUS
<1>2. /\ Len(queue) = 0
      /\ Len(log) = 0
      /\ \A r \in ReaderId : ~active[r]
  BY <1>1 DEF Init
<1>3. TypeOK
  BY <1>1 DEF Init, TypeOK
<1>4. CursorInWindow /\ QueueIsLogTail /\ StreamInv /\ FrontInv
  BY <1>1, <1>2, RingAssumption
  DEF Init, CursorInWindow, QueueIsLogTail, StreamInv, FrontInv, End
<1>5. QED
  BY <1>3, <1>4 DEF IInv

(* Facts of the invariant that every step needs. *)
LEMMA Basics ==
  ASSUME IInv
  PROVE  /\ base_index \in Nat /\ Len(queue) \in Nat /\ Len(log) \in Nat
         /\ queue \in Seq(Messages) /\ log \in Seq(Messages)
         /\ End = base_index + Len(queue) /\ End = Len(log)
         /\ \A r \in ReaderId : active[r] =>
              /\ read_index[r] \in base_index .. End
              /\ since[r] \in Nat /\ total_reads[r] \in Nat /\ missed[r] \in Nat
              /\ since[r] <= read_index[r]
              /\ Len(got[r]) = total_reads[r]
BY DEF IInv, TypeOK, CursorInWindow, QueueIsLogTail, StreamInv, End

LEMMA RegisterStep ==
  ASSUME IInv, NEW r \in ReaderId, RegisterReader(r)
  PROVE  IInv'
<1>. USE DEF RegisterReader
<1>1. /\ base_index \in Nat /\ Len(queue) \in Nat
      /\ End = base_index + Len(queue) /\ End = Len(log) /\ End' = End
  BY Basics DEF End
<1>2. TypeOK'
  BY <1>1 DEF IInv, TypeOK
<1>3. CursorInWindow'
  BY <1>1 DEF IInv, TypeOK, CursorInWindow
<1>4. QueueIsLogTail'
  BY <1>1 DEF IInv, QueueIsLogTail
<1>5. StreamInv'
  <2>. SUFFICES ASSUME NEW s \in ReaderId, active'[s]
                PROVE  /\ total_reads'[s] + missed'[s] + since'[s] = read_index'[s]
                       /\ Len(got'[s]) = total_reads'[s]
                       /\ missed'[s] = 0 =>
                            \A i \in 1 .. Len(got'[s]) : got'[s][i] = log'[since'[s] + i]
    BY DEF StreamInv
  <2>1. CASE s = r
    BY <1>1, <2>1 DEF IInv, TypeOK
  <2>2. CASE s # r
    BY <2>2 DEF IInv, TypeOK, StreamInv
  <2>3. QED
    BY <2>1, <2>2
<1>6. FrontInv'
  <2>1. read_index'[r] = since'[r]
    BY <1>1 DEF IInv, TypeOK
  <2>2. \A s \in ReaderId : s # r => /\ active'[s] = active[s]
                                    /\ read_index'[s] = read_index[s]
                                    /\ since'[s] = since[s]
    BY DEF IInv, TypeOK
  <2>3. ~active[r]
    OBVIOUS
  <2>4. QED
    BY <2>1, <2>2, <2>3 DEF IInv, FrontInv
<1>7. QED
  BY <1>2, <1>3, <1>4, <1>5, <1>6 DEF IInv

(* A deque that lost only messages from its front is still the log's tail. *)
LEMMA TailKept ==
  ASSUME IInv, log' = log, total_writes' = total_writes,
         base_index' \in base_index .. End, base_index' \in Nat,
         Len(queue') \in Nat, base_index' + Len(queue') = base_index + Len(queue),
         End' = End,
         \A i \in 1 .. Len(queue') : queue'[i] = queue[base_index' - base_index + i]
  PROVE  QueueIsLogTail'
<1>1. /\ base_index \in Nat /\ Len(queue) \in Nat
      /\ End = base_index + Len(queue)
      /\ \A i \in 1 .. Len(queue) : queue[i] = log[base_index + i]
  BY Basics DEF IInv, QueueIsLogTail
<1>2. ASSUME NEW i \in 1 .. Len(queue')
      PROVE  queue'[i] = log'[base_index' + i]
  <2> DEFINE a == base_index  b == base_index'  l == Len(queue)  m == Len(queue')
  <2>1. a \in Nat /\ b \in Nat /\ l \in Nat /\ m \in Nat /\ a <= b /\ b + m = a + l /\ i \in 1 .. m
    BY <1>1
  <2> HIDE DEF a, b, l, m
  <2>2. b - a + i \in 1 .. l /\ a + (b - a + i) = b + i
    BY <2>1
  <2>3. QED
    BY <1>1, <2>2 DEF a, b, l
<1>3. QED
  BY <1>2 DEF IInv, QueueIsLogTail

LEMMA UnregisterStep ==
  ASSUME IInv, NEW r \in ReaderId, UnregisterReader(r)
  PROVE  IInv'
<1>0. /\ active' = [active EXCEPT ![r] = FALSE]
      /\ TrimConsumed(active', read_index)
      /\ read_index' = read_index /\ total_reads' = total_reads
      /\ total_writes' = total_writes /\ drop_count' = drop_count
      /\ log' = log /\ got' = got /\ since' = since /\ missed' = missed
  BY DEF UnregisterReader
<1>1. /\ active' \in [ReaderId -> BOOLEAN]
      /\ \A s \in ReaderId : active'[s] => active[s]
      /\ read_index \in [ReaderId -> Nat]
  BY <1>0 DEF IInv, TypeOK
<1>2. \A s \in ReaderId : active'[s] => read_index[s] \in base_index .. End
  BY <1>1, Basics
<1>3. /\ base_index' \in base_index .. End /\ base_index' \in Nat
      /\ queue' \in Seq(Messages)
      /\ Len(queue') \in Nat /\ base_index' + Len(queue') = base_index + Len(queue)
      /\ End' = End
      /\ \A i \in 1 .. Len(queue') : queue'[i] = queue[base_index' - base_index + i]
      /\ \A s \in ReaderId : active'[s] => read_index[s] \in base_index' .. End
      /\ (queue' # <<>> /\ \E s \in ReaderId : active'[s])
           => \E s \in ReaderId : active'[s] /\ read_index[s] = base_index'
  BY <1>0, <1>1, <1>2, TrimEffect DEF IInv
<1>4. TypeOK'
  BY <1>0, <1>1, <1>3 DEF IInv, TypeOK
<1>5. CursorInWindow'
  <2>1. Len(queue) <= MaxSize /\ Len(queue) \in Nat /\ base_index \in Nat
    BY Basics DEF IInv, CursorInWindow
  <2>2. Len(queue') <= MaxSize
    BY <1>3, <2>1, RingAssumption, Basics
  <2>3. QED
    BY <1>0, <1>3, <2>2 DEF CursorInWindow
<1>6. QueueIsLogTail'
  BY <1>0, <1>3, TailKept DEF IInv, QueueIsLogTail
<1>7. StreamInv'
  BY <1>0, <1>1 DEF IInv, StreamInv
<1>8. FrontInv'
  BY <1>0, <1>3 DEF FrontInv
<1>9. QED
  BY <1>4, <1>5, <1>6, <1>7, <1>8 DEF IInv

LEMMA PopStep ==
  ASSUME IInv, NEW r \in ReaderId, Pop(r)
  PROVE  IInv'
<1>0. /\ CanPop(r)
      /\ got' = [got EXCEPT ![r] = Append(@, queue[read_index[r] - base_index + 1])]
      /\ read_index' = [read_index EXCEPT ![r] = @ + 1]
      /\ total_reads' = [total_reads EXCEPT ![r] = @ + 1]
      /\ TrimConsumed(active, read_index')
      /\ active' = active /\ total_writes' = total_writes /\ drop_count' = drop_count
      /\ log' = log /\ since' = since /\ missed' = missed
  BY DEF Pop
<1>1. /\ active[r] /\ read_index[r] \in base_index .. End /\ read_index[r] < End
      /\ read_index \in [ReaderId -> Nat]
      /\ read_index' \in [ReaderId -> Nat]
      /\ read_index'[r] = read_index[r] + 1
      /\ \A s \in ReaderId : s # r => read_index'[s] = read_index[s]
      /\ active \in [ReaderId -> BOOLEAN]
      /\ base_index \in Nat /\ End \in Nat
  <2>1. active[r] /\ read_index[r] < End
    BY <1>0 DEF CanPop
  <2>2. read_index[r] \in base_index .. End
    BY <2>1, Basics
  <2>3. /\ read_index \in [ReaderId -> Nat] /\ active \in [ReaderId -> BOOLEAN]
        /\ base_index \in Nat
    BY DEF IInv, TypeOK
  <2>4. End \in Nat
    BY Basics
  <2>5. QED
    BY <1>0, <2>1, <2>2, <2>3, <2>4
<1>2. ASSUME NEW s \in ReaderId, active[s]
      PROVE  read_index'[s] \in base_index .. End
  <2>1. CASE s = r
    BY <1>1, <2>1
  <2>2. CASE s # r
    BY <1>1, <1>2, <2>2, Basics
  <2>3. QED
    BY <2>1, <2>2
<1>3. /\ base_index' \in base_index .. End /\ base_index' \in Nat
      /\ queue' \in Seq(Messages)
      /\ Len(queue') \in Nat /\ base_index' + Len(queue') = base_index + Len(queue)
      /\ End' = End
      /\ \A i \in 1 .. Len(queue') : queue'[i] = queue[base_index' - base_index + i]
      /\ \A s \in ReaderId : active[s] => read_index'[s] \in base_index' .. End
      /\ (queue' # <<>> /\ \E s \in ReaderId : active[s])
           => \E s \in ReaderId : active[s] /\ read_index'[s] = base_index'
  <2>1. TypeOK /\ TrimConsumed(active, read_index')
    BY <1>0 DEF IInv
  <2>2. active \in [ReaderId -> BOOLEAN] /\ read_index' \in [ReaderId -> Nat]
    BY <1>1
  <2>3. \A s \in ReaderId : active[s] => read_index'[s] \in base_index .. End
    BY <1>2
  <2>4. QED
    BY <2>1, <2>2, <2>3, TrimEffect
<1>4. /\ read_index[r] - base_index + 1 \in 1 .. Len(queue)
      /\ queue[read_index[r] - base_index + 1] = log[read_index[r] + 1]
      /\ queue[read_index[r] - base_index + 1] \in Messages
  <2>1. /\ Len(queue) \in Nat /\ base_index \in Nat /\ queue \in Seq(Messages)
        /\ End = base_index + Len(queue) /\ read_index[r] \in Nat
        /\ read_index[r] >= base_index /\ read_index[r] < End
    BY <1>1, Basics
  <2>2. read_index[r] - base_index + 1 \in 1 .. Len(queue)
    BY <2>1
  <2>3. base_index + (read_index[r] - base_index + 1) = read_index[r] + 1
    BY <2>1
  <2>4. QED
    BY <2>1, <2>2, <2>3 DEF IInv, QueueIsLogTail
<1>5. /\ got'[r] = Append(got[r], log[read_index[r] + 1])
      /\ \A s \in ReaderId : s # r => got'[s] = got[s]
      /\ got[r] \in Seq(Messages)
      /\ got' \in [ReaderId -> Seq(Messages)]
  BY <1>0, <1>4 DEF IInv, TypeOK
<1>6. TypeOK'
  <2>1. total_reads' \in [ReaderId -> Nat]
    BY <1>0 DEF IInv, TypeOK
  <2>2. /\ log' \in Seq(Messages) /\ since' \in [ReaderId -> Nat]
        /\ missed' \in [ReaderId -> Nat] /\ total_writes' \in Nat /\ drop_count' \in Nat
        /\ active' \in [ReaderId -> BOOLEAN]
    BY <1>0 DEF IInv, TypeOK
  <2>3. QED
    BY <1>1, <1>3, <1>5, <2>1, <2>2 DEF TypeOK
<1>7. CursorInWindow'
  <2>1. Len(queue) <= MaxSize /\ Len(queue) \in Nat /\ base_index \in Nat
    BY Basics DEF IInv, CursorInWindow
  <2>2. Len(queue') <= MaxSize
    BY <1>3, <2>1, RingAssumption, Basics
  <2>3. QED
    BY <1>0, <1>3, <2>2 DEF CursorInWindow
<1>8. QueueIsLogTail'
  BY <1>0, <1>3, TailKept DEF IInv, QueueIsLogTail
<1>9. StreamInv'
  <2>. SUFFICES ASSUME NEW s \in ReaderId, active'[s]
                PROVE  /\ total_reads'[s] + missed'[s] + since'[s] = read_index'[s]
                       /\ Len(got'[s]) = total_reads'[s]
                       /\ missed'[s] = 0 =>
                            \A i \in 1 .. Len(got'[s]) : got'[s][i] = log'[since'[s] + i]
    BY DEF StreamInv
  <2>1. CASE s # r
    BY <1>0, <1>1, <1>5, <2>1 DEF IInv, TypeOK, StreamInv
  <2>2. CASE s = r
    <3>1. /\ total_reads'[r] = total_reads[r] + 1 /\ total_reads[r] \in Nat
          /\ missed'[r] = missed[r] /\ since'[r] = since[r] /\ log' = log
          /\ missed[r] \in Nat /\ since[r] \in Nat
      BY <1>0 DEF IInv, TypeOK
    <3>2. /\ total_reads[r] + missed[r] + since[r] = read_index[r]
          /\ Len(got[r]) = total_reads[r]
          /\ missed[r] = 0 => \A i \in 1 .. Len(got[r]) : got[r][i] = log[since[r] + i]
      BY <1>1 DEF IInv, StreamInv
    <3>3. Len(got'[r]) = total_reads'[r]
      BY <1>5, <3>1, <3>2
    <3>4. ASSUME missed'[r] = 0, NEW i \in 1 .. Len(got'[r])
          PROVE  got'[r][i] = log[since[r] + i]
      <4>1. /\ Len(got[r]) \in Nat
            /\ read_index[r] + 1 = since[r] + (Len(got[r]) + 1)
        BY <1>1, <3>1, <3>2, <3>4
      <4>2. CASE i \in 1 .. Len(got[r])
        BY <1>5, <3>1, <3>2, <3>4, <4>2
      <4>3. CASE i = Len(got[r]) + 1
        BY <1>5, <4>1, <4>3
      <4>4. i \in 1 .. Len(got[r]) \/ i = Len(got[r]) + 1
        BY <1>5, <3>4, <4>1
      <4>5. QED
        BY <4>2, <4>3, <4>4
    <3>5. total_reads'[r] + missed'[r] + since'[r] = read_index'[r]
      <4>1. read_index'[r] = read_index[r] + 1 /\ read_index[r] \in Nat
        BY <1>1
      <4>2. QED
        BY <3>1, <3>2, <4>1
    <3>6. missed'[r] = 0 => \A i \in 1 .. Len(got'[r]) : got'[r][i] = log'[since'[r] + i]
      BY <3>1, <3>4
    <3>7. QED
      BY <2>2, <3>3, <3>5, <3>6
  <2>3. QED
    BY <2>1, <2>2
<1>10. FrontInv'
  BY <1>0, <1>3 DEF FrontInv
<1>11. QED
  BY <1>6, <1>7, <1>8, <1>9, <1>10 DEF IInv

LEMMA PushStep ==
  ASSUME IInv, NEW m \in Messages, Push(m)
  PROVE  IInv'
<1>0. /\ base_index' = base_index + Overflow
      /\ read_index' = [r \in ReaderId |-> IF active[r] /\ read_index[r] < base_index'
                                          THEN base_index' ELSE read_index[r]]
      /\ queue' = Append(SubSeq(queue, Overflow + 1, Len(queue)), m)
      /\ drop_count' = drop_count + Overflow /\ total_writes' = total_writes + 1
      /\ log' = Append(log, m)
      /\ missed' = [r \in ReaderId |-> missed[r] + (read_index'[r] - read_index[r])]
      /\ active' = active /\ total_reads' = total_reads /\ got' = got /\ since' = since
  BY DEF Push
<1>1. /\ base_index \in Nat /\ Len(queue) \in Nat /\ Len(log) \in Nat
      /\ queue \in Seq(Messages) /\ log \in Seq(Messages)
      /\ base_index + Len(queue) = Len(log) /\ Len(queue) <= MaxSize
      /\ \A i \in 1 .. Len(queue) : queue[i] = log[base_index + i]
  BY Basics DEF IInv, CursorInWindow, QueueIsLogTail
<1>2. /\ Overflow \in 0 .. Len(queue) /\ Overflow \in 0 .. 1
      /\ Overflow = 0 => Len(queue) < MaxSize
      /\ Overflow = 1 => Len(queue) = MaxSize
  BY <1>1, RingAssumption DEF Overflow
<1>3. /\ SubSeq(queue, Overflow + 1, Len(queue)) \in Seq(Messages)
      /\ Len(SubSeq(queue, Overflow + 1, Len(queue))) = Len(queue) - Overflow
      /\ \A i \in 1 .. Len(queue) - Overflow :
           SubSeq(queue, Overflow + 1, Len(queue))[i] = queue[Overflow + i]
  BY <1>1, <1>2, DropFront
<1>4. /\ queue' \in Seq(Messages)
      /\ Len(queue') = Len(queue) - Overflow + 1
      /\ \A i \in 1 .. Len(queue) - Overflow : queue'[i] = queue[Overflow + i]
      /\ queue'[Len(queue) - Overflow + 1] = m
  BY <1>0, <1>1, <1>2, <1>3
<1>5. /\ log' \in Seq(Messages) /\ Len(log') = Len(log) + 1
      /\ \A i \in 1 .. Len(log) : log'[i] = log[i]
      /\ log'[Len(log) + 1] = m
  BY <1>0, <1>1
<1>6. /\ base_index' \in Nat /\ Len(queue') \in Nat
      /\ base_index' + Len(queue') = Len(log')
      /\ Len(queue') <= MaxSize
      /\ base_index' = base_index + Overflow
  <2>1. base_index' = base_index + Overflow
    BY <1>0
  <2>2. /\ base_index \in Nat /\ Len(queue) \in Nat /\ Len(log) \in Nat
        /\ base_index + Len(queue) = Len(log) /\ Len(queue) <= MaxSize
    BY <1>1
  <2>3. Len(queue') = Len(queue) - Overflow + 1 /\ Len(log') = Len(log) + 1
    BY <1>4, <1>5
  <2>4. MaxSize \in Nat
    BY RingAssumption
  <2>5. QED
    BY <1>2, <2>1, <2>2, <2>3, <2>4
<1>7. /\ End' = Len(log') /\ End' = base_index' + Len(queue')
      /\ End = Len(log) /\ End = base_index + Len(queue)
  BY <1>1, <1>6 DEF End
<1>8. ASSUME NEW r \in ReaderId
      PROVE  /\ read_index'[r] \in Nat
             /\ active[r] => /\ read_index'[r] \in base_index' .. End'
                             /\ read_index'[r] >= read_index[r]
                             /\ read_index'[r] = read_index[r] \/ read_index'[r] = base_index'
             /\ ~active[r] => read_index'[r] = read_index[r]
  <2>1. read_index[r] \in Nat
    BY DEF IInv, TypeOK
  <2>2. active[r] => read_index[r] \in base_index .. End
    BY Basics
  <2>3. read_index'[r] = IF active[r] /\ read_index[r] < base_index'
                         THEN base_index' ELSE read_index[r]
    BY <1>0
  <2>4. QED
    BY <1>1, <1>5, <1>6, <1>7, <2>1, <2>2, <2>3
<1>9. ASSUME NEW r \in ReaderId
      PROVE  /\ missed'[r] = missed[r] + (read_index'[r] - read_index[r])
             /\ missed'[r] \in Nat /\ missed[r] \in Nat /\ read_index[r] \in Nat
  <2>1. missed[r] \in Nat /\ read_index[r] \in Nat
    BY DEF IInv, TypeOK
  <2>2. missed'[r] = missed[r] + (read_index'[r] - read_index[r])
    BY <1>0
  <2>3. read_index'[r] >= read_index[r] /\ read_index'[r] \in Nat
    BY <1>8, <2>1
  <2>4. QED
    BY <2>1, <2>2, <2>3
<1>10. TypeOK'
  <2>1. /\ drop_count \in Nat /\ total_writes \in Nat
        /\ active \in [ReaderId -> BOOLEAN] /\ total_reads \in [ReaderId -> Nat]
        /\ got \in [ReaderId -> Seq(Messages)] /\ since \in [ReaderId -> Nat]
    BY DEF IInv, TypeOK
  <2>2. drop_count' \in Nat /\ total_writes' \in Nat
    BY <1>0, <1>2, <2>1
  <2>3. read_index' \in [ReaderId -> Nat]
    BY <1>0, <1>8
  <2>4. missed' \in [ReaderId -> Nat]
    <3>1. \A r \in ReaderId : missed[r] + (read_index'[r] - read_index[r]) \in Nat
      BY <1>9
    <3>2. QED
      BY <1>0, <3>1
  <2>5. QED
    BY <1>0, <1>4, <1>5, <1>6, <2>1, <2>2, <2>3, <2>4 DEF TypeOK
<1>11. CursorInWindow'
  BY <1>0, <1>6, <1>8 DEF CursorInWindow
<1>12. QueueIsLogTail'
  <2>1. total_writes' = Len(log')
    BY <1>0, <1>1, <1>5 DEF IInv, QueueIsLogTail
  <2>2. ASSUME NEW i \in 1 .. Len(queue')
        PROVE  queue'[i] = log'[base_index' + i]
    <3>1. CASE i \in 1 .. Len(queue) - Overflow
      <4>1. /\ Overflow + i \in 1 .. Len(queue)
            /\ base_index + (Overflow + i) = base_index' + i
            /\ base_index + (Overflow + i) \in 1 .. Len(log)
        <5>1. /\ base_index \in Nat /\ Len(queue) \in Nat
              /\ base_index + Len(queue) = Len(log)
          BY <1>1
        <5>2. QED
          BY <1>2, <1>6, <3>1, <5>1
      <4>2. queue'[i] = queue[Overflow + i] /\ queue[Overflow + i] = log[base_index + (Overflow + i)]
        BY <1>1, <1>4, <3>1, <4>1
      <4>3. QED
        BY <1>5, <4>1, <4>2
    <3>2. CASE i = Len(queue) - Overflow + 1
      <4>1. base_index' + i = Len(log) + 1
        <5>1. /\ base_index \in Nat /\ Len(queue) \in Nat
              /\ base_index + Len(queue) = Len(log)
          BY <1>1
        <5>2. QED
          BY <1>2, <1>6, <3>2, <5>1
      <4>2. QED
        BY <1>4, <1>5, <3>2, <4>1
    <3>3. i \in 1 .. Len(queue) - Overflow \/ i = Len(queue) - Overflow + 1
      BY <1>1, <1>2, <1>4
    <3>4. QED
      BY <3>1, <3>2, <3>3
  <2>3. QED
    BY <1>7, <2>1, <2>2 DEF QueueIsLogTail
<1>13. StreamInv'
  <2>. SUFFICES ASSUME NEW r \in ReaderId, active'[r]
                PROVE  /\ total_reads'[r] + missed'[r] + since'[r] = read_index'[r]
                       /\ Len(got'[r]) = total_reads'[r]
                       /\ missed'[r] = 0 =>
                            \A i \in 1 .. Len(got'[r]) : got'[r][i] = log'[since'[r] + i]
    BY DEF StreamInv
  <2>1. /\ total_reads[r] + missed[r] + since[r] = read_index[r]
        /\ Len(got[r]) = total_reads[r]
        /\ missed[r] = 0 => \A i \in 1 .. Len(got[r]) : got[r][i] = log[since[r] + i]
    BY <1>0 DEF IInv, StreamInv
  <2>2. /\ total_reads[r] \in Nat /\ since[r] \in Nat
        /\ read_index[r] \in base_index .. End
    BY <1>0, Basics
  <2>3. total_reads'[r] + missed'[r] + since'[r] = read_index'[r]
    <3>1. total_reads'[r] = total_reads[r] /\ since'[r] = since[r]
      BY <1>0
    <3>2. /\ missed'[r] = missed[r] + (read_index'[r] - read_index[r])
          /\ missed[r] \in Nat /\ read_index[r] \in Nat /\ read_index'[r] \in Nat
      BY <1>8, <1>9
    <3>3. total_reads[r] + missed[r] + since[r] = read_index[r]
      BY <2>1
    <3>4. QED
      BY <2>2, <3>1, <3>2, <3>3
  <2>4. ASSUME missed'[r] = 0, NEW i \in 1 .. Len(got[r])
        PROVE  got[r][i] = log'[since[r] + i]
    <3>1. missed[r] = 0
      BY <1>0, <1>8, <1>9, <2>4
    <3>2. since[r] + i \in 1 .. Len(log)
      <4>1. since[r] + Len(got[r]) = read_index[r]
        BY <2>1, <2>2, <3>1
      <4>2. read_index[r] \in Nat /\ read_index[r] <= Len(log)
        BY <1>1, <2>2, Basics
      <4>3. i \in Nat /\ 1 <= i /\ i <= Len(got[r]) /\ Len(got[r]) \in Nat
        BY <2>1, <2>2
      <4>4. QED
        BY <1>1, <2>2, <4>1, <4>2, <4>3
    <3>3. QED
      BY <1>5, <2>1, <2>4, <3>1, <3>2
  <2>5. QED
    BY <1>0, <2>1, <2>3, <2>4
<1>14. FrontInv'
  <2>. SUFFICES ASSUME NEW t \in ReaderId, active[t],
                       \A r \in ReaderId : active[r] => read_index'[r] # base_index',
                       NEW r \in ReaderId, active[r]
                PROVE  read_index'[r] = since'[r]
    BY <1>0 DEF FrontInv
  <2>1. \A s \in ReaderId : active[s] => /\ read_index'[s] = read_index[s]
                                        /\ read_index[s] # base_index'
    BY <1>8
  <2>2. \A s \in ReaderId : active[s] => read_index[s] # base_index
    <3>1. ASSUME NEW s \in ReaderId, active[s], read_index[s] = base_index
          PROVE  FALSE
      <4>1. read_index'[s] = IF read_index[s] < base_index' THEN base_index' ELSE read_index[s]
        BY <1>0, <3>1
      <4>2. QED
        <5>1. /\ base_index \in Nat /\ base_index' = base_index + Overflow
              /\ Overflow \in 0 .. 1
          BY <1>1, <1>2, <1>6
        <5>2. read_index'[s] = read_index[s] /\ read_index[s] # base_index'
          BY <2>1, <3>1
        <5>3. Overflow = 1
          BY <3>1, <5>1, <5>2
        <5>4. read_index[s] < base_index'
          BY <3>1, <5>1, <5>3
        <5>5. QED
          BY <4>1, <5>2, <5>4
    <3>2. QED
      BY <3>1
  <2>3. queue # <<>>
    <3>1. ASSUME queue = <<>> PROVE FALSE
      <4>1. Len(queue) = 0
        BY <3>1
      <4>2. read_index[t] \in base_index .. End
        BY Basics
      <4>3. QED
        BY <1>1, <1>7, <2>2, <4>1, <4>2
    <3>2. QED
      BY <3>1
  <2>4. read_index[r] = since[r]
    BY <2>2, <2>3 DEF IInv, FrontInv
  <2>5. QED
    BY <1>0, <2>1, <2>4
<1>15. QED
  BY <1>10, <1>11, <1>12, <1>13, <1>14 DEF IInv

LEMMA ClearStep ==
  ASSUME IInv, Clear
  PROVE  IInv'
<1>0. /\ base_index' = End /\ queue' = <<>>
      /\ read_index' = [r \in ReaderId |-> IF active[r] THEN base_index' ELSE read_index[r]]
      /\ missed' = [r \in ReaderId |-> missed[r] + (read_index'[r] - read_index[r])]
      /\ active' = active /\ total_reads' = total_reads /\ total_writes' = total_writes
      /\ drop_count' = drop_count /\ log' = log /\ got' = got /\ since' = since
  BY DEF Clear
<1>1. /\ End \in Nat /\ End = Len(log) /\ Len(queue') = 0 /\ End' = End
      /\ base_index' \in Nat
  BY <1>0, Basics DEF End
<1>2. ASSUME NEW r \in ReaderId
      PROVE  /\ read_index'[r] \in Nat /\ read_index[r] \in Nat
             /\ missed[r] \in Nat /\ missed'[r] \in Nat
             /\ missed'[r] = missed[r] + (read_index'[r] - read_index[r])
             /\ read_index'[r] >= read_index[r]
             /\ active[r] => read_index'[r] = End
  <2>1. read_index[r] \in Nat /\ missed[r] \in Nat
    BY DEF IInv, TypeOK
  <2>2. active[r] => read_index[r] <= End
    BY <1>1, <2>1, Basics
  <2>3. read_index'[r] = IF active[r] THEN End ELSE read_index[r]
    BY <1>0
  <2>4. missed'[r] = missed[r] + (read_index'[r] - read_index[r])
    BY <1>0
  <2>5. QED
    BY <1>1, <2>1, <2>2, <2>3, <2>4
<1>3. TypeOK'
  <2>1. read_index' \in [ReaderId -> Nat]
    BY <1>0, <1>2
  <2>2. missed' \in [ReaderId -> Nat]
    <3>1. \A r \in ReaderId : missed[r] + (read_index'[r] - read_index[r]) \in Nat
      BY <1>2
    <3>2. QED
      BY <1>0, <3>1
  <2>3. QED
    BY <1>0, <1>1, <2>1, <2>2 DEF IInv, TypeOK
<1>4. CursorInWindow'
  <2>1. Len(queue') <= MaxSize
    BY <1>1, RingAssumption
  <2>2. \A r \in ReaderId : active'[r] => read_index'[r] \in base_index' .. End'
    BY <1>0, <1>1, <1>2
  <2>3. QED
    BY <2>1, <2>2 DEF CursorInWindow
<1>5. QueueIsLogTail'
  BY <1>0, <1>1 DEF IInv, QueueIsLogTail
<1>6. StreamInv'
  <2>. SUFFICES ASSUME NEW r \in ReaderId, active'[r]
                PROVE  /\ total_reads'[r] + missed'[r] + since'[r] = read_index'[r]
                       /\ Len(got'[r]) = total_reads'[r]
                       /\ missed'[r] = 0 =>
                            \A i \in 1 .. Len(got'[r]) : got'[r][i] = log'[since'[r] + i]
    BY DEF StreamInv
  <2>1. /\ total_reads[r] + missed[r] + since[r] = read_index[r]
        /\ Len(got[r]) = total_reads[r]
        /\ missed[r] = 0 => \A i \in 1 .. Len(got[r]) : got[r][i] = log[since[r] + i]
    BY <1>0 DEF IInv, StreamInv
  <2>2. /\ total_reads[r] \in Nat /\ since[r] \in Nat
        /\ total_reads'[r] = total_reads[r] /\ since'[r] = since[r]
    BY <1>0, Basics
  <2>3. total_reads'[r] + missed'[r] + since'[r] = read_index'[r]
    BY <1>2, <2>1, <2>2
  <2>4. missed'[r] = 0 => missed[r] = 0
    BY <1>2
  <2>5. QED
    BY <1>0, <2>1, <2>3, <2>4
<1>7. FrontInv'
  BY <1>0 DEF FrontInv
<1>8. QED
  BY <1>3, <1>4, <1>5, <1>6, <1>7 DEF IInv

(* IInv is inductive. *)
LEMMA NextIInv == IInv /\ [Next]_vars => IInv'
<1>1. SUFFICES ASSUME IInv, [Next]_vars PROVE IInv'
  OBVIOUS
<1>2. CASE \E m \in Messages : Push(m)
  BY <1>1, <1>2, PushStep
<1>3. CASE \E r \in ReaderId : RegisterReader(r)
  BY <1>1, <1>3, RegisterStep
<1>4. CASE \E r \in ReaderId : UnregisterReader(r)
  BY <1>1, <1>4, UnregisterStep
<1>5. CASE \E r \in ReaderId : Pop(r)
  BY <1>1, <1>5, PopStep
<1>6. CASE Clear
  BY <1>1, <1>6, ClearStep
<1>7. CASE UNCHANGED vars
  BY <1>1, <1>7 DEF vars, IInv, TypeOK, CursorInWindow, QueueIsLogTail, StreamInv, FrontInv, End
<1>8. QED
  BY <1>1, <1>2, <1>3, <1>4, <1>5, <1>6, <1>7 DEF Next

LEMMA AlwaysIInv == Spec => []IInv
<1>1. QED
  BY InitIInv, NextIInv, PTL DEF Spec

(* The type invariant holds for every number of slots and every capacity. *)
THEOREM TypeCorrect == Spec => []TypeOK
<1>1. IInv => TypeOK
  BY DEF IInv
<1>2. QED
  BY <1>1, AlwaysIInv, PTL

(* raw_data_ring_buffer.hpp:224-232, 266: the buffer stays within max_size_ *)
(* and every index "read_index - base_index_" falls inside the deque.       *)
THEOREM WindowSafe == Spec => []CursorInWindow
<1>1. IInv => CursorInWindow
  BY DEF IInv
<1>2. QED
  BY <1>1, AlwaysIInv, PTL

(* A reader that lost nothing was given exactly what was pushed since it   *)
(* registered (push, waitPop, registerReader: lines 164-305).              *)
THEOREM StreamSafe == Spec => []ReaderStream
<1>1. ASSUME IInv, NEW r \in ReaderId, active[r]
      PROVE  /\ total_reads[r] + missed[r] + since[r] = read_index[r]
             /\ missed[r] = 0 => got[r] = SubSeq(log, since[r] + 1, read_index[r])
  <2>1. /\ total_reads[r] + missed[r] + since[r] = read_index[r]
        /\ Len(got[r]) = total_reads[r]
        /\ missed[r] = 0 => \A i \in 1 .. Len(got[r]) : got[r][i] = log[since[r] + i]
    BY <1>1 DEF IInv, StreamInv
  <2>2. /\ total_reads[r] \in Nat /\ since[r] \in Nat /\ missed[r] \in Nat
        /\ read_index[r] \in Nat /\ read_index[r] <= Len(log) /\ Len(log) \in Nat
        /\ log \in Seq(Messages) /\ got[r] \in Seq(Messages)
    <3>1. /\ base_index \in Nat /\ Len(log) \in Nat /\ End = Len(log)
          /\ read_index[r] \in base_index .. End
      BY <1>1, Basics
    <3>2. QED
      BY <1>1, <3>1 DEF IInv, TypeOK
  <2>3. ASSUME missed[r] = 0
        PROVE  got[r] = SubSeq(log, since[r] + 1, read_index[r])
    <3>. DEFINE u == SubSeq(log, since[r] + 1, read_index[r])
    <3>1. read_index[r] = since[r] + Len(got[r])
      BY <2>1, <2>2, <2>3
    <3>2. since[r] \in Nat
      BY <1>1 DEF IInv, TypeOK
    <3>3. /\ u \in Seq(Messages)
          /\ Len(u) = read_index[r] - since[r]
          /\ \A i \in 1 .. read_index[r] - since[r] : u[i] = log[since[r] + i]
      <4>1. /\ log \in Seq(Messages) /\ read_index[r] \in Nat
            /\ since[r] <= read_index[r] /\ read_index[r] <= Len(log)
        BY <2>2, <3>1, <3>2
      <4>2. QED
        BY <3>2, <4>1, Segment
    <3>4. Len(u) = Len(got[r])
      BY <2>1, <2>2, <3>1, <3>3
    <3>5. ASSUME NEW i \in 1 .. Len(got[r])
          PROVE  got[r][i] = u[i]
      <4>1. i \in 1 .. read_index[r] - since[r]
        BY <2>1, <2>2, <3>1
      <4>2. u[i] = log[since[r] + i]
        BY <3>3, <4>1
      <4>3. QED
        BY <2>1, <2>3, <4>2
    <3>. HIDE DEF u
    <3>6. got[r] = u
      BY <2>2, <3>3, <3>4, <3>5, SeqEqual
    <3>7. QED
      BY <3>6 DEF u
  <2>4. QED
    BY <2>1, <2>3
<1>2. IInv => ReaderStream
  BY <1>1 DEF ReaderStream
<1>3. QED
  BY <1>2, AlwaysIInv, PTL

(* trimConsumed() (lines 426-450): a message that every active reader is   *)
(* past is not kept.                                                       *)
THEOREM FrontSafe == Spec => []NothingHeldInVain
<1>1. ASSUME IInv, queue # <<>>, NEW s \in ReaderId, active[s], since[s] <= base_index
      PROVE  \E r \in ReaderId : active[r] /\ read_index[r] = base_index
  <2>1. CASE \A r \in ReaderId : active[r] => read_index[r] = since[r]
    <3>1. read_index[s] = since[s] /\ read_index[s] \in base_index .. End
      BY <1>1, <2>1, Basics
    <3>2. since[s] \in Nat /\ base_index \in Nat /\ End \in Nat
      BY <1>1, Basics
    <3>3. read_index[s] = base_index
      BY <1>1, <3>1, <3>2
    <3>4. QED
      BY <1>1, <3>3
  <2>2. QED
    BY <1>1, <2>1 DEF IInv, FrontInv
<1>2. IInv => NothingHeldInVain
  BY <1>1 DEF NothingHeldInVain
<1>3. QED
  BY <1>2, AlwaysIInv, PTL

-----------------------------------------------------------------------------
(* Every step is a step of the lossy broadcast, or leaves it unchanged. *)
LEMMA StepRefines == IInv /\ [Next]_vars => [Broadcast!Next]_(Broadcast!vars)
<1>1. SUFFICES ASSUME IInv, [Next]_vars
               PROVE  [Broadcast!Next]_(Broadcast!vars)
  OBVIOUS
<1>2. CASE UNCHANGED vars
  BY <1>2 DEF vars, Broadcast!vars
<1>3. ASSUME NEW m \in Messages, Push(m)
      PROVE  Broadcast!Publish(m)
  <2>1. /\ log' = Append(log, m)
        /\ base_index' = base_index + Overflow
        /\ read_index' = [r \in ReaderId |-> IF active[r] /\ read_index[r] < base_index'
                                            THEN base_index' ELSE read_index[r]]
        /\ active' = active /\ got' = got
    BY <1>3 DEF Push
  <2>2. /\ base_index \in Nat /\ Len(queue) \in Nat /\ Len(log) \in Nat
        /\ base_index + Len(queue) = Len(log) /\ Len(queue) <= MaxSize
        /\ MaxSize \in Nat \ {0} /\ Len(log') = Len(log) + 1
    BY <1>1, <2>1, Basics, RingAssumption DEF IInv, CursorInWindow
  <2>3. /\ Overflow = 0 => Len(queue) < MaxSize
        /\ Overflow = 1 => Len(queue) = MaxSize
        /\ Overflow \in 0 .. 1
    BY <2>2 DEF Overflow
  <2>4. ASSUME NEW r \in ReaderId
        PROVE  (IF active[r] /\ read_index[r] < base_index' THEN base_index' ELSE read_index[r])
                 = IF active[r] /\ Len(log') > read_index[r] + MaxSize
                   THEN read_index[r] + 1 ELSE read_index[r]
    <3>1. CASE active[r]
      <4>1. read_index[r] \in Nat /\ read_index[r] >= base_index
        BY <1>1, <2>2, <3>1, Basics
      <4>2. base_index' = base_index + Overflow
        BY <2>1
      <4>3. QED
        BY <2>2, <2>3, <3>1, <4>1, <4>2
    <3>2. CASE ~active[r]
      BY <3>2
    <3>3. QED
      BY <3>1, <3>2
  <2>5. read_index' = [r \in ReaderId |-> IF active[r] /\ Len(log') > read_index[r] + MaxSize
                                        THEN read_index[r] + 1 ELSE read_index[r]]
    BY <2>1, <2>4
  <2>6. QED
    BY <2>1, <2>5 DEF Broadcast!Publish
<1>4. ASSUME NEW r \in ReaderId, RegisterReader(r)
      PROVE  Broadcast!Subscribe(r)
  <2>1. End = Len(log)
    BY <1>1, Basics
  <2>2. QED
    BY <1>4, <2>1 DEF RegisterReader, Broadcast!Subscribe
<1>5. ASSUME NEW r \in ReaderId, UnregisterReader(r)
      PROVE  Broadcast!Unsubscribe(r)
  BY <1>5 DEF UnregisterReader, Broadcast!Unsubscribe
<1>6. ASSUME NEW r \in ReaderId, Pop(r)
      PROVE  Broadcast!Deliver(r)
  <2>1. /\ active[r] /\ read_index[r] < End
        /\ got' = [got EXCEPT ![r] = Append(@, queue[read_index[r] - base_index + 1])]
        /\ read_index' = [read_index EXCEPT ![r] = @ + 1]
        /\ active' = active /\ log' = log
    BY <1>6 DEF Pop, CanPop
  <2>2. /\ Len(queue) \in Nat /\ base_index \in Nat
        /\ End = base_index + Len(queue) /\ End = Len(log)
        /\ read_index[r] \in Nat /\ read_index[r] >= base_index
    BY <1>1, <2>1, Basics
  <2>3. /\ read_index[r] - base_index + 1 \in 1 .. Len(queue)
        /\ base_index + (read_index[r] - base_index + 1) = read_index[r] + 1
    BY <2>1, <2>2
  <2>4. queue[read_index[r] - base_index + 1] = log[read_index[r] + 1]
    BY <1>1, <2>3 DEF IInv, QueueIsLogTail
  <2>5. QED
    BY <2>1, <2>2, <2>4 DEF Broadcast!Deliver
<1>7. ASSUME Clear
      PROVE  Broadcast!Flush
  <2>1. End = Len(log)
    BY <1>1, Basics
  <2>2. QED
    BY <1>7, <2>1 DEF Clear, Broadcast!Flush
<1>8. QED
  BY <1>1, <1>2, <1>3, <1>4, <1>5, <1>6, <1>7 DEF Next, Broadcast!Next

(* The buffer implements the lossy broadcast: whatever the capacity, what  *)
(* a reader gets out of the deque is its next message of the log, and it   *)
(* loses one only by falling max_size_ messages behind.                    *)
THEOREM Implements == Spec => ImplementsBroadcast
<1>1. Init => Broadcast!Init
  BY DEF Init, Broadcast!Init
<1>2. QED
  BY <1>1, AlwaysIInv, StepRefines, PTL DEF Spec, ImplementsBroadcast, Broadcast!Spec


-----------------------------------------------------------------------------
(* The parser of GOOSE PDUs *)

LEMMA LeastNat ==
  ASSUME NEW T, T \subseteq Nat, T # {}
  PROVE  \E x \in T : \A y \in T : x <= y
<1> DEFINE R == OpToRel(<, Nat)
<1>1. IsWellFoundedOn(R, Nat)
  BY NatLessThanWellFounded
<1>2. \E x \in T : \A y \in T : ~ (<<y, x>> \in R)
  <2> HIDE DEF R
  <2> QED BY <1>1, WFMin
<1>3. \A x, y \in Nat : <<y, x>> \in R <=> y < x
  BY DEF OpToRel
<1> HIDE DEF R
<1>4. PICK x \in T : \A y \in T : ~ (<<y, x>> \in R)
  BY <1>2
<1>5. \A y \in T : x <= y
  <2>1. TAKE y \in T
  <2>2. x \in Nat /\ y \in Nat
    OBVIOUS
  <2>3. ~ (y < x)
    BY <1>3, <1>4, <2>2
  <2> QED BY <2>2, <2>3
<1>6. QED BY <1>5

LEMMA SetInduction ==
  ASSUME NEW S, 0 \in S, \A n \in Nat : n \in S => n + 1 \in S
  PROVE  Nat \subseteq S
<1> DEFINE T == Nat \ S
<1>1. SUFFICES ASSUME T # {} PROVE FALSE
  OBVIOUS
<1>2. PICK x \in T : \A y \in T : x <= y
  <2> T \subseteq Nat  OBVIOUS
  <2> HIDE DEF T
  <2> QED BY <1>1, LeastNat
<1>3. x \in Nat /\ x # 0 /\ x - 1 \in Nat
  OBVIOUS
<1>4. x - 1 \in S
  BY <1>2, <1>3
<1>5. (x - 1) + 1 \in S
  BY <1>3, <1>4
<1>6. QED BY <1>3, <1>5

(* v is the function that BigEndian computes. *)
Digits(v, base, word, digit, n) ==
  v = [k \in 0 .. n |-> IF k = 0 THEN 0 ELSE (v[k - 1] * base + digit[k]) % word]

LEMMA BigEndianDefined ==
  ASSUME NEW base \in Nat, NEW word \in Nat \ {0}, NEW n \in Nat, NEW digit,
         \A k \in 1 .. n : digit[k] \in Nat
  PROVE  \E v \in [0 .. n -> Nat] : Digits(v, base, word, digit, n)
<1> DEFINE S == {m \in Nat : m <= n => \E v \in [0 .. m -> Nat] : Digits(v, base, word, digit, m)}
<1>1. 0 \in S
  <2>1. [k \in 0 .. 0 |-> 0] \in [0 .. 0 -> Nat]
    OBVIOUS
  <2>2. Digits([k \in 0 .. 0 |-> 0], base, word, digit, 0)
    BY DEF Digits
  <2> QED BY <2>1, <2>2
<1>2. ASSUME NEW m \in Nat, m \in S, m + 1 <= n
      PROVE  \E v \in [0 .. m + 1 -> Nat] : Digits(v, base, word, digit, m + 1)
  <2>1. PICK v \in [0 .. m -> Nat] : Digits(v, base, word, digit, m)
    BY <1>2
  <2> DEFINE w == [k \in 0 .. m + 1 |-> IF k <= m THEN v[k]
                                       ELSE (v[m] * base + digit[m + 1]) % word]
  <2>2. (v[m] * base + digit[m + 1]) % word \in Nat
    <3>1. v[m] \in Nat /\ digit[m + 1] \in Nat  BY <1>2
    <3>2. v[m] * base \in Nat BY <3>1
    <3> QED BY <3>1, <3>2
  <2>3. w \in [0 .. m + 1 -> Nat]
    BY <2>2
  <2>4. ASSUME NEW k \in 0 .. m + 1
        PROVE  w[k] = IF k = 0 THEN 0 ELSE (w[k - 1] * base + digit[k]) % word
    <3>1. CASE k = 0
      <4> v[0] = 0 BY <2>1 DEF Digits
      <4> QED BY <3>1
    <3>2. CASE k # 0 /\ k <= m
      <4> k - 1 \in 0 .. m /\ k \in 0 .. m BY <3>2
      <4> v[k] = (v[k - 1] * base + digit[k]) % word BY <2>1, <3>2 DEF Digits
      <4> w[k] = v[k] /\ w[k - 1] = v[k - 1] BY <3>2
      <4> QED BY <3>2
    <3>3. CASE k = m + 1
      <4> w[k] = (v[m] * base + digit[m + 1]) % word /\ w[k - 1] = v[m] BY <3>3
      <4> QED BY <3>3
    <3> QED BY <3>1, <3>2, <3>3
  <2>5. Digits(w, base, word, digit, m + 1)
    BY <2>3, <2>4 DEF Digits
  <2> HIDE DEF w
  <2> QED BY <2>3, <2>5
<1>3. n \in S
  <2>1. ASSUME NEW m \in Nat, m \in S PROVE m + 1 \in S
    <3>1. m + 1 \in Nat
      OBVIOUS
    <3>2. m + 1 <= n => \E v \in [0 .. m + 1 -> Nat] : Digits(v, base, word, digit, m + 1)
      BY <1>2, <2>1, Zenon
    <3> QED BY <3>1, <3>2, Zenon
  <2> HIDE DEF S
  <2> QED BY <1>1, <2>1, SetInduction
<1>4. QED BY <1>3

(* A number of digits that are naturals is one. *)
LEMMA BigEndianNat ==
  ASSUME NEW base \in Nat, NEW word \in Nat \ {0}, NEW n \in Nat, NEW digit,
         \A k \in 1 .. n : digit[k] \in Nat
  PROVE  BigEndian(base, word, digit, n) \in Nat
<1> DEFINE u == CHOOSE v : Digits(v, base, word, digit, n)
<1>1. Digits(u, base, word, digit, n)
  <2>1. \E v \in [0 .. n -> Nat] : Digits(v, base, word, digit, n)
    BY BigEndianDefined
  <2>2. \E v : Digits(v, base, word, digit, n)
    BY <2>1
  <2> QED BY <2>2
<1>2. BigEndian(base, word, digit, n) = u[n]
  BY DEF BigEndian, Digits
<1> HIDE DEF u
<1> DEFINE S == {m \in Nat : m <= n => u[m] \in Nat}
<1>3. 0 \in S
  BY <1>1 DEF Digits
<1>4. ASSUME NEW m \in Nat, m \in S, m + 1 <= n PROVE u[m + 1] \in Nat
  <2>1. u[m] \in Nat /\ digit[m + 1] \in Nat
    BY <1>4
  <2>2. u[m] * base \in Nat BY <2>1
  <2>3. u[m + 1] = (u[m] * base + digit[m + 1]) % word
    BY <1>1, <1>4 DEF Digits
  <2> QED BY <2>1, <2>2, <2>3
<1>5. n \in S
  <2>1. \A m \in Nat : m \in S => m + 1 \in S
    BY <1>4
  <2> HIDE DEF S
  <2> QED BY <1>3, <2>1, SetInduction
<1>6. QED BY <1>2, <1>5

-----------------------------------------------------------------------------
(* The bytes that a parser is given, and the sizes of the machine's words. *)
Readable(buf) ==
  /\ buf \in Seq(0 .. 255)
  /\ SizeBytes \in Nat /\ SizeWord \in Nat \ {0} /\ TagWord \in Nat \ {0}

LEMMA ByteRead ==
  ASSUME NEW buf, Readable(buf), NEW i \in Nat, i < Len(buf)
  PROVE  At(buf, i) \in 0 .. 255
<1>1. buf \in Seq(0 .. 255)
  BY DEF Readable
<1>2. Len(buf) \in Nat
  BY <1>1
<1>3. i + 1 \in 1 .. Len(buf)
  BY <1>2
<1>4. QED BY <1>1, <1>3, ElementOfSeq DEF At

LEMMA BufferLength ==
  ASSUME NEW buf, Readable(buf) PROVE Len(buf) \in Nat
<1>1. buf \in Seq(0 .. 255)
  BY DEF Readable
<1>2. QED BY <1>1

LEMMA SmallMod ==
  ASSUME NEW x \in Nat, NEW w \in Nat \ {0}, x < w PROVE x % w = x
OBVIOUS

LEMMA SmallRest ==
  ASSUME NEW a \in Nat, NEW b \in Nat, NEW c \in Nat, c < a, NEW w \in Nat \ {0}, a + b < w
  PROVE  (a - c + b) % w = a - c + b
<1>1. a - c + b \in Nat /\ a - c + b < w
  OBVIOUS
<1>2. QED BY <1>1, SmallMod

LEMMA ByteAt ==
  ASSUME NEW buf, Readable(buf), NEW from \in Nat, NEW len \in Nat, from + len <= Len(buf),
         NEW i \in Nat, i < len
  PROVE  At(buf, from + i) \in 0 .. 255
<1>1. Len(buf) \in Nat
  BY BufferLength
<1>2. from + i \in Nat /\ from + i < Len(buf)
  BY <1>1
<1>3. QED BY <1>2, ByteRead

TagRecord(octet, number, next) ==
  [ok |-> TRUE, octet |-> octet, class |-> octet \div 64,
   constructed |-> (octet \div 32) % 2 = 1, number |-> number, next |-> next]

LongNumber(buf, from, off, last) ==
  BigEndian(128, TagWord, [k \in 1 .. last |-> At(buf, from + off + k) % 128], last)

ShortTag(buf, from, len, off) ==
  BerReadTag(buf, from, len, off)
    = TagRecord(At(buf, from + off + 0), At(buf, from + off + 0) % 32, off + 1)
LongTag(buf, from, len, off) ==
  \E last \in 1 .. 5 :
    /\ off + last < len
    /\ BerReadTag(buf, from, len, off)
         = TagRecord(At(buf, from + off + 0), LongNumber(buf, from, off, last), off + last + 1)

LEMMA TagForms ==
  ASSUME NEW buf, NEW from, NEW len, NEW off, BerReadTag(buf, from, len, off).ok
  PROVE  /\ ~ (off >= len)
         /\ ShortTag(buf, from, len, off) \/ LongTag(buf, from, len, off)
<1> DEFINE byte(k) == At(buf, from + off + k)
           ends == {k \in 1 .. 5 : /\ off + k < len
                                   /\ byte(k) < 128
                                   /\ \A j \in 1 .. k - 1 : byte(j) >= 128}
           last == CHOOSE k \in ends : TRUE
<1>1. ~ (off >= len) /\ ~ (byte(0) % 32 = 31 /\ ends = {})
  BY DEF BerReadTag, Failed
<1>2. CASE byte(0) % 32 # 31
  BY <1>1, <1>2 DEF BerReadTag, TagRecord, ShortTag
<1>3. CASE byte(0) % 32 = 31
  <2>1. last \in ends
    BY <1>1, <1>3
  <2>2. last \in 1 .. 5 /\ off + last < len
    BY <2>1
  <2>3. BerReadTag(buf, from, len, off)
          = TagRecord(byte(0), LongNumber(buf, from, off, last), off + last + 1)
    BY <1>1, <1>3 DEF BerReadTag, TagRecord, LongNumber
  <2> HIDE DEF last
  <2> QED BY <1>1, <2>2, <2>3 DEF LongTag
<1>4. QED BY <1>2, <1>3

LEMMA ReadTagFacts ==
  ASSUME NEW buf, Readable(buf), NEW from \in Nat, NEW len \in Nat, NEW off \in Nat,
         from + len <= Len(buf), BerReadTag(buf, from, len, off).ok
  PROVE  LET tag == BerReadTag(buf, from, len, off)
         IN  /\ tag.octet \in 0 .. 255
             /\ tag.constructed = ((tag.octet \div 32) % 2 = 1)
             /\ tag.number \in Nat
             /\ tag.next \in Nat /\ off < tag.next /\ tag.next <= len
<1>1. off < len
  <2> ~ (off >= len)
    BY TagForms
  <2> QED OBVIOUS
<1>2. At(buf, from + off + 0) \in 0 .. 255
  <2>1. At(buf, from + off) \in 0 .. 255
    BY <1>1, ByteAt
  <2>2. from + off = from + off + 0
    OBVIOUS
  <2> QED BY <2>1, <2>2, Zenon
<1> DEFINE Known == \E number \in Nat, next \in Nat :
              /\ off < next /\ next <= len
              /\ BerReadTag(buf, from, len, off) = TagRecord(At(buf, from + off + 0), number, next)
<1>3. Known
  <2>1. CASE ShortTag(buf, from, len, off)
    <3>1. \A x \in 0 .. 255 : x % 32 \in Nat
      OBVIOUS
    <3>2. At(buf, from + off + 0) % 32 \in Nat
      BY <1>2, <3>1, Zenon
    <3>3. off + 1 \in Nat /\ off < off + 1 /\ off + 1 <= len
      BY <1>1
    <3> QED BY <2>1, <3>2, <3>3, Zenon DEF ShortTag
  <2>2. ASSUME NEW last \in 1 .. 5, off + last < len,
               BerReadTag(buf, from, len, off)
                 = TagRecord(At(buf, from + off + 0), LongNumber(buf, from, off, last),
                             off + last + 1)
        PROVE  Known
    <3> DEFINE digit == [k \in 1 .. last |-> At(buf, from + off + k) % 128]
    <3>1. ASSUME NEW k \in 1 .. last PROVE digit[k] \in Nat
      <4>1. \A x \in 0 .. 255 : x % 128 \in Nat
        OBVIOUS
      <4>2. At(buf, from + (off + k)) \in 0 .. 255
        <5> off + k \in Nat /\ off + k < len
          BY <2>2
        <5> QED BY ByteAt
      <4>3. from + (off + k) = from + off + k
        OBVIOUS
      <4>4. At(buf, from + off + k) % 128 \in Nat
        BY <4>1, <4>2, <4>3, Zenon
      <4>5. digit[k] = At(buf, from + off + k) % 128
        OBVIOUS
      <4> QED BY <4>4, <4>5, Zenon
    <3>2. TagWord \in Nat \ {0}
      BY DEF Readable
    <3>3. LongNumber(buf, from, off, last) \in Nat
      <4>1. BigEndian(128, TagWord, digit, last) \in Nat
        <5> HIDE DEF digit
        <5> QED BY <3>1, <3>2, BigEndianNat
      <4> QED BY <4>1 DEF LongNumber
    <3>4. off + last + 1 \in Nat /\ off < off + last + 1 /\ off + last + 1 <= len
      BY <2>2
    <3> QED BY <2>2, <3>3, <3>4, Zenon
  <2>3. CASE LongTag(buf, from, len, off)
    BY <2>2, <2>3, Zenon DEF LongTag
  <2>4. ShortTag(buf, from, len, off) \/ LongTag(buf, from, len, off)
    BY TagForms
  <2> HIDE DEF Known
  <2>5. QED BY <2>1, <2>3, <2>4
<1>4. QED
  <2> DEFINE octet == At(buf, from + off + 0)
             tag == BerReadTag(buf, from, len, off)
  <2>1. PICK number \in Nat, next \in Nat :
          off < next /\ next <= len /\ tag = TagRecord(octet, number, next)
    BY <1>3
  <2>2. octet \in 0 .. 255
    BY <1>2
  <2> HIDE DEF octet, tag
  <2>3. tag.octet = octet /\ tag.number = number /\ tag.next = next
    BY <2>1 DEF TagRecord
  <2>4. tag.constructed = ((octet \div 32) % 2 = 1)
    BY <2>1, Zenon DEF TagRecord
  <2>5. /\ tag.octet \in 0 .. 255 /\ tag.number \in Nat
        /\ tag.next \in Nat /\ off < tag.next /\ tag.next <= len
    BY <2>1, <2>2, <2>3
  <2>6. tag.constructed = ((tag.octet \div 32) % 2 = 1)
    BY <2>3, <2>4, Zenon
  <2> QED BY <2>5, <2>6, Zenon DEF tag

LEMMA ReadLengthFacts ==
  ASSUME NEW buf, Readable(buf), NEW from \in Nat, NEW len \in Nat, NEW off \in Nat,
         from + len <= Len(buf), BerReadLength(buf, from, len, off).ok
  PROVE  LET l == BerReadLength(buf, from, len, off)
         IN  /\ l.length \in Nat
             /\ l.next \in Nat /\ off < l.next /\ l.next <= len
<1> DEFINE l == BerReadLength(buf, from, len, off)
           first == At(buf, from + off)
           nbytes == first - 128
           digit == [k \in 1 .. nbytes |-> At(buf, from + off + k)]
<1>1. off < len
  BY DEF BerReadLength, Failed
<1>2. Len(buf) \in Nat /\ first \in 0 .. 255
  <2>1. Len(buf) \in Nat
    BY BufferLength
  <2>2. from + off \in Nat /\ from + off < Len(buf)
    BY <1>1, <2>1
  <2> QED BY <2>1, <2>2, ByteRead
<1>4. CASE first < 128
  <2>1. l = [ok |-> TRUE, length |-> first, next |-> off + 1]
    BY <1>1, <1>4 DEF BerReadLength
  <2> HIDE DEF first, l
  <2> QED BY <1>1, <1>2, <1>4, <2>1 DEF l
<1>5. CASE ~ (first < 128)
  <2>1. /\ nbytes # 0 /\ ~ (off + 1 + nbytes > len)
        /\ l = [ok |-> TRUE, next |-> off + 1 + nbytes,
                length |-> BigEndian(256, SizeWord, digit, nbytes)]
    BY <1>1, <1>5 DEF BerReadLength, Failed
  <2>2. nbytes \in Nat
    <3> HIDE DEF first
    <3> QED BY <1>2, <1>5
  <2>3. \A k \in 1 .. nbytes : digit[k] \in Nat
    <3> SUFFICES ASSUME NEW k \in 1 .. nbytes PROVE At(buf, from + off + k) \in Nat
      OBVIOUS
    <3>1. from + off + k \in Nat /\ from + off + k < Len(buf)
      <4> HIDE DEF first
      <4> QED BY <1>2, <2>1, <2>2
    <3>2. At(buf, from + off + k) \in 0 .. 255
      BY <3>1, ByteRead
    <3>3. 0 .. 255 \subseteq Nat
      OBVIOUS
    <3> QED BY <3>2, <3>3, Zenon
  <2>4. SizeWord \in Nat \ {0}
    BY DEF Readable
  <2> HIDE DEF nbytes, digit, l
  <2>5. BigEndian(256, SizeWord, digit, nbytes) \in Nat
    BY <2>2, <2>3, <2>4, BigEndianNat
  <2> QED BY <2>1, <2>2, <2>5 DEF l
<1>6. QED BY <1>4, <1>5

(* What ber_next_tlv() returns lies in the window, behind the offset, and  *)
(* moves the offset on by two bytes or more, unless its sum has wrapped.   *)
TlvFacts(tlv, from, len, off) ==
  /\ tlv.value \in Nat /\ tlv.value_len \in Nat /\ tlv.next \in Nat
  /\ from + off + 2 <= tlv.value
  /\ tlv.value + tlv.value_len = from + tlv.next
  /\ off + 2 <= tlv.next /\ tlv.next <= len
  /\ tlv.tlv_len = tlv.next - off
  /\ tlv.tag.octet \in 0 .. 255
  /\ tlv.tag.constructed = ((tlv.tag.octet \div 32) % 2 = 1)
  /\ tlv.tag.number \in Nat

LEMMA NextTlvFacts ==
  ASSUME NEW buf, Readable(buf), NEW from \in Nat, NEW len \in Nat, NEW off \in Nat,
         from + len <= Len(buf), BerNextTlv(buf, from, len, off).ok,
         BerNextTlv(buf, from, len, off).sum < SizeWord
  PROVE  TlvFacts(BerNextTlv(buf, from, len, off), from, len, off)
<1> DEFINE tag == BerReadTag(buf, from, len, off)
           l == BerReadLength(buf, from, len, tag.next)
           tlv == BerNextTlv(buf, from, len, off)
           end == (l.next + l.length) % SizeWord
<1>1. /\ tag.ok /\ l.ok /\ ~ (end > len)
      /\ tlv = [ok |-> TRUE, tag |-> tag, tlv |-> from + off,
                tlv_len |-> (l.next - off + l.length) % SizeWord,
                value |-> from + l.next, value_len |-> l.length, next |-> end,
                sum |-> l.next + l.length]
  BY DEF BerNextTlv, Failed
<1>2. /\ tag.octet \in 0 .. 255
      /\ tag.constructed = ((tag.octet \div 32) % 2 = 1)
      /\ tag.number \in Nat
      /\ tag.next \in Nat /\ off < tag.next
  BY <1>1, ReadTagFacts
<1>3. /\ l.length \in Nat
      /\ l.next \in Nat /\ tag.next < l.next /\ l.next <= len
      /\ l.next + l.length < SizeWord
  <2>1. tlv.sum = l.next + l.length
    BY <1>1
  <2> QED BY <1>1, <1>2, <2>1, ReadLengthFacts
<1>4. SizeWord \in Nat \ {0}
  BY DEF Readable
<1> HIDE DEF tag, l, tlv
<1>5. end = l.next + l.length
  BY <1>3, <1>4, SmallMod
<1>6. off < l.next
  BY <1>2, <1>3
<1>7. (l.next - off + l.length) % SizeWord = l.next - off + l.length
  BY <1>3, <1>4, <1>6, SmallRest
<1>8. /\ tlv.tag = tag /\ tlv.value = from + l.next /\ tlv.value_len = l.length
      /\ tlv.next = l.next + l.length
      /\ tlv.tlv_len = l.next - off + l.length
  BY <1>1, <1>5, <1>7
<1>9. tlv.next <= len
  BY <1>1, <1>3, <1>5, <1>8
<1>10. off + 2 <= l.next
  BY <1>2, <1>3
<1>11. /\ tlv.tag.octet \in 0 .. 255
       /\ tlv.tag.constructed = ((tlv.tag.octet \div 32) % 2 = 1)
       /\ tlv.tag.number \in Nat
  BY <1>2, <1>8
<1>12. /\ tlv.value \in Nat /\ tlv.value_len \in Nat /\ tlv.next \in Nat
       /\ from + off + 2 <= tlv.value
       /\ tlv.value + tlv.value_len = from + tlv.next
       /\ off + 2 <= tlv.next
       /\ tlv.tlv_len = tlv.next - off
  <2>1. \A a, b \in Nat : off + 2 <= a =>
          /\ from + a \in Nat /\ a + b \in Nat
          /\ from + off + 2 <= from + a /\ from + a + b = from + (a + b)
          /\ off + 2 <= a + b /\ a - off + b = (a + b) - off
    OBVIOUS
  <2>2. /\ from + l.next \in Nat /\ l.next + l.length \in Nat
        /\ from + off + 2 <= from + l.next
        /\ from + l.next + l.length = from + (l.next + l.length)
        /\ off + 2 <= l.next + l.length
        /\ l.next - off + l.length = (l.next + l.length) - off
    BY <1>3, <1>10, <2>1, Zenon
  <2>3. /\ tlv.value = from + l.next /\ tlv.value_len = l.length
        /\ tlv.next = l.next + l.length
        /\ tlv.tlv_len = l.next - off + l.length
    BY <1>8, Zenon
  <2>4. l.length \in Nat
    BY <1>3, Zenon
  <2> QED BY <2>2, <2>3, <2>4, Zenon
<1>13. QED BY <1>9, <1>11, <1>12 DEF tlv, TlvFacts

LEMMA NextTlvShort ==
  ASSUME NEW buf, Readable(buf), NEW from \in Nat, NEW len \in Nat, NEW off \in Nat,
         from + len <= Len(buf), BerNextTlv(buf, from, len, off).ok,
         BerNextTlv(buf, from, len, off).sum < SizeWord
  PROVE  BerNextTlv(buf, from, len, off).value_len < SizeWord
<1> DEFINE tag == BerReadTag(buf, from, len, off)
           l == BerReadLength(buf, from, len, tag.next)
<1>1. /\ tag.ok /\ l.ok /\ BerNextTlv(buf, from, len, off).value_len = l.length
      /\ BerNextTlv(buf, from, len, off).sum = l.next + l.length
  BY DEF BerNextTlv, Failed
<1>2. tag.next \in Nat
  BY <1>1, ReadTagFacts
<1>3. l.length \in Nat /\ l.next \in Nat /\ l.next + l.length < SizeWord
  BY <1>1, <1>2, ReadLengthFacts
<1>4. SizeWord \in Nat
  BY DEF Readable
<1> HIDE DEF l
<1>5. QED BY <1>1, <1>3, <1>4


-----------------------------------------------------------------------------
(* The call of goose_parse_pdu() *)

MTypes == {"ARRAY", "STRUCTURE", "BOOLEAN", "BIT_STRING", "INTEGER", "UNSIGNED", "FLOATING_POINT",
           "OCTET_STRING", "VISIBLE_STRING", "TIME_OF_DAY", "BCD", "BOOLEAN_ARRAY", "UTC_TIME",
           "UNKNOWN"}
FieldRef == [id : Nat, tag_octet : 0 .. 255, value : Nat, value_len : Nat]
MmsRef == [index : Nat, depth : Nat, parent_index : Int, type : MTypes, tag_octet : 0 .. 255,
           value : Nat, value_len : Nat]
FrameRec == [from : Nat, len : Nat, off : Nat, before : Int, parent : Int]

IsCall(p) ==
  p = [status |-> p.status, buf |-> p.buf, inner |-> p.inner, inner_len |-> p.inner_len,
       fields |-> p.fields, field_capacity |-> p.field_capacity,
       field_count |-> p.field_count, mms |-> p.mms, mms_cnt |-> p.mms_cnt,
       frames |-> p.frames, sums |-> p.sums]

ParseType(p) ==
  /\ Readable(p.buf)
  /\ p.inner \in Nat /\ p.inner_len \in Nat
  /\ p.fields \in Seq(FieldRef) /\ p.mms \in Seq(MmsRef) /\ p.frames \in Seq(FrameRec)
  /\ p.mms_cnt \in Nat

(* The place that the call has reached. *)
Pos(p) == IF p.frames = <<>> THEN p.inner
          ELSE p.frames[Len(p.frames)].from + p.frames[Len(p.frames)].off

InnerOk(p) ==
  /\ p.inner + p.inner_len <= Len(p.buf) /\ p.inner_len < SizeWord
  /\ \A f \in 1 .. Len(p.fields) : EndOf(p.fields[f]) <= p.inner

(* A call of parse_mms_sequence() reads the value of an allData field, or  *)
(* of a constructed element that was written before.                       *)
FrameSource(p, i) ==
  IF i = 1
  THEN /\ p.frames[i].parent = -1
       /\ \E f \in 1 .. Len(p.fields) : /\ p.fields[f].id = AllData
                                        /\ p.fields[f].value = p.frames[i].from
                                        /\ p.fields[f].value_len = p.frames[i].len
  ELSE \E j \in 1 .. Len(p.mms) : /\ p.mms[j].index = p.frames[i].parent
                                  /\ p.mms[j].depth = i - 2
                                  /\ p.mms[j].type = "UNKNOWN"
                                  /\ p.mms[j].value = p.frames[i].from
                                  /\ p.mms[j].value_len = p.frames[i].len

FramesOk(p) ==
  \A i \in 1 .. Len(p.frames) :
    /\ p.frames[i].off <= p.frames[i].len
    /\ p.frames[i].before < p.frames[i].off
    /\ p.frames[i].from + p.frames[i].len <= p.inner
    /\ FrameSource(p, i)

(* The window of a call lies in what its caller has just read. *)
FramesNest(p) ==
  \A h, i \in 1 .. Len(p.frames) :
    h < i => /\ p.frames[h].from <= p.frames[i].from
             /\ p.frames[i].from + p.frames[i].len <= p.frames[h].from + p.frames[h].off

(* An element lies behind the place reached unless a call reads its value. *)
ElementsPlaced(p) ==
  \A j \in 1 .. Len(p.mms) :
    /\ EndOf(p.mms[j]) <= p.inner
    /\ \/ EndOf(p.mms[j]) <= Pos(p)
       \/ \E i \in 1 .. Len(p.frames) : /\ p.frames[i].from = p.mms[j].value
                                        /\ p.frames[i].len = p.mms[j].value_len

ParseInv(p, capacity) ==
  /\ IsCall(p) /\ ParseType(p) /\ InnerOk(p) /\ FramesOk(p) /\ FramesNest(p) /\ ElementsPlaced(p)
  /\ SlotsFromTheEnd(p, capacity) /\ ElementsNest(p) /\ ElementsInOrder(p)
  /\ TypedAreLeaves(p)

LEMMA StartInv ==
  ASSUME NEW buf, Readable(buf), NEW pdu \in Nat, NEW len \in Nat, pdu + len <= Len(buf),
         NEW field_capacity \in Nat, NEW mms_capacity \in Nat,
         GooseStart(buf, pdu, len, field_capacity, mms_capacity).sums = "EXACT"
  PROVE  ParseInv(GooseStart(buf, pdu, len, field_capacity, mms_capacity), mms_capacity)
<1> DEFINE outer == BerNextTlv(buf, pdu, len, 0)
           Start(status, inner, inner_len, sums) ==
             [status |-> status, buf |-> buf, inner |-> inner, inner_len |-> inner_len,
              fields |-> <<>>, field_capacity |-> field_capacity, field_count |-> field_capacity,
              mms |-> <<>>, mms_cnt |-> mms_capacity, frames |-> <<>>, sums |-> sums]
           p == GooseStart(buf, pdu, len, field_capacity, mms_capacity)
<1>1. ASSUME NEW status, NEW inner \in Nat, NEW inner_len \in Nat, NEW sums,
             inner + inner_len <= Len(buf), inner_len < SizeWord
      PROVE  ParseInv(Start(status, inner, inner_len, sums), mms_capacity)
  <2> DEFINE q == Start(status, inner, inner_len, sums)
  <2>1. /\ q.buf = buf /\ q.inner = inner /\ q.inner_len = inner_len /\ q.fields = <<>>
        /\ q.mms = <<>> /\ q.frames = <<>> /\ q.mms_cnt = mms_capacity
    OBVIOUS
  <2>2. IsCall(q) /\ ParseType(q)
    BY <2>1 DEF IsCall, ParseType
  <2> HIDE DEF q
  <2>3. Len(q.fields) = 0 /\ Len(q.mms) = 0 /\ Len(q.frames) = 0
    BY <2>1
  <2>4. InnerOk(q) /\ FramesOk(q) /\ FramesNest(q)
    BY <1>1, <2>1, <2>3 DEF InnerOk, FramesOk, FramesNest
  <2>5. ElementsPlaced(q) /\ SlotsFromTheEnd(q, mms_capacity)
    BY <1>1, <2>1, <2>3 DEF ElementsPlaced, SlotsFromTheEnd
  <2>6. ElementsNest(q) /\ ElementsInOrder(q) /\ TypedAreLeaves(q)
    BY <1>1, <2>1, <2>3 DEF ElementsNest, ElementsInOrder, TypedAreLeaves
  <2> QED BY <2>2, <2>4, <2>5, <2>6 DEF ParseInv, q
<1>2. Len(buf) \in Nat /\ SizeWord \in Nat \ {0}
  BY BufferLength DEF Readable
<1>3. CASE ~ outer.ok \/ ~ IsGoose(outer)
  <2>1. pdu \in Nat /\ 0 \in Nat /\ pdu + 0 <= Len(buf) /\ 0 < SizeWord
    BY <1>2
  <2>2. p = Start("ERR_BER", pdu, 0, "EXACT") \/ p = Start("ERR_NOT_GOOSE", pdu, 0, "EXACT")
    BY <1>3 DEF GooseStart
  <2> QED BY <1>1, <2>1, <2>2
<1>4. CASE outer.ok /\ IsGoose(outer)
  <2>1. p = Start("PARSING", outer.value, outer.value_len, Sums(outer, "EXACT"))
    BY <1>4 DEF GooseStart
  <2>5. outer.sum < SizeWord
    <3>1. Sums(outer, "EXACT") = "EXACT"
      BY <2>1
    <3> HIDE DEF outer
    <3> QED BY <3>1 DEF Sums
  <2>2. /\ outer.value \in Nat /\ outer.value_len \in Nat /\ outer.next \in Nat
        /\ outer.value + outer.value_len = pdu + outer.next /\ outer.next <= len
    BY <1>4, <2>5, NextTlvFacts DEF TlvFacts
  <2>3. outer.value + outer.value_len <= Len(buf)
    <3> HIDE DEF outer
    <3> QED BY <1>2, <2>2
  <2>4. outer.value_len < SizeWord
    BY <1>4, <2>5, NextTlvShort
  <2> QED BY <1>1, <2>1, <2>2, <2>3, <2>4
<1>5. QED BY <1>3, <1>4

LEMMA MmsTypes ==
  ASSUME NEW octet \in Nat PROVE MmsType(octet) \in MTypes
BY DEF MmsType, MTypes

(* The tag octets that have a type are those of primitive elements. *)
LEMMA ConstructedIsUnknown ==
  ASSUME NEW octet \in 0 .. 255, (octet \div 32) % 2 = 1
  PROVE  MmsType(octet) = "UNKNOWN"
<1>1. \/ MmsType(octet) = "UNKNOWN"
      \/ octet \in {129, 130, 131, 132, 133, 134, 135, 137, 138, 140, 141, 142, 145}
  BY DEF MmsType
<1>2. octet \notin {129, 130, 131, 132, 133, 134, 135, 137, 138, 140, 141, 142, 145}
  OBVIOUS
<1>3. QED BY <1>1, <1>2

LEMMA AppendFacts ==
  ASSUME NEW S, NEW s \in Seq(S), NEW x \in S, NEW t, t = Append(s, x)
  PROVE  /\ t \in Seq(S) /\ Len(s) \in Nat /\ Len(t) = Len(s) + 1
         /\ \A i \in 1 .. Len(s) : i \in 1 .. Len(t) /\ t[i] = s[i]
         /\ t[Len(s) + 1] = x /\ Len(s) + 1 \in 1 .. Len(t)
BY AppendProperties

(* The places that a call has written down are numbers. *)
LEMMA PlacesAreNumbers ==
  ASSUME NEW p, ParseType(p)
  PROVE  /\ \A f \in 1 .. Len(p.fields) : /\ p.fields[f].value \in Nat
                                          /\ p.fields[f].value_len \in Nat
                                          /\ EndOf(p.fields[f]) \in Nat
         /\ \A k \in 1 .. Len(p.mms) : /\ p.mms[k].value \in Nat /\ p.mms[k].value_len \in Nat
                                       /\ EndOf(p.mms[k]) \in Nat /\ p.mms[k].index \in Nat
                                       /\ p.mms[k].depth \in Nat /\ p.mms[k].parent_index \in Int
         /\ \A i \in 1 .. Len(p.frames) : /\ p.frames[i].from \in Nat /\ p.frames[i].len \in Nat
                                          /\ p.frames[i].off \in Nat
                                          /\ p.frames[i].before \in Int
                                          /\ p.frames[i].parent \in Int
         /\ Len(p.fields) \in Nat /\ Len(p.mms) \in Nat /\ Len(p.frames) \in Nat
<1>1. p.fields \in Seq(FieldRef) /\ p.mms \in Seq(MmsRef) /\ p.frames \in Seq(FrameRec)
  BY DEF ParseType
<1>2. \A f \in 1 .. Len(p.fields) : p.fields[f] \in FieldRef
  BY <1>1, ElementOfSeq
<1>3. \A f \in FieldRef : f.value \in Nat /\ f.value_len \in Nat /\ EndOf(f) \in Nat
  BY DEF FieldRef, EndOf
<1>4. \A k \in 1 .. Len(p.mms) : p.mms[k] \in MmsRef
  BY <1>1, ElementOfSeq
<1>5. \A e \in MmsRef : /\ e.value \in Nat /\ e.value_len \in Nat /\ EndOf(e) \in Nat
                        /\ e.index \in Nat /\ e.depth \in Nat /\ e.parent_index \in Int
  BY DEF MmsRef, EndOf
<1>6. \A i \in 1 .. Len(p.frames) : p.frames[i] \in FrameRec
  BY <1>1, ElementOfSeq
<1>7. \A f \in FrameRec : /\ f.from \in Nat /\ f.len \in Nat /\ f.off \in Nat
                          /\ f.before \in Int /\ f.parent \in Int
  BY DEF FrameRec
<1>8. Len(p.fields) \in Nat /\ Len(p.mms) \in Nat /\ Len(p.frames) \in Nat
  BY <1>1, LenProperties
<1>9. /\ \A f \in 1 .. Len(p.fields) : /\ p.fields[f].value \in Nat
                                       /\ p.fields[f].value_len \in Nat
                                       /\ EndOf(p.fields[f]) \in Nat
      /\ \A i \in 1 .. Len(p.frames) : /\ p.frames[i].from \in Nat /\ p.frames[i].len \in Nat
                                       /\ p.frames[i].off \in Nat
                                       /\ p.frames[i].before \in Int
                                       /\ p.frames[i].parent \in Int
  BY <1>2, <1>3, <1>6, <1>7, Zenon
<1>10. \A k \in 1 .. Len(p.mms) : /\ p.mms[k].value \in Nat /\ p.mms[k].value_len \in Nat
                                  /\ EndOf(p.mms[k]) \in Nat /\ p.mms[k].index \in Nat
                                  /\ p.mms[k].depth \in Nat /\ p.mms[k].parent_index \in Int
  BY <1>4, <1>5, Zenon
<1>11. QED BY <1>8, <1>9, <1>10

(* What a call returns, and the number of fields, are not in the invariant. *)
SameCall(p, q) ==
  /\ q.buf = p.buf /\ q.inner = p.inner /\ q.inner_len = p.inner_len /\ q.fields = p.fields
  /\ q.mms = p.mms /\ q.mms_cnt = p.mms_cnt /\ q.frames = p.frames

LEMMA SameInv ==
  ASSUME NEW p, NEW capacity \in Nat, ParseInv(p, capacity),
         NEW q, IsCall(q), SameCall(p, q)
  PROVE  ParseInv(q, capacity)
<1>1. Pos(q) = Pos(p)
  BY DEF SameCall, Pos
<1>2. ParseType(q) /\ InnerOk(q) /\ SlotsFromTheEnd(q, capacity)
  BY DEF SameCall, ParseInv, ParseType, InnerOk, SlotsFromTheEnd
<1>3. FramesOk(q) /\ FramesNest(q)
  BY DEF SameCall, ParseInv, FramesOk, FramesNest, FrameSource
<1>4. ElementsPlaced(q) /\ ElementsNest(q) /\ ElementsInOrder(q) /\ TypedAreLeaves(q)
  BY <1>1 DEF SameCall, ParseInv, ElementsPlaced, ElementsNest, ElementsInOrder, TypedAreLeaves
<1>5. QED BY <1>2, <1>3, <1>4 DEF ParseInv

LEMMA ReturnsInv ==
  ASSUME NEW p, NEW capacity \in Nat, ParseInv(p, capacity), NEW status, NEW count
  PROVE  /\ ParseInv([p EXCEPT !.status = status], capacity)
         /\ ParseInv([p EXCEPT !.status = status, !.field_count = count], capacity)
<1>1. IsCall(p)
  BY DEF ParseInv
<1>2. /\ IsCall([p EXCEPT !.status = status])
      /\ SameCall(p, [p EXCEPT !.status = status])
  BY <1>1 DEF IsCall, SameCall
<1>3. ASSUME NEW r, IsCall(r)
      PROVE  IsCall([r EXCEPT !.field_count = count]) /\ SameCall(r, [r EXCEPT !.field_count = count])
  BY <1>3 DEF IsCall, SameCall
<1>4. ParseInv([p EXCEPT !.status = status], capacity)
  BY <1>2, SameInv
<1> DEFINE r == [p EXCEPT !.status = status]
<1>5. ParseInv([r EXCEPT !.field_count = count], capacity)
  <2>1. IsCall(r) /\ ParseInv(r, capacity)
    BY <1>2, <1>4
  <2> HIDE DEF r
  <2> QED BY <2>1, <1>3, SameInv
<1>6. QED BY <1>4, <1>5

(* A step that goes on moves the place reached, or leaves a call. *)
Progress(p, q) ==
  /\ q.buf = p.buf /\ Pos(p) + Len(q.frames) < Pos(q) + Len(p.frames)

(* A field is read, from the next bytes after the place reached. *)
FieldRead(p, q, field, next) ==
  /\ p.inner + 2 <= field.value /\ EndOf(field) = p.inner + next /\ next <= p.inner_len
  /\ q.buf = p.buf /\ q.inner = p.inner + next /\ q.inner_len = p.inner_len - next
  /\ q.fields = Append(p.fields, field) /\ q.mms = p.mms /\ q.mms_cnt = p.mms_cnt
  /\ q.frames = IF field.id = AllData
                THEN <<Frame(field.value, field.value_len, -1)>> ELSE <<>>

LEMMA FieldInv ==
  ASSUME NEW p, NEW capacity \in Nat, ParseInv(p, capacity), p.frames = <<>>,
         NEW field \in FieldRef, NEW next \in Nat, NEW q, IsCall(q),
         FieldRead(p, q, field, next)
  PROVE  ParseInv(q, capacity) /\ Progress(p, q)
<1>0. /\ ParseType(p) /\ InnerOk(p) /\ FramesOk(p) /\ FramesNest(p) /\ ElementsPlaced(p)
      /\ SlotsFromTheEnd(p, capacity) /\ ElementsNest(p) /\ ElementsInOrder(p)
      /\ TypedAreLeaves(p)
  BY DEF ParseInv
<1>1. /\ Readable(p.buf) /\ p.inner \in Nat /\ p.inner_len \in Nat
      /\ p.fields \in Seq(FieldRef) /\ p.mms \in Seq(MmsRef) /\ p.mms_cnt \in Nat
      /\ p.inner + p.inner_len <= Len(p.buf) /\ p.inner_len < SizeWord
  BY <1>0 DEF ParseType, InnerOk
<1>2. SizeWord \in Nat /\ Len(p.buf) \in Nat
  BY <1>1, BufferLength DEF Readable
<1>3. /\ q.buf = p.buf /\ q.inner = p.inner + next /\ q.inner_len = p.inner_len - next
      /\ q.fields = Append(p.fields, field) /\ q.mms = p.mms /\ q.mms_cnt = p.mms_cnt
      /\ p.inner + 2 <= field.value /\ EndOf(field) = p.inner + next /\ next <= p.inner_len
  BY DEF FieldRead
<1>4. /\ q.fields \in Seq(FieldRef)
      /\ Len(q.fields) = Len(p.fields) + 1 /\ Len(p.fields) \in Nat
      /\ \A f \in 1 .. Len(p.fields) : f \in 1 .. Len(q.fields) /\ q.fields[f] = p.fields[f]
      /\ q.fields[Len(p.fields) + 1] = field
      /\ Len(p.fields) + 1 \in 1 .. Len(q.fields)
  <2>1. p.fields \in Seq(FieldRef) /\ q.fields = Append(p.fields, field)
    BY <1>1, <1>3
  <2> QED BY <2>1, AppendFacts
<1>5. field.value \in Nat /\ field.value_len \in Nat /\ EndOf(field) = field.value + field.value_len
  BY DEF FieldRef, EndOf
<1>6. /\ q.inner \in Nat /\ q.inner_len \in Nat /\ p.inner <= q.inner
      /\ q.inner + q.inner_len <= Len(q.buf) /\ q.inner_len < SizeWord
  <2>1. ASSUME NEW a \in Nat, NEW l \in Nat, NEW m \in Nat, NEW w \in Nat,
               next <= l, a + l <= m, l < w
        PROVE  /\ a + next \in Nat /\ l - next \in Nat /\ a <= a + next
               /\ (a + next) + (l - next) <= m /\ l - next < w
    BY <2>1
  <2>2. /\ next <= p.inner_len /\ p.inner + p.inner_len <= Len(p.buf) /\ p.inner_len < SizeWord
        /\ p.inner \in Nat /\ p.inner_len \in Nat /\ Len(p.buf) \in Nat /\ SizeWord \in Nat
    BY <1>1, <1>2, <1>3
  <2>3. /\ p.inner + next \in Nat /\ p.inner_len - next \in Nat /\ p.inner <= p.inner + next
        /\ (p.inner + next) + (p.inner_len - next) <= Len(p.buf)
        /\ p.inner_len - next < SizeWord
    BY <2>1, <2>2
  <2>4. q.inner = p.inner + next /\ q.inner_len = p.inner_len - next /\ q.buf = p.buf
    BY <1>3
  <2> QED BY <2>3, <2>4
<1>9. /\ ParseType(q) /\ FramesOk(q) /\ FramesNest(q) /\ Pos(q) \in Nat /\ p.inner <= Pos(q)
      /\ Len(q.frames) \in {0, 1} /\ p.inner + 2 <= Pos(q)
  <2>1. CASE field.id = AllData
    <3>1. q.frames = <<Frame(field.value, field.value_len, -1)>>
      BY <2>1 DEF FieldRead
    <3> DEFINE f == Frame(field.value, field.value_len, -1)
    <3>2. f \in FrameRec /\ f.from = field.value /\ f.len = field.value_len /\ f.off = 0
          /\ f.before = -1 /\ f.parent = -1
      BY <1>5 DEF Frame, FrameRec
    <3> HIDE DEF f
    <3>3. q.frames \in Seq(FrameRec) /\ Len(q.frames) = 1 /\ q.frames[1] = f
      BY <3>1, <3>2 DEF f
    <3>4. FramesOk(q)
      <4>1. FrameSource(q, 1)
        BY <1>4, <2>1, <3>2, <3>3 DEF FrameSource
      <4>2. f.from + f.len <= q.inner
        BY <1>1, <1>3, <1>5, <3>2
      <4>3. \A i \in 1 .. Len(q.frames) : i = 1
        BY <3>3
      <4> QED BY <1>5, <3>2, <3>3, <4>1, <4>2, <4>3 DEF FramesOk
    <3>5. FramesNest(q)
      <4>1. \A h, i \in 1 .. Len(q.frames) : ~ (h < i)
        BY <3>3
      <4> QED BY <4>1 DEF FramesNest
    <3>6. Pos(q) = field.value + 0
      <4>1. q.frames # <<>>
        BY <3>1
      <4> QED BY <3>2, <3>3, <4>1 DEF Pos
    <3>7. Pos(q) \in Nat /\ p.inner <= Pos(q) /\ p.inner + 2 <= Pos(q)
      BY <1>1, <1>3, <1>5, <3>6
    <3>8. ParseType(q)
      BY <1>1, <1>3, <1>4, <1>6, <3>3 DEF ParseType
    <3> QED BY <3>3, <3>4, <3>5, <3>7, <3>8
  <2>2. CASE field.id # AllData
    <3>1. q.frames = <<>>
      BY <2>2 DEF FieldRead
    <3>2. q.frames \in Seq(FrameRec) /\ Len(q.frames) = 0
      BY <3>1
    <3>3. FramesOk(q) /\ FramesNest(q)
      BY <3>2 DEF FramesOk, FramesNest
    <3>4. Pos(q) \in Nat /\ p.inner <= Pos(q) /\ p.inner + 2 <= Pos(q)
      <4>1. Pos(q) = q.inner /\ q.inner = EndOf(field)
        BY <1>3, <3>1 DEF Pos
      <4>2. p.inner + 2 <= field.value /\ EndOf(field) = field.value + field.value_len
        BY <1>3, <1>5
      <4> HIDE DEF EndOf
      <4> QED BY <1>1, <1>5, <1>6, <4>1, <4>2
    <3>5. ParseType(q)
      BY <1>1, <1>3, <1>4, <1>6, <3>2 DEF ParseType
    <3> QED BY <3>2, <3>3, <3>4, <3>5
  <2> QED BY <2>1, <2>2
<1>10. InnerOk(q)
  <2>1. ASSUME NEW f \in 1 .. Len(q.fields) PROVE EndOf(q.fields[f]) <= q.inner
    <3>1. CASE f \in 1 .. Len(p.fields)
      <4>1. EndOf(p.fields[f]) <= p.inner /\ q.fields[f] = p.fields[f]
        BY <1>0, <1>4, <3>1 DEF InnerOk
      <4>2. EndOf(p.fields[f]) \in Nat
        BY <1>0, <3>1, PlacesAreNumbers
      <4> QED BY <1>1, <1>6, <4>1, <4>2
    <3>2. CASE f = Len(p.fields) + 1
      <4>1. q.fields[f] = field
        BY <1>4, <3>2
      <4>2. EndOf(field) = q.inner
        BY <1>3
      <4> QED BY <1>6, <4>1, <4>2
    <3> QED BY <1>4, <3>1, <3>2
  <2> QED BY <1>6, <2>1 DEF InnerOk
<1>11. ElementsPlaced(q)
  <2> SUFFICES ASSUME NEW j \in 1 .. Len(p.mms)
               PROVE  EndOf(p.mms[j]) <= q.inner /\ EndOf(p.mms[j]) <= Pos(q)
    BY <1>3 DEF ElementsPlaced
  <2>1. EndOf(p.mms[j]) <= p.inner
    BY <1>0 DEF ElementsPlaced
  <2>2. EndOf(p.mms[j]) \in Nat
    BY <1>0, PlacesAreNumbers
  <2>3. q.inner \in Nat /\ p.inner <= q.inner /\ Pos(q) \in Nat /\ p.inner <= Pos(q)
    BY <1>6, <1>9
  <2> QED BY <1>1, <2>1, <2>2, <2>3
<1>12. ElementsNest(q)
  <2>1. \A k \in 1 .. Len(p.mms) :
          (\E f \in 1 .. Len(p.fields) : /\ p.fields[f].id = AllData
                                         /\ Within(p.mms[k], p.fields[f]))
          => \E f \in 1 .. Len(q.fields) : /\ q.fields[f].id = AllData
                                           /\ Within(p.mms[k], q.fields[f])
    BY <1>4
  <2> QED BY <1>0, <1>3, <2>1 DEF ElementsNest
<1>13. SlotsFromTheEnd(q, capacity) /\ ElementsInOrder(q) /\ TypedAreLeaves(q)
  BY <1>0, <1>3 DEF SlotsFromTheEnd, ElementsInOrder, TypedAreLeaves
<1>14. Progress(p, q)
  <2>1. Pos(p) = p.inner /\ Len(p.frames) = 0
    BY DEF Pos
  <2>2. p.inner + Len(q.frames) < Pos(q) + 0
    <3> DEFINE b == Pos(q)  g == Len(q.frames)
    <3>1. b \in Nat /\ g \in {0, 1} /\ p.inner + 2 <= b
      BY <1>9
    <3> HIDE DEF b, g
    <3>2. p.inner + g < b + 0
      BY <1>1, <3>1
    <3> QED BY <3>2 DEF b, g
  <2> QED BY <1>3, <2>1, <2>2 DEF Progress
<1>15. QED BY <1>0, <1>9, <1>10, <1>11, <1>12, <1>13, <1>14 DEF ParseInv

(* A step of the loop over the fields. *)
LEMMA FieldStepInv ==
  ASSUME NEW p, NEW capacity \in Nat, ParseInv(p, capacity), p.frames = <<>>,
         FieldStep(p).sums = "EXACT"
  PROVE  /\ ParseInv(FieldStep(p), capacity)
         /\ FieldStep(p).status = "PARSING" => Progress(p, FieldStep(p))
<1> DEFINE tlv == BerNextTlv(p.buf, p.inner, p.inner_len, 0)
           id == IF tlv.tag.class = 2 THEN GooseField(tlv.tag.number) ELSE UnknownField
           field == [id |-> id, tag_octet |-> tlv.tag.octet,
                     value |-> tlv.value, value_len |-> tlv.value_len]
           q == FieldStep(p)
<1>0. ParseType(p) /\ InnerOk(p) /\ IsCall(p)
  BY DEF ParseInv
<1>1. CASE p.inner_len = 0 \/ ~ tlv.ok
  <2>1. q = [p EXCEPT !.status = "OK", !.field_count = Len(p.fields)]
    BY <1>1 DEF FieldStep
  <2>2. ParseInv(q, capacity) /\ q.status # "PARSING"
    <3> HIDE DEF q
    <3>1. q.status # "PARSING"
      BY <1>0, <2>1 DEF IsCall
    <3> QED BY <2>1, <3>1, ReturnsInv
  <2> QED BY <2>2
<1>2. CASE p.inner_len # 0 /\ tlv.ok /\ Len(p.fields) >= p.field_capacity
  <2>1. q = [p EXCEPT !.status = "ERR_TOO_MANY_FIELDS"]
    BY <1>2 DEF FieldStep, Returns
  <2>2. ParseInv(q, capacity) /\ q.status # "PARSING"
    <3> HIDE DEF q
    <3>1. q.status # "PARSING"
      BY <1>0, <2>1 DEF IsCall
    <3> QED BY <2>1, <3>1, ReturnsInv
  <2> QED BY <2>2
<1>3. CASE p.inner_len # 0 /\ tlv.ok /\ ~ (Len(p.fields) >= p.field_capacity)
  <2>1. q = [p EXCEPT !.inner = @ + tlv.tlv_len,
                      !.inner_len = (@ - tlv.tlv_len) % SizeWord,
                      !.fields = Append(@, field),
                      !.frames = IF id = AllData
                                 THEN <<Frame(tlv.value, tlv.value_len, -1)>> ELSE <<>>,
                      !.sums = Sums(tlv, @)]
    BY <1>3 DEF FieldStep
  <2>13. tlv.sum < SizeWord
    <3>1. q.sums = Sums(tlv, p.sums)
      <4> HIDE DEF tlv, id, field, q
      <4> QED BY <1>0, <2>1 DEF IsCall
    <3>2. Sums(tlv, p.sums) = "EXACT"
      BY <3>1
    <3> HIDE DEF tlv, q
    <3> QED BY <3>2 DEF Sums
  <2>2. Readable(p.buf) /\ p.inner \in Nat /\ p.inner_len \in Nat
        /\ p.inner + p.inner_len <= Len(p.buf) /\ p.inner_len < SizeWord
    BY <1>0 DEF ParseType, InnerOk
  <2>3. /\ tlv.value \in Nat /\ tlv.value_len \in Nat /\ tlv.next \in Nat
        /\ p.inner + 2 <= tlv.value
        /\ tlv.value + tlv.value_len = p.inner + tlv.next
        /\ 2 <= tlv.next /\ tlv.next <= p.inner_len
        /\ tlv.tlv_len = tlv.next
        /\ tlv.tag.octet \in 0 .. 255 /\ tlv.tag.number \in Nat
    <3>1. tlv.ok
      BY <1>3
    <3>2. TlvFacts(tlv, p.inner, p.inner_len, 0)
      <4> HIDE DEF tlv
      <4> QED BY <2>2, <2>13, <3>1, NextTlvFacts DEF tlv
    <3> HIDE DEF tlv
    <3> QED BY <2>2, <3>2 DEF TlvFacts
  <2>4. id \in Nat
    <3> HIDE DEF tlv
    <3> QED BY <2>3 DEF GooseField, UnknownField
  <2> HIDE DEF tlv, id, q
  <2>6. /\ field \in FieldRef /\ field.id = id /\ field.value = tlv.value
        /\ field.value_len = tlv.value_len /\ EndOf(field) = p.inner + tlv.next
    <3>1. field \in FieldRef
      BY <2>3, <2>4 DEF FieldRef
    <3> QED BY <2>3, <3>1 DEF EndOf
  <2> HIDE DEF field
  <2>7. SizeWord \in Nat \ {0}
    BY <2>2 DEF Readable
  <2>8. (p.inner_len - tlv.tlv_len) % SizeWord = p.inner_len - tlv.next
    <3>1. p.inner_len - tlv.next \in Nat /\ p.inner_len - tlv.next < SizeWord
      BY <2>2, <2>3, <2>7
    <3> QED BY <2>3, <2>7, <3>1, SmallMod
  <2>9. IsCall(q)
    BY <1>0, <2>1 DEF IsCall
  <2>10. FieldRead(p, q, field, tlv.next)
    <3>1. /\ q.buf = p.buf /\ q.inner = p.inner + tlv.tlv_len
          /\ q.inner_len = (p.inner_len - tlv.tlv_len) % SizeWord
          /\ q.fields = Append(p.fields, field) /\ q.mms = p.mms /\ q.mms_cnt = p.mms_cnt
          /\ q.frames = IF id = AllData
                        THEN <<Frame(tlv.value, tlv.value_len, -1)>> ELSE <<>>
      BY <1>0, <2>1 DEF IsCall
    <3> QED BY <2>3, <2>6, <2>8, <3>1 DEF FieldRead
  <2>11. tlv.next \in Nat /\ field \in FieldRef
    BY <2>3, <2>6
  <2>12. ParseInv(q, capacity) /\ Progress(p, q)
    BY <2>9, <2>10, <2>11, FieldInv
  <2> QED BY <2>12 DEF q
<1>4. QED BY <1>1, <1>2, <1>3

LEMMA FrontFacts ==
  ASSUME NEW S, NEW s \in Seq(S), s # <<>>
  PROVE  /\ Front(s) \in Seq(S) /\ Len(s) \in Nat /\ Len(s) >= 1 /\ Len(Front(s)) = Len(s) - 1
         /\ \A i \in 1 .. Len(s) - 1 : Front(s)[i] = s[i]
         /\ Front(s) = <<>> <=> Len(s) = 1
<1>1. Len(s) \in Nat /\ Len(s) >= 1
  BY EmptySeq
<1>2. /\ SubSeq(s, 1, Len(s) - 1) \in Seq(S)
      /\ Len(SubSeq(s, 1, Len(s) - 1)) = Len(s) - 1
      /\ \A i \in 1 .. Len(s) - 1 : SubSeq(s, 1, Len(s) - 1)[i] = s[i]
  <2> DEFINE t == SubSeq(s, 1, Len(s) - 1)
  <2>3. t \in Seq(S) /\ Len(t) = Len(s) - 1
    <3>1. \A i \in 1 .. Len(s) - 1 : s[i] \in S
      BY <1>1, ElementOfSeq
    <3>2. 1 \in Int /\ Len(s) - 1 \in Int
      BY <1>1
    <3>3. /\ t \in Seq(S)
          /\ Len(t) = IF 1 <= Len(s) - 1 THEN (Len(s) - 1) - 1 + 1 ELSE 0
      BY <3>1, <3>2, SubSeqProperties
    <3>4. \A l \in Nat : l >= 1 => (IF 1 <= l - 1 THEN (l - 1) - 1 + 1 ELSE 0) = l - 1
      OBVIOUS
    <3>5. Len(t) = Len(s) - 1
      BY <1>1, <3>3, <3>4, Zenon
    <3> QED BY <3>3, <3>5
  <2>4. \A i \in 1 .. Len(s) - 1 : t[i] = s[i]
    BY <1>1
  <2> QED BY <2>3, <2>4
<1>3. Front(s) = <<>> <=> Len(s) = 1
  <2>1. Len(Front(s)) = Len(s) - 1 /\ Front(s) \in Seq(S)
    BY <1>2 DEF Front
  <2>2. Front(s) = <<>> <=> Len(Front(s)) = 0
    BY <2>1, EmptySeq
  <2> QED BY <1>1, <2>1, <2>2
<1>4. QED BY <1>1, <1>2, <1>3 DEF Front

(* The loop of a call ends: every frame but the last one stays. *)
Popped(p, q) ==
  /\ q.buf = p.buf /\ q.inner = p.inner /\ q.inner_len = p.inner_len /\ q.fields = p.fields
  /\ q.mms = p.mms /\ q.mms_cnt = p.mms_cnt /\ q.frames = Front(p.frames)

LEMMA PoppedInv ==
  ASSUME NEW p, NEW capacity \in Nat, ParseInv(p, capacity), p.frames # <<>>,
         p.frames[Len(p.frames)].off >= p.frames[Len(p.frames)].len,
         NEW q, IsCall(q), Popped(p, q)
  PROVE  ParseInv(q, capacity) /\ Progress(p, q)
<1> DEFINE n == Len(p.frames)
           top == p.frames[n]
<1>0. /\ ParseType(p) /\ InnerOk(p) /\ FramesOk(p) /\ FramesNest(p) /\ ElementsPlaced(p)
      /\ SlotsFromTheEnd(p, capacity) /\ ElementsNest(p) /\ ElementsInOrder(p)
      /\ TypedAreLeaves(p)
  BY DEF ParseInv
<1>1. /\ q.buf = p.buf /\ q.inner = p.inner /\ q.inner_len = p.inner_len /\ q.fields = p.fields
      /\ q.mms = p.mms /\ q.mms_cnt = p.mms_cnt /\ q.frames = Front(p.frames)
  BY DEF Popped
<1>2. /\ q.frames \in Seq(FrameRec) /\ n \in Nat /\ n >= 1 /\ Len(q.frames) = n - 1
      /\ \A i \in 1 .. n - 1 : q.frames[i] = p.frames[i]
      /\ q.frames = <<>> <=> n = 1
  <2>1. p.frames \in Seq(FrameRec)
    BY <1>0 DEF ParseType
  <2> QED BY <1>1, <2>1, FrontFacts
<1>3. /\ top.from \in Nat /\ top.len \in Nat /\ top.off \in Nat
      /\ top.off = top.len /\ top.from + top.len <= p.inner /\ p.inner \in Nat
  <2>1. n \in 1 .. Len(p.frames)
    BY <1>2
  <2>2. top.from \in Nat /\ top.len \in Nat /\ top.off \in Nat
    BY <1>0, <2>1, PlacesAreNumbers
  <2>3. top.off <= top.len /\ top.from + top.len <= p.inner
    BY <1>0, <2>1 DEF FramesOk
  <2>4. p.inner \in Nat
    BY <1>0 DEF ParseType
  <2> HIDE DEF top
  <2>5. top.off >= top.len
    BY DEF top
  <2> QED BY <2>2, <2>3, <2>4, <2>5
<1> HIDE DEF n
<1>4. ParseType(q) /\ InnerOk(q)
  BY <1>0, <1>1, <1>2 DEF ParseType, InnerOk
<1>5. \A i \in 1 .. Len(q.frames) : i \in 1 .. Len(p.frames) /\ q.frames[i] = p.frames[i]
  BY <1>2 DEF n
<1>6. FramesOk(q) /\ FramesNest(q)
  <2>1. \A i \in 1 .. Len(q.frames) : FrameSource(p, i) => FrameSource(q, i)
    BY <1>1, <1>5 DEF FrameSource
  <2> QED BY <1>0, <1>1, <1>5, <2>1 DEF FramesOk, FramesNest
<1>7. Pos(p) = top.from + top.len
  BY <1>3 DEF Pos, n
<1>8. Pos(q) \in Nat /\ Pos(p) <= Pos(q)
  <2>1. CASE n = 1
    <3>1. Pos(q) = p.inner
      BY <1>1, <1>2, <2>1 DEF Pos
    <3> QED BY <1>3, <1>7, <3>1
  <2>2. CASE n # 1
    <3>1. n - 1 \in 1 .. Len(p.frames) /\ n \in 1 .. Len(p.frames) /\ n - 1 < n
      BY <1>2, <2>2 DEF n
    <3>2. top.from + top.len <= p.frames[n - 1].from + p.frames[n - 1].off
      BY <1>0, <3>1 DEF FramesNest
    <3>3. p.frames[n - 1].from \in Nat /\ p.frames[n - 1].off \in Nat
      BY <1>0, <3>1, PlacesAreNumbers
    <3>4. Pos(q) = p.frames[n - 1].from + p.frames[n - 1].off
      <4>1. q.frames[n - 1] = p.frames[n - 1]
        BY <1>2, <2>2
      <4> QED BY <1>2, <2>2, <4>1 DEF Pos
    <3> QED BY <1>7, <3>2, <3>3, <3>4
  <2> QED BY <2>1, <2>2
<1>9. ElementsPlaced(q)
  <2> SUFFICES ASSUME NEW j \in 1 .. Len(p.mms)
               PROVE  \/ EndOf(p.mms[j]) <= Pos(q)
                      \/ \E i \in 1 .. Len(q.frames) : /\ q.frames[i].from = p.mms[j].value
                                                       /\ q.frames[i].len = p.mms[j].value_len
    BY <1>0, <1>1 DEF ElementsPlaced
  <2>0. Pos(p) \in Nat
    <3> HIDE DEF top
    <3> QED BY <1>3, <1>7
  <2>1. EndOf(p.mms[j]) \in Nat /\ Pos(p) \in Nat
    <3>1. EndOf(p.mms[j]) \in Nat
      BY <1>0, PlacesAreNumbers
    <3> QED BY <2>0, <3>1
  <2>2. CASE EndOf(p.mms[j]) <= Pos(p)
    BY <1>8, <2>1, <2>2
  <2>3. ASSUME NEW i \in 1 .. Len(p.frames), p.frames[i].from = p.mms[j].value,
               p.frames[i].len = p.mms[j].value_len
        PROVE  \/ EndOf(p.mms[j]) <= Pos(q)
               \/ \E h \in 1 .. Len(q.frames) : /\ q.frames[h].from = p.mms[j].value
                                                /\ q.frames[h].len = p.mms[j].value_len
    <3>1. CASE i = n
      <4>1. EndOf(p.mms[j]) = Pos(p)
        BY <1>7, <2>3, <3>1 DEF EndOf
      <4> QED BY <1>8, <2>1, <4>1
    <3>2. CASE i # n
      <4>1. i \in 1 .. Len(q.frames)
        BY <1>2, <3>2 DEF n
      <4> QED BY <1>5, <2>3, <4>1
    <3> QED BY <3>1, <3>2
  <2> QED BY <1>0, <2>2, <2>3 DEF ElementsPlaced
<1>10. /\ SlotsFromTheEnd(q, capacity) /\ ElementsNest(q) /\ ElementsInOrder(q)
       /\ TypedAreLeaves(q)
  BY <1>0, <1>1 DEF SlotsFromTheEnd, ElementsNest, ElementsInOrder, TypedAreLeaves
<1>11. Progress(p, q)
  <2>1. Pos(p) \in Nat
    <3> HIDE DEF top
    <3> QED BY <1>3, <1>7
  <2>2. Len(q.frames) = Len(p.frames) - 1 /\ Len(p.frames) \in Nat
    BY <1>2 DEF n
  <2> QED BY <1>1, <1>8, <2>1, <2>2 DEF Progress
<1>12. QED BY <1>4, <1>6, <1>9, <1>10, <1>11 DEF ParseInv

(* An element is read by the topmost call, and its value entered when it is *)
(* constructed.                                                             *)
ElementRead(p, q, e, next, constructed) ==
  LET n == Len(p.frames)
      top == p.frames[n]
      moved == [p.frames EXCEPT ![n] = [from |-> top.from, len |-> top.len, off |-> next,
                                        before |-> top.off, parent |-> top.parent]]
  IN  /\ q.buf = p.buf /\ q.inner = p.inner /\ q.inner_len = p.inner_len
      /\ q.fields = p.fields /\ q.mms = Append(p.mms, e) /\ q.mms_cnt = p.mms_cnt - 1
      /\ p.mms_cnt # 0
      /\ e.index = p.mms_cnt - 1 /\ e.depth = n - 1 /\ e.parent_index = top.parent
      /\ top.from + top.off + 2 <= e.value /\ EndOf(e) = top.from + next
      /\ top.off < next /\ next <= top.len
      /\ q.frames = IF constructed THEN Append(moved, Frame(e.value, e.value_len, e.index))
                    ELSE moved
      /\ constructed => e.type = "UNKNOWN"

(* What is left of that, frame by frame. *)
ElementFrames(p, q, e, next) ==
  LET n == Len(p.frames)
  IN  /\ q.frames \in Seq(FrameRec)
      /\ Len(q.frames) \in {n, n + 1}
      /\ \A i \in 1 .. n - 1 : q.frames[i] = p.frames[i]
      /\ q.frames[n].from = p.frames[n].from /\ q.frames[n].len = p.frames[n].len
      /\ q.frames[n].off = next /\ q.frames[n].before = p.frames[n].off
      /\ q.frames[n].parent = p.frames[n].parent
      /\ Len(q.frames) = n + 1 => /\ q.frames[n + 1] = Frame(e.value, e.value_len, e.index)
                                  /\ e.type = "UNKNOWN"

LEMMA ReadFrames ==
  ASSUME NEW p, ParseType(p), p.frames # <<>>, NEW e \in MmsRef, NEW next \in Nat, NEW q,
         NEW constructed \in BOOLEAN, ElementRead(p, q, e, next, constructed)
  PROVE  ElementFrames(p, q, e, next)
<1> DEFINE n == Len(p.frames)
           top == p.frames[n]
           new == [from |-> top.from, len |-> top.len, off |-> next,
                   before |-> top.off, parent |-> top.parent]
           moved == [p.frames EXCEPT ![n] = new]
           frame == Frame(e.value, e.value_len, e.index)
<1>1. p.frames \in Seq(FrameRec) /\ n \in Nat /\ n \in 1 .. n
  <2>1. p.frames \in Seq(FrameRec)
    BY DEF ParseType
  <2> QED BY <2>1, EmptySeq
<1>2. new \in FrameRec
  <2>1. /\ top.from \in Nat /\ top.len \in Nat /\ top.off \in Nat /\ top.parent \in Int
    BY <1>1, PlacesAreNumbers
  <2> HIDE DEF top
  <2> QED BY <2>1 DEF FrameRec
<1>3. frame \in FrameRec
  BY DEF Frame, FrameRec, MmsRef
<1> HIDE DEF new, frame
<1>4. /\ moved \in Seq(FrameRec) /\ Len(moved) = n
      /\ \A i \in 1 .. n : moved[i] = IF i = n THEN new ELSE p.frames[i]
  BY <1>1, <1>2, ExceptSeq
<1>5. q.frames = IF constructed THEN Append(moved, frame) ELSE moved
  BY DEF ElementRead, new, frame
<1>6. constructed => e.type = "UNKNOWN"
  BY DEF ElementRead
<1> HIDE DEF moved
<1>7. /\ q.frames \in Seq(FrameRec)
      /\ \/ constructed /\ Len(q.frames) = n + 1 /\ q.frames[n + 1] = frame
         \/ Len(q.frames) = n
      /\ \A i \in 1 .. n : q.frames[i] = moved[i]
  <2>1. CASE constructed
    <3>1. q.frames = Append(moved, frame)
      BY <1>5, <2>1
    <3> QED BY <1>3, <1>4, <2>1, <3>1, AppendFacts
  <2>2. CASE ~ constructed
    <3>1. q.frames = moved
      BY <1>5, <2>2
    <3> QED BY <1>4, <3>1
  <2> QED BY <2>1, <2>2
<1>8. q.frames[n] = new
  BY <1>1, <1>4, <1>7
<1>9. \A i \in 1 .. n - 1 : q.frames[i] = p.frames[i]
  <2> HIDE DEF n
  <2> QED BY <1>1, <1>4, <1>7
<1>10. /\ new.from = top.from /\ new.len = top.len /\ new.off = next
       /\ new.before = top.off /\ new.parent = top.parent
  BY DEF new
<1>11. Len(q.frames) \in {n, n + 1}
  BY <1>1, <1>7
<1>12. Len(q.frames) = n + 1 => q.frames[n + 1] = frame /\ e.type = "UNKNOWN"
  <2> HIDE DEF n
  <2> QED BY <1>1, <1>6, <1>7
<1>13. QED BY <1>7, <1>8, <1>9, <1>10, <1>11, <1>12 DEF ElementFrames, frame

LEMMA ElementInv ==
  ASSUME NEW p, NEW capacity \in Nat, ParseInv(p, capacity), p.frames # <<>>,
         NEW e \in MmsRef, NEW next \in Nat, NEW constructed \in BOOLEAN,
         NEW q, IsCall(q), ElementRead(p, q, e, next, constructed)
  PROVE  ParseInv(q, capacity) /\ Progress(p, q)
<1> DEFINE n == Len(p.frames)
           top == p.frames[n]
           k == Len(p.mms) + 1
<1>0. /\ ParseType(p) /\ InnerOk(p) /\ FramesOk(p) /\ FramesNest(p) /\ ElementsPlaced(p)
      /\ SlotsFromTheEnd(p, capacity) /\ ElementsNest(p) /\ ElementsInOrder(p)
      /\ TypedAreLeaves(p)
  BY DEF ParseInv
<1>1. /\ q.buf = p.buf /\ q.inner = p.inner /\ q.inner_len = p.inner_len
      /\ q.fields = p.fields /\ q.mms = Append(p.mms, e) /\ q.mms_cnt = p.mms_cnt - 1
      /\ p.mms_cnt # 0
      /\ e.index = p.mms_cnt - 1 /\ e.depth = n - 1 /\ e.parent_index = top.parent
      /\ top.from + top.off + 2 <= e.value /\ EndOf(e) = top.from + next
      /\ top.off < next /\ next <= top.len
  BY DEF ElementRead
<1>2. /\ q.frames \in Seq(FrameRec)
      /\ Len(q.frames) \in {n, n + 1}
      /\ \A i \in 1 .. n - 1 : q.frames[i] = p.frames[i]
      /\ q.frames[n].from = top.from /\ q.frames[n].len = top.len
      /\ q.frames[n].off = next /\ q.frames[n].before = top.off
      /\ q.frames[n].parent = top.parent
  <2>1. ElementFrames(p, q, e, next)
    BY <1>0, ReadFrames
  <2> QED BY <2>1 DEF ElementFrames
<1>3. ASSUME Len(q.frames) = n + 1
      PROVE  /\ q.frames[n + 1].from = e.value /\ q.frames[n + 1].len = e.value_len
             /\ q.frames[n + 1].off = 0 /\ q.frames[n + 1].before = -1
             /\ q.frames[n + 1].parent = e.index /\ e.type = "UNKNOWN"
  <2>1. ElementFrames(p, q, e, next)
    BY <1>0, ReadFrames
  <2>2. q.frames[n + 1] = Frame(e.value, e.value_len, e.index) /\ e.type = "UNKNOWN"
    BY <1>3, <2>1 DEF ElementFrames
  <2> QED BY <2>2 DEF Frame
<1>4. n \in Nat /\ n \in 1 .. n /\ p.frames \in Seq(FrameRec)
  <2>1. p.frames \in Seq(FrameRec)
    BY <1>0 DEF ParseType
  <2> QED BY <2>1, EmptySeq
<1>5. /\ top.from \in Nat /\ top.len \in Nat /\ top.off \in Nat
      /\ top.from + top.len <= p.inner /\ p.inner \in Nat /\ p.mms_cnt \in Nat
      /\ top.parent \in Int /\ FrameSource(p, n)
  <2>1. /\ top.from \in Nat /\ top.len \in Nat /\ top.off \in Nat /\ top.parent \in Int
    BY <1>0, <1>4, PlacesAreNumbers
  <2>2. top.from + top.len <= p.inner /\ FrameSource(p, n)
    BY <1>0, <1>4 DEF FramesOk
  <2>3. p.inner \in Nat /\ p.mms_cnt \in Nat
    BY <1>0 DEF ParseType
  <2> QED BY <2>1, <2>2, <2>3
<1>6. /\ e.value \in Nat /\ e.value_len \in Nat /\ EndOf(e) = e.value + e.value_len
      /\ e.index \in Nat /\ EndOf(e) \in Nat
  BY DEF MmsRef, EndOf
<1>7. /\ q.mms \in Seq(MmsRef) /\ Len(p.mms) \in Nat /\ Len(q.mms) = k
      /\ \A j \in 1 .. Len(p.mms) : j \in 1 .. Len(q.mms) /\ q.mms[j] = p.mms[j]
      /\ q.mms[k] = e /\ k \in 1 .. Len(q.mms)
  <2>1. p.mms \in Seq(MmsRef)
    BY <1>0 DEF ParseType
  <2> QED BY <1>1, <2>1, AppendFacts
<1>8. \A j \in 1 .. Len(q.mms) : j = k \/ j \in 1 .. Len(p.mms)
  BY <1>7
<1>9. Pos(p) = top.from + top.off
  BY <1>4 DEF Pos
<1> HIDE DEF n, top, k
<1>a. /\ top.from + top.off + 2 <= e.value /\ EndOf(e) = top.from + next
      /\ top.off < next /\ next <= top.len
  BY <1>1
<1>10. ParseType(q) /\ InnerOk(q)
  <2>1. q.mms_cnt \in Nat
    <3>1. \A c \in Nat : c # 0 => c - 1 \in Nat
      OBVIOUS
    <3>2. p.mms_cnt \in Nat /\ p.mms_cnt # 0 /\ q.mms_cnt = p.mms_cnt - 1
      BY <1>1, <1>5
    <3> QED BY <3>1, <3>2, Zenon
  <2> QED BY <1>0, <1>1, <1>2, <1>7, <2>1 DEF ParseType, InnerOk
<1>11. \/ Len(q.frames) = n /\ Pos(q) = EndOf(e)
       \/ Len(q.frames) = n + 1 /\ Pos(q) = e.value
  <2>0. q.frames # <<>>
    BY <1>2, <1>4, EmptySeq
  <2>1. CASE Len(q.frames) = n
    BY <1>1, <1>2, <2>0, <2>1 DEF Pos
  <2>2. CASE Len(q.frames) = n + 1
    <3>1. Pos(q) = e.value + 0
      BY <1>3, <2>0, <2>2 DEF Pos
    <3> QED BY <1>6, <2>2, <3>1
  <2> QED BY <1>2, <2>1, <2>2
<1>12. /\ Pos(p) \in Nat /\ Pos(q) \in Nat /\ Pos(p) + 2 <= Pos(q) /\ Pos(p) + 2 <= e.value
       /\ EndOf(e) <= top.from + top.len /\ EndOf(e) <= p.inner
  <2>2. e.value + e.value_len = top.from + next
    BY <1>a, <1>6
  <2>3. /\ top.from + top.off + 2 <= e.value + e.value_len
        /\ top.from + next <= top.from + top.len /\ top.from + next <= p.inner
    <3> DEFINE f == top.from  o == top.off  l == top.len  v == e.value  w == e.value_len
               m == p.inner
    <3>1. /\ f \in Nat /\ o \in Nat /\ l \in Nat /\ v \in Nat /\ w \in Nat /\ m \in Nat
      BY <1>5, <1>6
    <3>2. f + o + 2 <= v /\ v + w = f + next /\ o < next /\ next <= l /\ f + l <= m
      BY <1>a, <1>5, <2>2
    <3> HIDE DEF f, o, l, v, w, m
    <3>3. f + o + 2 <= v + w /\ f + next <= f + l /\ f + next <= m
      BY <3>1, <3>2
    <3> QED BY <3>3 DEF f, o, l, v, w, m
  <2>4. Pos(p) \in Nat /\ Pos(q) \in Nat
    BY <1>5, <1>6, <1>9, <1>11
  <2>5. Pos(p) + 2 <= e.value /\ Pos(p) + 2 <= EndOf(e)
    BY <1>6, <1>9, <1>a, <2>3
  <2> QED BY <1>11, <1>a, <2>3, <2>4, <2>5
<1>13. \A i \in 1 .. n : /\ i \in 1 .. Len(p.frames) /\ i \in 1 .. Len(q.frames)
                         /\ q.frames[i].from = p.frames[i].from
                         /\ q.frames[i].len = p.frames[i].len
                         /\ q.frames[i].parent = p.frames[i].parent
  <2> TAKE i \in 1 .. n
  <2>1. i \in 1 .. Len(p.frames) /\ i \in 1 .. Len(q.frames)
    BY <1>2, <1>4 DEF n
  <2>2. CASE i = n
    BY <1>2, <2>1, <2>2 DEF top
  <2>3. CASE i # n
    <3>1. i \in 1 .. n - 1
      BY <1>4, <2>3
    <3> QED BY <1>2, <2>1, <3>1
  <2> QED BY <2>2, <2>3
<1>14. \A i \in 1 .. Len(q.frames) : i \in 1 .. n \/ (i = n + 1 /\ Len(q.frames) = n + 1)
  BY <1>2, <1>4
<1>15. FramesOk(q)
  <2>1. ASSUME NEW i \in 1 .. n PROVE FrameSource(p, i) => FrameSource(q, i)
    <3>1. /\ q.frames[i].from = p.frames[i].from /\ q.frames[i].len = p.frames[i].len
          /\ q.frames[i].parent = p.frames[i].parent
      BY <1>13
    <3> QED BY <1>1, <1>7, <3>1 DEF FrameSource
  <2>2. ASSUME NEW i \in 1 .. n
        PROVE  /\ q.frames[i].off <= q.frames[i].len
               /\ q.frames[i].before < q.frames[i].off
               /\ q.frames[i].from + q.frames[i].len <= q.inner
               /\ FrameSource(q, i)
    <3>1. FrameSource(q, i) /\ q.frames[i].from + q.frames[i].len <= q.inner
      <4>1. FrameSource(p, i) /\ p.frames[i].from + p.frames[i].len <= p.inner
        BY <1>0, <1>13 DEF FramesOk
      <4> QED BY <1>1, <1>13, <2>1, <4>1
    <3>2. CASE i = n
      BY <1>1, <1>2, <3>1, <3>2
    <3>3. CASE i # n
      <4>1. i \in 1 .. n - 1
        BY <1>4, <3>3
      <4>2. q.frames[i] = p.frames[i]
        BY <1>2, <4>1
      <4>3. p.frames[i].off <= p.frames[i].len /\ p.frames[i].before < p.frames[i].off
        BY <1>0, <1>13 DEF FramesOk
      <4> QED BY <3>1, <4>2, <4>3
    <3> QED BY <3>2, <3>3
  <2>3. ASSUME Len(q.frames) = n + 1
        PROVE  /\ q.frames[n + 1].off <= q.frames[n + 1].len
               /\ q.frames[n + 1].before < q.frames[n + 1].off
               /\ q.frames[n + 1].from + q.frames[n + 1].len <= q.inner
               /\ FrameSource(q, n + 1)
    <3>1. /\ q.frames[n + 1].from = e.value /\ q.frames[n + 1].len = e.value_len
          /\ q.frames[n + 1].off = 0 /\ q.frames[n + 1].before = -1
          /\ q.frames[n + 1].parent = e.index /\ e.type = "UNKNOWN"
      BY <1>3, <2>3
    <3>2. FrameSource(q, n + 1)
      <4>1. n + 1 # 1 /\ e.depth = (n + 1) - 2
        BY <1>1, <1>4
      <4>2. /\ q.mms[k].index = q.frames[n + 1].parent /\ q.mms[k].depth = (n + 1) - 2
            /\ q.mms[k].type = "UNKNOWN" /\ q.mms[k].value = q.frames[n + 1].from
            /\ q.mms[k].value_len = q.frames[n + 1].len
        BY <1>7, <3>1, <4>1
      <4> QED BY <1>7, <4>1, <4>2 DEF FrameSource
    <3>3. e.value + e.value_len <= p.inner
      BY <1>6, <1>12
    <3> QED BY <1>1, <1>6, <3>1, <3>2, <3>3
  <2>4. ASSUME NEW i \in 1 .. Len(q.frames)
        PROVE  /\ q.frames[i].off <= q.frames[i].len
               /\ q.frames[i].before < q.frames[i].off
               /\ q.frames[i].from + q.frames[i].len <= q.inner
               /\ FrameSource(q, i)
    BY <1>14, <2>2, <2>3
  <2> QED BY <2>4, Zenon DEF FramesOk
<1>16. FramesNest(q)
  <2>1. ASSUME NEW h \in 1 .. n - 1
        PROVE  /\ p.frames[h].from <= top.from
               /\ top.from + top.len <= p.frames[h].from + p.frames[h].off
               /\ p.frames[h].from \in Nat /\ p.frames[h].off \in Nat
               /\ q.frames[h] = p.frames[h]
    <3>1. h \in 1 .. Len(p.frames) /\ n \in 1 .. Len(p.frames) /\ h < n
      BY <1>4 DEF n
    <3>2. p.frames[h].from <= top.from /\ top.from + top.len <= p.frames[h].from + p.frames[h].off
      BY <1>0, <3>1 DEF FramesNest, top
    <3>3. p.frames[h].from \in Nat /\ p.frames[h].off \in Nat
      BY <1>0, <3>1, PlacesAreNumbers
    <3> QED BY <1>2, <3>2, <3>3
  <2>2. ASSUME NEW h \in 1 .. n - 1, NEW i \in 1 .. n, h < i
        PROVE  /\ q.frames[h].from <= q.frames[i].from
               /\ q.frames[i].from + q.frames[i].len <= q.frames[h].from + q.frames[h].off
    <3>1. h \in 1 .. Len(p.frames) /\ i \in 1 .. Len(p.frames)
      BY <1>4, <1>13
    <3>2. /\ p.frames[h].from <= p.frames[i].from
          /\ p.frames[i].from + p.frames[i].len <= p.frames[h].from + p.frames[h].off
      BY <1>0, <2>2, <3>1 DEF FramesNest
    <3> QED BY <1>13, <2>1, <3>2
  <2>3. ASSUME NEW h \in 1 .. n - 1, Len(q.frames) = n + 1
        PROVE  /\ q.frames[h].from <= e.value
               /\ e.value + e.value_len <= q.frames[h].from + q.frames[h].off
    <3>1. /\ p.frames[h].from <= top.from
          /\ top.from + top.len <= p.frames[h].from + p.frames[h].off
          /\ p.frames[h].from \in Nat /\ p.frames[h].off \in Nat
          /\ q.frames[h] = p.frames[h]
      BY <2>1
    <3>a. ASSUME NEW a \in Nat, NEW b \in Nat, NEW f \in Nat, NEW o \in Nat, NEW l \in Nat,
                 NEW v \in Nat, NEW w \in Nat,
                 f + o + 2 <= v, v + w <= f + l, a <= f, f + l <= a + b
          PROVE  a <= v /\ v + w <= a + b
      BY <3>a
    <3>b. e.value + e.value_len <= top.from + top.len
      BY <1>6, <1>12
    <3>2. p.frames[h].from <= e.value /\ e.value + e.value_len <= p.frames[h].from + p.frames[h].off
      BY <1>a, <1>5, <1>6, <3>1, <3>a, <3>b
    <3> QED BY <3>1, <3>2
  <2>4. /\ q.frames[n].from <= e.value
        /\ e.value + e.value_len <= q.frames[n].from + q.frames[n].off
    <3>1. top.from <= e.value
      BY <1>1, <1>5, <1>6
    <3>2. e.value + e.value_len <= top.from + next
      BY <1>1, <1>6
    <3> QED BY <1>2, <3>1, <3>2
  <2>5. ASSUME NEW h \in 1 .. Len(q.frames), NEW i \in 1 .. Len(q.frames), h < i
        PROVE  /\ q.frames[h].from <= q.frames[i].from
               /\ q.frames[i].from + q.frames[i].len <= q.frames[h].from + q.frames[h].off
    <3>1. CASE i \in 1 .. n
      <4>1. h \in 1 .. n - 1
        BY <1>4, <2>5, <3>1
      <4> QED BY <2>2, <2>5, <3>1, <4>1
    <3>2. CASE i = n + 1 /\ Len(q.frames) = n + 1
      <4>1. q.frames[i].from = e.value /\ q.frames[i].len = e.value_len
        BY <1>3, <3>2
      <4>2. h \in 1 .. n - 1 \/ h = n
        BY <1>4, <2>5, <3>2
      <4> QED BY <2>3, <2>4, <3>2, <4>1, <4>2
    <3> QED BY <1>14, <3>1, <3>2
  <2> QED BY <2>5 DEF FramesNest
<1>17. ElementsPlaced(q)
  <2>1. ASSUME NEW j \in 1 .. Len(p.mms)
        PROVE  /\ EndOf(p.mms[j]) <= q.inner
               /\ \/ EndOf(p.mms[j]) <= Pos(q)
                  \/ \E i \in 1 .. Len(q.frames) : /\ q.frames[i].from = p.mms[j].value
                                                   /\ q.frames[i].len = p.mms[j].value_len
    <3>1. EndOf(p.mms[j]) \in Nat
      BY <1>0, PlacesAreNumbers
    <3>2. EndOf(p.mms[j]) <= q.inner
      BY <1>0, <1>1 DEF ElementsPlaced
    <3>3. \/ EndOf(p.mms[j]) <= Pos(p)
          \/ \E i \in 1 .. Len(p.frames) : /\ p.frames[i].from = p.mms[j].value
                                           /\ p.frames[i].len = p.mms[j].value_len
      BY <1>0 DEF ElementsPlaced
    <3>4. CASE EndOf(p.mms[j]) <= Pos(p)
      BY <1>12, <3>1, <3>2, <3>4
    <3>5. CASE \E i \in 1 .. n : /\ p.frames[i].from = p.mms[j].value
                                 /\ p.frames[i].len = p.mms[j].value_len
      BY <1>13, <3>2, <3>5
    <3> QED BY <3>3, <3>4, <3>5 DEF n
  <2>2. /\ EndOf(e) <= q.inner
        /\ \/ EndOf(e) <= Pos(q)
           \/ \E i \in 1 .. Len(q.frames) : /\ q.frames[i].from = e.value
                                            /\ q.frames[i].len = e.value_len
    <3>1. CASE Len(q.frames) = n /\ Pos(q) = EndOf(e)
      BY <1>1, <1>6, <1>12, <3>1
    <3>2. CASE Len(q.frames) = n + 1
      <4>1. n + 1 \in 1 .. Len(q.frames)
        BY <1>4, <3>2
      <4> QED BY <1>1, <1>3, <1>12, <3>2, <4>1
    <3> QED BY <1>11, <3>1, <3>2
  <2>3. ASSUME NEW j \in 1 .. Len(q.mms)
        PROVE  /\ EndOf(q.mms[j]) <= q.inner
               /\ \/ EndOf(q.mms[j]) <= Pos(q)
                  \/ \E i \in 1 .. Len(q.frames) : /\ q.frames[i].from = q.mms[j].value
                                                   /\ q.frames[i].len = q.mms[j].value_len
    BY <1>7, <1>8, <2>1, <2>2
  <2> QED BY <2>3 DEF ElementsPlaced
<1>18. ElementsNest(q)
  <2>1. ASSUME NEW j \in 1 .. Len(p.mms)
        PROVE  LET x == q.mms[j]
               IN  \/ /\ x.parent_index = -1 /\ x.depth = 0
                      /\ \E f \in 1 .. Len(q.fields) : /\ q.fields[f].id = AllData
                                                       /\ Within(x, q.fields[f])
                   \/ \E i \in 1 .. j - 1 : /\ q.mms[i].index = x.parent_index
                                            /\ x.depth = q.mms[i].depth + 1
                                            /\ Within(x, q.mms[i])
    <3>1. q.mms[j] = p.mms[j] /\ \A i \in 1 .. j - 1 : q.mms[i] = p.mms[i]
      BY <1>7
    <3> QED BY <1>0, <1>1, <3>1 DEF ElementsNest
  <2>2. \/ /\ e.parent_index = -1 /\ e.depth = 0
           /\ \E f \in 1 .. Len(q.fields) : /\ q.fields[f].id = AllData
                                            /\ Within(e, q.fields[f])
        \/ \E i \in 1 .. k - 1 : /\ q.mms[i].index = e.parent_index
                                 /\ e.depth = q.mms[i].depth + 1
                                 /\ Within(e, q.mms[i])
    <3>1. ASSUME NEW o, o.value = top.from, o.value_len = top.len
          PROVE  Within(e, o)
      <4>1. top.from + 2 <= e.value
        <5> DEFINE f == top.from  b == top.off  v == e.value
        <5>1. f \in Nat /\ b \in Nat /\ v \in Nat /\ f + b + 2 <= v
          BY <1>a, <1>5, <1>6
        <5> HIDE DEF f, b, v
        <5>2. f + 2 <= v
          BY <5>1
        <5> QED BY <5>2 DEF f, v
      <4> QED BY <1>12, <3>1, <4>1 DEF Within, EndOf
    <3>2. CASE n = 1
      <4>1. PICK f \in 1 .. Len(p.fields) : /\ p.fields[f].id = AllData
                                            /\ p.fields[f].value = top.from
                                            /\ p.fields[f].value_len = top.len
        BY <1>5, <3>2 DEF FrameSource, top
      <4>2. e.parent_index = -1 /\ e.depth = 0
        BY <1>1, <1>5, <3>2 DEF FrameSource, top
      <4> QED BY <1>1, <3>1, <4>1, <4>2
    <3>3. CASE n # 1
      <4>1. PICK i \in 1 .. Len(p.mms) : /\ p.mms[i].index = top.parent
                                         /\ p.mms[i].depth = n - 2
                                         /\ p.mms[i].value = top.from
                                         /\ p.mms[i].value_len = top.len
        BY <1>5, <3>3 DEF FrameSource, top
      <4>2. i \in 1 .. k - 1 /\ q.mms[i] = p.mms[i]
        BY <1>7 DEF k
      <4>3. e.depth = q.mms[i].depth + 1
        BY <1>1, <1>4, <4>1, <4>2
      <4>4. q.mms[i].index = e.parent_index
        BY <1>1, <4>1, <4>2
      <4>5. Within(e, q.mms[i])
        BY <3>1, <4>1, <4>2
      <4> QED BY <4>2, <4>3, <4>4, <4>5
    <3> QED BY <3>2, <3>3
  <2>3. q.mms[k] = e
    BY <1>7
  <2> QED BY <1>8, <2>1, <2>2, <2>3 DEF ElementsNest
<1>19. ElementsInOrder(q)
  <2>1. ASSUME NEW j \in 1 .. Len(p.mms)
        PROVE  Within(e, p.mms[j]) \/ EndOf(p.mms[j]) + 2 <= e.value
    <3>1. p.mms[j].value \in Nat /\ p.mms[j].value_len \in Nat /\ EndOf(p.mms[j]) \in Nat
      BY <1>0, PlacesAreNumbers
    <3>2. CASE EndOf(p.mms[j]) <= Pos(p)
      BY <1>6, <1>12, <3>1, <3>2
    <3>3. ASSUME NEW i \in 1 .. n, p.frames[i].from = p.mms[j].value,
                 p.frames[i].len = p.mms[j].value_len
          PROVE  Within(e, p.mms[j])
      <4>1. p.mms[j].value <= top.from /\ top.from + top.len <= p.mms[j].value + p.mms[j].value_len
        <5>1. CASE i = n
          BY <1>5, <3>3, <5>1 DEF top
        <5>2. CASE i # n
          <6>1. i \in 1 .. Len(p.frames) /\ n \in 1 .. Len(p.frames) /\ i < n
            BY <1>4, <1>13, <5>2
          <6>2. /\ p.frames[i].from <= top.from
                /\ top.from + top.len <= p.frames[i].from + p.frames[i].off
            BY <1>0, <6>1 DEF FramesNest, top
          <6>3. p.frames[i].off <= p.frames[i].len /\ p.frames[i].off \in Nat
            BY <1>0, <6>1, PlacesAreNumbers DEF FramesOk
          <6> DEFINE a == p.mms[j].value  b == p.mms[j].value_len  o == p.frames[i].off
                     f == top.from  l == top.len
          <6>4. /\ a \in Nat /\ b \in Nat /\ o \in Nat /\ f \in Nat /\ l \in Nat
                /\ a <= f /\ f + l <= a + o /\ o <= b
            BY <1>5, <3>1, <3>3, <6>2, <6>3
          <6> HIDE DEF a, b, o, f, l
          <6>5. a <= f /\ f + l <= a + b
            BY <6>4
          <6> QED BY <6>5 DEF a, b, f, l
        <5> QED BY <5>1, <5>2
      <4> DEFINE f == top.from  o == top.off  l == top.len  v == e.value  w == EndOf(e)
                 a == p.mms[j].value  b == p.mms[j].value_len
      <4>2. /\ f \in Nat /\ o \in Nat /\ l \in Nat /\ v \in Nat /\ w \in Nat
            /\ a \in Nat /\ b \in Nat
        BY <1>5, <1>6, <3>1
      <4>3. f + o + 2 <= v /\ w <= f + l /\ a <= f /\ f + l <= a + b
        BY <1>a, <1>12, <4>1
      <4>4. p.mms[j].value + 2 <= e.value /\ EndOf(e) <= p.mms[j].value + p.mms[j].value_len
        <5> HIDE DEF f, o, l, v, w, a, b
        <5>1. a + 2 <= v /\ w <= a + b
          BY <4>2, <4>3
        <5> QED BY <5>1 DEF v, w, a, b
      <4> QED BY <4>4, Zenon DEF Within, EndOf
    <3>4. \/ EndOf(p.mms[j]) <= Pos(p)
          \/ \E i \in 1 .. n : /\ p.frames[i].from = p.mms[j].value
                               /\ p.frames[i].len = p.mms[j].value_len
      BY <1>0 DEF ElementsPlaced, n
    <3> QED BY <3>2, <3>3, <3>4
  <2>2. ASSUME NEW j \in 1 .. Len(q.mms), NEW i \in 1 .. Len(q.mms), j < i
        PROVE  Within(q.mms[i], q.mms[j]) \/ EndOf(q.mms[j]) + 2 <= q.mms[i].value
    <3>1. j \in 1 .. Len(p.mms) /\ q.mms[j] = p.mms[j]
      BY <1>7, <2>2 DEF k
    <3>2. CASE i = k
      BY <1>7, <2>1, <3>1, <3>2
    <3>3. CASE i \in 1 .. Len(p.mms)
      <4>1. q.mms[i] = p.mms[i]
        BY <1>7, <3>3
      <4>2. Within(p.mms[i], p.mms[j]) \/ EndOf(p.mms[j]) + 2 <= p.mms[i].value
        BY <1>0, <2>2, <3>1, <3>3 DEF ElementsInOrder
      <4> QED BY <3>1, <4>1, <4>2
    <3> QED BY <1>8, <3>2, <3>3
  <2> QED BY <2>2 DEF ElementsInOrder
<1>20. SlotsFromTheEnd(q, capacity)
  <2>1. /\ p.mms_cnt = capacity - Len(p.mms)
        /\ \A j \in 1 .. Len(p.mms) : p.mms[j].index = capacity - j
    BY <1>0 DEF SlotsFromTheEnd
  <2>2. k = Len(p.mms) + 1
    BY DEF k
  <2>3. q.mms_cnt = capacity - k /\ q.mms_cnt >= 0 /\ e.index = capacity - k
    BY <1>1, <1>5, <1>7, <2>1, <2>2
  <2>4. \A j \in 1 .. Len(q.mms) : q.mms[j].index = capacity - j
    BY <1>7, <1>8, <2>1, <2>3
  <2> QED BY <1>7, <2>3, <2>4 DEF SlotsFromTheEnd
<1>21. TypedAreLeaves(q)
  <2>1. /\ \A j \in 1 .. Len(q.mms) : q.mms[j].index = capacity - j
        /\ q.mms_cnt = capacity - Len(q.mms) /\ q.mms_cnt >= 0
    BY <1>20 DEF SlotsFromTheEnd
  <2>2. \A i, j \in 1 .. Len(q.mms) : q.mms[i].index = q.mms[j].index => i = j
    BY <1>7, <2>1
  <2>3. \A j \in 1 .. Len(q.mms) : q.mms[j].index # -1
    BY <1>7, <2>1
  <2>4. ASSUME NEW i \in 1 .. Len(q.mms), NEW j \in 1 .. Len(q.mms),
               q.mms[i].parent_index = q.mms[j].index
        PROVE  q.mms[j].type = "UNKNOWN"
    <3>1. CASE i = k
      <4>1. e.parent_index = q.mms[j].index /\ e.parent_index = top.parent
        BY <1>1, <1>7, <2>4, <3>1
      <4>2. n # 1
        BY <1>5, <2>3, <4>1 DEF FrameSource, top
      <4>3. PICK h \in 1 .. Len(p.mms) : p.mms[h].index = top.parent /\ p.mms[h].type = "UNKNOWN"
        BY <1>5, <4>2 DEF FrameSource, top
      <4>4. h \in 1 .. Len(q.mms) /\ q.mms[h] = p.mms[h]
        BY <1>7
      <4>5. h = j
        BY <2>2, <4>1, <4>3, <4>4
      <4> QED BY <4>3, <4>4, <4>5
    <3>2. CASE i \in 1 .. Len(p.mms)
      <4>1. q.mms[i] = p.mms[i]
        BY <1>7, <3>2
      <4>2. p.mms[i].parent_index # -1
        BY <2>3, <2>4, <4>1
      <4>3. PICK h \in 1 .. i - 1 : p.mms[h].index = p.mms[i].parent_index
        BY <1>0, <3>2, <4>2 DEF ElementsNest
      <4>4. h \in 1 .. Len(p.mms) /\ h \in 1 .. Len(q.mms) /\ q.mms[h] = p.mms[h]
        BY <1>7, <3>2
      <4>5. h = j
        BY <2>2, <2>4, <4>1, <4>3, <4>4
      <4>6. p.mms[h].type = "UNKNOWN"
        BY <1>0, <3>2, <4>3, <4>4 DEF TypedAreLeaves
      <4> QED BY <4>4, <4>5, <4>6
    <3> QED BY <1>8, <3>1, <3>2
  <2> QED BY <2>4 DEF TypedAreLeaves
<1>22. IsCall(q)
  OBVIOUS
<1>23. Progress(p, q)
  <2>1. Len(q.frames) <= Len(p.frames) + 1 /\ Len(p.frames) \in Nat /\ Len(q.frames) \in Nat
    BY <1>2, <1>4 DEF n
  <2> QED BY <1>1, <1>12, <2>1 DEF Progress
<1>24. QED BY <1>10, <1>15, <1>16, <1>17, <1>18, <1>19, <1>20, <1>21, <1>22, <1>23 DEF ParseInv

LEMMA FrameMoves ==
  ASSUME NEW f, NEW next, NEW g,
         f = [from |-> f.from, len |-> f.len, off |-> f.off, before |-> f.before,
              parent |-> f.parent],
         g = [f EXCEPT !.before = f.off, !.off = next]
  PROVE  g = [from |-> f.from, len |-> f.len, off |-> next, before |-> f.off, parent |-> f.parent]
<1>1. g = [from |-> g.from, len |-> g.len, off |-> g.off, before |-> g.before, parent |-> g.parent]
  OBVIOUS
<1>2. /\ g.from = f.from /\ g.len = f.len /\ g.off = next /\ g.before = f.off
      /\ g.parent = f.parent
  OBVIOUS
<1>3. QED BY <1>1, <1>2

(* A step of the loop of parse_mms_sequence(). *)
LEMMA MmsStepInv ==
  ASSUME NEW p, NEW capacity \in Nat, ParseInv(p, capacity), p.frames # <<>>,
         MmsStep(p).sums = "EXACT"
  PROVE  /\ ParseInv(MmsStep(p), capacity)
         /\ MmsStep(p).status = "PARSING" => Progress(p, MmsStep(p))
<1> DEFINE n == Len(p.frames)
           top == p.frames[n]
           tlv == BerNextTlv(p.buf, top.from, top.len, top.off)
           e == [index |-> p.mms_cnt - 1, depth |-> n - 1, parent_index |-> top.parent,
                 type |-> MmsType(tlv.tag.octet), tag_octet |-> tlv.tag.octet,
                 value |-> tlv.value, value_len |-> tlv.value_len]
           moved == [p.frames EXCEPT ![n] = [@ EXCEPT !.before = top.off, !.off = tlv.next]]
           new == [from |-> top.from, len |-> top.len, off |-> tlv.next, before |-> top.off,
                   parent |-> top.parent]
           q == MmsStep(p)
<1>0. ParseType(p) /\ InnerOk(p) /\ IsCall(p) /\ FramesOk(p)
  BY DEF ParseInv
<1>1. CASE top.before = top.off
  <2>1. q = [p EXCEPT !.status = "ERR_BER"]
    BY <1>1 DEF MmsStep, Returns
  <2>2. ParseInv(q, capacity) /\ q.status # "PARSING"
    <3> HIDE DEF q
    <3>1. q.status # "PARSING"
      BY <1>0, <2>1 DEF IsCall
    <3> QED BY <2>1, <3>1, ReturnsInv
  <2> QED BY <2>2
<1>2. CASE top.before # top.off /\ top.off >= top.len
  <2>1. q = [p EXCEPT !.frames = Front(@)]
    BY <1>2 DEF MmsStep
  <2>2. IsCall(q) /\ Popped(p, q)
    <3> HIDE DEF q
    <3> QED BY <1>0, <2>1 DEF IsCall, Popped
  <2>3. ParseInv(q, capacity) /\ Progress(p, q)
    <3> HIDE DEF q
    <3> QED BY <1>2, <2>2, PoppedInv
  <2> QED BY <2>3
<1>3. CASE top.before # top.off /\ ~ (top.off >= top.len) /\ ~ tlv.ok
  <2>1. q = [p EXCEPT !.status = "ERR_BER"]
    BY <1>3 DEF MmsStep, Returns
  <2>2. ParseInv(q, capacity) /\ q.status # "PARSING"
    <3> HIDE DEF q
    <3>1. q.status # "PARSING"
      BY <1>0, <2>1 DEF IsCall
    <3> QED BY <2>1, <3>1, ReturnsInv
  <2> QED BY <2>2
<1>4. CASE top.before # top.off /\ ~ (top.off >= top.len) /\ tlv.ok /\ p.mms_cnt = 0
  <2>1. q = [p EXCEPT !.status = "ERR_TOO_MANY_MMS"]
    BY <1>4 DEF MmsStep, Returns
  <2>2. ParseInv(q, capacity) /\ q.status # "PARSING"
    <3> HIDE DEF q
    <3>1. q.status # "PARSING"
      BY <1>0, <2>1 DEF IsCall
    <3> QED BY <2>1, <3>1, ReturnsInv
  <2> QED BY <2>2
<1>5. CASE top.before # top.off /\ ~ (top.off >= top.len) /\ tlv.ok /\ p.mms_cnt # 0
  <2>1. q = [p EXCEPT !.mms = Append(@, e), !.mms_cnt = @ - 1,
                      !.frames = IF tlv.tag.constructed
                                 THEN Append(moved, Frame(tlv.value, tlv.value_len,
                                                          p.mms_cnt - 1))
                                 ELSE moved,
                      !.sums = Sums(tlv, @)]
    BY <1>5 DEF MmsStep
  <2>16. tlv.sum < SizeWord
    <3>1. q.sums = Sums(tlv, p.sums)
      <4> HIDE DEF tlv, e, moved, q
      <4> QED BY <1>0, <2>1 DEF IsCall
    <3>2. Sums(tlv, p.sums) = "EXACT"
      BY <3>1
    <3> HIDE DEF tlv, q
    <3> QED BY <3>2 DEF Sums
  <2>2. n \in Nat /\ n \in 1 .. n /\ p.frames \in Seq(FrameRec)
    <3>1. p.frames \in Seq(FrameRec)
      BY <1>0 DEF ParseType
    <3> QED BY <3>1, EmptySeq
  <2>3. /\ top \in FrameRec /\ top.from \in Nat /\ top.len \in Nat /\ top.off \in Nat
        /\ top.parent \in Int
    BY <1>0, <2>2, ElementOfSeq, PlacesAreNumbers
  <2>4. Readable(p.buf) /\ p.mms_cnt \in Nat /\ top.from + top.len <= Len(p.buf)
    <3>1. /\ Readable(p.buf) /\ p.mms_cnt \in Nat /\ p.inner \in Nat /\ p.inner_len \in Nat
          /\ p.inner + p.inner_len <= Len(p.buf)
      BY <1>0 DEF ParseType, InnerOk
    <3>2. Len(p.buf) \in Nat
      BY <3>1, BufferLength
    <3>3. top.from + top.len <= p.inner
      BY <1>0, <2>2 DEF FramesOk
    <3> HIDE DEF top
    <3> QED BY <2>3, <3>1, <3>2, <3>3
  <2>5. TlvFacts(tlv, top.from, top.len, top.off)
    BY <1>5, <2>3, <2>4, <2>16, NextTlvFacts
  <2>6. moved = [p.frames EXCEPT ![n] = new]
    <3>1. [top EXCEPT !.before = top.off, !.off = tlv.next] = new
      <4>1. top = [from |-> top.from, len |-> top.len, off |-> top.off, before |-> top.before,
                   parent |-> top.parent]
        <5> HIDE DEF top
        <5> QED BY <2>3 DEF FrameRec
      <4> HIDE DEF top, tlv
      <4> QED BY <4>1, FrameMoves
    <3>2. moved = [p.frames EXCEPT ![n] = [top EXCEPT !.before = top.off, !.off = tlv.next]]
      BY <2>2
    <3> HIDE DEF moved, new
    <3> QED BY <3>1, <3>2
  <2> HIDE DEF n, tlv, q, top
  <2>7. /\ tlv.value \in Nat /\ tlv.value_len \in Nat /\ tlv.next \in Nat
        /\ top.from + top.off + 2 <= tlv.value
        /\ tlv.value + tlv.value_len = top.from + tlv.next
        /\ top.off + 2 <= tlv.next /\ tlv.next <= top.len
        /\ tlv.tag.octet \in 0 .. 255
        /\ tlv.tag.constructed = ((tlv.tag.octet \div 32) % 2 = 1)
    BY <2>5 DEF TlvFacts
  <2>8. tlv.tag.constructed => MmsType(tlv.tag.octet) = "UNKNOWN"
    <3>1. tlv.tag.constructed => (tlv.tag.octet \div 32) % 2 = 1
      BY <2>7, Zenon
    <3>2. tlv.tag.octet \in 0 .. 255
      BY <2>7, Zenon
    <3> QED BY <3>1, <3>2, ConstructedIsUnknown, Zenon
  <2>9. e \in MmsRef /\ EndOf(e) = top.from + tlv.next
    <3>1. MmsType(tlv.tag.octet) \in MTypes /\ tlv.tag.octet \in 0 .. 255
      <4>1. tlv.tag.octet \in 0 .. 255 /\ 0 .. 255 \subseteq Nat
        <5>1. 0 .. 255 \subseteq Nat
          OBVIOUS
        <5> QED BY <2>7, <5>1, Zenon
      <4> QED BY <4>1, MmsTypes
    <3>2. p.mms_cnt - 1 \in Nat /\ n - 1 \in Nat
      BY <1>5, <2>2, <2>4
    <3>3. e \in MmsRef
      BY <2>3, <2>7, <3>1, <3>2 DEF MmsRef
    <3>4. EndOf(e) = top.from + tlv.next
      BY <2>7 DEF EndOf
    <3> QED BY <3>3, <3>4
  <2>10. tlv.tag.constructed \in BOOLEAN
    <3>1. tlv.tag.constructed = ((tlv.tag.octet \div 32) % 2 = 1)
      BY <2>7, Zenon
    <3> QED BY <3>1, Zenon
  <2> HIDE DEF moved
  <2>11. IsCall(q)
    <3> HIDE DEF e
    <3> QED BY <1>0, <2>1 DEF IsCall
  <2>12. /\ e.index = p.mms_cnt - 1 /\ e.depth = n - 1 /\ e.parent_index = top.parent
         /\ e.value = tlv.value /\ e.value_len = tlv.value_len
         /\ e.type = MmsType(tlv.tag.octet)
    OBVIOUS
  <2> HIDE DEF e, new
  <2>13. /\ q.buf = p.buf /\ q.inner = p.inner /\ q.inner_len = p.inner_len
         /\ q.fields = p.fields /\ q.mms = Append(p.mms, e) /\ q.mms_cnt = p.mms_cnt - 1
         /\ q.frames = IF tlv.tag.constructed
                       THEN Append(moved, Frame(e.value, e.value_len, e.index)) ELSE moved
    BY <1>0, <2>1, <2>12 DEF IsCall
  <2>14. ElementRead(p, q, e, tlv.next, tlv.tag.constructed)
    <3>1. top.off < tlv.next
      BY <2>3, <2>7
    <3>2. tlv.tag.constructed => e.type = "UNKNOWN"
      BY <2>8, <2>12, Zenon
    <3>3. /\ p.mms_cnt # 0 /\ top.from + top.off + 2 <= e.value /\ EndOf(e) = top.from + tlv.next
          /\ tlv.next <= top.len
      BY <1>5, <2>7, <2>9, <2>12
    <3> QED BY <2>6, <2>12, <2>13, <3>1, <3>2, <3>3, Zenon DEF ElementRead, new, top, n
  <2>15. ParseInv(q, capacity) /\ Progress(p, q)
    BY <2>7, <2>9, <2>10, <2>11, <2>14, ElementInv
  <2> QED BY <2>15 DEF q
<1>6. QED BY <1>1, <1>2, <1>3, <1>4, <1>5

LEMMA GooseStepInv ==
  ASSUME NEW p, NEW capacity \in Nat, ParseInv(p, capacity), GooseStep(p).sums = "EXACT"
  PROVE  /\ ParseInv(GooseStep(p), capacity)
         /\ GooseStep(p).status = "PARSING" => Progress(p, GooseStep(p))
<1>1. p.status # "PARSING" => GooseStep(p) = p
  BY DEF GooseStep
<1>2. p.status = "PARSING" /\ p.frames = <<>> => GooseStep(p) = FieldStep(p)
  BY DEF GooseStep
<1>3. p.status = "PARSING" /\ p.frames # <<>> => GooseStep(p) = MmsStep(p)
  BY DEF GooseStep
<1>4. QED BY <1>1, <1>2, <1>3, FieldStepInv, MmsStepInv

(* The place reached lies in the buffer. *)
LEMMA PosInside ==
  ASSUME NEW p, NEW capacity \in Nat, ParseInv(p, capacity)
  PROVE  /\ Pos(p) \in Nat /\ Pos(p) <= Len(p.buf) /\ Len(p.frames) \in Nat
         /\ Len(p.buf) \in Nat
<1>1. ParseType(p) /\ InnerOk(p) /\ FramesOk(p)
  BY DEF ParseInv
<1>2. /\ Readable(p.buf) /\ p.inner \in Nat /\ p.inner_len \in Nat
      /\ p.inner + p.inner_len <= Len(p.buf) /\ p.frames \in Seq(FrameRec)
  BY <1>1 DEF ParseType, InnerOk
<1>3. Len(p.buf) \in Nat
  BY <1>2, BufferLength
<1>4. p.inner <= Len(p.buf)
  BY <1>2, <1>3
<1>5. Len(p.frames) \in Nat
  BY <1>2, LenProperties
<1>6. CASE p.frames = <<>>
  BY <1>2, <1>3, <1>4, <1>5, <1>6 DEF Pos
<1>7. CASE p.frames # <<>>
  <2> DEFINE n == Len(p.frames)
             f == p.frames[n].from  o == p.frames[n].off  l == p.frames[n].len
  <2>1. n \in 1 .. Len(p.frames)
    BY <1>2, <1>7, EmptySeq
  <2>2. f \in Nat /\ o \in Nat /\ l \in Nat
    BY <1>1, <2>1, PlacesAreNumbers
  <2>3. o <= l /\ f + l <= p.inner
    BY <1>1, <2>1 DEF FramesOk
  <2>4. Pos(p) = f + o
    BY <1>7 DEF Pos
  <2> HIDE DEF f, o, l
  <2>5. f + o \in Nat /\ f + o <= p.inner
    BY <1>2, <2>2, <2>3
  <2> QED BY <1>2, <1>3, <1>4, <1>5, <2>4, <2>5
<1>8. QED BY <1>6, <1>7

(* A call of goose_parse_pdu(), step by step. *)
IsParse(call, buf, pdu, len, field_capacity, mms_capacity) ==
  /\ call[0] = GooseStart(buf, pdu, len, field_capacity, mms_capacity)
  /\ \A n \in Nat : call[n + 1] = GooseStep(call[n])

(* What holds of a call whatever it has read: the caller's arrays are      *)
(* filled slot by slot.                                                    *)
CallShape(p, field_capacity, mms_capacity) ==
  /\ IsCall(p) /\ p.field_capacity = field_capacity
  /\ \E S : p.fields \in Seq(S)
  /\ \E S : p.mms \in Seq(S)
  /\ \E S : p.frames \in Seq(S)
  /\ Len(p.fields) <= field_capacity
  /\ SlotsFromTheEnd(p, mms_capacity)

(* The slots that are left count twice, and every call that goes on once.  *)
Left(p) == 2 * (p.field_capacity - Len(p.fields)) + 2 * p.mms_cnt + Len(p.frames)

LEMMA StartShape ==
  ASSUME NEW buf, NEW pdu, NEW len, NEW field_capacity \in Nat, NEW mms_capacity \in Nat
  PROVE  LET p == GooseStart(buf, pdu, len, field_capacity, mms_capacity)
         IN  /\ CallShape(p, field_capacity, mms_capacity)
             /\ Left(p) = 2 * (field_capacity + mms_capacity)
<1> DEFINE p == GooseStart(buf, pdu, len, field_capacity, mms_capacity)
           outer == BerNextTlv(buf, pdu, len, 0)
           Start(status, inner, inner_len, sums) ==
             [status |-> status, buf |-> buf, inner |-> inner, inner_len |-> inner_len,
              fields |-> <<>>, field_capacity |-> field_capacity, field_count |-> field_capacity,
              mms |-> <<>>, mms_cnt |-> mms_capacity, frames |-> <<>>, sums |-> sums]
<1>1. \E status, inner, inner_len, sums : p = Start(status, inner, inner_len, sums)
  <2>1. \/ p = Start("ERR_BER", pdu, 0, "EXACT")
        \/ p = Start("ERR_NOT_GOOSE", pdu, 0, "EXACT")
        \/ p = Start("PARSING", outer.value, outer.value_len, Sums(outer, "EXACT"))
    BY Zenon DEF GooseStart
  <2> HIDE DEF p, outer, Start
  <2> QED BY <2>1
<1>2. PICK status, inner, inner_len, sums : p = Start(status, inner, inner_len, sums)
  BY <1>1
<1> HIDE DEF p
<1>3. /\ IsCall(p) /\ p.field_capacity = field_capacity /\ p.fields = <<>> /\ p.mms = <<>>
      /\ p.frames = <<>> /\ p.mms_cnt = mms_capacity
  BY <1>2 DEF IsCall
<1>4. <<>> \in Seq({}) /\ Len(<<>>) = 0
  OBVIOUS
<1>5. SlotsFromTheEnd(p, mms_capacity)
  BY <1>3, <1>4 DEF SlotsFromTheEnd
<1>6. CallShape(p, field_capacity, mms_capacity)
  BY <1>3, <1>4, <1>5 DEF CallShape
<1>7. Left(p) = 2 * (field_capacity + mms_capacity)
  BY <1>3, <1>4 DEF Left
<1> QED BY <1>6, <1>7 DEF p

LEMMA AppendAny ==
  ASSUME NEW S, NEW s \in Seq(S), NEW x
  PROVE  /\ Append(s, x) \in Seq(S \cup {x}) /\ Len(s) \in Nat
         /\ Len(Append(s, x)) = Len(s) + 1
         /\ \A i \in 1 .. Len(s) : Append(s, x)[i] = s[i]
         /\ Append(s, x)[Len(s) + 1] = x
<1>1. s \in Seq(S \cup {x}) /\ x \in S \cup {x}
  OBVIOUS
<1> QED BY <1>1, AppendProperties

LEMMA SameShape ==
  ASSUME NEW p, NEW field_capacity \in Nat, NEW mms_capacity \in Nat,
         CallShape(p, field_capacity, mms_capacity),
         NEW q, IsCall(q), q.field_capacity = p.field_capacity, q.fields = p.fields,
         q.mms = p.mms, q.mms_cnt = p.mms_cnt, \E S : q.frames \in Seq(S)
  PROVE  CallShape(q, field_capacity, mms_capacity)
BY Zenon DEF CallShape, SlotsFromTheEnd

LEMMA FieldStepShape ==
  ASSUME NEW p, NEW field_capacity \in Nat, NEW mms_capacity \in Nat,
         CallShape(p, field_capacity, mms_capacity), p.frames = <<>>, p.status = "PARSING"
  PROVE  /\ CallShape(FieldStep(p), field_capacity, mms_capacity)
         /\ FieldStep(p).sums = "EXACT" => p.sums = "EXACT"
         /\ FieldStep(p).status = "PARSING" => Left(FieldStep(p)) < Left(p)
<1> DEFINE tlv == BerNextTlv(p.buf, p.inner, p.inner_len, 0)
           id == IF tlv.tag.class = 2 THEN GooseField(tlv.tag.number) ELSE UnknownField
           field == [id |-> id, tag_octet |-> tlv.tag.octet,
                     value |-> tlv.value, value_len |-> tlv.value_len]
           frames == IF id = AllData THEN <<Frame(tlv.value, tlv.value_len, -1)>> ELSE <<>>
           inner == p.inner + tlv.tlv_len
           inner_len == (p.inner_len - tlv.tlv_len) % SizeWord
           q == FieldStep(p)
<1>0. /\ IsCall(p) /\ p.field_capacity = field_capacity /\ \E S : p.frames \in Seq(S)
      /\ Len(p.fields) <= field_capacity /\ SlotsFromTheEnd(p, mms_capacity)
      /\ \E S : p.fields \in Seq(S)
      /\ \E S : p.mms \in Seq(S)
  BY DEF CallShape
<1>1. ASSUME NEW status, NEW count, status # "PARSING",
             \/ q = [p EXCEPT !.status = status, !.field_count = count]
             \/ q = [p EXCEPT !.status = status]
      PROVE  /\ CallShape(q, field_capacity, mms_capacity)
             /\ q.sums = p.sums /\ q.status # "PARSING"
  <2> HIDE DEF q
  <2>1. /\ IsCall(q) /\ q.field_capacity = p.field_capacity /\ q.fields = p.fields
        /\ q.mms = p.mms /\ q.mms_cnt = p.mms_cnt /\ q.frames = p.frames
        /\ q.sums = p.sums /\ q.status = status
    BY <1>0, <1>1 DEF IsCall
  <2>2. \E S : q.frames \in Seq(S)
    BY <1>0, <2>1
  <2> QED BY <1>1, <2>1, <2>2, SameShape
<1>2. CASE p.inner_len = 0 \/ ~ tlv.ok
  <2>1. q = [p EXCEPT !.status = "OK", !.field_count = Len(p.fields)]
    BY <1>2 DEF FieldStep
  <2> HIDE DEF q
  <2> QED BY <1>1, <2>1 DEF q
<1>3. CASE p.inner_len # 0 /\ tlv.ok /\ Len(p.fields) >= p.field_capacity
  <2>1. q = [p EXCEPT !.status = "ERR_TOO_MANY_FIELDS"]
    BY <1>3 DEF FieldStep, Returns
  <2> HIDE DEF q
  <2> QED BY <1>1, <2>1 DEF q
<1>4. CASE p.inner_len # 0 /\ tlv.ok /\ ~ (Len(p.fields) >= p.field_capacity)
  <2>1. q = [p EXCEPT !.inner = inner, !.inner_len = inner_len,
                      !.fields = Append(p.fields, field), !.frames = frames,
                      !.sums = Sums(tlv, p.sums)]
    BY <1>4 DEF FieldStep
  <2>2. (\E S : frames \in Seq(S)) /\ Len(frames) \in {0, 1}
    <3> HIDE DEF id
    <3>1. CASE id = AllData
      <4> DEFINE f == Frame(tlv.value, tlv.value_len, -1)
      <4>1. frames = <<f>>
        BY <3>1
      <4> HIDE DEF f, frames
      <4>2. <<f>> \in Seq({f}) /\ Len(<<f>>) = 1
        OBVIOUS
      <4> QED BY <4>1, <4>2
    <3>2. CASE id # AllData
      <4>1. frames = <<>> /\ <<>> \in Seq({}) /\ Len(<<>>) = 0
        BY <3>2
      <4> QED BY <4>1
    <3> QED BY <3>1, <3>2
  <2> HIDE DEF tlv, id, field, frames, inner, inner_len, q
  <2>3. /\ IsCall(q) /\ q.field_capacity = p.field_capacity
        /\ q.fields = Append(p.fields, field) /\ q.mms = p.mms /\ q.mms_cnt = p.mms_cnt
        /\ q.frames = frames /\ q.sums = Sums(tlv, p.sums)
    BY <1>0, <2>1 DEF IsCall
  <2>4. PICK S : p.fields \in Seq(S)
    BY <1>0
  <2>5. /\ q.fields \in Seq(S \cup {field}) /\ Len(p.fields) \in Nat
        /\ Len(q.fields) = Len(p.fields) + 1
    BY <2>3, <2>4, AppendAny
  <2>6. Len(q.fields) <= field_capacity
    BY <1>0, <1>4, <2>5
  <2>7. SlotsFromTheEnd(q, mms_capacity)
    BY <1>0, <2>3 DEF SlotsFromTheEnd
  <2>8. CallShape(q, field_capacity, mms_capacity)
    <3>1. \E T : q.fields \in Seq(T)
      BY <2>5
    <3>2. \E T : q.mms \in Seq(T)
      BY <1>0, <2>3
    <3>3. \E T : q.frames \in Seq(T)
      BY <2>2, <2>3
    <3>4. q.field_capacity = field_capacity
      BY <1>0, <2>3
    <3> QED BY <2>3, <2>6, <2>7, <3>1, <3>2, <3>3, <3>4 DEF CallShape
  <2>9. Left(q) < Left(p)
    <3>1. p.mms_cnt \in Int
      <4>1. PICK T : p.mms \in Seq(T)
        BY <1>0
      <4> QED BY <1>0, <4>1 DEF SlotsFromTheEnd
    <3>2. Len(p.frames) = 0 /\ Len(q.frames) \in {0, 1}
      BY <2>2, <2>3
    <3> DEFINE a == Len(p.fields)  c == p.mms_cnt  f == Len(q.frames)
    <3>3. /\ Left(q) = 2 * (field_capacity - (a + 1)) + 2 * c + f
          /\ Left(p) = 2 * (field_capacity - a) + 2 * c + 0
      BY <1>0, <2>3, <2>5, <3>2 DEF Left
    <3>4. a \in Nat /\ c \in Int /\ f \in {0, 1}
      BY <2>5, <3>1, <3>2
    <3> HIDE DEF a, c, f
    <3> QED BY ONLY <3>3, <3>4, field_capacity \in Nat
  <2>10. q.sums = "EXACT" => p.sums = "EXACT"
    BY <2>3 DEF Sums
  <2> QED BY <2>8, <2>9, <2>10 DEF q
<1>5. QED BY <1>2, <1>3, <1>4

LEMMA MmsStepShape ==
  ASSUME NEW p, NEW field_capacity \in Nat, NEW mms_capacity \in Nat,
         CallShape(p, field_capacity, mms_capacity), p.frames # <<>>, p.status = "PARSING"
  PROVE  /\ CallShape(MmsStep(p), field_capacity, mms_capacity)
         /\ MmsStep(p).sums = "EXACT" => p.sums = "EXACT"
         /\ MmsStep(p).status = "PARSING" => Left(MmsStep(p)) < Left(p)
<1> DEFINE n == Len(p.frames)
           top == p.frames[n]
           tlv == BerNextTlv(p.buf, top.from, top.len, top.off)
           e == [index |-> p.mms_cnt - 1, depth |-> n - 1, parent_index |-> top.parent,
                 type |-> MmsType(tlv.tag.octet), tag_octet |-> tlv.tag.octet,
                 value |-> tlv.value, value_len |-> tlv.value_len]
           new == [top EXCEPT !.before = top.off, !.off = tlv.next]
           moved == [p.frames EXCEPT ![n] = new]
           child == Frame(tlv.value, tlv.value_len, p.mms_cnt - 1)
           frames == IF tlv.tag.constructed THEN Append(moved, child) ELSE moved
           q == MmsStep(p)
<1>0. /\ IsCall(p) /\ p.field_capacity = field_capacity /\ \E S : p.frames \in Seq(S)
      /\ Len(p.fields) <= field_capacity /\ SlotsFromTheEnd(p, mms_capacity)
      /\ \E S : p.fields \in Seq(S)
      /\ \E S : p.mms \in Seq(S)
  BY DEF CallShape
<1>1. /\ Len(p.fields) \in Nat /\ Len(p.mms) \in Nat /\ n \in Nat /\ n >= 1
      /\ p.mms_cnt \in Nat /\ p.mms_cnt = mms_capacity - Len(p.mms)
  <2>1. PICK S : p.frames \in Seq(S)
    BY <1>0
  <2>2. n \in Nat /\ n >= 1
    BY <2>1, EmptySeq
  <2>3. Len(p.fields) \in Nat
    BY <1>0
  <2>4. Len(p.mms) \in Nat
    BY <1>0
  <2> QED BY <1>0, <2>2, <2>3, <2>4 DEF SlotsFromTheEnd
<1>2. ASSUME NEW status, status # "PARSING", q = [p EXCEPT !.status = status]
      PROVE  /\ CallShape(q, field_capacity, mms_capacity)
             /\ q.sums = p.sums /\ q.status # "PARSING"
  <2> HIDE DEF q
  <2>1. /\ IsCall(q) /\ q.field_capacity = p.field_capacity /\ q.fields = p.fields
        /\ q.mms = p.mms /\ q.mms_cnt = p.mms_cnt /\ q.frames = p.frames
        /\ q.sums = p.sums /\ q.status = status
    BY <1>0, <1>2 DEF IsCall
  <2>2. \E S : q.frames \in Seq(S)
    BY <1>0, <2>1
  <2> QED BY <1>2, <2>1, <2>2, SameShape
<1>3. CASE top.before = top.off
  <2>1. q = [p EXCEPT !.status = "ERR_BER"]
    BY <1>3 DEF MmsStep, Returns
  <2> HIDE DEF q
  <2> QED BY <1>2, <2>1 DEF q
<1>4. CASE top.before # top.off /\ top.off >= top.len
  <2>1. q = [p EXCEPT !.frames = Front(p.frames)]
    BY <1>4 DEF MmsStep
  <2> HIDE DEF q
  <2>2. /\ IsCall(q) /\ q.field_capacity = p.field_capacity /\ q.fields = p.fields
        /\ q.mms = p.mms /\ q.mms_cnt = p.mms_cnt /\ q.frames = Front(p.frames)
        /\ q.sums = p.sums
    BY <1>0, <2>1 DEF IsCall
  <2>3. PICK S : p.frames \in Seq(S)
    BY <1>0
  <2>4. q.frames \in Seq(S) /\ Len(q.frames) = n - 1
    BY <2>2, <2>3, FrontFacts
  <2>5. \E T : q.frames \in Seq(T)
    BY <2>4
  <2>6. CallShape(q, field_capacity, mms_capacity)
    BY <2>2, <2>5, SameShape
  <2>7. Left(q) < Left(p)
    <3> DEFINE a == Len(p.fields)  c == p.mms_cnt
    <3>1. Left(q) = 2 * (field_capacity - a) + 2 * c + (n - 1)
      BY <1>0, <2>2, <2>4 DEF Left
    <3>2. Left(p) = 2 * (field_capacity - a) + 2 * c + n
      BY <1>0 DEF Left
    <3>3. a \in Nat /\ c \in Nat /\ n \in Nat
      BY <1>1
    <3> HIDE DEF a, c, n
    <3> QED BY ONLY <3>1, <3>2, <3>3, field_capacity \in Nat
  <2> QED BY <2>2, <2>6, <2>7 DEF q
<1>5. CASE top.before # top.off /\ ~ (top.off >= top.len) /\ ~ tlv.ok
  <2>1. q = [p EXCEPT !.status = "ERR_BER"]
    BY <1>5 DEF MmsStep, Returns
  <2> HIDE DEF q
  <2> QED BY <1>2, <2>1 DEF q
<1>6. CASE top.before # top.off /\ ~ (top.off >= top.len) /\ tlv.ok /\ p.mms_cnt = 0
  <2>1. q = [p EXCEPT !.status = "ERR_TOO_MANY_MMS"]
    BY <1>6 DEF MmsStep, Returns
  <2> HIDE DEF q
  <2> QED BY <1>2, <2>1 DEF q
<1>7. CASE top.before # top.off /\ ~ (top.off >= top.len) /\ tlv.ok /\ p.mms_cnt # 0
  <2>1. q = [p EXCEPT !.mms = Append(p.mms, e), !.mms_cnt = p.mms_cnt - 1,
                      !.frames = frames, !.sums = Sums(tlv, p.sums)]
    <3>1. n \in DOMAIN p.frames
      BY <1>0, <1>1
    <3>2. moved = [p.frames EXCEPT ![n] = [@ EXCEPT !.before = top.off, !.off = tlv.next]]
      BY <3>1
    <3>3. q = [p EXCEPT !.mms = Append(p.mms, e), !.mms_cnt = p.mms_cnt - 1,
                 !.frames = IF tlv.tag.constructed
                            THEN Append([p.frames EXCEPT ![n] =
                                           [@ EXCEPT !.before = top.off, !.off = tlv.next]], child)
                            ELSE [p.frames EXCEPT ![n] =
                                    [@ EXCEPT !.before = top.off, !.off = tlv.next]],
                 !.sums = Sums(tlv, p.sums)]
      BY <1>7 DEF MmsStep
    <3> HIDE DEF q, moved, e, tlv, child, n, top
    <3> QED BY <3>2, <3>3
  <2>2. e.index = p.mms_cnt - 1
    OBVIOUS
  <2> HIDE DEF q, e
  <2>3. /\ IsCall(q) /\ q.field_capacity = p.field_capacity /\ q.fields = p.fields
        /\ q.mms = Append(p.mms, e) /\ q.mms_cnt = p.mms_cnt - 1
        /\ q.frames = frames /\ q.sums = Sums(tlv, p.sums)
    <3> HIDE DEF frames, tlv
    <3> QED BY <1>0, <2>1 DEF IsCall
  <2>4. (\E T : q.frames \in Seq(T)) /\ Len(q.frames) \in {n, n + 1}
    <3>1. PICK S : p.frames \in Seq(S)
      BY <1>0
    <3> HIDE DEF new, n, child
    <3>2. moved \in Seq(S \cup {new}) /\ Len(moved) = n
      <4>1. p.frames \in Seq(S \cup {new})
        BY <3>1
      <4> QED BY <1>1, <4>1 DEF n
    <3> HIDE DEF moved, tlv
    <3>3. /\ Append(moved, child) \in Seq((S \cup {new}) \cup {child})
          /\ Len(Append(moved, child)) = n + 1
      BY <3>2, AppendAny
    <3>4. q.frames = moved \/ q.frames = Append(moved, child)
      BY <2>3
    <3> QED BY <3>2, <3>3, <3>4
  <2>5. PICK S : p.mms \in Seq(S)
    BY <1>0
  <2>6. /\ q.mms \in Seq(S \cup {e}) /\ Len(q.mms) = Len(p.mms) + 1
        /\ \A i \in 1 .. Len(p.mms) : q.mms[i] = p.mms[i]
        /\ q.mms[Len(p.mms) + 1] = e
    BY <2>3, <2>5, AppendAny
  <2> HIDE DEF n, frames, tlv
  <2>7. SlotsFromTheEnd(q, mms_capacity)
    <3>1. q.mms_cnt = mms_capacity - Len(q.mms) /\ q.mms_cnt >= 0
      BY <1>1, <1>7, <2>3, <2>6
    <3>2. \A k \in 1 .. Len(p.mms) : p.mms[k].index = mms_capacity - k
      BY <1>0 DEF SlotsFromTheEnd
    <3>3. ASSUME NEW k \in 1 .. Len(q.mms) PROVE q.mms[k].index = mms_capacity - k
      <4>1. CASE k \in 1 .. Len(p.mms)
        BY <2>6, <3>2, <4>1
      <4>2. CASE k = Len(p.mms) + 1
        <5>1. q.mms[k].index = p.mms_cnt - 1
          BY <2>2, <2>6, <4>2
        <5> QED BY <1>1, <4>2, <5>1
      <4> QED BY <1>1, <2>6, <4>1, <4>2
    <3> QED BY <3>1, <3>3 DEF SlotsFromTheEnd
  <2>8. CallShape(q, field_capacity, mms_capacity)
    <3>1. \E T : q.mms \in Seq(T)
      BY <2>6
    <3>2. (\E T : q.fields \in Seq(T)) /\ Len(q.fields) <= field_capacity
          /\ q.field_capacity = field_capacity
      BY <1>0, <2>3
    <3> QED BY <2>3, <2>4, <2>7, <3>1, <3>2 DEF CallShape
  <2>9. Left(q) < Left(p)
    <3> DEFINE a == Len(p.fields)  c == p.mms_cnt  f == Len(q.frames)
    <3>1. Left(q) = 2 * (field_capacity - a) + 2 * (c - 1) + f
      BY <1>0, <2>3 DEF Left
    <3>2. Left(p) = 2 * (field_capacity - a) + 2 * c + n
      BY <1>0 DEF Left, n
    <3>3. a \in Nat /\ c \in Nat /\ n \in Nat /\ f \in {n, n + 1}
      BY <1>1, <2>4
    <3> HIDE DEF a, c, f
    <3> QED BY ONLY <3>1, <3>2, <3>3, field_capacity \in Nat
  <2>10. q.sums = "EXACT" => p.sums = "EXACT"
    BY <2>3 DEF Sums
  <2> QED BY <2>8, <2>9, <2>10 DEF q
<1>8. QED BY <1>3, <1>4, <1>5, <1>6, <1>7

LEMMA GooseStepShape ==
  ASSUME NEW p, NEW field_capacity \in Nat, NEW mms_capacity \in Nat,
         CallShape(p, field_capacity, mms_capacity)
  PROVE  /\ CallShape(GooseStep(p), field_capacity, mms_capacity)
         /\ GooseStep(p).sums = "EXACT" => p.sums = "EXACT"
         /\ GooseStep(p).status = "PARSING" => p.status = "PARSING" /\ Left(GooseStep(p)) < Left(p)
<1>1. p.status # "PARSING" => GooseStep(p) = p
  BY DEF GooseStep
<1>2. p.status = "PARSING" /\ p.frames = <<>> => GooseStep(p) = FieldStep(p)
  BY DEF GooseStep
<1>3. p.status = "PARSING" /\ p.frames # <<>> => GooseStep(p) = MmsStep(p)
  BY DEF GooseStep
<1>4. QED BY <1>1, <1>2, <1>3, FieldStepShape, MmsStepShape

LEMMA LeftIsNatural ==
  ASSUME NEW p, NEW field_capacity \in Nat, NEW mms_capacity \in Nat,
         CallShape(p, field_capacity, mms_capacity)
  PROVE  Left(p) \in Nat
<1>1. Len(p.fields) \in Nat
  BY DEF CallShape
<1>2. Len(p.mms) \in Nat
  BY DEF CallShape
<1>3. Len(p.frames) \in Nat
  BY DEF CallShape
<1>4. p.mms_cnt \in Nat /\ p.field_capacity = field_capacity /\ Len(p.fields) <= field_capacity
  BY <1>2 DEF CallShape, SlotsFromTheEnd
<1> DEFINE a == Len(p.fields)  c == p.mms_cnt  f == Len(p.frames)
<1>5. Left(p) = 2 * (field_capacity - a) + 2 * c + f
  BY <1>4 DEF Left
<1>6. a \in Nat /\ c \in Nat /\ f \in Nat /\ a <= field_capacity
  BY <1>1, <1>3, <1>4
<1> HIDE DEF a, c, f
<1> QED BY ONLY <1>5, <1>6, field_capacity \in Nat

LEMMA CallShapes ==
  ASSUME NEW buf, NEW pdu, NEW len, NEW field_capacity \in Nat, NEW mms_capacity \in Nat,
         NEW call, IsParse(call, buf, pdu, len, field_capacity, mms_capacity)
  PROVE  \A n \in Nat :
           /\ CallShape(call[n], field_capacity, mms_capacity)
           /\ call[n].status = "PARSING" =>
                n + Left(call[n]) <= 2 * (field_capacity + mms_capacity)
<1> DEFINE most == 2 * (field_capacity + mms_capacity)
           S == {n \in Nat : /\ CallShape(call[n], field_capacity, mms_capacity)
                             /\ call[n].status = "PARSING" => n + Left(call[n]) <= most}
<1>0. most \in Nat
  OBVIOUS
<1>1. 0 \in S
  <2>1. CallShape(call[0], field_capacity, mms_capacity) /\ Left(call[0]) = most
    BY StartShape DEF IsParse
  <2> HIDE DEF most
  <2> QED BY <1>0, <2>1
<1> HIDE DEF most
<1>2. ASSUME NEW n \in Nat, n \in S PROVE n + 1 \in S
  <2>1. /\ CallShape(call[n], field_capacity, mms_capacity)
        /\ call[n].status = "PARSING" => n + Left(call[n]) <= most
    BY <1>2
  <2>2. call[n + 1] = GooseStep(call[n])
    BY DEF IsParse
  <2>3. /\ CallShape(call[n + 1], field_capacity, mms_capacity)
        /\ call[n + 1].status = "PARSING" =>
             call[n].status = "PARSING" /\ Left(call[n + 1]) < Left(call[n])
    BY <2>1, <2>2, GooseStepShape
  <2>4. Left(call[n]) \in Nat /\ Left(call[n + 1]) \in Nat
    BY <2>1, <2>3, LeftIsNatural
  <2>5. call[n + 1].status = "PARSING" => (n + 1) + Left(call[n + 1]) <= most
    BY <1>0, <2>1, <2>3, <2>4
  <2> QED BY <2>3, <2>5
<1>3. Nat \subseteq S
  <2> HIDE DEF S
  <2> QED BY <1>1, <1>2, SetInduction
<1>4. QED BY <1>3 DEF most

LEMMA CallInv ==
  ASSUME NEW buf, Readable(buf), NEW pdu \in Nat, NEW len \in Nat, pdu + len <= Len(buf),
         NEW field_capacity \in Nat, NEW mms_capacity \in Nat, NEW call,
         IsParse(call, buf, pdu, len, field_capacity, mms_capacity)
  PROVE  \A n \in Nat : call[n].sums = "EXACT" =>
           /\ ParseInv(call[n], mms_capacity)
           /\ call[n].status = "PARSING" =>
                /\ call[n].buf = buf
                /\ n + Len(call[n].frames) + Len(buf) - Pos(call[n]) <= Len(buf)
<1> DEFINE Bound(n) == /\ call[n].buf = buf
                       /\ n + Len(call[n].frames) + Len(buf) - Pos(call[n]) <= Len(buf)
           Holding(n) == call[n].sums = "EXACT" =>
                           /\ ParseInv(call[n], mms_capacity)
                           /\ call[n].status = "PARSING" => Bound(n)
           S == {n \in Nat : Holding(n)}
<1>1. 0 \in S
  <2> SUFFICES ASSUME call[0].sums = "EXACT"
               PROVE  /\ ParseInv(call[0], mms_capacity)
                      /\ call[0].status = "PARSING" => Bound(0)
    OBVIOUS
  <2>1. call[0] = GooseStart(buf, pdu, len, field_capacity, mms_capacity)
    BY DEF IsParse
  <2>2. ParseInv(call[0], mms_capacity)
    BY <2>1, StartInv
  <2>3. call[0].buf = buf /\ call[0].frames = <<>>
    BY <2>1 DEF GooseStart
  <2>4. Bound(0)
    <3>1. /\ Pos(call[0]) \in Nat /\ Len(buf) \in Nat /\ Len(call[0].frames) = 0
      BY <2>2, <2>3, PosInside
    <3> QED BY <2>3, <3>1
  <2> QED BY <2>2, <2>4
<1>2. ASSUME NEW n \in Nat, n \in S PROVE n + 1 \in S
  <2>0. SUFFICES ASSUME call[n + 1].sums = "EXACT"
                 PROVE  /\ ParseInv(call[n + 1], mms_capacity)
                        /\ call[n + 1].status = "PARSING" => Bound(n + 1)
    <3> HIDE DEF Bound
    <3> QED OBVIOUS
  <2>2. call[n + 1] = GooseStep(call[n])
    BY DEF IsParse
  <2>6. call[n].sums = "EXACT"
    <3>1. CallShape(call[n], field_capacity, mms_capacity)
      BY CallShapes
    <3> QED BY <2>0, <2>2, <3>1, GooseStepShape
  <2>1. ParseInv(call[n], mms_capacity) /\ (call[n].status = "PARSING" => Bound(n))
    <3> HIDE DEF Bound
    <3> QED BY <1>2, <2>6
  <2>3. /\ ParseInv(call[n + 1], mms_capacity)
        /\ call[n + 1].status = "PARSING" => Progress(call[n], call[n + 1])
    BY <2>0, <2>1, <2>2, GooseStepInv
  <2>4. call[n + 1].status = "PARSING" => call[n].status = "PARSING"
    BY <2>2 DEF GooseStep
  <2>5. ASSUME call[n + 1].status = "PARSING" PROVE Bound(n + 1)
    <3> DEFINE a == Pos(call[n])  b == Pos(call[n + 1])
               f == Len(call[n].frames)  g == Len(call[n + 1].frames)
    <3>1. /\ a \in Nat /\ b \in Nat /\ f \in Nat /\ g \in Nat
      BY <2>1, <2>3, PosInside
    <3>2. /\ call[n].buf = buf /\ n + f + Len(buf) - a <= Len(buf)
          /\ call[n + 1].buf = buf /\ a + g < b + f
      BY <2>1, <2>3, <2>4, <2>5 DEF Progress
    <3>3. Len(buf) \in Nat
      BY BufferLength
    <3> HIDE DEF a, b, f, g
    <3>4. (n + 1) + g + Len(buf) - b <= Len(buf)
      BY <3>1, <3>2, <3>3
    <3> QED BY <3>2, <3>4 DEF b, g
  <2> HIDE DEF Bound
  <2> QED BY <2>3, <2>5
<1>3. Nat \subseteq S
  <2> HIDE DEF S
  <2> QED BY <1>1, <1>2, SetInduction
<1> HIDE DEF Bound
<1>4. \A n \in Nat : Holding(n)
  BY <1>3
<1>5. QED BY <1>4 DEF Bound

(* Whatever the bytes are, however far a call of goose_parse_pdu() has      *)
(* come, and wherever the sum of ber_next_tlv() (asn1_ber.c:151) has        *)
(* wrapped: no field and no element has been written outside the caller's   *)
(* arrays, and no slot twice.  And as long as no sum has wrapped in a TLV   *)
(* that was accepted, what has been written is a tree of elements in the    *)
(* order of the PDU, each within its parent, all of it inside the buffer,   *)
(* and no element typed as an Array or a Structure has a child.  (Where one *)
(* has wrapped that is lost, as GooseWrapped of GooseChecks shows.)         *)
THEOREM GooseTreeOfEveryPdu ==
  ASSUME NEW buf, Readable(buf), NEW pdu \in Nat, NEW len \in Nat, pdu + len <= Len(buf),
         NEW field_capacity \in Nat, NEW mms_capacity \in Nat, NEW call,
         IsParse(call, buf, pdu, len, field_capacity, mms_capacity)
  PROVE  \A n \in Nat : /\ Len(call[n].fields) <= field_capacity
                        /\ SlotsFromTheEnd(call[n], mms_capacity)
                        /\ call[n].sums = "EXACT" => /\ ElementsNest(call[n])
                                                     /\ ElementsInOrder(call[n])
                                                     /\ ReferencesInside(call[n])
                                                     /\ TypedAreLeaves(call[n])
<1> TAKE n \in Nat
<1>5. Len(call[n].fields) <= field_capacity /\ SlotsFromTheEnd(call[n], mms_capacity)
  BY CallShapes DEF CallShape
<1>6. SUFFICES ASSUME call[n].sums = "EXACT"
               PROVE  /\ ElementsNest(call[n]) /\ ElementsInOrder(call[n])
                      /\ ReferencesInside(call[n]) /\ TypedAreLeaves(call[n])
  BY <1>5
<1>1. ParseInv(call[n], mms_capacity)
  BY <1>6, CallInv
<1> DEFINE p == call[n]
<1>2. /\ ParseType(p) /\ InnerOk(p) /\ ElementsPlaced(p) /\ ElementsNest(p)
      /\ ElementsInOrder(p) /\ TypedAreLeaves(p)
  BY <1>1 DEF ParseInv
<1> HIDE DEF p
<1>3. ReferencesInside(p)
  <2>1. /\ Readable(p.buf) /\ p.inner \in Nat /\ p.inner_len \in Nat
        /\ p.inner + p.inner_len <= Len(p.buf)
    BY <1>2 DEF ParseType, InnerOk
  <2>2. Len(p.buf) \in Nat
    BY <2>1, BufferLength
  <2>3. p.inner <= Len(p.buf)
    BY <2>1, <2>2
  <2>4. \A k \in 1 .. Len(p.fields) : EndOf(p.fields[k]) \in Nat /\ EndOf(p.fields[k]) <= p.inner
    BY <1>2, PlacesAreNumbers DEF InnerOk
  <2>5. \A k \in 1 .. Len(p.mms) : EndOf(p.mms[k]) \in Nat /\ EndOf(p.mms[k]) <= p.inner
    BY <1>2, PlacesAreNumbers DEF ElementsPlaced
  <2> QED BY <2>1, <2>2, <2>3, <2>4, <2>5 DEF ReferencesInside
<1>4. QED BY <1>2, <1>3 DEF p

(* And the call returns, whatever it reads, even where a sum that wraps     *)
(* takes it back to what it has read (asn1_ber.c:151-163): every step that  *)
(* goes on fills a slot of the caller's or leaves a call of                 *)
(* parse_mms_sequence() that a slot has been filled for, so that it takes   *)
(* no more than twice as many steps as there are slots, and one.            *)
THEOREM GooseParseReturns ==
  ASSUME NEW buf, NEW pdu, NEW len, NEW field_capacity \in Nat, NEW mms_capacity \in Nat,
         NEW call, IsParse(call, buf, pdu, len, field_capacity, mms_capacity)
  PROVE  call[2 * (field_capacity + mms_capacity) + 1].status # "PARSING"
<1> DEFINE most == 2 * (field_capacity + mms_capacity)  n == most + 1
<1>1. most \in Nat /\ n \in Nat
  OBVIOUS
<1>2. SUFFICES ASSUME call[n].status = "PARSING" PROVE FALSE
  OBVIOUS
<1>3. CallShape(call[n], field_capacity, mms_capacity) /\ n + Left(call[n]) <= most
  <2> HIDE DEF n
  <2> QED BY <1>1, <1>2, CallShapes
<1>4. Left(call[n]) \in Nat
  BY <1>3, LeftIsNatural
<1> HIDE DEF most
<1>5. QED BY <1>1, <1>3, <1>4

-----------------------------------------------------------------------------
(* The encoding of the events *)

(* A length that is a word has no more than SizeBytes bytes. *)
MachineWords ==
  /\ SizeBytes \in 1 .. 127 /\ SizeWord \in Nat \ {0} /\ PageWord \in Nat \ {0}
  /\ \A n \in 0 .. SizeWord - 1 : Shifts(n)[SizeBytes] = 0

(* The buffer buf holds piece from the offset o on. *)
Holds(buf, o, piece) ==
  /\ o + Len(piece) <= Len(buf)
  /\ \A i \in 1 .. Len(piece) : buf[o + i] = piece[i]

LEMMA JoinFacts ==
  ASSUME NEW S, NEW a \in Seq(S), NEW b \in Seq(S)
  PROVE  /\ a \o b \in Seq(S) /\ Len(a \o b) = Len(a) + Len(b)
         /\ \A i \in 1 .. Len(a) : (a \o b)[i] = a[i]
         /\ \A i \in 1 .. Len(b) : (a \o b)[Len(a) + i] = b[i]
OBVIOUS

LEMMA HoldsParts ==
  ASSUME NEW buf \in Seq(Byte), NEW o \in Nat, NEW a \in Seq(Byte), NEW b \in Seq(Byte),
         Holds(buf, o, a \o b)
  PROVE  /\ a \o b \in Seq(Byte) /\ Len(a \o b) = Len(a) + Len(b)
         /\ Holds(buf, o, a) /\ Holds(buf, o + Len(a), b)
<1>1. /\ a \o b \in Seq(Byte) /\ Len(a \o b) = Len(a) + Len(b)
      /\ Len(a) \in Nat /\ Len(b) \in Nat /\ Len(buf) \in Nat
  OBVIOUS
<1>2. \A i \in 1 .. Len(a) : (a \o b)[i] = a[i]
  OBVIOUS
<1>3. \A i \in 1 .. Len(b) : (a \o b)[Len(a) + i] = b[i]
  OBVIOUS
<1>4. o + (Len(a) + Len(b)) <= Len(buf) /\ \A i \in 1 .. Len(a) + Len(b) : buf[o + i] = (a \o b)[i]
  BY <1>1 DEF Holds
<1>5. Holds(buf, o, a)
  BY <1>1, <1>2, <1>4 DEF Holds
<1>6. ASSUME NEW i \in 1 .. Len(b) PROVE buf[(o + Len(a)) + i] = b[i]
  <2>1. (o + Len(a)) + i = o + (Len(a) + i) /\ Len(a) + i \in 1 .. Len(a) + Len(b)
    BY <1>1
  <2>2. buf[o + (Len(a) + i)] = (a \o b)[Len(a) + i]
    BY <1>4, <2>1
  <2> QED BY <1>3, <2>1, <2>2
<1>7. Holds(buf, o + Len(a), b)
  BY <1>1, <1>4, <1>6 DEF Holds
<1> QED BY <1>1, <1>5, <1>7

LEMMA HoldsWithin ==
  ASSUME NEW buf \in Seq(Byte), NEW o \in Nat, NEW p \in Seq(Byte), Holds(buf, o, p),
         NEW i \in Nat, NEW q \in Seq(Byte), Holds(p, i, q)
  PROVE  Holds(buf, o + i, q)
<1>1. Len(buf) \in Nat /\ Len(p) \in Nat /\ Len(q) \in Nat
  OBVIOUS
<1>2. i + Len(q) <= Len(p) /\ o + Len(p) <= Len(buf)
  BY DEF Holds
<1>3. ASSUME NEW j \in 1 .. Len(q) PROVE buf[(o + i) + j] = q[j]
  <2>1. (o + i) + j = o + (i + j) /\ i + j \in 1 .. Len(p)
    BY <1>1, <1>2
  <2>2. buf[o + (i + j)] = p[i + j] /\ p[i + j] = q[j]
    BY <2>1 DEF Holds
  <2> QED BY <2>1, <2>2
<1>4. (o + i) + Len(q) <= Len(buf)
  BY <1>1, <1>2
<1> QED BY <1>3, <1>4 DEF Holds

LEMMA HoldsCut ==
  ASSUME NEW buf \in Seq(Byte), NEW o \in Nat, NEW p \in Seq(Byte), Holds(buf, o, p)
  PROVE  SubSeq(buf, o + 1, o + Len(p)) = p
<1>1. Len(p) \in Nat /\ Len(buf) \in Nat /\ o + Len(p) <= Len(buf)
  BY DEF Holds
<1>2. /\ o + Len(p) \in Nat /\ o <= o + Len(p) /\ (o + Len(p)) - o = Len(p)
  BY <1>1
<1> DEFINE s == SubSeq(buf, o + 1, o + Len(p))
<1>3. s \in Seq(Byte) /\ Len(s) = Len(p) /\ \A i \in 1 .. Len(p) : s[i] = buf[o + i]
  BY <1>1, <1>2, Segment
<1>4. \A i \in 1 .. Len(p) : s[i] = p[i]
  BY <1>3 DEF Holds
<1> HIDE DEF s
<1>5. s = p
  BY <1>3, <1>4, SeqEqual
<1> QED BY <1>5 DEF s

(* What is left after k shifts of eight bits. *)
IsShifts(v, n) == v = [k \in 0 .. SizeBytes |-> IF k = 0 THEN n ELSE v[k - 1] \div 256]

LEMMA ShiftsDefined ==
  ASSUME SizeBytes \in Nat, NEW n \in Nat
  PROVE  \E v : IsShifts(v, n)
<1> DEFINE Upto(v, m) == v = [k \in 0 .. m |-> IF k = 0 THEN n ELSE v[k - 1] \div 256]
           S == {m \in Nat : \E v : Upto(v, m)}
<1>1. 0 \in S
  <2>1. Upto([k \in 0 .. 0 |-> n], 0)
    OBVIOUS
  <2> QED BY <2>1
<1>2. ASSUME NEW m \in Nat, m \in S PROVE m + 1 \in S
  <2>1. PICK v : Upto(v, m)
    BY <1>2
  <2> DEFINE w == [k \in 0 .. m + 1 |-> IF k <= m THEN v[k] ELSE v[m] \div 256]
  <2>2. ASSUME NEW k \in 0 .. m + 1 PROVE w[k] = IF k = 0 THEN n ELSE w[k - 1] \div 256
    <3>1. CASE k = 0
      <4>1. v[0] = n BY <2>1
      <4> QED BY <3>1, <4>1
    <3>2. CASE k # 0 /\ k <= m
      <4>1. v[k] = v[k - 1] \div 256 BY <2>1, <3>2
      <4>2. w[k] = v[k] /\ w[k - 1] = v[k - 1] BY <3>2
      <4> QED BY <3>2, <4>1, <4>2
    <3>3. CASE k = m + 1
      <4>1. w[k] = v[m] \div 256 /\ w[k - 1] = v[m] BY <3>3
      <4> QED BY <3>3, <4>1
    <3> QED BY <3>1, <3>2, <3>3
  <2>3. Upto(w, m + 1)
    BY <2>2
  <2> HIDE DEF w, Upto
  <2>4. m + 1 \in Nat
    OBVIOUS
  <2> QED BY <2>3, <2>4
<1>3. SizeBytes \in S
  <2> HIDE DEF S
  <2> QED BY <1>1, <1>2, SetInduction
<1> QED BY <1>3 DEF IsShifts

LEMMA ShiftsFacts ==
  ASSUME SizeBytes \in Nat, NEW n \in Nat
  PROVE  /\ Shifts(n)[0] = n
         /\ \A k \in 1 .. SizeBytes : Shifts(n)[k] = Shifts(n)[k - 1] \div 256
         /\ \A k \in 0 .. SizeBytes : Shifts(n)[k] \in 0 .. n
<1> DEFINE v == CHOOSE w : IsShifts(w, n)
<1>1. IsShifts(v, n)
  BY ShiftsDefined
<1>2. Shifts(n) = v
  BY DEF Shifts, IsShifts
<1> HIDE DEF v
<1>3. v[0] = n /\ \A k \in 1 .. SizeBytes : v[k] = v[k - 1] \div 256
  BY <1>1 DEF IsShifts
<1> DEFINE S == {k \in Nat : k <= SizeBytes => v[k] \in 0 .. n}
<1>4. 0 \in S
  BY <1>3
<1>5. ASSUME NEW k \in Nat, k \in S PROVE k + 1 \in S
  <2>1. SUFFICES ASSUME k + 1 <= SizeBytes PROVE v[k + 1] \in 0 .. n
    OBVIOUS
  <2>2. v[k] \in 0 .. n
    BY <1>5, <2>1
  <2>3. v[k + 1] = v[k] \div 256
    BY <1>3, <2>1
  <2> QED BY <2>2, <2>3
<1>6. Nat \subseteq S
  <2> HIDE DEF S
  <2> QED BY <1>4, <1>5, SetInduction
<1> QED BY <1>2, <1>3, <1>6

(* The bytes that berAppendLength() appends. *)
LongLength(n, c) ==
  /\ c \in 1 .. SizeBytes /\ Shifts(n)[c] = 0
  /\ BerLength(n) = <<128 + c>> \o [i \in 1 .. c |-> Shifts(n)[c - i] % 256]

LEMMA LengthForms ==
  ASSUME MachineWords, NEW n \in 0 .. SizeWord - 1
  PROVE  /\ n < 128 => BerLength(n) = <<n>>
         /\ n >= 128 => \E c \in 1 .. SizeBytes : LongLength(n, c)
<1>1. SizeBytes \in Nat /\ n \in Nat /\ Shifts(n)[SizeBytes] = 0
  BY DEF MachineWords
<1>2. /\ Shifts(n)[0] = n
      /\ \A k \in 0 .. SizeBytes : Shifts(n)[k] \in 0 .. n
  BY <1>1, ShiftsFacts
<1>3. ASSUME n >= 128 PROVE \E c \in 1 .. SizeBytes : LongLength(n, c)
  <2> DEFINE Ends(c) == Shifts(n)[c] = 0 /\ Shifts(n)[c - 1] > 0
             S == {k \in Nat : k <= SizeBytes => Shifts(n)[k] > 0}
  <2>1. \E c \in 1 .. SizeBytes : Ends(c)
    <3>1. SUFFICES ASSUME \A c \in 1 .. SizeBytes : ~Ends(c) PROVE FALSE
      OBVIOUS
    <3>2. 0 \in S
      BY <1>2, <1>3
    <3>3. ASSUME NEW k \in Nat, k \in S PROVE k + 1 \in S
      <4>1. SUFFICES ASSUME k + 1 <= SizeBytes PROVE Shifts(n)[k + 1] > 0
        OBVIOUS
      <4>2. k + 1 \in 1 .. SizeBytes /\ (k + 1) - 1 = k /\ Shifts(n)[k] > 0
        BY <1>1, <3>3, <4>1
      <4>3. Shifts(n)[k + 1] # 0
        BY <3>1, <4>2
      <4>4. Shifts(n)[k + 1] \in 0 .. n
        BY <1>2, <4>2
      <4> QED BY <1>1, <4>3, <4>4
    <3>4. SizeBytes \in S
      <4> HIDE DEF S
      <4> QED BY <1>1, <3>2, <3>3, SetInduction
    <3> QED BY <1>1, <3>4
  <2> DEFINE count == CHOOSE c \in 1 .. SizeBytes : Ends(c)
  <2>2. count \in 1 .. SizeBytes /\ Ends(count)
    BY <2>1
  <2>3. BerLength(n) = <<128 + count>> \o [i \in 1 .. count |-> Shifts(n)[count - i] % 256]
    <3>1. ~(n < 128)
      BY <1>1, <1>3
    <3> QED BY <3>1 DEF BerLength
  <2> HIDE DEF count
  <2> QED BY <2>2, <2>3 DEF LongLength
<1> QED BY <1>1, <1>3 DEF BerLength

LEMMA LongBytes ==
  ASSUME MachineWords, NEW n \in 0 .. SizeWord - 1, NEW c \in Nat, LongLength(n, c)
  PROVE  /\ BerLength(n) \in Seq(Byte) /\ Len(BerLength(n)) = c + 1 /\ BerLength(n)[1] = 128 + c
         /\ \A i \in 1 .. c : BerLength(n)[i + 1] = Shifts(n)[c - i] % 256
<1>1. SizeBytes \in 1 .. 127 /\ c \in 1 .. SizeBytes /\ n \in Nat
  BY DEF MachineWords, LongLength
<1>2. \A k \in 0 .. SizeBytes : Shifts(n)[k] \in Nat
  <2>1. SizeBytes \in Nat BY <1>1
  <2> QED BY <1>1, <2>1, ShiftsFacts
<1> DEFINE s == [i \in 1 .. c |-> Shifts(n)[c - i] % 256]
<1>3. \A i \in 1 .. c : Shifts(n)[c - i] % 256 \in Byte
  <2> SUFFICES ASSUME NEW i \in 1 .. c PROVE Shifts(n)[c - i] % 256 \in Byte
    OBVIOUS
  <2>1. Shifts(n)[c - i] \in Nat
    BY <1>1, <1>2
  <2> QED BY <2>1 DEF Byte
<1>4. s \in Seq(Byte) /\ Len(s) = c /\ \A i \in 1 .. c : s[i] = Shifts(n)[c - i] % 256
  BY <1>1, <1>3
<1>5. <<128 + c>> \in Seq(Byte) /\ Len(<<128 + c>>) = 1 /\ <<128 + c>>[1] = 128 + c
  BY <1>1 DEF Byte
<1>6. BerLength(n) = <<128 + c>> \o s
  BY DEF LongLength
<1> HIDE DEF s
<1> DEFINE h == <<128 + c>>
<1>7. h \o s \in Seq(Byte) /\ Len(h \o s) = 1 + c /\ (h \o s)[1] = h[1]
      /\ \A i \in 1 .. c : (h \o s)[i + 1] = s[i]
  <2>1. h \in Seq(Byte) /\ Len(h) = 1
    BY <1>5
  <2> HIDE DEF h
  <2>2. /\ h \o s \in Seq(Byte) /\ Len(h \o s) = 1 + c
        /\ \A i \in 1 .. 1 : (h \o s)[i] = h[i]
        /\ \A i \in 1 .. c : (h \o s)[1 + i] = s[i]
    <3>1. Len(s) = c /\ s \in Seq(Byte)
      BY <1>4
    <3>2. c \in Nat
      BY <1>1
    <3> QED BY <2>1, <3>1, <3>2, JoinFacts
  <2>3. (h \o s)[1] = h[1]
    BY <2>1, <2>2
  <2>4. ASSUME NEW i \in 1 .. c PROVE (h \o s)[i + 1] = s[i]
    <3>1. i + 1 = 1 + i /\ c \in Nat
      BY <1>1
    <3> QED BY <1>4, <2>1, <2>2, <3>1
  <2> QED BY <2>2, <2>3, <2>4
<1> QED BY <1>1, <1>4, <1>5, <1>6, <1>7

LEMMA LengthBytes ==
  ASSUME MachineWords, NEW n \in 0 .. SizeWord - 1
  PROVE  BerLength(n) \in Seq(Byte) /\ Len(BerLength(n)) >= 1
<1>1. CASE n < 128
  <2>1. <<n>> \in Seq(Byte)
    BY <1>1 DEF Byte
  <2>2. Len(<<n>>) = 1 /\ BerLength(n) = <<n>>
    BY <1>1, LengthForms
  <2> QED BY <2>1, <2>2
<1>2. CASE n >= 128
  <2>1. PICK c \in 1 .. SizeBytes : LongLength(n, c)
    BY <1>2, LengthForms
  <2>2. c \in Nat
    OBVIOUS
  <2> QED BY <2>1, <2>2, LongBytes
<1>3. n < 128 \/ n >= 128
  BY DEF MachineWords
<1> QED BY <1>1, <1>2, <1>3

LEMMA QuotientAndRest == ASSUME NEW x \in Nat PROVE (x \div 256) * 256 + (x % 256) = x
OBVIOUS

(* The bytes that are left of n are put together to n. *)
LEMMA DigitsChosen ==
  ASSUME NEW base \in Nat, NEW word \in Nat \ {0}, NEW n \in Nat, NEW digit,
         \A k \in 1 .. n : digit[k] \in Nat
  PROVE  Digits(CHOOSE v : Digits(v, base, word, digit, n), base, word, digit, n)
<1>1. \E v : Digits(v, base, word, digit, n)
  BY BigEndianDefined
<1> QED BY <1>1, Zenon

LEMMA BytesTogether ==
  ASSUME SizeBytes \in Nat, NEW word \in Nat \ {0}, NEW n \in Nat, n < word,
         NEW c \in Nat, c \in 1 .. SizeBytes, Shifts(n)[c] = 0,
         NEW digit, \A k \in 1 .. c : digit[k] = Shifts(n)[c - k] % 256
  PROVE  BigEndian(256, word, digit, c) = n
<1> DEFINE u == CHOOSE v : Digits(v, 256, word, digit, c)
           s(k) == Shifts(n)[k]
<1>1. /\ s(0) = n /\ \A k \in 1 .. SizeBytes : s(k) = s(k - 1) \div 256
      /\ \A k \in 0 .. SizeBytes : s(k) \in 0 .. n
  BY ShiftsFacts
<1>2. \A k \in 1 .. c : digit[k] \in Nat
  <2> SUFFICES ASSUME NEW k \in 1 .. c PROVE digit[k] \in Nat
    OBVIOUS
  <2>1. s(c - k) \in Nat
    BY <1>1
  <2> QED BY <2>1
<1>3. Digits(u, 256, word, digit, c)
  <2> DEFINE base == 256
  <2>1. base \in Nat
    OBVIOUS
  <2> HIDE DEF base
  <2>2. Digits(CHOOSE v : Digits(v, base, word, digit, c), base, word, digit, c)
    BY <1>2, <2>1, DigitsChosen
  <2> QED BY <2>2 DEF base
<1>4. BigEndian(256, word, digit, c) = u[c]
  BY DEF BigEndian, Digits
<1> HIDE DEF u
<1>5. u[0] = 0 /\ \A k \in 1 .. c : u[k] = (u[k - 1] * 256 + digit[k]) % word
  BY <1>3 DEF Digits
<1> DEFINE S == {k \in Nat : k <= c => u[k] = s(c - k)}
<1>6. 0 \in S
  BY <1>5
<1>7. ASSUME NEW k \in Nat, k \in S PROVE k + 1 \in S
  <2>1. SUFFICES ASSUME k + 1 <= c PROVE u[k + 1] = s(c - (k + 1))
    OBVIOUS
  <2> DEFINE x == s(c - (k + 1))
  <2>2. x \in Nat /\ x < word
    BY <1>1, <2>1
  <2>3. digit[k + 1] = x % 256
    BY <2>1
  <2>4. s(c - k) = x \div 256
    <3>1. c - k \in 1 .. SizeBytes /\ (c - k) - 1 = c - (k + 1)
      BY <2>1
    <3> QED BY <1>1, <3>1
  <2>5. u[k] = x \div 256
    BY <1>7, <2>1, <2>4
  <2>6. u[k + 1] = ((x \div 256) * 256 + (x % 256)) % word
    <3>1. k + 1 \in 1 .. c /\ (k + 1) - 1 = k
      BY <2>1
    <3>2. u[k + 1] = (u[(k + 1) - 1] * 256 + digit[k + 1]) % word
      BY <1>5, <3>1
    <3> HIDE DEF x
    <3> QED BY <2>3, <2>5, <3>1, <3>2
  <2> HIDE DEF x
  <2>7. (x \div 256) * 256 + (x % 256) = x
    BY <2>2, QuotientAndRest
  <2>8. x % word = x
    BY <2>2, SmallMod
  <2> QED BY <2>6, <2>7, <2>8 DEF x
<1>8. c \in S
  <2> HIDE DEF S
  <2> QED BY <1>6, <1>7, SetInduction
<1>9. u[c] = s(0)
  BY <1>8
<1> QED BY <1>1, <1>4, <1>9

(* A length is read back as it was appended, and the reader is behind it. *)
LEMMA LengthReadBack ==
  ASSUME MachineWords, NEW n \in 0 .. SizeWord - 1, NEW word \in Nat \ {0}, n < word,
         NEW buf \in Seq(Byte), NEW o \in Nat, Holds(buf, o, BerLength(n))
  PROVE  ReadLength(word, buf, o) =
           [ok |-> TRUE, length |-> n, next |-> o + Len(BerLength(n))]
<1> DEFINE b == BerLength(n)
<1>1. /\ Len(b) \in Nat /\ Len(b) >= 1 /\ Len(buf) \in Nat /\ n \in Nat
      /\ o + Len(b) <= Len(buf) /\ o < Len(buf) /\ buf[o + 1] = b[1]
  BY LengthBytes DEF Holds, MachineWords
<1>2. At(buf, o) = b[1]
  BY <1>1 DEF At
<1>3. CASE n < 128
  <2>1. b = <<n>>
    BY <1>3, LengthForms
  <2>2. b[1] = n /\ Len(b) = 1
    BY <2>1
  <2> HIDE DEF b
  <2> QED BY <1>1, <1>2, <1>3, <2>2 DEF ReadLength, b
<1>4. CASE n >= 128
  <2>1. PICK c \in 1 .. SizeBytes : LongLength(n, c)
    BY <1>4, LengthForms
  <2>2. c \in Nat /\ c > 0 /\ SizeBytes \in Nat /\ Shifts(n)[c] = 0
    BY <2>1 DEF LongLength, MachineWords
  <2>3. /\ Len(b) = c + 1 /\ b[1] = 128 + c
        /\ \A i \in 1 .. c : b[i + 1] = Shifts(n)[c - i] % 256
    BY <2>1, <2>2, LongBytes
  <2> DEFINE digit == [k \in 1 .. c |-> At(buf, o + k)]
  <2>4. \A k \in 1 .. c : digit[k] = Shifts(n)[c - k] % 256
    <3> SUFFICES ASSUME NEW k \in 1 .. c PROVE At(buf, o + k) = Shifts(n)[c - k] % 256
      OBVIOUS
    <3>1. At(buf, o + k) = buf[o + (k + 1)] /\ k + 1 \in 1 .. Len(b)
      BY <2>2, <2>3 DEF At
    <3>2. buf[o + (k + 1)] = b[k + 1]
      BY <3>1 DEF Holds
    <3> QED BY <2>3, <3>1, <3>2
  <2>5. BigEndian(256, word, digit, c) = n
    <3> HIDE DEF digit
    <3> QED BY <1>1, <2>2, <2>4, BytesTogether
  <2>6. ReadLength(word, buf, o) = [ok |-> TRUE, next |-> o + 1 + c,
                                    length |-> BigEndian(256, word, digit, c)]
    <3>1. At(buf, o) = 128 + c /\ (128 + c) - 128 = c /\ ~(128 + c < 128) /\ c # 0
      BY <1>2, <2>2, <2>3
    <3>2. ~(o >= Len(buf)) /\ ~(o + c >= Len(buf))
      BY <1>1, <2>2, <2>3
    <3> QED BY <3>1, <3>2 DEF ReadLength
  <2>7. o + 1 + c = o + Len(b)
    BY <2>2, <2>3
  <2> HIDE DEF b, digit
  <2> QED BY <2>5, <2>6, <2>7 DEF b
<1> QED BY <1>1, <1>3, <1>4

(* Where the value begins in a TLV that is at o. *)
ValueAt(o, value) == o + 1 + Len(BerLength(Len(value)))

LEMMA TlvBytes ==
  ASSUME MachineWords, NEW tag \in Byte, NEW value \in Seq(Byte), Len(value) < SizeWord
  PROVE  /\ BerTlv(tag, value) \in Seq(Byte)
         /\ Len(BerTlv(tag, value)) = 1 + Len(BerLength(Len(value))) + Len(value)
         /\ BerTlv(tag, value) = <<tag>> \o BerLength(Len(value)) \o value
         /\ <<tag>> \o BerLength(Len(value)) \in Seq(Byte)
         /\ BerLength(Len(value)) \in Seq(Byte)
<1>1. Len(value) \in 0 .. SizeWord - 1
  BY DEF MachineWords
<1> DEFINE l == BerLength(Len(value))
<1>2. l \in Seq(Byte)
  BY <1>1, LengthBytes
<1>3. BerTlv(tag, value) = <<tag>> \o l \o value
  BY DEF BerTlv
<1>4. <<tag>> \in Seq(Byte) /\ Len(<<tag>>) = 1
  OBVIOUS
<1> HIDE DEF l
<1>5. <<tag>> \o l \in Seq(Byte) /\ Len(<<tag>> \o l) = 1 + Len(l)
  BY <1>2, <1>4, JoinFacts
<1>6. (<<tag>> \o l) \o value \in Seq(Byte) /\ Len((<<tag>> \o l) \o value) = 1 + Len(l) + Len(value)
  BY <1>5, JoinFacts
<1> QED BY <1>2, <1>3, <1>5, <1>6 DEF l

LEMMA TlvHeld ==
  ASSUME MachineWords, NEW tag \in Byte, NEW value \in Seq(Byte), Len(value) < SizeWord,
         NEW buf \in Seq(Byte), NEW o \in Nat, Holds(buf, o, BerTlv(tag, value))
  PROVE  /\ o < Len(buf) /\ buf[o + 1] = tag
         /\ Holds(buf, o + 1, BerLength(Len(value)))
         /\ Holds(buf, ValueAt(o, value), value)
<1> DEFINE l == BerLength(Len(value))  h == <<tag>>
<1>1. h \in Seq(Byte) /\ Len(h) = 1 /\ h[1] = tag
  OBVIOUS
<1>2. l \in Seq(Byte) /\ h \o l \in Seq(Byte) /\ BerTlv(tag, value) = (h \o l) \o value
  BY TlvBytes
<1>3. Holds(buf, o, (h \o l) \o value)
  BY <1>2
<1> HIDE DEF l, h
<1>4. /\ Len(h \o l) = Len(h) + Len(l) /\ Holds(buf, o, h \o l) /\ Holds(buf, o + Len(h \o l), value)
  <2>1. Holds(buf, o, h \o l) /\ Holds(buf, o + Len(h \o l), value)
    BY <1>2, <1>3, HoldsParts
  <2>2. Len(h \o l) = Len(h) + Len(l)
    BY <1>1, <1>2, JoinFacts
  <2> QED BY <2>1, <2>2
<1>5. Holds(buf, o, h) /\ Holds(buf, o + Len(h), l)
  BY <1>1, <1>2, <1>4, HoldsParts
<1>6. o < Len(buf) /\ buf[o + 1] = tag
  BY <1>1, <1>5 DEF Holds
<1>7. o + Len(h \o l) = ValueAt(o, value) /\ o + Len(h) = o + 1
  <2>1. Len(l) \in Nat
    BY <1>2
  <2> QED BY <1>1, <1>4, <2>1 DEF ValueAt, l
<1> QED BY <1>4, <1>5, <1>6, <1>7 DEF l

(* What becomes of the bytes of a string: the page shows the text that its *)
(* TextDecoder makes of them.                                              *)
Shown(page, text) == IF page THEN TextDecode(text) ELSE text
ShownRecord(page, rec) == [x \in Fields |-> Shown(page, rec[x])]

(* Both readers find a TLV where the encoder put it. *)
LEMMA TlvReadBack ==
  ASSUME MachineWords, NEW tag \in Byte, NEW value \in Seq(Byte), Len(value) < SizeWord,
         NEW buf \in Seq(Byte), Len(buf) < SizeWord,
         NEW o \in Nat, Holds(buf, o, BerTlv(tag, value)),
         NEW d, d.buffer = buf, d.page => 2 * Len(buf) < PageWord
  PROVE  /\ Tlv(d, o) = [ok |-> TRUE, tag |-> tag, start |-> ValueAt(o, value),
                         end |-> ValueAt(o, value) + Len(value)]
         /\ FieldText(d, Tlv(d, o)) = Shown(d.page, value)
         /\ ValueAt(o, value) \in Nat /\ ValueAt(o, value) > o
         /\ ValueAt(o, value) + Len(value) = o + Len(BerTlv(tag, value))
         /\ Holds(buf, ValueAt(o, value), value)
<1> DEFINE s == ValueAt(o, value)  n == Len(value)  l == Len(BerLength(n))  e == s + n
<1>1. /\ o < Len(buf) /\ buf[o + 1] = tag
      /\ Holds(buf, o + 1, BerLength(n)) /\ Holds(buf, s, value)
  BY TlvHeld
<1>2. n \in Nat /\ n < SizeWord /\ n \in 0 .. SizeWord - 1 /\ SizeWord \in Nat \ {0} /\ PageWord \in Nat \ {0}
  BY DEF MachineWords
<1>3. l \in Nat /\ l >= 1 /\ Len(buf) \in Nat
  BY <1>2, LengthBytes
<1>4. s \in Nat /\ s > o /\ e \in Nat /\ e <= Len(buf) /\ s <= e /\ n <= Len(buf) /\ s = (o + 1) + l
      /\ o + 1 < Len(buf)
  <2>1. s = o + 1 + l
    BY DEF ValueAt
  <2>2. s + n <= Len(buf)
    BY <1>1 DEF Holds
  <2> HIDE DEF s, n, l
  <2> QED BY <1>2, <1>3, <2>1, <2>2
<1>5. s + n = o + Len(BerTlv(tag, value))
  <2>1. Len(BerTlv(tag, value)) = 1 + l + n /\ s = o + 1 + l
    BY TlvBytes DEF ValueAt
  <2> HIDE DEF s, n, l
  <2> QED BY <1>2, <1>3, <2>1
<1>6. At(buf, o) = tag
  BY <1>1 DEF At
<1>7. ASSUME NEW word \in Nat \ {0}, n < word
      PROVE  ReadLength(word, buf, o + 1) = [ok |-> TRUE, length |-> n, next |-> s]
  <2>1. ReadLength(word, buf, o + 1) = [ok |-> TRUE, length |-> n, next |-> (o + 1) + l]
    <3>1. o + 1 \in Nat
      OBVIOUS
    <3> HIDE DEF n
    <3> QED BY <1>1, <1>2, <1>7, <3>1, LengthReadBack
  <2> QED BY <1>4, <2>1
<1> DEFINE t == [ok |-> TRUE, tag |-> tag, start |-> s, end |-> e]
<1>8. SubSeq(buf, s + 1, e) = value
  BY <1>1, <1>4, HoldsCut
<1>9. CASE ~d.page
  <2>1. ReadLength(SizeWord, buf, o + 1) = [ok |-> TRUE, length |-> n, next |-> s]
    BY <1>2, <1>7
  <2>2. (s + n) % SizeWord = e
    <3>1. e < SizeWord
      <4> HIDE DEF e
      <4> QED BY <1>2, <1>3, <1>4
    <3> QED BY <1>2, <1>4, <3>1, SmallMod
  <2>3. ReadTlv(buf, o) = t
    <3> DEFINE r == ReadLength(SizeWord, buf, o + 1)
    <3>1. r.ok = TRUE /\ r.next = s /\ (r.next + r.length) % SizeWord = e
      BY <2>1, <2>2
    <3>2. ~(o >= Len(buf)) /\ ~(e > Len(buf))
      BY <1>1, <1>3, <1>4
    <3>3. ReadTlv(buf, o) =
            IF o >= Len(buf) THEN Failed
            ELSE IF ~r.ok THEN Failed
            ELSE IF (r.next + r.length) % SizeWord > Len(buf) THEN Failed
            ELSE [ok |-> TRUE, tag |-> At(buf, o), start |-> r.next,
                  end |-> (r.next + r.length) % SizeWord]
      BY DEF ReadTlv
    <3> HIDE DEF s, n, e, r
    <3> QED BY <1>6, <3>1, <3>2, <3>3
  <2>4. Tlv(d, o) = t
    BY <1>9, <2>3 DEF Tlv
  <2>5. FieldText(d, t) = Shown(d.page, value)
    BY <1>8, <1>9 DEF FieldText, ValueOf, Shown
  <2> QED BY <1>1, <1>4, <1>5, <2>4, <2>5
<1>10. CASE d.page
  <2>1. 2 * Len(buf) < PageWord
    BY <1>10
  <2>2. n < PageWord /\ 2 * n < PageWord
    <3> HIDE DEF n, s, e
    <3> QED BY <1>2, <1>3, <1>4, <2>1
  <2>3. ReadLength(PageWord, buf, o + 1) = [ok |-> TRUE, length |-> n, next |-> s]
    BY <1>2, <1>7, <2>2
  <2>4. PageReadTlv(buf, o) = t
    <3>1. o \in 0 .. Len(buf) - 1 /\ o + 1 \in 0 .. Len(buf) - 1
      BY <1>1, <1>3, <1>4
    <3> DEFINE r == ReadLength(PageWord, buf, o + 1)
    <3>2. r.ok = TRUE /\ r.next = s /\ r.length = n /\ 2 * r.length < PageWord
      BY <2>2, <2>3
    <3>3. PageReadTlv(buf, o) =
            IF o + 1 \notin 0 .. Len(buf) - 1
            THEN [ok |-> TRUE, tag |-> IF o \in 0 .. Len(buf) - 1 THEN At(buf, o) ELSE NaN,
                  start |-> o + 2, end |-> NaN]
            ELSE IF ~r.ok THEN Failed
            ELSE [ok |-> TRUE, tag |-> IF o \in 0 .. Len(buf) - 1 THEN At(buf, o) ELSE NaN,
                  start |-> r.next,
                  end |-> r.next + IF 2 * r.length < PageWord THEN r.length
                                   ELSE r.length - PageWord]
      BY DEF PageReadTlv
    <3> HIDE DEF s, n, r
    <3> QED BY <1>6, <3>1, <3>2, <3>3
  <2>5. Place(buf, s) = s /\ Place(buf, e) = e
    <3>1. NaN < 0 /\ NaN \in Int
      BY <1>2 DEF NaN
    <3>2. ASSUME NEW i \in Nat, i <= Len(buf) PROVE Place(buf, i) = i
      BY <1>3, <3>1, <3>2 DEF Place
    <3> HIDE DEF s, e
    <3> QED BY <1>3, <1>4, <3>2
  <2>6. Tlv(d, o) = t
    BY <1>10, <2>4 DEF Tlv
  <2>7. FieldText(d, t) = Shown(d.page, value)
    BY <1>8, <1>10, <2>5 DEF FieldText, Slice, Shown
  <2> QED BY <1>1, <1>4, <1>5, <2>6, <2>7
<1> QED BY <1>9, <1>10

(* flat holds the sequences of seqs one behind the other, the k-th up to at[k]. *)
Joined(flat, seqs, at) ==
  /\ at \in [0 .. Len(seqs) -> Nat] /\ at[0] = 0 /\ at[Len(seqs)] = Len(flat)
  /\ \A k \in 1 .. Len(seqs) : at[k] = at[k - 1] + Len(seqs[k]) /\ Holds(flat, at[k - 1], seqs[k])

Flattens(v, seqs, n) == v = [i \in 1 .. n |-> IF i = 1 THEN seqs[i] ELSE v[i - 1] \o seqs[i]]

LEMMA FlattenDefined ==
  ASSUME NEW n \in Nat, NEW seqs
  PROVE  \E v : Flattens(v, seqs, n)
<1> DEFINE S == {m \in Nat : \E v : Flattens(v, seqs, m)}
<1>1. 0 \in S
  <2> DEFINE v == [i \in 1 .. 0 |-> seqs[i]]
  <2>1. v = [i \in 1 .. 0 |-> IF i = 1 THEN seqs[i] ELSE v[i - 1] \o seqs[i]]
    <3>1. \A i \in 1 .. 0 : FALSE
      OBVIOUS
    <3> QED BY <3>1
  <2>2. Flattens(v, seqs, 0)
    BY <2>1 DEF Flattens
  <2> HIDE DEF v
  <2> QED BY <2>2
<1>2. ASSUME NEW m \in Nat, m \in S PROVE m + 1 \in S
  <2>1. PICK v : Flattens(v, seqs, m)
    BY <1>2
  <2> DEFINE new == IF m = 0 THEN seqs[1] ELSE v[m] \o seqs[m + 1]
             w == [i \in 1 .. m + 1 |-> IF i <= m THEN v[i] ELSE new]
  <2> HIDE DEF new
  <2>2. ASSUME NEW i \in 1 .. m + 1
        PROVE  w[i] = IF i = 1 THEN seqs[i] ELSE w[i - 1] \o seqs[i]
    <3>1. CASE i <= m
      <4>1. v[i] = IF i = 1 THEN seqs[i] ELSE v[i - 1] \o seqs[i]
        <5>1. i \in 1 .. m
          BY <3>1
        <5> QED BY <2>1, <5>1 DEF Flattens
      <4>2. w[i] = v[i] /\ (i # 1 => w[i - 1] = v[i - 1])
        BY <3>1
      <4> HIDE DEF w
      <4> QED BY <4>1, <4>2, Zenon
    <3>2. CASE i = m + 1
      <4>1. w[i] = new /\ (i # 1 => w[i - 1] = v[m])
        BY <3>2
      <4>2. (i = 1) <=> (m = 0)
        BY <3>2
      <4> HIDE DEF w
      <4>3. CASE i = 1
        <5>1. new = seqs[i]
          BY <4>2, <4>3 DEF new
        <5> QED BY <4>1, <4>3, <5>1, Zenon
      <4>4. CASE i # 1
        <5>1. new = v[m] \o seqs[i]
          BY <3>2, <4>2, <4>4, Zenon DEF new
        <5> QED BY <4>1, <4>4, <5>1, Zenon
      <4> QED BY <4>3, <4>4
    <3> HIDE DEF w
    <3> QED BY <3>1, <3>2
  <2>3. w = [i \in 1 .. m + 1 |-> w[i]]
    OBVIOUS
  <2> HIDE DEF w
  <2>4. Flattens(w, seqs, m + 1)
    <3>1. [i \in 1 .. m + 1 |-> w[i]]
            = [i \in 1 .. m + 1 |-> IF i = 1 THEN seqs[i] ELSE w[i - 1] \o seqs[i]]
      BY <2>2, Zenon
    <3> QED BY <2>3, <3>1, Zenon DEF Flattens
  <2> QED BY <2>4
<1>3. n \in S
  <2> HIDE DEF S
  <2> QED BY <1>1, <1>2, SetInduction
<1> QED BY <1>3

(* What FlattenSeq() makes of strings of bytes. *)
LEMMA FlattenFacts ==
  ASSUME NEW seqs \in Seq(Seq(Byte))
  PROVE  FlattenSeq(seqs) \in Seq(Byte) /\ \E at : Joined(FlattenSeq(seqs), seqs, at)
<1> DEFINE n == Len(seqs)
<1>1. n \in Nat /\ \A i \in 1 .. n : seqs[i] \in Seq(Byte)
  OBVIOUS
<1>2. CASE n = 0
  <2>1. seqs = <<>> /\ FlattenSeq(seqs) = <<>>
    <3>1. seqs = <<>>
      BY <1>2, EmptySeq
    <3> QED BY <1>2, <3>1 DEF FlattenSeq
  <2> DEFINE at == [k \in 0 .. 0 |-> 0]
  <2>2. Joined(<<>>, <<>>, at)
    BY DEF Joined
  <2> HIDE DEF at
  <2>3. <<>> \in Seq(Byte) /\ \E a : Joined(<<>>, <<>>, a)
    BY <2>2
  <2> QED BY <2>1, <2>3
<1>3. CASE n # 0
  <2> DEFINE v == CHOOSE u : Flattens(u, seqs, n)
             flat == v[n]
  <2>1. Flattens(v, seqs, n)
    BY <1>1, FlattenDefined
  <2>2. FlattenSeq(seqs) = flat
    BY <1>3 DEF FlattenSeq, Flattens
  <2> HIDE DEF v
  <2>3. \A i \in 1 .. n : v[i] = IF i = 1 THEN seqs[i] ELSE v[i - 1] \o seqs[i]
    BY <2>1 DEF Flattens
  <2> HIDE DEF n
  <2> DEFINE S == {m \in Nat : m + 1 <= n => v[m + 1] \in Seq(Byte)}
  <2>4. \A m \in Nat : m \in S
    <3>1. 0 \in S
      BY <1>1, <2>3
    <3>2. ASSUME NEW m \in Nat, m \in S PROVE m + 1 \in S
      <4>1. SUFFICES ASSUME (m + 1) + 1 <= n PROVE v[(m + 1) + 1] \in Seq(Byte)
        OBVIOUS
      <4>2. /\ (m + 1) + 1 \in 1 .. n /\ (m + 1) + 1 # 1 /\ ((m + 1) + 1) - 1 = m + 1
            /\ m + 1 <= n
        BY <1>1, <4>1
      <4>3. v[m + 1] \in Seq(Byte) /\ seqs[(m + 1) + 1] \in Seq(Byte)
        BY <1>1, <3>2, <4>2
      <4>4. v[(m + 1) + 1] = v[m + 1] \o seqs[(m + 1) + 1]
        BY <2>3, <4>2
      <4> QED BY <4>3, <4>4, JoinFacts
    <3> HIDE DEF S
    <3> QED BY <3>1, <3>2, SetInduction
  <2>5. ASSUME NEW i \in 1 .. n PROVE v[i] \in Seq(Byte)
    <3>1. i - 1 \in Nat /\ (i - 1) + 1 = i /\ (i - 1) + 1 <= n
      BY <1>1
    <3>2. i - 1 \in S
      BY <2>4, <3>1
    <3> QED BY <3>1, <3>2
  <2> DEFINE at == [k \in 0 .. n |-> IF k = 0 THEN 0 ELSE Len(v[k])]
  <2>6. at \in [0 .. n -> Nat] /\ at[0] = 0 /\ at[n] = Len(flat)
    <3>1. \A k \in 0 .. n : k # 0 => Len(v[k]) \in Nat
      <4> SUFFICES ASSUME NEW k \in 0 .. n, k # 0 PROVE Len(v[k]) \in Nat
        OBVIOUS
      <4>1. k \in 1 .. n
        BY <1>1
      <4>2. v[k] \in Seq(Byte)
        BY <2>5, <4>1
      <4> QED BY <4>2
    <3>2. 0 \in 0 .. n /\ n \in 0 .. n /\ n # 0
      BY <1>1, <1>3 DEF n
    <3> QED BY <3>1, <3>2
  <2>7. ASSUME NEW k \in 1 .. n
        PROVE  /\ at[k] = at[k - 1] + Len(seqs[k]) /\ Holds(v[k], at[k - 1], seqs[k])
               /\ k # 1 => Holds(v[k], 0, v[k - 1])
    <3>1. seqs[k] \in Seq(Byte) /\ at[k] = Len(v[k]) /\ Len(seqs[k]) \in Nat
      BY <1>1
    <3>2. CASE k = 1
      <4>1. at[k - 1] = 0 /\ v[k] = seqs[k]
        BY <1>1, <2>3, <3>2
      <4> HIDE DEF at
      <4>2. Holds(seqs[k], 0, seqs[k])
        BY <3>1 DEF Holds
      <4> QED BY <3>1, <3>2, <4>1, <4>2
    <3>3. CASE k # 1
      <4>1. k - 1 \in 1 .. n /\ k - 1 # 0
        BY <1>1, <3>3
      <4>2. v[k - 1] \in Seq(Byte) /\ at[k - 1] = Len(v[k - 1]) /\ v[k] = v[k - 1] \o seqs[k]
        <5>1. v[k - 1] \in Seq(Byte)
          BY <2>5, <4>1
        <5>2. at[k - 1] = Len(v[k - 1])
          BY <1>1, <4>1
        <5> HIDE DEF at
        <5>3. v[k] = v[k - 1] \o seqs[k]
          BY <2>3, <3>3, Zenon
        <5> QED BY <5>1, <5>2, <5>3
      <4> DEFINE a == v[k - 1]  b == seqs[k]
      <4> HIDE DEF at
      <4>3. a \in Seq(Byte) /\ b \in Seq(Byte)
        BY <3>1, <4>2
      <4>4. Len(a \o b) = Len(a) + Len(b) /\ Holds(a \o b, Len(a), b) /\ Holds(a \o b, 0, a)
        <5> HIDE DEF a, b
        <5>1. a \o b \in Seq(Byte) /\ Holds(a \o b, 0, a \o b)
          <6>1. a \o b \in Seq(Byte)
            BY <4>3, JoinFacts
          <6> DEFINE c == a \o b
          <6>2. c \in Seq(Byte)
            BY <6>1
          <6> HIDE DEF c
          <6>3. Holds(c, 0, c)
            BY <6>2 DEF Holds
          <6> QED BY <6>1, <6>3 DEF c
        <5>2. Holds(a \o b, 0, a) /\ Holds(a \o b, 0 + Len(a), b)
          BY <4>3, <5>1, HoldsParts
        <5>3. 0 + Len(a) = Len(a)
          BY <4>3
        <5> QED BY <4>3, <5>2, <5>3, JoinFacts
      <4> QED BY <3>1, <4>2, <4>4
    <3> QED BY <3>2, <3>3
  <2>8. ASSUME NEW k \in 1 .. n PROVE Holds(flat, 0, v[k])
    <3> DEFINE R == {m \in Nat : k + m <= n => Holds(v[k + m], 0, v[k])}
    <3>1. 0 \in R
      <4>1. v[k] \in Seq(Byte) /\ k + 0 = k
        BY <2>5
      <4>2. Holds(v[k], 0, v[k])
        BY <4>1 DEF Holds
      <4> QED BY <4>1, <4>2
    <3>2. ASSUME NEW m \in Nat, m \in R PROVE m + 1 \in R
      <4>1. SUFFICES ASSUME k + (m + 1) <= n PROVE Holds(v[k + (m + 1)], 0, v[k])
        OBVIOUS
      <4>2. /\ k + (m + 1) \in 1 .. n /\ k + (m + 1) # 1 /\ (k + (m + 1)) - 1 = k + m
            /\ k + m \in 1 .. n
        BY <1>1, <4>1
      <4>3. Holds(v[k + m], 0, v[k])
        BY <3>2, <4>2
      <4>4. Holds(v[k + (m + 1)], 0, v[k + m])
        BY <2>7, <4>2
      <4>5. v[k + (m + 1)] \in Seq(Byte) /\ v[k + m] \in Seq(Byte) /\ v[k] \in Seq(Byte)
        BY <2>5, <4>2
      <4>6. Holds(v[k + (m + 1)], 0 + 0, v[k])
        BY <4>3, <4>4, <4>5, HoldsWithin
      <4> QED BY <4>6
    <3>3. n - k \in R
      <4>1. n - k \in Nat
        BY <1>1
      <4> HIDE DEF R
      <4> QED BY <3>1, <3>2, <4>1, SetInduction
    <3>4. k + (n - k) = n
      BY <1>1
    <3> QED BY <1>1, <3>3, <3>4
  <2>9. n \in 1 .. n /\ flat \in Seq(Byte)
    <3>1. n \in 1 .. n
      BY <1>1, <1>3 DEF n
    <3> QED BY <2>5, <3>1
  <2>10. ASSUME NEW k \in 1 .. n
         PROVE  at[k] = at[k - 1] + Len(seqs[k]) /\ Holds(flat, at[k - 1], seqs[k])
    <3>1. Holds(v[k], at[k - 1], seqs[k]) /\ at[k] = at[k - 1] + Len(seqs[k])
      BY <2>7
    <3>2. Holds(flat, 0, v[k])
      BY <2>8
    <3>3. at[k - 1] \in Nat /\ 0 + at[k - 1] = at[k - 1]
      <4>1. k - 1 \in 0 .. n
        BY <1>1
      <4>2. at[k - 1] \in Nat
        BY <2>6, <4>1
      <4> HIDE DEF at
      <4> QED BY <4>2
    <3>4. v[k] \in Seq(Byte) /\ seqs[k] \in Seq(Byte)
      BY <1>1, <2>5
    <3> HIDE DEF at, flat
    <3> QED BY <2>9, <3>1, <3>2, <3>3, <3>4, HoldsWithin
  <2>11. Joined(flat, seqs, at)
    <3> HIDE DEF at, flat
    <3> QED BY <2>6, <2>10 DEF Joined, n
  <2> HIDE DEF at, flat
  <2> QED BY <2>2, <2>9, <2>11
<1> QED BY <1>2, <1>3

(* A call of a decoder, step by step. *)
Steps(call) == \A n \in Nat : call[n + 1] = DecodeStep(call[n])
IsDecode(call, page, buffer) == call[0] = DecodeStart(page, buffer) /\ Steps(call)

(* The call while it goes on, in a record and between two. *)
InRecord(page, buf, offset, end, field, record_end, rec, out) ==
  [status |-> "DECODING", page |-> page, buffer |-> buf, offset |-> offset, end |-> end,
   in_record |-> TRUE, field |-> field, record_end |-> record_end, rec |-> rec, out |-> out]

Between(page, buf, offset, end, field, record_end, rec, out) ==
  [status |-> "DECODING", page |-> page, buffer |-> buf, offset |-> offset, end |-> end,
   in_record |-> FALSE, field |-> field, record_end |-> record_end, rec |-> rec, out |-> out]

(* What the readers need to be able to read in buf. *)
Small(page, buf) ==
  /\ page \in BOOLEAN /\ buf \in Seq(Byte) /\ Len(buf) < SizeWord
  /\ page => 2 * Len(buf) < PageWord

LEMMA BeforeNumbers ==
  ASSUME MachineWords, NEW i \in Nat, NEW j \in Nat
  PROVE  Before(i, j) <=> i < j
<1>1. NaN < 0 /\ NaN \in Int
  BY DEF MachineWords, NaN
<1>2. i # NaN /\ j # NaN
  BY <1>1
<1> QED BY <1>2 DEF Before

LEMMA FieldReadBack ==
  ASSUME MachineWords, NEW page, NEW buf, Small(page, buf),
         NEW tag \in Fields, NEW value \in Seq(Byte), Len(value) < SizeWord,
         NEW f \in Nat, Holds(buf, f, BerTlv(tag, value)), NEW fe \in Nat, f < fe,
         NEW offset, NEW end, NEW rec, NEW out
  PROVE  DecodeStep(InRecord(page, buf, offset, end, f, fe, rec, out))
           = InRecord(page, buf, offset, end, f + Len(BerTlv(tag, value)), fe,
                   [x \in Fields |-> IF x = tag THEN Shown(page, value) ELSE rec[x]], out)
<1> DEFINE d == InRecord(page, buf, offset, end, f, fe, rec, out)
           tlv == Tlv(d, d.field)
           next == f + Len(BerTlv(tag, value))
           new == [x \in Fields |-> IF x = tag THEN Shown(page, value) ELSE rec[x]]
<1>1. /\ d.status = "DECODING" /\ d.page = page /\ d.buffer = buf /\ d.in_record = TRUE
      /\ d.field = f /\ d.record_end = fe /\ d.rec = rec
  BY DEF InRecord
<1>2. tag \in Byte /\ buf \in Seq(Byte) /\ Len(buf) < SizeWord
  BY DEF Fields, Byte, Small
<1>3. d.page => 2 * Len(buf) < PageWord
  BY <1>1 DEF Small
<1> HIDE DEF d
<1>4. /\ tlv = [ok |-> TRUE, tag |-> tag, start |-> ValueAt(f, value),
                end |-> ValueAt(f, value) + Len(value)]
      /\ FieldText(d, tlv) = Shown(page, value)
      /\ ValueAt(f, value) + Len(value) = next
  <2>1. tlv = Tlv(d, f)
    BY <1>1
  <2>2. /\ Tlv(d, f) = [ok |-> TRUE, tag |-> tag, start |-> ValueAt(f, value),
                        end |-> ValueAt(f, value) + Len(value)]
        /\ FieldText(d, Tlv(d, f)) = Shown(page, value)
        /\ ValueAt(f, value) + Len(value) = next
    BY <1>1, <1>2, <1>3, TlvReadBack
  <2> HIDE DEF tlv
  <2> QED BY <2>1, <2>2
<1>5. tlv.ok = TRUE /\ tlv.tag = tag /\ tlv.end = next
  BY <1>4
<1>6. Before(d.field, d.record_end)
  BY <1>1, BeforeNumbers
<1>7. DecodeStep(d) = SerFieldStep(d)
  BY <1>1 DEF DecodeStep
<1>8. SerFieldStep(d) = [d EXCEPT !.field = tlv.end,
        !.rec = [x \in Fields |-> IF x = tlv.tag THEN FieldText(d, tlv) ELSE d.rec[x]]]
  BY <1>5, <1>6, Zenon DEF SerFieldStep
<1> DEFINE q == [d EXCEPT !.field = next, !.rec = new]
<1>9. DecodeStep(d) = q
  <2>1. [x \in Fields |-> IF x = tlv.tag THEN FieldText(d, tlv) ELSE d.rec[x]] = new
    BY <1>1, <1>4, <1>5
  <2> HIDE DEF new, next, tlv
  <2> QED BY <1>5, <1>7, <1>8, <2>1
<1>10. d = InRecord(page, buf, offset, end, f, fe, rec, out)
  BY DEF d
<1> HIDE DEF next, new
<1>11. q = [d EXCEPT !.field = next, !.rec = new]
  OBVIOUS
<1> HIDE DEF q
<1>12. q = InRecord(page, buf, offset, end, next, fe, new, out)
  BY <1>10, <1>11 DEF InRecord
<1> QED BY <1>9, <1>10, <1>12 DEF next, new

(* The tags and strings of a record, as far as k fields have been read. *)
Partial(rec, k) == [x \in Fields |-> IF x <= 127 + k THEN rec[x] ELSE <<>>]

FitsRecord(rec) ==
  /\ rec \in SerRecord /\ Len(RecordValue(rec)) < SizeWord
  /\ \A x \in Fields : Len(rec[x]) < SizeWord

LEMMA RecordBytes ==
  ASSUME MachineWords, NEW rec, FitsRecord(rec)
  PROVE  /\ RecordValue(rec) \in Seq(Byte)
         /\ \E at : /\ at \in [0 .. 6 -> Nat] /\ at[0] = 0 /\ at[6] = Len(RecordValue(rec))
                    /\ \A k \in 1 .. 6 :
                         /\ at[k] = at[k - 1] + Len(BerTlv(127 + k, rec[127 + k]))
                         /\ Holds(RecordValue(rec), at[k - 1], BerTlv(127 + k, rec[127 + k]))
<1> DEFINE seqs == [i \in 1 .. 6 |-> BerTlv(127 + i, rec[127 + i])]
<1>1. ASSUME NEW i \in 1 .. 6 PROVE BerTlv(127 + i, rec[127 + i]) \in Seq(Byte)
  <2>1. 127 + i \in Fields /\ 127 + i \in Byte
    BY DEF Fields, Byte
  <2>2. rec[127 + i] \in Seq(Byte) /\ Len(rec[127 + i]) < SizeWord
    BY <2>1 DEF FitsRecord, SerRecord
  <2> QED BY <2>1, <2>2, TlvBytes
<1>2. seqs \in Seq(Seq(Byte)) /\ Len(seqs) = 6
  BY <1>1
<1>3. RecordValue(rec) = FlattenSeq(seqs)
  BY DEF RecordValue
<1>4. \A k \in 1 .. 6 : seqs[k] = BerTlv(127 + k, rec[127 + k])
  OBVIOUS
<1> HIDE DEF seqs
<1>5. FlattenSeq(seqs) \in Seq(Byte) /\ \E at : Joined(FlattenSeq(seqs), seqs, at)
  BY <1>2, FlattenFacts
<1>6. PICK at : Joined(FlattenSeq(seqs), seqs, at)
  BY <1>5
<1>7. /\ at \in [0 .. 6 -> Nat] /\ at[0] = 0 /\ at[6] = Len(FlattenSeq(seqs))
      /\ \A k \in 1 .. 6 : at[k] = at[k - 1] + Len(seqs[k]) /\ Holds(FlattenSeq(seqs), at[k - 1], seqs[k])
  BY <1>2, <1>6 DEF Joined
<1>8. \A k \in 1 .. 6 : /\ at[k] = at[k - 1] + Len(BerTlv(127 + k, rec[127 + k]))
                        /\ Holds(RecordValue(rec), at[k - 1], BerTlv(127 + k, rec[127 + k]))
  BY <1>3, <1>4, <1>7
<1> QED BY <1>3, <1>5, <1>7, <1>8

(* The six fields of a record are read one after the other. *)
LEMMA RecordReadBack ==
  ASSUME MachineWords, NEW page, NEW buf, Small(page, buf), NEW rec, FitsRecord(rec),
         NEW start \in Nat, Holds(buf, start, RecordValue(rec)), NEW offset, NEW end, NEW out,
         NEW call, Steps(call), NEW n \in Nat,
         call[n] = InRecord(page, buf, offset, end, start, start + Len(RecordValue(rec)),
                         NoRecord, out)
  PROVE  call[n + 6] = InRecord(page, buf, offset, end, start + Len(RecordValue(rec)),
                             start + Len(RecordValue(rec)), ShownRecord(page, rec), out)
<1> DEFINE value == RecordValue(rec)  fe == start + Len(value)  shown == ShownRecord(page, rec)
           tlv(k) == BerTlv(127 + k, rec[127 + k])
<1>1. PICK at : /\ at \in [0 .. 6 -> Nat] /\ at[0] = 0 /\ at[6] = Len(value)
                /\ \A k \in 1 .. 6 : at[k] = at[k - 1] + Len(tlv(k)) /\ Holds(value, at[k - 1], tlv(k))
  BY RecordBytes
<1>2. value \in Seq(Byte) /\ buf \in Seq(Byte) /\ Len(buf) < SizeWord /\ Len(value) \in Nat
  BY RecordBytes DEF Small
<1> DEFINE S == {k \in Nat : k <= 6 =>
                   call[n + k] = InRecord(page, buf, offset, end, start + at[k], fe,
                                       Partial(shown, k), out)}
<1>3. 0 \in S
  <2>1. Partial(shown, 0) = NoRecord
    BY DEF Partial, NoRecord, Fields
  <2>2. start + at[0] = start /\ n + 0 = n
    BY <1>1
  <2> QED BY <2>1, <2>2
<1>4. ASSUME NEW k \in Nat, k \in S PROVE k + 1 \in S
  <2>1. SUFFICES ASSUME k + 1 <= 6
                 PROVE  call[n + (k + 1)] = InRecord(page, buf, offset, end, start + at[k + 1], fe,
                                                  Partial(shown, k + 1), out)
    OBVIOUS
  <2> DEFINE tag == 127 + (k + 1)  text == rec[tag]
  <2>2. tag \in Fields /\ tag \in Byte /\ k \in 0 .. 6 /\ k + 1 \in 1 .. 6 /\ (k + 1) - 1 = k /\ k <= 6
    BY <2>1 DEF Fields, Byte
  <2>3. text \in Seq(Byte) /\ Len(text) < SizeWord
    BY <2>2 DEF FitsRecord, SerRecord
  <2>4. /\ at[k] \in Nat /\ at[k + 1] = at[k] + Len(BerTlv(tag, text))
        /\ Holds(value, at[k], BerTlv(tag, text))
    <3> DEFINE j == k + 1
    <3>1. j \in 1 .. 6 /\ j - 1 = k /\ at[k] \in Nat
      BY <1>1, <2>2
    <3>2. tlv(j) = BerTlv(tag, text)
      OBVIOUS
    <3> HIDE DEF j, tlv, tag, text, value
    <3>3. at[j] = at[j - 1] + Len(tlv(j)) /\ Holds(value, at[j - 1], tlv(j))
      BY <1>1, <3>1
    <3>4. at[j] = at[k] + Len(BerTlv(tag, text)) /\ Holds(value, at[k], BerTlv(tag, text))
      BY <3>1, <3>2, <3>3
    <3> QED BY <3>1, <3>4 DEF j
  <2>5. BerTlv(tag, text) \in Seq(Byte) /\ Len(BerTlv(tag, text)) \in Nat
        /\ Len(BerTlv(tag, text)) > 0
    <3> HIDE DEF tag, text
    <3>1. /\ BerTlv(tag, text) \in Seq(Byte) /\ BerLength(Len(text)) \in Seq(Byte)
          /\ Len(BerTlv(tag, text)) = 1 + Len(BerLength(Len(text))) + Len(text)
      BY <2>2, <2>3, TlvBytes
    <3> QED BY <2>3, <3>1
  <2>6. call[n + k] = InRecord(page, buf, offset, end, start + at[k], fe, Partial(shown, k), out)
    BY <1>4, <2>2
  <2>7. Holds(buf, start + at[k], BerTlv(tag, text))
    <3> HIDE DEF tag, text, value
    <3> QED BY <1>2, <2>4, <2>5, HoldsWithin DEF value
  <2>8. start + at[k] \in Nat /\ fe \in Nat /\ start + at[k] < fe
    <3>1. at[k] + Len(BerTlv(tag, text)) <= Len(value)
      BY <2>4 DEF Holds
    <3> HIDE DEF tag, text, value
    <3> QED BY <1>2, <2>4, <2>5, <3>1
  <2>9. DecodeStep(call[n + k])
          = InRecord(page, buf, offset, end, (start + at[k]) + Len(BerTlv(tag, text)), fe,
                  [x \in Fields |-> IF x = tag THEN Shown(page, text) ELSE Partial(shown, k)[x]],
                  out)
    <3> HIDE DEF tag, text, fe, shown
    <3> QED BY <2>2, <2>3, <2>6, <2>7, <2>8, FieldReadBack
  <2>10. [x \in Fields |-> IF x = tag THEN Shown(page, text) ELSE Partial(shown, k)[x]]
           = Partial(shown, k + 1)
    <3>1. ASSUME NEW x \in Fields
          PROVE  (IF x = tag THEN Shown(page, text) ELSE Partial(shown, k)[x])
                   = IF x <= 127 + (k + 1) THEN shown[x] ELSE <<>>
      <4>1. Partial(shown, k)[x] = IF x <= 127 + k THEN shown[x] ELSE <<>>
        BY DEF Partial
      <4>2. x \in Nat
        BY DEF Fields
      <4>3. x <= 127 + (k + 1) <=> (x = tag \/ x <= 127 + k)
        BY <4>2
      <4>4. shown[x] = Shown(page, rec[x])
        BY DEF ShownRecord
      <4> HIDE DEF shown
      <4>5. x = tag => shown[x] = Shown(page, text)
        BY <4>4
      <4> HIDE DEF tag, text
      <4> QED BY <4>1, <4>3, <4>5
    <3> HIDE DEF tag, text, shown
    <3> QED BY <3>1 DEF Partial
  <2>11. (start + at[k]) + Len(BerTlv(tag, text)) = start + at[k + 1]
    <3> HIDE DEF tag, text
    <3> QED BY <2>4, <2>5
  <2>12. call[n + (k + 1)] = DecodeStep(call[n + k])
    <3>1. n + k \in Nat /\ n + (k + 1) = (n + k) + 1
      OBVIOUS
    <3> QED BY <3>1 DEF Steps
  <2> HIDE DEF tag, text, fe, shown
  <2> QED BY <2>9, <2>10, <2>11, <2>12
<1>5. 6 \in S
  <2> HIDE DEF S
  <2> QED BY <1>3, <1>4, SetInduction
<1>6. Partial(shown, 6) = shown
  <2>1. \A x \in Fields : x <= 127 + 6
    BY DEF Fields
  <2> QED BY <2>1 DEF Partial, ShownRecord
<1>7. call[n + 6] = InRecord(page, buf, offset, end, start + at[6], fe, Partial(shown, 6), out)
  BY <1>5
<1> QED BY <1>1, <1>6, <1>7

LEMMA RecordEntered ==
  ASSUME MachineWords, NEW page, NEW buf, Small(page, buf), NEW rec, FitsRecord(rec),
         NEW o \in Nat, Holds(buf, o, EncodeRecord(rec)), NEW end \in Nat, o < end,
         NEW field, NEW record_end, NEW old, NEW out
  PROVE  /\ DecodeStep(Between(page, buf, o, end, field, record_end, old, out))
              = InRecord(page, buf, o + Len(EncodeRecord(rec)), end, ValueAt(o, RecordValue(rec)),
                         ValueAt(o, RecordValue(rec)) + Len(RecordValue(rec)), NoRecord, out)
         /\ Holds(buf, ValueAt(o, RecordValue(rec)), RecordValue(rec))
         /\ ValueAt(o, RecordValue(rec)) \in Nat
<1> DEFINE d == Between(page, buf, o, end, field, record_end, old, out)
           tlv == Tlv(d, d.offset)
           value == RecordValue(rec)
           start == ValueAt(o, value)
           next == start + Len(value)
<1>1. /\ d.status = "DECODING" /\ d.page = page /\ d.buffer = buf /\ d.in_record = FALSE
      /\ d.offset = o /\ d.end = end
  BY DEF Between
<1>2. /\ RecordTag \in Byte /\ buf \in Seq(Byte) /\ Len(buf) < SizeWord
      /\ value \in Seq(Byte) /\ Len(value) < SizeWord /\ Holds(buf, o, BerTlv(RecordTag, value))
  BY RecordBytes DEF RecordTag, Byte, Small, FitsRecord, EncodeRecord
<1>3. d.page => 2 * Len(buf) < PageWord
  BY <1>1 DEF Small
<1>4. d = Between(page, buf, o, end, field, record_end, old, out)
  OBVIOUS
<1> HIDE DEF d, value
<1>5. /\ tlv = [ok |-> TRUE, tag |-> RecordTag, start |-> start, end |-> next]
      /\ next = o + Len(BerTlv(RecordTag, value)) /\ Holds(buf, start, value) /\ start \in Nat
  <2>1. tlv = Tlv(d, o)
    BY <1>1
  <2>2. /\ Tlv(d, o) = [ok |-> TRUE, tag |-> RecordTag, start |-> start, end |-> next]
        /\ next = o + Len(BerTlv(RecordTag, value)) /\ Holds(buf, start, value) /\ start \in Nat
    BY <1>1, <1>2, <1>3, TlvReadBack
  <2> HIDE DEF tlv, start, next
  <2> QED BY <2>1, <2>2
<1>6. tlv.ok = TRUE /\ tlv.tag = RecordTag /\ tlv.start = start /\ tlv.end = next
  BY <1>5
<1>7. Before(d.offset, d.end)
  BY <1>1, BeforeNumbers
<1>8. DecodeStep(d) = SerRecordStep(d)
  BY <1>1 DEF DecodeStep
<1>9. SerRecordStep(d) = [d EXCEPT !.offset = tlv.end, !.in_record = TRUE, !.rec = NoRecord,
                                   !.field = tlv.start, !.record_end = tlv.end]
  BY <1>6, <1>7, Zenon DEF SerRecordStep
<1> HIDE DEF tlv, start, next
<1> DEFINE q == DecodeStep(d)
<1>10. q = [d EXCEPT !.offset = next, !.in_record = TRUE, !.rec = NoRecord,
                     !.field = start, !.record_end = next]
  BY <1>6, <1>8, <1>9
<1> HIDE DEF q
<1>11. q = InRecord(page, buf, next, end, start, next, NoRecord, out)
  BY <1>4, <1>10 DEF InRecord, Between
<1>12. next = o + Len(EncodeRecord(rec))
  BY <1>5 DEF EncodeRecord, value
<1>13. DecodeStep(Between(page, buf, o, end, field, record_end, old, out))
         = InRecord(page, buf, o + Len(EncodeRecord(rec)), end, start, next, NoRecord, out)
  BY <1>4, <1>11, <1>12 DEF q
<1> QED BY <1>5, <1>13 DEF start, next, value

LEMMA RecordLeft ==
  ASSUME MachineWords, NEW page, NEW buf, NEW offset, NEW end, NEW fe \in Nat, NEW rec, NEW out
  PROVE  DecodeStep(InRecord(page, buf, offset, end, fe, fe, rec, out))
           = Between(page, buf, offset, end, fe, fe, rec, Append(out, rec))
<1> DEFINE d == InRecord(page, buf, offset, end, fe, fe, rec, out)
<1>1. /\ d.status = "DECODING" /\ d.in_record = TRUE /\ d.field = fe /\ d.record_end = fe
      /\ d.rec = rec /\ d.out = out
  BY DEF InRecord
<1>2. d = InRecord(page, buf, offset, end, fe, fe, rec, out)
  OBVIOUS
<1> HIDE DEF d
<1>3. ~Before(d.field, d.record_end)
  BY <1>1, BeforeNumbers
<1> DEFINE q == DecodeStep(d)
<1>4. q = SerFieldStep(d)
  BY <1>1 DEF DecodeStep
<1>5. SerFieldStep(d) = [d EXCEPT !.in_record = FALSE, !.out = Append(d.out, d.rec)]
  BY <1>3, Zenon DEF SerFieldStep
<1> HIDE DEF q
<1> DEFINE more == Append(out, rec)
<1>6. q = [d EXCEPT !.in_record = FALSE, !.out = more]
  BY <1>1, <1>4, <1>5
<1> HIDE DEF more
<1>7. q = Between(page, buf, offset, end, fe, fe, rec, more)
  BY <1>2, <1>6 DEF InRecord, Between
<1> QED BY <1>2, <1>7 DEF q, more

LEMMA TableLeft ==
  ASSUME MachineWords, NEW page, NEW buf, NEW end \in Nat, NEW field, NEW record_end, NEW rec, NEW out
  PROVE  LET q == DecodeStep(Between(page, buf, end, end, field, record_end, rec, out))
         IN  q.status = "OK" /\ q.out = out
<1> DEFINE d == Between(page, buf, end, end, field, record_end, rec, out)
<1>1. d.status = "DECODING" /\ d.in_record = FALSE /\ d.offset = end /\ d.end = end
  BY DEF Between
<1>2. d = Between(page, buf, end, end, field, record_end, rec, out)
  OBVIOUS
<1> HIDE DEF d
<1>3. ~Before(d.offset, d.end)
  BY <1>1, BeforeNumbers
<1> DEFINE q == DecodeStep(d)
<1>4. q = SerRecordStep(d)
  BY <1>1 DEF DecodeStep
<1>5. SerRecordStep(d) = [d EXCEPT !.status = "OK"]
  BY <1>3, Zenon DEF SerRecordStep
<1> HIDE DEF q
<1>6. q = [d EXCEPT !.status = "OK"]
  BY <1>4, <1>5
<1>7. q.status = "OK" /\ q.out = out
  BY <1>2, <1>6 DEF Between
<1> QED BY <1>2, <1>7 DEF q

(* Every string and every length of the table is that of a size_t. *)
Fits(table) ==
  /\ table \in Seq(SerRecord)
  /\ \A i \in 1 .. Len(table) :
       FitsRecord(table[i]) /\ Len(EncodeRecord(table[i])) < SizeWord
  /\ Len(Content(table)) < SizeWord

LEMMA RecordEncoded ==
  ASSUME MachineWords, NEW rec, FitsRecord(rec)
  PROVE  /\ EncodeRecord(rec) \in Seq(Byte) /\ Len(EncodeRecord(rec)) > 0
         /\ Len(EncodeRecord(rec)) \in Nat
<1> DEFINE value == RecordValue(rec)
<1>1. value \in Seq(Byte) /\ Len(value) < SizeWord /\ RecordTag \in Byte
  BY RecordBytes DEF FitsRecord, RecordTag, Byte
<1> HIDE DEF value
<1> DEFINE bytes == BerTlv(RecordTag, value)
<1>2. /\ bytes \in Seq(Byte) /\ BerLength(Len(value)) \in Seq(Byte)
      /\ Len(bytes) = 1 + Len(BerLength(Len(value))) + Len(value)
  BY <1>1, TlvBytes
<1>3. EncodeRecord(rec) = bytes
  BY DEF EncodeRecord, value
<1> HIDE DEF bytes
<1>4. Len(bytes) > 0 /\ Len(bytes) \in Nat
  BY <1>1, <1>2
<1> QED BY <1>2, <1>3, <1>4

LEMMA TableBytes ==
  ASSUME MachineWords, NEW table, Fits(table)
  PROVE  /\ Content(table) \in Seq(Byte)
         /\ \E at : /\ at \in [0 .. Len(table) -> Nat] /\ at[0] = 0
                    /\ at[Len(table)] = Len(Content(table))
                    /\ \A k \in 1 .. Len(table) :
                         /\ at[k] = at[k - 1] + Len(EncodeRecord(table[k]))
                         /\ Holds(Content(table), at[k - 1], EncodeRecord(table[k]))
<1> DEFINE n == Len(table)
           seqs == [i \in 1 .. n |-> EncodeRecord(table[i])]
<1>1. n \in Nat
  BY DEF Fits
<1>2. ASSUME NEW i \in 1 .. n PROVE EncodeRecord(table[i]) \in Seq(Byte)
  BY RecordEncoded DEF Fits
<1>3. Content(table) = FlattenSeq(seqs)
  BY DEF Content
<1>4. \A k \in 1 .. n : seqs[k] = EncodeRecord(table[k])
  OBVIOUS
<1>5. seqs \in Seq(Seq(Byte)) /\ Len(seqs) = n
  <2> HIDE DEF n
  <2> QED BY <1>1, <1>2
<1> HIDE DEF seqs
<1>6. FlattenSeq(seqs) \in Seq(Byte) /\ \E at : Joined(FlattenSeq(seqs), seqs, at)
  BY <1>5, FlattenFacts
<1>7. PICK at : Joined(FlattenSeq(seqs), seqs, at)
  BY <1>6
<1>8. /\ at \in [0 .. n -> Nat] /\ at[0] = 0 /\ at[n] = Len(FlattenSeq(seqs))
      /\ \A k \in 1 .. n : at[k] = at[k - 1] + Len(seqs[k]) /\ Holds(FlattenSeq(seqs), at[k - 1], seqs[k])
  BY <1>5, <1>7 DEF Joined
<1>9. \A k \in 1 .. n : /\ at[k] = at[k - 1] + Len(EncodeRecord(table[k]))
                        /\ Holds(Content(table), at[k - 1], EncodeRecord(table[k]))
  BY <1>3, <1>4, <1>8
<1> QED BY <1>3, <1>6, <1>8, <1>9

LEMMA TableEntered ==
  ASSUME MachineWords, NEW page, NEW table, Fits(table), Small(page, Encode(table))
  PROVE  /\ DecodeStart(page, Encode(table))
              = Between(page, Encode(table), ValueAt(0, Content(table)),
                        ValueAt(0, Content(table)) + Len(Content(table)), 0, 0, NoRecord, <<>>)
         /\ Holds(Encode(table), ValueAt(0, Content(table)), Content(table))
         /\ ValueAt(0, Content(table)) \in Nat
<1> DEFINE buf == Encode(table)  value == Content(table)  top == ValueAt(0, value)
           d == [status |-> "DECODING", page |-> page, buffer |-> buf, offset |-> 0, end |-> 0,
                 in_record |-> FALSE, field |-> 0, record_end |-> 0, rec |-> NoRecord,
                 out |-> <<>>]
           tlv == Tlv(d, 0)
<1>1. /\ buf \in Seq(Byte) /\ Len(buf) < SizeWord /\ TopTag \in Byte /\ 0 \in Nat
      /\ value \in Seq(Byte) /\ Len(value) < SizeWord /\ buf = BerTlv(TopTag, value)
  BY TableBytes DEF Small, TopTag, Byte, Fits, Encode
<1>2. d.buffer = buf /\ (d.page => 2 * Len(buf) < PageWord)
  BY DEF Small
<1>3. d = [status |-> "DECODING", page |-> page, buffer |-> buf, offset |-> 0, end |-> 0,
           in_record |-> FALSE, field |-> 0, record_end |-> 0, rec |-> NoRecord, out |-> <<>>]
  OBVIOUS
<1>4. DecodeStart(page, buf)
        = IF ~tlv.ok THEN [d EXCEPT !.status = "FAILED"]
          ELSE IF tlv.tag # TopTag THEN [d EXCEPT !.status = "FAILED"]
          ELSE [d EXCEPT !.offset = tlv.start, !.end = tlv.end]
  BY Zenon DEF DecodeStart
<1> HIDE DEF d, value, buf
<1>5. Holds(buf, 0, BerTlv(TopTag, value))
  <2>1. Len(buf) \in Nat
    BY <1>1
  <2>2. Holds(buf, 0, buf)
    BY <2>1 DEF Holds
  <2> QED BY <1>1, <2>2
<1>6. /\ tlv = [ok |-> TRUE, tag |-> TopTag, start |-> top, end |-> top + Len(value)]
      /\ Holds(buf, top, value) /\ top \in Nat
  BY <1>1, <1>2, <1>5, TlvReadBack
<1>7. tlv.ok = TRUE /\ tlv.tag = TopTag /\ tlv.start = top /\ tlv.end = top + Len(value)
  BY <1>6
<1> HIDE DEF tlv, top
<1> DEFINE end == top + Len(value)
<1>8. DecodeStart(page, buf) = [d EXCEPT !.offset = top, !.end = end]
  BY <1>4, <1>7
<1> HIDE DEF end
<1>9. DecodeStart(page, buf) = Between(page, buf, top, end, 0, 0, NoRecord, <<>>)
  BY <1>3, <1>8 DEF Between
<1> QED BY <1>6, <1>9 DEF end, top, buf, value

(* The eight steps that a record takes. *)
LEMMA RecordDecoded ==
  ASSUME MachineWords, NEW page, NEW buf, Small(page, buf), NEW rec, FitsRecord(rec),
         NEW o \in Nat, Holds(buf, o, EncodeRecord(rec)), NEW end \in Nat, o < end,
         NEW field, NEW record_end, NEW old, NEW out,
         NEW call, Steps(call), NEW n \in Nat,
         call[n] = Between(page, buf, o, end, field, record_end, old, out)
  PROVE  \E f, e, r :
           call[n + 8] = Between(page, buf, o + Len(EncodeRecord(rec)), end, f, e, r,
                                 Append(out, ShownRecord(page, rec)))
<1> DEFINE value == RecordValue(rec)  start == ValueAt(o, value)  fe == start + Len(value)
           next == o + Len(EncodeRecord(rec))
<1>1. /\ DecodeStep(call[n]) = InRecord(page, buf, next, end, start, fe, NoRecord, out)
      /\ Holds(buf, start, value) /\ start \in Nat
  BY RecordEntered
<1>2. call[n + 1] = DecodeStep(call[n])
  BY DEF Steps
<1>3. Len(value) \in Nat
  BY RecordBytes
<1>4. n + 1 \in Nat /\ (n + 1) + 6 = n + 7 /\ n + 7 \in Nat /\ (n + 7) + 1 = n + 8
  OBVIOUS
<1> DEFINE shown == ShownRecord(page, rec)
<1> HIDE DEF start, next
<1>5. call[n + 7] = InRecord(page, buf, next, end, fe, fe, shown, out)
  BY <1>1, <1>2, <1>4, RecordReadBack
<1>6. fe \in Nat
  BY <1>1, <1>3
<1> HIDE DEF fe
<1>7. call[n + 8] = DecodeStep(call[n + 7])
  BY <1>4 DEF Steps
<1> HIDE DEF shown
<1>8. call[n + 8] = Between(page, buf, next, end, fe, fe, shown, Append(out, shown))
  BY <1>5, <1>6, <1>7, RecordLeft
<1> QED BY <1>8 DEF next, shown

(* Of what the encoder made of a table, the decoder beside it makes the    *)
(* table (asn_tlv_codec.hpp:339-413), byte for byte; and the page's, which *)
(* computes its lengths in an int32 (combine_ser.js:38-105), makes as many *)
(* records, in the table's order, and of every field the text that the     *)
(* browser's TextDecoder makes of the field's bytes.                       *)
THEOREM TablesReadBackAlways ==
  ASSUME MachineWords, NEW page, NEW table, Fits(table), Small(page, Encode(table)),
         NEW call, IsDecode(call, page, Encode(table))
  PROVE  /\ call[8 * Len(table) + 1].status = "OK"
         /\ ~page => call[8 * Len(table) + 1].out = table
         /\ page => call[8 * Len(table) + 1].out
                      = [i \in 1 .. Len(table) |-> [x \in Fields |-> TextDecode(table[i][x])]]
<1> DEFINE buf == Encode(table)  value == Content(table)  top == ValueAt(0, value)
           end == top + Len(value)  n == Len(table)
           shown == [i \in 1 .. n |-> ShownRecord(page, table[i])]
<1>1. PICK at : /\ at \in [0 .. n -> Nat] /\ at[0] = 0 /\ at[n] = Len(value)
                /\ \A k \in 1 .. n : /\ at[k] = at[k - 1] + Len(EncodeRecord(table[k]))
                                     /\ Holds(value, at[k - 1], EncodeRecord(table[k]))
  BY TableBytes
<1>2. /\ value \in Seq(Byte) /\ Len(value) \in Nat /\ buf \in Seq(Byte) /\ n \in Nat
      /\ table \in Seq(SerRecord)
  BY TableBytes DEF Small, Fits
<1>3. /\ DecodeStart(page, buf) = Between(page, buf, top, end, 0, 0, NoRecord, <<>>)
      /\ Holds(buf, top, value) /\ top \in Nat
  BY TableEntered
<1>4. Steps(call) /\ call[0] = DecodeStart(page, buf)
  BY DEF IsDecode
<1>5. Small(page, buf)
  OBVIOUS
<1>6. \A k \in 1 .. n : FitsRecord(table[k])
  BY DEF Fits
<1> DEFINE ShownRecords == {ShownRecord(page, table[i]) : i \in 1 .. n}
<1>61. shown \in Seq(ShownRecords) /\ Len(shown) = n
  <2>1. \A i \in 1 .. n : ShownRecord(page, table[i]) \in ShownRecords
    OBVIOUS
  <2> HIDE DEF n, ShownRecords
  <2> QED BY <1>2, <2>1
<1>62. \A i \in 1 .. n : shown[i] = ShownRecord(page, table[i])
  OBVIOUS
<1> HIDE DEF buf, value, top, n, shown, ShownRecords
<1>7. end \in Nat
  BY <1>2, <1>3
<1> DEFINE Read(k) == \E f, e, r :
             call[8 * k] = Between(page, buf, top + at[k], end, f, e, r, SubSeq(shown, 1, k))
           S == {k \in Nat : k <= n => Read(k)}
<1>8. 0 \in S
  <2>1. SubSeq(shown, 1, 0) = <<>>
    BY <1>61
  <2>2. 8 * 0 = 0 /\ top + at[0] = top
    BY <1>1, <1>3
  <2> HIDE DEF end
  <2>3. call[0] = Between(page, buf, top, end, 0, 0, NoRecord, <<>>)
    BY <1>3, <1>4
  <2>4. Read(0)
    BY <2>1, <2>2, <2>3
  <2> HIDE DEF Read
  <2> QED BY <2>4
<1>9. ASSUME NEW k \in Nat, k \in S PROVE k + 1 \in S
  <2>1. SUFFICES ASSUME k + 1 <= n PROVE Read(k + 1)
    <3> HIDE DEF Read
    <3> QED OBVIOUS
  <2>2. k \in 0 .. n /\ k + 1 \in 1 .. n /\ (k + 1) - 1 = k /\ k <= n
    BY <1>2, <2>1
  <2>3. Read(k)
    <3> HIDE DEF Read
    <3> QED BY <1>9, <2>2
  <2> DEFINE rec == table[k + 1]  bytes == EncodeRecord(rec)  o == top + at[k]
  <2>4. FitsRecord(rec)
    BY <1>6, <2>2
  <2> HIDE DEF rec
  <2>5. bytes \in Seq(Byte) /\ Len(bytes) > 0 /\ Len(bytes) \in Nat
    BY <2>4, RecordEncoded
  <2>6. at[k] \in Nat /\ at[k + 1] = at[k] + Len(bytes) /\ Holds(value, at[k], bytes)
    BY <1>1, <2>2 DEF rec
  <2> HIDE DEF bytes
  <2>7. Holds(buf, o, bytes)
    BY <1>2, <1>3, <2>5, <2>6, HoldsWithin
  <2>8. o \in Nat /\ o < end /\ o + Len(bytes) = top + at[k + 1]
    <3>1. at[k] + Len(bytes) <= Len(value)
      BY <2>6 DEF Holds
    <3> QED BY <1>2, <1>3, <2>5, <2>6, <3>1
  <2> HIDE DEF o, end
  <2>9. PICK f, e, r : call[8 * k] = Between(page, buf, o, end, f, e, r, SubSeq(shown, 1, k))
    BY <2>3 DEF o
  <2>10. 8 * k \in Nat /\ 8 * k + 8 = 8 * (k + 1)
    OBVIOUS
  <2>11. \E f2, e2, r2 : call[8 * k + 8] = Between(page, buf, o + Len(bytes), end, f2, e2, r2,
                                    Append(SubSeq(shown, 1, k), ShownRecord(page, rec)))
    BY <1>4, <1>5, <1>7, <2>4, <2>7, <2>8, <2>9, <2>10, RecordDecoded DEF bytes
  <2>12. Append(SubSeq(shown, 1, k), ShownRecord(page, rec)) = SubSeq(shown, 1, k + 1)
    <3>1. ShownRecord(page, rec) = shown[k + 1]
      BY <1>62, <2>2 DEF rec
    <3> QED BY <1>61, <2>2, <3>1
  <2> QED BY <2>8, <2>10, <2>11, <2>12
<1>10. n \in S
  <2> HIDE DEF S
  <2> QED BY <1>2, <1>8, <1>9, SetInduction
<1>11. Read(n)
  <2> HIDE DEF Read
  <2> QED BY <1>2, <1>10
<1>12. SubSeq(shown, 1, n) = shown
  BY <1>61
<1>13. top + at[n] = end
  BY <1>1
<1>14. PICK f, e, r : call[8 * n] = Between(page, buf, end, end, f, e, r, shown)
  <2> HIDE DEF end
  <2> QED BY <1>11, <1>12, <1>13
<1> HIDE DEF end
<1>15. call[8 * n + 1] = DecodeStep(call[8 * n])
  BY <1>2, <1>4 DEF Steps
<1>16. call[8 * n + 1].status = "OK" /\ call[8 * n + 1].out = shown
  BY <1>7, <1>14, <1>15, TableLeft
<1>17. CASE ~page
  <2>1. \A i \in 1 .. n : ShownRecord(page, table[i]) = table[i]
    <3> SUFFICES ASSUME NEW i \in 1 .. n PROVE ShownRecord(page, table[i]) = table[i]
      OBVIOUS
    <3>1. table[i] \in SerRecord
      BY <1>2 DEF n
    <3>2. \A x \in Fields : Shown(page, table[i][x]) = table[i][x]
      BY <1>17 DEF Shown
    <3> QED BY <3>1, <3>2 DEF SerRecord, ShownRecord
  <2>2. shown = [i \in 1 .. n |-> table[i]]
    BY <2>1 DEF shown
  <2>3. table = [i \in 1 .. n |-> table[i]]
    BY <1>2 DEF n
  <2> QED BY <1>16, <1>17, <2>2, <2>3 DEF n
<1>18. CASE page
  <2>1. \A i \in 1 .. n : ShownRecord(page, table[i])
                             = [x \in Fields |-> TextDecode(table[i][x])]
    BY <1>18 DEF ShownRecord, Shown
  <2>2. shown = [i \in 1 .. n |-> [x \in Fields |-> TextDecode(table[i][x])]]
    BY <2>1, Zenon DEF shown
  <2> QED BY <1>16, <1>18, <2>2 DEF n
<1> QED BY <1>17, <1>18
=============================================================================
