------------------------ MODULE RelayPipelineProofs ------------------------
(***************************************************************************)
(* Theorems about RelayPipeline, for every number of reader slots, every   *)
(* capacity of the buffer, every length of a listing and every number of   *)
(* polls.                                                                  *)
(***************************************************************************)
EXTENDS RelayPipeline, SequenceTheorems, TLAPS

(* The buffer as the pipeline uses it: its deque is the tail of the log    *)
(* that starts at base_index, and every active cursor is in it.            *)
RingInv ==
  /\ Ring!TypeOK
  /\ Ring!End = Len(log)
  /\ Len(queue) <= MaxSize
  /\ \A i \in 1 .. Len(queue) : queue[i] = log[base_index + i]
  /\ \A r \in Ring!ReaderId : active[r] => read_index[r] \in base_index .. Ring!End

(* The types of what is not the buffer's. *)
OwnTypes ==
  /\ command_queue \in Seq(Commands)
  /\ command \in Commands
  /\ stop_flag \in [{"rx", "proc"} -> BOOLEAN]
  /\ rx \in RxPlaces /\ proc \in ProcPlaces /\ manager \in ManagerPlaces
  /\ poller \in {"idle", "notify"}
  /\ left \in Nat /\ asked \in Nat /\ polls \in 0 .. MaxPolls
  /\ app_running \in BOOLEAN /\ answering \in BOOLEAN /\ unheard \in BOOLEAN
  /\ handled \in Seq(Nat)
  /\ proc = "queue" => left > 0

(* A worker that is not started is nowhere. *)
NotStarted ==
  /\ manager = "new" => rx = "off"
  /\ manager \in {"new", "rx_started"} => proc = "off"

(* While a worker is falling asleep, which it does under the mutex, it is  *)
(* still true that it has nothing to do.                                   *)
GapInv ==
  /\ rx = "gap" => command_queue = <<>>
  /\ proc = "gap" => ~Ring!CanPop(Reader)

SleepInv == NotStarted /\ GapInv /\ NoSleepOverWork

(* The numbers rise from the log over the command at hand to the queue. *)
NumbersRise ==
  /\ \A i, j \in 1 .. Len(command_queue) : i < j => command_queue[i].n < command_queue[j].n
  /\ \A i \in 1 .. Len(command_queue) : /\ command.n < command_queue[i].n
                                        /\ command_queue[i].n <= asked
  /\ command.n <= asked
  /\ \A i, j \in 1 .. Len(log) : i < j => log[i].n < log[j].n
  /\ \A i \in 1 .. Len(log) : 1 <= log[i].n /\ log[i].n <= command.n
  /\ rx = "execute" => /\ 1 <= command.n
                       /\ \A i \in 1 .. Len(log) : log[i].n < command.n

(* What was handled was read before, and the response at hand is later     *)
(* than all of it.                                                         *)
HandledWasRead ==
  /\ \A i \in 1 .. Len(handled) :
       \E k \in 1 .. Len(log) : k <= read_index[Reader] /\ handled[i] = log[k].n
  /\ proc = "handle" =>
       \E k \in 1 .. Len(log) :
         /\ k <= read_index[Reader] /\ Message = log[k]
         /\ \A i \in 1 .. Len(handled) : handled[i] < log[k].n

IInv == RingInv /\ OwnTypes /\ SleepInv /\ NumbersRise /\ HandledWasRead

-----------------------------------------------------------------------------
(* The buffer's operations *)

LEMMA ReaderIsOne == Reader \in Ring!ReaderId
BY PipelineAssumption DEF Reader, Ring!ReaderId

(* Dropping the k oldest elements of a sequence. *)
LEMMA DropFront ==
  ASSUME NEW S, NEW q \in Seq(S), NEW k \in 0 .. Len(q)
  PROVE  /\ SubSeq(q, k + 1, Len(q)) \in Seq(S)
         /\ Len(SubSeq(q, k + 1, Len(q))) = Len(q) - k
         /\ \A i \in 1 .. Len(q) - k : SubSeq(q, k + 1, Len(q))[i] = q[k + i]
<1>1. /\ k + 1 \in Int
      /\ Len(q) \in Int
      /\ \A i \in k + 1 .. Len(q) : q[i] \in S
  OBVIOUS
<1>2. /\ SubSeq(q, k + 1, Len(q)) \in Seq(S)
      /\ Len(SubSeq(q, k + 1, Len(q))) = IF k + 1 <= Len(q) THEN Len(q) - (k + 1) + 1 ELSE 0
      /\ \A i \in 1 .. Len(q) - (k + 1) + 1 : SubSeq(q, k + 1, Len(q))[i] = q[k + 1 + i - 1]
  BY <1>1, SubSeqProperties
<1>3. QED
  BY <1>2

(* Facts of RingInv that every operation needs. *)
LEMMA RingBasics ==
  ASSUME RingInv
  PROVE  /\ base_index \in Nat /\ Len(queue) \in Nat /\ Len(log) \in Nat
         /\ queue \in Seq(Commands) /\ log \in Seq(Commands)
         /\ Ring!End = base_index + Len(queue) /\ Ring!End = Len(log)
         /\ active \in [Ring!ReaderId -> BOOLEAN] /\ read_index \in [Ring!ReaderId -> Nat]
         /\ got \in [Ring!ReaderId -> Seq(Commands)]
BY DEF RingInv, Ring!TypeOK, Ring!End

LEMMA RingNumbers ==
  ASSUME RingInv
  PROVE  /\ base_index \in Nat /\ Len(queue) \in Nat /\ Len(log) \in Nat
         /\ Ring!End = base_index + Len(queue) /\ Ring!End = Len(log)
BY RingBasics

LEMMA RingStutter ==
  ASSUME RingInv, UNCHANGED ring
  PROVE  RingInv'
BY DEF RingInv, ring, Ring!TypeOK, Ring!End

(* What trimConsumed() leaves of the window and of the log's tail. *)
LEMMA TrimEffect ==
  ASSUME RingInv, log' = log,
         NEW act \in [Ring!ReaderId -> BOOLEAN], NEW cur \in [Ring!ReaderId -> Nat],
         \A r \in Ring!ReaderId : act[r] => cur[r] \in base_index .. Ring!End,
         Ring!TrimConsumed(act, cur)
  PROVE  /\ base_index' \in Nat /\ queue' \in Seq(Commands)
         /\ Ring!End' = Ring!End /\ Len(queue') <= MaxSize
         /\ \A i \in 1 .. Len(queue') : queue'[i] = log[base_index' + i]
         /\ \A r \in Ring!ReaderId : act[r] => cur[r] \in base_index' .. Ring!End
<1>. DEFINE k == base_index' - base_index
<1>1. PICK b \in base_index .. Ring!End :
         /\ Ring!TrimsTo(b, act, cur)
         /\ base_index' = b
         /\ queue' = SubSeq(queue, b - base_index + 1, Len(queue))
  BY DEF Ring!TrimConsumed
<1>2. /\ k \in Nat /\ k <= Len(queue) /\ base_index' \in Nat
      /\ base_index' = base_index + k /\ b - base_index + 1 = k + 1
  BY <1>1, RingNumbers
<1>. HIDE DEF k
<1>3. /\ queue' \in Seq(Commands)
      /\ Len(queue') = Len(queue) - k
      /\ \A i \in 1 .. Len(queue) - k : queue'[i] = queue[k + i]
  <2>1. k \in 0 .. Len(queue)
    BY <1>2, RingNumbers
  <2>2. QED
    BY <1>1, <1>2, <2>1, RingBasics, DropFront
<1>4. Ring!End' = Ring!End
  BY <1>1, <1>2, <1>3, RingBasics DEF Ring!End
<1>5. Len(queue') <= MaxSize
  BY <1>2, <1>3, RingBasics, PipelineAssumption DEF RingInv
<1>6. \A r \in Ring!ReaderId : act[r] => cur[r] \in base_index' .. Ring!End
  BY <1>1, RingBasics DEF Ring!TrimsTo
<1>7. ASSUME NEW i \in 1 .. Len(queue')
      PROVE  queue'[i] = log[base_index' + i]
  <2>1. k + i \in 1 .. Len(queue) /\ base_index + (k + i) = base_index' + i
    BY <1>2, <1>3, RingNumbers
  <2>2. queue[k + i] = log[base_index + (k + i)]
    BY <2>1 DEF RingInv
  <2>3. QED
    BY <1>3, <2>1, <2>2, RingBasics
<1>8. QED
  BY <1>2, <1>3, <1>4, <1>5, <1>6, <1>7

LEMMA RegisterStep ==
  ASSUME RingInv, Ring!RegisterReader(Reader)
  PROVE  /\ RingInv'
         /\ log' = log /\ read_index'[Reader] = Len(log)
<1>. USE DEF Ring!RegisterReader
<1>1. Ring!End' = Ring!End
  BY DEF Ring!End
<1>2. Ring!TypeOK'
  <2>1. Ring!End \in Nat /\ Len(log) \in Nat
    BY RingNumbers
  <2>2. /\ active \in [Ring!ReaderId -> BOOLEAN] /\ read_index \in [Ring!ReaderId -> Nat]
        /\ total_reads \in [Ring!ReaderId -> Nat] /\ got \in [Ring!ReaderId -> Seq(Commands)]
        /\ since \in [Ring!ReaderId -> Nat] /\ missed \in [Ring!ReaderId -> Nat]
    BY DEF RingInv, Ring!TypeOK
  <2>3. /\ active' \in [Ring!ReaderId -> BOOLEAN] /\ read_index' \in [Ring!ReaderId -> Nat]
        /\ total_reads' \in [Ring!ReaderId -> Nat]
    BY <2>1, <2>2, ReaderIsOne
  <2>4. /\ got' \in [Ring!ReaderId -> Seq(Commands)]
        /\ since' \in [Ring!ReaderId -> Nat] /\ missed' \in [Ring!ReaderId -> Nat]
    <3>1. /\ got' = [got EXCEPT ![Reader] = <<>>]
          /\ since' = [since EXCEPT ![Reader] = Len(log)]
          /\ missed' = [missed EXCEPT ![Reader] = 0]
      OBVIOUS
    <3>2. since' \in [Ring!ReaderId -> Nat] /\ missed' \in [Ring!ReaderId -> Nat]
      BY <2>1, <2>2, <3>1, ReaderIsOne
    <3>3. got' \in [Ring!ReaderId -> Seq(Commands)]
      BY <2>2, <3>1, ReaderIsOne
    <3>4. QED
      BY <3>2, <3>3
  <2>5. QED
    BY <2>3, <2>4 DEF RingInv, Ring!TypeOK
<1>3. \A r \in Ring!ReaderId : active'[r] => read_index'[r] \in base_index' .. Ring!End'
  BY <1>1, RingBasics, ReaderIsOne DEF RingInv
<1>4. QED
  BY <1>1, <1>2, <1>3, RingBasics, ReaderIsOne DEF RingInv

LEMMA UnregisterStep ==
  ASSUME RingInv, Ring!UnregisterReader(Reader)
  PROVE  /\ RingInv'
         /\ log' = log /\ read_index' = read_index /\ got' = got
<1>. USE DEF Ring!UnregisterReader
<1>1. active' \in [Ring!ReaderId -> BOOLEAN] /\ \A r \in Ring!ReaderId : active'[r] => active[r]
  BY RingBasics, ReaderIsOne
<1>2. \A r \in Ring!ReaderId : active'[r] => read_index[r] \in base_index .. Ring!End
  BY <1>1 DEF RingInv
<1>3. /\ base_index' \in Nat /\ queue' \in Seq(Commands)
      /\ Ring!End' = Ring!End /\ Len(queue') <= MaxSize
      /\ \A i \in 1 .. Len(queue') : queue'[i] = log[base_index' + i]
      /\ \A r \in Ring!ReaderId : active'[r] => read_index[r] \in base_index' .. Ring!End
  BY <1>1, <1>2, RingBasics, TrimEffect
<1>4. Ring!TypeOK'
  BY <1>1, <1>3 DEF RingInv, Ring!TypeOK
<1>5. QED
  BY <1>3, <1>4 DEF RingInv

(* The reader is given the next message of the log. *)
LEMMA PopStep ==
  ASSUME RingInv, Ring!Pop(Reader)
  PROVE  /\ RingInv'
         /\ log' = log /\ read_index'[Reader] = read_index[Reader] + 1
         /\ read_index[Reader] + 1 \in 1 .. Len(log)
         /\ got[Reader] \in Seq(Commands)
         /\ got'[Reader] = Append(got[Reader], log[read_index[Reader] + 1])
<1>0. /\ Ring!CanPop(Reader)
      /\ got' = [got EXCEPT ![Reader] = Append(@, queue[read_index[Reader] - base_index + 1])]
      /\ read_index' = [read_index EXCEPT ![Reader] = @ + 1]
      /\ total_reads' = [total_reads EXCEPT ![Reader] = @ + 1]
      /\ Ring!TrimConsumed(active, read_index')
      /\ active' = active /\ total_writes' = total_writes /\ drop_count' = drop_count
      /\ log' = log /\ since' = since /\ missed' = missed
  BY DEF Ring!Pop
<1>1. /\ active[Reader] /\ read_index[Reader] < Ring!End
      /\ read_index[Reader] \in base_index .. Ring!End
  BY <1>0, ReaderIsOne DEF RingInv, Ring!CanPop
<1>2. /\ read_index' \in [Ring!ReaderId -> Nat]
      /\ read_index'[Reader] = read_index[Reader] + 1
      /\ \A r \in Ring!ReaderId : r # Reader => read_index'[r] = read_index[r]
  BY <1>0, RingBasics, ReaderIsOne
<1>3. \A r \in Ring!ReaderId : active[r] => read_index'[r] \in base_index .. Ring!End
  <2>1. ASSUME NEW r \in Ring!ReaderId, active[r], r # Reader
        PROVE  read_index'[r] \in base_index .. Ring!End
    BY <1>2, <2>1 DEF RingInv
  <2>2. read_index'[Reader] \in base_index .. Ring!End
    BY <1>1, <1>2, RingBasics
  <2>3. QED
    BY <2>1, <2>2
<1>4. /\ base_index' \in Nat /\ queue' \in Seq(Commands)
      /\ Ring!End' = Ring!End /\ Len(queue') <= MaxSize
      /\ \A i \in 1 .. Len(queue') : queue'[i] = log[base_index' + i]
      /\ \A r \in Ring!ReaderId : active[r] => read_index'[r] \in base_index' .. Ring!End
  BY <1>0, <1>2, <1>3, RingBasics, TrimEffect
<1>5. /\ read_index[Reader] + 1 \in 1 .. Len(log)
      /\ queue[read_index[Reader] - base_index + 1] = log[read_index[Reader] + 1]
      /\ queue[read_index[Reader] - base_index + 1] \in Commands
  <2>1. /\ read_index[Reader] - base_index + 1 \in 1 .. Len(queue)
        /\ base_index + (read_index[Reader] - base_index + 1) = read_index[Reader] + 1
        /\ read_index[Reader] + 1 \in 1 .. Len(log)
    BY <1>1, RingBasics
  <2>2. queue[read_index[Reader] - base_index + 1]
          = log[base_index + (read_index[Reader] - base_index + 1)]
    BY <2>1 DEF RingInv
  <2>3. QED
    BY <2>1, <2>2, RingBasics
<1>6. /\ got'[Reader] = Append(got[Reader], log[read_index[Reader] + 1])
      /\ got[Reader] \in Seq(Commands)
      /\ got' \in [Ring!ReaderId -> Seq(Commands)]
  BY <1>0, <1>5, RingBasics, ReaderIsOne
<1>7. Ring!TypeOK'
  <2>1. total_reads' \in [Ring!ReaderId -> Nat]
    <3>1. total_reads \in [Ring!ReaderId -> Nat]
      BY DEF RingInv, Ring!TypeOK
    <3>2. QED
      BY <1>0, <3>1, ReaderIsOne
  <2>2. /\ log' \in Seq(Commands) /\ since' \in [Ring!ReaderId -> Nat]
        /\ missed' \in [Ring!ReaderId -> Nat] /\ total_writes' \in Nat /\ drop_count' \in Nat
        /\ active' \in [Ring!ReaderId -> BOOLEAN]
    BY <1>0 DEF RingInv, Ring!TypeOK
  <2>3. QED
    BY <1>2, <1>4, <1>6, <2>1, <2>2 DEF Ring!TypeOK
<1>8. RingInv'
  BY <1>0, <1>4, <1>7 DEF RingInv
<1>9. QED
  BY <1>0, <1>2, <1>5, <1>6, <1>8

(* Cursors only move on, and the log grows at its end. *)
LEMMA PushStep ==
  ASSUME RingInv, NEW m \in Commands, Ring!Push(m)
  PROVE  /\ RingInv'
         /\ log' = Append(log, m) /\ got' = got
         /\ read_index'[Reader] \in Nat /\ read_index[Reader] <= read_index'[Reader]
<1>0. /\ base_index' = base_index + Ring!Overflow
      /\ read_index' = [r \in Ring!ReaderId |-> IF active[r] /\ read_index[r] < base_index'
                                               THEN base_index' ELSE read_index[r]]
      /\ queue' = Append(SubSeq(queue, Ring!Overflow + 1, Len(queue)), m)
      /\ drop_count' = drop_count + Ring!Overflow /\ total_writes' = total_writes + 1
      /\ log' = Append(log, m)
      /\ missed' = [r \in Ring!ReaderId |-> missed[r] + (read_index'[r] - read_index[r])]
      /\ active' = active /\ total_reads' = total_reads /\ got' = got /\ since' = since
  BY DEF Ring!Push
<1>1. /\ base_index + Len(queue) = Len(log) /\ Len(queue) <= MaxSize
      /\ MaxSize \in Nat \ {0}
      /\ \A i \in 1 .. Len(queue) : queue[i] = log[base_index + i]
  BY RingBasics, PipelineAssumption DEF RingInv
<1>2. /\ Ring!Overflow \in 0 .. Len(queue)
      /\ Ring!Overflow = 0 => Len(queue) < MaxSize
      /\ Ring!Overflow = 1 => Len(queue) = MaxSize
      /\ Ring!Overflow \in 0 .. 1
  BY <1>1, RingBasics DEF Ring!Overflow
<1>. DEFINE o == Ring!Overflow
            kept == SubSeq(queue, o + 1, Len(queue))
<1>3. /\ kept \in Seq(Commands)
      /\ Len(kept) = Len(queue) - o
      /\ \A i \in 1 .. Len(queue) - o : kept[i] = queue[o + i]
  BY <1>2, RingBasics, DropFront
<1>. HIDE DEF kept, o
<1>4. queue' = Append(kept, m) /\ base_index' = base_index + o
  BY <1>0 DEF kept, o
<1>5. /\ queue' \in Seq(Commands)
      /\ Len(queue') = Len(queue) - o + 1
      /\ \A i \in 1 .. Len(queue) - o : queue'[i] = queue[o + i]
      /\ queue'[Len(queue) - o + 1] = m
  BY <1>3, <1>4
<1>6. /\ log' \in Seq(Commands) /\ Len(log') = Len(log) + 1
      /\ \A i \in 1 .. Len(log) : log'[i] = log[i]
      /\ log'[Len(log) + 1] = m
  BY <1>0, RingBasics
<1>7. /\ base_index' \in Nat /\ o \in 0 .. Len(queue) /\ o \in 0 .. 1
      /\ Ring!End' = Len(log') /\ Ring!End' = base_index' + Len(queue')
      /\ Len(queue') <= MaxSize
  <2>1. /\ o \in 0 .. Len(queue) /\ o \in 0 .. 1
        /\ o = 0 => Len(queue) < MaxSize
    BY <1>2 DEF o
  <2>2. Ring!End' = base_index' + Len(queue')
    BY DEF Ring!End
  <2>3. base_index' = base_index + o /\ Len(queue') = Len(queue) - o + 1 /\ Len(log') = Len(log) + 1
    BY <1>4, <1>5, <1>6
  <2>4. base_index + Len(queue) = Len(log) /\ Len(queue) <= MaxSize /\ MaxSize \in Nat
    BY <1>1
  <2>5. QED
    BY <2>1, <2>2, <2>3, <2>4, RingNumbers
<1>8. ASSUME NEW r \in Ring!ReaderId
      PROVE  /\ read_index'[r] \in Nat /\ read_index[r] \in Nat
             /\ read_index[r] <= read_index'[r]
             /\ active'[r] => read_index'[r] \in base_index' .. Ring!End'
  <2>1. read_index'[r] = IF active[r] /\ read_index[r] < base_index'
                         THEN base_index' ELSE read_index[r]
    BY <1>0
  <2>2. read_index[r] \in Nat /\ (active[r] => read_index[r] \in base_index .. Ring!End)
    BY RingBasics DEF RingInv
  <2>3. base_index' <= Ring!End' /\ Ring!End <= Ring!End' /\ Ring!End \in Nat /\ Ring!End' \in Nat
    <3>1. /\ Ring!End' = Len(log) + 1 /\ Ring!End' = base_index' + (Len(queue) - o + 1)
          /\ base_index' \in Nat /\ o \in 0 .. Len(queue)
      BY <1>5, <1>6, <1>7
    <3>2. Len(queue) \in Nat /\ Len(log) \in Nat /\ Ring!End = Len(log)
      BY RingNumbers
    <3>3. QED
      BY <3>1, <3>2
  <2>5. active'[r] = active[r] /\ base_index \in Nat /\ base_index' \in Nat
    BY <1>0, <1>7, RingNumbers
  <2>6. CASE active[r] /\ read_index[r] < base_index'
    BY <2>1, <2>2, <2>3, <2>5, <2>6
  <2>7. CASE ~(active[r] /\ read_index[r] < base_index')
    BY <2>1, <2>2, <2>3, <2>5, <2>7
  <2>8. QED
    BY <2>6, <2>7
<1>9. Ring!TypeOK'
  <2>1. /\ drop_count \in Nat /\ total_writes \in Nat
        /\ active \in [Ring!ReaderId -> BOOLEAN] /\ total_reads \in [Ring!ReaderId -> Nat]
        /\ got \in [Ring!ReaderId -> Seq(Commands)] /\ since \in [Ring!ReaderId -> Nat]
        /\ missed \in [Ring!ReaderId -> Nat]
    BY DEF RingInv, Ring!TypeOK
  <2>2. drop_count' \in Nat /\ total_writes' \in Nat
    BY <1>0, <1>2, <2>1
  <2>3. read_index' \in [Ring!ReaderId -> Nat]
    BY <1>0, <1>8
  <2>4. missed' \in [Ring!ReaderId -> Nat]
    <3>1. \A r \in Ring!ReaderId : missed[r] + (read_index'[r] - read_index[r]) \in Nat
      BY <1>8, <2>1
    <3>2. QED
      BY <1>0, <3>1
  <2>5. QED
    BY <1>0, <1>5, <1>6, <1>7, <2>1, <2>2, <2>3, <2>4 DEF Ring!TypeOK
<1>10. ASSUME NEW i \in 1 .. Len(queue')
       PROVE  queue'[i] = log'[base_index' + i]
  <2>1. CASE i \in 1 .. Len(queue) - o
    <3>1. /\ o + i \in 1 .. Len(queue) /\ base_index + (o + i) = base_index' + i
          /\ base_index + (o + i) \in 1 .. Len(log)
      <4>1. /\ base_index \in Nat /\ Len(queue) \in Nat
            /\ base_index + Len(queue) = Len(log) /\ base_index' = base_index + o
        BY <1>1, <1>4, RingNumbers
      <4>2. QED
        BY <1>7, <2>1, <4>1
    <3>2. queue'[i] = queue[o + i] /\ queue[o + i] = log[base_index + (o + i)]
      BY <1>1, <1>5, <2>1, <3>1
    <3>3. QED
      BY <1>6, <3>1, <3>2
  <2>2. CASE i = Len(queue) - o + 1
    <3>1. base_index' + i = Len(log) + 1
      <4>1. /\ base_index \in Nat /\ Len(queue) \in Nat
            /\ base_index + Len(queue) = Len(log) /\ base_index' = base_index + o
        BY <1>1, <1>4, RingNumbers
      <4>2. QED
        BY <1>7, <2>2, <4>1
    <3>2. QED
      BY <1>5, <1>6, <2>2, <3>1
  <2>3. i \in 1 .. Len(queue) - o \/ i = Len(queue) - o + 1
    BY <1>5, <1>7, RingBasics
  <2>4. QED
    BY <2>1, <2>2, <2>3
<1>11. RingInv'
  BY <1>7, <1>8, <1>9, <1>10 DEF RingInv
<1>12. QED
  BY <1>0, <1>8, <1>11, ReaderIsOne

-----------------------------------------------------------------------------
LEMMA InitIInv == Init => IInv
<1>1. SUFFICES ASSUME Init PROVE IInv
  OBVIOUS
<1>2. /\ Len(queue) = 0 /\ Len(log) = 0 /\ Len(command_queue) = 0 /\ Len(handled) = 0
      /\ \A r \in Ring!ReaderId : ~active[r]
  BY <1>1 DEF Init, Ring!Init
<1>3. Ring!TypeOK
  BY <1>1 DEF Init, Ring!Init, Ring!TypeOK
<1>4. RingInv
  BY <1>1, <1>2, <1>3, PipelineAssumption DEF Init, Ring!Init, RingInv, Ring!End
<1>5. OwnTypes
  <2>1. command \in Commands /\ command_queue \in Seq(Commands) /\ handled \in Seq(Nat)
    <3>1. "SER" \in Texts
      BY DEF Texts
    <3>2. QED
      BY <1>1, <3>1 DEF Init, Commands
  <2>2. stop_flag \in [{"rx", "proc"} -> BOOLEAN]
    BY <1>1 DEF Init
  <2>3. polls \in 0 .. MaxPolls /\ left \in Nat /\ asked \in Nat
    BY <1>1, PipelineAssumption DEF Init
  <2>4. app_running \in BOOLEAN /\ answering \in BOOLEAN /\ unheard \in BOOLEAN
    BY <1>1 DEF Init
  <2>5. QED
    BY <1>1, <2>1, <2>2, <2>3, <2>4 DEF Init, OwnTypes, RxPlaces, ProcPlaces, ManagerPlaces
<1>6. SleepInv
  BY <1>1 DEF Init, SleepInv, NotStarted, GapInv, NoSleepOverWork
<1>7. NumbersRise /\ HandledWasRead
  BY <1>1, <1>2 DEF Init, NumbersRise, HandledWasRead
<1>8. QED
  BY <1>4, <1>5, <1>6, <1>7 DEF IInv

(* Which steps touch the buffer. *)
LEMMA RingTouched ==
  ASSUME [Next]_vars
  PROVE  UNCHANGED ring \/ Answered \/ ProcTest \/ StartProc \/ JoinProc
<1>1. CASE RxSleeps \/ Failed \/ RxTest \/ NotifyReaders \/ RxRestarts
  BY <1>1 DEF RxSleeps, Failed, RxTest, NotifyReaders, RxRestarts
<1>2. CASE ProcSleeps \/ ProcLoop \/ Handle \/ ProcRestarts \/ AskForFile \/ TellOfFile
  BY <1>2 DEF ProcSleeps, ProcLoop, Handle, ProcRestarts, AskForFile, TellOfFile
<1>3. CASE StartRx \/ QueueStartup \/ NotifyStartup \/ NotifyPoll \/ QueuePoll
  BY <1>3 DEF StartRx, QueueStartup, NotifyStartup, NotifyPoll, QueuePoll
<1>4. CASE StopRx \/ WakeRx \/ WakeReader \/ JoinRx \/ WakeProc \/ Environment
  BY <1>4 DEF StopRx, WakeRx, WakeReader, JoinRx, WakeProc, Environment
<1>5. CASE UNCHANGED vars
  BY <1>5 DEF vars
<1>6. QED
  BY <1>1, <1>2, <1>3, <1>4, <1>5 DEF Next, Rx, Proc, Starting, Stopping

LEMMA RingStep ==
  ASSUME IInv, [Next]_vars
  PROVE  RingInv'
<1>1. CASE UNCHANGED ring
  BY <1>1, RingStutter DEF IInv
<1>2. CASE Answered
  BY <1>2, PushStep DEF Answered, IInv, OwnTypes
<1>3. CASE ProcTest
  BY <1>3, PopStep, RingStutter DEF ProcTest, IInv
<1>4. CASE StartProc
  BY <1>4, RegisterStep DEF StartProc, IInv
<1>5. CASE JoinProc
  BY <1>5, UnregisterStep DEF JoinProc, IInv
<1>6. QED
  BY <1>1, <1>2, <1>3, <1>4, <1>5, RingTouched

-----------------------------------------------------------------------------
(* The types *)

LEMMA MessageType ==
  ASSUME IInv, proc = "handle"
  PROVE  Message \in Commands
<1>1. PICK k \in 1 .. Len(log) : Message = log[k]
  BY DEF IInv, HandledWasRead
<1>2. QED
  BY <1>1, RingBasics DEF IInv

(* What queueCommand() appends is a command. *)
LEMMA QueuedType ==
  ASSUME OwnTypes,
         NEW c \in Texts, QueueCommand(c)
  PROVE  asked' = asked + 1 /\ asked' \in Nat /\ command_queue' \in Seq(Commands)
<1>1. asked' = asked + 1
  BY DEF QueueCommand
<1>2. asked \in Nat /\ command_queue \in Seq(Commands)
  BY DEF OwnTypes
<1>3. asked' \in Nat
  BY <1>1, <1>2
<1>4. [cmd |-> c, n |-> asked'] \in Commands
  BY <1>3 DEF Commands
<1>5. command_queue' = Append(command_queue, [cmd |-> c, n |-> asked'])
  BY DEF QueueCommand
<1>6. command_queue' \in Seq(Commands)
  BY <1>2, <1>4, <1>5
<1>7. QED
  BY <1>1, <1>3, <1>6

LEMMA StartupTexts ==
  ASSUME OwnTypes, asked < Len(Startup)
  PROVE  Startup[asked + 1] \in Texts
<1>1. asked \in Nat /\ Len(Startup) = 3
  BY DEF OwnTypes, Startup
<1>2. asked + 1 = 1 \/ asked + 1 = 2 \/ asked + 1 = 3
  BY <1>1
<1>3. Startup[1] = "SER 1000" /\ Startup[2] = "FILE DIR EVENTS" /\ Startup[3] = "FIL DIR"
  BY DEF Startup
<1>4. QED
  BY <1>2, <1>3 DEF Texts

LEMMA TypeStep ==
  ASSUME IInv, [Next]_vars
  PROVE  OwnTypes'
<1>. USE DEF OwnTypes, RxPlaces, ProcPlaces, ManagerPlaces, outside
<1>0. OwnTypes
  BY DEF IInv
<1>1. CASE RxTest
  <2>1. CASE command_queue # <<>> /\ TakeCommand
    <3>1. command' \in Commands /\ command_queue' \in Seq(Commands)
      BY <1>0, <2>1 DEF TakeCommand
    <3>2. QED
      BY <1>0, <1>1, <3>1 DEF RxTest
  <2>2. CASE UNCHANGED <<command, command_queue>>
    BY <1>0, <1>1, <2>2 DEF RxTest
  <2>3. QED
    BY <1>1, <2>1, <2>2 DEF RxTest
<1>2. CASE RxSleeps
  BY <1>0, <1>2 DEF RxSleeps
<1>3. CASE Answered
  BY <1>0, <1>3 DEF Answered
<1>4. CASE Failed
  BY <1>0, <1>4 DEF Failed
<1>5. CASE NotifyReaders
  BY <1>0, <1>5 DEF NotifyReaders, Woken
<1>6. CASE RxRestarts
  BY <1>0, <1>6 DEF RxRestarts
<1>7. CASE ProcLoop
  BY <1>0, <1>7 DEF ProcLoop
<1>8. CASE ProcTest
  BY <1>0, <1>8 DEF ProcTest
<1>9. CASE ProcSleeps
  BY <1>0, <1>9 DEF ProcSleeps
<1>10. CASE Handle
  <2>1. CASE handled' = Append(handled, Message.n)
    <3>1. handled' \in Seq(Nat)
      <4>1. Message.n \in Nat
        BY <1>10, MessageType DEF Handle, Commands
      <4>2. handled \in Seq(Nat)
        BY <1>0
      <4>3. QED
        BY <2>1, <4>1, <4>2
    <3>2. left' \in Nat
      <4>1. NFiles \in Nat /\ left \in Nat
        BY <1>0, PipelineAssumption
      <4>2. left' = left \/ left' = NFiles \/ left' = 0
        BY <1>10 DEF Handle
      <4>3. QED
        BY <4>1, <4>2
    <3>3. QED
      BY <1>0, <1>10, <3>1, <3>2 DEF Handle
  <2>2. CASE UNCHANGED <<handled, left>>
    BY <1>0, <1>10, <2>2 DEF Handle
  <2>3. QED
    BY <1>10, <2>1, <2>2 DEF Handle
<1>11. CASE ProcRestarts
  BY <1>0, <1>11 DEF ProcRestarts
<1>12. CASE AskForFile
  <2>1. asked' \in Nat /\ command_queue' \in Seq(Commands)
    <3>1. "FILE SHOW" \in Texts
      BY DEF Texts
    <3>2. QED
      BY <1>0, <1>12, <3>1, QueuedType DEF AskForFile
  <2>2. left' \in Nat
    <3>1. left \in Nat /\ left > 0 /\ left' = left - 1
      BY <1>0, <1>12 DEF AskForFile
    <3>2. QED
      BY <3>1
  <2>3. QED
    BY <1>0, <1>12, <2>1, <2>2 DEF AskForFile
<1>13. CASE TellOfFile
  BY <1>0, <1>13 DEF TellOfFile, Woken
<1>14. CASE StartRx
  BY <1>0, <1>14 DEF StartRx
<1>15. CASE StartProc
  BY <1>0, <1>15 DEF StartProc
<1>16. CASE QueueStartup
  <2>1. Startup[asked + 1] \in Texts
    BY <1>0, <1>16, StartupTexts DEF QueueStartup
  <2>2. asked' \in Nat /\ command_queue' \in Seq(Commands)
    BY <1>0, <1>16, <2>1, QueuedType DEF QueueStartup
  <2>3. QED
    BY <1>0, <1>16, <2>2 DEF QueueStartup
<1>17. CASE NotifyStartup
  BY <1>0, <1>17 DEF NotifyStartup, Woken
<1>18. CASE QueuePoll
  <2>1. asked' \in Nat /\ command_queue' \in Seq(Commands)
    <3>1. "SER" \in Texts
      BY DEF Texts
    <3>2. QED
      BY <1>0, <1>18, <3>1, QueuedType DEF QueuePoll
  <2>2. polls' \in 0 .. MaxPolls
    BY <1>0, <1>18, PipelineAssumption DEF QueuePoll
  <2>3. QED
    BY <1>0, <1>18, <2>1, <2>2 DEF QueuePoll
<1>19. CASE NotifyPoll
  BY <1>0, <1>19 DEF NotifyPoll, Woken
<1>20. CASE StopRx
  BY <1>0, <1>20 DEF StopRx
<1>21. CASE WakeRx
  BY <1>0, <1>21 DEF WakeRx, Woken
<1>22. CASE WakeReader
  BY <1>0, <1>22 DEF WakeReader, Woken
<1>23. CASE JoinRx
  BY <1>0, <1>23 DEF JoinRx
<1>24. CASE WakeProc
  BY <1>0, <1>24 DEF WakeProc, Woken
<1>25. CASE JoinProc
  BY <1>0, <1>25 DEF JoinProc
<1>26. CASE Environment
  <2>1. answering' \in BOOLEAN /\ app_running' \in BOOLEAN
    BY <1>0, <1>26 DEF Environment
  <2>2. QED
    BY <1>0, <1>26, <2>1 DEF Environment
<1>27. CASE UNCHANGED vars
  BY <1>0, <1>27 DEF vars
<1>28. QED
  BY <1>1, <1>2, <1>3, <1>4, <1>5, <1>6, <1>7, <1>8, <1>9, <1>10, <1>11, <1>12,
     <1>13, <1>14, <1>15, <1>16, <1>17, <1>18, <1>19, <1>20, <1>21, <1>22, <1>23,
     <1>24, <1>25, <1>26, <1>27
  DEF Next, Rx, Proc, Starting, Stopping

-----------------------------------------------------------------------------
(* The workers' sleep *)

LEMMA SleepStep ==
  ASSUME IInv, [Next]_vars
  PROVE  SleepInv'
<1>. USE DEF SleepInv, NotStarted, GapInv, NoSleepOverWork
<1>0. SleepInv
  BY DEF IInv
<1>1. ASSUME UNCHANGED ring
      PROVE  Ring!CanPop(Reader)' <=> Ring!CanPop(Reader)
  BY <1>1 DEF ring, Ring!CanPop, Ring!End
<1>2. CASE RxTest
  BY <1>0, <1>1, <1>2 DEF RxTest
<1>3. CASE RxSleeps
  BY <1>0, <1>1, <1>3 DEF RxSleeps
<1>4. CASE Answered
  BY <1>0, <1>1, <1>4 DEF Answered
<1>5. CASE Failed
  BY <1>0, <1>1, <1>5 DEF Failed
<1>6. CASE NotifyReaders
  BY <1>0, <1>1, <1>6 DEF NotifyReaders, Woken
<1>7. CASE RxRestarts
  BY <1>0, <1>1, <1>7 DEF RxRestarts
<1>8. CASE ProcLoop
  BY <1>0, <1>1, <1>8 DEF ProcLoop
<1>9. CASE ProcTest
  BY <1>0, <1>1, <1>9 DEF ProcTest
<1>10. CASE ProcSleeps
  BY <1>0, <1>1, <1>10 DEF ProcSleeps
<1>11. CASE Handle
  BY <1>0, <1>1, <1>11 DEF Handle
<1>12. CASE ProcRestarts
  BY <1>0, <1>1, <1>12 DEF ProcRestarts
<1>13. CASE AskForFile
  BY <1>0, <1>1, <1>13 DEF AskForFile, QueueCommand
<1>14. CASE TellOfFile
  BY <1>0, <1>1, <1>14 DEF TellOfFile, Woken
<1>15. CASE StartRx
  BY <1>0, <1>1, <1>15 DEF StartRx
<1>16. CASE StartProc
  BY <1>0, <1>1, <1>16 DEF StartProc
<1>17. CASE QueueStartup
  BY <1>0, <1>1, <1>17 DEF QueueStartup, QueueCommand
<1>18. CASE NotifyStartup
  BY <1>0, <1>1, <1>18 DEF NotifyStartup, Woken
<1>19. CASE QueuePoll
  BY <1>0, <1>1, <1>19 DEF QueuePoll, QueueCommand
<1>20. CASE NotifyPoll
  BY <1>0, <1>1, <1>20 DEF NotifyPoll, Woken
<1>21. CASE StopRx
  BY <1>0, <1>1, <1>21 DEF StopRx
<1>22. CASE WakeRx
  BY <1>0, <1>1, <1>22 DEF WakeRx, Woken
<1>23. CASE WakeReader
  BY <1>0, <1>1, <1>23 DEF WakeReader, Woken
<1>24. CASE JoinRx
  BY <1>0, <1>1, <1>24 DEF JoinRx
<1>25. CASE WakeProc
  BY <1>0, <1>1, <1>25 DEF WakeProc, Woken
<1>26. CASE JoinProc
  BY <1>0, <1>1, <1>26 DEF JoinProc
<1>27. CASE Environment
  BY <1>0, <1>1, <1>27 DEF Environment
<1>28. CASE UNCHANGED vars
  BY <1>0, <1>1, <1>28 DEF vars
<1>29. QED
  BY <1>2, <1>3, <1>4, <1>5, <1>6, <1>7, <1>8, <1>9, <1>10, <1>11, <1>12, <1>13,
     <1>14, <1>15, <1>16, <1>17, <1>18, <1>19, <1>20, <1>21, <1>22, <1>23, <1>24,
     <1>25, <1>26, <1>27, <1>28
  DEF Next, Rx, Proc, Starting, Stopping

-----------------------------------------------------------------------------
(* The numbers *)

LEMMA NumbersType ==
  ASSUME IInv
  PROVE  /\ asked \in Nat /\ command.n \in Nat
         /\ command_queue \in Seq(Commands) /\ Len(command_queue) \in Nat
         /\ \A i \in 1 .. Len(command_queue) : command_queue[i].n \in Nat
         /\ log \in Seq(Commands) /\ Len(log) \in Nat
         /\ \A i \in 1 .. Len(log) : log[i].n \in Nat
<1>1. \A c \in Commands : c.n \in Nat
  BY DEF Commands
<1>2. /\ asked \in Nat /\ command \in Commands /\ command_queue \in Seq(Commands)
      /\ log \in Seq(Commands)
  BY RingBasics DEF IInv, OwnTypes
<1>3. /\ \A i \in 1 .. Len(command_queue) : command_queue[i] \in Commands
      /\ \A i \in 1 .. Len(log) : log[i] \in Commands
      /\ Len(command_queue) \in Nat /\ Len(log) \in Nat
  BY <1>2
<1>4. QED
  BY <1>1, <1>2, <1>3

LEMMA NumbersKept ==
  ASSUME NumbersRise, UNCHANGED <<command_queue, command, log, asked>>,
         rx' = "execute" => rx = "execute"
  PROVE  NumbersRise'
BY DEF NumbersRise

LEMMA NumbersAsked ==
  ASSUME IInv, NEW c \in Texts, QueueCommand(c), UNCHANGED <<command, log, rx>>
  PROVE  NumbersRise'
<1>. DEFINE q == command_queue
<1>1. /\ asked' = asked + 1
      /\ Len(q') = Len(q) + 1
      /\ \A i \in 1 .. Len(q) : q'[i].n = q[i].n
      /\ q'[Len(q) + 1].n = asked'
  <2>1. asked' = asked + 1 /\ q' = Append(q, [cmd |-> c, n |-> asked'])
    BY DEF QueueCommand
  <2>2. /\ Len(q') = Len(q) + 1
        /\ \A i \in 1 .. Len(q) : q'[i] = q[i]
        /\ q'[Len(q) + 1] = [cmd |-> c, n |-> asked']
    BY <2>1, NumbersType
  <2>3. QED
    BY <2>1, <2>2
<1>. HIDE DEF q
<1>2. /\ \A i, j \in 1 .. Len(q) : i < j => q[i].n < q[j].n
      /\ \A i \in 1 .. Len(q) : command.n < q[i].n /\ q[i].n <= asked
      /\ command.n <= asked /\ command.n \in Nat /\ asked \in Nat /\ Len(q) \in Nat
      /\ \A i \in 1 .. Len(q) : q[i].n \in Nat
  BY NumbersType DEF q, IInv, NumbersRise
<1>3. \A i \in 1 .. Len(q') : i \in 1 .. Len(q) \/ i = Len(q) + 1
  BY <1>1, <1>2
<1>4. \A i \in 1 .. Len(q') : command'.n < q'[i].n /\ q'[i].n <= asked'
  BY <1>1, <1>2, <1>3
<1>5. ASSUME NEW i \in 1 .. Len(q'), NEW j \in 1 .. Len(q'), i < j
      PROVE  q'[i].n < q'[j].n
  <2>1. i \in 1 .. Len(q)
    BY <1>1, <1>2, <1>5
  <2>2. QED
    BY <1>1, <1>2, <1>3, <1>5, <2>1
<1>6. command'.n <= asked'
  BY <1>1, <1>2
<1>7. QED
  BY <1>4, <1>5, <1>6 DEF q, IInv, NumbersRise

LEMMA NumbersTaken ==
  ASSUME IInv, command_queue # <<>>, TakeCommand, UNCHANGED <<asked, log>>
  PROVE  NumbersRise'
<1>. DEFINE q == command_queue
<1>1. /\ q \in Seq(Commands) /\ q # <<>> /\ command' = Head(q) /\ q' = Tail(q)
  BY NumbersType DEF TakeCommand
<1>. HIDE DEF q
<1>2. /\ Len(q) \in Nat /\ Len(q) >= 1 /\ command' = q[1]
      /\ Len(q') = Len(q) - 1
      /\ \A i \in 1 .. Len(q) - 1 : q'[i] = q[i + 1]
  BY <1>1
<1>3. /\ \A i, j \in 1 .. Len(q) : i < j => q[i].n < q[j].n
      /\ \A i \in 1 .. Len(q) : command.n < q[i].n /\ q[i].n <= asked /\ q[i].n \in Nat
      /\ \A i \in 1 .. Len(log) : 1 <= log[i].n /\ log[i].n <= command.n /\ log[i].n \in Nat
      /\ command.n \in Nat /\ asked \in Nat
  BY NumbersType DEF q, IInv, NumbersRise
<1>4. ASSUME NEW i \in 1 .. Len(q')
      PROVE  i + 1 \in 1 .. Len(q) /\ 1 < i + 1 /\ q'[i] = q[i + 1]
  BY <1>2
<1>5. \A i \in 1 .. Len(q') : command'.n < q'[i].n /\ q'[i].n <= asked
  <2>1. 1 \in 1 .. Len(q)
    BY <1>2
  <2>2. QED
    BY <1>2, <1>3, <1>4, <2>1
<1>6. ASSUME NEW i \in 1 .. Len(q'), NEW j \in 1 .. Len(q'), i < j
      PROVE  q'[i].n < q'[j].n
  <2>1. /\ i + 1 \in 1 .. Len(q) /\ q'[i] = q[i + 1]
        /\ j + 1 \in 1 .. Len(q) /\ q'[j] = q[j + 1]
    BY <1>4
  <2>2. i + 1 < j + 1
    BY <1>6
  <2>3. QED
    BY <1>3, <2>1, <2>2
<1>7. command'.n <= asked /\ 1 <= command'.n /\ command.n < command'.n /\ command'.n \in Nat
  BY <1>2, <1>3
<1>8. \A i \in 1 .. Len(log) : log[i].n < command'.n /\ log[i].n <= command'.n
  BY <1>3, <1>7
<1>9. QED
  BY <1>5, <1>6, <1>7, <1>8 DEF q, IInv, NumbersRise

LEMMA NumbersAnswered ==
  ASSUME IInv, rx = "execute", rx' = "notify", log' = Append(log, command),
         UNCHANGED <<command_queue, command, asked>>
  PROVE  NumbersRise'
<1>1. /\ Len(log') = Len(log) + 1 /\ log'[Len(log) + 1] = command
      /\ \A i \in 1 .. Len(log) : log'[i] = log[i]
  BY NumbersType
<1>2. /\ \A i, j \in 1 .. Len(log) : i < j => log[i].n < log[j].n
      /\ \A i \in 1 .. Len(log) : 1 <= log[i].n /\ log[i].n < command.n /\ log[i].n \in Nat
      /\ 1 <= command.n /\ command.n \in Nat /\ Len(log) \in Nat
  BY NumbersType DEF IInv, NumbersRise
<1>3. \A i \in 1 .. Len(log') : i \in 1 .. Len(log) \/ i = Len(log) + 1
  BY <1>1, <1>2
<1>4. \A i \in 1 .. Len(log') : 1 <= log'[i].n /\ log'[i].n <= command.n
  BY <1>1, <1>2, <1>3
<1>5. ASSUME NEW i \in 1 .. Len(log'), NEW j \in 1 .. Len(log'), i < j
      PROVE  log'[i].n < log'[j].n
  <2>1. i \in 1 .. Len(log)
    BY <1>1, <1>2, <1>5
  <2>2. QED
    BY <1>1, <1>2, <1>3, <1>5, <2>1
<1>6. QED
  BY <1>4, <1>5 DEF IInv, NumbersRise

LEMMA NumbersStep ==
  ASSUME IInv, [Next]_vars
  PROVE  NumbersRise'
<1>0. NumbersRise
  BY DEF IInv
<1>1. CASE RxTest
  <2>1. CASE command_queue # <<>> /\ TakeCommand
    <3>1. UNCHANGED <<asked, log>>
      BY <1>1 DEF RxTest, ring
    <3>2. QED
      BY <2>1, <3>1, NumbersTaken
  <2>2. CASE UNCHANGED <<command, command_queue>> /\ rx' # "execute"
    BY <1>0, <1>1, <2>2, NumbersKept DEF RxTest, ring
  <2>3. QED
    BY <1>1, <2>1, <2>2 DEF RxTest
<1>2. CASE Answered
  <2>1. log' = Append(log, command)
    BY <1>2, PushStep DEF Answered, IInv, OwnTypes
  <2>2. QED
    BY <1>2, <2>1, NumbersAnswered DEF Answered
<1>3. CASE AskForFile
  <2>1. "FILE SHOW" \in Texts
    BY DEF Texts
  <2>2. QED
    BY <1>3, <2>1, NumbersAsked DEF AskForFile, ring
<1>4. CASE QueueStartup
  <2>1. PICK c \in Texts : QueueCommand(c)
    BY <1>4, StartupTexts DEF QueueStartup, IInv
  <2>2. QED
    BY <1>4, <2>1, NumbersAsked DEF QueueStartup, ring
<1>5. CASE QueuePoll
  <2>1. "SER" \in Texts
    BY DEF Texts
  <2>2. QED
    BY <1>5, <2>1, NumbersAsked DEF QueuePoll, ring
<1>6. CASE ProcTest
  <2>1. log' = log
    BY <1>6, PopStep DEF ProcTest, IInv, ring
  <2>2. QED
    BY <1>0, <1>6, <2>1, NumbersKept DEF ProcTest
<1>7. CASE StartProc
  BY <1>0, <1>7, NumbersKept DEF StartProc, Ring!RegisterReader
<1>8. CASE JoinProc
  BY <1>0, <1>8, NumbersKept DEF JoinProc, Ring!UnregisterReader
<1>9. CASE RxSleeps
  BY <1>0, <1>9, NumbersKept DEF RxSleeps, ring
<1>10. CASE Failed
  BY <1>0, <1>10, NumbersKept DEF Failed, ring
<1>11. CASE NotifyReaders
  BY <1>0, <1>11, NumbersKept DEF NotifyReaders, ring
<1>12. CASE RxRestarts
  BY <1>0, <1>12, NumbersKept DEF RxRestarts, ring
<1>13. CASE ProcLoop
  BY <1>0, <1>13, NumbersKept DEF ProcLoop, ring
<1>14. CASE ProcSleeps
  BY <1>0, <1>14, NumbersKept DEF ProcSleeps, ring
<1>15. CASE Handle
  BY <1>0, <1>15, NumbersKept DEF Handle, ring
<1>16. CASE ProcRestarts
  BY <1>0, <1>16, NumbersKept DEF ProcRestarts, ring
<1>17. CASE TellOfFile
  BY <1>0, <1>17, NumbersKept DEF TellOfFile, Woken, ring
<1>18. CASE StartRx
  BY <1>0, <1>18, NumbersKept DEF StartRx, ring
<1>19. CASE NotifyStartup
  BY <1>0, <1>19, NumbersKept DEF NotifyStartup, Woken, ring
<1>20. CASE NotifyPoll
  BY <1>0, <1>20, NumbersKept DEF NotifyPoll, Woken, ring
<1>21. CASE StopRx
  BY <1>0, <1>21, NumbersKept DEF StopRx, ring
<1>22. CASE WakeRx
  BY <1>0, <1>22, NumbersKept DEF WakeRx, Woken, ring
<1>23. CASE WakeReader
  BY <1>0, <1>23, NumbersKept DEF WakeReader, ring
<1>24. CASE JoinRx
  BY <1>0, <1>24, NumbersKept DEF JoinRx, ring
<1>25. CASE WakeProc
  BY <1>0, <1>25, NumbersKept DEF WakeProc, ring
<1>26. CASE Environment
  BY <1>0, <1>26, NumbersKept DEF Environment, ring
<1>27. CASE UNCHANGED vars
  BY <1>0, <1>27, NumbersKept DEF vars, ring
<1>28. QED
  BY <1>1, <1>2, <1>3, <1>4, <1>5, <1>6, <1>7, <1>8, <1>9, <1>10, <1>11, <1>12,
     <1>13, <1>14, <1>15, <1>16, <1>17, <1>18, <1>19, <1>20, <1>21, <1>22, <1>23,
     <1>24, <1>25, <1>26, <1>27
  DEF Next, Rx, Proc, Starting, Stopping

-----------------------------------------------------------------------------
(* What was handled *)

(* The log is kept, the cursor does not go back, no response is at hand    *)
(* that was not.                                                           *)
LEMMA HandledKept ==
  ASSUME IInv, handled' = handled,
         Len(log') \in Nat, Len(log) <= Len(log'),
         \A k \in 1 .. Len(log) : log'[k] = log[k],
         read_index'[Reader] \in Nat, read_index[Reader] <= read_index'[Reader],
         proc' = "handle" => proc = "handle" /\ got'[Reader] = got[Reader]
  PROVE  HandledWasRead'
<1>1. /\ Len(log) \in Nat /\ read_index[Reader] \in Nat
      /\ \A k \in 1 .. Len(log) : k \in 1 .. Len(log')
  BY RingBasics, ReaderIsOne DEF IInv
<1>2. ASSUME NEW i \in 1 .. Len(handled)
      PROVE  \E k \in 1 .. Len(log') : k <= read_index'[Reader] /\ handled[i] = log'[k].n
  <2>1. PICK k \in 1 .. Len(log) : k <= read_index[Reader] /\ handled[i] = log[k].n
    BY DEF IInv, HandledWasRead
  <2>2. QED
    BY <1>1, <2>1
<1>3. ASSUME proc' = "handle"
      PROVE  \E k \in 1 .. Len(log') :
               /\ k <= read_index'[Reader] /\ Message' = log'[k]
               /\ \A i \in 1 .. Len(handled) : handled[i] < log'[k].n
  <2>1. PICK k \in 1 .. Len(log) :
          /\ k <= read_index[Reader] /\ Message = log[k]
          /\ \A i \in 1 .. Len(handled) : handled[i] < log[k].n
    BY <1>3 DEF IInv, HandledWasRead
  <2>2. Message' = Message
    BY <1>3 DEF Message
  <2>3. QED
    BY <1>1, <2>1, <2>2
<1>4. QED
  BY <1>2, <1>3 DEF HandledWasRead

LEMMA HandledUntouched ==
  ASSUME IInv, handled' = handled, UNCHANGED ring, proc' = "handle" => proc = "handle"
  PROVE  HandledWasRead'
<1>1. /\ Len(log) \in Nat /\ read_index[Reader] \in Nat
      /\ log' = log /\ read_index' = read_index /\ got' = got
  BY RingBasics, ReaderIsOne DEF IInv, ring
<1>2. QED
  BY <1>1, HandledKept

(* The response waitPop() returns is later than all that were handled. *)
LEMMA HandledPopped ==
  ASSUME IInv, handled' = handled, Ring!Pop(Reader)
  PROVE  HandledWasRead'
<1>. DEFINE next == read_index[Reader] + 1
<1>1. /\ log' = log /\ read_index'[Reader] = next /\ next \in 1 .. Len(log)
      /\ got[Reader] \in Seq(Commands) /\ got'[Reader] = Append(got[Reader], log[next])
      /\ Len(log) \in Nat /\ read_index[Reader] \in Nat
  BY PopStep, RingBasics, ReaderIsOne DEF IInv
<1>2. Message' = log[next]
  <2>1. Message' = got'[Reader][Len(got'[Reader])]
    BY DEF Message
  <2>2. QED
    BY <1>1, <2>1
<1>3. ASSUME NEW i \in 1 .. Len(handled)
      PROVE  \E k \in 1 .. Len(log) : k < next /\ handled[i] = log[k].n
  <2>1. PICK k \in 1 .. Len(log) : k <= read_index[Reader] /\ handled[i] = log[k].n
    BY DEF IInv, HandledWasRead
  <2>2. k < next
    BY <1>1, <2>1
  <2>3. QED
    BY <2>1, <2>2
<1>4. ASSUME NEW i \in 1 .. Len(handled)
      PROVE  handled[i] < log[next].n
  <2>1. PICK k \in 1 .. Len(log) : k < next /\ handled[i] = log[k].n
    BY <1>3
  <2>2. log[k].n < log[next].n
    BY <1>1, <2>1 DEF IInv, NumbersRise
  <2>3. QED
    BY <2>1, <2>2
<1>5. \A i \in 1 .. Len(handled) :
        \E k \in 1 .. Len(log') : k <= read_index'[Reader] /\ handled[i] = log'[k].n
  <2>1. \A k \in 1 .. Len(log) : k < next => k <= read_index'[Reader]
    BY <1>1
  <2>2. log' = log
    BY <1>1
  <2>3. QED
    BY <1>3, <2>1, <2>2
<1>6. \E k \in 1 .. Len(log') :
        /\ k <= read_index'[Reader] /\ Message' = log'[k]
        /\ \A i \in 1 .. Len(handled) : handled[i] < log'[k].n
  <2>1. /\ next \in 1 .. Len(log') /\ next <= read_index'[Reader] /\ Message' = log'[next]
        /\ \A i \in 1 .. Len(handled) : handled[i] < log'[next].n
    BY <1>1, <1>2, <1>4
  <2>2. QED
    BY <2>1
<1>7. QED
  BY <1>5, <1>6 DEF HandledWasRead

LEMMA HandledMore ==
  ASSUME IInv, proc = "handle", proc' # "handle", UNCHANGED ring,
         handled' = Append(handled, Message.n)
  PROVE  HandledWasRead'
<1>1. PICK k \in 1 .. Len(log) :
        /\ k <= read_index[Reader] /\ Message = log[k]
        /\ \A i \in 1 .. Len(handled) : handled[i] < log[k].n
  BY DEF IInv, HandledWasRead
<1>2. log' = log /\ read_index' = read_index
  BY DEF ring
<1>3. /\ Len(handled') = Len(handled) + 1 /\ handled'[Len(handled) + 1] = log[k].n
      /\ \A i \in 1 .. Len(handled) : handled'[i] = handled[i]
      /\ Len(handled) \in Nat
  BY <1>1 DEF IInv, OwnTypes
<1>4. ASSUME NEW i \in 1 .. Len(handled')
      PROVE  \E j \in 1 .. Len(log) : j <= read_index[Reader] /\ handled'[i] = log[j].n
  <2>1. i \in 1 .. Len(handled) \/ i = Len(handled) + 1
    BY <1>3
  <2>2. CASE i \in 1 .. Len(handled)
    BY <1>3, <2>2 DEF IInv, HandledWasRead
  <2>3. CASE i = Len(handled) + 1
    BY <1>1, <1>3, <2>3
  <2>4. QED
    BY <2>1, <2>2, <2>3
<1>5. QED
  BY <1>2, <1>4 DEF HandledWasRead

LEMMA HandledStep ==
  ASSUME IInv, [Next]_vars
  PROVE  HandledWasRead'
<1>1. CASE Answered
  <2>1. /\ log' = Append(log, command) /\ got' = got /\ handled' = handled /\ proc' = proc
        /\ read_index'[Reader] \in Nat /\ read_index[Reader] <= read_index'[Reader]
    BY <1>1, PushStep DEF Answered, IInv, OwnTypes
  <2>2. /\ Len(log') \in Nat /\ Len(log) <= Len(log')
        /\ \A k \in 1 .. Len(log) : log'[k] = log[k]
    BY <2>1, NumbersType
  <2>3. QED
    BY <2>1, <2>2, HandledKept
<1>2. CASE ProcTest
  <2>1. CASE Ring!Pop(Reader)
    BY <1>2, <2>1, HandledPopped DEF ProcTest
  <2>2. CASE UNCHANGED ring /\ proc' # "handle"
    BY <1>2, <2>2, HandledUntouched DEF ProcTest
  <2>3. QED
    BY <1>2, <2>1, <2>2 DEF ProcTest
<1>3. CASE StartProc
  <2>1. log' = log /\ read_index'[Reader] = Len(log) /\ proc' # "handle" /\ handled' = handled
    BY <1>3, RegisterStep DEF StartProc, IInv
  <2>2. \A k \in 1 .. Len(log) : k <= read_index'[Reader]
    BY <2>1, NumbersType
  <2>3. QED
    BY <2>1, <2>2 DEF IInv, HandledWasRead
<1>4. CASE JoinProc
  <2>1. /\ log' = log /\ read_index' = read_index /\ got' = got
        /\ handled' = handled /\ proc' = proc
    BY <1>4, UnregisterStep DEF JoinProc, IInv
  <2>2. Len(log) \in Nat /\ read_index[Reader] \in Nat
    BY RingBasics, ReaderIsOne DEF IInv
  <2>3. QED
    BY <2>1, <2>2, HandledKept
<1>5. CASE Handle
  <2>1. CASE handled' = Append(handled, Message.n) /\ proc' # "handle"
    BY <1>5, <2>1, HandledMore DEF Handle
  <2>2. CASE UNCHANGED handled
    BY <1>5, <2>2, HandledUntouched DEF Handle
  <2>3. QED
    BY <1>5, <2>1, <2>2 DEF Handle
<1>6. CASE RxTest
  BY <1>6, HandledUntouched DEF RxTest
<1>7. CASE RxSleeps
  BY <1>7, HandledUntouched DEF RxSleeps
<1>8. CASE Failed
  BY <1>8, HandledUntouched DEF Failed
<1>9. CASE NotifyReaders
  BY <1>9, HandledUntouched DEF NotifyReaders, Woken
<1>10. CASE RxRestarts
  BY <1>10, HandledUntouched DEF RxRestarts
<1>11. CASE ProcLoop
  BY <1>11, HandledUntouched DEF ProcLoop
<1>12. CASE ProcSleeps
  BY <1>12, HandledUntouched DEF ProcSleeps
<1>13. CASE ProcRestarts
  BY <1>13, HandledUntouched DEF ProcRestarts
<1>14. CASE AskForFile
  BY <1>14, HandledUntouched DEF AskForFile
<1>15. CASE TellOfFile
  BY <1>15, HandledUntouched DEF TellOfFile
<1>16. CASE StartRx
  BY <1>16, HandledUntouched DEF StartRx
<1>17. CASE QueueStartup
  BY <1>17, HandledUntouched DEF QueueStartup
<1>18. CASE NotifyStartup
  BY <1>18, HandledUntouched DEF NotifyStartup
<1>19. CASE QueuePoll
  BY <1>19, HandledUntouched DEF QueuePoll
<1>20. CASE NotifyPoll
  BY <1>20, HandledUntouched DEF NotifyPoll
<1>21. CASE StopRx
  BY <1>21, HandledUntouched DEF StopRx
<1>22. CASE WakeRx
  BY <1>22, HandledUntouched DEF WakeRx
<1>23. CASE WakeReader
  BY <1>23, HandledUntouched DEF WakeReader, Woken
<1>24. CASE JoinRx
  BY <1>24, HandledUntouched DEF JoinRx
<1>25. CASE WakeProc
  BY <1>25, HandledUntouched DEF WakeProc, Woken
<1>26. CASE Environment
  BY <1>26, HandledUntouched DEF Environment
<1>27. CASE UNCHANGED vars
  BY <1>27, HandledUntouched DEF vars
<1>28. QED
  BY <1>1, <1>2, <1>3, <1>4, <1>5, <1>6, <1>7, <1>8, <1>9, <1>10, <1>11, <1>12,
     <1>13, <1>14, <1>15, <1>16, <1>17, <1>18, <1>19, <1>20, <1>21, <1>22, <1>23,
     <1>24, <1>25, <1>26, <1>27
  DEF Next, Rx, Proc, Starting, Stopping

-----------------------------------------------------------------------------
(* IInv is inductive. *)
LEMMA NextIInv == IInv /\ [Next]_vars => IInv'
BY RingStep, TypeStep, SleepStep, NumbersStep, HandledStep DEF IInv

LEMMA AlwaysIInv == Spec => []IInv
BY InitIInv, NextIInv, PTL DEF Spec

(* The type invariant holds for every number of slots, every capacity and  *)
(* every listing.                                                          *)
THEOREM PipelineTypeCorrect == Spec => []TypeOK
<1>1. IInv => TypeOK
  BY DEF IInv, RingInv, OwnTypes, TypeOK
<1>2. QED
  BY <1>1, AlwaysIInv, PTL

(* relay_pipeline.hpp:415-437, raw_data_ring_buffer.hpp:205-249: no wake-up *)
(* of queueCommand() or push() is lost.                                    *)
THEOREM NoSleepSafe == Spec => []NoSleepOverWork
<1>1. IInv => NoSleepOverWork
  BY DEF IInv, SleepInv
<1>2. QED
  BY <1>1, AlwaysIInv, PTL

-----------------------------------------------------------------------------
(* Every step is a step of the in-order service, or leaves it unchanged. *)
LEMMA StepServes == IInv /\ [Next]_vars => [Service!Next]_(<<asked, handled>>)
<1>1. SUFFICES ASSUME IInv, [Next]_vars
               PROVE  [Service!Next]_(<<asked, handled>>)
  OBVIOUS
<1>2. CASE UNCHANGED <<asked, handled>>
  BY <1>2
<1>3. ASSUME NEW c, QueueCommand(c), handled' = handled
      PROVE  Service!Next
  BY <1>3 DEF QueueCommand, Service!Next, Service!Ask
<1>4. CASE Handle /\ handled' = Append(handled, Message.n)
  <2>1. PICK k \in 1 .. Len(log) :
          /\ Message = log[k]
          /\ \A i \in 1 .. Len(handled) : handled[i] < log[k].n
    BY <1>1, <1>4 DEF Handle, IInv, HandledWasRead
  <2>2. log[k].n \in 1 .. asked
    <3>1. log[k].n \in Nat /\ command.n \in Nat /\ asked \in Nat
      BY <1>1, NumbersType
    <3>2. 1 <= log[k].n /\ log[k].n <= command.n /\ command.n <= asked
      BY <1>1 DEF IInv, NumbersRise
    <3>3. QED
      BY <3>1, <3>2
  <2>3. asked' = asked
    BY <1>4 DEF Handle
  <2>4. QED
    BY <1>4, <2>1, <2>2, <2>3 DEF Service!Next, Service!Handle
<1>5. CASE AskForFile
  BY <1>3, <1>5 DEF AskForFile
<1>6. CASE QueueStartup
  BY <1>3, <1>6 DEF QueueStartup
<1>7. CASE QueuePoll
  BY <1>3, <1>7 DEF QueuePoll
<1>8. CASE Handle /\ UNCHANGED handled
  BY <1>2, <1>8 DEF Handle
<1>9. CASE RxTest \/ Answered \/ NotifyReaders \/ RxRestarts \/ RxSleeps \/ Failed
  BY <1>2, <1>9 DEF RxTest, Answered, NotifyReaders, RxRestarts, RxSleeps, Failed
<1>10. CASE ProcLoop \/ ProcTest \/ ProcRestarts \/ TellOfFile \/ ProcSleeps
  BY <1>2, <1>10 DEF ProcLoop, ProcTest, ProcRestarts, TellOfFile, ProcSleeps
<1>11. CASE StartRx \/ StartProc \/ NotifyStartup \/ NotifyPoll \/ StopRx \/ Environment
  BY <1>2, <1>11 DEF StartRx, StartProc, NotifyStartup, NotifyPoll, StopRx, Environment
<1>12. CASE WakeRx \/ WakeReader \/ JoinRx \/ WakeProc \/ JoinProc
  BY <1>2, <1>12 DEF WakeRx, WakeReader, JoinRx, WakeProc, JoinProc
<1>13. CASE UNCHANGED vars
  BY <1>2, <1>13 DEF vars
<1>14. Handle => handled' = Append(handled, Message.n) \/ UNCHANGED handled
  BY DEF Handle
<1>15. QED
  BY <1>1, <1>4, <1>5, <1>6, <1>7, <1>8, <1>9, <1>10, <1>11, <1>12, <1>13, <1>14
  DEF Next, Rx, Proc, Starting, Stopping

(* From a command's place in the queue to the handling of its response:    *)
(* whatever is dropped, fails or is retried, results come in the order in  *)
(* which the commands were queued, and none twice.                         *)
THEOREM OrderKept == Spec => ImplementsService
<1>1. Init => Service!Init
  BY DEF Init, Service!Init
<1>2. QED
  BY <1>1, AlwaysIInv, StepServes, PTL DEF Spec, ImplementsService, Service!Spec

-----------------------------------------------------------------------------
(* stop() *)

Told == {"wake_rx", "wake_reader", "join_rx", "wake_proc", "join_proc", "stopped"}
RxJoined == {"wake_proc", "join_proc", "stopped"}
Sleeping == {"gap", "asleep"}

(* The flags by where stop() is, and what they make of the workers. *)
StopOrder ==
  /\ stop_flag["rx"] <=> manager \in Told
  /\ stop_flag["proc"] <=> manager \in RxJoined
  /\ manager \in Told => poller = "idle"
  /\ manager \in RxJoined => rx = "ended"
  /\ manager = "stopped" => proc = "ended"

(* The worker that is being joined does not sleep, if the notification did *)
(* not come while it fell asleep.                                          *)
JoinedIsAwake ==
  ~unheard =>
    /\ manager \in {"wake_reader", "join_rx"} => rx \notin Sleeping
    /\ manager = "join_proc" => proc \notin Sleeping

(* relay_pipeline.hpp:490: when stop() has returned, no worker takes a     *)
(* command, pushes a response or handles one any more.                     *)
StoppedIsQuiet ==
  [][manager = "stopped" => UNCHANGED <<ring, command_queue, command, rx, proc, handled, manager>>]_vars

(* stop() and the workers, step by step. *)
LEMMA StopStep ==
  ASSUME OwnTypes, NotStarted, StopOrder, JoinedIsAwake, [Next]_vars
  PROVE  StopOrder' /\ JoinedIsAwake'
<1>. USE DEF StopOrder, JoinedIsAwake, OwnTypes, NotStarted, Told, RxJoined, Sleeping,
             RxPlaces, ProcPlaces, ManagerPlaces
<1>1. CASE RxTest \/ RxSleeps \/ Failed \/ Answered \/ RxRestarts
  BY <1>1 DEF RxTest, RxSleeps, Failed, Answered, RxRestarts, outside
<1>2. CASE NotifyReaders
  BY <1>2 DEF NotifyReaders, Woken, outside
<1>3. CASE ProcLoop \/ ProcTest \/ ProcSleeps \/ Handle \/ ProcRestarts \/ AskForFile
  BY <1>3 DEF ProcLoop, ProcTest, ProcSleeps, Handle, ProcRestarts, AskForFile, outside
<1>4. CASE TellOfFile
  BY <1>4 DEF TellOfFile, Woken, outside
<1>5. CASE StartRx \/ StartProc \/ QueueStartup \/ QueuePoll
  BY <1>5 DEF StartRx, StartProc, QueueStartup, QueuePoll, outside
<1>6. CASE NotifyStartup \/ NotifyPoll
  BY <1>6 DEF NotifyStartup, NotifyPoll, Woken, outside
<1>7. CASE StopRx \/ JoinRx \/ JoinProc
  BY <1>7 DEF StopRx, JoinRx, JoinProc, outside
<1>8. CASE WakeRx \/ WakeReader \/ WakeProc
  BY <1>8 DEF WakeRx, WakeReader, WakeProc, Woken, outside
<1>9. CASE Environment \/ UNCHANGED vars
  BY <1>9 DEF Environment, vars, outside
<1>10. QED
  BY <1>1, <1>2, <1>3, <1>4, <1>5, <1>6, <1>7, <1>8, <1>9 DEF Next, Rx, Proc, Starting, Stopping

(* ... and in every state. *)
LEMMA AlwaysStops == Spec => [](StopOrder /\ JoinedIsAwake)
<1>1. Init => StopOrder /\ JoinedIsAwake
  BY DEF Init, StopOrder, JoinedIsAwake, Told, RxJoined
<1>2. IInv /\ StopOrder /\ JoinedIsAwake /\ [Next]_vars => StopOrder' /\ JoinedIsAwake'
  BY StopStep DEF IInv, SleepInv
<1>3. QED
  BY <1>1, <1>2, AlwaysIInv, PTL DEF Spec

(* raw_data_ring_buffer.hpp:334, relay_pipeline.hpp:494: the lost wake-up  *)
(* in the gap is the only one.  Whatever commands are queued, run or       *)
(* retried when stop() begins, the worker it joins was woken, provided no  *)
(* notification met a worker that was falling asleep.                      *)
THEOREM StopIsHeard == Spec => []JoinedIsAwake
BY AlwaysStops, PTL

(* Whatever stop() interrupts, nothing happens in the pipeline afterwards. *)
THEOREM StopEndsAll == Spec => StoppedIsQuiet
<1>1. StopOrder /\ [Next]_vars =>
        [manager = "stopped" => UNCHANGED <<ring, command_queue, command, rx, proc, handled,
                                            manager>>]_vars
  <2>1. SUFFICES ASSUME StopOrder, Next, manager = "stopped"
                 PROVE  UNCHANGED <<ring, command_queue, command, rx, proc, handled, manager>>
    OBVIOUS
  <2>2. rx = "ended" /\ proc = "ended" /\ poller = "idle"
    BY <2>1 DEF StopOrder, Told, RxJoined
  <2>3. ~(Rx \/ RxSleeps \/ Failed)
    BY <2>2 DEF Rx, RxSleeps, Failed, RxTest, Answered, NotifyReaders, RxRestarts
  <2>4. ~(Proc \/ ProcSleeps)
    BY <2>2 DEF Proc, ProcSleeps, ProcLoop, ProcTest, Handle, ProcRestarts, AskForFile, TellOfFile
  <2>5. ~(Starting \/ QueuePoll \/ StopRx \/ Stopping)
    BY <2>1, <2>2 DEF Starting, QueuePoll, StopRx, Stopping, StartRx, StartProc, QueueStartup,
                      NotifyStartup, NotifyPoll, WakeRx, WakeReader, JoinRx, WakeProc, JoinProc
  <2>6. QED
    BY <2>1, <2>3, <2>4, <2>5 DEF Next, Environment
<1>2. QED
  BY <1>1, AlwaysStops, PTL DEF Spec, StoppedIsQuiet
=============================================================================
