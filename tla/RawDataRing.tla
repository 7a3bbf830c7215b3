---------------------------- MODULE RawDataRing ----------------------------
(***************************************************************************)
(* RawDataRingBuffer (raw_data_ring_buffer.hpp): the bounded buffer through *)
(* which the reception worker of a relay hands raw responses to the        *)
(* processing worker.  Every public operation takes mutex_, so each is one *)
(* action here.  Logical indices count messages from the first ever        *)
(* pushed: queue[i] is message number base_index + i - 1.                  *)
(***************************************************************************)
EXTENDS Naturals, Sequences

CONSTANTS
  MaxReaders,   \* kMaxReaders, the number of reader slots
  MaxSize,      \* max_size_, the capacity given to the constructor
  Messages,     \* what a RawDataMessage can be
  MaxWrites     \* bound of the model: how many messages are ever pushed

ASSUME RingAssumption ==
  /\ MaxReaders \in Nat
  /\ MaxSize \in Nat \ {0}
  /\ MaxWrites \in Nat

(* ReaderId: an index of readers_. *)
ReaderId == 0 .. MaxReaders - 1

VARIABLES
  queue,        \* queue_, the messages held, oldest first
  active,       \* readers_[i].active
  read_index,   \* readers_[i].read_index
  total_reads,  \* readers_[i].total_reads
  base_index,   \* base_index_, the logical index of the front of queue
  total_writes, \* total_writes_
  drop_count    \* drop_count_

code == <<queue, active, read_index, total_reads, base_index, total_writes, drop_count>>

(* History, which no action reads: *)
VARIABLES
  log,          \* every message pushed so far
  got,          \* got[r]: what was returned to reader r since it registered
  since,        \* since[r]: length of the log when reader r registered
  missed        \* missed[r]: messages taken from r unread since it registered

vars == <<queue, active, read_index, total_reads, base_index, total_writes, drop_count,
          log, got, since, missed>>

(* The write position: one past the logical index of the newest message. *)
End == base_index + Len(queue)

TypeOK ==
  /\ queue \in Seq(Messages)
  /\ active \in [ReaderId -> BOOLEAN]
  /\ read_index \in [ReaderId -> Nat]
  /\ total_reads \in [ReaderId -> Nat]
  /\ base_index \in Nat
  /\ total_writes \in Nat
  /\ drop_count \in Nat
  /\ log \in Seq(Messages)
  /\ got \in [ReaderId -> Seq(Messages)]
  /\ since \in [ReaderId -> Nat]
  /\ missed \in [ReaderId -> Nat]

Init ==
  /\ queue = <<>>
  /\ active = [r \in ReaderId |-> FALSE]
  /\ read_index = [r \in ReaderId |-> 0]
  /\ total_reads = [r \in ReaderId |-> 0]
  /\ base_index = 0
  /\ total_writes = 0
  /\ drop_count = 0
  /\ log = <<>>
  /\ got = [r \in ReaderId |-> <<>>]
  /\ since = [r \in ReaderId |-> 0]
  /\ missed = [r \in ReaderId |-> 0]

-----------------------------------------------------------------------------
(* Operations *)

(* Mutants, which no behaviour of the specification uses: what small slips *)
(* in the operations below would do.                                       *)

(* ... a slot reused with the counter of its previous reader. *)
RegisterKeepsCount(r) ==
  /\ ~active[r]
  /\ \A s \in ReaderId : s < r => active[s]
  /\ active' = [active EXCEPT ![r] = TRUE]
  /\ read_index' = [read_index EXCEPT ![r] = End]
  /\ got' = [got EXCEPT ![r] = <<>>]
  /\ since' = [since EXCEPT ![r] = Len(log)]
  /\ missed' = [missed EXCEPT ![r] = 0]
  /\ UNCHANGED <<queue, total_reads, base_index, total_writes, drop_count, log>>

(* ... a new reader that starts with the backlog the deque holds. *)
RegisterAtBase(r) ==
  /\ ~active[r]
  /\ \A s \in ReaderId : s < r => active[s]
  /\ active' = [active EXCEPT ![r] = TRUE]
  /\ read_index' = [read_index EXCEPT ![r] = base_index]
  /\ total_reads' = [total_reads EXCEPT ![r] = 0]
  /\ got' = [got EXCEPT ![r] = <<>>]
  /\ since' = [since EXCEPT ![r] = base_index]
  /\ missed' = [missed EXCEPT ![r] = 0]
  /\ UNCHANGED <<queue, base_index, total_writes, drop_count, log>>

(* ... a reader that leaves without letting go of what only it waited for. *)
UnregisterWithoutTrim(r) ==
  /\ active' = [active EXCEPT ![r] = FALSE]
  /\ UNCHANGED <<queue, base_index, read_index, total_reads, total_writes, drop_count,
                 log, got, since, missed>>

(* ... a wait for one message more than the reader's. *)
CanPopOffByOne(r) == active[r] /\ read_index[r] + 1 < End

(* registerReader(): the first free slot, its cursor at the write position. *)
(* With every slot taken it returns kInvalidReader and changes nothing.     *)
RegisterReader(r) ==
  /\ ~active[r]
  /\ \A s \in ReaderId : s < r => active[s]
  /\ active' = [active EXCEPT ![r] = TRUE]
  /\ read_index' = [read_index EXCEPT ![r] = End]
  /\ total_reads' = [total_reads EXCEPT ![r] = 0]
  /\ got' = [got EXCEPT ![r] = <<>>]
  /\ since' = [since EXCEPT ![r] = Len(log)]
  /\ missed' = [missed EXCEPT ![r] = 0]
  /\ UNCHANGED <<queue, base_index, total_writes, drop_count, log>>

(* Where trimConsumed() leaves base_index, given the readers' new state:   *)
(* at the slowest active reader, or unmoved when no reader is active.      *)
TrimsTo(b, act, cur) ==
  IF \E r \in ReaderId : act[r]
  THEN /\ b \in base_index .. End
       /\ \A r \in ReaderId : act[r] => b <= cur[r] \/ b = base_index
       /\ b = End \/ \E r \in ReaderId : act[r] /\ cur[r] <= b
  ELSE b = base_index

(* trimConsumed(): drop from the front what all active readers are past. *)
TrimConsumed(act, cur) ==
  \E b \in base_index .. End :
    /\ TrimsTo(b, act, cur)
    /\ base_index' = b
    /\ queue' = SubSeq(queue, b - base_index + 1, Len(queue))

(* unregisterReader(id): safe to call for a slot that is not active. *)
UnregisterReader(r) ==
  /\ active' = [active EXCEPT ![r] = FALSE]
  /\ TrimConsumed(active', read_index)
  /\ UNCHANGED <<read_index, total_reads, total_writes, drop_count, log, got, since, missed>>

(* How many messages the loop of push() drops to make room for one. *)
Overflow == IF Len(queue) >= MaxSize THEN Len(queue) - MaxSize + 1 ELSE 0

(* push(msg): never blocks; at capacity the oldest message goes, and the   *)
(* readers that still point at it are moved past it.                       *)
Push(m) ==
  /\ Len(log) < MaxWrites
  /\ base_index' = base_index + Overflow
  /\ read_index' = [r \in ReaderId |->
                      IF active[r] /\ read_index[r] < base_index'
                      THEN base_index' ELSE read_index[r]]
  /\ queue' = Append(SubSeq(queue, Overflow + 1, Len(queue)), m)
  /\ drop_count' = drop_count + Overflow
  /\ total_writes' = total_writes + 1
  /\ log' = Append(log, m)
  /\ missed' = [r \in ReaderId |-> missed[r] + (read_index'[r] - read_index[r])]
  /\ UNCHANGED <<active, total_reads, got, since>>

(* The predicate waitPop() waits for, apart from the stop flag; tryPop()   *)
(* returns nullopt without it.                                             *)
CanPop(r) == active[r] /\ read_index[r] < End

(* waitPop(id) and tryPop(id) that return a message: a copy of the one at  *)
(* the reader's cursor.                                                    *)
Pop(r) ==
  /\ CanPop(r)
  /\ got' = [got EXCEPT ![r] = Append(@, queue[read_index[r] - base_index + 1])]
  /\ read_index' = [read_index EXCEPT ![r] = @ + 1]
  /\ total_reads' = [total_reads EXCEPT ![r] = @ + 1]
  /\ TrimConsumed(active, read_index')
  /\ UNCHANGED <<active, total_writes, drop_count, log, since, missed>>

(* clear(): everything goes, and the active cursors move to the new base. *)
Clear ==
  /\ base_index' = End
  /\ queue' = <<>>
  /\ read_index' = [r \in ReaderId |-> IF active[r] THEN base_index' ELSE read_index[r]]
  /\ missed' = [r \in ReaderId |-> missed[r] + (read_index'[r] - read_index[r])]
  /\ UNCHANGED <<active, total_reads, total_writes, drop_count, log, got, since>>

Next ==
  \/ \E m \in Messages : Push(m)
  \/ \E r \in ReaderId : RegisterReader(r) \/ UnregisterReader(r) \/ Pop(r)
  \/ Clear

Spec == Init /\ [][Next]_vars

(* Every registered reader is served by a thread that keeps calling        *)
(* waitPop() (PipelineProcessingWorker::runLoop).                          *)
Fairness == \A r \in ReaderId : WF_vars(Pop(r))

FairSpec == Spec /\ Fairness

-----------------------------------------------------------------------------
(* Properties *)

(* The window: the buffer never holds more than its capacity, and an       *)
(* active reader's cursor lies between the oldest message held and the     *)
(* write position, so that "read_index - base_index_" in waitPop() neither *)
(* wraps around below zero nor indexes past the deque.                     *)
CursorInWindow ==
  /\ Len(queue) <= MaxSize
  /\ \A r \in ReaderId : active[r] => read_index[r] \in base_index .. End

(* The stream of a reader since it registered: what it read and what was   *)
(* taken from it add up to how far its cursor moved, and a reader that     *)
(* lost nothing was given exactly what was pushed, in order, without a     *)
(* gap or a repeat ("receives every message independently").               *)
ReaderStream ==
  \A r \in ReaderId : active[r] =>
    /\ total_reads[r] + missed[r] + since[r] = read_index[r]
    /\ missed[r] = 0 => got[r] = SubSeq(log, since[r] + 1, read_index[r])

(* Messages that all active readers are past are not kept: once a reader   *)
(* is at work on what the deque holds, the front of the deque is the next  *)
(* message of some active reader.  (A reader that registers finds older    *)
(* messages in the deque when no reader was active; these stay until the   *)
(* first trim, and the premise leaves them out.)                           *)
NothingHeldInVain ==
  (queue # <<>> /\ \E r \in ReaderId : active[r] /\ since[r] <= base_index)
    => \E r \in ReaderId : active[r] /\ read_index[r] = base_index

(* The buffer implements the lossy broadcast: in particular what Pop       *)
(* returns out of the deque is the reader's next message of the log.       *)
Broadcast == INSTANCE LossyBroadcast
  WITH Subscribers <- ReaderId, Capacity <- MaxSize,
       subscribed <- active, cursor <- read_index

ImplementsBroadcast == Broadcast!Spec

(* A reader whose thread keeps running gets past every message pushed: it  *)
(* is given the message, or loses it, unless it is unregistered.           *)
ReaderCatchesUp ==
  \A r \in ReaderId : \A n \in 1 .. MaxWrites :
    (active[r] /\ Len(log) >= n) ~> (~active[r] \/ read_index[r] >= n)

=============================================================================
