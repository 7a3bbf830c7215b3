--------------------------- MODULE RelayPipeline ---------------------------
(***************************************************************************)
(* RelayPipeline (relay_pipeline.hpp): the reception worker, its queue of  *)
(* commands, the raw response buffer (RawDataRing) and the processing      *)
(* worker, from start() to stop(), with the two condition variables on     *)
(* which the workers sleep.  A worker that finds nothing to do is between  *)
(* its test of the predicate and its sleep ("gap"), where it holds the     *)
(* mutex of the condition variable, or sleeps ("asleep") until a           *)
(* notification.                                                           *)
(*                                                                         *)
(* What a command does with the relay is in RelaySession, what a response  *)
(* does with the database in SerDatabase.                                  *)
(***************************************************************************)
EXTENDS Naturals, Sequences

CONSTANTS
  MaxReaders,     \* kMaxReaders of the buffer
  MaxSize,        \* its capacity
  NFiles,         \* settings files in the listing the relay gives
  MaxPolls        \* bound of the model: SER commands the poller queues

ASSUME PipelineAssumption ==
  /\ MaxReaders \in Nat \ {0} /\ MaxSize \in Nat \ {0}
  /\ NFiles \in Nat /\ MaxPolls \in Nat

(* The commands start() queues, for a SEL-735. *)
Startup == <<"SER 1000", "FILE DIR EVENTS", "FIL DIR">>

(* Commands are numbered as they are queued; a response goes with the      *)
(* number of its command.                                                  *)
Texts == {"SER 1000", "FILE DIR EVENTS", "FIL DIR", "SER", "FILE SHOW"}
Commands == [cmd : Texts, n : Nat]
MaxCommands == Len(Startup) + MaxPolls + NFiles

VARIABLES
  queue, active, read_index, total_reads, base_index, total_writes, drop_count,
  log, got, since, missed,
                  \* rawBuffer_ with its history: see RawDataRing
  command_queue,  \* command_queue_
  command,        \* the command the reception worker has taken
  stop_flag,      \* the stop_flag_ of each worker
  rx,             \* where the reception worker is
  proc,           \* where the processing worker is
  left,           \* files of a listing the processing worker has yet to ask for
  manager,        \* where the thread in start() or stop() is, under the manager's mutex_
  poller,         \* the poller in queueCommand(), under the same mutex_
  app_running,
  answering       \* the relay can be reached and answers

(* History, which no action reads: *)
VARIABLES
  asked,          \* how many commands were queued
  polls,          \* how many of them by the poller; counted against MaxPolls
  handled,        \* the commands whose responses were handled
  unheard         \* a worker was told to stop while it was falling asleep

Ring == INSTANCE RawDataRing WITH Messages <- Commands, MaxWrites <- MaxCommands

Reader == 0       \* readerId_ of the only reader

ring == <<queue, active, read_index, total_reads, base_index, total_writes, drop_count,
          log, got, since, missed>>
outside == <<app_running, answering>>
vars == <<ring, command_queue, command, stop_flag, rx, proc, left, manager, poller,
          outside, asked, polls, handled, unheard>>

RxPlaces == {"off", "test", "gap", "asleep", "execute", "notify", "backoff", "ended"}
ProcPlaces == {"off", "loop", "test", "gap", "asleep", "handle", "queue", "tell",
               "backoff", "ended"}
ManagerPlaces == {"new", "rx_started", "queue", "notify", "running", "wake_rx",
                  "wake_reader", "join_rx", "wake_proc", "join_proc", "stopped"}

TypeOK ==
  /\ Ring!TypeOK
  /\ command_queue \in Seq(Commands)
  /\ command \in Commands
  /\ stop_flag \in [{"rx", "proc"} -> BOOLEAN]
  /\ rx \in RxPlaces /\ proc \in ProcPlaces /\ manager \in ManagerPlaces
  /\ poller \in {"idle", "notify"}
  /\ left \in Nat /\ asked \in Nat /\ polls \in 0 .. MaxPolls
  /\ app_running \in BOOLEAN /\ answering \in BOOLEAN /\ unheard \in BOOLEAN
  /\ handled \in Seq(Nat)

Init ==
  /\ Ring!Init
  /\ command_queue = <<>> /\ command = [cmd |-> "SER", n |-> 0]
  /\ stop_flag = [w \in {"rx", "proc"} |-> FALSE]
  /\ rx = "off" /\ proc = "off" /\ left = 0
  /\ manager = "new" /\ poller = "idle"
  /\ app_running = TRUE /\ answering \in BOOLEAN
  /\ asked = 0 /\ polls = 0 /\ handled = <<>> /\ unheard = FALSE

(* What a notification does to a worker. *)
Woken(place) == IF place = "asleep" THEN "test" ELSE place

(* Mutant: push_back() without the mutex. *)
QueueUnlocked(c) ==
  /\ asked' = asked + 1
  /\ command_queue' = Append(command_queue, [cmd |-> c, n |-> asked'])

(* queueCommand(c) under queue_mutex_; queue_cv_.notify_one() comes after. *)
QueueCommand(c) ==
  /\ rx # "gap"
  /\ asked' = asked + 1
  /\ command_queue' = Append(command_queue, [cmd |-> c, n |-> asked'])

-----------------------------------------------------------------------------
(* The reception worker *)

(* Mutant: pop_back(). *)
TakeNewest ==
  /\ command' = command_queue[Len(command_queue)]
  /\ command_queue' = SubSeq(command_queue, 1, Len(command_queue) - 1)

TakeCommand == command' = Head(command_queue) /\ command_queue' = Tail(command_queue)

(* The predicate of queue_cv_.wait(); every way on from a stop flag leads  *)
(* out of runLoop().                                                       *)
RxTest ==
  /\ rx = "test"
  /\ \/ stop_flag["rx"] /\ rx' = "ended" /\ UNCHANGED <<command, command_queue>>
     \/ /\ ~stop_flag["rx"] /\ command_queue # <<>>
        /\ TakeCommand /\ rx' = "execute"
     \/ /\ ~stop_flag["rx"] /\ command_queue = <<>>
        /\ rx' = "gap" /\ UNCHANGED <<command, command_queue>>
  /\ UNCHANGED <<ring, stop_flag, proc, left, manager, poller, outside, asked, polls, handled, unheard>>

(* Asleep; and a condition variable may wake without a notification. *)
RxSleeps ==
  /\ \/ rx = "gap" /\ rx' = "asleep"
     \/ rx = "asleep" /\ rx' = "test"
  /\ UNCHANGED <<ring, command_queue, command, stop_flag, proc, left, manager, poller, outside,
                 asked, polls, handled, unheard>>

(* executeCommand(): the relay has answered, ... *)
Answered ==
  /\ rx = "execute" /\ answering
  /\ proc # "gap"                 \* mutex_ of the buffer
  /\ Ring!Push(command)
  /\ rx' = "notify"
  /\ UNCHANGED <<command_queue, command, stop_flag, proc, left, manager, poller, outside,
                 asked, polls, handled, unheard>>

(* ... the retries are used up or the worker is to stop, or it throws. *)
Failed ==
  /\ rx = "execute" /\ rx' \in {"test", "backoff"}
  /\ UNCHANGED <<ring, command_queue, command, stop_flag, proc, left, manager, poller, outside,
                 asked, polls, handled, unheard>>

(* Mutant: a push that nobody is told of. *)
PushSilently ==
  /\ rx = "notify" /\ rx' = "test"
  /\ UNCHANGED <<ring, command_queue, command, stop_flag, proc, left, manager, poller, outside,
                 asked, polls, handled, unheard>>

(* cv_.notify_all() at the end of push() *)
NotifyReaders ==
  /\ rx = "notify" /\ rx' = "test"
  /\ proc' = Woken(proc)
  /\ UNCHANGED <<ring, command_queue, command, stop_flag, left, manager, poller, outside,
                 asked, polls, handled, unheard>>

(* The pause after an exception. *)
RxRestarts ==
  /\ rx = "backoff" /\ rx' = "test"
  /\ UNCHANGED <<ring, command_queue, command, stop_flag, proc, left, manager, poller, outside,
                 asked, polls, handled, unheard>>

-----------------------------------------------------------------------------
(* The processing worker *)

(* runLoop() looks at both flags, ... *)
ProcLoop ==
  /\ proc = "loop"
  /\ proc' = IF stop_flag["proc"] \/ ~app_running THEN "ended" ELSE "test"
  /\ UNCHANGED <<ring, command_queue, command, stop_flag, rx, left, manager, poller, outside,
                 asked, polls, handled, unheard>>

(* ... waitPop() at its own. *)
ProcTest ==
  /\ proc = "test"
  /\ \/ stop_flag["proc"] /\ proc' = "loop" /\ UNCHANGED ring
     \/ ~stop_flag["proc"] /\ Ring!Pop(Reader) /\ proc' = "handle"
     \/ ~stop_flag["proc"] /\ ~Ring!CanPop(Reader) /\ proc' = "gap" /\ UNCHANGED ring
  /\ UNCHANGED <<command_queue, command, stop_flag, rx, left, manager, poller, outside,
                 asked, polls, handled, unheard>>

ProcSleeps ==
  /\ \/ proc = "gap" /\ proc' = "asleep"
     \/ proc = "asleep" /\ proc' = "test"
  /\ UNCHANGED <<ring, command_queue, command, stop_flag, rx, left, manager, poller, outside,
                 asked, polls, handled, unheard>>

(* The response waitPop() has returned. *)
Message == got[Reader][Len(got[Reader])]

(* Records are stored and broadcast, texts are broadcast, and the files of *)
(* a listing are asked for; or one of these throws.                        *)
Handle ==
  /\ proc = "handle"
  /\ \/ /\ handled' = Append(handled, Message.n)
        /\ left' = IF Message.cmd = "FIL DIR" THEN NFiles ELSE 0
        /\ proc' = IF left' > 0 THEN "queue" ELSE "loop"
     \/ proc' = "backoff" /\ UNCHANGED <<handled, left>>
  /\ UNCHANGED <<ring, command_queue, command, stop_flag, rx, manager, poller, outside,
                 asked, polls, unheard>>

ProcRestarts ==
  /\ proc = "backoff" /\ proc' = "loop"
  /\ UNCHANGED <<ring, command_queue, command, stop_flag, rx, left, manager, poller, outside,
                 asked, polls, handled, unheard>>

(* queueCommand_("FILE SHOW " + name), ... *)
AskForFile ==
  /\ proc = "queue"
  /\ QueueCommand("FILE SHOW")
  /\ left' = left - 1 /\ proc' = "tell"
  /\ UNCHANGED <<ring, command, stop_flag, rx, manager, poller, outside, polls, handled, unheard>>

(* ... with its notification. *)
TellOfFile ==
  /\ proc = "tell"
  /\ rx' = Woken(rx) /\ proc' = IF left > 0 THEN "queue" ELSE "loop"
  /\ UNCHANGED <<ring, command_queue, command, stop_flag, left, manager, poller, outside,
                 asked, polls, handled, unheard>>

-----------------------------------------------------------------------------
(* start(), stop() and the poller, one at a time under the manager's mutex *)

StartRx ==
  /\ manager = "new" /\ manager' = "rx_started"
  /\ rx' = "test"
  /\ UNCHANGED <<ring, command_queue, command, stop_flag, proc, left, poller, outside,
                 asked, polls, handled, unheard>>

StartProc ==
  /\ manager = "rx_started" /\ manager' = "queue"
  /\ Ring!RegisterReader(Reader)
  /\ proc' = "loop"
  /\ UNCHANGED <<command_queue, command, stop_flag, rx, left, poller, outside,
                 asked, polls, handled, unheard>>

(* The initial commands. *)
QueueStartup ==
  /\ manager = "queue" /\ manager' = "notify" /\ asked < Len(Startup)
  /\ QueueCommand(Startup[asked + 1])
  /\ UNCHANGED <<ring, command, stop_flag, rx, proc, left, poller, outside, polls, handled, unheard>>

NotifyStartup ==
  /\ manager = "notify" /\ manager' = IF asked < Len(Startup) THEN "queue" ELSE "running"
  /\ rx' = Woken(rx)
  /\ UNCHANGED <<ring, command_queue, command, stop_flag, proc, left, poller, outside,
                 asked, polls, handled, unheard>>

QueuePoll ==
  /\ manager = "running" /\ poller = "idle" /\ polls < MaxPolls
  /\ poller' = "notify" /\ polls' = polls + 1
  /\ QueueCommand("SER")
  /\ UNCHANGED <<ring, command, stop_flag, rx, proc, left, manager, outside, handled, unheard>>

NotifyPoll ==
  /\ poller = "notify" /\ poller' = "idle"
  /\ rx' = Woken(rx)
  /\ UNCHANGED <<ring, command_queue, command, stop_flag, proc, left, manager, outside,
                 asked, polls, handled, unheard>>

(* rxWorker_->stop(): the flag, ... *)
StopRx ==
  /\ manager = "running" /\ poller = "idle" /\ manager' = "wake_rx"
  /\ stop_flag' = [stop_flag EXCEPT !["rx"] = TRUE]
  /\ UNCHANGED <<ring, command_queue, command, rx, proc, left, poller, outside,
                 asked, polls, handled, unheard>>

(* ... queue_cv_.notify_all() without queue_mutex_, ... *)
WakeRx ==
  /\ manager = "wake_rx" /\ manager' = "wake_reader"
  /\ rx' = Woken(rx) /\ unheard' = (unheard \/ rx = "gap")
  /\ UNCHANGED <<ring, command_queue, command, stop_flag, proc, left, poller, outside,
                 asked, polls, handled>>

(* ... and rawBuffer_.notifyAll(). *)
WakeReader ==
  /\ manager = "wake_reader" /\ manager' = "join_rx"
  /\ proc' = Woken(proc)
  /\ UNCHANGED <<ring, command_queue, command, stop_flag, rx, left, poller, outside,
                 asked, polls, handled, unheard>>

(* The join; procWorker_->stop() then sets the other flag. *)
JoinRx ==
  /\ manager = "join_rx" /\ rx = "ended" /\ manager' = "wake_proc"
  /\ stop_flag' = [stop_flag EXCEPT !["proc"] = TRUE]
  /\ UNCHANGED <<ring, command_queue, command, rx, proc, left, poller, outside,
                 asked, polls, handled, unheard>>

(* Mutant: the processing worker is told only with the reception worker. *)
WakeNobody ==
  /\ manager = "wake_proc" /\ manager' = "join_proc"
  /\ unheard' = (unheard \/ proc = "gap")
  /\ UNCHANGED <<ring, command_queue, command, stop_flag, rx, proc, left, poller, outside,
                 asked, polls, handled>>

WakeProc ==
  /\ manager = "wake_proc" /\ manager' = "join_proc"
  /\ proc' = Woken(proc) /\ unheard' = (unheard \/ proc = "gap")
  /\ UNCHANGED <<ring, command_queue, command, stop_flag, rx, left, poller, outside,
                 asked, polls, handled>>

JoinProc ==
  /\ manager = "join_proc" /\ proc = "ended" /\ manager' = "stopped"
  /\ Ring!UnregisterReader(Reader)
  /\ UNCHANGED <<command_queue, command, stop_flag, rx, proc, left, poller, outside,
                 asked, polls, handled, unheard>>

-----------------------------------------------------------------------------
(* The relay comes and goes; the application begins to end. *)
Environment ==
  /\ \/ answering' \in BOOLEAN /\ UNCHANGED app_running
     \/ app_running' = FALSE /\ UNCHANGED answering
  /\ UNCHANGED <<ring, command_queue, command, stop_flag, rx, proc, left, manager, poller,
                 asked, polls, handled, unheard>>

Rx == RxTest \/ Answered \/ NotifyReaders \/ RxRestarts
Proc == ProcLoop \/ ProcTest \/ Handle \/ ProcRestarts \/ AskForFile \/ TellOfFile
Starting == StartRx \/ StartProc \/ QueueStartup \/ NotifyStartup \/ NotifyPoll
Stopping == WakeRx \/ WakeReader \/ JoinRx \/ WakeProc \/ JoinProc

Next ==
  \/ Rx \/ RxSleeps \/ Failed
  \/ Proc \/ ProcSleeps
  \/ Starting \/ QueuePoll
  \/ StopRx \/ Stopping
  \/ Environment

Spec == Init /\ [][Next]_vars

(* Threads that can go on do, and fall asleep where they are to; only a    *)
(* notification is sure to wake them.  A command ends when the relay       *)
(* answers or when the worker is to stop (StopReleases of RelaySession).   *)
(* Of two threads at one mutex each gets it in the end.                    *)
Fairness ==
  /\ SF_vars(Rx) /\ WF_vars(rx = "gap" /\ RxSleeps)
  /\ WF_vars(stop_flag["rx"] /\ Failed)
  /\ SF_vars(Proc) /\ WF_vars(proc = "gap" /\ ProcSleeps)
  /\ SF_vars(Starting) /\ WF_vars(Stopping)

FairSpec == Spec /\ Fairness

-----------------------------------------------------------------------------
(* Properties *)

(* No worker sleeps over work: when a command is queued, or a response is  *)
(* in the buffer, its worker is awake or about to be notified.             *)
NoSleepOverWork ==
  /\ rx = "asleep" /\ command_queue # <<>>
       => manager = "notify" \/ poller = "notify" \/ proc = "tell"
  /\ proc = "asleep" /\ Ring!CanPop(Reader) => rx = "notify"

(* Through a queue, a buffer that drops, retries and exceptions: responses *)
(* are handled in the order in which their commands were queued, and none  *)
(* twice.                                                                  *)
Service == INSTANCE InOrderService

ImplementsService == Service!Spec

(* While the relay answers and nobody stops the pipeline, everything that  *)
(* is queued, by whomever, is executed, and every response in the buffer   *)
(* taken.                                                                  *)
Drains ==
  <>[](answering /\ app_running /\ manager \in {"queue", "notify", "running"})
    => <>[](manager = "running" /\ command_queue = <<>> /\ ~Ring!CanPop(Reader))

(* "Worker thread has exited and all resources are released"               *)
(* (relay_pipeline.hpp:490): stop() returns whatever the workers and the   *)
(* relay are doing, ...                                                    *)
StopReturns == manager = "wake_rx" ~> manager = "stopped"

(* ... unless a notification met a worker that was falling asleep.         *)
StopReturnsIfHeard == []~unheard => StopReturns

=============================================================================
