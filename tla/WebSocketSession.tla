-------------------------- MODULE WebSocketSession --------------------------
(***************************************************************************)
(* One browser's session with the server (WebSocketSession, SessionManager *)
(* and the broadcasts of SERWebSocketServer, ws_server.hpp).  The session  *)
(* lives on a strand: completion handlers and posted functions run one at  *)
(* a time, each as one action here.  Around it run the handler threads     *)
(* that requests spawn, the processing workers that broadcast, and the     *)
(* client at the other end of the connection.                              *)
(***************************************************************************)
EXTENDS Naturals, Sequences

CONSTANTS
  Broadcasters,   \* processing workers, one per relay
  Throws,         \* may a request's handler throw?
  MaxRequests,    \* bound of the model: requests the client sends
  MaxVersion,     \* bound of the model: changes of the database
  MaxPending      \* bound of the model: frames waiting when a broadcast begins

ASSUME SessionAssumption ==
  /\ Throws \in BOOLEAN
  /\ MaxRequests \in Nat
  /\ MaxVersion \in Nat
  /\ MaxPending \in Nat

Requests == 1 .. MaxRequests

(* What a request asks for: "refresh" the whole table, an "action" (JSON), *)
(* or a "command" for the relay, streamed or not.                          *)
RequestKinds == {"refresh", "action", "command"}

(* What goes to the client: a snapshot of the database's version n, the    *)
(* answer to request n, or (n = 0) the text of a broadcast.                *)
Frames == [kind : {"snapshot", "text"}, n : Nat]
Snapshot(v) == [kind |-> "snapshot", n |-> v]
Text(n) == [kind |-> "text", n |-> n]

(* An entry of write_queue_: a frame, or the order to send the database as *)
(* it will be by then.                                                     *)
SendAll == [kind |-> "SendAll", n |-> 0]
Pending == Frames \union {SendAll}

(* A write names the handler of its completion, a posted function what it  *)
(* does: send a frame with do_broadcast() or sendTextResponse(), the       *)
(* latter followed by do_read() or not, or only do_read().                 *)
Writes == [frame : Frames, done : {"on_write", "on_broadcast_write"}]
Posted == [run : {"do_broadcast", "sendTextResponse", "respond", "do_read"}, frame : Frames]

VARIABLES
  phase,        \* "handshake", "open" or, after a failed handshake, "refused"
  registered,   \* the session is in sessions_
  reading,      \* async_reads that have not completed
  pending_read, \* pending_read_
  writing,      \* writing_
  inflight,     \* async_writes that have not completed
  write_queue,  \* write_queue_
  strand,       \* functions posted to the strand that have not run
  handler,      \* handler[n]: where the thread that serves request n is
  abort         \* *streaming_abort_

(* The workers and the database: *)
VARIABLES
  version,      \* how often the table of records has changed
  at,           \* at[b]: where worker b is in broadcastAll() or broadcastText()
  payload       \* payload[b]: what it is about to send

(* The client: *)
VARIABLES
  link,         \* the connection works
  inbox,        \* requests sent to the server and not read by it
  sent,         \* how many requests the client has sent
  answers,      \* the requests answered by a text that reached the client
  shown         \* the version of the table that reached it last

session == <<phase, registered, reading, pending_read>>
output == <<writing, inflight, write_queue>>
workers == <<version, at, payload>>
browser == <<link, inbox, sent, answers, shown>>
vars == <<phase, registered, reading, pending_read, writing, inflight, write_queue, strand,
          handler, abort, version, at, payload, link, inbox, sent, answers, shown>>

HandlerPCs == {"none", "action", "command", "responded", "done", "threw"}

TypeOK ==
  /\ phase \in {"handshake", "open", "refused"}
  /\ registered \in BOOLEAN
  /\ reading \in Nat
  /\ pending_read \in BOOLEAN
  /\ writing \in BOOLEAN
  /\ inflight \in Seq(Writes)
  /\ write_queue \in Seq(Pending)
  /\ strand \in Seq(Posted)
  /\ handler \in [Requests -> HandlerPCs]
  /\ abort \in BOOLEAN
  /\ version \in Nat
  /\ at \in [Broadcasters -> {"idle", "loaded", "posting"}]
  /\ payload \in [Broadcasters -> Frames]
  /\ link \in BOOLEAN
  /\ inbox \in Seq([id : Requests, kind : RequestKinds])
  /\ sent \in 0 .. MaxRequests
  /\ answers \in Seq(Nat)
  /\ shown \in Nat

Init ==
  /\ phase = "handshake" /\ registered = FALSE
  /\ reading = 0 /\ pending_read = FALSE
  /\ writing = FALSE /\ inflight = <<>> /\ write_queue = <<>>
  /\ strand = <<>>
  /\ handler = [n \in Requests |-> "none"]
  /\ abort = FALSE
  /\ version = 0
  /\ at = [b \in Broadcasters |-> "idle"]
  /\ payload = [b \in Broadcasters |-> Snapshot(0)]
  /\ link = TRUE /\ inbox = <<>> /\ sent = 0 /\ answers = <<>> /\ shown = 0

-----------------------------------------------------------------------------
(* Writing: frame goes out, beside the writes in flight; what waits is the *)
(* queue.                                                                  *)

Start(writes, waiting, frame, done) ==
  /\ writing' = TRUE
  /\ inflight' = Append(writes, [frame |-> frame, done |-> done])
  /\ write_queue' = waiting

(* Mutant: a second write while one is in flight. *)
WriteAnyway(item, frame, done) == Start(inflight, write_queue, frame, done)

(* Mutant: the queue holds one message, the last. *)
QueueLatest(item, frame, done) ==
  IF writing
  THEN write_queue' = <<item>> /\ UNCHANGED <<writing, inflight>>
  ELSE Start(inflight, write_queue, frame, done)

(* do_broadcast(), sendTextResponse() and sendData(): write, or queue.     *)
(* Only a queued message of the first two gets on_broadcast_write for      *)
(* its completion.                                                         *)
WriteOrQueue(item, frame, done) ==
  IF writing
  THEN write_queue' = Append(write_queue, item) /\ UNCHANGED <<writing, inflight>>
  ELSE Start(inflight, write_queue, frame, done)

DoBroadcast(frame) == WriteOrQueue(frame, frame, "on_broadcast_write")
SendTextResponse(frame) == WriteOrQueue(frame, frame, "on_write")
SendData == WriteOrQueue(SendAll, Snapshot(version), "on_write")

(* Mutants: the newest message first; an order to send everything that is  *)
(* dropped.                                                                *)
DrainNewest(writes) ==
  IF write_queue = <<>>
  THEN writing' = FALSE /\ inflight' = writes /\ UNCHANGED write_queue
  ELSE LET last == write_queue[Len(write_queue)]
           rest == SubSeq(write_queue, 1, Len(write_queue) - 1)
       IN  IF last = SendAll THEN Start(writes, rest, Snapshot(version), "on_write")
           ELSE Start(writes, rest, last, "on_broadcast_write")

DrainDropsSendAll(writes) ==
  IF write_queue = <<>> \/ Head(write_queue) = SendAll
  THEN writing' = FALSE /\ inflight' = writes /\ write_queue' = <<>>
  ELSE Start(writes, Tail(write_queue), Head(write_queue), "on_broadcast_write")

(* drainQueue() after the completion that left writes in flight. *)
DrainQueue(writes) ==
  IF write_queue = <<>>
  THEN writing' = FALSE /\ inflight' = writes /\ UNCHANGED write_queue
  ELSE IF Head(write_queue) = SendAll
       THEN Start(writes, Tail(write_queue), Snapshot(version), "on_write")
       ELSE Start(writes, Tail(write_queue), Head(write_queue), "on_broadcast_write")

-----------------------------------------------------------------------------
(* Completion handlers *)

(* Mutant: a session that is never added to sessions_. *)
AcceptWithoutAdd ==
  /\ phase = "handshake"
  /\ phase' = IF link THEN "open" ELSE "refused"
  /\ IF link THEN pending_read' = TRUE /\ SendData ELSE UNCHANGED <<pending_read, output>>
  /\ UNCHANGED <<registered, reading, strand, handler, abort, workers, browser>>

OnAccept ==
  /\ phase = "handshake"
  /\ IF link
     THEN /\ phase' = "open"
          /\ registered' = TRUE
          /\ pending_read' = TRUE
          /\ SendData
     ELSE /\ phase' = "refused"
          /\ UNCHANGED <<registered, pending_read, output>>
  /\ UNCHANGED <<reading, strand, handler, abort, workers, browser>>

(* on_read() with a message: exactly one of a refresh, which reads on when *)
(* the data is written, or a thread, which reads on when it has answered.  *)
OnRead ==
  /\ reading > 0 /\ inbox # <<>>
  /\ reading' = reading - 1
  /\ inbox' = Tail(inbox)
  /\ LET request == Head(inbox)
     IN  \/ /\ request.kind = "refresh"
            /\ pending_read' = TRUE
            /\ SendData
            /\ UNCHANGED <<handler, abort>>
         \/ /\ request.kind # "refresh"
            /\ handler' = [handler EXCEPT ![request.id] = request.kind]
            /\ abort' = (request.kind = "action" /\ abort)
            /\ UNCHANGED <<pending_read, output>>
  /\ UNCHANGED <<phase, registered, strand, workers, link, sent, answers, shown>>

(* on_read() with an error *)
OnReadError ==
  /\ reading > 0 /\ ~link
  /\ reading' = reading - 1
  /\ registered' = FALSE
  /\ UNCHANGED <<phase, pending_read, output, strand, handler, abort, workers, browser>>

(* A frame reaches the client, unless the connection just broke. *)
Arrive(frame) ==
  /\ answers' = IF link /\ frame.kind = "text" /\ frame.n > 0
                THEN Append(answers, frame.n) ELSE answers
  /\ shown' = IF link /\ frame.kind = "snapshot" THEN frame.n ELSE shown

(* on_write() and on_broadcast_write() without an error *)
OnWrite ==
  /\ inflight # <<>>
  /\ LET write == Head(inflight)
     IN  /\ Arrive(write.frame)
         /\ IF write.done = "on_write" /\ pending_read
            THEN pending_read' = FALSE /\ reading' = reading + 1
            ELSE UNCHANGED <<pending_read, reading>>
  /\ DrainQueue(Tail(inflight))
  /\ UNCHANGED <<phase, registered, strand, handler, abort, workers, link, inbox, sent>>

(* ... and with one *)
OnWriteError ==
  /\ inflight # <<>> /\ ~link
  /\ abort' = (abort \/ Head(inflight).done = "on_write")
  /\ writing' = FALSE
  /\ inflight' = Tail(inflight)
  /\ write_queue' = <<>>
  /\ UNCHANGED <<session, strand, handler, workers, browser>>

(* The next function posted to the strand runs. *)
RunPosted ==
  /\ strand # <<>>
  /\ strand' = Tail(strand)
  /\ LET next == Head(strand)
     IN  /\ \/ next.run = "do_broadcast" /\ DoBroadcast(next.frame)
            \/ next.run \in {"sendTextResponse", "respond"} /\ SendTextResponse(next.frame)
            \/ next.run = "do_read" /\ UNCHANGED output
         /\ reading' = IF next.run \in {"respond", "do_read"} THEN reading + 1 ELSE reading
  /\ UNCHANGED <<phase, registered, pending_read, handler, abort, workers, browser>>

-----------------------------------------------------------------------------
(* Handler threads *)

Post(run, frame) == strand' = Append(strand, [run |-> run, frame |-> frame])

(* An action: the answer and the next read are posted together. *)
RespondAction(n) ==
  /\ handler[n] = "action"
  /\ handler' = [handler EXCEPT ![n] = "done"]
  /\ Post("respond", Text(n))
  /\ UNCHANGED <<session, output, abort, workers, browser>>

(* Mutants: a relay that gave no answer ends the request; a command whose  *)
(* answer reads on, as an action's does, although ReadOn() does too.       *)
RespondOrEnd(n) ==
  /\ handler[n] = "command"
  /\ \/ Post("sendTextResponse", Text(n)) /\ handler' = [handler EXCEPT ![n] = "responded"]
     \/ UNCHANGED strand /\ handler' = [handler EXCEPT ![n] = "done"]
  /\ UNCHANGED <<session, output, abort, workers, browser>>

RespondTwice(n) ==
  /\ handler[n] = "command"
  /\ handler' = [handler EXCEPT ![n] = "responded"]
  /\ \/ Post("respond", Text(n))
     \/ UNCHANGED strand
  /\ UNCHANGED <<session, output, abort, workers, browser>>

(* A command: the answer is posted, unless the relay gave none, ... *)
RespondCommand(n) ==
  /\ handler[n] = "command"
  /\ handler' = [handler EXCEPT ![n] = "responded"]
  /\ \/ Post("sendTextResponse", Text(n))
     \/ UNCHANGED strand
  /\ UNCHANGED <<session, output, abort, workers, browser>>

(* ... and then the next read. *)
ReadOn(n) ==
  /\ handler[n] = "responded"
  /\ handler' = [handler EXCEPT ![n] = "done"]
  /\ Post("do_read", Text(n))
  /\ UNCHANGED <<session, output, abort, workers, browser>>

(* An exception: spawnHandlerThread() logs it, and nothing is posted. *)
Throw(n) ==
  /\ Throws /\ handler[n] \in {"action", "command"}
  /\ handler' = [handler EXCEPT ![n] = "threw"]
  /\ UNCHANGED <<session, output, strand, abort, workers, browser>>

-----------------------------------------------------------------------------
(* Processing workers *)

(* Some relay's worker inserts records, or deletes old ones. *)
Change ==
  /\ version < MaxVersion
  /\ version' = version + 1
  /\ UNCHANGED <<session, output, strand, handler, abort, at, payload, browser>>

(* broadcastAll() loads the table; an empty one is not sent.  (The last    *)
(* conjunct bounds the model.)                                             *)
LoadAll(b) ==
  /\ at[b] = "idle" /\ version > 0 /\ Len(strand) + Len(write_queue) < MaxPending
  /\ at' = [at EXCEPT ![b] = "loaded"]
  /\ payload' = [payload EXCEPT ![b] = Snapshot(version)]
  /\ UNCHANGED <<session, output, strand, handler, abort, version, browser>>

LoadText(b) ==
  /\ at[b] = "idle" /\ Len(strand) + Len(write_queue) < MaxPending
  /\ at' = [at EXCEPT ![b] = "loaded"]
  /\ payload' = [payload EXCEPT ![b] = Text(0)]
  /\ UNCHANGED <<session, output, strand, handler, abort, version, browser>>

(* getSessions(): a copy of the set. *)
GetSessions(b) ==
  /\ at[b] = "loaded"
  /\ at' = [at EXCEPT ![b] = IF registered THEN "posting" ELSE "idle"]
  /\ UNCHANGED <<session, output, strand, handler, abort, version, payload, browser>>

(* sendBroadcast(), sendTextBroadcast() *)
SendBroadcast(b) ==
  /\ at[b] = "posting"
  /\ at' = [at EXCEPT ![b] = "idle"]
  /\ Post(IF payload[b].kind = "snapshot" THEN "do_broadcast" ELSE "sendTextResponse",
          payload[b])
  /\ UNCHANGED <<session, output, handler, abort, version, payload, browser>>

-----------------------------------------------------------------------------
(* The client *)

Send(kind) ==
  /\ link /\ sent < MaxRequests
  /\ sent' = sent + 1
  /\ inbox' = Append(inbox, [id |-> sent', kind |-> kind])
  /\ UNCHANGED <<session, output, strand, handler, abort, workers, link, answers, shown>>

(* The page is closed, the machine sleeps, the network fails. *)
Leave ==
  /\ link /\ link' = FALSE
  /\ UNCHANGED <<session, output, strand, handler, abort, workers, inbox, sent, answers, shown>>

-----------------------------------------------------------------------------
Strand == OnAccept \/ OnRead \/ OnReadError \/ OnWrite \/ OnWriteError \/ RunPosted

Handler(n) == RespondAction(n) \/ RespondCommand(n) \/ ReadOn(n) \/ Throw(n)

Worker(b) == LoadAll(b) \/ LoadText(b) \/ GetSessions(b) \/ SendBroadcast(b)

Next ==
  \/ Strand
  \/ \E n \in Requests : Handler(n)
  \/ \E b \in Broadcasters : Worker(b)
  \/ Change
  \/ \E kind \in RequestKinds : Send(kind)
  \/ Leave

Spec == Init /\ [][Next]_vars

(* The io_context runs what is ready, handlers return, and every worker    *)
(* broadcasts the table again and again: its relay is polled every minute. *)
Fairness ==
  /\ WF_vars(OnAccept) /\ WF_vars(OnRead) /\ WF_vars(OnReadError)
  /\ WF_vars(OnWrite \/ OnWriteError) /\ WF_vars(RunPosted)
  /\ \A n \in Requests : WF_vars(Handler(n))
  /\ \A b \in Broadcasters : /\ SF_vars(LoadAll(b))
                            /\ WF_vars(GetSessions(b) \/ SendBroadcast(b))

FairSpec == Spec /\ Fairness

-----------------------------------------------------------------------------
(* Properties *)

(* One async_write at a time, from the buffer writing_ guards, and nothing *)
(* waits in the queue unless a write is there whose completion drains it.  *)
OneWriter ==
  /\ Len(inflight) <= 1
  /\ writing <=> inflight # <<>>
  /\ write_queue # <<>> => writing

(* The right to read next: an async_read has it, pending_read_, the thread *)
(* that serves the last request, or a function it posted.                  *)
Serving == {n \in Requests : handler[n] \in {"action", "command", "responded"}}
ToRead == {i \in 1 .. Len(strand) : strand[i].run \in {"respond", "do_read"}}

(* Only one of them at a time: two async_reads on a stream are undefined   *)
(* behaviour.                                                              *)
AtMostOneRead ==
  /\ reading <= 1
  /\ pending_read => reading = 0 /\ Serving = {} /\ ToRead = {}
  /\ reading = 1 => Serving = {} /\ ToRead = {}
  /\ Serving # {} => ToRead = {}
  /\ \A m, n \in Serving : m = n
  /\ \A i, j \in ToRead : i = j

(* ... and always one of them: unless a handler threw, a session whose     *)
(* connection works never goes deaf, whatever refreshes, broadcasts and    *)
(* handlers overlap.                                                       *)
ReadLoopAlive ==
  phase = "open" /\ link =>
    \/ reading = 1 \/ pending_read \/ Serving # {} \/ ToRead # {}
    \/ \E n \in Requests : handler[n] = "threw"

(* Answers reach the client in the order of its requests, each once.       *)
AnswersInOrder ==
  \A i, j \in 1 .. Len(answers) : i < j => answers[i] < answers[j]

(* The answer to request n is posted, waits, is written, or was received.   *)
Answering(n) ==
  \/ \E i \in 1 .. Len(strand) : /\ strand[i].run \in {"respond", "sendTextResponse"}
                                 /\ strand[i].frame = Text(n)
  \/ \E i \in 1 .. Len(write_queue) : write_queue[i] = Text(n)
  \/ \E i \in 1 .. Len(inflight) : inflight[i].frame = Text(n)
  \/ \E i \in 1 .. Len(answers) : answers[i] = n

(* While the connection works no step loses an answer: what a handler has  *)
(* posted is handed from the strand to the queue and from the queue to the *)
(* wire, whatever is written when it comes, until the client has it.       *)
NoAnswerLost == [][\A n \in Requests : Answering(n) /\ link' => Answering(n)']_vars

(* However snapshots overtake each other, in the end the page shows the    *)
(* table as it is.                                                         *)
PageConverges == <>[](shown = version \/ ~link)

(* Every request is read, unless the handler of one threw (the session is  *)
(* deaf from then on).                                                     *)
RequestsAreRead ==
  (inbox # <<>> /\ phase = "open") ~>
    (inbox = <<>> \/ ~link \/ \E n \in Requests : handler[n] = "threw")

(* A session whose client left is taken out of sessions_: "Deregistration  *)
(* is handled in on_read when connection closes" (ws_server.hpp:432).      *)
DeadSessionLeaves == (phase = "open" /\ ~link) ~> ~registered
=============================================================================
