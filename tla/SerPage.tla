------------------------------ MODULE SerPage ------------------------------
(***************************************************************************)
(* A browser page with the combined table of events: the page's thread     *)
(* (combine_ser.js), its Web Worker (ser_worker.js), the ring between them *)
(* (PageRing), the messages they post to each other, the worker's          *)
(* WebSocket, and of the server what the page sees: it sends the whole     *)
(* table when a socket opens, when it is asked with getData, and when the  *)
(* table has changed.                                                      *)
(*                                                                         *)
(* Each thread runs one event handler at a time: the worker takes no event *)
(* while writePayload() runs, and the page none while the pump drains the  *)
(* ring.                                                                   *)
(***************************************************************************)
EXTENDS PageRing, Sequences

CONSTANTS
  MaxConnects,      \* bound: Connect is clicked (once by the page itself when it loads)
  MaxDisconnects,   \* bound: Disconnect is clicked
  MaxOutages        \* bound: the server goes away

ASSUME PageAssumption ==
  /\ Sizes \in Seq(Nat) /\ Sizes # <<>>
  /\ MaxConnects \in Nat /\ MaxDisconnects \in Nat /\ MaxOutages \in Nat

VARIABLES
  wsUrl,          \* the worker has a URL: a socket that closes is opened again
  ws,             \* its WebSocket: "none", "connecting", "open" or "dead"
  closing,        \* sockets it closed the close event of which is still to come
  timers,         \* connectWebSocket() calls that wait for their delay
  inbox,          \* snapshots on their way to the open socket
  toWorker,       \* messages the page has posted
  toPage,         \* statuses the worker has posted
  cserWorker,     \* the page has set up its worker and its ring
  cserReaderRunning,
  cserConnected,
  cserAutoRefresh,\* the heartbeat's interval is set
  shown,          \* the newest snapshot in the page's table, 0 for none
  torn,           \* the snapshots of which bytes were decoded that were no snapshot together
  wanted,         \* the user's last click was Connect
  connects, disconnects, outages,   \* counted against the bounds
  serverUp,
  table           \* the version of the server's table

socket == <<wsUrl, ws, closing, timers, inbox>>
page == <<cserWorker, cserReaderRunning, cserConnected, cserAutoRefresh, wanted>>
rows == <<shown, torn>>
server == <<serverUp, outages, table>>
clicks == <<connects, disconnects>>
vars == <<ring, writer, reader, socket, toWorker, toPage, page, rows, server, clicks>>

Statuses == {"connecting", "connected", "disconnected", "error"}

(* The type invariant of the page and its worker. *)
TypeOK ==
  /\ RingTypeOK
  /\ ws \in {"none", "connecting", "open", "dead"}
  /\ closing \in Nat /\ timers \in Nat
  /\ inbox \in Seq(Versions)
  /\ toWorker \in Seq({"connect", "getData", "disconnect"})
  /\ toPage \in Seq(Statuses)
  /\ wsUrl \in BOOLEAN /\ wanted \in BOOLEAN /\ serverUp \in BOOLEAN
  /\ cserWorker \in BOOLEAN /\ cserReaderRunning \in BOOLEAN
  /\ cserConnected \in BOOLEAN /\ cserAutoRefresh \in BOOLEAN
  /\ shown \in Versions \union {0} /\ torn \in SUBSET Versions /\ table \in Versions
  /\ connects \in 0 .. MaxConnects /\ disconnects \in 0 .. MaxDisconnects
  /\ outages \in 0 .. MaxOutages
  /\ inbox # <<>> => ws = "open"
  /\ cserReaderRunning => cserWorker /\ readPos # Inactive

Init ==
  /\ RingInit
  /\ wsUrl = FALSE /\ ws = "none" /\ closing = 0 /\ timers = 0 /\ inbox = <<>>
  /\ toWorker = <<>> /\ toPage = <<>>
  /\ cserWorker = FALSE /\ cserReaderRunning = FALSE
  /\ cserConnected = FALSE /\ cserAutoRefresh = FALSE
  /\ shown = 0 /\ torn = {} /\ wanted = FALSE
  /\ connects = 0 /\ disconnects = 0 /\ outages = 0
  /\ serverUp = TRUE /\ table = 1

-----------------------------------------------------------------------------
(* The worker: its socket's events, its timers and the page's messages *)

WorkerIsFree == wpc = "idle"

Live == ws \in {"connecting", "open"}

(* connectWebSocket(url), with what precedes it in the page's queue.       *)
ConnectWebSocket ==
  /\ wsUrl' = TRUE
  /\ closing' = IF Live THEN closing + 1 ELSE closing
  /\ ws' = "connecting" /\ inbox' = <<>>
  /\ toPage' = Append(toPage, "connecting")

(* ws.onopen; the server has sent its table when the socket opened. *)
OnOpen ==
  /\ WorkerIsFree /\ serverUp /\ ws = "connecting"
  /\ ws' = "open" /\ inbox' = <<table>>
  /\ toPage' = Append(toPage, "connected")
  /\ UNCHANGED <<wsUrl, closing, timers, ring, writer, reader, toWorker, page, rows, server, clicks>>

(* Mutant: no socket is opened in the place of one that has closed. *)
NeverReconnect == timers' = timers

(* ws.onclose of a socket: another is opened after a delay, if there is a  *)
(* URL.                                                                    *)
Reconnect == timers' = IF wsUrl THEN timers + 1 ELSE timers

(* The socket in use fails or is closed by the server, which is away. *)
OnClose ==
  /\ WorkerIsFree /\ ~serverUp /\ Live
  /\ ws' = "dead" /\ inbox' = <<>> /\ Reconnect
  /\ toPage' = toPage \o (IF ws = "open" THEN <<"disconnected">> ELSE <<"error", "disconnected">>)
  /\ UNCHANGED <<wsUrl, closing, ring, writer, reader, toWorker, page, rows, server, clicks>>

(* ... or it is one that the worker itself has closed. *)
OnCloseOfOld ==
  /\ WorkerIsFree /\ closing > 0
  /\ closing' = closing - 1 /\ Reconnect
  /\ toPage' = Append(toPage, "disconnected")
  /\ UNCHANGED <<wsUrl, ws, inbox, ring, writer, reader, toWorker, page, rows, server, clicks>>

(* Bound: the delay is of 3 s or more, longer than a status takes to the   *)
(* page, a close or an opening.  What the user has just clicked may be     *)
(* under way when it runs out.                                             *)
DelayPassed == toPage = <<>> /\ closing = 0 /\ (ws = "connecting" => ~serverUp)

Timer ==
  /\ WorkerIsFree /\ timers > 0 /\ DelayPassed
  /\ timers' = timers - 1
  /\ IF wsUrl THEN ConnectWebSocket ELSE UNCHANGED <<wsUrl, ws, closing, inbox, toPage>>
  /\ UNCHANGED <<ring, writer, reader, toWorker, page, rows, server, clicks>>

(* ws.onmessage: what the ring can take at all goes into it, step by step. *)
OnMessage ==
  /\ WorkerIsFree /\ inbox # <<>>
  /\ inbox' = Tail(inbox)
  /\ IF Sizes[Head(inbox)] <= Capacity - Prefix
     THEN WriteBegins(Head(inbox))
     ELSE UNCHANGED <<ring, writer, reader>>
  /\ UNCHANGED <<wsUrl, ws, closing, timers, toWorker, toPage, page, rows, server, clicks>>

(* self.onmessage *)
HandleConnect ==
  /\ WorkerIsFree /\ toWorker # <<>> /\ Head(toWorker) = "connect"
  /\ toWorker' = Tail(toWorker)
  /\ ConnectWebSocket
  /\ UNCHANGED <<timers, ring, writer, reader, page, rows, server, clicks>>

(* send: the answer comes back through the socket, or there is none. *)
HandleSend ==
  /\ WorkerIsFree /\ toWorker # <<>> /\ Head(toWorker) = "getData"
  /\ toWorker' = Tail(toWorker)
  /\ inbox' = IF ws = "open" /\ serverUp THEN Append(inbox, table) ELSE inbox
  /\ UNCHANGED <<wsUrl, ws, closing, timers, toPage, ring, writer, reader, page, rows, server, clicks>>

(* Mutant: the URL stays when the page wants no connection. *)
HandleDisconnectKeepingUrl ==
  /\ WorkerIsFree /\ toWorker # <<>> /\ Head(toWorker) = "disconnect"
  /\ toWorker' = Tail(toWorker)
  /\ closing' = IF Live THEN closing + 1 ELSE closing
  /\ ws' = "none" /\ inbox' = <<>>
  /\ toPage' = Append(toPage, "disconnected")
  /\ UNCHANGED <<wsUrl, timers, ring, writer, reader, page, rows, server, clicks>>

HandleDisconnect ==
  /\ WorkerIsFree /\ toWorker # <<>> /\ Head(toWorker) = "disconnect"
  /\ toWorker' = Tail(toWorker)
  /\ wsUrl' = FALSE
  /\ closing' = IF Live THEN closing + 1 ELSE closing
  /\ ws' = "none" /\ inbox' = <<>>
  /\ toPage' = Append(toPage, "disconnected")
  /\ UNCHANGED <<timers, ring, writer, reader, page, rows, server, clicks>>

(* writePayload() *)
WriterSteps ==
  /\ Write
  /\ UNCHANGED <<socket, toWorker, toPage, page, rows, server, clicks>>

SocketEvents == OnOpen \/ OnClose \/ OnCloseOfOld \/ OnMessage
Messages == HandleConnect \/ HandleSend \/ HandleDisconnect

-----------------------------------------------------------------------------
(* The page *)

PageIsFree == rpc \in {"off", "wait"}

(* Mutant: no request when the connection is there, and no heartbeat. *)
OnStatusOnly ==
  /\ PageIsFree /\ toPage # <<>>
  /\ toPage' = Tail(toPage)
  /\ cserConnected' = (Head(toPage) = "connected")
  /\ UNCHANGED <<toWorker, cserAutoRefresh, cserWorker, cserReaderRunning, wanted, ring, writer,
                 reader, socket, rows, server, clicks>>

(* cserWorker.onmessage, ws_status *)
OnStatus ==
  /\ PageIsFree /\ toPage # <<>>
  /\ toPage' = Tail(toPage)
  /\ cserConnected' = (Head(toPage) = "connected")
  /\ toWorker' = IF cserConnected' THEN Append(toWorker, "getData") ELSE toWorker
  /\ cserAutoRefresh' = (\/ Head(toPage) = "connected"
                         \/ cserAutoRefresh /\ Head(toPage) # "disconnected")
  /\ UNCHANGED <<cserWorker, cserReaderRunning, wanted, ring, writer, reader, socket, rows, server, clicks>>

(* Bound: 15 s without a record are longer than anything that is under way. *)
Silence ==
  /\ WorkerIsFree /\ inbox = <<>> /\ toWorker = <<>> /\ toPage = <<>> /\ closing = 0
  /\ PageIsFree /\ (cserReaderRunning => ~signalled)

(* The interval of _cserStartAutoRefresh() *)
Heartbeat ==
  /\ cserAutoRefresh /\ cserConnected /\ Silence
  /\ toWorker' = Append(toWorker, "getData")
  /\ UNCHANGED <<ring, writer, reader, socket, toPage, page, rows, server, clicks>>

(* cserConnectAll(): _cserSetupWorker() and _cserStartRingReader(), but the *)
(* first time only, and the message.                                        *)
ConnectAll ==
  /\ PageIsFree /\ connects < MaxConnects
  /\ connects' = connects + 1
  /\ IF cserWorker
     THEN UNCHANGED <<cserWorker, cserReaderRunning, ring, writer, reader>>
     ELSE cserWorker' = TRUE /\ cserReaderRunning' = TRUE /\ Register
  /\ toWorker' = Append(toWorker, "connect")
  /\ wanted' = TRUE
  /\ UNCHANGED <<cserConnected, cserAutoRefresh, socket, toPage, rows, server, disconnects>>

(* cserDisconnectAll() with _cserStopReading() *)
DisconnectAll ==
  /\ PageIsFree /\ cserWorker /\ disconnects < MaxDisconnects
  /\ disconnects' = disconnects + 1
  /\ cserAutoRefresh' = FALSE /\ cserReaderRunning' = FALSE /\ cserConnected' = FALSE
  /\ Unregister
  /\ toWorker' = Append(toWorker, "disconnect")
  /\ wanted' = FALSE
  /\ UNCHANGED <<cserWorker, socket, toPage, rows, server, connects>>

(* The pump: one turn of its loop, ... *)
PumpWakes ==
  /\ IF cserReaderRunning
     THEN Wake
     ELSE /\ rpc = "wait" /\ signalled /\ rpc' = "off"
          /\ UNCHANGED <<ring, writer, from, next, length, payload>>
  /\ UNCHANGED <<socket, toWorker, toPage, page, rows, server, clicks>>

PumpReads ==
  /\ Read
  /\ UNCHANGED <<socket, toWorker, toPage, page, rows, server, clicks>>

(* ... and _cserDecodeTlv() and _cserUpdateTable(): the rows of a snapshot *)
(* are added to those that are there.  Bytes that are no snapshot are      *)
(* decoded like any others, to an error or to rows that the server may     *)
(* never have had, and nothing takes such rows away again.                 *)
PumpShows ==
  /\ rpc = "decode" /\ rpc' = "begin"
  /\ \/ /\ payload.whole
        /\ \E v \in payload.of : shown' = IF v > shown THEN v ELSE shown
        /\ UNCHANGED torn
     \/ /\ ~payload.whole
        /\ torn' = torn \union payload.of
        /\ UNCHANGED shown
  /\ payload' = Nothing
  /\ UNCHANGED <<ring, writer, from, next, length, socket, toWorker, toPage, page, server, clicks>>

Pump == PumpWakes \/ PumpReads \/ PumpShows

-----------------------------------------------------------------------------
(* The server *)

(* The table has changed, and broadcastAll() is called. *)
TableChanges ==
  /\ table + 1 \in Versions
  /\ table' = table + 1
  /\ inbox' = IF ws = "open" /\ serverUp THEN Append(inbox, table') ELSE inbox
  /\ UNCHANGED <<wsUrl, ws, closing, timers, ring, writer, reader, toWorker, toPage, page, rows,
                 serverUp, outages, clicks>>

ServerGoes ==
  /\ serverUp /\ outages < MaxOutages
  /\ serverUp' = FALSE /\ outages' = outages + 1
  /\ UNCHANGED <<ring, writer, reader, socket, toWorker, toPage, page, rows, table, clicks>>

ServerReturns ==
  /\ ~serverUp /\ serverUp' = TRUE
  /\ UNCHANGED <<ring, writer, reader, socket, toWorker, toPage, page, rows, outages, table, clicks>>

-----------------------------------------------------------------------------
Next ==
  \/ OnOpen \/ OnClose \/ OnCloseOfOld \/ OnMessage
  \/ Timer \/ HandleConnect \/ HandleSend \/ HandleDisconnect
  \/ WriterSteps
  \/ OnStatus \/ Heartbeat \/ ConnectAll \/ DisconnectAll
  \/ PumpWakes \/ PumpReads \/ PumpShows
  \/ TableChanges \/ ServerGoes \/ ServerReturns

Spec == Init /\ [][Next]_vars

(* The room that the writer has made is there when it looks. *)
SeesRoom == WriterSteps /\ wpc = "free" /\ wpc' = "put"

(* Both threads take their events in turn; a request is answered, a delay  *)
(* passes, and an interval comes again.  Nobody has to click, and the      *)
(* server may stay away or its table never change.  SeesRoom: the loop     *)
(* that makes room is short against the decoding of a snapshot, so that    *)
(* the reader does not take the room away again before every look at it.   *)
Fairness ==
  /\ SF_vars(SocketEvents) /\ SF_vars(Timer) /\ SF_vars(Messages)
  /\ WF_vars(WriterSteps) /\ SF_vars(SeesRoom)
  /\ SF_vars(OnStatus) /\ WF_vars(Heartbeat) /\ WF_vars(Pump)

FairSpec == Spec /\ Fairness

-----------------------------------------------------------------------------
(* Atomics.waitAsync() and the signal: the pump does not wait while there  *)
(* is something in the ring of which it has not been told, once the worker *)
(* has returned from writePayload().                                       *)
NoLostWakeup ==
  cserReaderRunning /\ rpc = "wait" /\ wpc = "idle" /\ readPos # writePos => signalled

(* "If no message has arrived for HEARTBEAT_MS we ask for a full snapshot  *)
(* in case a broadcast was missed" (combine_ser.js): a page that stays     *)
(* connected to a server that stays up comes to show every row of the      *)
(* server's table, whatever the ring has lost or torn on the way.          *)
PageConverges == <>[](serverUp /\ wanted) => []<>(shown = table)

(* "Auto-reconnects ... unless explicitly disconnected" (ser_worker.js):   *)
(* the page comes to a connection and keeps it.                            *)
StaysConnected == <>[](serverUp /\ wanted) => <>[](ws = "open" /\ cserConnected)

(* wsUrl = null prevents the reconnect: after Disconnect no socket stays   *)
(* or comes back.                                                          *)
StaysDisconnected == <>[](~wanted) => <>[](~Live /\ timers = 0)

(* "pipeline for every known relay ... into the combined table             *)
(* automatically" (combine_ser.js): a page that the user has connected     *)
(* reads what its worker writes.                                           *)
ConnectedReads == wanted /\ cserConnected => cserReaderRunning

(* "Read next payload" (ring_buffer.js): what was written is what is read, *)
(* so that the page has no row but those of the server's tables.           *)
NothingTorn == torn = {}

(* writePayload() makes room and returns, whatever the reader does. *)
WriterReturns == wpc # "idle" ~> wpc = "idle"

=============================================================================
