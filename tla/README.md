# Relay monitoring: specifications, model checking and proofs

TLA+ modules of the relay-monitoring application in `src/`: a C++ program that keeps a
telnet session to each of a set of protection relays (SEL-451, SEL-735, ...), polls them
for sequential-event (SER) records, stores these in SQLite, and shows them to browsers
over WebSockets.

Contents: 1 the system, 2 the modules and how they correspond to the code, 3 the runs,
4 fairness, 5 the proofs, 6 where code and comments disagree, 7 what is not modelled,
8 the plan.

## 1 The system

```
 relay <--telnet--> reception worker --[cmd, response]--> raw response buffer
                     ^   ^  (two state machines,                   |
     SER poller -----+   |   one TelnetClient,             processing worker
     (queueCommand)      |   sync_cmd_mutex_)              |       |       |
                         |                             SQLite   broadcast  shared-memory ring
 browser <--WebSocket--> session on a strand <-------------------- +
                         |  handler threads: handleUserCommand(), actions
```

Every relay that is started has a `RelayPipeline`: a reception worker, a raw response
buffer and a processing worker. All pipelines share one `SERDatabase` (one connection),
one WebSocket server and one shared-memory ring.

| Component | State | Operations | Interacts by | Hard behaviour | Correct when |
|---|---|---|---|---|---|
| Raw response buffer, `raw_data_ring_buffer.hpp` | deque, base index, reader slots with a cursor each, counters | register, unregister, push, waitPop, tryPop, trim, clear | shared state under `mutex_`, condition variable | drop at capacity under slow readers, slots reused, unsigned index arithmetic | cursors stay in the window, streams have no silent gap, nothing is held in vain, readers get on |
| Relay session: reception worker (`relay_pipeline.hpp`), `RelayConnectionFSM`, `RelayCommandFSM` (`telnet_fsm.hpp`), `TelnetClient` (`client.cpp`) | two machines, retry counters, flags of the client, last response, command queue, stop flag | runLoop, executeCommand, handleUserCommand, driveToOperational, fireCommandEvent, the level-1 and level-2 dialogues, stop | telnet lines, a mutex shared by the worker and user threads, callbacks out of the state machine | drops, late answers, refused passwords, exceptions, two kinds of threads on one socket, waits of 5 and 60 s | no command without a session, answers go with their commands, level 2 is given back, recovery without hammering the relay, stop ends everything |
| Browser session, `ws_server.hpp` | the flags `writing_` and `pending_read_`, `write_queue_`, the session set, handler threads | on_accept, on_read, on_write, on_broadcast_write, drainQueue, broadcastAll, broadcastText, refresh, actions, commands | completion handlers and posted functions on a strand, handler threads, workers of all pipelines | overlap of broadcasts, answers and refreshes; the right to read next wanders between four places | one write and one read at a time, never deaf, answers in order, the page converges, dead sessions leave |
| Database, `ser_database.cpp` | tables, the transaction and last rowid of the connection | insertAndGetNewRecords, insertSettingsFile, pruneOldRecords, single inserts, queries | statements of all processing workers on one connection | transactions of several threads on one connection, failing statements, kills | transactions end, what is reported is durable and reported once, files are whole |
| Processing worker and pipeline, `relay_pipeline.hpp` | prune counter, the relay's context | runLoop, start, stop | pops from the buffer, database, broadcasts, shared-memory ring | order of shutdown, lost wake-ups | every response is processed once; stop returns |
| Relay manager, `relay_manager.hpp` | configurations, pipelines, one mutex | start, stop, queueCommand, handleUserCommand, updateStoredPassword | called by handler threads, the poller, shutdown | the mutex is held while a command blocks; copies of credentials | one relay does not hold up the others |
| Application, `telnet_sml_app.cpp` | TAR cache, set of collections in progress, threads | JSON actions, change_password, FETCH_ALL_TAR, shutdown | everything above | stop and restart during a collection; joins while threads block | one collection per relay, shutdown ends |
| SER poller, `thread_manager.hpp` | stop flag | queues `SER` for active relays each minute | queueCommand | none beyond its stop | polls until stopped |
| Shared-memory ring, `shared_memory/` | bytes, write and read positions | write, read, drop | memory shared by processes | wrap-around, exact fill, several processes | readers get whole messages or know of the loss |
| Browser page, `relay-app/js/` | socket worker with reconnect timer, byte ring, tables | connect, onmessage, ring read and write, rendering | messages between threads, SharedArrayBuffer | two reconnect chains, ring overrun | one socket, whole messages |

Two components decode bytes that come from outside. The ASN.1 TLV codec
(`asn_tlv_codec.hpp`, and the decoder of `combine_ser.js` in the browser) is what the browser
session and the page exchange: correct when what one side writes the other reads back, and
when a damaged buffer is refused. The GOOSE parser (`asn/goose_parser.c` on `asn/asn1_ber.c`,
a C library of its own) hands its caller references into a PDU: correct when these stay in
the PDU, nest as it does, and the parser comes to an end, whatever the bytes.

Sequential or outside the application's own logic: the record parsers, the SNTP client (one
request, one answer), the logger, the database API over WebSocket, `PasswordManager` and
`RelayService` (compiled, but not instantiated), the vendored state machine library.

`PROJECT.json` lists each hazard at its line with the properties aimed at it.

## 2 The modules

### LossyBroadcast, RawDataRing

`LossyBroadcast` is what a reader of the buffer may rely on, without a deque: there is a
log, each subscriber has a place in it, a read gives the log's message at that place, and
only a subscriber that is a whole capacity behind loses messages, the oldest first.
`RawDataRing` is `RawDataRingBuffer` with its deque and `base_index_`; each public operation
holds `mutex_` and is one action (`RegisterReader`, `UnregisterReader`, `Push`, `Pop` for
waitPop and tryPop, `Clear`); `TrimConsumed` is part of `UnregisterReader` and `Pop`, as in
the code. `waitPop` is enabled exactly when its predicate holds. The history variables
`log`, `got`, `since` and `missed` are read by no action. `ImplementsBroadcast` is the
refinement: the subscriptions and cursors map to themselves, the log is the history.

### InOrderService, RelayPipeline

`InOrderService` is what those who queue commands for a relay may rely on: commands are
numbered as they are queued and their answers are handled in that order, none twice; one may
be left out. `RelayPipeline` is the class of that name with its two workers, composed with
the buffer: `Ring` is an INSTANCE of `RawDataRing` whose messages are the commands with
their numbers, and `Ring!RegisterReader`, `Push`, `Pop` and `UnregisterReader` are parts of
the actions that call them. `rx` and `proc` say where a worker is. The wait on a condition
variable is not reduced to its predicate here: a worker tests it (`RxTest`, `ProcTest`), is
in `gap` between the test and the sleep, with the mutex held, and then `asleep` until a
notification or a spurious wake-up (`RxSleeps`, `ProcSleeps`). `queueCommand()` and `push()`
take the mutex and so cannot run in the gap; the notifications of `stop()` do not, and can.
`manager` is the thread in `start()` or `stop()`, step by step (`StartRx` to
`NotifyStartup`, `StopRx` to `JoinProc`); it and the poller (`QueuePoll`, `NotifyPoll`)
exclude each other, as the manager's mutex does. The processing worker asks for the files of
a listing (`AskForFile`, `TellOfFile`), which is how it queues commands itself.
`ImplementsService` is the refinement: the numbers asked and handled map to themselves.

### RelaySession

Threads are the worker `Rx` and `Users` (handler threads in `handleUserCommand`). `pc[t]`
says where a thread is; a step with I/O is one call of `TelnetClient::SendCmdReceiveData`
(`Send`) or `connectCheck` (`ConnectCheck`). `fsm` is the state of `RelayConnectionFSM`;
`StartEvent`, `StepEvent` and `DisconnectEvent` are `process_event` with the entry action
of the state it enters. (An event without a transition leaves the machine where it is:
`state<_> + unexpected_event<_>` at `telnet_fsm.hpp:933` does not match in the vendored
library.) `RelayCommandFSM` runs within one call and leaves only `CmdResponseHolder`
behind, so it is part of `Fire`. `Attempt`, `Drive`, `Nap`, `Decide` are the loops of
`executeCommand`/`handleUserCommand` and `driveToOperational`; `SendUser` and `SendPass`
the level-1 dialogue, `Fire`, `SendL2Pass`, `SendL2Command`, `SendAcc` the level-2 one;
`Kick`, `Take`, `Backoff`, `Exit` are `runLoop`. `screen` is the flag
`screen_size_configured_`, which `BeforeNap` resets before the waits of
`driveToOperational()` and `Decide` after a lost link; the restart after an exception
(`Throw`, `Backoff`, `Kick`) connects anew and does not.

Lines and answers are tokens: an answer says only whether the code would see a prompt in
it (`ok`), a question (`ask`), the word "Invalid" (`bad`) or both (`badask`). The relay is
modelled from what `src/` expects of it (marked external): three access levels, a password
question that takes the next line for the password. With `SlowAnswers` an answer may come
after the client stopped waiting and is read by whoever reads next. A streamed command and
`SendCmdMultiPage` appear as one exchange, although the code sends the pages of an answer
one by one. The network may drop the session (`LinkDown`), the relay may become
unreachable or its passwords change (`Change`) until `Settle`.

Two variables are history of the TCP session, read by no action: `screened` says whether SET S
has been sent on it, or that it was begun by a restart after an exception; `upset` that an
answer was left on its wire, or that an exception hit a command between the elevation to
level 2 and ACC. What the code guarantees only outside these cases is stated so
(`CommandsNeedSession`, `ResponseMatchesCommand`, `LevelTwoOnlyInside`), and the statement
without the exception (`EverySessionSized`, `LevelTwoNeverKept`) has a companion that shows
it violated.

### WebSocketSession

One browser's session. The strand serialises handlers, so each completion handler
(`OnAccept`, `OnRead`, `OnReadError`, `OnWrite`, `OnWriteError`) and each posted function
(`RunPosted`) is one action; `inflight` holds the async_writes that have not completed
with the handler each names, `reading` counts async_reads. `writing`, `pending_read`,
`write_queue` and `abort` are the members. Handler threads answer and post the next read
(`RespondAction`, `RespondCommand`, `ReadOn`, `Throw`); processing workers load, copy the
set of sessions and post (`LoadAll`, `LoadText`, `GetSessions`, `SendBroadcast`), three
separate steps, as nothing locks them together. A snapshot is the number of the table's
version, an answer the number of its request.

### SerDatabase

The connection as SQLite gives it to several threads: `main` is what statements see,
`disk` what has been committed, `txn` whether the connection (not a thread) is in a
transaction. Each statement of `insertAndGetNewRecords` (`Begin`, `Exists`, `Insert`,
`Commit`), of `pruneOldRecords` (`Prune`) and of `insertSettingsFile` (`Begin`,
`DelEntries`, `DelFile`, `InsFile`, `RowId`, `InsEntry`, `Commit`, `Rollback`) is an
action of the worker that issues it. A relay answers a plain SER with its `Window` latest
events, so that events may pass by between two answers; the SER 1000 of `start()`, which
would have them all, is not stored by the code and is no action here. Statements may fail,
with or without SQLite rolling the transaction back; the program may be killed and
restarted. A record is named by its unique key; `Report` is the write of the new records to the shared-memory ring.

### SharedRing

The ring of bytes through which the processing workers hand records to other processes
(in this repository `relay_pipeline.hpp:848` writes it; its readers are separate
programs). A byte is named by the record it belongs to, its place in it and the length
the record's prefix states, so that reading a length is exact at the beginning of a
record, 0 where nothing was written, and anything at all elsewhere (`ReadLength`).
`write()` takes the interprocess mutex and looks for a place (`BeginWrite`), drops for
the slowest readers one turn of its loop at a time (`Drop`), and stores (`EndWrite`);
`job` is the write that holds the mutex. `waitRead` is `WaitRead`, enabled when its
predicate holds and the positions still differ once normalised. A reader that dies is
one that takes no more steps: its slot stays active.

### RelayManager, TelnetSmlApp, ServiceLifetime

`RelayManager` is the class of that name. Every operation of it holds `mutex_` from its
first line to its last; those that cannot block are one action (`StartRelay`,
`UpdateStoredPassword`, `Look`, `NotActive`), those that can are a pair with the mutex held
in between (`StopRelay`/`RelayStopped`, `StopAllBegins`/`StopNext`/`NextStopped`/`StopAllEnds`,
`CommandBegins`/`CommandEnds`, or `CommandThrows` when an exception leaves the command). A
pipeline is reduced to what its callers can tell:

| `session[r]` | the pipeline of r |
|---|---|
| `off` | is not there |
| `starting` | was made, its worker has not fired `start_event` yet (`Kick`) |
| `held` | a command took `sync_cmd_mutex_` before `Kick`, and spins in Idle; nothing ends that |
| `connecting` | the loops of `driveToOperational()` go round until `Connect`; again after `RestartSession` |
| `operational` | commands are answered |
| `stopping` | it was told to stop and is joined |
| `deaf` | so it was, but a worker missed the notification and sleeps until some other one (`Rouse`) |

Nothing is assumed of the last step of `held` and `deaf`: the first has none, the second none
that has to come. `configs` and `creds` are the two copies of a password, the manager's and
the running pipeline's. `unsure` is history: the relays that took a password in a change that
went unconfirmed, or beside another that was still to be stored.

`TelnetSmlApp` EXTENDS it with the threads: `Main` goes through `start()`, waits for Enter
and goes through `stop()`, one action per step and join; `Handlers` run what browsers ask
for (`Requests`); `Collectors` are the threads of `collectTarBackground()` with
`tarCache_` (`cached`) and `tarFetchInProgress_` (`fetching`); the poller and the server
thread are small machines of their own. `job[t]` is what a thread is doing for whom and how
far it is. The relays answer only while they are in `up`, which the environment changes. An
exception may end a handler while it has a command or what came of it (`Throw`); it is caught
in `spawnHandlerThread()` and undoes nothing. `orphaned` is history: the flags that a fetch
left set in this way.

`ServiceLifetime` is the abstract specification of a shared service: it opens with no
users, users come and go while it is open, and it closes only when there are none.
`ImplementsLifetime` maps the open database to it, with every thread, every pipeline and the
server as its users.

### PageRing, SerPage

`PageRing` is `ring_buffer.js`. No lock guards it, so `writePayload()` and `readPayload()`
are cut at each atomic access: `Free`, `Drop`, `Compare`, `Move`, `Put`, `Publish`,
`Notify` on the one side, `ReadBegins`, `Look`, `Copy`, `Store` on the other, with the locals of
the two functions as variables. A byte is `<<v, i>>`, byte `i` of the record of snapshot
`v`; a length read where no record begins, or where the writer is just writing (`Racing`), is
any member of `Junk`. A payload that was not written as one is not `whole`, and `of` says
whose bytes it has (`Owners`).

`SerPage` EXTENDS it with the Web Worker (`ser_worker.js`: `OnOpen`, `OnClose`,
`OnCloseOfOld`, `OnMessage`, `Timer`, `HandleConnect`, `HandleSend`, `HandleDisconnect`)
and the page (`combine_ser.js`: `ConnectAll`, `DisconnectAll`, `OnStatus`, `Heartbeat`, and
the pump `PumpWakes`, `PumpReads`, `PumpShows`). Nothing checks a payload: what is not whole
is decoded like any other, to an error or to rows, which stay in the table. `shown` is the
newest snapshot shown whole, `torn` the snapshots whose bytes such rows may be made of. A
thread runs one event handler at a time;
the messages between them are the queues `toWorker` and `toPage`. `closing` counts sockets
whose close event is still to come, `timers` the `setTimeout`s of reconnects. The server is
external: it sends the whole table to a socket that opens, to one that asks and to all when
the table changes.

### Bytes, SerTlv, SerTlvChecks

`Bytes` is what the decoders of bytes share: an offset into a buffer, and a number put
together from its bytes in a word of the machine (`BigEndian`). `SerTlv` holds the encoder of
the records' TLV format (`BerLength`, `BerTlv`, `EncodeRecord`, `Encode`) and both decoders. A
call of one is a record, its locals, that `DecodeStep` takes one TLV further: `SerRecordStep`
is a turn of the loop over the records, `SerFieldStep` of that over the fields. The two
decoders have the same loops and differ in what reads a TLV: `ReadTlv` in words of `SizeWord`
values, which refuses what passes the buffer's end, and `PageReadTlv` in the signed 32-bit
arithmetic of JavaScript, for which a length of 2^31 is negative and a byte behind the end
is undefined. A string of C++ has the bytes of a field as they are; the page shows what the
browser's `TextDecoder` makes of them, the CONSTANT `TextDecode`.

`SerTlvChecks` states what they promise as assumptions that TLC evaluates, over small
tables and over the lengths at which the form of a length changes: a length reads back
(`LengthsReadBack`), a table reads back with both decoders (`TablesReadBack`; with the page's
up to a `TextDecode` that gives U+FFFD for what is no ASCII, as the browser's does for bytes
that are no UTF-8), and a buffer that is cut short is refused by the C++ decoder (`CutIsRefused`), while the page's decoder may
show what is before the cut (`CutIsShown`). `MCSerPage` EXTENDS it, so that the run
`browser_page` evaluates them.

### GooseParser, GooseChecks

The first part of `GooseParser` is the reader of `asn1_ber.c` (`BerReadTag`,
`BerReadLength`, `BerNextTlv`), the second is `goose_parser.c`: a call of `goose_parse_pdu()` is a record that `GooseStep`
takes one TLV further, with the recursive calls of `parse_mms_sequence()` as the stack
`frames` and the caller's arrays as the sequences of what has been written to them;
`GooseFindPdu` is `goose_find_pdu()`. The check `off + vlen > len` of `ber_next_tlv()` is made
in words of `SizeWord` values, where the sum may wrap; `sums`, which is no variable of the
program, records that it has in a TLV the call accepted. Then `parse_mms_sequence()` may read
again what it has read, and its guard `off == before` may hold. `GooseChecks`
evaluates, over all small PDUs, sound, cut short, with lengths that lie and with arrays too
small, that what the caller gets is a tree (`GooseTree`), that every way to return is
taken (`GooseCases`), and for a PDU whose lengths wrap what is lost and what is kept
(`GooseWrapped`). `MCRawDataRing` EXTENDS it, so that the run `ring_buffer` does so.

### Proof and model-checking modules

`RelaySessionProofs`, `WebSocketSessionProofs`, `SerDatabaseProofs`, `SharedRingProofs`,
`TelnetSmlAppProofs`, `SerPageProofs` and `RelayPipelineProofs` hold the theorems and proofs
about the module each is named after, `RawDataProofs` those about whatever carries or takes
apart raw bytes: `RawDataRing`, `GooseParser` and `SerTlv`. Where a `.cfg` can state the small
values of the CONSTANTS itself, the run is of the component's module; `MCRawDataRing`,
`MCRelaySession` and `MCSerPage` hold values it cannot, and bring in the checks of the codecs.
In each module definitions marked as mutants, used by no
behaviour, say what a plausible slip in the operation would do; they show that a property
would notice.

## 3 The runs

| Run | Question | Bounds | Distinct states |
|---|---|---|---|
| `ring_buffer` | streams, trimming, refinement and progress of the buffer; the GOOSE parser over small PDUs | 2 reader slots, capacity 2, 4 pushes, 2 messages | 298,038 |
| `relay_session` | rejected logins bounded, answers with their commands, level 2 given back, with a relay that answers in time and threads that throw | worker and 1 user, SER and PAS, 2 attempts, 2 login retries, queue 1, exceptions | 9,920,430 |
| `relay_session_live` | no command without login and SET S on its session, recovery, return of user commands, stop | worker and 1 user, 1 attempt, 1 login retry, exceptions | 339,460 |
| `ws_session` | one write, one read, never deaf, answers in order, none lost; the page converges, every request is read | 1 broadcasting worker, 2 requests, 2 changes of the table, handlers that throw | 174,628 |
| `ser_database` | transactions end, reports are durable and unique, events are stored while the relay's answers have them | 2 relays, 1 of them with settings files of 1 line, 2 events in all, answers with the latest one, 1 fault | 623,042 |
| `shared_ring` | no legal write refused, cursors on records, writes return | 2 readers, 7 bytes, records of 3 to 5 bytes, 4 writes | 355,719 |
| `relay_app` | who holds the manager's mutex waits only for a pipeline, no collection flag without a collection but after an exception, passwords kept, the database outlives its users; fetches, polls and shutdown get done | 1 relay, 1 handler and 2 collector threads at a time, 2 requests, 2 passwords, 1 TAR row of at most 2, 1 retry | 254,072 |
| `relay_pipeline` | no worker sleeps over work, answers handled in the order of their commands, everything queued is done, `stop()` returns if its wake-ups are heard | buffer of capacity 1 with 2 slots, the 3 commands of `start()`, 1 poll, 1 file in a listing | 641,016 |
| `browser_page` | no lost wake-up of the pump, the page converges, stays connected, stays disconnected; the TLV codec over small tables | ring of 8 bytes, snapshots of which two fit, 1 connect, 1 disconnect, 1 outage | 223,856 |
| `relay_session_drop` | violation: a lost session is never replaced | worker alone | |
| `ser_database_torn` | violation: half a settings file is committed | 2 lines, 1 kill | |
| `browser_page_half` | violation: after a snapshot longer than half of the ring no later one is shown | as `browser_page`, longer snapshots | |

Run one with `tlc -config MCRelaySession.cfg MCRelaySession` (`PROJECT.json` lists the module
and the config of each). Companions, not in the list:

| Config | Result |
|---|---|
| `MCWebSocketSessionTwo.cfg` | passes (690,967 states): the properties of `ws_session` with two broadcasting workers and one change of the table |
| `MCRelaySessionLevel.cfg` | `LevelTwoNeverKept` violated: level 2 is kept after a time-out |
| `MCRelaySessionSize.cfg` | `EverySessionSized` violated: commands on a session without SET S after an exception |
| `MCRelaySessionEarly.cfg` | `CommandReturns` violated: a command before `start_event` |
| `MCWebSocketSessionLeak.cfg` | `DeadSessionLeaves` violated: a dead session stays registered |
| `MCSerDatabaseLost.cfg` | `CatchUpStores` violated: an event that no answer to SER has any more is never stored |
| `MCSerDatabaseLink.cfg` | `EntriesLinked` violated: lines linked to another table's row |
| `MCSharedRingLoss.cfg` | `NoSilentLoss` violated: unread records vanish without a drop |
| `MCTelnetSmlAppTwo.cfg` | passes (647,272 states): the safety properties of `relay_app` with two handlers at a time and one collector |
| `MCTelnetSmlAppFlag.cfg` | `FlagMeansRunning` violated: the flag a fetch leaves behind when it throws |
| `MCTelnetSmlAppStop.cfg` | `StopEnds` violated: shutdown waits for a command to a relay that cannot be reached |
| `MCRelayPipelineStop.cfg` | `StopReturns` violated: a wake-up of `stop()` that is lost |
| `MCTelnetSmlAppBlocked.cfg` | `OthersArePolled` violated: one relay that cannot be reached holds up the others |
| `MCSerPageTorn.cfg` | `NothingTorn` violated: bytes of two snapshots are decoded as one |
| `MCSerPageFull.cfg` | `WriterReturns` violated: a payload of almost the whole ring |
| `MCSerPageAgain.cfg` | `ConnectedReads` violated: connected again, and nobody reads |
| `MCSerPageFlap.cfg` | `StaysConnected` violated: two clicks on Connect |

Where the type invariant of a module is a theorem (section 5) its run does not repeat it.

Why the bounds are enough to be interesting:

* *ring*: four pushes into capacity two drop messages under readers, two slots give a fast
  and a slow reader, and slots are reused because registering is not bounded.
* *session*: retries are taken to their limits; two threads are enough for every order of
  two exchanges on the socket, as a third would only wait for the mutex; a command with an
  event of its own and one with level 2 reach the branches of `fireCommandEvent` that leave
  something behind. Exceptions come at every place of either thread. One late answer shifts
  all later ones by one, which is the whole of that hazard. The safety invariants but
  `LoginAttemptsBounded` also pass with late answers (824,760 states, one attempt of each
  kind), and all of them with a raw command beside `SER` (4,500,690); for everything at
  once there are the theorems, which have no such bounds.
* *browser*: two requests overlap with each other's answers, and refreshes asked for by
  the page with broadcasts; one frame may already wait when a broadcast begins
  (`MaxPending`), and more join it while it waits. That two workers overtake each other
  between loading and posting is in the companion with two.
* *database*: two workers are what it takes for one's COMMIT, ROLLBACK or INSERT to fall
  between another's statements. Two events may be of one relay, where the second pushes the
  first out of the relay's answers, or one of each.
  With one relay, kills, and statements that do not fail, `SettingsWhole` and `EntriesLinked`
  hold too.
* *shared ring*: seven bytes hold two records, so that every write drops or goes back to
  the start; a record of five bytes does not fit behind one of three, which leaves a tail
  never written; four writes come past the start twice. Capacity 11 with records of 3, 4
  and 7 bytes (2.2 million states) and five writes (3.5 million) also pass.
* *application*: a relay's collection is started by `start()` itself, so that two requests
  are a stop and a restart in its midst (a second collection beside the first), a fetch
  that waits for a collection that is stopped, or two requests in either order against the
  shutdown; two collectors are enough, as a third would need a third start. One row before
  "Invalid Target" and a limit of two rows reach both ends of the loop. The
  safety properties also pass with two handlers at a time, which password changes that overlap
  need (the companion `Two`). The second relay, needed for one holding up another, is in the
  companion `Blocked`.
* *pipeline*: capacity 1 makes the buffer drop as soon as the processing worker lags one
  answer behind. The commands of `start()` come while the workers start, the poll at any time, the
  file from within the processing worker, so that each of the three who notify the reception
  worker meets it awake, in the gap and asleep; `stop()` meets both workers at every place.
* *page*: prefixes have 2 bytes and records 3 or 4; 3 does not divide 8, so that the
  snapshots leave a gap before the end of the ring in some laps and fill it exactly in
  others; the third write always wraps or drops. One outage puts a reconnect between any
  two steps, one disconnect meets it at every point. A second click on Connect makes
  `StaysConnected` fail (`MCSerPageFlap.cfg`), hence one. `Silence` and `DelayPassed` say
  that the heartbeat's 15 s and the reconnect's 3 s are longer than what is under way.

`CHECK_DEADLOCK FALSE` is given for the sessions, the database and the page because they
really stop: a session's threads exit after `stop()`, a browser leaves, a user disconnects,
and the bounded world of events and revisions ends. The rings never stop and neither do the
relays around the application and the pipeline: these are checked for deadlock (of the
latter two it says little; that their threads go on is what the liveness properties say).

## 4 Fairness

* `RawDataRing`: each registered reader is served by a thread that keeps calling waitPop,
  hence WF of `Pop`.
* `RelaySession`: threads that can run do run (WF of `Session`, `Take`, `Backoff`,
  `Exit`). A thread waiting for `sync_cmd_mutex_` gets it if it is free again and again
  (SF of `Lock` and `Kick`): the worker is at rest most of each minute between two polls.
  The poller keeps queueing (WF of `QueueCommand`). Nothing is assumed of the network, nor
  that `stop()` is ever called; `calm` is a premise of the properties, not of the fairness.
* `WebSocketSession`: the io_context runs what is ready and handlers return (WF). Each
  worker broadcasts the table again and again, as its relay is polled every minute (SF of
  `LoadAll`; strong because a frame waiting in the queue disables it, see `MaxPending`).
* `SerDatabase`: WF of each worker; SF of `TakeSer`, because a worker alternates between
  SER responses and settings files that wait in one queue. How many events a relay logs
  between two answers is left open: `EventsStored` promises an event only while the answers
  still have it.
* `TelnetSmlApp`: threads that can go on do. Where they wait for the manager's mutex one of
  those that wait gets it when it is free again and again: SF of `MainStep`, of `Poll`, of
  the handlers' steps and of commands, each of the disjunction and not of each thread, as
  `std::mutex` promises no order. That it is free again and again the code does give: a
  collection has at most `RowLimit` commands, and the poller sleeps for a minute. WF of
  `Collect`, `ServerExits` and `Progress(r)`, which is what a pipeline's own worker does for
  itself (`Kick`, `Connect`). None of the environment, nor of `Throw`, `RestartSession` and
  `Rouse`: a relay owes no answer, and a notification that was missed is not made up for.
  So neither a session nor the end of a `stop()` can be counted on. That from some time on
  every pipeline has its session or can get it, and none is `held` or `deaf` (`<>[]Served`),
  is a premise of `ShutdownEnds`, `FetchAnswered` and `PollsGoOn`; what happens without it is
  in `StopEnds`, `OthersArePolled` and findings 5 and 9.
* `RelayPipeline`: a worker that can go on does, and one of two threads at a mutex gets it in
  the end (SF of `Rx`, `Proc` and `Starting`; strong because a worker in the gap holds the
  mutex, which it gives up when it sleeps). A worker in the gap falls asleep (WF of `RxSleeps`
  and `ProcSleeps` there); nothing makes one that sleeps wake up except a notification. A command
  ends when the relay answers, or once the stop flag is set (WF of `Failed` then: this is
  `StopReleases` of `RelaySession`). WF of `Stopping`: `stop()` runs on between its joins.
  Nobody has to call `stop()`, and `Drains` has a relay that answers from some time on as
  its premise.
* `SerPage`: an event loop takes its events in turn (SF of the socket's events, timers,
  messages and statuses; WF of the writer's loop, the heartbeat and the pump). `SeesRoom`
  (SF): the writer that has made room sees it before the reader, who is busy decoding, has
  moved again, every time; without it the two may contend for ever. Nobody has to click and
  the server may stay away.
* `SharedRing`: WF of `Drop \/ EndWrite`: a write that holds the mutex runs on. Nothing is
  assumed of readers. (A process killed there holds the mutex for ever: section 7.)

## 5 The proofs

For all values of the constants, from the assumptions on constants of the modules alone
(`RingAssumption`, `SessionAssumption`, `DatabaseAssumption`, `SharedRingAssumption`,
`PipelineAssumption`, `AppAssumption`, `PageAssumption`). A theorem that needs more says so
as a hypothesis, named here.

* **Ring.** `TypeOK`, `CursorInWindow`, `ReaderStream`, `NothingHeldInVain`, and that the
  ring implements `LossyBroadcast`. The invariant adds to the window that the deque is the
  tail of the log from `base_index` on (`QueueIsLogTail`, without which what `Pop` returns
  could not be compared with the log), that the messages a reader got are pointwise those
  of the log (`StreamInv`), and that either some reader is at the front or none has moved
  since it registered (`FrontInv`, because `NothingHeldInVain` alone is not inductive:
  registering finds an old backlog). The refinement shows every step to be a step of the
  broadcast or a stutter under that invariant.
* **Session.** `TypeOK`, `CommandsNeedSession`, `OperationalIsConnected`, `NeverConnLost`,
  for any number of users, retry limits, late answers and exceptions. The strengthening
  `LinkInv` follows `connected_` and the socket from `connectCheck()` to Operational; that a
  non-empty response in Login_L1 implies an open socket is what carries it over the guard of
  the table. `NeverConnLost` is the proof that the reconnect branch of the retry logic is
  dead. `CommandsNeedSession` says of SET S that the flag is set only on a session that was
  sent the line or that a restart began (`ScreenInv`); if no thread throws (`~Exceptions`) the
  second case is gone (`SessionsSized`, `EverySessionSized`), and `MCRelaySessionSize.cfg`
  shows that it is needed. `ResponseMatchesCommand` has no hypothesis: on a session that is not
  `upset` nothing is left on the wire between two exchanges, and the holder's answer belongs
  to the command of the thread that has the mutex. `LevelTwoOnlyInside` is of the same
  kind: between the elevation and ACC the relay asks for no password, so that ACC is taken
  for what it is. Its only hypothesis is about the lines themselves (`CommandsAreCommands`): the
  level-2 password is no command, and no level-2 command is a line that makes the relay ask
  for a password; an ACC from a user is allowed. `MCRelaySessionLevel.cfg` shows what `upset` is
  for. `LoginAttemptsBounded` alone needs a relay that answers in time (`~SlowAnswers`): the
  one refusal that has not been counted yet is still in `last_response_` of a machine in
  Login_L1 and is counted by the next event. Two say what the state machine does with a
  session it has: `SessionIsKept`, that it leaves Operational only when
  the worker restarts after an exception, and from it `DropIsForGood`, that without
  exceptions (`~Exceptions`) a session lost in Operational stays lost in every continuation.
  The run `relay_session_drop` shows one behaviour of which this is true; the theorem says
  that there is no other kind.
* **Pipeline.** `TypeOK`, `NoSleepOverWork`, and that the pipeline implements
  `InOrderService`, for any capacity, number of slots, polls and files. That a worker in the
  gap has tested an empty queue, and that nothing was queued since (`GapInv`), is what makes
  the second inductive. For the refinement the buffer's log has to be in the order of the
  numbers, and its last before the command in execution, before the queue's, before those to
  come (`NumbersRise`); and what has been handled has been read (`HandledWasRead`), so that
  the next answer's number, read after the others, is greater. `StopIsHeard` is the safe
  part of `StopReturnsIfHeard`: the worker that `stop()` joins is awake, unless a
  notification met one in the gap; with finding 5 this says that the gap is the only way to
  a join that waits. `StopEndsAll`: after `stop()` no step of the pipeline is left.
* **Browser session.** `TypeOK`, `OneWriter`, `AtMostOneRead`, `ReadLoopAlive`,
  `AnswersInOrder`, for any number of workers and requests. The strengthening says where the
  right to read can be, and that before the handshake it is nowhere. For the order of answers
  (`OrderInv`) an answer is followed through the four places it goes: posted on the strand,
  in `write_queue_`, being written, written. The numbers increase from the last of
  these to the first, and a handler at work is that of the newest request read. With that,
  `NoAnswerLost`: no step of anybody takes an answer out of these places while the connection
  works, except onward.
* **Database.** `TypeOK`, `TransactionOwned`, `ReportedIsDurable`, `ReportedOnce`, for any
  number of relays, faults and kills. Reports are proved from: with no transaction `main`
  equals `disk`; what a batch took for new is in `main`; it has not been reported; once
  its own COMMIT is past it is on the disk; and nobody inserts between a worker's
  `recordExists()` and its INSERT of its own relay's key. These hold while no statement
  has failed (`failed`), which is a premise of both properties: a ROLLBACK of another
  worker undoes a batch that goes on to be reported (section 6).
  `SettingsWholeAlone`: with one relay, and if no statement fails (`~SqlFails`), a settings file
  on the disk has the lines of one revision, all of them, each linked to its own file, through
  any number of kills. Both premises are needed: a second worker's COMMIT tears the file
  (finding 2), and so does a DELETE that fails, as its result is not looked at.
* **Shared ring.** `TypeOK`, `NeverRefused`, `LapWhole`, `CursorOnRecord`, for any
  capacity, size of the prefix, number of readers and lengths. None of the last three is
  inductive: what keeps a cursor on records is that each record ends where the next one
  begins, both in the writer's lap (`LapInv`) and in what is left of the one before, up to
  the place where the writer last went back to the start (`PrevInv`). `NeverRefused` is
  that a reader who bars the way has something unread, and so is not at the place of the
  new record (`SlowestLags`). `WriteGetsOn` is the safe part of `WriteReturns`: in each turn of
  the loop that drops, no reader falls back and one gets nearer to the place of the record,
  whatever the bytes there read as; the distance is at most `Capacity`, so that the loop ends.
* **Application.** `TypeOK`, `DbOutlivesUsers`, `PipelineOutlivesCommand`, `FlagHasOwner`,
  `PasswordKept`, and that the application implements
  `ServiceLifetime`, for any number of relays, threads and requests, and wherever exceptions
  end a handler. A TAR flag that is set has a collection or a fetch that will clear it, or is
  one that an exception left (`orphaned`). The manager has the password the relay takes, with
  any number of handlers changing it and with changes refused, lost or ended by an exception,
  except where a change the relay took went unconfirmed or was overtaken (`unsure`);
  for that the invariant `Changes` says whose password is the newest. The invariant (`IInv`)
  says which thread holds the mutex at which place, what `stop()` has behind it at each of
  its steps (after a join the threads it joined are gone, and nothing that is still alive
  can start another), and that two collections of one relay cannot both count on the flag.
  The order of shutdown is proved as a whole: that the database closes last needs all of
  these facts. `HolderWaitsForPipeline` (`HolderGoesOn`): whoever holds the manager's mutex
  is in a call of the manager and waits for its pipeline, which is there, or it is the main
  thread when all others have been joined. So threads never wait for each other in a circle;
  what holds up the others (findings 4, 11) is a relay that cannot be reached.
* **Page.** `TypeOK` and `NoLostWakeup`, for any ring and any snapshots. Of the first, that
  the positions the two threads store stay within the ring is what needs the guards of
  `writePayload()`. The second is not inductive: a pump that drains the ring works on copies
  of the positions, which the writer may have made stale. `SignalInv` says that it then has
  been signalled since, or that the writer is still in `writePayload()`, which ends with the
  signal. `LastClickWins` (`TheLastClickWins`) is the safe part of `StaysConnected` and
  `StaysDisconnected`: once the worker has seen the last click, its URL and its socket are as
  that click wants them, in spite of close events of old sockets and delays that still run;
  the invariant says of the clicks still in the queue that the last of them is what the user
  wants (`ClickInv`). `ShownWasServed` (`PageShowsServedTables`): whatever a torn length reads
  as, nothing is read or written outside the ring, a snapshot that is shown whole is one the
  server has had, and the bytes of rows that are no snapshot's come from snapshots it has
  had. That there are such rows is finding 13.
* **GOOSE parser.** `GooseTreeOfEveryPdu`: at every moment of a call, over any bytes, neither
  array is overrun and the slots are filled from the end. As long as no sum `off + vlen` of a
  TLV that was accepted has wrapped (`sums`), the elements handed to the caller are a tree: each
  lies in its parent and in the PDU, they are in the order of the bytes, each has a slot of
  its own, and only elements of unknown type have children. The invariant (`ParseInv`)
  ties the stack of calls to the elements: a frame lies in the one below it and behind all
  elements written so far. Once a sum has wrapped, references may leave the PDU (finding 14),
  and the first half still holds. `GooseParseReturns`: a call returns after at most two steps
  for each slot of the caller's two arrays and one more, over any bytes, also those whose
  lengths move the offset back: every step that goes on takes a slot or leaves a call. The
  buffer's bytes are bytes (`Readable`); that is all that is assumed of them.
* **Codec.** `TablesReadBackAlways`: what the encoder makes of a table the C++ decoder returns as
  that table, and the page's as the same rows and fields with `TextDecode` applied to each,
  for every table and every `TextDecode`, in one step for each TLV and each end of a record. The bytes
  are followed through the encoder (`LengthReadBack`: a length is put together again from the
  bytes it was taken apart into; `Joined`: where the pieces of a concatenation lie), and a
  decoder through the buffer (`RecordReadBack`, `RecordDecoded`). Hypotheses: a `size_t` has no
  more bytes than it is shifted by (`MachineWords`, true of 8 bytes and 2^64), lengths are a
  `size_t` (`Fits`, `Small`), and for the page that the payload is below 2^31 bytes, as its
  lengths are signed.

`WindowSafe`, `OperationalMeansConnected`, `ConnLostUnreachable`, `LapIsWhole`,
`DbOutlives`, `CommandsInPipelines` and most of the type invariants prove invariants that no
run of the list repeats: what TLC would find on a small instance the theorem gives for all.
The same is true of `SessionIsKept`, `DropIsForGood`, `SettingsWholeAlone`, `WriteGetsOn`,
`SessionsSized`, `StopIsHeard`, `StopEndsAll`, `TheLastClickWins` and `PageShowsServedTables`: each was checked
on the instances of section 3 before it was proved.

Only model-checked: every liveness property (`ReaderCatchesUp`, `ReachesOperational`,
`CommandReturns`, `StopReleases`, `RequestsAreRead`, both `PageConverges`, `StaysConnected`,
`StaysDisconnected`, `EventsStored`, `WriteReturns`, `ShutdownEnds`, `FetchAnswered`,
`PollsGoOn`, `Drains`, `StopReturnsIfHeard`), as temporal reasoning under fairness is beyond
the prover; of some of them the safe part is proved, as said above. Only evaluated: what the
decoders make of damaged buffers (`CutIsRefused`, `CutIsShown`, `GooseFound`, `GooseCut`,
`GooseWrapped`).
Every invariant, every action property and every refinement that a passing run checks is
also proved.

Induction: the library's rules take the formula as an operator, which the provers cannot
instantiate. Where a proof is by induction over steps of a call or places of a sequence it
uses the rule for sets (`SetInduction`: a set with 0 and with the successor of each member
holds all numbers), and recursive functions are shown to exist in the same way
(`FlattenDefined`, `ShiftsDefined`, `BigEndianDefined`).

## 6 Where the code and its comments disagree

With a run that shows it:

1. `relay_session_drop`: no error of `SendCmdReceiveData` (`client.cpp`) clears
   `connected_` or closes the socket; a session lost while Operational is never replaced,
   though `relay_pipeline.hpp:327-328` promises a reconnect.
2. `ser_database_torn`: a settings file is not replaced "inside a single transaction"
   (`ser_database.hpp:300`); the transaction belongs to all workers.
3. `browser_page_half`: a snapshot longer than half of the page's ring always goes to the
   start; after the first no later one is seen, in spite of the heartbeat
   (`combine_ser.js:471-474`).

With a companion:

4. `MCTelnetSmlAppStop`: `stop()` joins the poller, handlers and collections before
   `stopAll()` sets the flags that would release them from a pipeline that cannot connect,
   though the list at `telnet_sml_app.cpp:979-984` has the pipelines second.
5. `MCRelayPipelineStop`: `stop()` notifies without the mutex; a worker between its test and
   its sleep does not hear it, and the join waits until something else is queued, though
   `relay_pipeline.hpp:490` says "Worker thread has exited and all resources are released".
   `StopReturnsIfHeard` is the same without this window.
6. `MCRelaySessionLevel`: when the answer to the level-2 password is late,
   `fireCommandEvent` returns without ACC, though `relay_pipeline.hpp:245` says "Always
   demote back to Level 1".
7. `MCWebSocketSessionLeak`: a session with no read pending when its write fails is never
   deregistered (`ws_server.hpp:432` says it is).
8. `MCSharedRingLoss`: a write may end exactly at a reader's cursor, which then looks like
   an empty ring: the reader's unread records are passed over, with no drop counted,
   though "Every registered reader sees every message" (`shared_ring_buffer.hpp:14`). A
   reader that waits where the writer goes back to the start finds no length there, skips to
   `write_pos` and loses the record (the same property with capacity 10 and lengths 1 and 3).
   With capacity 8 and lengths 1 to 3 a waiting reader may even be handed bytes of an earlier
   lap, so that the ring does not implement an ordered log with losses.
9. `MCRelaySessionEarly`: a user command that takes `sync_cmd_mutex_` before the worker's
   `start_event` spins for ever in Idle with the lock held.
10. `MCSerDatabaseLink`: `file_id` may be the row id of a SER record
   (`ser_database.hpp:304-305`).
11. `MCTelnetSmlAppBlocked`: the manager's mutex is held while a command runs, though
    `relay_manager.hpp:257-258` says it serialises only the lookup.
12. `MCSerPageFlap`: Connect on a page that is connected starts a cycle of closing and
    reopening. `MCSerPageAgain`: Connect after Disconnect never reads again.
    `MCSerPageFull`: a payload within a few bytes of the whole ring hangs the worker.
13. `MCSerPageTorn`: the bytes of the page's ring are not guarded; a reader that is
    overtaken while it copies decodes bytes of two snapshots, which nothing checks
    (`ring_buffer.js:173`).
14. `GooseWrapped` of `GooseChecks`: the check `off + vlen > len` is made in `size_t`
    (`asn1_ber.c:151`); a length near the largest one is accepted and its reference passes the
    end of the buffer, though "all references are pointers into the input buffer"
    (`goose_parser.h:16`).
15. `MCRelaySessionSize`: the restart after an exception connects anew and keeps
    `screen_size_configured_` (`relay_pipeline.hpp:407`), though line 168 says "Reset on
    reconnect"; the new session never gets SET S.
16. `MCTelnetSmlAppFlag`: a `FETCH_ALL_TAR` that throws after it set the flag
    (`telnet_sml_app.cpp:613`) leaves it set; every later fetch waits for a thread that does
    not run, though line 601 takes a flag that is set for "Background thread still running".
17. `MCSerDatabaseLost`: the answer to `SER 1000`, asked for "for catch-up"
    (`relay_pipeline.hpp:1061`), is not stored, as only the answer to `SER` is parsed
    (line 804); an event that plain SER no longer returns is lost.

Of the GOOSE parser, shown by `GooseChecks` and its theorems: `p_mms_count` returns what is
left of the array, not what is used, and the array is filled from its end
(`goose_parser.h:204`); the tags called Array and Structure are never entered
(`goose_parser.c:157`); a field that cannot be read ends the loop with GOOSE_OK, and
`goose_find_pdu()` never returns GOOSE_ERR_BER and passes over a PDU of two bytes at the end
of the buffer (`goose_parser.h:59`, `:182`).

From reading: a rollback undoes another worker's records; a changed password does not reach
the running pipeline; a stopped relay's collection may run beside its successor's; a
listener that cannot bind is reported as started; and smaller ones. All are in `PROJECT.json`, with quotes.

## 7 What is not modelled, and why

* Condition variables other than the two of the pipeline (`RelayPipeline`) and the page's
  `Atomics.waitAsync` (`SerPage`): elsewhere a waiting thread sees its predicate.
* Parsing, formatting, HTML: sequential data processing.
* Timers as such: a time-out is a choice wherever the code has one.
* Exceptions outside the reception worker and the handlers: one in a TAR thread ends the
  program.
* The handshake's time-outs and the listener; a second `start()` of the WebSocket server
  after a `stop()` (its `io_context` is not restarted; the application does not do it);
  failures of `start()`; actions that touch no relay (`read_pc_time`, `read_sntp_time`, the
  settings queries); `clearAllRecords` and other queries of the database.
* On the page: `sections.js` (the same ring and worker with other tables), text messages,
  the cache in `localStorage`, dashboards.
* Opening and removing the shared segment, and a process killed while it holds the
  segment's mutex (it survives a restart, as the segment is opened and not created anew).
* Third-party code, and code that the application does not instantiate.

## 8 The plan

Done: 1 `LossyBroadcast`, `RawDataRing`; 2 `RelaySession`; 3 `WebSocketSession`;
4 `SerDatabase`; 5 `SharedRing`; 6 `RelayManager` with `TelnetSmlApp` and
`ServiceLifetime`, which took in the TAR cache; 7 `PageRing`, `SerPage`; 8 `SerTlv`;
9 `RelayPipeline` with `InOrderService`, which took in the condition variables and the
composition with the buffer; 10 `GooseParser`; their runs and proofs, and of the
liveness properties the safe parts that are worth a theorem.

Left:

* under which lengths the shared ring implements a log with cursors, as in `LossyBroadcast`
  (for all lengths it does not: finding 8);
* what the two decoders of the TLV format make of damaged buffers, as theorems;
* a reader of the database that sees uncommitted rows;
* the end of `RelaySession` and the head of `SerDatabase` composed with `RelayPipeline`,
  which abstracts both;
* the operations under section 7 that keep state.
