---------------------------- MODULE TelnetSmlApp ----------------------------
(***************************************************************************)
(* TelnetSmlApp::Impl (telnet_sml_app.cpp) over RelayManager: the main     *)
(* thread that starts and stops everything, the handler threads that run   *)
(* what browsers ask for, the TAR collection threads with their cache, the *)
(* SER poller (thread_manager.hpp) and the life of the WebSocket server    *)
(* (ws_server.hpp; its sessions are in WebSocketSession).                  *)
(***************************************************************************)
EXTENDS RelayManager, FiniteSets

CONSTANTS
  Main,           \* the thread of main()
  Poller,         \* the thread of SERPoller
  Server,         \* the thread of SERWebSocketServer
  Handlers,       \* bound of the model: handler threads at one time
  Collectors,     \* bound of the model: TAR collection threads at one time
  MaxRetries,     \* MAX_RETRIES of collectTarBackground()
  TarRows,        \* rows a relay has before it answers "Invalid Target"
  RowLimit,       \* tarRowLimit()
  MaxRequests     \* bound of the model: requests of the browsers

Threads == {Main, Poller} \union Handlers \union Collectors

ASSUME AppAssumption ==
  /\ Main # Poller
  /\ {Main, Poller} \intersect (Handlers \union Collectors) = {}
  /\ Handlers \intersect Collectors = {}
  /\ Nobody \notin Threads
  /\ Server \notin Threads /\ Relays \intersect (Threads \union {Server}) = {}
  /\ Relays # {} /\ Passwords # {}
  /\ MaxRequests \in Nat
  /\ MaxRetries \in Nat /\ TarRows \in Nat /\ RowLimit \in Nat \ {0}

VARIABLES
  app_running,    \* the flag of Impl
  dbOpen,         \* serDb is open
  server,         \* the server thread: "off", "up", "stopping", "ended"
  stopPoller,     \* SERPoller::stop_flag_
  pc,             \* pc[t]: where thread t is; "idle": no thread, or one that was joined;
                  \* "done": it has set its done flag
  job,            \* job[t]: what t has been asked to do, and how far it is
  todo,           \* todo[t]: relays the loop of Main or Poller has before it
  requests,       \* requests of the browsers so far
  cached,         \* the relays in tarCache_
  fetching,       \* the relays whose tarFetchInProgress_ is true
  orphaned        \* history: those of them whose handler was ended by an exception

life == <<app_running, dbOpen, server, stopPoller>>
tar == <<cached, fetching, orphaned>>
vars == <<manager, outside, life, pc, job, todo, requests, tar>>

(* What a browser can ask for: start_relay, stop_relay, relay_status,      *)
(* change_password, FETCH_ALL_TAR, a command or read_relay_time, a command *)
(* without relay id, a clock set with DATE and TIME.  (What needs no relay *)
(* is left out: DBSETTINGS_..., read_pc_time, read_sntp_time.)             *)
Requests == {"start", "stop", "status", "change", "fetch", "command", "first", "sync"}

(* rows: TAR rows, or commands, that were answered; tries: the attempt of  *)
(* collectTarBackground(); value: the new password.                        *)
Jobs == [kind : Requests \union {"none", "collect", "auto"}, relay : Relays,
         value : Passwords, rows : Nat, tries : Nat]

Job(k, r, v) == [kind |-> k, relay |-> r, value |-> v, rows |-> 0, tries |-> 0]

AnyRelay == CHOOSE r \in Relays : TRUE
NoJob == Job("none", AnyRelay, AnyPassword)

(* Inside handleUserCommand(). *)
Commanding == {"want", "run"}

HandlerPCs == {"idle", "done", "start", "check", "forget", "stop", "stopping",
               "look", "persist", "await", "store"} \union Commanding
CollectorPCs == {"idle", "done", "begin", "pause", "store", "giveup"} \union Commanding
MainPCs == {"open", "listen", "poller", "auto", "check", "enter", "join_poller",
            "stop_server", "join_server", "join_handlers", "join_tar", "stop_all",
            "stopping", "close", "exited"}
PollerPCs == {"idle", "sleep", "ids", "queue", "done"}

TypeOK ==
  /\ ManagerTypeOK(Threads)
  /\ app_running \in BOOLEAN /\ dbOpen \in BOOLEAN /\ stopPoller \in BOOLEAN
  /\ server \in {"off", "up", "stopping", "ended"}
  /\ pc \in [Threads -> HandlerPCs \union CollectorPCs \union MainPCs \union PollerPCs]
  /\ pc[Main] \in MainPCs /\ pc[Poller] \in PollerPCs
  /\ \A h \in Handlers : pc[h] \in HandlerPCs
  /\ \A c \in Collectors : pc[c] \in CollectorPCs
  /\ job \in [Threads -> Jobs]
  /\ todo \in [{Main, Poller} -> SUBSET Relays]
  /\ requests \in 0 .. MaxRequests
  /\ cached \in SUBSET Relays /\ fetching \in SUBSET Relays /\ orphaned \in SUBSET Relays

Init ==
  /\ ManagerInit
  /\ app_running = TRUE /\ dbOpen = FALSE /\ server = "off" /\ stopPoller = FALSE
  /\ pc = [t \in Threads |-> IF t = Main THEN "open" ELSE "idle"]
  /\ job = [t \in Threads |-> NoJob]
  /\ todo = [t \in {Main, Poller} |-> IF t = Main THEN Relays ELSE {}]
  /\ requests = 0
  /\ cached = {} /\ fetching = {} /\ orphaned = {}

Goto(t, label) == pc' = [pc EXCEPT ![t] = label]

(* The thread returns; its done flag is set. *)
Finish(t) == Goto(t, "done") /\ job' = [job EXCEPT ![t] = NoJob]

-----------------------------------------------------------------------------
(* The server thread *)

(* Where the handler of a request begins. *)
Entry(k) == CASE k = "start" -> "start"
              [] k = "stop" -> "forget"
              [] k \in {"status", "first"} -> "look"
              [] k = "fetch" -> "await"
              [] OTHER -> "want"

Finished == {t \in Handlers : pc[t] = "done"}

(* Collectors that can still be spawned, and spawns that are on their way. *)
Spare == {c \in Collectors : pc[c] \in {"idle", "done"}}
Spawning == {t \in {Main} \union Handlers : pc[t] \in {"start", "check"}}

(* A session spawns a handler thread: those that have finished are reaped  *)
(* first.  After ioc_.stop() the server thread still ends what it is at.   *)
(* (A bound of the model: a collector is spare for what "start" will       *)
(* spawn.)                                                                 *)
Request(h, k, r, v) ==
  /\ server \in {"up", "stopping"}
  /\ pc[h] \in {"idle", "done"}
  /\ h = CHOOSE t \in Handlers : pc[t] \in {"idle", "done"}
  /\ k = "start" => Cardinality(Spare) > Cardinality(Spawning) + Cardinality(todo[Main])
  /\ k # "change" => v = AnyPassword
  /\ k \in {"status", "first"} => r = AnyRelay
  /\ pc' = [t \in Threads |-> IF t = h THEN Entry(k)
                              ELSE IF t \in Finished THEN "idle" ELSE pc[t]]
  /\ job' = [job EXCEPT ![h] = Job(k, r, v)]
  /\ requests < MaxRequests /\ requests' = requests + 1
  /\ UNCHANGED <<manager, outside, life, todo, tar>>

ServerExits ==
  /\ server = "stopping" /\ server' = "ended"
  /\ UNCHANGED <<manager, outside, app_running, dbOpen, stopPoller, pc, job, todo, requests, tar>>

-----------------------------------------------------------------------------
(* Commands of handlers and collectors to a relay *)

Row(t, n) == job' = [job EXCEPT ![t].rows = n]

(* The caller has its answer: "text", "end" ("Invalid Target") or "none"   *)
(* (the empty string).                                                     *)
Answered(t, got) ==
  LET n == job[t].rows + (IF got = "text" THEN 1 ELSE 0)
      more == got = "text" /\ n < RowLimit
  IN  \/ /\ job[t].kind = "collect"
         /\ \/ more /\ app_running /\ Goto(t, "want") /\ Row(t, n)
            \/ ~(more /\ app_running) /\ n > 0 /\ Goto(t, "store") /\ Row(t, n)
            \/ /\ n = 0 /\ app_running /\ job[t].tries < MaxRetries
               /\ Goto(t, "pause") /\ job' = [job EXCEPT ![t].tries = @ + 1]
            \/ /\ n = 0 /\ ~(app_running /\ job[t].tries < MaxRetries)
               /\ Goto(t, "giveup") /\ UNCHANGED job
      \/ /\ job[t].kind = "fetch"       \* a session that is gone has set the abort flag
         /\ \E label \in IF more THEN {"want", "store"} ELSE {"store"} : Goto(t, label)
         /\ Row(t, n)
      \/ /\ job[t].kind = "sync" /\ job[t].rows = 0
         /\ Goto(t, "want") /\ Row(t, 1)
      \/ /\ job[t].kind = "sync" /\ job[t].rows > 0
         /\ Finish(t)
      \/ /\ job[t].kind \in {"command", "change"}
         /\ Finish(t)

(* handleUserCommand() gets mutex_. *)
Want(t) ==
  /\ pc[t] = "want"
  /\ \/ CommandBegins(t, job[t].relay) /\ Goto(t, "run") /\ UNCHANGED job
     \/ NotActive(job[t].relay) /\ Answered(t, "none")
  /\ UNCHANGED <<outside, life, todo, requests, tar>>

(* What the relay can answer; nothing, once the link is gone, or after     *)
(* MAX_RETRIES time-outs.                                                  *)
Answers(t) ==
  {"none"} \union
  (IF job[t].relay \notin up THEN {}
   ELSE IF job[t].kind \in {"collect", "fetch"} /\ job[t].rows >= TarRows THEN {"end"}
   ELSE {"text"})

Run(t) ==
  /\ pc[t] = "run" /\ job[t].kind # "change"
  /\ CommandEnds(t, job[t].relay)
  /\ \E got \in Answers(t) : Answered(t, got)
  /\ UNCHANGED <<outside, life, todo, requests, tar>>

(* The handlers that are about to store a new password of r. *)
Persisting(r) == {h \in Handlers : pc[h] = "persist" /\ job[h].relay = r}

(* PAS LEVEL1: the relay does not take the password; or takes it and says  *)
(* so, which a change before it that is still to be stored may overtake;   *)
(* or takes it and its answer is lost, on the way or by an exception.      *)
RunChange(t) ==
  LET r == job[t].relay
      Taken == r \in up /\ password' = [password EXCEPT ![r] = job[t].value]
  IN  /\ pc[t] = "run" /\ job[t].kind = "change"
      /\ CommandEnds(t, r)
      /\ \/ Finish(t) /\ UNCHANGED <<password, unsure>>
         \/ /\ Taken /\ Goto(t, "persist") /\ UNCHANGED job
            /\ unsure' = IF Persisting(r) = {} THEN unsure \ {r} ELSE unsure \union {r}
         \/ Taken /\ Finish(t) /\ unsure' = unsure \union {r}
      /\ UNCHANGED <<up, life, todo, requests, tar>>

-----------------------------------------------------------------------------
(* The handlers *)

(* updateStoredPassword(), after the relay took the new password. *)
Persist(h) ==
  /\ pc[h] = "persist"
  /\ UpdateStoredPassword(job[h].relay, job[h].value)
  /\ Finish(h)
  /\ UNCHANGED <<outside, life, todo, requests, tar>>

(* relay_status; and a command without relay id, which goes to the first   *)
(* relay that is active, if there is one.                                  *)
LookUp(h) ==
  /\ pc[h] = "look" /\ Look
  /\ IF job[h].kind = "first" /\ active # {}
     THEN /\ \E r \in active : job' = [job EXCEPT ![h] = Job("command", r, AnyPassword)]
          /\ Goto(h, "want")
     ELSE Finish(h)
  /\ UNCHANGED <<outside, life, todo, requests, tar>>

(* start_relay *)
Start(h) ==
  /\ pc[h] = "start"
  /\ StartRelay(job[h].relay)
  /\ Goto(h, "check")
  /\ UNCHANGED <<outside, life, job, todo, requests, tar>>

ClearFlag(r) == fetching' = fetching \ {r} /\ orphaned' = orphaned \ {r}

(* stop_relay: first what the cache says of the relay is erased, then the  *)
(* relay is stopped.                                                       *)
Forget(h) ==
  /\ pc[h] = "forget"
  /\ cached' = cached \ {job[h].relay}
  /\ ClearFlag(job[h].relay)
  /\ Goto(h, "stop")
  /\ UNCHANGED <<manager, outside, life, job, todo, requests>>

Stop(h) ==
  /\ pc[h] = "stop"
  /\ \/ StopRelay(h, job[h].relay) /\ Goto(h, "stopping") /\ UNCHANGED job
     \/ NotActive(job[h].relay) /\ Finish(h)
  /\ UNCHANGED <<outside, life, todo, requests, tar>>

Stopped(h) ==
  /\ pc[h] = "stopping"
  /\ RelayStopped(h, job[h].relay)
  /\ Finish(h)
  /\ UNCHANGED <<outside, life, todo, requests, tar>>

(* Mutant: a fetch that waits for the cache only. *)
AwaitCache(h) ==
  /\ pc[h] = "await" /\ job[h].relay \in cached
  /\ Finish(h)
  /\ UNCHANGED <<manager, outside, life, todo, requests, tar>>

(* FETCH_ALL_TAR: served from the cache; or with an empty batch, when the  *)
(* collection in progress is not through after two minutes; or collected   *)
(* here, when there is none.  (A session that is gone has set the abort    *)
(* flag.)                                                                  *)
Await(h) ==
  /\ pc[h] = "await"
  /\ \/ job[h].relay \in cached \union fetching
        /\ Finish(h) /\ UNCHANGED fetching
     \/ /\ job[h].relay \notin cached \union fetching
        /\ fetching' = fetching \union {job[h].relay}
        /\ \E label \in {"want", "store"} : Goto(h, label)
        /\ UNCHANGED job
  /\ UNCHANGED <<manager, outside, life, todo, requests, cached, orphaned>>

(* The end of a collection, in a fetch and in the background: what was     *)
(* collected is cached, the flag cleared, the batch sent.                  *)
Store(t) ==
  /\ pc[t] = "store"
  /\ cached' = IF job[t].rows > 0 THEN cached \union {job[t].relay} ELSE cached
  /\ ClearFlag(job[t].relay)
  /\ Finish(t)
  /\ UNCHANGED <<manager, outside, life, todo, requests>>

(* An exception ends a handler while it has a command, or has what came of *)
(* it: spawnHandlerThread() catches it and nothing is undone, neither the  *)
(* flag of a fetch cleared nor a password stored.  (One out of a           *)
(* background collection ends the program.)                                *)
Throw(h) ==
  LET r == job[h].relay
  IN  /\ \/ pc[h] = "run" /\ CommandThrows(h, r)
         \/ pc[h] \in {"want", "store", "persist"} /\ UNCHANGED manager
      /\ orphaned' = IF job[h].kind = "fetch" THEN orphaned \union (fetching \intersect {r})
                     ELSE orphaned
      /\ unsure' = IF pc[h] = "persist" THEN unsure \union {r} ELSE unsure
      /\ Finish(h)
      /\ UNCHANGED <<up, password, life, todo, requests, cached, fetching>>

-----------------------------------------------------------------------------
(* TAR collection: spawnTarBgThread_() and collectTarBackground() *)

(* Where a thread goes on that does not, or need not, spawn a collection:  *)
(* Main with the next relay; a handler returns.                            *)
After(t) == IF t = Main THEN "auto" ELSE "done"

(* needCollect, under tarCacheMutex_, and spawnTarBgThread_(): threads     *)
(* that have finished are reaped, the new one begins.  (What others do     *)
(* between the two only decides whether the new thread bails out.)         *)
Schedule(t) ==
  /\ pc[t] = "check"
  /\ IF job[t].relay \in cached
     THEN Goto(t, After(t)) /\ job' = [job EXCEPT ![t] = NoJob]
     ELSE /\ Spare # {}
          /\ LET c == CHOOSE c \in Spare : TRUE
             IN  /\ pc' = [d \in Threads |-> IF d = c THEN "begin"
                                             ELSE IF d = t THEN After(t)
                                             ELSE IF d \in Spare THEN "idle" ELSE pc[d]]
                 /\ job' = [job EXCEPT ![c] = Job("collect", job[t].relay, AnyPassword),
                                        ![t] = NoJob]
  /\ UNCHANGED <<manager, outside, life, todo, requests, tar>>

(* Check and set of the in-progress flag, under tarCacheMutex_. *)
Begin(c) ==
  /\ pc[c] = "begin"
  /\ IF job[c].relay \in cached \union fetching
     THEN Finish(c) /\ UNCHANGED fetching
     ELSE /\ fetching' = fetching \union {job[c].relay}
          /\ Goto(c, IF app_running THEN "want" ELSE "giveup")
          /\ UNCHANGED job
  /\ UNCHANGED <<manager, outside, life, todo, requests, cached, orphaned>>

(* The 3 s before the next attempt. *)
Pause(c) ==
  /\ pc[c] = "pause"
  /\ Goto(c, IF app_running THEN "want" ELSE "giveup")
  /\ UNCHANGED <<manager, outside, life, job, todo, requests, tar>>

(* Mutant: a collection that gives up and says it is still at work. *)
GiveUpSilently(c) ==
  /\ pc[c] = "giveup" /\ Finish(c)
  /\ UNCHANGED <<manager, outside, life, todo, requests, tar>>

GiveUp(c) ==
  /\ pc[c] = "giveup"
  /\ ClearFlag(job[c].relay)
  /\ Finish(c)
  /\ UNCHANGED <<manager, outside, life, todo, requests, cached>>

-----------------------------------------------------------------------------
(* SERPoller and the polling callback *)

(* Mutant: a poller that looks at its flag only when it starts. *)
SleepOn ==
  /\ pc[Poller] = "sleep" /\ app_running
  /\ Goto(Poller, "ids")
  /\ UNCHANGED <<manager, outside, life, job, todo, requests, tar>>

(* stop_flag_ has been seen; or the interval is over and the callback      *)
(* begins, which does nothing while the application stops.                 *)
Sleep ==
  /\ pc[Poller] = "sleep"
  /\ \/ stopPoller /\ Goto(Poller, "done")
     \/ ~stopPoller /\ app_running /\ Goto(Poller, "ids")
  /\ UNCHANGED <<manager, outside, life, job, todo, requests, tar>>

(* Mutant: a poller that ends when there is nothing to poll. *)
IdsOnce ==
  /\ pc[Poller] = "ids" /\ Look
  /\ todo' = [todo EXCEPT ![Poller] = active]
  /\ Goto(Poller, IF active = {} THEN "done" ELSE "queue")
  /\ UNCHANGED <<outside, life, job, requests, tar>>

(* getActiveRelayIds() *)
Ids ==
  /\ pc[Poller] = "ids" /\ Look
  /\ todo' = [todo EXCEPT ![Poller] = active]
  /\ Goto(Poller, IF active = {} THEN "sleep" ELSE "queue")
  /\ UNCHANGED <<outside, life, job, requests, tar>>

(* queueCommand(r, "SER"), for one relay after the other: nothing is done  *)
(* for a relay that was stopped meanwhile.                                 *)
QueuePoll(r) ==
  /\ pc[Poller] = "queue" /\ r \in todo[Poller] /\ Look
  /\ todo' = [todo EXCEPT ![Poller] = @ \ {r}]
  /\ Goto(Poller, IF todo[Poller] = {r} THEN "sleep" ELSE "queue")
  /\ UNCHANGED <<outside, life, job, requests, tar>>

-----------------------------------------------------------------------------
(* The main thread: start(), waitForExit(), stop() *)

(* serDb.open(); the manager is made, the handlers are set. *)
OpenDatabase ==
  /\ pc[Main] = "open"
  /\ \/ dbOpen' = TRUE /\ Goto(Main, "listen")
     \/ Goto(Main, "exited") /\ UNCHANGED dbOpen
  /\ UNCHANGED <<manager, outside, app_running, server, stopPoller, job, todo, requests, tar>>

(* wsServer.start() *)
StartServer ==
  /\ pc[Main] = "listen"
  /\ \/ server' = "up" /\ Goto(Main, "poller") /\ UNCHANGED dbOpen
     \/ dbOpen' = FALSE /\ Goto(Main, "exited") /\ UNCHANGED server
  /\ UNCHANGED <<manager, outside, app_running, stopPoller, job, todo, requests, tar>>

(* threadMgr.startAll() *)
StartPoller ==
  /\ pc[Main] = "poller"
  /\ pc' = [pc EXCEPT ![Main] = "auto", ![Poller] = "sleep"]
  /\ UNCHANGED <<manager, outside, life, job, todo, requests, tar>>

(* The relays are started one after the other (the model leaves the order  *)
(* of getRelayConfigs() open).                                             *)
AutoStart ==
  /\ pc[Main] = "auto"
  /\ \/ /\ \E r \in todo[Main] :
             /\ StartRelay(r)
             /\ todo' = [todo EXCEPT ![Main] = @ \ {r}]
             /\ job' = [job EXCEPT ![Main] = Job("auto", r, AnyPassword)]
        /\ Goto(Main, "check")
     \/ /\ todo[Main] = {} /\ Goto(Main, "enter")
        /\ UNCHANGED <<manager, job, todo, requests>>
  /\ UNCHANGED <<outside, life, requests, tar>>

(* The user presses Enter: stop() begins. *)
Enter ==
  /\ pc[Main] = "enter"
  /\ app_running' = FALSE /\ stopPoller' = TRUE
  /\ Goto(Main, "join_poller")
  /\ UNCHANGED <<manager, outside, dbOpen, server, job, todo, requests, tar>>

(* threadMgr.stopAll() *)
JoinPoller ==
  /\ pc[Main] = "join_poller" /\ pc[Poller] = "done"
  /\ pc' = [pc EXCEPT ![Main] = "stop_server", ![Poller] = "idle"]
  /\ UNCHANGED <<manager, outside, life, job, todo, requests, tar>>

(* wsServer.stop(): ioc_.stop(), ... *)
StopServer ==
  /\ pc[Main] = "stop_server"
  /\ server' = "stopping" /\ Goto(Main, "join_server")
  /\ UNCHANGED <<manager, outside, app_running, dbOpen, stopPoller, job, todo, requests, tar>>

(* ... server_thread_.join(), ... *)
JoinServer ==
  /\ pc[Main] = "join_server" /\ server = "ended"
  /\ Goto(Main, "join_handlers")
  /\ UNCHANGED <<manager, outside, life, job, todo, requests, tar>>

(* Mutant: handlers that are left alone. *)
LeaveHandlers ==
  /\ pc[Main] = "join_handlers" /\ Goto(Main, "join_tar")
  /\ UNCHANGED <<manager, outside, life, job, todo, requests, tar>>

(* ... joinAllHandlers() *)
JoinHandlers ==
  /\ pc[Main] = "join_handlers" /\ \A h \in Handlers : pc[h] \in {"idle", "done"}
  /\ pc' = [t \in Threads |-> IF t = Main THEN "join_tar"
                              ELSE IF t \in Handlers THEN "idle" ELSE pc[t]]
  /\ UNCHANGED <<manager, outside, life, job, todo, requests, tar>>

(* Mutant: collections that are left alone. *)
LeaveCollectors ==
  /\ pc[Main] = "join_tar" /\ Goto(Main, "stop_all")
  /\ UNCHANGED <<manager, outside, life, job, todo, requests, tar>>

(* The background collections are joined. *)
JoinCollectors ==
  /\ pc[Main] = "join_tar" /\ \A c \in Collectors : pc[c] \in {"idle", "done"}
  /\ pc' = [t \in Threads |-> IF t = Main THEN "stop_all"
                              ELSE IF t \in Collectors THEN "idle" ELSE pc[t]]
  /\ UNCHANGED <<manager, outside, life, job, todo, requests, tar>>

(* relayMgr->stopAll() *)
StopAll ==
  /\ \/ pc[Main] = "stop_all" /\ StopAllBegins(Main) /\ Goto(Main, "stopping")
     \/ pc[Main] = "stopping" /\ (StopNext(Main) \/ NextStopped(Main)) /\ UNCHANGED pc
     \/ pc[Main] = "stopping" /\ StopAllEnds(Main) /\ Goto(Main, "close")
  /\ UNCHANGED <<outside, life, job, todo, requests, tar>>

(* serDb.close() *)
CloseDatabase ==
  /\ pc[Main] = "close"
  /\ dbOpen' = FALSE /\ Goto(Main, "exited")
  /\ UNCHANGED <<manager, outside, app_running, server, stopPoller, job, todo, requests, tar>>

-----------------------------------------------------------------------------
Handle(h) ==
  \/ Persist(h) \/ LookUp(h)
  \/ Start(h) \/ Schedule(h)
  \/ Forget(h) \/ Stop(h) \/ Stopped(h)
  \/ Await(h)

Collect(c) == Begin(c) \/ Pause(c) \/ GiveUp(c)

(* What handlers and collectors have in common. *)
Command(t) == Want(t) \/ Run(t) \/ RunChange(t) \/ Store(t)

Poll == Sleep \/ Ids \/ \E r \in Relays : QueuePoll(r)

MainStep ==
  \/ OpenDatabase \/ StartServer \/ StartPoller
  \/ AutoStart \/ Schedule(Main)
  \/ JoinPoller \/ StopServer \/ JoinServer \/ JoinHandlers \/ JoinCollectors
  \/ StopAll \/ CloseDatabase

Elsewhere == UNCHANGED <<life, pc, job, todo, requests, tar>>

Progress(r) == (Kick(r) \/ Connect(r)) /\ Elsewhere
Mishap(r) == (RestartSession(r) \/ Rouse(r)) /\ Elsewhere

Environment == \E r \in Relays : RelaySwitches(r) /\ Elsewhere

Next ==
  \/ MainStep \/ Enter
  \/ Poll
  \/ ServerExits
  \/ \E h \in Handlers, k \in Requests, r \in Relays, v \in Passwords : Request(h, k, r, v)
  \/ \E h \in Handlers : Handle(h) \/ Throw(h)
  \/ \E c \in Collectors : Collect(c)
  \/ \E t \in Handlers \union Collectors : Command(t)
  \/ \E r \in Relays : Progress(r) \/ Mishap(r)
  \/ Environment

Spec == Init /\ [][Next]_vars

(* Threads that can go on do; of those that wait for mutex_ one gets it    *)
(* when it is free again and again: a collection has at most RowLimit      *)
(* commands and the poller a minute between two rounds.  (std::mutex       *)
(* promises no order: SF of a disjunction asks for some thread, not for    *)
(* each.)  A command whose machine gets to Operational again and again     *)
(* ends.  Browsers, relays and the user owe nothing, and neither an        *)
(* exception nor the awakening of a worker that has missed its             *)
(* notification has to come.                                               *)
Fairness ==
  /\ SF_vars(MainStep)
  /\ SF_vars(Poll)
  /\ WF_vars(ServerExits)
  /\ SF_vars(\E h \in Handlers : Handle(h))
  /\ WF_vars(\E c \in Collectors : Collect(c))
  /\ SF_vars(\E t \in Handlers \union Collectors : Command(t))
  /\ \A r \in Relays : WF_vars(Progress(r))

FairSpec == Spec /\ Fairness

-----------------------------------------------------------------------------
(* Properties *)

(* The threads and pipelines that have references to serDb and relayMgr. *)
Busy == {t \in Threads : pc[t] \notin {"idle", "exited"}} \ {Main}

UsersOf == Busy \union active \union IF server \in {"up", "stopping"} THEN {Server} ELSE {}

(* Whatever was in flight when the user pressed Enter, the database closes *)
(* after the last thread and pipeline that uses it: the order of stop().   *)
DbOutlivesUsers == ~dbOpen => UsersOf = {}

(* A pipeline is destroyed only when no command runs in it, and every      *)
(* command runs under mutex_.                                              *)
PipelineOutlivesCommand ==
  \A t \in Threads : pc[t] = "run" =>
    mutex = t /\ session[job[t].relay] \in {"held", "connecting", "operational"}

(* No circle of waiting: who holds mutex_ is inside a call of the manager   *)
(* and waits there for the pipeline of the call, which its caller has not  *)
(* lost; stop() holds it only when it has joined all others.  No thread    *)
(* that waits for another thread holds it.                                 *)
HolderWaitsForPipeline ==
  mutex # Nobody =>
    \/ /\ mutex # Main /\ pc[mutex] = "run"
       /\ session[job[mutex].relay] \in {"held", "connecting", "operational"}
    \/ /\ mutex \in Handlers /\ pc[mutex] = "stopping"
       /\ session[job[mutex].relay] \in {"stopping", "deaf"}
    \/ /\ mutex = Main /\ pc[Main] = "stopping"
       /\ \A t \in Threads \ {Main} : pc[t] = "idle"

(* Who collects the TAR rows of r. *)
CollectorsOf(r) ==
  {t \in Handlers \union Collectors :
     /\ job[t].relay = r /\ job[t].kind \in {"collect", "fetch"}
     /\ pc[t] \in {"want", "run", "pause", "store", "giveup"}}

(* tarFetchInProgress_ stays behind after an exception and in no other     *)
(* way: a fetch that waits for a collection waits for one that is there,   *)
(* however stops, restarts and other collections cleared and set the flag. *)
FlagHasOwner == \A r \in fetching \ orphaned : CollectorsOf(r) # {}

(* A fetch that finds the flag says "Background thread still running"      *)
(* (telnet_sml_app.cpp:601): the flag means that.                          *)
FlagMeansRunning == \A r \in fetching : CollectorsOf(r) # {}

(* A pipeline that starts gets the password the relay takes, whatever      *)
(* changes came before, one beside the other, and whichever of them the    *)
(* relay refused or an exception ended; only after one that the relay took *)
(* and whose storing was lost or was overtaken it need not.                *)
PasswordKept ==
  \A r \in Relays \ unsure : Persisting(r) = {} => configs[r] = password[r]

(* As long as no command keeps a machine in Idle and no worker has missed  *)
(* the notification of stop() (StopEnds and OthersArePolled below say what *)
(* then happens), and every pipeline has its session or can get it: *)

(* ... stop() ends whatever is in flight, *)
ShutdownEnds == (<>[]Served) => (~app_running ~> pc[Main] = "exited")

(* ... every FETCH_ALL_TAR is answered, or ended by an exception, also one *)
(* that finds the flag of another that is no more, *)
FetchAnswered ==
  (<>[]Served) =>
    \A h \in Handlers : (job[h].kind = "fetch") ~> (job[h].kind # "fetch")

(* ... a relay that is active is polled again and again. *)
PollsGoOn ==
  (<>[]Served) =>
    \A r \in Relays : (<>[](app_running /\ r \in active /\ pc[Main] = "enter"))
                        => []<><<QueuePoll(r)>>_vars

(* The application as the life of its database. *)
Lifetime == INSTANCE ServiceLifetime
              WITH Users <- Threads \union Relays \union {Server},
                   open <- dbOpen, users <- UsersOf

ImplementsLifetime == Lifetime!Spec

(* stop() "Stops all application components gracefully"                    *)
(* (telnet_sml_app.cpp:977), whether relays can be reached or not.         *)
StopEnds == ~app_running ~> pc[Main] = "exited"

(* "queue SER to ALL active relays" (telnet_sml_app.cpp:905): a relay that *)
(* has its session is polled, whatever the others do.                      *)
OthersArePolled ==
  \A r \in Relays :
    (<>[](app_running /\ session[r] = "operational" /\ pc[Main] = "enter"))
      => []<><<QueuePoll(r)>>_vars

=============================================================================
