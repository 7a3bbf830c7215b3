------------------------- MODULE TelnetSmlAppProofs -------------------------
(***************************************************************************)
(* Theorems about TelnetSmlApp, for any relays, passwords, handlers and    *)
(* collectors, any number of requests and any limits.                      *)
(***************************************************************************)
EXTENDS TelnetSmlApp, TLAPS

(* The parts of TypeOK. *)
PcOK ==
  /\ pc \in [Threads -> HandlerPCs \union CollectorPCs \union MainPCs \union PollerPCs]
  /\ pc[Main] \in MainPCs /\ pc[Poller] \in PollerPCs
  /\ \A h \in Handlers : pc[h] \in HandlerPCs
  /\ \A c \in Collectors : pc[c] \in CollectorPCs

JobOK == job \in [Threads -> Jobs]

LifeOK ==
  /\ app_running \in BOOLEAN /\ dbOpen \in BOOLEAN /\ stopPoller \in BOOLEAN
  /\ server \in {"off", "up", "stopping", "ended"}

LoopsOK ==
  /\ todo \in [{Main, Poller} -> SUBSET Relays]
  /\ requests \in 0 .. MaxRequests
  /\ cached \in SUBSET Relays /\ fetching \in SUBSET Relays /\ orphaned \in SUBSET Relays

(* Who does what kind of job, and where. *)
Kinds ==
  /\ \A h \in Handlers : /\ job[h].kind \in Requests \union {"none"}
                         /\ pc[h] = "await" => job[h].kind = "fetch"
                         /\ pc[h] = "persist" => job[h].kind = "change"
  /\ \A c \in Collectors : /\ job[c].kind \in {"none", "collect"}
                           /\ pc[c] \notin {"idle", "done"} => job[c].kind = "collect"

(* What is done under mutex_. *)
Locks ==
  /\ \A t \in Threads : pc[t] \in {"run", "stopping"} => mutex = t
  /\ \A r \in Relays : session[r] \in {"stopping", "deaf"} =>
       \/ pc[Main] = "stopping"
       \/ \E h \in Handlers : pc[h] = "stopping" /\ job[h].relay = r
  /\ PipelineOutlivesCommand

(* What is not there yet, or not any more, by where the main thread is. *)
Fresh == {"open", "listen"}
Ended == {"close", "exited"}
NoCollector == Ended \union {"stop_all", "stopping"}
NoHandler == NoCollector \union {"join_tar"}
NoServer == NoHandler \union {"join_handlers"}
NoPoller == NoServer \union {"stop_server", "join_server"}

Order ==
  /\ dbOpen <=> pc[Main] \notin {"open", "exited"}
  /\ pc[Main] \in Fresh \union NoPoller => pc[Poller] = "idle"
  /\ pc[Main] \in Fresh \union NoServer => server \in {"off", "ended"}
  /\ pc[Main] \in Fresh \union NoHandler => \A h \in Handlers : pc[h] = "idle"
  /\ pc[Main] \in Fresh \union NoCollector => \A c \in Collectors : pc[c] = "idle"
  /\ pc[Main] \in Fresh \union Ended => active = {}

(* What waits to be stored is what the relay took last, and nothing waits  *)
(* beside it.                                                              *)
Changes ==
  /\ \A g, h \in Handlers :
       /\ pc[g] = "persist" /\ pc[h] = "persist"
       /\ job[g].relay = job[h].relay /\ job[g].relay \notin unsure
       => g = h
  /\ \A h \in Handlers :
       pc[h] = "persist" /\ job[h].relay \notin unsure => password[job[h].relay] = job[h].value
  /\ PasswordKept

(* What pipelines do by themselves. *)
Pipeline(r) == Progress(r) \/ Mishap(r)

-----------------------------------------------------------------------------
(* The constants, and what the helpers do *)

(* TypeOK is its parts, in a state and in the next one. *)
LEMMA TypeParts ==
  TypeOK <=> ManagerTypeOK(Threads) /\ PcOK /\ JobOK /\ LifeOK /\ LoopsOK
BY DEF TypeOK, PcOK, JobOK, LifeOK, LoopsOK

(* The same of the next state. *)
LEMMA TypePartsNext ==
  TypeOK' <=> ManagerTypeOK(Threads)' /\ PcOK' /\ JobOK' /\ LifeOK' /\ LoopsOK'
BY DEF TypeOK, PcOK, JobOK, LifeOK, LoopsOK

(* The threads are told apart. *)
LEMMA ThreadsApart ==
  /\ Main \in Threads /\ Poller \in Threads
  /\ Handlers \subseteq Threads /\ Collectors \subseteq Threads
  /\ Handlers \intersect Collectors = {} /\ Main # Poller
  /\ {Main, Poller} \intersect (Handlers \union Collectors) = {}
  /\ Nobody \notin Threads
BY AppAssumption DEF Threads

(* What a job is made of. *)
LEMMA JobsTyped ==
  /\ AnyRelay \in Relays /\ AnyPassword \in Passwords /\ NoJob \in Jobs
  /\ NoJob.kind = "none"
  /\ \A k \in Requests \union {"collect", "auto"}, r \in Relays, v \in Passwords :
       /\ Job(k, r, v) \in Jobs
       /\ Job(k, r, v).kind = k /\ Job(k, r, v).relay = r /\ Job(k, r, v).value = v
BY AppAssumption DEF AnyRelay, AnyPassword, NoJob, Job, Jobs

(* A step of one thread, to a place where that thread may be. *)
LEMMA GotoTyped ==
  ASSUME PcOK, NEW t \in Threads, NEW label, Goto(t, label),
         t = Main => label \in MainPCs,
         t = Poller => label \in PollerPCs,
         t \in Handlers => label \in HandlerPCs,
         t \in Collectors => label \in CollectorPCs
  PROVE  PcOK' /\ pc'[t] = label /\ \A u \in Threads \ {t} : pc'[u] = pc[u]
BY ThreadsApart DEF PcOK, Goto, Threads

(* What t is asked to do, except for how far it is. *)
Keeps(t) ==
  /\ job'[t].kind = job[t].kind /\ job'[t].relay = job[t].relay
  /\ job'[t].value = job[t].value

(* Progress of a job leaves what was asked. *)
LEMMA RowKeeps ==
  ASSUME JobOK, NEW t \in Threads, NEW n \in Nat, Row(t, n)
  PROVE  JobOK' /\ Keeps(t) /\ \A u \in Threads \ {t} : job'[u] = job[u]
<1>1. job[t] \in Jobs
  BY DEF JobOK
<1>2. [job[t] EXCEPT !.rows = n] \in Jobs
  BY <1>1 DEF Jobs
<1>3. QED
  BY <1>1, <1>2 DEF JobOK, Row, Keeps, Jobs

(* Another attempt leaves what was asked. *)
LEMMA TriesKeeps ==
  ASSUME JobOK, NEW t \in Threads, job' = [job EXCEPT ![t].tries = @ + 1]
  PROVE  JobOK' /\ Keeps(t) /\ \A u \in Threads \ {t} : job'[u] = job[u]
<1>1. job[t] \in Jobs
  BY DEF JobOK
<1>2. [job[t] EXCEPT !.tries = @ + 1] \in Jobs
  BY <1>1 DEF Jobs
<1>3. job' = [job EXCEPT ![t] = [job[t] EXCEPT !.tries = @ + 1]]
  OBVIOUS
<1>4. QED
  BY <1>1, <1>2, <1>3 DEF JobOK, Keeps, Jobs

LEMMA FinishTyped ==
  ASSUME PcOK, JobOK, NEW t \in Handlers \union Collectors, Finish(t)
  PROVE  /\ PcOK' /\ JobOK'
         /\ pc'[t] = "done" /\ job'[t] = NoJob
         /\ \A u \in Threads \ {t} : pc'[u] = pc[u] /\ job'[u] = job[u]
<1>1. Goto(t, "done") /\ job' = [job EXCEPT ![t] = NoJob]
  BY DEF Finish
<1>2. "done" \in HandlerPCs /\ "done" \in CollectorPCs
  BY DEF HandlerPCs, CollectorPCs
<1>3. PcOK' /\ pc'[t] = "done" /\ \A u \in Threads \ {t} : pc'[u] = pc[u]
  BY <1>1, <1>2, GotoTyped, ThreadsApart
<1>4. QED
  BY <1>1, <1>3, JobsTyped, ThreadsApart DEF JobOK

(* What the answer to a command does to the thread that sent it. *)
LEMMA AnsweredEffect ==
  ASSUME PcOK, JobOK, Kinds, NEW t \in Handlers \union Collectors, NEW got,
         pc[t] \in Commanding, Answered(t, got)
  PROVE  /\ PcOK' /\ JobOK'
         /\ \A u \in Threads \ {t} : pc'[u] = pc[u] /\ job'[u] = job[u]
         /\ \/ /\ pc'[t] = "done" /\ job'[t] = NoJob
               /\ t \in Handlers /\ job[t].kind # "fetch"
            \/ /\ pc'[t] \in {"want", "store", "pause", "giveup"} /\ Keeps(t)
<1>. DEFINE n == job[t].rows + (IF got = "text" THEN 1 ELSE 0)
            more == got = "text" /\ n < RowLimit
<1>1. t \in Threads /\ job[t] \in Jobs
  BY ThreadsApart DEF JobOK
<1>2. n \in Nat
  BY <1>1 DEF Jobs
<1>3. \A label \in {"want", "store", "done"} : label \in HandlerPCs
  BY DEF HandlerPCs, Commanding
<1>4. \A label \in {"want", "store", "pause", "giveup", "done"} : label \in CollectorPCs
  BY DEF CollectorPCs, Commanding
<1>5. t \in Collectors => job[t].kind = "collect"
  BY DEF Kinds, Commanding
<1>6. t \in Handlers => job[t].kind # "collect"
  BY DEF Kinds, Requests
<1>7. \/ job[t].kind = "collect" /\ Goto(t, "want") /\ Row(t, n)
      \/ job[t].kind = "collect" /\ Goto(t, "store") /\ Row(t, n)
      \/ job[t].kind = "collect" /\ Goto(t, "pause") /\ job' = [job EXCEPT ![t].tries = @ + 1]
      \/ job[t].kind = "collect" /\ Goto(t, "giveup") /\ UNCHANGED job
      \/ job[t].kind = "fetch" /\ Goto(t, "want") /\ Row(t, n)
      \/ job[t].kind = "fetch" /\ Goto(t, "store") /\ Row(t, n)
      \/ job[t].kind = "sync" /\ Goto(t, "want") /\ Row(t, 1)
      \/ job[t].kind \in {"sync", "command", "change"} /\ Finish(t)
  BY DEF Answered
<1>. HIDE DEF n, more
<1>8. CASE \E label \in {"want", "store"} : Goto(t, label) /\ (Row(t, n) \/ Row(t, 1))
  <2>1. PICK label \in {"want", "store"} : Goto(t, label) /\ (Row(t, n) \/ Row(t, 1))
    BY <1>8
  <2>2. PcOK' /\ pc'[t] = label /\ \A u \in Threads \ {t} : pc'[u] = pc[u]
    BY <2>1, <1>1, <1>3, <1>4, GotoTyped, ThreadsApart
  <2>3. JobOK' /\ Keeps(t) /\ \A u \in Threads \ {t} : job'[u] = job[u]
    BY <2>1, <1>1, <1>2, RowKeeps
  <2>4. QED
    BY <2>2, <2>3
<1>9. CASE job[t].kind = "collect" /\ Goto(t, "pause") /\ job' = [job EXCEPT ![t].tries = @ + 1]
  <2>1. PcOK' /\ pc'[t] = "pause" /\ \A u \in Threads \ {t} : pc'[u] = pc[u]
    BY <1>9, <1>1, <1>4, <1>6, GotoTyped, ThreadsApart
  <2>2. JobOK' /\ Keeps(t) /\ \A u \in Threads \ {t} : job'[u] = job[u]
    BY <1>9, <1>1, TriesKeeps
  <2>3. QED
    BY <2>1, <2>2
<1>10. CASE job[t].kind = "collect" /\ Goto(t, "giveup") /\ UNCHANGED job
  <2>1. PcOK' /\ pc'[t] = "giveup" /\ \A u \in Threads \ {t} : pc'[u] = pc[u]
    BY <1>10, <1>1, <1>4, <1>6, GotoTyped, ThreadsApart
  <2>2. QED
    BY <1>10, <2>1 DEF JobOK, Keeps
<1>11. CASE job[t].kind \in {"sync", "command", "change"} /\ Finish(t)
  BY <1>11, <1>5, FinishTyped
<1>12. QED
  BY <1>7, <1>8, <1>9, <1>10, <1>11

(* A command that gets mutex_: it runs, or its relay is not active. *)
LEMMA WantEffect ==
  ASSUME TypeOK, Kinds, NEW t \in Handlers \union Collectors, Want(t)
  PROVE  /\ PcOK' /\ JobOK' /\ pc[t] = "want" /\ mutex = Nobody
         /\ UNCHANGED <<configs, creds, outside, life, todo, requests, tar>>
         /\ session' \in [Relays -> Sessions]
         /\ \A r \in Relays : session'[r] \in {session[r], "held"}
         /\ \A u \in Threads \ {t} : pc'[u] = pc[u] /\ job'[u] = job[u]
         /\ \/ /\ pc'[t] = "run" /\ Keeps(t) /\ mutex' = t
               /\ job[t].relay \in active /\ session'[job[t].relay] # "starting"
            \/ /\ pc'[t] = "done" /\ job'[t] = NoJob /\ mutex' = Nobody
               /\ t \in Handlers /\ job[t].kind # "fetch"
            \/ /\ pc'[t] \in {"want", "store", "pause", "giveup"} /\ Keeps(t)
               /\ mutex' = Nobody
<1>1. PcOK /\ JobOK /\ t \in Threads
  BY TypeParts, ThreadsApart
<1>2. pc[t] = "want" /\ UNCHANGED <<outside, life, todo, requests, tar>>
  BY DEF Want
<1>3. CASE CommandBegins(t, job[t].relay) /\ Goto(t, "run") /\ UNCHANGED job
  <2>1. PcOK' /\ pc'[t] = "run" /\ \A u \in Threads \ {t} : pc'[u] = pc[u]
    BY <1>1, <1>3, GotoTyped, ThreadsApart DEF HandlerPCs, CollectorPCs, Commanding
  <2>2. session \in [Relays -> Sessions]
    BY TypeParts DEF ManagerTypeOK
  <2>3. /\ session' \in [Relays -> Sessions]
        /\ \A r \in Relays : session'[r] \in {session[r], "held"}
        /\ session'[job[t].relay] # "starting" /\ job[t].relay \in active
    BY <1>3, <2>2 DEF CommandBegins, SetSession, Sessions, active
  <2>4. QED
    BY <1>1, <1>2, <1>3, <2>1, <2>3 DEF CommandBegins, JobOK, Keeps
<1>4. CASE NotActive(job[t].relay) /\ Answered(t, "none")
  <2>1. session \in [Relays -> Sessions]
    BY TypeParts DEF ManagerTypeOK
  <2>2. QED
    BY <1>1, <1>2, <1>4, <2>1, AnsweredEffect DEF NotActive, manager, Commanding
<1>5. QED
  BY <1>3, <1>4 DEF Want

(* A command that returns. *)
LEMMA RunEffect ==
  ASSUME TypeOK, Kinds, NEW t \in Handlers \union Collectors, Run(t)
  PROVE  /\ PcOK' /\ JobOK' /\ pc[t] = "run" /\ mutex = t /\ mutex' = Nobody
         /\ UNCHANGED <<session, configs, creds, outside, life, todo, requests, tar>>
         /\ \A u \in Threads \ {t} : pc'[u] = pc[u] /\ job'[u] = job[u]
         /\ \/ /\ pc'[t] = "done" /\ job'[t] = NoJob
               /\ t \in Handlers /\ job[t].kind # "fetch"
            \/ pc'[t] \in {"want", "store", "pause", "giveup"} /\ Keeps(t)
<1>1. PcOK /\ JobOK
  BY TypeParts
<1>2. PICK got : Answered(t, got)
  BY DEF Run
<1>3. /\ pc[t] = "run" /\ mutex = t /\ mutex' = Nobody
      /\ UNCHANGED <<session, configs, creds, outside, life, todo, requests, tar>>
  BY DEF Run, CommandEnds
<1>4. QED
  BY <1>1, <1>2, <1>3, AnsweredEffect DEF Commanding

(* A change of the password: it was taken and is about to be persisted; or *)
(* it failed, or was taken and nobody knows.                               *)
LEMMA RunChangeEffect ==
  ASSUME TypeOK, Kinds, NEW t \in Handlers \union Collectors, RunChange(t)
  PROVE  /\ PcOK' /\ JobOK' /\ pc[t] = "run" /\ t \in Handlers /\ job[t].kind = "change"
         /\ mutex = t /\ mutex' = Nobody
         /\ UNCHANGED <<session, configs, creds, up, life, todo, requests, tar>>
         /\ \A u \in Threads \ {t} : pc'[u] = pc[u] /\ job'[u] = job[u]
         /\ password' \in [Relays -> Passwords] /\ unsure' \in SUBSET Relays
         /\ \/ /\ pc'[t] = "persist" /\ job'[t] = job[t]
               /\ password' = [password EXCEPT ![job[t].relay] = job[t].value]
               /\ unsure' = IF Persisting(job[t].relay) = {} THEN unsure \ {job[t].relay}
                            ELSE unsure \union {job[t].relay}
            \/ /\ pc'[t] = "done" /\ job'[t] = NoJob
               /\ \/ UNCHANGED <<password, unsure>>
                  \/ /\ password' = [password EXCEPT ![job[t].relay] = job[t].value]
                     /\ unsure' = unsure \union {job[t].relay}
<1>. DEFINE r == job[t].relay
            P == [password EXCEPT ![r] = job[t].value]
            Both == IF Persisting(r) = {} THEN unsure \ {r} ELSE unsure \union {r}
<1>1. PcOK /\ JobOK /\ t \in Threads /\ job[t] \in Jobs
  BY TypeParts, ThreadsApart DEF JobOK
<1>2. /\ pc[t] = "run" /\ job[t].kind = "change" /\ mutex = t /\ mutex' = Nobody
      /\ UNCHANGED <<session, configs, creds, up, life, todo, requests, tar>>
  BY DEF RunChange, CommandEnds
<1>3. t \in Handlers
  BY <1>2 DEF Kinds
<1>4. \/ Finish(t) /\ UNCHANGED <<password, unsure>>
      \/ password' = P /\ Goto(t, "persist") /\ UNCHANGED job /\ unsure' = Both
      \/ password' = P /\ Finish(t) /\ unsure' = unsure \union {r}
  BY DEF RunChange
<1>5. P \in [Relays -> Passwords] /\ password \in [Relays -> Passwords]
  BY <1>1, TypeParts DEF ManagerTypeOK, Jobs
<1>6. unsure \in SUBSET Relays /\ r \in Relays
  BY <1>1, TypeParts DEF ManagerTypeOK, Jobs
<1>. HIDE DEF r, P
<1>7. CASE password' = P /\ Goto(t, "persist") /\ UNCHANGED job /\ unsure' = Both
  <2>1. PcOK' /\ pc'[t] = "persist" /\ \A u \in Threads \ {t} : pc'[u] = pc[u]
    BY <1>1, <1>3, <1>7, GotoTyped, ThreadsApart DEF HandlerPCs
  <2>2. unsure' \in SUBSET Relays
    BY <1>6, <1>7
  <2>3. QED
    BY <1>1, <1>2, <1>3, <1>5, <1>7, <2>1, <2>2 DEF JobOK, r, P
<1>8. CASE Finish(t) /\ UNCHANGED <<password, unsure>>
  BY <1>1, <1>2, <1>3, <1>5, <1>6, <1>8, FinishTyped
<1>9. CASE password' = P /\ Finish(t) /\ unsure' = unsure \union {r}
  <2>1. unsure' \in SUBSET Relays
    BY <1>6, <1>9
  <2>2. QED
    BY <1>1, <1>2, <1>3, <1>5, <1>9, <2>1, FinishTyped DEF r, P
<1>10. QED
  BY <1>4, <1>7, <1>8, <1>9

(* An exception ends a handler, which gives mutex_ back if it has it. *)
LEMMA ThrowEffect ==
  ASSUME TypeOK, Kinds, NEW h \in Handlers, Throw(h)
  PROVE  /\ PcOK' /\ JobOK' /\ pc'[h] = "done" /\ job'[h] = NoJob
         /\ \A u \in Threads \ {h} : pc'[u] = pc[u] /\ job'[u] = job[u]
         /\ UNCHANGED <<session, configs, creds, up, password, life, todo, requests,
                        cached, fetching>>
         /\ \/ pc[h] = "run" /\ mutex = h /\ mutex' = Nobody
            \/ pc[h] \in {"want", "store", "persist"} /\ UNCHANGED mutex
         /\ orphaned' \in SUBSET Relays /\ unsure' \in SUBSET Relays
         /\ orphaned' = IF job[h].kind = "fetch"
                        THEN orphaned \union (fetching \intersect {job[h].relay}) ELSE orphaned
         /\ unsure' = IF pc[h] = "persist" THEN unsure \union {job[h].relay} ELSE unsure
<1>1. PcOK /\ JobOK /\ h \in Threads /\ job[h].relay \in Relays
  BY TypeParts, ThreadsApart DEF JobOK, Jobs
<1>2. orphaned \in SUBSET Relays /\ unsure \in SUBSET Relays
  BY TypeParts DEF LoopsOK, ManagerTypeOK
<1>3. Finish(h)
  BY DEF Throw
<1>4. /\ UNCHANGED <<session, configs, creds, up, password, life, todo, requests,
                     cached, fetching>>
      /\ \/ pc[h] = "run" /\ mutex = h /\ mutex' = Nobody
         \/ pc[h] \in {"want", "store", "persist"} /\ UNCHANGED mutex
  BY DEF Throw, CommandThrows, manager
<1>5. /\ orphaned' = IF job[h].kind = "fetch"
                     THEN orphaned \union (fetching \intersect {job[h].relay}) ELSE orphaned
      /\ unsure' = IF pc[h] = "persist" THEN unsure \union {job[h].relay} ELSE unsure
  BY DEF Throw
<1>6. orphaned' \in SUBSET Relays /\ unsure' \in SUBSET Relays
  BY <1>1, <1>2, <1>5
<1>7. QED
  BY <1>1, <1>3, <1>4, <1>5, <1>6, FinishTyped

(* A collection is spawned, or need not be. *)
LEMMA ScheduleEffect ==
  ASSUME TypeOK, NEW t \in {Main} \union Handlers, Schedule(t)
  PROVE  /\ PcOK' /\ JobOK'
         /\ pc[t] = "check" /\ pc'[t] = After(t) /\ job'[t] = NoJob
         /\ UNCHANGED <<manager, outside, life, todo, requests, tar>>
         /\ \A u \in Threads \ ({t} \union Collectors) : pc'[u] = pc[u] /\ job'[u] = job[u]
         /\ \A c \in Collectors :
              \/ pc'[c] = pc[c] /\ job'[c] = job[c]
              \/ pc[c] \in {"idle", "done"} /\ pc'[c] = "idle" /\ job'[c] = job[c]
              \/ pc[c] \in {"idle", "done"} /\ pc'[c] = "begin" /\ job'[c].kind = "collect"
<1>1. PcOK /\ JobOK /\ t \in Threads /\ t \notin Collectors \union {Poller} /\ job[t] \in Jobs
  BY TypeParts, ThreadsApart DEF JobOK
<1>2. pc[t] = "check" /\ UNCHANGED <<manager, outside, life, todo, requests, tar>>
  BY DEF Schedule
<1>3. After(t) \in HandlerPCs \intersect {"done"} \/ (t = Main /\ After(t) \in MainPCs)
  BY DEF After, HandlerPCs, MainPCs
<1>4. CASE job[t].relay \in cached
  <2>1. Goto(t, After(t)) /\ job' = [job EXCEPT ![t] = NoJob]
    BY <1>4 DEF Schedule
  <2>2. PcOK' /\ pc'[t] = After(t) /\ \A u \in Threads \ {t} : pc'[u] = pc[u]
    BY <1>1, <1>3, <2>1, GotoTyped, ThreadsApart DEF After
  <2>3. JobOK' /\ job'[t] = NoJob /\ \A u \in Threads \ {t} : job'[u] = job[u]
    BY <1>1, <2>1, JobsTyped DEF JobOK
  <2>4. QED
    BY <1>1, <1>2, <2>2, <2>3, ThreadsApart
<1>5. CASE job[t].relay \notin cached
  <2>1. PICK c \in Spare :
          /\ pc' = [d \in Threads |-> IF d = c THEN "begin"
                                      ELSE IF d = t THEN After(t)
                                      ELSE IF d \in Spare THEN "idle" ELSE pc[d]]
          /\ job' = [job EXCEPT ![c] = Job("collect", job[t].relay, AnyPassword),
                                ![t] = NoJob]
    BY <1>5 DEF Schedule
  <2>2. c \in Collectors /\ c \in Threads /\ c # t
    BY <1>1, ThreadsApart DEF Spare
  <2>3. Spare \subseteq Collectors /\ \A d \in Spare : pc[d] \in {"idle", "done"}
    BY DEF Spare
  <2>4. /\ pc'[t] = After(t)
        /\ \A u \in Threads \ ({t} \union Collectors) : pc'[u] = pc[u]
        /\ \A d \in Collectors \ {c} : pc'[d] = pc[d] \/ (d \in Spare /\ pc'[d] = "idle")
        /\ pc'[c] = "begin"
    BY <1>1, <2>1, <2>2, <2>3, ThreadsApart
  <2>5. job[t].relay \in Relays
    BY <1>1 DEF Jobs
  <2>6. Job("collect", job[t].relay, AnyPassword) \in Jobs
        /\ Job("collect", job[t].relay, AnyPassword).kind = "collect"
    BY <2>5, JobsTyped DEF Job, Jobs
  <2>7. /\ JobOK' /\ job'[t] = NoJob /\ job'[c].kind = "collect"
        /\ \A u \in Threads \ {t, c} : job'[u] = job[u]
    BY <1>1, <2>1, <2>2, <2>6, JobsTyped DEF JobOK
  <2>8. pc'[Main] \in MainPCs /\ pc'[Poller] \in PollerPCs
    BY <1>1, <1>3, <2>4, ThreadsApart DEF PcOK, After
  <2>9. \A h \in Handlers : pc'[h] \in HandlerPCs
    BY <1>1, <1>3, <2>4, ThreadsApart DEF PcOK, After
  <2>10. \A d \in Collectors : pc'[d] \in CollectorPCs
    BY <1>1, <2>4 DEF PcOK, CollectorPCs
  <2>11. \A u \in Threads :
           pc'[u] \in HandlerPCs \union CollectorPCs \union MainPCs \union PollerPCs
    BY <2>8, <2>9, <2>10 DEF Threads
  <2>12. PcOK'
    BY <2>1, <2>8, <2>9, <2>10, <2>11 DEF PcOK
  <2>13. \A u \in Threads \ ({t} \union Collectors) : pc'[u] = pc[u] /\ job'[u] = job[u]
    BY <2>2, <2>4, <2>7
  <2>14. \A d \in Collectors \ {c} :
           job'[d] = job[d] /\ (pc'[d] = pc[d] \/ (pc[d] \in {"idle", "done"} /\ pc'[d] = "idle"))
    BY <1>1, <2>3, <2>4, <2>7, ThreadsApart
  <2>15. pc[c] \in {"idle", "done"} /\ pc'[c] = "begin" /\ job'[c].kind = "collect"
    BY <2>3, <2>4, <2>7
  <2>16. QED
    BY <1>2, <2>4, <2>7, <2>12, <2>13, <2>14, <2>15
<1>6. QED
  BY <1>4, <1>5

(* A request gets its handler; handlers that have finished are reaped. *)
LEMMA RequestEffect ==
  ASSUME TypeOK, NEW h \in Handlers, NEW k \in Requests, NEW r \in Relays, NEW v \in Passwords,
         Request(h, k, r, v)
  PROVE  /\ PcOK' /\ JobOK'
         /\ server \in {"up", "stopping"} /\ pc[h] \in {"idle", "done"}
         /\ pc'[h] = Entry(k) /\ job'[h] = Job(k, r, v)
         /\ UNCHANGED <<manager, outside, life, todo, tar>>
         /\ requests' \in 0 .. MaxRequests
         /\ \A u \in Threads \ {h} :
              /\ job'[u] = job[u]
              /\ pc'[u] = pc[u] \/ (u \in Handlers /\ pc[u] = "done" /\ pc'[u] = "idle")
<1>1. PcOK /\ JobOK /\ LoopsOK
  BY TypeParts
<1>2. /\ server \in {"up", "stopping"} /\ pc[h] \in {"idle", "done"}
      /\ pc' = [t \in Threads |-> IF t = h THEN Entry(k)
                                  ELSE IF t \in Finished THEN "idle" ELSE pc[t]]
      /\ job' = [job EXCEPT ![h] = Job(k, r, v)]
      /\ requests < MaxRequests /\ requests' = requests + 1
      /\ UNCHANGED <<manager, outside, life, todo, tar>>
  BY DEF Request
<1>3. Entry(k) \in HandlerPCs
  BY DEF Entry, Requests, HandlerPCs, Commanding
<1>4. /\ pc'[h] = Entry(k)
      /\ \A u \in Threads \ {h} :
           pc'[u] = pc[u] \/ (u \in Handlers /\ pc[u] = "done" /\ pc'[u] = "idle")
  BY <1>2, ThreadsApart DEF Finished
<1>5. pc'[Main] \in MainPCs /\ pc'[Poller] \in PollerPCs
  BY <1>1, <1>4, ThreadsApart DEF PcOK
<1>6. \A g \in Handlers : pc'[g] \in HandlerPCs
  BY <1>1, <1>3, <1>4, ThreadsApart DEF PcOK, HandlerPCs
<1>7. \A c \in Collectors : pc'[c] \in CollectorPCs
  BY <1>1, <1>4, ThreadsApart DEF PcOK
<1>8. \A u \in Threads :
        pc'[u] \in HandlerPCs \union CollectorPCs \union MainPCs \union PollerPCs
  BY <1>5, <1>6, <1>7 DEF Threads
<1>9. PcOK'
  BY <1>2, <1>5, <1>6, <1>7, <1>8 DEF PcOK
<1>10. JobOK' /\ job'[h] = Job(k, r, v) /\ \A u \in Threads \ {h} : job'[u] = job[u]
  BY <1>1, <1>2, JobsTyped, ThreadsApart DEF JobOK
<1>11. requests' \in 0 .. MaxRequests
  BY <1>1, <1>2, AppAssumption DEF LoopsOK
<1>12. QED
  BY <1>2, <1>4, <1>9, <1>10, <1>11

(* Where the thread is that collects. *)
AtWork == {"want", "run", "pause", "store", "giveup"}

(* The flags keep their owners when those stay at work. *)
LEMMA OwnersStay ==
  ASSUME FlagHasOwner, (fetching \ orphaned)' \subseteq fetching \ orphaned,
         \A u \in Handlers \union Collectors :
           job[u].kind \in {"collect", "fetch"} /\ pc[u] \in AtWork
             => Keeps(u) /\ pc'[u] \in AtWork
  PROVE  FlagHasOwner'
<1>1. SUFFICES ASSUME NEW r \in (fetching \ orphaned)'
               PROVE  \E u \in Handlers \union Collectors : u \in CollectorsOf(r)'
  BY DEF FlagHasOwner
<1>2. PICK u \in Handlers \union Collectors :
        job[u].relay = r /\ job[u].kind \in {"collect", "fetch"} /\ pc[u] \in AtWork
  BY DEF FlagHasOwner, CollectorsOf, AtWork
<1>3. u \in CollectorsOf(r)'
  BY <1>2 DEF CollectorsOf, AtWork, Keeps
<1>4. QED
  BY <1>3

(* What says nothing of a change of passwords. *)
Undisturbed ==
  /\ configs' = configs /\ password' = password /\ unsure' = unsure
  /\ \A h \in Handlers :
       /\ pc'[h] = "persist" => pc[h] = "persist"
       /\ pc[h] = "persist" => pc'[h] = "persist" /\ Keeps(h)

(* Such a step leaves the passwords in order. *)
LEMMA ChangesStay ==
  ASSUME Changes, Undisturbed
  PROVE  Changes'
<1>1. \A r \in Relays : Persisting(r)' = Persisting(r)
  BY DEF Undisturbed, Persisting, Keeps
<1>2. QED
  BY <1>1 DEF Changes, PasswordKept, Undisturbed, Keeps

-----------------------------------------------------------------------------
(* The invariants *)

(* The steps of Next one by one. *)
LEMMA StepCases ==
  ASSUME [Next]_vars
  PROVE  \/ UNCHANGED vars
         \/ OpenDatabase
         \/ StartServer
         \/ StartPoller
         \/ AutoStart
         \/ \E t \in {Main} \union Handlers : Schedule(t)
         \/ JoinPoller
         \/ StopServer
         \/ JoinServer
         \/ JoinHandlers
         \/ JoinCollectors
         \/ StopAll
         \/ CloseDatabase
         \/ Enter
         \/ Sleep
         \/ Ids
         \/ \E r \in Relays : QueuePoll(r)
         \/ ServerExits
         \/ \E h \in Handlers, k \in Requests, r \in Relays, v \in Passwords : Request(h, k, r, v)
         \/ \E h \in Handlers : Persist(h)
         \/ \E h \in Handlers : LookUp(h)
         \/ \E h \in Handlers : Start(h)
         \/ \E h \in Handlers : Forget(h)
         \/ \E h \in Handlers : Stop(h)
         \/ \E h \in Handlers : Stopped(h)
         \/ \E h \in Handlers : Await(h)
         \/ \E c \in Collectors : Begin(c)
         \/ \E c \in Collectors : Pause(c)
         \/ \E c \in Collectors : GiveUp(c)
         \/ \E t \in Handlers \union Collectors : Want(t)
         \/ \E t \in Handlers \union Collectors : Run(t)
         \/ \E t \in Handlers \union Collectors : RunChange(t)
         \/ \E t \in Handlers \union Collectors : Store(t)
         \/ \E r \in Relays : Pipeline(r)
         \/ Environment
         \/ \E h \in Handlers : Throw(h)
BY DEF Next, Pipeline, MainStep, Poll, Handle, Collect, Command

(* Every step keeps the types. *)
LEMMA TypeStep ==
  ASSUME TypeOK, Kinds, [Next]_vars
  PROVE  TypeOK'
<1>1. CASE OpenDatabase
  <2>1. PcOK'
    BY <1>1, TypeParts, ThreadsApart DEF OpenDatabase, PcOK, HandlerPCs, CollectorPCs, MainPCs, PollerPCs, Commanding, Goto
  <2>2. JobOK'
    BY <1>1, TypeParts, ThreadsApart, JobsTyped DEF OpenDatabase, JobOK, Finish
  <2>3. ManagerTypeOK(Threads)'
    BY <1>1, TypeParts, ThreadsApart DEF OpenDatabase, ManagerTypeOK, manager, outside
  <2>4. LifeOK' /\ LoopsOK'
    BY <1>1, TypeParts, ThreadsApart DEF OpenDatabase, LifeOK, LoopsOK, life, tar
  <2>5. QED
    BY <2>1, <2>2, <2>3, <2>4, TypePartsNext
<1>2. CASE StartServer
  <2>1. PcOK'
    BY <1>2, TypeParts, ThreadsApart DEF StartServer, PcOK, HandlerPCs, CollectorPCs, MainPCs, PollerPCs, Commanding, Goto
  <2>2. JobOK'
    BY <1>2, TypeParts, ThreadsApart, JobsTyped DEF StartServer, JobOK, Finish
  <2>3. ManagerTypeOK(Threads)'
    BY <1>2, TypeParts, ThreadsApart DEF StartServer, ManagerTypeOK, manager, outside
  <2>4. LifeOK' /\ LoopsOK'
    BY <1>2, TypeParts, ThreadsApart DEF StartServer, LifeOK, LoopsOK, life, tar
  <2>5. QED
    BY <2>1, <2>2, <2>3, <2>4, TypePartsNext
<1>3. CASE StartPoller
  BY <1>3, ThreadsApart, JobsTyped DEF StartPoller, manager, outside, life,
      tar, TypeOK, ManagerTypeOK, Sessions, HandlerPCs, Commanding,
      CollectorPCs, MainPCs, PollerPCs, Jobs, Requests
<1>4. CASE AutoStart
  <2>1. PcOK'
    BY <1>4, TypeParts, ThreadsApart DEF AutoStart, PcOK, HandlerPCs, CollectorPCs, MainPCs, PollerPCs, Commanding, Goto
  <2>2. JobOK'
    BY <1>4, TypeParts, ThreadsApart, JobsTyped DEF AutoStart, JobOK, LoopsOK, Finish
  <2>3. ManagerTypeOK(Threads)'
    BY <1>4, TypeParts, ThreadsApart DEF AutoStart, ManagerTypeOK, manager, outside, StartRelay, SetSession, Sessions, active
  <2>4. LifeOK' /\ LoopsOK'
    BY <1>4, TypeParts, ThreadsApart DEF AutoStart, LifeOK, LoopsOK, life, tar
  <2>5. QED
    BY <2>1, <2>2, <2>3, <2>4, TypePartsNext
<1>5. ASSUME NEW t \in {Main} \union Handlers, Schedule(t)  PROVE  TypeOK'
  <2>1. PcOK' /\ JobOK'
    BY <1>5, ScheduleEffect
  <2>2. ManagerTypeOK(Threads)'
    BY <1>5, ScheduleEffect, TypeParts DEF ManagerTypeOK, manager, outside
  <2>3. LifeOK' /\ LoopsOK'
    BY <1>5, ScheduleEffect, TypeParts DEF LifeOK, LoopsOK, life, tar
  <2>4. QED
    BY <2>1, <2>2, <2>3, TypePartsNext
<1>6. CASE JoinPoller
  BY <1>6, ThreadsApart, JobsTyped DEF JoinPoller, manager, outside, life,
      tar, TypeOK, ManagerTypeOK, Sessions, HandlerPCs, Commanding,
      CollectorPCs, MainPCs, PollerPCs, Jobs, Requests
<1>7. CASE StopServer
  BY <1>7, ThreadsApart, JobsTyped DEF StopServer, Goto, manager, outside,
      tar, TypeOK, ManagerTypeOK, Sessions, HandlerPCs, Commanding,
      CollectorPCs, MainPCs, PollerPCs, Jobs, Requests
<1>8. CASE JoinServer
  BY <1>8, ThreadsApart, JobsTyped DEF JoinServer, Goto, manager, outside,
      life, tar, TypeOK, ManagerTypeOK, Sessions, HandlerPCs, Commanding,
      CollectorPCs, MainPCs, PollerPCs, Jobs, Requests
<1>9. CASE JoinHandlers
  BY <1>9, ThreadsApart, JobsTyped DEF JoinHandlers, manager, outside, life,
      tar, TypeOK, ManagerTypeOK, Sessions, HandlerPCs, Commanding,
      CollectorPCs, MainPCs, PollerPCs, Jobs, Requests
<1>10. CASE JoinCollectors
  BY <1>10, ThreadsApart, JobsTyped DEF JoinCollectors, manager, outside,
      life, tar, TypeOK, ManagerTypeOK, Sessions, HandlerPCs, Commanding,
      CollectorPCs, MainPCs, PollerPCs, Jobs, Requests
<1>11. CASE StopAll
  BY <1>11, ThreadsApart, JobsTyped DEF StopAll, StopAllBegins, Goto,
      StopNext, NextStopped, Halt, active, SetSession, StopAllEnds, outside, life, tar, TypeOK,
      ManagerTypeOK, Sessions, HandlerPCs, Commanding, CollectorPCs, MainPCs,
      PollerPCs, Jobs, Requests
<1>12. CASE CloseDatabase
  <2>1. PcOK'
    BY <1>12, TypeParts, ThreadsApart DEF CloseDatabase, PcOK, HandlerPCs, CollectorPCs, MainPCs, PollerPCs, Commanding, Goto
  <2>2. JobOK'
    BY <1>12, TypeParts, ThreadsApart, JobsTyped DEF CloseDatabase, JobOK, Finish
  <2>3. ManagerTypeOK(Threads)'
    BY <1>12, TypeParts, ThreadsApart DEF CloseDatabase, ManagerTypeOK, manager, outside
  <2>4. LifeOK' /\ LoopsOK'
    BY <1>12, TypeParts, ThreadsApart DEF CloseDatabase, LifeOK, LoopsOK, life, tar
  <2>5. QED
    BY <2>1, <2>2, <2>3, <2>4, TypePartsNext
<1>13. CASE Enter
  <2>1. PcOK'
    BY <1>13, TypeParts, ThreadsApart DEF Enter, PcOK, HandlerPCs, CollectorPCs, MainPCs, PollerPCs, Commanding, Goto
  <2>2. JobOK'
    BY <1>13, TypeParts, ThreadsApart, JobsTyped DEF Enter, JobOK, Finish
  <2>3. ManagerTypeOK(Threads)'
    BY <1>13, TypeParts, ThreadsApart DEF Enter, ManagerTypeOK, manager, outside
  <2>4. LifeOK' /\ LoopsOK'
    BY <1>13, TypeParts, ThreadsApart DEF Enter, LifeOK, LoopsOK, life, tar
  <2>5. QED
    BY <2>1, <2>2, <2>3, <2>4, TypePartsNext
<1>14. CASE Sleep
  BY <1>14, ThreadsApart, JobsTyped DEF Sleep, Goto, manager, outside, life,
      tar, TypeOK, ManagerTypeOK, Sessions, HandlerPCs, Commanding,
      CollectorPCs, MainPCs, PollerPCs, Jobs, Requests
<1>15. CASE Ids
  BY <1>15, ThreadsApart, JobsTyped DEF Ids, Look, manager, active, Goto,
      outside, life, tar, TypeOK, ManagerTypeOK, Sessions, HandlerPCs,
      Commanding, CollectorPCs, MainPCs, PollerPCs, Jobs, Requests
<1>16. ASSUME NEW r \in Relays, QueuePoll(r)  PROVE  TypeOK'
  BY <1>16, ThreadsApart, JobsTyped DEF QueuePoll, Look, manager, Goto,
      outside, life, tar, TypeOK, ManagerTypeOK, Sessions, HandlerPCs,
      Commanding, CollectorPCs, MainPCs, PollerPCs, Jobs, Requests
<1>17. CASE ServerExits
  BY <1>17, ThreadsApart, JobsTyped DEF ServerExits, manager, outside, tar,
      TypeOK, ManagerTypeOK, Sessions, HandlerPCs, Commanding, CollectorPCs,
      MainPCs, PollerPCs, Jobs, Requests
<1>18. ASSUME NEW h \in Handlers, NEW k \in Requests, NEW r \in Relays, NEW v \in Passwords, Request(h, k, r, v)
      PROVE  TypeOK'
  <2>1. PcOK' /\ JobOK'
    BY <1>18, RequestEffect
  <2>2. ManagerTypeOK(Threads)'
    BY <1>18, RequestEffect, TypeParts DEF ManagerTypeOK, manager, outside
  <2>3. LifeOK' /\ LoopsOK'
    BY <1>18, RequestEffect, TypeParts DEF LifeOK, LoopsOK, life, tar
  <2>4. QED
    BY <2>1, <2>2, <2>3, TypePartsNext
<1>19. ASSUME NEW h \in Handlers, Persist(h)  PROVE  TypeOK'
  BY <1>19, ThreadsApart, JobsTyped DEF Persist, UpdateStoredPassword, Finish,
      Goto, outside, life, tar, TypeOK, ManagerTypeOK, Sessions, HandlerPCs,
      Commanding, CollectorPCs, MainPCs, PollerPCs, Jobs, Requests
<1>20. ASSUME NEW h \in Handlers, LookUp(h)  PROVE  TypeOK'
  <2>1. PcOK'
    BY <1>20, TypeParts, ThreadsApart DEF LookUp, PcOK, HandlerPCs, CollectorPCs, MainPCs, PollerPCs, Commanding, Goto, Finish
  <2>2. JobOK'
    BY <1>20, TypeParts, ThreadsApart, JobsTyped DEF LookUp, JobOK, Finish, active, Requests
  <2>3. ManagerTypeOK(Threads)'
    BY <1>20, TypeParts DEF LookUp, Look, ManagerTypeOK, manager, outside
  <2>4. LifeOK' /\ LoopsOK'
    BY <1>20, TypeParts DEF LookUp, LifeOK, LoopsOK, life, tar
  <2>5. QED
    BY <2>1, <2>2, <2>3, <2>4, TypePartsNext
<1>21. ASSUME NEW h \in Handlers, Start(h)  PROVE  TypeOK'
  BY <1>21, ThreadsApart, JobsTyped DEF Start, StartRelay, active, SetSession,
      Goto, outside, life, tar, TypeOK, ManagerTypeOK, Sessions, HandlerPCs,
      Commanding, CollectorPCs, MainPCs, PollerPCs, Jobs, Requests
<1>22. ASSUME NEW h \in Handlers, Forget(h)  PROVE  TypeOK'
  BY <1>22, ThreadsApart, JobsTyped DEF Forget, ClearFlag, Goto, manager, outside, life,
      TypeOK, ManagerTypeOK, Sessions, HandlerPCs, Commanding, CollectorPCs,
      MainPCs, PollerPCs, Jobs, Requests
<1>23. ASSUME NEW h \in Handlers, Stop(h)  PROVE  TypeOK'
  <2>1. PcOK'
    BY <1>23, TypeParts, ThreadsApart DEF Stop, PcOK, HandlerPCs, CollectorPCs, MainPCs, PollerPCs, Commanding, Goto, Finish
  <2>2. JobOK'
    BY <1>23, TypeParts, ThreadsApart, JobsTyped DEF Stop, JobOK, Finish
  <2>3. ManagerTypeOK(Threads)'
    BY <1>23, TypeParts, ThreadsApart DEF Stop, ManagerTypeOK, manager, outside, StopRelay, Halt, NotActive, SetSession, Sessions
  <2>4. LifeOK' /\ LoopsOK'
    BY <1>23, TypeParts, ThreadsApart DEF Stop, LifeOK, LoopsOK, life, tar, outside
  <2>5. QED
    BY <2>1, <2>2, <2>3, <2>4, TypePartsNext
<1>24. ASSUME NEW h \in Handlers, Stopped(h)  PROVE  TypeOK'
  BY <1>24, ThreadsApart, JobsTyped DEF Stopped, RelayStopped, SetSession,
      Finish, Goto, outside, life, tar, TypeOK, ManagerTypeOK, Sessions,
      HandlerPCs, Commanding, CollectorPCs, MainPCs, PollerPCs, Jobs, Requests
<1>25. ASSUME NEW h \in Handlers, Await(h)  PROVE  TypeOK'
  <2>1. PcOK'
    BY <1>25, TypeParts, ThreadsApart DEF Await, PcOK, HandlerPCs, CollectorPCs, MainPCs, PollerPCs, Commanding, Goto, Finish
  <2>2. JobOK'
    BY <1>25, TypeParts, ThreadsApart, JobsTyped DEF Await, JobOK, Finish
  <2>3. ManagerTypeOK(Threads)'
    BY <1>25, TypeParts, ThreadsApart DEF Await, ManagerTypeOK, manager, outside
  <2>4. LifeOK' /\ LoopsOK'
    BY <1>25, TypeParts, ThreadsApart DEF Await, LifeOK, LoopsOK, JobOK, Jobs, life, tar
  <2>5. QED
    BY <2>1, <2>2, <2>3, <2>4, TypePartsNext
<1>26. ASSUME NEW c \in Collectors, Begin(c)  PROVE  TypeOK'
  <2>1. PcOK'
    BY <1>26, TypeParts, ThreadsApart DEF Begin, PcOK, HandlerPCs, CollectorPCs, MainPCs, PollerPCs, Commanding, Goto, Finish
  <2>2. JobOK'
    BY <1>26, TypeParts, ThreadsApart, JobsTyped DEF Begin, JobOK, Finish
  <2>3. ManagerTypeOK(Threads)'
    BY <1>26, TypeParts, ThreadsApart DEF Begin, ManagerTypeOK, manager, outside
  <2>4. LifeOK' /\ LoopsOK'
    BY <1>26, TypeParts, ThreadsApart DEF Begin, LifeOK, LoopsOK, JobOK, Jobs, life, tar
  <2>5. QED
    BY <2>1, <2>2, <2>3, <2>4, TypePartsNext
<1>27. ASSUME NEW c \in Collectors, Pause(c)  PROVE  TypeOK'
  BY <1>27, ThreadsApart, JobsTyped DEF Pause, Goto, manager, outside, life,
      tar, TypeOK, ManagerTypeOK, Sessions, HandlerPCs, Commanding,
      CollectorPCs, MainPCs, PollerPCs, Jobs, Requests
<1>28. ASSUME NEW c \in Collectors, GiveUp(c)  PROVE  TypeOK'
  BY <1>28, ThreadsApart, JobsTyped DEF GiveUp, ClearFlag, Finish, Goto, manager,
      outside, life, TypeOK, ManagerTypeOK, Sessions, HandlerPCs, Commanding,
      CollectorPCs, MainPCs, PollerPCs, Jobs, Requests
<1>29. ASSUME NEW t \in Handlers \union Collectors, Want(t)  PROVE  TypeOK'
  <2>1. PcOK' /\ JobOK'
    BY <1>29, WantEffect
  <2>2. ManagerTypeOK(Threads)'
    BY <1>29, WantEffect, TypeParts, ThreadsApart DEF ManagerTypeOK, outside
  <2>3. LifeOK' /\ LoopsOK'
    BY <1>29, WantEffect, TypeParts DEF LifeOK, LoopsOK, life, tar
  <2>4. QED
    BY <2>1, <2>2, <2>3, TypePartsNext
<1>30. ASSUME NEW t \in Handlers \union Collectors, Run(t)  PROVE  TypeOK'
  <2>1. PcOK' /\ JobOK'
    BY <1>30, RunEffect
  <2>2. ManagerTypeOK(Threads)'
    BY <1>30, RunEffect, TypeParts, ThreadsApart DEF ManagerTypeOK, outside
  <2>3. LifeOK' /\ LoopsOK'
    BY <1>30, RunEffect, TypeParts DEF LifeOK, LoopsOK, life, tar
  <2>4. QED
    BY <2>1, <2>2, <2>3, TypePartsNext
<1>31. ASSUME NEW t \in Handlers \union Collectors, RunChange(t)
      PROVE  TypeOK'
  <2>1. PcOK' /\ JobOK'
    BY <1>31, RunChangeEffect
  <2>2. ManagerTypeOK(Threads)'
    BY <1>31, RunChangeEffect, TypeParts, ThreadsApart DEF ManagerTypeOK, outside
  <2>3. LifeOK' /\ LoopsOK'
    BY <1>31, RunChangeEffect, TypeParts DEF LifeOK, LoopsOK, life, tar
  <2>4. QED
    BY <2>1, <2>2, <2>3, TypePartsNext
<1>32. ASSUME NEW t \in Handlers \union Collectors, Store(t)  PROVE  TypeOK'
  BY <1>32, ThreadsApart, JobsTyped DEF Store, ClearFlag, Finish, Goto, manager, outside,
      life, TypeOK, ManagerTypeOK, Sessions, HandlerPCs, Commanding,
      CollectorPCs, MainPCs, PollerPCs, Jobs, Requests
<1>33. ASSUME NEW r \in Relays, Pipeline(r)  PROVE  TypeOK'
  BY <1>33, ThreadsApart, JobsTyped DEF Pipeline, Progress, Mishap, Elsewhere, Kick, Rouse, Connect, SetSession,
      outside, RestartSession, life, tar, TypeOK, ManagerTypeOK, Sessions,
      HandlerPCs, Commanding, CollectorPCs, MainPCs, PollerPCs, Jobs, Requests
<1>34. CASE Environment
  BY <1>34, ThreadsApart, JobsTyped DEF Environment, Elsewhere, RelaySwitches, manager,
      life, tar, TypeOK, ManagerTypeOK, Sessions, HandlerPCs, Commanding,
      CollectorPCs, MainPCs, PollerPCs, Jobs, Requests
<1>35. CASE UNCHANGED vars
  BY <1>35 DEF vars, manager, outside, life, tar, TypeOK, ManagerTypeOK,
      Sessions, HandlerPCs, Commanding, CollectorPCs, MainPCs, PollerPCs,
      Jobs, Requests
<1>36. ASSUME NEW h \in Handlers, Throw(h)  PROVE  TypeOK'
  <2>1. ManagerTypeOK(Threads)'
    BY <1>36, ThrowEffect, TypeParts, ThreadsApart DEF ManagerTypeOK
  <2>2. LifeOK' /\ LoopsOK'
    BY <1>36, ThrowEffect, TypeParts DEF LifeOK, LoopsOK, life
  <2>3. PcOK' /\ JobOK'
    BY <1>36, ThrowEffect
  <2>4. QED
    BY <2>1, <2>2, <2>3, TypePartsNext
<1>37. QED
  BY <1>1, <1>2, <1>3, <1>4, <1>5, <1>6, <1>7, <1>8, <1>9, <1>10, <1>11,
      <1>12, <1>13, <1>14, <1>15, <1>16, <1>17, <1>18, <1>19, <1>20, <1>21,
      <1>22, <1>23, <1>24, <1>25, <1>26, <1>27, <1>28, <1>29, <1>30, <1>31,
      <1>32, <1>33, <1>34, <1>35, <1>36, StepCases

(* A thread's kind of job fits the place it is at. *)
LEMMA KindsStep ==
  ASSUME TypeOK, Kinds, [Next]_vars
  PROVE  Kinds'
<1>1. CASE OpenDatabase
  BY <1>1, ThreadsApart, JobsTyped, TypeParts DEF OpenDatabase, Goto, manager,
      outside, tar, Kinds, Requests, PcOK, JobOK
<1>2. CASE StartServer
  BY <1>2, ThreadsApart, JobsTyped, TypeParts DEF StartServer, Goto, manager,
      outside, tar, Kinds, Requests, PcOK, JobOK
<1>3. CASE StartPoller
  BY <1>3, ThreadsApart, JobsTyped, TypeParts DEF StartPoller, manager,
      outside, life, tar, Kinds, Requests, PcOK, JobOK
<1>4. CASE AutoStart
  BY <1>4, ThreadsApart, JobsTyped, TypeParts DEF AutoStart, StartRelay,
      active, SetSession, Job, Goto, manager, outside, life, tar, Kinds,
      Requests, PcOK, JobOK
<1>5. ASSUME NEW t \in {Main} \union Handlers, Schedule(t)  PROVE  Kinds'
  BY <1>5, ScheduleEffect, ThreadsApart, JobsTyped DEF Kinds, Requests, After
<1>6. CASE JoinPoller
  BY <1>6, ThreadsApart, JobsTyped, TypeParts DEF JoinPoller, manager,
      outside, life, tar, Kinds, Requests, PcOK, JobOK
<1>7. CASE StopServer
  BY <1>7, ThreadsApart, JobsTyped, TypeParts DEF StopServer, Goto, manager,
      outside, tar, Kinds, Requests, PcOK, JobOK
<1>8. CASE JoinServer
  BY <1>8, ThreadsApart, JobsTyped, TypeParts DEF JoinServer, Goto, manager,
      outside, life, tar, Kinds, Requests, PcOK, JobOK
<1>9. CASE JoinHandlers
  BY <1>9, ThreadsApart, JobsTyped, TypeParts DEF JoinHandlers, manager,
      outside, life, tar, Kinds, Requests, PcOK, JobOK
<1>10. CASE JoinCollectors
  BY <1>10, ThreadsApart, JobsTyped, TypeParts DEF JoinCollectors, manager,
      outside, life, tar, Kinds, Requests, PcOK, JobOK
<1>11. CASE StopAll
  BY <1>11, ThreadsApart, JobsTyped, TypeParts DEF StopAll, StopAllBegins,
      Goto, StopNext, NextStopped, Halt, active, SetSession, StopAllEnds, outside, life, tar,
      Kinds, Requests, PcOK, JobOK
<1>12. CASE CloseDatabase
  BY <1>12, ThreadsApart, JobsTyped, TypeParts DEF CloseDatabase, Goto,
      manager, outside, tar, Kinds, Requests, PcOK, JobOK
<1>13. CASE Enter
  BY <1>13, ThreadsApart, JobsTyped, TypeParts DEF Enter, Goto, manager,
      outside, tar, Kinds, Requests, PcOK, JobOK
<1>14. CASE Sleep
  BY <1>14, ThreadsApart, JobsTyped, TypeParts DEF Sleep, Goto, manager,
      outside, life, tar, Kinds, Requests, PcOK, JobOK
<1>15. CASE Ids
  BY <1>15, ThreadsApart, JobsTyped, TypeParts DEF Ids, Look, manager, active,
      Goto, outside, life, tar, Kinds, Requests, PcOK, JobOK
<1>16. ASSUME NEW r \in Relays, QueuePoll(r)  PROVE  Kinds'
  BY <1>16, ThreadsApart, JobsTyped, TypeParts DEF QueuePoll, Look, manager,
      Goto, outside, life, tar, Kinds, Requests, PcOK, JobOK
<1>17. CASE ServerExits
  BY <1>17, ThreadsApart, JobsTyped, TypeParts DEF ServerExits, manager,
      outside, tar, Kinds, Requests, PcOK, JobOK
<1>18. ASSUME NEW h \in Handlers, NEW k \in Requests, NEW r \in Relays, NEW v \in Passwords, Request(h, k, r, v)
      PROVE  Kinds'
  BY <1>18, ThreadsApart, JobsTyped, TypeParts DEF Request, Spare, Spawning,
      Entry, Finished, Job, manager, outside, life, tar, Kinds, Requests,
      PcOK, JobOK
<1>19. ASSUME NEW h \in Handlers, Persist(h)  PROVE  Kinds'
  BY <1>19, ThreadsApart, JobsTyped, TypeParts DEF Persist,
      UpdateStoredPassword, Finish, Goto, outside, life, tar, Kinds, Requests,
      PcOK, JobOK
<1>20. ASSUME NEW h \in Handlers, LookUp(h)  PROVE  Kinds'
  BY <1>20, ThreadsApart, JobsTyped, TypeParts DEF LookUp, Look, manager,
      active, Job, Goto, Finish, outside, life, tar, Kinds, Requests, PcOK,
      JobOK
<1>21. ASSUME NEW h \in Handlers, Start(h)  PROVE  Kinds'
  BY <1>21, ThreadsApart, JobsTyped, TypeParts DEF Start, StartRelay, active,
      SetSession, Goto, outside, life, tar, Kinds, Requests, PcOK, JobOK
<1>22. ASSUME NEW h \in Handlers, Forget(h)  PROVE  Kinds'
  BY <1>22, ThreadsApart, JobsTyped, TypeParts DEF Forget, ClearFlag, Goto, manager,
      outside, life, Kinds, Requests, PcOK, JobOK
<1>23. ASSUME NEW h \in Handlers, Stop(h)  PROVE  Kinds'
  BY <1>23, ThreadsApart, JobsTyped, TypeParts DEF Stop, StopRelay, Halt, active,
      SetSession, Goto, NotActive, manager, Finish, outside, life, tar, Kinds,
      Requests, PcOK, JobOK
<1>24. ASSUME NEW h \in Handlers, Stopped(h)  PROVE  Kinds'
  BY <1>24, ThreadsApart, JobsTyped, TypeParts DEF Stopped, RelayStopped,
      SetSession, Finish, Goto, outside, life, tar, Kinds, Requests, PcOK,
      JobOK
<1>25. ASSUME NEW h \in Handlers, Await(h)  PROVE  Kinds'
  BY <1>25, ThreadsApart, JobsTyped, TypeParts DEF Await, Finish, Goto,
      manager, outside, life, Kinds, Requests, PcOK, JobOK
<1>26. ASSUME NEW c \in Collectors, Begin(c)  PROVE  Kinds'
  BY <1>26, ThreadsApart, JobsTyped, TypeParts DEF Begin, Finish, Goto,
      manager, outside, life, Kinds, Requests, PcOK, JobOK
<1>27. ASSUME NEW c \in Collectors, Pause(c)  PROVE  Kinds'
  BY <1>27, ThreadsApart, JobsTyped, TypeParts DEF Pause, Goto, manager,
      outside, life, tar, Kinds, Requests, PcOK, JobOK
<1>28. ASSUME NEW c \in Collectors, GiveUp(c)  PROVE  Kinds'
  BY <1>28, ThreadsApart, JobsTyped, TypeParts DEF GiveUp, ClearFlag, Finish, Goto,
      manager, outside, life, Kinds, Requests, PcOK, JobOK
<1>29. ASSUME NEW t \in Handlers \union Collectors, Want(t)  PROVE  Kinds'
  BY <1>29, WantEffect, ThreadsApart, JobsTyped DEF Kinds, Keeps, Requests
<1>30. ASSUME NEW t \in Handlers \union Collectors, Run(t)  PROVE  Kinds'
  BY <1>30, RunEffect, ThreadsApart, JobsTyped DEF Kinds, Keeps, Requests
<1>31. ASSUME NEW t \in Handlers \union Collectors, RunChange(t)
      PROVE  Kinds'
  BY <1>31, ThreadsApart, JobsTyped, TypeParts DEF RunChange, CommandEnds,
      Goto, Finish, life, tar, Kinds, Requests, PcOK, JobOK
<1>32. ASSUME NEW t \in Handlers \union Collectors, Store(t)  PROVE  Kinds'
  BY <1>32, ThreadsApart, JobsTyped, TypeParts DEF Store, ClearFlag, Finish, Goto,
      manager, outside, life, Kinds, Requests, PcOK, JobOK
<1>33. ASSUME NEW r \in Relays, Pipeline(r)  PROVE  Kinds'
  BY <1>33, ThreadsApart, JobsTyped, TypeParts DEF Pipeline, Progress, Mishap, Elsewhere, Kick, Rouse, Connect,
      SetSession, outside, RestartSession, life, tar, Kinds, Requests, PcOK,
      JobOK
<1>34. CASE Environment
  BY <1>34, ThreadsApart, JobsTyped, TypeParts DEF Environment, Elsewhere, RelaySwitches,
      manager, life, tar, Kinds, Requests, PcOK, JobOK
<1>35. CASE UNCHANGED vars
  BY <1>35 DEF vars, manager, outside, life, tar, Kinds, Requests, PcOK, JobOK
<1>36. ASSUME NEW h \in Handlers, Throw(h)  PROVE  Kinds'
  BY <1>36, ThrowEffect, ThreadsApart, JobsTyped DEF Kinds, Requests
<1>37. QED
  BY <1>1, <1>2, <1>3, <1>4, <1>5, <1>6, <1>7, <1>8, <1>9, <1>10, <1>11,
      <1>12, <1>13, <1>14, <1>15, <1>16, <1>17, <1>18, <1>19, <1>20, <1>21,
      <1>22, <1>23, <1>24, <1>25, <1>26, <1>27, <1>28, <1>29, <1>30, <1>31,
      <1>32, <1>33, <1>34, <1>35, <1>36, StepCases

(* No command, and no join of a pipeline, without mutex_. *)
LEMMA LocksStep ==
  ASSUME TypeOK, Kinds, Locks, [Next]_vars
  PROVE  Locks'
<1>1. CASE OpenDatabase
  BY <1>1, ThreadsApart, JobsTyped, TypeParts DEF OpenDatabase, Goto, manager,
      outside, tar, Locks, PipelineOutlivesCommand, PcOK, JobOK, ManagerTypeOK
<1>2. CASE StartServer
  BY <1>2, ThreadsApart, JobsTyped, TypeParts DEF StartServer, Goto, manager,
      outside, tar, Locks, PipelineOutlivesCommand, PcOK, JobOK, ManagerTypeOK
<1>3. CASE StartPoller
  BY <1>3, ThreadsApart, JobsTyped, TypeParts DEF StartPoller, manager,
      outside, life, tar, Locks, PipelineOutlivesCommand, PcOK, JobOK,
      ManagerTypeOK
<1>4. CASE AutoStart
  BY <1>4, ThreadsApart, JobsTyped, TypeParts DEF AutoStart, StartRelay,
      active, SetSession, Job, Goto, manager, outside, life, tar, Locks,
      PipelineOutlivesCommand, PcOK, JobOK, ManagerTypeOK
<1>5. ASSUME NEW t \in {Main} \union Handlers, Schedule(t)  PROVE  Locks'
  BY <1>5, ThreadsApart, JobsTyped, TypeParts DEF Schedule, Goto, After,
      Spare, Job, manager, outside, life, tar, Locks, PipelineOutlivesCommand,
      PcOK, JobOK, ManagerTypeOK
<1>6. CASE JoinPoller
  BY <1>6, ThreadsApart, JobsTyped, TypeParts DEF JoinPoller, manager,
      outside, life, tar, Locks, PipelineOutlivesCommand, PcOK, JobOK,
      ManagerTypeOK
<1>7. CASE StopServer
  BY <1>7, ThreadsApart, JobsTyped, TypeParts DEF StopServer, Goto, manager,
      outside, tar, Locks, PipelineOutlivesCommand, PcOK, JobOK, ManagerTypeOK
<1>8. CASE JoinServer
  BY <1>8, ThreadsApart, JobsTyped, TypeParts DEF JoinServer, Goto, manager,
      outside, life, tar, Locks, PipelineOutlivesCommand, PcOK, JobOK,
      ManagerTypeOK
<1>9. CASE JoinHandlers
  BY <1>9, ThreadsApart, JobsTyped, TypeParts DEF JoinHandlers, manager,
      outside, life, tar, Locks, PipelineOutlivesCommand, PcOK, JobOK,
      ManagerTypeOK
<1>10. CASE JoinCollectors
  BY <1>10, ThreadsApart, JobsTyped, TypeParts DEF JoinCollectors, manager,
      outside, life, tar, Locks, PipelineOutlivesCommand, PcOK, JobOK,
      ManagerTypeOK
<1>11. CASE StopAll
  BY <1>11, ThreadsApart, JobsTyped, TypeParts DEF StopAll, StopAllBegins,
      Goto, StopNext, NextStopped, Halt, active, SetSession, StopAllEnds, outside, life, tar,
      Locks, PipelineOutlivesCommand, PcOK, JobOK, ManagerTypeOK
<1>12. CASE CloseDatabase
  BY <1>12, ThreadsApart, JobsTyped, TypeParts DEF CloseDatabase, Goto,
      manager, outside, tar, Locks, PipelineOutlivesCommand, PcOK, JobOK,
      ManagerTypeOK
<1>13. CASE Enter
  BY <1>13, ThreadsApart, JobsTyped, TypeParts DEF Enter, Goto, manager,
      outside, tar, Locks, PipelineOutlivesCommand, PcOK, JobOK, ManagerTypeOK
<1>14. CASE Sleep
  BY <1>14, ThreadsApart, JobsTyped, TypeParts DEF Sleep, Goto, manager,
      outside, life, tar, Locks, PipelineOutlivesCommand, PcOK, JobOK,
      ManagerTypeOK
<1>15. CASE Ids
  BY <1>15, ThreadsApart, JobsTyped, TypeParts DEF Ids, Look, manager, active,
      Goto, outside, life, tar, Locks, PipelineOutlivesCommand, PcOK, JobOK,
      ManagerTypeOK
<1>16. ASSUME NEW r \in Relays, QueuePoll(r)  PROVE  Locks'
  BY <1>16, ThreadsApart, JobsTyped, TypeParts DEF QueuePoll, Look, manager,
      Goto, outside, life, tar, Locks, PipelineOutlivesCommand, PcOK, JobOK,
      ManagerTypeOK
<1>17. CASE ServerExits
  BY <1>17, ThreadsApart, JobsTyped, TypeParts DEF ServerExits, manager,
      outside, tar, Locks, PipelineOutlivesCommand, PcOK, JobOK, ManagerTypeOK
<1>18. ASSUME NEW h \in Handlers, NEW k \in Requests, NEW r \in Relays, NEW v \in Passwords, Request(h, k, r, v)
      PROVE  Locks'
  BY <1>18, ThreadsApart, JobsTyped, TypeParts DEF Request, Spare, Spawning,
      Entry, Finished, Job, manager, outside, life, tar, Locks,
      PipelineOutlivesCommand, PcOK, JobOK, ManagerTypeOK
<1>19. ASSUME NEW h \in Handlers, Persist(h)  PROVE  Locks'
  BY <1>19, ThreadsApart, JobsTyped, TypeParts DEF Persist,
      UpdateStoredPassword, Finish, Goto, outside, life, tar, Locks,
      PipelineOutlivesCommand, PcOK, JobOK, ManagerTypeOK
<1>20. ASSUME NEW h \in Handlers, LookUp(h)  PROVE  Locks'
  BY <1>20, ThreadsApart, JobsTyped, TypeParts DEF LookUp, Look, manager,
      active, Job, Goto, Finish, outside, life, tar, Locks,
      PipelineOutlivesCommand, PcOK, JobOK, ManagerTypeOK
<1>21. ASSUME NEW h \in Handlers, Start(h)  PROVE  Locks'
  BY <1>21, ThreadsApart, JobsTyped, TypeParts DEF Start, StartRelay, active,
      SetSession, Goto, outside, life, tar, Locks, PipelineOutlivesCommand,
      PcOK, JobOK, ManagerTypeOK
<1>22. ASSUME NEW h \in Handlers, Forget(h)  PROVE  Locks'
  BY <1>22, ThreadsApart, JobsTyped, TypeParts DEF Forget, ClearFlag, Goto, manager,
      outside, life, Locks, PipelineOutlivesCommand, PcOK, JobOK,
      ManagerTypeOK
<1>23. ASSUME NEW h \in Handlers, Stop(h)  PROVE  Locks'
  BY <1>23, ThreadsApart, JobsTyped, TypeParts DEF Stop, StopRelay, Halt, active,
      SetSession, Goto, NotActive, manager, Finish, outside, life, tar, Locks,
      PipelineOutlivesCommand, PcOK, JobOK, ManagerTypeOK
<1>24. ASSUME NEW h \in Handlers, Stopped(h)  PROVE  Locks'
  BY <1>24, ThreadsApart, JobsTyped, TypeParts DEF Stopped, RelayStopped,
      SetSession, Finish, Goto, outside, life, tar, Locks,
      PipelineOutlivesCommand, PcOK, JobOK, ManagerTypeOK
<1>25. ASSUME NEW h \in Handlers, Await(h)  PROVE  Locks'
  BY <1>25, ThreadsApart, JobsTyped, TypeParts DEF Await, Finish, Goto,
      manager, outside, life, Locks, PipelineOutlivesCommand, PcOK, JobOK,
      ManagerTypeOK
<1>26. ASSUME NEW c \in Collectors, Begin(c)  PROVE  Locks'
  BY <1>26, ThreadsApart, JobsTyped, TypeParts DEF Begin, Finish, Goto,
      manager, outside, life, Locks, PipelineOutlivesCommand, PcOK, JobOK,
      ManagerTypeOK
<1>27. ASSUME NEW c \in Collectors, Pause(c)  PROVE  Locks'
  BY <1>27, ThreadsApart, JobsTyped, TypeParts DEF Pause, Goto, manager,
      outside, life, tar, Locks, PipelineOutlivesCommand, PcOK, JobOK,
      ManagerTypeOK
<1>28. ASSUME NEW c \in Collectors, GiveUp(c)  PROVE  Locks'
  BY <1>28, ThreadsApart, JobsTyped, TypeParts DEF GiveUp, ClearFlag, Finish, Goto,
      manager, outside, life, Locks, PipelineOutlivesCommand, PcOK, JobOK,
      ManagerTypeOK
<1>29. ASSUME NEW t \in Handlers \union Collectors, Want(t)  PROVE  Locks'
  <2>1. pc[t] = "want" /\ mutex = Nobody
    BY <1>29, WantEffect
  <2>2. \A u \in Threads : pc[u] \notin {"run", "stopping"}
    BY <2>1, ThreadsApart DEF Locks
  <2>3. \A r \in Relays : session[r] \notin {"stopping", "deaf"}
    BY <2>2, ThreadsApart DEF Locks
  <2>4. \A u \in Threads \ {t} : pc'[u] = pc[u]
    BY <1>29, WantEffect
  <2>5. pc'[t] # "stopping"
    BY <1>29, WantEffect
  <2>6. /\ session' \in [Relays -> Sessions]
        /\ \A r \in Relays : session'[r] = session[r] \/ session'[r] = "held"
    BY <1>29, WantEffect
  <2>7. \A r \in Relays : session'[r] \notin {"stopping", "deaf"}
    BY <2>3, <2>6
  <2>8. pc'[t] = "run" => /\ mutex' = t /\ job'[t].relay = job[t].relay
                          /\ job[t].relay \in active /\ session'[job[t].relay] # "starting"
    BY <1>29, WantEffect DEF Keeps
  <2>9. pc'[t] = "run" => session'[job'[t].relay] \in {"held", "connecting", "operational"}
    BY <2>6, <2>7, <2>8 DEF active, Sessions
  <2>10. QED
    BY <2>2, <2>4, <2>5, <2>7, <2>8, <2>9 DEF Locks, PipelineOutlivesCommand
<1>30. ASSUME NEW t \in Handlers \union Collectors, Run(t)  PROVE  Locks'
  BY <1>30, ThreadsApart, JobsTyped, TypeParts DEF Run, CommandEnds, Answers,
      Answered, Goto, Row, Finish, outside, life, tar, Locks,
      PipelineOutlivesCommand, PcOK, JobOK, ManagerTypeOK
<1>31. ASSUME NEW t \in Handlers \union Collectors, RunChange(t)
      PROVE  Locks'
  BY <1>31, ThreadsApart, JobsTyped, TypeParts DEF RunChange, CommandEnds,
      Goto, Finish, life, tar, Locks, PipelineOutlivesCommand, PcOK, JobOK,
      ManagerTypeOK
<1>32. ASSUME NEW t \in Handlers \union Collectors, Store(t)  PROVE  Locks'
  BY <1>32, ThreadsApart, JobsTyped, TypeParts DEF Store, ClearFlag, Finish, Goto,
      manager, outside, life, Locks, PipelineOutlivesCommand, PcOK, JobOK,
      ManagerTypeOK
<1>33. ASSUME NEW r \in Relays, Pipeline(r)  PROVE  Locks'
  <2>1. UNCHANGED <<pc, job, mutex>>
    BY <1>33 DEF Pipeline, Progress, Mishap, Elsewhere, Kick, Rouse, Connect, RestartSession
  <2>2. \A s \in Relays :
          \/ session'[s] = session[s]
          \/ /\ session[s] \in {"starting", "connecting", "operational"}
             /\ session'[s] \in {"connecting", "operational"}
          \/ session[s] = "deaf" /\ session'[s] = "stopping"
    BY <1>33, TypeParts
    DEF Pipeline, Progress, Mishap, Kick, Rouse, Connect, RestartSession, SetSession, ManagerTypeOK
  <2>3. \A t \in Threads : job[t].relay \in Relays
    BY TypeParts DEF JobOK, Jobs
  <2>4. QED
    BY <2>1, <2>2, <2>3 DEF Locks, PipelineOutlivesCommand
<1>34. CASE Environment
  BY <1>34, ThreadsApart, JobsTyped, TypeParts DEF Environment, Elsewhere, RelaySwitches,
      manager, life, tar, Locks, PipelineOutlivesCommand, PcOK, JobOK,
      ManagerTypeOK
<1>35. CASE UNCHANGED vars
  BY <1>35 DEF vars, manager, outside, life, tar, Locks,
      PipelineOutlivesCommand, PcOK, JobOK, ManagerTypeOK
<1>36. ASSUME NEW h \in Handlers, Throw(h)  PROVE  Locks'
  <2>1. \A u \in Threads : pc'[u] \in {"run", "stopping"} =>
          u # h /\ pc[u] = pc'[u] /\ job'[u] = job[u] /\ mutex = u
    BY <1>36, ThrowEffect DEF Locks
  <2>2. mutex' = mutex \/ mutex = h
    BY <1>36, ThrowEffect
  <2>3. pc[h] # "stopping" /\ h # Main /\ session' = session
    BY <1>36, ThrowEffect, ThreadsApart
  <2>4. pc'[Main] = pc[Main] /\ \A u \in Handlers \ {h} : pc'[u] = pc[u] /\ job'[u] = job[u]
    BY <1>36, <2>3, ThrowEffect, ThreadsApart
  <2>5. QED
    BY <2>1, <2>2, <2>3, <2>4 DEF Locks, PipelineOutlivesCommand
<1>37. QED
  BY <1>1, <1>2, <1>3, <1>4, <1>5, <1>6, <1>7, <1>8, <1>9, <1>10, <1>11,
      <1>12, <1>13, <1>14, <1>15, <1>16, <1>17, <1>18, <1>19, <1>20, <1>21,
      <1>22, <1>23, <1>24, <1>25, <1>26, <1>27, <1>28, <1>29, <1>30, <1>31,
      <1>32, <1>33, <1>34, <1>35, <1>36, StepCases

(* The order of start() and stop(). *)
LEMMA OrderStep ==
  ASSUME TypeOK, Kinds, Order, [Next]_vars
  PROVE  Order'
<1>1. CASE OpenDatabase
  BY <1>1, ThreadsApart, TypeParts DEF OpenDatabase, Goto, manager, outside,
      tar, Order, Fresh, Ended, NoCollector, NoHandler, NoServer, NoPoller,
      PcOK, LifeOK, ManagerTypeOK, active
<1>2. CASE StartServer
  BY <1>2, ThreadsApart, TypeParts DEF StartServer, Goto, manager, outside,
      tar, Order, Fresh, Ended, NoCollector, NoHandler, NoServer, NoPoller,
      PcOK, LifeOK, ManagerTypeOK, active
<1>3. CASE StartPoller
  BY <1>3, ThreadsApart, TypeParts DEF StartPoller, manager, outside, life,
      tar, Order, Fresh, Ended, NoCollector, NoHandler, NoServer, NoPoller,
      PcOK, LifeOK, ManagerTypeOK, active
<1>4. CASE AutoStart
  BY <1>4, ThreadsApart, TypeParts DEF AutoStart, StartRelay, active,
      SetSession, Job, Goto, manager, outside, life, tar, Order, Fresh, Ended,
      NoCollector, NoHandler, NoServer, NoPoller, PcOK, LifeOK, ManagerTypeOK
<1>5. ASSUME NEW t \in {Main} \union Handlers, Schedule(t)  PROVE  Order'
  BY <1>5, ThreadsApart, TypeParts DEF Schedule, Goto, After, Spare, Job,
      manager, outside, life, tar, Order, Fresh, Ended, NoCollector,
      NoHandler, NoServer, NoPoller, PcOK, LifeOK, ManagerTypeOK, active
<1>6. CASE JoinPoller
  BY <1>6, ThreadsApart, TypeParts DEF JoinPoller, manager, outside, life,
      tar, Order, Fresh, Ended, NoCollector, NoHandler, NoServer, NoPoller,
      PcOK, LifeOK, ManagerTypeOK, active
<1>7. CASE StopServer
  BY <1>7, ThreadsApart, TypeParts DEF StopServer, Goto, manager, outside,
      tar, Order, Fresh, Ended, NoCollector, NoHandler, NoServer, NoPoller,
      PcOK, LifeOK, ManagerTypeOK, active
<1>8. CASE JoinServer
  BY <1>8, ThreadsApart, TypeParts DEF JoinServer, Goto, manager, outside,
      life, tar, Order, Fresh, Ended, NoCollector, NoHandler, NoServer,
      NoPoller, PcOK, LifeOK, ManagerTypeOK, active
<1>9. CASE JoinHandlers
  BY <1>9, ThreadsApart, TypeParts DEF JoinHandlers, manager, outside, life,
      tar, Order, Fresh, Ended, NoCollector, NoHandler, NoServer, NoPoller,
      PcOK, LifeOK, ManagerTypeOK, active
<1>10. CASE JoinCollectors
  BY <1>10, ThreadsApart, TypeParts DEF JoinCollectors, manager, outside,
      life, tar, Order, Fresh, Ended, NoCollector, NoHandler, NoServer,
      NoPoller, PcOK, LifeOK, ManagerTypeOK, active
<1>11. CASE StopAll
  BY <1>11, ThreadsApart, TypeParts DEF StopAll, StopAllBegins, Goto,
      StopNext, NextStopped, Halt, active, SetSession, StopAllEnds, outside, life, tar, Order,
      Fresh, Ended, NoCollector, NoHandler, NoServer, NoPoller, PcOK, LifeOK,
      ManagerTypeOK
<1>12. CASE CloseDatabase
  BY <1>12, ThreadsApart, TypeParts DEF CloseDatabase, Goto, manager, outside,
      tar, Order, Fresh, Ended, NoCollector, NoHandler, NoServer, NoPoller,
      PcOK, LifeOK, ManagerTypeOK, active
<1>13. CASE Enter
  BY <1>13, ThreadsApart, TypeParts DEF Enter, Goto, manager, outside, tar,
      Order, Fresh, Ended, NoCollector, NoHandler, NoServer, NoPoller, PcOK,
      LifeOK, ManagerTypeOK, active
<1>14. CASE Sleep
  BY <1>14, ThreadsApart, TypeParts DEF Sleep, Goto, manager, outside, life,
      tar, Order, Fresh, Ended, NoCollector, NoHandler, NoServer, NoPoller,
      PcOK, LifeOK, ManagerTypeOK, active
<1>15. CASE Ids
  BY <1>15, ThreadsApart, TypeParts DEF Ids, Look, manager, active, Goto,
      outside, life, tar, Order, Fresh, Ended, NoCollector, NoHandler,
      NoServer, NoPoller, PcOK, LifeOK, ManagerTypeOK
<1>16. ASSUME NEW r \in Relays, QueuePoll(r)  PROVE  Order'
  BY <1>16, ThreadsApart, TypeParts DEF QueuePoll, Look, manager, Goto,
      outside, life, tar, Order, Fresh, Ended, NoCollector, NoHandler,
      NoServer, NoPoller, PcOK, LifeOK, ManagerTypeOK, active
<1>17. CASE ServerExits
  BY <1>17, ThreadsApart, TypeParts DEF ServerExits, manager, outside, tar,
      Order, Fresh, Ended, NoCollector, NoHandler, NoServer, NoPoller, PcOK,
      LifeOK, ManagerTypeOK, active
<1>18. ASSUME NEW h \in Handlers, NEW k \in Requests, NEW r \in Relays, NEW v \in Passwords, Request(h, k, r, v)
      PROVE  Order'
  BY <1>18, ThreadsApart, TypeParts DEF Request, Spare, Spawning, Entry,
      Finished, Job, manager, outside, life, tar, Order, Fresh, Ended,
      NoCollector, NoHandler, NoServer, NoPoller, PcOK, LifeOK, ManagerTypeOK,
      active
<1>19. ASSUME NEW h \in Handlers, Persist(h)  PROVE  Order'
  BY <1>19, ThreadsApart, TypeParts DEF Persist, UpdateStoredPassword, Finish,
      Goto, outside, life, tar, Order, Fresh, Ended, NoCollector, NoHandler,
      NoServer, NoPoller, PcOK, LifeOK, ManagerTypeOK, active
<1>20. ASSUME NEW h \in Handlers, LookUp(h)  PROVE  Order'
  BY <1>20, ThreadsApart, TypeParts DEF LookUp, Look, manager, active, Job,
      Goto, Finish, outside, life, tar, Order, Fresh, Ended, NoCollector,
      NoHandler, NoServer, NoPoller, PcOK, LifeOK, ManagerTypeOK
<1>21. ASSUME NEW h \in Handlers, Start(h)  PROVE  Order'
  BY <1>21, ThreadsApart, TypeParts DEF Start, StartRelay, active, SetSession,
      Goto, outside, life, tar, Order, Fresh, Ended, NoCollector, NoHandler,
      NoServer, NoPoller, PcOK, LifeOK, ManagerTypeOK
<1>22. ASSUME NEW h \in Handlers, Forget(h)  PROVE  Order'
  BY <1>22, ThreadsApart, TypeParts DEF Forget, ClearFlag, Goto, manager, outside, life,
      Order, Fresh, Ended, NoCollector, NoHandler, NoServer, NoPoller, PcOK,
      LifeOK, ManagerTypeOK, active
<1>23. ASSUME NEW h \in Handlers, Stop(h)  PROVE  Order'
  BY <1>23, ThreadsApart, TypeParts DEF Stop, StopRelay, Halt, active, SetSession,
      Goto, NotActive, manager, Finish, outside, life, tar, Order, Fresh,
      Ended, NoCollector, NoHandler, NoServer, NoPoller, PcOK, LifeOK,
      ManagerTypeOK
<1>24. ASSUME NEW h \in Handlers, Stopped(h)  PROVE  Order'
  BY <1>24, ThreadsApart, TypeParts DEF Stopped, RelayStopped, SetSession,
      Finish, Goto, outside, life, tar, Order, Fresh, Ended, NoCollector,
      NoHandler, NoServer, NoPoller, PcOK, LifeOK, ManagerTypeOK, active
<1>25. ASSUME NEW h \in Handlers, Await(h)  PROVE  Order'
  BY <1>25, ThreadsApart, TypeParts DEF Await, Finish, Goto, manager, outside,
      life, Order, Fresh, Ended, NoCollector, NoHandler, NoServer, NoPoller,
      PcOK, LifeOK, ManagerTypeOK, active
<1>26. ASSUME NEW c \in Collectors, Begin(c)  PROVE  Order'
  BY <1>26, ThreadsApart, TypeParts DEF Begin, Finish, Goto, manager, outside,
      life, Order, Fresh, Ended, NoCollector, NoHandler, NoServer, NoPoller,
      PcOK, LifeOK, ManagerTypeOK, active
<1>27. ASSUME NEW c \in Collectors, Pause(c)  PROVE  Order'
  BY <1>27, ThreadsApart, TypeParts DEF Pause, Goto, manager, outside, life,
      tar, Order, Fresh, Ended, NoCollector, NoHandler, NoServer, NoPoller,
      PcOK, LifeOK, ManagerTypeOK, active
<1>28. ASSUME NEW c \in Collectors, GiveUp(c)  PROVE  Order'
  BY <1>28, ThreadsApart, TypeParts DEF GiveUp, ClearFlag, Finish, Goto, manager,
      outside, life, Order, Fresh, Ended, NoCollector, NoHandler, NoServer,
      NoPoller, PcOK, LifeOK, ManagerTypeOK, active
<1>29. ASSUME NEW t \in Handlers \union Collectors, Want(t)  PROVE  Order'
  BY <1>29, ThreadsApart, TypeParts DEF Want, CommandBegins, SetSession, active, Goto,
      NotActive, manager, Answered, Row, Finish, outside, life, tar, Order,
      Fresh, Ended, NoCollector, NoHandler, NoServer, NoPoller, PcOK, LifeOK,
      ManagerTypeOK
<1>30. ASSUME NEW t \in Handlers \union Collectors, Run(t)  PROVE  Order'
  BY <1>30, ThreadsApart, TypeParts DEF Run, CommandEnds, Answers, Answered,
      Goto, Row, Finish, outside, life, tar, Order, Fresh, Ended, NoCollector,
      NoHandler, NoServer, NoPoller, PcOK, LifeOK, ManagerTypeOK, active
<1>31. ASSUME NEW t \in Handlers \union Collectors, RunChange(t)
      PROVE  Order'
  BY <1>31, ThreadsApart, TypeParts DEF RunChange, CommandEnds, Goto, Finish,
      life, tar, Order, Fresh, Ended, NoCollector, NoHandler, NoServer,
      NoPoller, PcOK, LifeOK, ManagerTypeOK, active
<1>32. ASSUME NEW t \in Handlers \union Collectors, Store(t)  PROVE  Order'
  BY <1>32, ThreadsApart, TypeParts DEF Store, ClearFlag, Finish, Goto, manager, outside,
      life, Order, Fresh, Ended, NoCollector, NoHandler, NoServer, NoPoller,
      PcOK, LifeOK, ManagerTypeOK, active
<1>33. ASSUME NEW r \in Relays, Pipeline(r)  PROVE  Order'
  BY <1>33, ThreadsApart, TypeParts DEF Pipeline, Progress, Mishap, Elsewhere, Kick, Rouse, Connect, SetSession,
      outside, RestartSession, life, tar, Order, Fresh, Ended, NoCollector,
      NoHandler, NoServer, NoPoller, PcOK, LifeOK, ManagerTypeOK, active
<1>34. CASE Environment
  BY <1>34, ThreadsApart, TypeParts DEF Environment, Elsewhere, RelaySwitches, manager,
      life, tar, Order, Fresh, Ended, NoCollector, NoHandler, NoServer,
      NoPoller, PcOK, LifeOK, ManagerTypeOK, active
<1>35. CASE UNCHANGED vars
  BY <1>35 DEF vars, manager, outside, life, tar, Order, Fresh, Ended,
      NoCollector, NoHandler, NoServer, NoPoller, PcOK, LifeOK, ManagerTypeOK,
      active
<1>36. ASSUME NEW h \in Handlers, Throw(h)  PROVE  Order'
  <2>1. pc[h] # "idle" /\ pc'[Main] = pc[Main] /\ pc'[Poller] = pc[Poller]
    BY <1>36, ThrowEffect, ThreadsApart
  <2>2. /\ UNCHANGED <<session, dbOpen, server>>
        /\ \A c \in Collectors : pc'[c] = pc[c]
    BY <1>36, ThrowEffect, ThreadsApart DEF life
  <2>3. pc[Main] \notin Fresh \union NoHandler
    BY <2>1 DEF Order
  <2>4. QED
    BY <2>1, <2>2, <2>3 DEF Order, active
<1>37. QED
  BY <1>1, <1>2, <1>3, <1>4, <1>5, <1>6, <1>7, <1>8, <1>9, <1>10, <1>11,
      <1>12, <1>13, <1>14, <1>15, <1>16, <1>17, <1>18, <1>19, <1>20, <1>21,
      <1>22, <1>23, <1>24, <1>25, <1>26, <1>27, <1>28, <1>29, <1>30, <1>31,
      <1>32, <1>33, <1>34, <1>35, <1>36, StepCases

(* No flag without the collection that set it. *)
LEMMA OwnerStep ==
  ASSUME TypeOK, Kinds, FlagHasOwner, [Next]_vars
  PROVE  FlagHasOwner'
<1>1. CASE OpenDatabase
  BY <1>1, ThreadsApart, JobsTyped, TypeParts DEF OpenDatabase, Goto, manager,
      outside, tar, FlagHasOwner, CollectorsOf, Kinds, PcOK, JobOK
<1>2. CASE StartServer
  BY <1>2, ThreadsApart, JobsTyped, TypeParts DEF StartServer, Goto, manager,
      outside, tar, FlagHasOwner, CollectorsOf, Kinds, PcOK, JobOK
<1>3. CASE StartPoller
  BY <1>3, ThreadsApart, JobsTyped, TypeParts DEF StartPoller, manager,
      outside, life, tar, FlagHasOwner, CollectorsOf, Kinds, PcOK, JobOK
<1>4. CASE AutoStart
  BY <1>4, ThreadsApart, JobsTyped, TypeParts DEF AutoStart, StartRelay,
      active, SetSession, Job, Goto, manager, outside, life, tar,
      FlagHasOwner, CollectorsOf, Kinds, PcOK, JobOK
<1>5. ASSUME NEW t \in {Main} \union Handlers, Schedule(t)
      PROVE  FlagHasOwner'
  BY <1>5, ThreadsApart, JobsTyped, TypeParts DEF Schedule, Goto, After,
      Spare, Job, manager, outside, life, tar, FlagHasOwner, CollectorsOf,
      Kinds, PcOK, JobOK
<1>6. CASE JoinPoller
  BY <1>6, ThreadsApart, JobsTyped, TypeParts DEF JoinPoller, manager,
      outside, life, tar, FlagHasOwner, CollectorsOf, Kinds, PcOK, JobOK
<1>7. CASE StopServer
  BY <1>7, ThreadsApart, JobsTyped, TypeParts DEF StopServer, Goto, manager,
      outside, tar, FlagHasOwner, CollectorsOf, Kinds, PcOK, JobOK
<1>8. CASE JoinServer
  BY <1>8, ThreadsApart, JobsTyped, TypeParts DEF JoinServer, Goto, manager,
      outside, life, tar, FlagHasOwner, CollectorsOf, Kinds, PcOK, JobOK
<1>9. CASE JoinHandlers
  BY <1>9, ThreadsApart, JobsTyped, TypeParts DEF JoinHandlers, manager,
      outside, life, tar, FlagHasOwner, CollectorsOf, Kinds, PcOK, JobOK
<1>10. CASE JoinCollectors
  BY <1>10, ThreadsApart, JobsTyped, TypeParts DEF JoinCollectors, manager,
      outside, life, tar, FlagHasOwner, CollectorsOf, Kinds, PcOK, JobOK
<1>11. CASE StopAll
  BY <1>11, ThreadsApart, JobsTyped, TypeParts DEF StopAll, StopAllBegins,
      Goto, StopNext, NextStopped, Halt, active, SetSession, StopAllEnds, outside, life, tar,
      FlagHasOwner, CollectorsOf, Kinds, PcOK, JobOK
<1>12. CASE CloseDatabase
  BY <1>12, ThreadsApart, JobsTyped, TypeParts DEF CloseDatabase, Goto,
      manager, outside, tar, FlagHasOwner, CollectorsOf, Kinds, PcOK, JobOK
<1>13. CASE Enter
  BY <1>13, ThreadsApart, JobsTyped, TypeParts DEF Enter, Goto, manager,
      outside, tar, FlagHasOwner, CollectorsOf, Kinds, PcOK, JobOK
<1>14. CASE Sleep
  BY <1>14, ThreadsApart, JobsTyped, TypeParts DEF Sleep, Goto, manager,
      outside, life, tar, FlagHasOwner, CollectorsOf, Kinds, PcOK, JobOK
<1>15. CASE Ids
  BY <1>15, ThreadsApart, JobsTyped, TypeParts DEF Ids, Look, manager, active,
      Goto, outside, life, tar, FlagHasOwner, CollectorsOf, Kinds, PcOK, JobOK
<1>16. ASSUME NEW r \in Relays, QueuePoll(r)  PROVE  FlagHasOwner'
  BY <1>16, ThreadsApart, JobsTyped, TypeParts DEF QueuePoll, Look, manager,
      Goto, outside, life, tar, FlagHasOwner, CollectorsOf, Kinds, PcOK, JobOK
<1>17. CASE ServerExits
  BY <1>17, ThreadsApart, JobsTyped, TypeParts DEF ServerExits, manager,
      outside, tar, FlagHasOwner, CollectorsOf, Kinds, PcOK, JobOK
<1>18. ASSUME NEW h \in Handlers, NEW k \in Requests, NEW r \in Relays, NEW v \in Passwords, Request(h, k, r, v)
      PROVE  FlagHasOwner'
  BY <1>18, RequestEffect, OwnersStay, TypeParts, ThreadsApart DEF AtWork, LoopsOK, Keeps, tar
<1>19. ASSUME NEW h \in Handlers, Persist(h)  PROVE  FlagHasOwner'
  BY <1>19, ThreadsApart, JobsTyped, TypeParts DEF Persist,
      UpdateStoredPassword, Finish, Goto, outside, life, tar, FlagHasOwner,
      CollectorsOf, Kinds, PcOK, JobOK
<1>20. ASSUME NEW h \in Handlers, LookUp(h)  PROVE  FlagHasOwner'
  BY <1>20, ThreadsApart, JobsTyped, TypeParts DEF LookUp, Look, manager,
      active, Job, Goto, Finish, outside, life, tar, FlagHasOwner,
      CollectorsOf, Kinds, PcOK, JobOK
<1>21. ASSUME NEW h \in Handlers, Start(h)  PROVE  FlagHasOwner'
  BY <1>21, ThreadsApart, JobsTyped, TypeParts DEF Start, StartRelay, active,
      SetSession, Goto, outside, life, tar, FlagHasOwner, CollectorsOf, Kinds,
      PcOK, JobOK
<1>22. ASSUME NEW h \in Handlers, Forget(h)  PROVE  FlagHasOwner'
  BY <1>22, ThreadsApart, JobsTyped, TypeParts DEF Forget, ClearFlag, Goto, manager,
      outside, life, FlagHasOwner, CollectorsOf, Kinds, PcOK, JobOK
<1>23. ASSUME NEW h \in Handlers, Stop(h)  PROVE  FlagHasOwner'
  BY <1>23, ThreadsApart, JobsTyped, TypeParts DEF Stop, StopRelay, Halt, active,
      SetSession, Goto, NotActive, manager, Finish, outside, life, tar,
      FlagHasOwner, CollectorsOf, Kinds, PcOK, JobOK
<1>24. ASSUME NEW h \in Handlers, Stopped(h)  PROVE  FlagHasOwner'
  BY <1>24, ThreadsApart, JobsTyped, TypeParts DEF Stopped, RelayStopped,
      SetSession, Finish, Goto, outside, life, tar, FlagHasOwner,
      CollectorsOf, Kinds, PcOK, JobOK
<1>25. ASSUME NEW h \in Handlers, Await(h)  PROVE  FlagHasOwner'
  BY <1>25, ThreadsApart, JobsTyped, TypeParts DEF Await, Finish, Goto,
      manager, outside, life, FlagHasOwner, CollectorsOf, Kinds, PcOK, JobOK
<1>26. ASSUME NEW c \in Collectors, Begin(c)  PROVE  FlagHasOwner'
  BY <1>26, ThreadsApart, JobsTyped, TypeParts DEF Begin, Finish, Goto,
      manager, outside, life, FlagHasOwner, CollectorsOf, Kinds, PcOK, JobOK
<1>27. ASSUME NEW c \in Collectors, Pause(c)  PROVE  FlagHasOwner'
  BY <1>27, ThreadsApart, JobsTyped, TypeParts DEF Pause, Goto, manager,
      outside, life, tar, FlagHasOwner, CollectorsOf, Kinds, PcOK, JobOK
<1>28. ASSUME NEW c \in Collectors, GiveUp(c)  PROVE  FlagHasOwner'
  BY <1>28, ThreadsApart, JobsTyped, TypeParts DEF GiveUp, ClearFlag, Finish, Goto,
      manager, outside, life, FlagHasOwner, CollectorsOf, Kinds, PcOK, JobOK
<1>29. ASSUME NEW t \in Handlers \union Collectors, Want(t)
      PROVE  FlagHasOwner'
  <2>1. job[t].kind \in {"collect", "fetch"} => Keeps(t) /\ pc'[t] \in AtWork
    BY <1>29, WantEffect DEF Kinds, Requests, AtWork
  <2>2. \A u \in (Handlers \union Collectors) \ {t} : Keeps(u) /\ pc'[u] = pc[u]
    BY <1>29, WantEffect, ThreadsApart DEF Keeps
  <2>3. (fetching \ orphaned)' = fetching \ orphaned
    BY <1>29, WantEffect DEF tar
  <2>4. QED
    BY <2>1, <2>2, <2>3, OwnersStay
<1>30. ASSUME NEW t \in Handlers \union Collectors, Run(t)
      PROVE  FlagHasOwner'
  <2>1. job[t].kind \in {"collect", "fetch"} => Keeps(t) /\ pc'[t] \in AtWork
    BY <1>30, RunEffect DEF Kinds, Requests, AtWork
  <2>2. \A u \in (Handlers \union Collectors) \ {t} : Keeps(u) /\ pc'[u] = pc[u]
    BY <1>30, RunEffect, ThreadsApart DEF Keeps
  <2>3. (fetching \ orphaned)' = fetching \ orphaned
    BY <1>30, RunEffect DEF tar
  <2>4. QED
    BY <2>1, <2>2, <2>3, OwnersStay
<1>31. ASSUME NEW t \in Handlers \union Collectors, RunChange(t)
      PROVE  FlagHasOwner'
  BY <1>31, ThreadsApart, JobsTyped, TypeParts DEF RunChange, CommandEnds,
      Goto, Finish, life, tar, FlagHasOwner, CollectorsOf, Kinds, PcOK, JobOK
<1>32. ASSUME NEW t \in Handlers \union Collectors, Store(t)
      PROVE  FlagHasOwner'
  BY <1>32, ThreadsApart, JobsTyped, TypeParts DEF Store, ClearFlag, Finish, Goto,
      manager, outside, life, FlagHasOwner, CollectorsOf, Kinds, PcOK, JobOK
<1>33. ASSUME NEW r \in Relays, Pipeline(r)  PROVE  FlagHasOwner'
  BY <1>33, ThreadsApart, JobsTyped, TypeParts DEF Pipeline, Progress, Mishap, Elsewhere, Kick, Rouse, Connect,
      SetSession, outside, RestartSession, life, tar, FlagHasOwner,
      CollectorsOf, Kinds, PcOK, JobOK
<1>34. CASE Environment
  BY <1>34, ThreadsApart, JobsTyped, TypeParts DEF Environment, Elsewhere, RelaySwitches,
      manager, life, tar, FlagHasOwner, CollectorsOf, Kinds, PcOK, JobOK
<1>35. CASE UNCHANGED vars
  BY <1>35 DEF vars, manager, outside, life, tar, FlagHasOwner, CollectorsOf,
      Kinds, PcOK, JobOK
<1>36. ASSUME NEW h \in Handlers, Throw(h)  PROVE  FlagHasOwner'
  <2>1. /\ pc'[h] = "done" /\ fetching' = fetching
        /\ \A u \in (Handlers \union Collectors) \ {h} : pc'[u] = pc[u] /\ job'[u] = job[u]
    BY <1>36, ThrowEffect, ThreadsApart
  <2>2. SUFFICES ASSUME NEW r \in (fetching \ orphaned)'
                 PROVE  \E u \in Handlers \union Collectors : u \in CollectorsOf(r)'
    BY DEF FlagHasOwner
  <2>3. r \in fetching \ orphaned /\ ~(job[h].kind = "fetch" /\ job[h].relay = r)
    BY <1>36, <2>1, <2>2, ThrowEffect
  <2>4. job[h].kind # "collect"
    BY DEF Kinds, Requests
  <2>5. PICK u \in CollectorsOf(r) : u # h
    BY <2>3, <2>4 DEF FlagHasOwner, CollectorsOf
  <2>6. u \in CollectorsOf(r)'
    BY <2>1, <2>5 DEF CollectorsOf
  <2>7. QED
    BY <2>6 DEF CollectorsOf
<1>37. QED
  BY <1>1, <1>2, <1>3, <1>4, <1>5, <1>6, <1>7, <1>8, <1>9, <1>10, <1>11,
      <1>12, <1>13, <1>14, <1>15, <1>16, <1>17, <1>18, <1>19, <1>20, <1>21,
      <1>22, <1>23, <1>24, <1>25, <1>26, <1>27, <1>28, <1>29, <1>30, <1>31,
      <1>32, <1>33, <1>34, <1>35, <1>36, StepCases

(* What is known of the passwords stays known. *)
LEMMA ChangesStep ==
  ASSUME TypeOK, Kinds, Changes, [Next]_vars
  PROVE  Changes'
<1>1. CASE OpenDatabase
  BY <1>1, ThreadsApart, JobsTyped, TypeParts DEF OpenDatabase, Goto, manager,
      outside, tar, Changes, PasswordKept, Persisting, Kinds, PcOK, JobOK, ManagerTypeOK
<1>2. CASE StartServer
  BY <1>2, ThreadsApart, JobsTyped, TypeParts DEF StartServer, Goto, manager,
      outside, tar, Changes, PasswordKept, Persisting, Kinds, PcOK, JobOK, ManagerTypeOK
<1>3. CASE StartPoller
  BY <1>3, ThreadsApart, JobsTyped, TypeParts DEF StartPoller, manager,
      outside, life, tar, Changes, PasswordKept, Persisting, Kinds, PcOK, JobOK,
      ManagerTypeOK
<1>4. CASE AutoStart
  BY <1>4, ThreadsApart, JobsTyped, TypeParts DEF AutoStart, StartRelay,
      active, SetSession, Job, Goto, manager, outside, life, tar, Changes,
      PasswordKept, Persisting, Kinds, PcOK, JobOK, ManagerTypeOK
<1>5. ASSUME NEW t \in {Main} \union Handlers, Schedule(t)  PROVE  Changes'
  BY <1>5, ThreadsApart, JobsTyped, TypeParts DEF Schedule, Goto, After,
      Spare, Job, manager, outside, life, tar, Changes, PasswordKept, Persisting, Kinds,
      PcOK, JobOK, ManagerTypeOK
<1>6. CASE JoinPoller
  BY <1>6, ThreadsApart, JobsTyped, TypeParts DEF JoinPoller, manager,
      outside, life, tar, Changes, PasswordKept, Persisting, Kinds, PcOK, JobOK,
      ManagerTypeOK
<1>7. CASE StopServer
  BY <1>7, ThreadsApart, JobsTyped, TypeParts DEF StopServer, Goto, manager,
      outside, tar, Changes, PasswordKept, Persisting, Kinds, PcOK, JobOK, ManagerTypeOK
<1>8. CASE JoinServer
  BY <1>8, ThreadsApart, JobsTyped, TypeParts DEF JoinServer, Goto, manager,
      outside, life, tar, Changes, PasswordKept, Persisting, Kinds, PcOK, JobOK,
      ManagerTypeOK
<1>9. CASE JoinHandlers
  BY <1>9, ThreadsApart, JobsTyped, TypeParts DEF JoinHandlers, manager,
      outside, life, tar, Changes, PasswordKept, Persisting, Kinds, PcOK, JobOK,
      ManagerTypeOK
<1>10. CASE JoinCollectors
  <2>1. configs' = configs /\ password' = password /\ unsure' = unsure /\ job' = job
    BY <1>10 DEF JoinCollectors, manager, outside
  <2>2. \A h \in Handlers : pc'[h] = pc[h]
    BY <1>10, ThreadsApart DEF JoinCollectors
  <2>3. Undisturbed
    BY <2>1, <2>2 DEF Undisturbed, Keeps
  <2>4. QED
    BY <2>3, ChangesStay
<1>11. CASE StopAll
  BY <1>11, ThreadsApart, JobsTyped, TypeParts DEF StopAll, StopAllBegins,
      Goto, StopNext, NextStopped, Halt, active, SetSession, StopAllEnds, outside, life, tar,
      Changes, PasswordKept, Persisting, Kinds, PcOK, JobOK, ManagerTypeOK
<1>12. CASE CloseDatabase
  BY <1>12, ThreadsApart, JobsTyped, TypeParts DEF CloseDatabase, Goto,
      manager, outside, tar, Changes, PasswordKept, Persisting, Kinds, PcOK, JobOK,
      ManagerTypeOK
<1>13. CASE Enter
  BY <1>13, ThreadsApart, JobsTyped, TypeParts DEF Enter, Goto, manager,
      outside, tar, Changes, PasswordKept, Persisting, Kinds, PcOK, JobOK, ManagerTypeOK
<1>14. CASE Sleep
  BY <1>14, ThreadsApart, JobsTyped, TypeParts DEF Sleep, Goto, manager,
      outside, life, tar, Changes, PasswordKept, Persisting, Kinds, PcOK, JobOK,
      ManagerTypeOK
<1>15. CASE Ids
  BY <1>15, ThreadsApart, JobsTyped, TypeParts DEF Ids, Look, manager, active,
      Goto, outside, life, tar, Changes, PasswordKept, Persisting, Kinds, PcOK, JobOK,
      ManagerTypeOK
<1>16. ASSUME NEW r \in Relays, QueuePoll(r)  PROVE  Changes'
  BY <1>16, ThreadsApart, JobsTyped, TypeParts DEF QueuePoll, Look, manager,
      Goto, outside, life, tar, Changes, PasswordKept, Persisting, Kinds, PcOK, JobOK,
      ManagerTypeOK
<1>17. CASE ServerExits
  BY <1>17, ThreadsApart, JobsTyped, TypeParts DEF ServerExits, manager,
      outside, tar, Changes, PasswordKept, Persisting, Kinds, PcOK, JobOK, ManagerTypeOK
<1>18. ASSUME NEW h \in Handlers, NEW k \in Requests, NEW r \in Relays, NEW v \in Passwords, Request(h, k, r, v)
      PROVE  Changes'
  <2>1. configs' = configs /\ password' = password /\ unsure' = unsure
    BY <1>18, RequestEffect DEF manager, outside
  <2>2. \A g \in Handlers \ {h} :
          job'[g] = job[g] /\ (pc'[g] = "persist" <=> pc[g] = "persist")
    BY <1>18, RequestEffect, ThreadsApart
  <2>3. pc[h] # "persist" /\ pc'[h] # "persist"
    BY <1>18, RequestEffect DEF Entry
  <2>4. Undisturbed
    BY <2>1, <2>2, <2>3 DEF Undisturbed, Keeps
  <2>5. QED
    BY <2>4, ChangesStay
<1>19. ASSUME NEW h \in Handlers, Persist(h)  PROVE  Changes'
  <2>1. /\ pc[h] = "persist" /\ UNCHANGED <<password, unsure>>
        /\ configs' = [configs EXCEPT ![job[h].relay] = job[h].value] /\ Finish(h)
    BY <1>19 DEF Persist, UpdateStoredPassword, outside
  <2>2. pc'[h] = "done" /\ \A g \in Handlers \ {h} : pc'[g] = pc[g] /\ job'[g] = job[g]
    BY <2>1, FinishTyped, TypeParts, ThreadsApart
  <2>3. job[h].relay \notin unsure => password[job[h].relay] = job[h].value
    BY <2>1 DEF Changes
  <2>4. \A r \in Relays \ {job[h].relay} : configs'[r] = configs[r]
    BY <2>1, TypeParts DEF ManagerTypeOK
  <2>5. job[h].relay \in Relays => configs'[job[h].relay] = job[h].value
    BY <2>1, TypeParts DEF ManagerTypeOK
  <2>6. \A r \in Relays \ {job[h].relay} : Persisting(r)' = Persisting(r)
    BY <2>1, <2>2 DEF Persisting
  <2>7. PasswordKept'
    <3>1. SUFFICES ASSUME NEW r \in Relays \ unsure, Persisting(r)' = {}
                   PROVE  configs'[r] = password[r]
      BY <2>1 DEF PasswordKept
    <3>2. CASE r = job[h].relay
      BY <2>3, <2>5, <3>1, <3>2
    <3>3. CASE r # job[h].relay
      BY <2>4, <2>6, <3>1, <3>3 DEF Changes, PasswordKept
    <3>4. QED
      BY <3>2, <3>3
  <2>8. QED
    BY <2>1, <2>2, <2>7 DEF Changes
<1>20. ASSUME NEW h \in Handlers, LookUp(h)  PROVE  Changes'
  BY <1>20, ThreadsApart, JobsTyped, TypeParts DEF LookUp, Look, manager,
      active, Job, Goto, Finish, outside, life, tar, Changes, PasswordKept, Persisting,
      Kinds, PcOK, JobOK, ManagerTypeOK
<1>21. ASSUME NEW h \in Handlers, Start(h)  PROVE  Changes'
  BY <1>21, ThreadsApart, JobsTyped, TypeParts DEF Start, StartRelay, active,
      SetSession, Goto, outside, life, tar, Changes, PasswordKept, Persisting, Kinds,
      PcOK, JobOK, ManagerTypeOK
<1>22. ASSUME NEW h \in Handlers, Forget(h)  PROVE  Changes'
  BY <1>22, ThreadsApart, JobsTyped, TypeParts DEF Forget, ClearFlag, Goto, manager,
      outside, life, Changes, PasswordKept, Persisting, Kinds, PcOK, JobOK, ManagerTypeOK
<1>23. ASSUME NEW h \in Handlers, Stop(h)  PROVE  Changes'
  <2>1. configs' = configs /\ password' = password /\ unsure' = unsure /\ pc[h] # "persist"
    BY <1>23 DEF Stop, manager, outside, StopRelay, Halt, NotActive
  <2>2. Finish(h) \/ (Goto(h, "stopping") /\ job' = job)
    BY <1>23 DEF Stop, Finish, Goto
  <2>3. /\ pc'[h] # "persist" /\ job'[h] \in {job[h], NoJob}
        /\ \A u \in Threads \ {h} : pc'[u] = pc[u] /\ job'[u] = job[u]
    BY <2>2, ThreadsApart, TypeParts DEF Finish, Goto, PcOK, JobOK
  <2>4. Undisturbed
    BY <2>1, <2>3, ThreadsApart, JobsTyped DEF Undisturbed, Keeps
  <2>5. QED
    BY <2>4, ChangesStay
<1>24. ASSUME NEW h \in Handlers, Stopped(h)  PROVE  Changes'
  BY <1>24, ThreadsApart, JobsTyped, TypeParts DEF Stopped, RelayStopped,
      SetSession, Finish, Goto, outside, life, tar, Changes, PasswordKept, Persisting,
      Kinds, PcOK, JobOK, ManagerTypeOK
<1>25. ASSUME NEW h \in Handlers, Await(h)  PROVE  Changes'
  <2>1. configs' = configs /\ password' = password /\ unsure' = unsure /\ pc[h] # "persist"
    BY <1>25 DEF Await, manager, outside
  <2>2. Finish(h) \/ ((Goto(h, "want") \/ Goto(h, "store")) /\ job' = job)
    BY <1>25 DEF Await, Finish, Goto
  <2>3. /\ pc'[h] # "persist" /\ job'[h] \in {job[h], NoJob}
        /\ \A u \in Threads \ {h} : pc'[u] = pc[u] /\ job'[u] = job[u]
    BY <2>2, ThreadsApart, TypeParts DEF Finish, Goto, PcOK, JobOK
  <2>4. Undisturbed
    BY <2>1, <2>3, ThreadsApart, JobsTyped DEF Undisturbed, Keeps
  <2>5. QED
    BY <2>4, ChangesStay
<1>26. ASSUME NEW c \in Collectors, Begin(c)  PROVE  Changes'
  <2>1. configs' = configs /\ password' = password /\ unsure' = unsure /\ pc[c] # "persist"
    BY <1>26 DEF Begin, manager, outside
  <2>2. Finish(c) \/ ((Goto(c, "want") \/ Goto(c, "giveup")) /\ job' = job)
    BY <1>26 DEF Begin, Finish, Goto
  <2>3. /\ pc'[c] # "persist" /\ job'[c] \in {job[c], NoJob}
        /\ \A u \in Threads \ {c} : pc'[u] = pc[u] /\ job'[u] = job[u]
    BY <2>2, ThreadsApart, TypeParts DEF Finish, Goto, PcOK, JobOK
  <2>4. Undisturbed
    BY <2>1, <2>3, ThreadsApart, JobsTyped DEF Undisturbed, Keeps
  <2>5. QED
    BY <2>4, ChangesStay
<1>27. ASSUME NEW c \in Collectors, Pause(c)  PROVE  Changes'
  BY <1>27, ThreadsApart, JobsTyped, TypeParts DEF Pause, Goto, manager,
      outside, life, tar, Changes, PasswordKept, Persisting, Kinds, PcOK, JobOK,
      ManagerTypeOK
<1>28. ASSUME NEW c \in Collectors, GiveUp(c)  PROVE  Changes'
  BY <1>28, ThreadsApart, JobsTyped, TypeParts DEF GiveUp, ClearFlag, Finish, Goto,
      manager, outside, life, Changes, PasswordKept, Persisting, Kinds, PcOK, JobOK,
      ManagerTypeOK
<1>29. ASSUME NEW t \in Handlers \union Collectors, Want(t)  PROVE  Changes'
  <2>1. configs' = configs /\ password' = password /\ unsure' = unsure /\ pc[t] # "persist"
    BY <1>29, WantEffect DEF outside
  <2>2. pc'[t] # "persist" /\ \A u \in Threads \ {t} : pc'[u] = pc[u] /\ job'[u] = job[u]
    BY <1>29, WantEffect
  <2>3. Undisturbed
    BY <2>1, <2>2, ThreadsApart DEF Undisturbed, Keeps
  <2>4. QED
    BY <2>3, ChangesStay
<1>30. ASSUME NEW t \in Handlers \union Collectors, Run(t)  PROVE  Changes'
  <2>1. configs' = configs /\ password' = password /\ unsure' = unsure /\ pc[t] # "persist"
    BY <1>30, RunEffect DEF outside
  <2>2. pc'[t] # "persist" /\ \A u \in Threads \ {t} : pc'[u] = pc[u] /\ job'[u] = job[u]
    BY <1>30, RunEffect
  <2>3. Undisturbed
    BY <2>1, <2>2, ThreadsApart DEF Undisturbed, Keeps
  <2>4. QED
    BY <2>3, ChangesStay
<1>31. ASSUME NEW t \in Handlers \union Collectors, RunChange(t)
      PROVE  Changes'
  <2>0. PICK r \in Relays : r = job[t].relay
    BY TypeParts, ThreadsApart DEF JobOK, Jobs
  <2>1. /\ t \in Handlers /\ pc[t] = "run" /\ UNCHANGED configs
        /\ \A u \in Handlers \ {t} : pc'[u] = pc[u] /\ job'[u] = job[u]
    BY <1>31, RunChangeEffect, ThreadsApart
  <2>2. /\ r \in Relays /\ password \in [Relays -> Passwords]
        /\ \A u \in Handlers : job[u].relay \in Relays
    BY <2>1, TypeParts, ThreadsApart DEF JobOK, Jobs, ManagerTypeOK
  <2>3. CASE /\ pc'[t] = "persist" /\ job'[t] = job[t]
             /\ password' = [password EXCEPT ![r] = job[t].value]
             /\ unsure' = IF Persisting(r) = {} THEN unsure \ {r} ELSE unsure \union {r}
    <3>1. password'[r] = job[t].value /\ \A s \in Relays \ {r} : password'[s] = password[s]
      BY <2>2, <2>3
    <3>2. t \in Persisting(r)' /\ \A s \in Relays \ {r} : Persisting(s)' = Persisting(s)
      BY <2>0, <2>1, <2>3 DEF Persisting
    <3>3. r \notin unsure' => \A u \in Handlers : pc[u] = "persist" => job[u].relay # r
      BY <2>3 DEF Persisting
    <3>4. \A s \in Relays \ {r} : (s \in unsure') <=> (s \in unsure)
      BY <2>3
    <3>5. PasswordKept'
      <4>1. SUFFICES ASSUME NEW s \in Relays \ unsure', Persisting(s)' = {}
                     PROVE  configs[s] = password'[s]
        BY <2>1 DEF PasswordKept
      <4>2. s # r
        BY <3>2, <4>1
      <4>3. Persisting(s) = {} /\ s \notin unsure
        BY <3>2, <3>4, <4>1, <4>2
      <4>4. configs[s] = password[s]
        BY <4>3 DEF Changes, PasswordKept
      <4>5. QED
        BY <3>1, <4>2, <4>4
    <3>6. \A u \in Handlers : pc'[u] = "persist" /\ job'[u].relay \notin unsure'
                               => password'[job'[u].relay] = job'[u].value
      BY <2>0, <2>1, <2>2, <2>3, <3>1, <3>3, <3>4 DEF Changes
    <3>7. \A g, u \in Handlers :
            /\ pc'[g] = "persist" /\ pc'[u] = "persist"
            /\ job'[g].relay = job'[u].relay /\ job'[g].relay \notin unsure'
            => g = u
      BY <2>0, <2>1, <2>2, <2>3, <3>3, <3>4 DEF Changes
    <3>8. QED
      BY <3>5, <3>6, <3>7 DEF Changes
  <2>4. CASE pc'[t] = "done" /\ UNCHANGED <<password, unsure>>
    <3>1. Undisturbed
      BY <2>1, <2>4 DEF Undisturbed, Keeps
    <3>2. QED
      BY <3>1, ChangesStay
  <2>5. CASE /\ pc'[t] = "done" /\ password' = [password EXCEPT ![r] = job[t].value]
             /\ unsure' = unsure \union {r}
    <3>1. \A s \in Relays \ {r} : password'[s] = password[s]
      BY <2>2, <2>5
    <3>2. \A s \in Relays : Persisting(s)' = Persisting(s)
      BY <2>1, <2>5 DEF Persisting
    <3>3. PasswordKept'
      BY <2>1, <2>5, <3>1, <3>2 DEF Changes, PasswordKept
    <3>4. \A u \in Handlers : pc'[u] = "persist" /\ job'[u].relay \notin unsure'
                               => password'[job'[u].relay] = job'[u].value
      BY <2>1, <2>2, <2>5, <3>1 DEF Changes
    <3>5. \A g, u \in Handlers :
            /\ pc'[g] = "persist" /\ pc'[u] = "persist"
            /\ job'[g].relay = job'[u].relay /\ job'[g].relay \notin unsure'
            => g = u
      BY <2>1, <2>5 DEF Changes
    <3>6. QED
      BY <3>3, <3>4, <3>5 DEF Changes
  <2>6. QED
    BY <1>31, <2>0, <2>3, <2>4, <2>5, RunChangeEffect
<1>32. ASSUME NEW t \in Handlers \union Collectors, Store(t)  PROVE  Changes'
  <2>1. configs' = configs /\ password' = password /\ unsure' = unsure /\ pc[t] # "persist"
    BY <1>32 DEF Store, ClearFlag, manager, outside
  <2>2. Finish(t)
    BY <1>32 DEF Store, ClearFlag, Finish, Goto
  <2>3. /\ pc'[t] # "persist" /\ job'[t] \in {job[t], NoJob}
        /\ \A u \in Threads \ {t} : pc'[u] = pc[u] /\ job'[u] = job[u]
    BY <2>2, ThreadsApart, TypeParts DEF Finish, Goto, PcOK, JobOK
  <2>4. Undisturbed
    BY <2>1, <2>3, ThreadsApart, JobsTyped DEF Undisturbed, Keeps
  <2>5. QED
    BY <2>4, ChangesStay
<1>33. ASSUME NEW r \in Relays, Pipeline(r)  PROVE  Changes'
  BY <1>33, ThreadsApart, JobsTyped, TypeParts DEF Pipeline, Progress, Mishap, Elsewhere, Kick, Rouse, Connect,
      SetSession, outside, RestartSession, life, tar, Changes, PasswordKept, Persisting,
      Kinds, PcOK, JobOK, ManagerTypeOK
<1>34. CASE Environment
  BY <1>34, ThreadsApart, JobsTyped, TypeParts DEF Environment, Elsewhere, RelaySwitches,
      manager, life, tar, Changes, PasswordKept, Persisting, Kinds, PcOK, JobOK,
      ManagerTypeOK
<1>35. CASE UNCHANGED vars
  BY <1>35 DEF vars, manager, outside, life, tar, Changes, PasswordKept, Persisting,
      Kinds, PcOK, JobOK, ManagerTypeOK
<1>36. ASSUME NEW h \in Handlers, Throw(h)  PROVE  Changes'
  <2>1. /\ pc'[h] = "done" /\ UNCHANGED <<configs, password>> /\ unsure \subseteq unsure'
        /\ \A u \in Handlers \ {h} : pc'[u] = pc[u] /\ job'[u] = job[u]
        /\ pc[h] = "persist" => job[h].relay \in unsure'
    BY <1>36, ThrowEffect, ThreadsApart
  <2>2. \A r \in Relays \ unsure' : Persisting(r)' = Persisting(r)
    BY <2>1 DEF Persisting
  <2>3. PasswordKept'
    BY <2>1, <2>2 DEF Changes, PasswordKept
  <2>4. QED
    BY <2>1, <2>3 DEF Changes
<1>37. QED
  BY <1>1, <1>2, <1>3, <1>4, <1>5, <1>6, <1>7, <1>8, <1>9, <1>10, <1>11,
      <1>12, <1>13, <1>14, <1>15, <1>16, <1>17, <1>18, <1>19, <1>20, <1>21,
      <1>22, <1>23, <1>24, <1>25, <1>26, <1>27, <1>28, <1>29, <1>30, <1>31,
      <1>32, <1>33, <1>34, <1>35, <1>36, StepCases

-----------------------------------------------------------------------------
(* The inductive invariant *)

IInv == TypeOK /\ Kinds /\ Locks /\ Order /\ FlagHasOwner

(* It holds when the application starts, ... *)
LEMMA InitHolds ==
  ASSUME Init
  PROVE  IInv /\ Changes
<1>1. password \in [Relays -> Passwords] /\ \A r \in Relays : configs[r] = password[r]
  BY JobsTyped DEF Init, ManagerInit
<1>2. ManagerTypeOK(Threads)
  BY <1>1, JobsTyped DEF Init, ManagerInit, ManagerTypeOK, Sessions
<1>3. /\ pc[Main] = "open"
      /\ \A t \in Threads \ {Main} : pc[t] = "idle"
      /\ pc \in [Threads -> {"open", "idle"}]
  BY ThreadsApart DEF Init
<1>4. PcOK
  BY <1>3, ThreadsApart DEF PcOK, MainPCs, PollerPCs, HandlerPCs, CollectorPCs
<1>5. JobOK /\ \A t \in Threads : job[t] = NoJob
  BY JobsTyped DEF Init, JobOK
<1>6. LifeOK /\ LoopsOK
  <2>1. LifeOK
    BY DEF Init, LifeOK
  <2>2. todo \in [{Main, Poller} -> SUBSET Relays]
    BY DEF Init
  <2>3. requests \in 0 .. MaxRequests
    BY AppAssumption DEF Init
  <2>4. cached \in SUBSET Relays /\ fetching \in SUBSET Relays /\ orphaned \in SUBSET Relays
    BY DEF Init
  <2>5. QED
    BY <2>1, <2>2, <2>3, <2>4 DEF LoopsOK
<1>7. TypeOK
  BY <1>2, <1>4, <1>5, <1>6, TypeParts
<1>8. Kinds
  BY <1>3, <1>5, ThreadsApart, JobsTyped DEF Kinds
<1>9. \A r \in Relays : session[r] = "off"
  BY DEF Init, ManagerInit
<1>10. Locks
  BY <1>3, <1>9 DEF Locks, PipelineOutlivesCommand
<1>11. Order
  BY <1>3, <1>9, ThreadsApart
  DEF Order, Init, active, Fresh, Ended, NoCollector, NoHandler, NoServer, NoPoller
<1>12. FlagHasOwner
  BY DEF Init, FlagHasOwner
<1>13. Changes
  BY <1>1, <1>3, ThreadsApart DEF Changes, PasswordKept
<1>14. QED
  BY <1>7, <1>8, <1>10, <1>11, <1>12, <1>13 DEF IInv

(* ... and every step keeps it. *)
LEMMA StepHolds ==
  ASSUME IInv, [Next]_vars
  PROVE  IInv'
BY TypeStep, KindsStep, LocksStep, OrderStep, OwnerStep DEF IInv

(* The application never leaves it. *)
THEOREM Invariance == Spec => []IInv
<1>1. Init => IInv
  BY InitHolds
<1>2. IInv /\ [Next]_vars => IInv'
  BY StepHolds
<1>3. QED
  BY <1>1, <1>2, PTL DEF Spec

-----------------------------------------------------------------------------
(* The theorems *)

(* TypeOK, in every state the application can get to. *)
THEOREM AppTypeCorrect == Spec => []TypeOK
<1>1. IInv => TypeOK
  BY DEF IInv
<1>2. QED
  BY <1>1, Invariance, PTL

(* Who has references, by where the main thread is. *)
UsersAt ==
  /\ DbOutlivesUsers
  /\ pc[Main] \in {"open", "listen", "close", "exited"} => UsersOf = {}
  /\ UsersOf \subseteq Threads \union Relays \union {Server}

(* The order of start() and stop() says who can still be there. *)
LEMMA Users ==
  ASSUME TypeOK, Order
  PROVE  UsersAt
<1>1. pc[Main] \in Fresh \union Ended =>
        /\ \A t \in Threads \ {Main} : pc[t] = "idle"
        /\ server \in {"off", "ended"} /\ active = {}
  BY DEF Order, Fresh, Ended, NoCollector, NoHandler, NoServer, NoPoller, Threads
<1>2. pc[Main] \in Fresh \union Ended => UsersOf = {}
  BY <1>1 DEF UsersOf, Busy
<1>3. dbOpen <=> pc[Main] \notin {"open", "exited"}
  BY DEF Order
<1>4. DbOutlivesUsers
  BY <1>2, <1>3 DEF DbOutlivesUsers, Fresh, Ended
<1>5. UsersOf \subseteq Threads \union Relays \union {Server}
  BY DEF UsersOf, Busy, active
<1>6. QED
  BY <1>2, <1>4, <1>5 DEF UsersAt, Fresh, Ended

(* The database closes after the last thread and pipeline that uses it,    *)
(* whatever was in flight when stop() began.                               *)
THEOREM DbOutlives == Spec => []DbOutlivesUsers
<1>1. IInv => DbOutlivesUsers
  BY Users DEF IInv, UsersAt
<1>2. QED
  BY <1>1, Invariance, PTL

(* No pipeline is destroyed under a command: every command runs under      *)
(* mutex_, in a pipeline that is there.                                    *)
THEOREM CommandsInPipelines == Spec => []PipelineOutlivesCommand
<1>1. IInv => PipelineOutlivesCommand
  BY DEF IInv, Locks
<1>2. QED
  BY <1>1, Invariance, PTL

(* tarFetchInProgress_ is never left behind by collections, fetches and    *)
(* stops that overlap: by an exception in a fetch, and by nothing else.    *)
THEOREM FlagsOwned == Spec => []FlagHasOwner
<1>1. IInv => FlagHasOwner
  BY DEF IInv
<1>2. QED
  BY <1>1, Invariance, PTL

(* What updateStoredPassword() keeps is what the relay took, for any       *)
(* number of relays and changes that overlap, are refused, lost or ended   *)
(* by exceptions, for every relay whose last change was stored after all   *)
(* of them.                                                                *)
THEOREM PasswordsKept == Spec => []PasswordKept
<1>1. Init => IInv /\ Changes
  BY InitHolds
<1>2. (IInv /\ Changes) /\ [Next]_vars => (IInv /\ Changes)'
  BY StepHolds, ChangesStep DEF IInv
<1>3. IInv /\ Changes => PasswordKept
  BY DEF Changes
<1>4. QED
  BY <1>1, <1>2, <1>3, PTL DEF Spec

(* A step that opens or closes the database is the main thread's. *)
LEMMA DbStep ==
  ASSUME TypeOK, [Next]_vars
  PROVE  \/ UNCHANGED dbOpen
         \/ pc[Main] = "open" /\ pc'[Main] = "listen"
         \/ pc[Main] \in {"listen", "close"} /\ pc'[Main] = "exited"
<1>1. CASE OpenDatabase
  BY <1>1, TypeParts, ThreadsApart DEF OpenDatabase, Goto, PcOK
<1>2. CASE StartServer
  BY <1>2, TypeParts, ThreadsApart DEF StartServer, Goto, PcOK
<1>3. CASE CloseDatabase
  BY <1>3, TypeParts, ThreadsApart DEF CloseDatabase, Goto, PcOK
<1>4. CASE MainStep /\ ~(OpenDatabase \/ StartServer \/ CloseDatabase)
  BY <1>4
  DEF MainStep, StartPoller, AutoStart, Schedule, JoinPoller, StopServer, JoinServer,
      JoinHandlers, JoinCollectors, StopAll, life
<1>5. CASE \E h \in Handlers : Handle(h) \/ Throw(h)
  BY <1>5
  DEF Handle, Persist, LookUp, Start, Schedule, Forget, Stop, Stopped, Await, Throw, life
<1>6. CASE \/ \E c \in Collectors : Collect(c)
           \/ \E t \in Handlers \union Collectors : Command(t)
  BY <1>6 DEF Collect, Begin, Pause, GiveUp, Command, Want, Run, RunChange, Store, life
<1>7. CASE \/ Enter \/ Poll \/ ServerExits
           \/ \E r \in Relays : Pipeline(r)
           \/ Environment
           \/ UNCHANGED vars
  BY <1>7
  DEF Enter, Poll, Sleep, Ids, QueuePoll, ServerExits, Pipeline, Progress, Mishap, Elsewhere,
      Environment, vars, life
<1>8. CASE \E h \in Handlers, k \in Requests, r \in Relays, v \in Passwords :
             Request(h, k, r, v)
  BY <1>8 DEF Request, life
<1>9. QED
  BY <1>1, <1>2, <1>3, <1>4, <1>5, <1>6, <1>7, <1>8 DEF Next, MainStep, Pipeline

(* The application, all of it, implements the abstract life of a resource  *)
(* that is open for as long as it has users.                               *)
THEOREM AppImplementsLifetime == Spec => ImplementsLifetime
<1>1. Init => Lifetime!Init
  <2>1. SUFFICES ASSUME Init
                 PROVE  dbOpen = FALSE /\ UsersOf = {}
    BY DEF Lifetime!Init
  <2>2. TypeOK /\ Order
    BY <2>1, InitHolds DEF IInv
  <2>3. pc[Main] = "open"
    BY <2>1, ThreadsApart DEF Init
  <2>4. dbOpen = FALSE
    BY <2>1 DEF Init
  <2>5. QED
    BY <2>2, <2>3, <2>4, Users DEF UsersAt
<1>2. IInv /\ IInv' /\ UsersAt /\ UsersAt' /\ [Next]_vars => [Lifetime!Next]_<<dbOpen, UsersOf>>
  <2>1. SUFFICES ASSUME IInv, IInv', UsersAt, UsersAt', [Next]_vars
                 PROVE  [Lifetime!Next]_<<dbOpen, UsersOf>>
    OBVIOUS
  <2>2. dbOpen \in BOOLEAN /\ dbOpen' \in BOOLEAN
    BY <2>1 DEF IInv, TypeOK
  <2>3. /\ DbOutlivesUsers
        /\ pc[Main] \in {"open", "listen", "close", "exited"} => UsersOf = {}
    BY <2>1 DEF UsersAt
  <2>4. /\ DbOutlivesUsers'
        /\ pc'[Main] \in {"open", "listen", "close", "exited"} => UsersOf' = {}
        /\ UsersOf' \subseteq Threads \union Relays \union {Server}
    BY <2>1 DEF UsersAt
  <2>5. \/ UNCHANGED dbOpen
        \/ pc[Main] = "open" /\ pc'[Main] = "listen"
        \/ pc[Main] \in {"listen", "close"} /\ pc'[Main] = "exited"
    BY <2>1, DbStep DEF IInv
  <2>6. CASE dbOpen /\ dbOpen'
    BY <2>4, <2>6 DEF Lifetime!Next, Lifetime!Use
  <2>7. CASE ~dbOpen /\ ~dbOpen'
    BY <2>2, <2>3, <2>4, <2>7 DEF DbOutlivesUsers
  <2>8. CASE ~dbOpen /\ dbOpen'
    <3>1. pc[Main] \notin {"listen", "close"}
      BY <2>1, <2>8 DEF IInv, Order
    <3>2. UsersOf = {} /\ UsersOf' = {}
      BY <2>3, <2>4, <2>5, <2>8, <3>1
    <3>3. QED
      BY <2>2, <2>8, <3>2 DEF Lifetime!Next, Lifetime!Open
  <2>9. CASE dbOpen /\ ~dbOpen'
    <3>1. pc[Main] # "open"
      BY <2>1, <2>9 DEF IInv, Order
    <3>2. UsersOf = {} /\ UsersOf' = {}
      BY <2>3, <2>4, <2>5, <2>9, <3>1
    <3>3. QED
      BY <2>2, <2>9, <3>2 DEF Lifetime!Next, Lifetime!Close
  <2>10. QED
    BY <2>2, <2>6, <2>7, <2>8, <2>9
<1>3. IInv => UsersAt
  BY Users DEF IInv
<1>4. QED
  BY <1>1, <1>2, <1>3, Invariance, PTL DEF Spec, ImplementsLifetime, Lifetime!Spec

-----------------------------------------------------------------------------
(* Who holds mutex_ *)

(* The places where a thread can hold it. *)
Inside == {"run", "stopping"}

(* Threads inside the manager are left alone by the others' steps. *)
InsideKept ==
  \A u \in Threads : pc[u] \in Inside => pc'[u] = pc[u] /\ job'[u] = job[u]

(* The holder is at such a place. *)
LEMMA HolderInside ==
  ASSUME HolderWaitsForPipeline, mutex # Nobody
  PROVE  pc[mutex] \in Inside
BY DEF HolderWaitsForPipeline, Inside

(* A free mutex is held by nobody. *)
LEMMA HolderNone ==
  ASSUME mutex' = Nobody
  PROVE  HolderWaitsForPipeline'
BY DEF HolderWaitsForPipeline

(* Another thread's step leaves the holder where it is; while stop() holds *)
(* mutex_ there is no other thread.                                        *)
LEMMA HolderElsewhere ==
  ASSUME TypeOK, HolderWaitsForPipeline, UNCHANGED <<session, mutex>>,
         NEW t \in Threads, pc[t] \notin Inside \union {"idle"}, InsideKept
  PROVE  HolderWaitsForPipeline'
<1>1. CASE mutex = Nobody
  BY <1>1, HolderNone
<1>2. CASE mutex # Nobody
  <2>1. mutex \in Threads /\ pc[mutex] \in Inside
    BY <1>2, HolderInside, TypeParts DEF ManagerTypeOK
  <2>2. pc'[mutex] = pc[mutex] /\ job'[mutex] = job[mutex]
    BY <2>1 DEF InsideKept
  <2>3. ~(mutex = Main /\ \A u \in Threads \ {Main} : pc[u] = "idle")
    BY <2>1
  <2>4. QED
    BY <1>2, <2>2, <2>3 DEF HolderWaitsForPipeline
<1>3. QED
  BY <1>1, <1>2

(* Who gets the mutex waits for a pipeline; who holds it is left alone. *)
LEMMA HolderStep ==
  ASSUME TypeOK, Kinds, Locks, Order, HolderWaitsForPipeline, [Next]_vars
  PROVE  HolderWaitsForPipeline'
<1>. PcOK /\ JobOK
  BY TypeParts
<1>. /\ Main \in Threads /\ Poller \in Threads /\ Main # Poller
     /\ Handlers \subseteq Threads /\ Collectors \subseteq Threads
     /\ pc[Poller] \notin Inside
  BY ThreadsApart DEF PcOK, PollerPCs, Inside
<1>1. ASSUME UNCHANGED manager, NEW t \in Threads, pc[t] \notin Inside \union {"idle"},
             \A u \in Threads : pc[u] \in Inside => pc'[u] = pc[u] /\ job'[u] = job[u]
      PROVE  HolderWaitsForPipeline'
  BY <1>1, HolderElsewhere DEF InsideKept, manager
<1>2. CASE OpenDatabase \/ StartServer \/ StartPoller
  BY <1>1, <1>2 DEF OpenDatabase, StartServer, StartPoller, Goto, manager, Inside, PcOK
<1>3. CASE AutoStart
  BY <1>1, <1>3, HolderNone DEF AutoStart, StartRelay, Goto, manager, Inside, PcOK
<1>4. ASSUME NEW t \in {Main} \union Handlers, Schedule(t)  PROVE  HolderWaitsForPipeline'
  <2>1. \A u \in Threads : pc[u] \in Inside => pc'[u] = pc[u] /\ job'[u] = job[u]
    BY <1>4, ScheduleEffect, ThreadsApart DEF Inside
  <2>2. QED
    BY <1>1, <1>4, <2>1, ScheduleEffect DEF Inside
<1>5. CASE JoinPoller \/ StopServer \/ JoinServer
  BY <1>1, <1>5 DEF JoinPoller, StopServer, JoinServer, Goto, Inside, PcOK
<1>6. CASE JoinHandlers \/ JoinCollectors
  BY <1>1, <1>6, ThreadsApart DEF JoinHandlers, JoinCollectors, Inside, PcOK
<1>7. CASE StopAll
  <2>1. CASE pc[Main] = "stop_all" /\ StopAllBegins(Main) /\ Goto(Main, "stopping")
    <3>1. \A t \in Threads \ {Main} : pc[t] = "idle"
      BY <2>1 DEF Order, NoCollector, NoHandler, NoServer, NoPoller, Threads
    <3>2. QED
      BY <2>1, <3>1 DEF StopAllBegins, Goto, PcOK, HolderWaitsForPipeline
  <2>2. CASE pc[Main] = "stopping" /\ (StopNext(Main) \/ NextStopped(Main)) /\ UNCHANGED pc
    BY <2>2, ThreadsApart DEF StopNext, NextStopped, Halt, HolderWaitsForPipeline
  <2>3. CASE pc[Main] = "stopping" /\ StopAllEnds(Main) /\ Goto(Main, "close")
    BY <2>3, HolderNone DEF StopAllEnds
  <2>4. QED
    BY <1>7, <2>1, <2>2, <2>3 DEF StopAll
<1>8. CASE CloseDatabase \/ Enter
  BY <1>1, <1>8 DEF CloseDatabase, Enter, Goto, Inside, PcOK
<1>9. CASE Sleep
  BY <1>1, <1>9 DEF Sleep, Goto, Inside, PcOK
<1>10. CASE Ids \/ \E r \in Relays : QueuePoll(r)
  BY <1>10, HolderNone DEF Ids, QueuePoll, Look, manager
<1>11. CASE ServerExits
  <2>1. pc[Main] \notin NoCollector
    BY <1>11 DEF ServerExits, Order, NoServer, NoHandler
  <2>2. UNCHANGED <<manager, pc, job>> /\ pc[Main] # "stopping"
    BY <1>11, <2>1 DEF ServerExits, NoCollector
  <2>3. QED
    BY <2>2 DEF HolderWaitsForPipeline, manager
<1>12. ASSUME NEW h \in Handlers, NEW k \in Requests, NEW r \in Relays, NEW v \in Passwords,
              Request(h, k, r, v)
       PROVE  HolderWaitsForPipeline'
  <2>1. server \in {"up", "stopping"} /\ UNCHANGED manager
    BY <1>12, RequestEffect
  <2>2. pc[Main] \notin Inside \union {"idle"}
    BY <2>1 DEF Order, NoServer, NoHandler, NoCollector, Inside, PcOK, MainPCs
  <2>3. \A u \in Threads : pc[u] \in Inside => pc'[u] = pc[u] /\ job'[u] = job[u]
    BY <1>12, RequestEffect DEF Inside
  <2>4. QED
    BY <1>1, <2>1, <2>2, <2>3
<1>13. ASSUME NEW h \in Handlers, Persist(h) \/ LookUp(h) \/ Start(h)
       PROVE  HolderWaitsForPipeline'
  BY <1>13, HolderNone DEF Persist, LookUp, Start, UpdateStoredPassword, Look, StartRelay, manager
<1>14. ASSUME NEW h \in Handlers, Forget(h) \/ Await(h)  PROVE  HolderWaitsForPipeline'
  BY <1>1, <1>14 DEF Forget, ClearFlag, Await, Finish, Goto, Inside, PcOK, JobOK
<1>15. ASSUME NEW h \in Handlers, Stop(h)  PROVE  HolderWaitsForPipeline'
  <2>1. CASE StopRelay(h, job[h].relay) /\ Goto(h, "stopping") /\ UNCHANGED job
    <3>1. mutex' = h /\ pc'[h] = "stopping" /\ job'[h] = job[h]
      BY <2>1 DEF StopRelay, Halt, Goto, PcOK
    <3>2. session'[job[h].relay] \in {"stopping", "deaf"}
      BY <2>1, TypeParts DEF StopRelay, Halt, SetSession, active, ManagerTypeOK
    <3>3. QED
      BY <3>1, <3>2 DEF HolderWaitsForPipeline
  <2>2. CASE NotActive(job[h].relay)
    BY <2>2, HolderNone DEF NotActive, manager
  <2>3. QED
    BY <1>15, <2>1, <2>2 DEF Stop
<1>16. ASSUME NEW h \in Handlers, Stopped(h)  PROVE  HolderWaitsForPipeline'
  BY <1>16, HolderNone DEF Stopped, RelayStopped
<1>17. ASSUME NEW c \in Collectors, Begin(c) \/ Pause(c) \/ GiveUp(c)
       PROVE  HolderWaitsForPipeline'
  BY <1>1, <1>17 DEF Begin, Pause, GiveUp, Finish, Goto, Inside, PcOK, JobOK
<1>18. ASSUME NEW t \in Handlers \union Collectors, Want(t)  PROVE  HolderWaitsForPipeline'
  <2>1. CASE mutex' = Nobody
    BY <2>1, HolderNone
  <2>2. CASE mutex' # Nobody
    <3>1. pc'[t] = "run" /\ mutex' = t
      BY <1>18, <2>2, WantEffect
    <3>2. Locks'
      BY <1>18, LocksStep DEF Next, Command
    <3>3. session'[job'[t].relay] \in {"held", "connecting", "operational"}
      BY <3>1, <3>2, ThreadsApart DEF Locks, PipelineOutlivesCommand
    <3>4. t # Main
      BY ThreadsApart
    <3>5. QED
      BY <3>1, <3>3, <3>4 DEF HolderWaitsForPipeline
  <2>3. QED
    BY <2>1, <2>2
<1>19. ASSUME NEW t \in Handlers \union Collectors, Run(t) \/ RunChange(t)
       PROVE  HolderWaitsForPipeline'
  BY <1>19, HolderNone DEF Run, RunChange, CommandEnds
<1>20. ASSUME NEW t \in Handlers \union Collectors, Store(t)  PROVE  HolderWaitsForPipeline'
  BY <1>1, <1>20 DEF Store, ClearFlag, Finish, Goto, Inside, PcOK, JobOK
<1>21. ASSUME NEW r \in Relays, Pipeline(r)  PROVE  HolderWaitsForPipeline'
  <2>1. UNCHANGED <<pc, job, mutex>>
    BY <1>21 DEF Pipeline, Progress, Mishap, Elsewhere, Kick, Rouse, Connect, RestartSession
  <2>2. \A s \in Relays :
          \/ session'[s] = session[s]
          \/ /\ session[s] \in {"starting", "connecting", "operational"}
             /\ session'[s] \in {"connecting", "operational"}
          \/ session[s] = "deaf" /\ session'[s] = "stopping"
    BY <1>21, TypeParts
    DEF Pipeline, Progress, Mishap, Kick, Rouse, Connect, RestartSession, SetSession, ManagerTypeOK
  <2>3. \A t \in Threads : job[t].relay \in Relays
    BY DEF JobOK, Jobs
  <2>4. mutex \in Threads \union {Nobody}
    BY TypeParts DEF ManagerTypeOK
  <2>5. QED
    BY <2>1, <2>2, <2>3, <2>4 DEF HolderWaitsForPipeline
<1>22. CASE Environment \/ UNCHANGED vars
  BY <1>22 DEF Environment, Elsewhere, RelaySwitches, vars, manager, HolderWaitsForPipeline
<1>23. ASSUME NEW h \in Handlers, Throw(h)  PROVE  HolderWaitsForPipeline'
  <2>1. CASE mutex' = Nobody
    BY <2>1, HolderNone
  <2>2. CASE mutex' # Nobody
    <3>1. pc[h] \notin Inside \union {"idle"} /\ UNCHANGED <<session, mutex>>
      BY <1>23, <2>2, ThrowEffect DEF Inside
    <3>2. InsideKept
      BY <1>23, <3>1, ThrowEffect DEF InsideKept, Inside
    <3>3. QED
      BY <3>1, <3>2, HolderElsewhere
  <2>3. QED
    BY <2>1, <2>2
<1>24. QED
  BY <1>2, <1>3, <1>4, <1>5, <1>6, <1>7, <1>8, <1>9, <1>10, <1>11, <1>12, <1>13, <1>14,
      <1>15, <1>16, <1>17, <1>18, <1>19, <1>20, <1>21, <1>22, <1>23, StepCases

(* No two threads wait for each other through mutex_, for any number of    *)
(* relays, handlers and collections.                                       *)
THEOREM HolderGoesOn == Spec => []HolderWaitsForPipeline
<1>1. Init => HolderWaitsForPipeline
  BY DEF Init, ManagerInit, HolderWaitsForPipeline
<1>2. IInv /\ HolderWaitsForPipeline /\ [Next]_vars => HolderWaitsForPipeline'
  BY HolderStep DEF IInv
<1>3. QED
  BY <1>1, <1>2, Invariance, PTL DEF Spec
=============================================================================
