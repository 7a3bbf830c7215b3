----------------------------- MODULE SerDatabase -----------------------------
(***************************************************************************)
(* The one SQLite connection (SERDatabase, ser_database.cpp) under the     *)
(* processing workers of all relays (PipelineProcessingWorker,             *)
(* relay_pipeline.hpp).  SQLite lets one statement run at a time, but a    *)
(* transaction belongs to the connection and not to the thread that began  *)
(* it: every statement is an action here, and any worker's may come next.  *)
(***************************************************************************)
EXTENDS Naturals, FiniteSets

CONSTANTS
  Relays,       \* the relays, each with one processing worker
  FileRelays,   \* those whose settings files are fetched (SEL-735)
  Other,        \* row ids that are no settings file's
  Lines,        \* lines of a settings file
  PruneEvery,   \* SER responses between two prunings
  Window,       \* events in a relay's answer to a plain SER: the latest
  SqlFails,     \* may a statement fail (disk full, I/O error, locked)?
  Crashes,      \* may the program be killed?
  MaxFaults,    \* bound of the model: failures and kills
  MaxEvents,    \* bound of the model: events of a relay,
  MaxLogged,    \* and of all relays together
  MaxRevision,  \* bound of the model: changes of a relay's settings
  MaxAged       \* bound of the model: records that are 90 days old

ASSUME DatabaseAssumption ==
  /\ FileRelays \subseteq Relays
  /\ Other \notin Relays
  /\ Lines \in Nat
  /\ PruneEvery \in Nat \ {0} /\ Window \in Nat \ {0}
  /\ SqlFails \in BOOLEAN /\ Crashes \in BOOLEAN
  /\ MaxFaults \in Nat /\ MaxEvents \in Nat /\ MaxLogged \in Nat /\ MaxRevision \in Nat /\ MaxAged \in Nat

(* A row of ser_records, named by its unique key: event n of relay r. *)
Events == Relays \X (1 .. MaxEvents)

(* A row of settings_entries: a line of revision rev of relay r's file;    *)
(* linked when its file_id is the row of that file in settings_files.      *)
Entries == [relay : FileRelays, rev : 1 .. MaxRevision, line : 1 .. Lines, linked : BOOLEAN]

(* The tables.  file[r] = 0: no row of relay r in settings_files. *)
Tables == [records : SUBSET Events, file : [FileRelays -> 0 .. MaxRevision],
           entries : SUBSET Entries]

VARIABLES
  main,       \* the tables as a statement on the connection sees them
  disk,       \* the tables as they were committed last
  txn,        \* the connection is in a transaction
  last_rowid  \* the relay whose settings_files row was inserted last, or Other

(* The workers: *)
VARIABLES
  pc,         \* pc[r]: the statement worker r comes to next
  next, upto, \* the records it inserts: events next[r] to upto[r]
  newRecords, \* newRecords[r]: those insertAndGetNewRecords() took for new
  prune_cycle_count,
  rev,        \* rev[r]: the revision of the file it stores
  linked      \* linked[r]: file_id is the row of the file

(* The relays and the world: *)
VARIABLES
  logged,     \* logged[r]: how many events relay r has logged
  revision,   \* revision[r]: the revision of its settings
  aged,       \* records created more than 90 days ago
  faults, ages

(* History: *)
VARIABLES
  failed,     \* a statement has failed
  reported,   \* events written to the shared-memory ring and not pruned since
  repeated    \* events written there again

database == <<main, disk, txn, last_rowid>>
worker == <<pc, next, upto, newRecords, prune_cycle_count, rev, linked>>
world == <<logged, revision, aged, faults, ages>>
history == <<failed, reported, repeated>>
vars == <<main, disk, txn, last_rowid, pc, next, upto, newRecords, prune_cycle_count, rev,
          linked, logged, revision, aged, faults, ages, failed, reported, repeated>>

(* In insertAndGetNewRecords(), behind it, and in insertSettingsFile(). *)
Recording == {"exists", "insert", "commit"}
Storing == {"delEntries", "delFile", "insFile", "rowid", "insEntry", "fileCommit", "rollback"}
PCs == {"idle", "begin", "prune", "report", "fileBegin"} \union Recording \union Storing

TypeOK ==
  /\ main \in Tables /\ disk \in Tables /\ txn \in BOOLEAN
  /\ last_rowid \in FileRelays \union {Other}
  /\ pc \in [Relays -> PCs]
  /\ next \in [Relays -> Nat] /\ upto \in [Relays -> 0 .. MaxEvents]
  /\ newRecords \in [Relays -> SUBSET Events]
  /\ prune_cycle_count \in [Relays -> 0 .. PruneEvery - 1]
  /\ rev \in [Relays -> 0 .. MaxRevision] /\ linked \in [Relays -> BOOLEAN]
  /\ logged \in [Relays -> 0 .. MaxEvents] /\ revision \in [FileRelays -> 0 .. MaxRevision]
  /\ aged \subseteq Events /\ faults \in Nat /\ ages \in Nat
  /\ failed \in BOOLEAN /\ reported \subseteq Events /\ repeated \subseteq Events

Empty == [records |-> {}, file |-> [r \in FileRelays |-> 0], entries |-> {}]

Init ==
  /\ main = Empty /\ disk = Empty /\ txn = FALSE /\ last_rowid = Other
  /\ pc = [r \in Relays |-> "idle"]
  /\ next = [r \in Relays |-> 1] /\ upto = [r \in Relays |-> 0]
  /\ newRecords = [r \in Relays |-> {}]
  /\ prune_cycle_count = [r \in Relays |-> 0]
  /\ rev = [r \in Relays |-> 0] /\ linked = [r \in Relays |-> FALSE]
  /\ logged = [r \in Relays |-> 0] /\ revision = [r \in FileRelays |-> 0]
  /\ aged = {} /\ faults = 0 /\ ages = 0
  /\ failed = FALSE /\ reported = {} /\ repeated = {}

-----------------------------------------------------------------------------
(* SQLite: one statement on the connection *)

(* A write is on the disk at once unless there is a transaction. *)
Write(tables) ==
  /\ main' = tables
  /\ disk' = IF txn THEN disk ELSE tables
  /\ UNCHANGED txn

(* A statement fails: it changes nothing, or, depending on the error,      *)
(* SQLite rolls the whole transaction back.                                *)
Fails ==
  /\ SqlFails /\ faults < MaxFaults
  /\ faults' = faults + 1
  /\ failed' = TRUE
  /\ \/ UNCHANGED <<main, txn, aged>>
     \/ txn /\ main' = disk /\ txn' = FALSE /\ aged' = aged \intersect disk.records
  /\ UNCHANGED <<disk, last_rowid>>

(* BEGIN opens a transaction, or fails in one that is open: the result is  *)
(* ignored, both come to the same.                                         *)
BeginStmt == txn' = TRUE /\ UNCHANGED <<main, disk, last_rowid>>

(* COMMIT commits whatever the connection's transaction holds; without one *)
(* it fails, which is ignored, too.                                        *)
CommitStmt == disk' = (IF txn THEN main ELSE disk) /\ txn' = FALSE /\ UNCHANGED <<main, last_rowid>>

(* ROLLBACK, likewise. *)
RollbackStmt ==
  /\ main' = IF txn THEN disk ELSE main
  /\ aged' = IF txn THEN aged \intersect disk.records ELSE aged
  /\ txn' = FALSE
  /\ failed' = TRUE
  /\ UNCHANGED <<disk, last_rowid>>

-----------------------------------------------------------------------------
(* insertAndGetNewRecords() and what runLoop() does with a SER response *)

Goto(r, label) == pc' = [pc EXCEPT ![r] = label]

(* The locals of a call that returns *)
DropLocals(r) ==
  /\ next' = [next EXCEPT ![r] = 1] /\ upto' = [upto EXCEPT ![r] = 0]
  /\ rev' = [rev EXCEPT ![r] = 0] /\ linked' = [linked EXCEPT ![r] = FALSE]

(* The answer to a plain SER, with at least one record: the latest events. *)
(* (That to the SER 1000 of start(), with all of them, is broadcast as     *)
(* text and not stored.)                                                   *)
TakeSer(r) ==
  /\ pc[r] = "idle" /\ logged[r] > 0
  /\ Goto(r, "begin")
  /\ next' = [next EXCEPT ![r] = IF logged[r] > Window THEN logged[r] - Window + 1 ELSE 1]
  /\ upto' = [upto EXCEPT ![r] = logged[r]]
  /\ newRecords' = [newRecords EXCEPT ![r] = {}]
  /\ UNCHANGED <<database, prune_cycle_count, rev, linked, world, history>>

Begin(r) ==
  /\ pc[r] \in {"begin", "fileBegin"}
  /\ BeginStmt
  /\ Goto(r, IF pc[r] = "begin" THEN "exists" ELSE "delEntries")
  /\ UNCHANGED <<next, upto, newRecords, prune_cycle_count, rev, linked, world, history>>

(* Mutants: a batch that ends without COMMIT; without recordExists(); one  *)
(* that stops before the last record.                                      *)
ExistsNoCommit(r) ==
  /\ pc[r] = "exists"
  /\ IF next[r] > upto[r] THEN Goto(r, "prune") /\ UNCHANGED next
     ELSE IF <<r, next[r]>> \in main.records
          THEN next' = [next EXCEPT ![r] = @ + 1] /\ UNCHANGED pc
          ELSE Goto(r, "insert") /\ UNCHANGED next
  /\ UNCHANGED <<database, upto, newRecords, prune_cycle_count, rev, linked, world, history>>

ExistsUnchecked(r) ==
  /\ pc[r] = "exists"
  /\ Goto(r, IF next[r] > upto[r] THEN "commit" ELSE "insert")
  /\ UNCHANGED <<database, next, upto, newRecords, prune_cycle_count, rev, linked, world, history>>

ExistsOffByOne(r) ==
  /\ pc[r] = "exists"
  /\ IF next[r] >= upto[r] THEN Goto(r, "commit") /\ UNCHANGED next
     ELSE IF <<r, next[r]>> \in main.records
          THEN next' = [next EXCEPT ![r] = @ + 1] /\ UNCHANGED pc
          ELSE Goto(r, "insert") /\ UNCHANGED next
  /\ UNCHANGED <<database, upto, newRecords, prune_cycle_count, rev, linked, world, history>>

(* recordExists() *)
Exists(r) ==
  /\ pc[r] = "exists"
  /\ IF next[r] > upto[r] THEN Goto(r, "commit") /\ UNCHANGED next
     ELSE IF <<r, next[r]>> \in main.records
          THEN next' = [next EXCEPT ![r] = @ + 1] /\ UNCHANGED pc
          ELSE Goto(r, "insert") /\ UNCHANGED next
  /\ UNCHANGED <<database, upto, newRecords, prune_cycle_count, rev, linked, world, history>>

(* insertRecord(), with a second recordExists(): a record that is there by *)
(* now counts as new, or, if it comes between the two statements, violates *)
(* the unique key and does not.                                            *)
Insert(r) ==
  LET e == <<r, next[r]>>
  IN  /\ pc[r] = "insert"
      /\ Goto(r, "exists")
      /\ next' = [next EXCEPT ![r] = @ + 1]
      /\ \/ /\ e \notin main.records
            /\ Write([main EXCEPT !.records = @ \union {e}])
            /\ last_rowid' = Other
            /\ newRecords' = [newRecords EXCEPT ![r] = @ \union {e}]
            /\ UNCHANGED <<aged, faults, failed>>
         \/ /\ e \in main.records
            /\ newRecords' \in {newRecords, [newRecords EXCEPT ![r] = @ \union {e}]}
            /\ UNCHANGED <<database, aged, faults, failed>>
         \/ Fails /\ UNCHANGED newRecords
      /\ UNCHANGED <<upto, prune_cycle_count, rev, linked, logged, revision, ages,
                     reported, repeated>>

(* COMMIT.  SQLite rolls back what it cannot commit. *)
Commit(r) ==
  /\ pc[r] \in {"commit", "fileCommit"}
  /\ \/ CommitStmt /\ UNCHANGED <<aged, faults, failed>>
     \/ Fails /\ ~txn'
  /\ Goto(r, IF pc[r] = "commit" THEN "prune" ELSE "idle")
  /\ DropLocals(r)
  /\ UNCHANGED <<newRecords, prune_cycle_count, logged, revision, ages, reported, repeated>>

(* The housekeeping after every PruneEvery-th response: pruneOldRecords(). *)
Prune(r) ==
  /\ pc[r] = "prune"
  /\ Goto(r, "report")
  /\ prune_cycle_count' = [prune_cycle_count EXCEPT ![r] = (@ + 1) % PruneEvery]
  /\ \/ prune_cycle_count'[r] # 0
        /\ UNCHANGED <<database, aged, faults, failed, reported>>
     \/ /\ prune_cycle_count'[r] = 0
        /\ Write([main EXCEPT !.records = @ \ aged])
        /\ reported' = reported \ aged
        /\ aged' = {}
        /\ UNCHANGED <<last_rowid, faults, failed>>
     \/ prune_cycle_count'[r] = 0 /\ Fails /\ UNCHANGED reported
  /\ UNCHANGED <<next, upto, newRecords, rev, linked, logged, revision, ages, repeated>>

(* What is new goes to the shared-memory ring. *)
Report(r) ==
  /\ pc[r] = "report"
  /\ Goto(r, "idle")
  /\ repeated' = repeated \union (reported \intersect newRecords[r])
  /\ reported' = reported \union newRecords[r]
  /\ newRecords' = [newRecords EXCEPT ![r] = {}]
  /\ UNCHANGED <<database, next, upto, prune_cycle_count, rev, linked, world, failed>>

-----------------------------------------------------------------------------
(* storeSettingsFile(): insertSettingsFile() *)

(* The response to FILE SHOW, which is queued when the pipeline starts; a  *)
(* user may stop it and start it again at any time.                        *)
TakeFile(r) ==
  /\ pc[r] = "idle" /\ revision[r] > 0
  /\ Goto(r, "fileBegin")
  /\ rev' = [rev EXCEPT ![r] = revision[r]]
  /\ UNCHANGED <<database, next, upto, newRecords, prune_cycle_count, linked, world, history>>

FileRest == <<newRecords, prune_cycle_count, logged, revision, ages, reported, repeated>>
FileStep == <<upto, rev, FileRest>>

EntriesOf(tables, r) == {e \in tables.entries : e.relay = r}

(* The two DELETEs, whose results are ignored *)
DelEntries(r) ==
  /\ pc[r] = "delEntries" /\ Goto(r, "delFile")
  /\ \/ /\ Write([main EXCEPT !.entries = @ \ EntriesOf(main, r)])
        /\ UNCHANGED <<last_rowid, aged, faults, failed>>
     \/ Fails
  /\ UNCHANGED <<FileStep, next, linked>>

DelFile(r) ==
  /\ pc[r] = "delFile" /\ Goto(r, "insFile")
  /\ \/ /\ Write([main EXCEPT !.file[r] = 0])
        /\ UNCHANGED <<last_rowid, aged, faults, failed>>
     \/ Fails
  /\ UNCHANGED <<FileStep, next, linked>>

(* The new row, unless the old one is still there. *)
InsFile(r) ==
  /\ pc[r] = "insFile"
  /\ \/ /\ main.file[r] = 0
        /\ Write([main EXCEPT !.file[r] = rev[r]])
        /\ last_rowid' = r
        /\ Goto(r, "rowid")
        /\ UNCHANGED <<aged, faults, failed>>
     \/ /\ main.file[r] # 0
        /\ Goto(r, "rollback")
        /\ UNCHANGED <<database, aged, faults, failed>>
     \/ Fails /\ Goto(r, "rollback")
  /\ UNCHANGED <<FileStep, next, linked>>

(* sqlite3_last_insert_rowid(): of the connection *)
RowId(r) ==
  /\ pc[r] = "rowid" /\ Goto(r, "insEntry")
  /\ linked' = [linked EXCEPT ![r] = (last_rowid = r)]
  /\ next' = [next EXCEPT ![r] = 1]
  /\ UNCHANGED <<database, FileStep, aged, faults, failed>>

InsEntry(r) ==
  /\ pc[r] = "insEntry"
  /\ \/ /\ next[r] > Lines
        /\ Goto(r, "fileCommit")
        /\ UNCHANGED <<database, next, aged, faults, failed>>
     \/ /\ next[r] <= Lines
        /\ Write([main EXCEPT !.entries = @ \union
                    {[relay |-> r, rev |-> rev[r], line |-> next[r], linked |-> linked[r]]}])
        /\ last_rowid' = Other
        /\ next' = [next EXCEPT ![r] = @ + 1]
        /\ UNCHANGED <<pc, aged, faults, failed>>
     \/ next[r] <= Lines /\ Fails /\ Goto(r, "rollback") /\ UNCHANGED next
  /\ UNCHANGED <<FileStep, linked>>

(* Mutant: an error path that returns without ROLLBACK. *)
ReturnOnly(r) ==
  /\ pc[r] = "rollback" /\ Goto(r, "idle") /\ DropLocals(r)
  /\ UNCHANGED <<database, FileRest, aged, faults, failed>>

Rollback(r) ==
  /\ pc[r] = "rollback" /\ Goto(r, "idle") /\ DropLocals(r)
  /\ RollbackStmt
  /\ UNCHANGED <<FileRest, faults>>

-----------------------------------------------------------------------------
(* The world *)

Log(r) ==
  /\ logged[r] < MaxEvents
  /\ Cardinality({e \in Events : e[2] <= logged[e[1]]}) < MaxLogged
  /\ logged' = [logged EXCEPT ![r] = @ + 1]
  /\ UNCHANGED <<database, worker, revision, aged, faults, ages, history>>

Revise(r) ==
  /\ revision[r] < MaxRevision
  /\ revision' = [revision EXCEPT ![r] = @ + 1]
  /\ UNCHANGED <<database, worker, logged, aged, faults, ages, history>>

(* 90 days have passed since a record came in, which is no worker's hands. *)
Age(e) ==
  /\ ages < MaxAged
  /\ e \in main.records \ aged
  /\ \A r \in Relays : e \notin newRecords[r]
  /\ aged' = aged \union {e} /\ ages' = ages + 1
  /\ UNCHANGED <<database, worker, logged, revision, faults, history>>

(* The program is killed and started again. *)
Crash ==
  /\ Crashes /\ faults < MaxFaults
  /\ faults' = faults + 1
  /\ main' = disk /\ txn' = FALSE /\ last_rowid' = Other
  /\ aged' = aged \intersect disk.records
  /\ pc' = [r \in Relays |-> "idle"]
  /\ newRecords' = [r \in Relays |-> {}]
  /\ prune_cycle_count' = [r \in Relays |-> 0]
  /\ next' = [r \in Relays |-> 1] /\ upto' = [r \in Relays |-> 0]
  /\ rev' = [r \in Relays |-> 0] /\ linked' = [r \in Relays |-> FALSE]
  /\ UNCHANGED <<disk, logged, revision, ages, history>>

-----------------------------------------------------------------------------
Worker(r) ==
  \/ Begin(r) \/ Exists(r) \/ Insert(r) \/ Commit(r) \/ Prune(r) \/ Report(r)
  \/ r \in FileRelays /\ (DelEntries(r) \/ DelFile(r) \/ InsFile(r) \/ RowId(r)
                          \/ InsEntry(r) \/ Rollback(r))

Next ==
  \/ \E r \in Relays : Worker(r) \/ TakeSer(r) \/ Log(r)
  \/ \E r \in FileRelays : TakeFile(r) \/ Revise(r)
  \/ \E e \in Events : Age(e)
  \/ Crash

Spec == Init /\ [][Next]_vars

(* Workers run; every relay is polled once a minute, and the answers wait  *)
(* in a queue, so that one to SER is not overtaken for ever.               *)
Fairness == \A r \in Relays : WF_vars(Worker(r)) /\ SF_vars(TakeSer(r))

FairSpec == Spec /\ Fairness

-----------------------------------------------------------------------------
(* Properties *)

(* A transaction never outlives the calls that use it: when no worker is   *)
(* between its BEGIN and its COMMIT or ROLLBACK, none is open.  (One left  *)
(* open would hold back every later write until the next COMMIT.)          *)
TransactionOwned == txn => \E r \in Relays : pc[r] \in Recording \union Storing

(* A record that went out to the shared-memory ring is on the disk and     *)
(* stays there until it is pruned, whoever began and committed the         *)
(* transaction it was inserted in, and if the program is killed.  Only a   *)
(* statement that fails can undo this.                                     *)
ReportedIsDurable == ~failed => reported \subseteq disk.records

(* ... and no record goes out twice.                                       *)
ReportedOnce == ~failed => repeated = {}

(* Every event a relay logs is on the disk sooner or later, whatever       *)
(* failures, rollbacks and kills come first, unless so many newer ones     *)
(* follow that the relay's answers to SER no longer contain it.            *)
EventsStored ==
  \A e \in Events : (logged[e[1]] >= e[2]) ~>
                      (e \in disk.records \/ logged[e[1]] >= e[2] + Window)

(* No event is lost: start() asks for the "last 1000 records for catch-up" *)
(* (relay_pipeline.hpp:1061).                                              *)
CatchUpStores ==
  \A e \in Events : (logged[e[1]] >= e[2]) ~> (e \in disk.records)

(* A settings file on the disk has all its lines and no others: it is      *)
(* replaced "inside a single transaction" (ser_database.hpp:300).          *)
SettingsWhole ==
  \A r \in FileRelays :
    {<<e.rev, e.line>> : e \in EntriesOf(disk, r)} =
      (IF disk.file[r] = 0 THEN {} ELSE {disk.file[r]} \X (1 .. Lines))

(* Every entry is "linked to the parent file via file_id" (line 305).      *)
EntriesLinked == \A e \in main.entries : e.linked
=============================================================================
