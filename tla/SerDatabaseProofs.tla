-------------------------- MODULE SerDatabaseProofs --------------------------
(***************************************************************************)
(* Proofs about SerDatabase, for any number of relays, events and lines:   *)
(* types, the owner of a transaction, and that what was reported stays.    *)
(***************************************************************************)
EXTENDS SerDatabase, TLAPS

(* TypeOK in parts, each kept apart from what the others need. *)
TablesOK == main \in Tables /\ disk \in Tables
ConnOK == txn \in BOOLEAN /\ last_rowid \in FileRelays \union {Other}
PcOK == pc \in [Relays -> PCs]
BatchOK == /\ next \in [Relays -> Nat] /\ upto \in [Relays -> 0 .. MaxEvents]
           /\ newRecords \in [Relays -> SUBSET Events]
CountOK == prune_cycle_count \in [Relays -> 0 .. PruneEvery - 1]
FileOK == rev \in [Relays -> 0 .. MaxRevision] /\ linked \in [Relays -> BOOLEAN]
WorldOK == /\ logged \in [Relays -> 0 .. MaxEvents]
           /\ revision \in [FileRelays -> 0 .. MaxRevision]
           /\ ages \in Nat
FaultsOK == aged \subseteq Events /\ faults \in Nat /\ failed \in BOOLEAN
HistoryOK == reported \subseteq Events /\ repeated \subseteq Events

(* What a step needs to know to stay in range: the record a worker is      *)
(* about to insert is one of its batch, the file it stores has a revision. *)
InRange ==
  \A r \in Relays :
    /\ next[r] >= 1
    /\ pc[r] = "insert" => next[r] <= upto[r]
    /\ pc[r] \in {"fileBegin"} \union Storing => rev[r] >= 1

Typed == /\ TablesOK /\ ConnOK /\ PcOK /\ BatchOK /\ CountOK /\ FileOK /\ WorldOK
         /\ FaultsOK /\ HistoryOK /\ InRange

LEMMA TypeParts == TypeOK /\ InRange <=> Typed
  BY DEF TypeOK, Typed, TablesOK, ConnOK, PcOK, BatchOK, CountOK, FileOK, WorldOK, FaultsOK,
         HistoryOK

-----------------------------------------------------------------------------
(* Statements *)

LEMMA EmptyTables == Empty \in Tables
  BY DatabaseAssumption DEF Empty, Tables

LEMMA WriteTables ==
  ASSUME TablesOK, ConnOK, NEW t \in Tables, Write(t)
  PROVE  TablesOK' /\ txn' = txn /\ main' = t
  BY DEF TablesOK, ConnOK, Write

LEMMA FailsTables ==
  ASSUME TablesOK, ConnOK, FaultsOK, Fails
  PROVE  TablesOK' /\ ConnOK' /\ FaultsOK'
<1>1. TablesOK'
  BY DEF TablesOK, Fails
<1>2. ConnOK'
  BY DEF ConnOK, Fails
<1>3. aged' \subseteq Events /\ failed' \in BOOLEAN
  BY DEF FaultsOK, Fails
<1>4. faults' \in Nat
  BY DEF FaultsOK, Fails
<1>5. QED
  BY <1>1, <1>2, <1>3, <1>4 DEF FaultsOK

LEMMA CommitTables ==
  ASSUME TablesOK, ConnOK, CommitStmt
  PROVE  TablesOK' /\ ConnOK'
  BY DEF TablesOK, ConnOK, CommitStmt

LEMMA RollbackTables ==
  ASSUME TablesOK, ConnOK, FaultsOK, RollbackStmt
  PROVE  /\ TablesOK' /\ ConnOK'
         /\ aged' \subseteq Events /\ failed' \in BOOLEAN
  BY DEF TablesOK, ConnOK, FaultsOK, RollbackStmt

(* Each of the tables the workers write is one. *)
LEMMA WithRecords ==
  ASSUME TablesOK, NEW S \in SUBSET Events
  PROVE  /\ [main EXCEPT !.records = S] \in Tables
         /\ [main EXCEPT !.records = S].records = S
  BY DEF TablesOK, Tables

LEMMA WithEntries ==
  ASSUME TablesOK, NEW S \in SUBSET Entries
  PROVE  /\ [main EXCEPT !.entries = S] \in Tables
         /\ [main EXCEPT !.entries = S].records = main.records
  BY DEF TablesOK, Tables

LEMMA WithFile ==
  ASSUME TablesOK, NEW r \in FileRelays, NEW n \in 0 .. MaxRevision
  PROVE  /\ [main EXCEPT !.file[r] = n] \in Tables
         /\ [main EXCEPT !.file[r] = n].records = main.records
  BY DEF TablesOK, Tables

-----------------------------------------------------------------------------
(* Types, one lemma per action *)

LEMMA TypesInit == Init => Typed
<1> SUFFICES ASSUME Init PROVE Typed
  OBVIOUS
<1>1. TablesOK /\ ConnOK
  BY EmptyTables DEF Init, TablesOK, ConnOK
<1>2. PcOK
  BY DEF Init, PcOK, PCs
<1>3. BatchOK
  BY DatabaseAssumption DEF Init, BatchOK
<1>4. FileOK
  BY DatabaseAssumption DEF Init, FileOK
<1>5. HistoryOK /\ FaultsOK
  BY DEF Init, HistoryOK, FaultsOK
<1>6. CountOK /\ WorldOK
  BY DatabaseAssumption DEF Init, CountOK, WorldOK
<1>7. InRange
  <2>1. \A r \in Relays : pc[r] = "idle" /\ next[r] = 1
    BY DEF Init
  <2>2. "idle" # "insert" /\ "idle" \notin {"fileBegin"} \union Storing
    BY DEF Storing
  <2>3. ASSUME NEW r \in Relays
        PROVE  next[r] >= 1 /\ pc[r] # "insert" /\ pc[r] \notin {"fileBegin"} \union Storing
    <3>1. next[r] = 1 /\ pc[r] = "idle"
      BY <2>1
    <3>2. next[r] >= 1
      BY <3>1
    <3>3. QED
      BY <3>1, <3>2, <2>2
  <2>4. QED
    BY <2>3 DEF InRange
<1>8. QED
  BY <1>1, <1>2, <1>3, <1>4, <1>5, <1>6, <1>7 DEF Typed

LEMMA TypesTakeSer == ASSUME Typed, NEW r \in Relays, TakeSer(r) PROVE Typed'
<1>1. TablesOK' /\ ConnOK' /\ CountOK' /\ FileOK' /\ WorldOK' /\ FaultsOK' /\ HistoryOK'
  BY DEF Typed, TakeSer, database, world, history, TablesOK, ConnOK, CountOK, FileOK, WorldOK,
         FaultsOK, HistoryOK
<1>2. PcOK'
  BY DEF Typed, TakeSer, Goto, PcOK, PCs
<1> DEFINE first == IF logged[r] > Window THEN logged[r] - Window + 1 ELSE 1
<1>3. first \in Nat /\ first >= 1 /\ logged[r] \in 0 .. MaxEvents
  <2>1. logged[r] \in Nat /\ Window \in Nat /\ logged[r] \in 0 .. MaxEvents
    BY DatabaseAssumption DEF Typed, WorldOK
  <2>2. QED
    BY <2>1
<1>4. next' = [next EXCEPT ![r] = first]
  BY DEF TakeSer
<1> HIDE DEF first
<1>5. BatchOK'
  BY <1>3, <1>4 DEF Typed, TakeSer, BatchOK
<1>6. InRange'
  BY <1>3, <1>4 DEF Typed, TakeSer, Goto, InRange, Storing, PcOK, BatchOK
<1>7. QED
  BY <1>1, <1>2, <1>5, <1>6 DEF Typed

(* A call that returns leaves no locals behind. *)
LEMMA TypesDropLocals ==
  ASSUME Typed, NEW r \in Relays, DropLocals(r)
  PROVE  /\ next' \in [Relays -> Nat] /\ upto' \in [Relays -> 0 .. MaxEvents]
         /\ FileOK'
         /\ next'[r] = 1
         /\ \A s \in Relays : s # r => next'[s] = next[s] /\ upto'[s] = upto[s] /\ rev'[s] = rev[s]
<1>1. /\ next \in [Relays -> Nat] /\ upto \in [Relays -> 0 .. MaxEvents]
      /\ rev \in [Relays -> 0 .. MaxRevision] /\ linked \in [Relays -> BOOLEAN]
  BY DEF Typed, BatchOK, FileOK
<1>2. 0 \in 0 .. MaxEvents /\ 0 \in 0 .. MaxRevision
  BY DatabaseAssumption
<1>3. FileOK'
  BY <1>1, <1>2 DEF DropLocals, FileOK
<1>4. QED
  BY <1>1, <1>2, <1>3 DEF DropLocals

(* ... whatever it does besides. *)
LEMMA TypesReturn ==
  ASSUME Typed, NEW r \in Relays, DropLocals(r), UNCHANGED FileRest,
         NEW label \in {"prune", "idle"}, Goto(r, label)
  PROVE  PcOK' /\ BatchOK' /\ CountOK' /\ FileOK' /\ WorldOK' /\ HistoryOK' /\ InRange'
<1>1. CountOK' /\ WorldOK' /\ HistoryOK' /\ newRecords' \in [Relays -> SUBSET Events]
  <2>1. CountOK' /\ HistoryOK'
    BY DEF Typed, FileRest, CountOK, HistoryOK
  <2>2. WorldOK'
    BY DEF Typed, FileRest, WorldOK
  <2>3. QED
    BY <2>1, <2>2 DEF Typed, FileRest, BatchOK
<1>2. BatchOK' /\ FileOK'
  BY <1>1, TypesDropLocals DEF BatchOK
<1>3. PcOK'
  BY DEF Typed, Goto, PcOK, PCs
<1>4. pc'[r] = label /\ \A s \in Relays : s # r => pc'[s] = pc[s]
  BY DEF Typed, Goto, PcOK
<1>5. InRange'
  <2>1. label # "insert" /\ label \notin {"fileBegin"} \union Storing
    BY DEF Storing
  <2>2. ASSUME NEW s \in Relays
        PROVE  /\ next'[s] >= 1
               /\ pc'[s] = "insert" => next'[s] <= upto'[s]
               /\ pc'[s] \in {"fileBegin"} \union Storing => rev'[s] >= 1
    <3>1. CASE s = r
      BY <1>4, <2>1, <3>1, TypesDropLocals
    <3>2. CASE s # r
      BY <1>4, <3>2, TypesDropLocals DEF Typed, InRange
    <3>3. QED
      BY <3>1, <3>2
  <2>3. QED
    BY <2>2 DEF InRange
<1>6. QED
  BY <1>1, <1>2, <1>3, <1>5

LEMMA TypesBegin == ASSUME Typed, NEW r \in Relays, Begin(r) PROVE Typed'
<1>1. BatchOK' /\ CountOK' /\ FileOK' /\ WorldOK' /\ FaultsOK' /\ HistoryOK'
  BY DEF Typed, Begin, world, history, BatchOK, CountOK, FileOK, WorldOK, FaultsOK, HistoryOK
<1>2. TablesOK' /\ ConnOK'
  BY DEF Typed, Begin, BeginStmt, TablesOK, ConnOK
<1>3. PcOK'
  BY DEF Typed, Begin, Goto, PcOK, PCs, Recording, Storing
<1>4. InRange'
  BY DEF Typed, Begin, Goto, InRange, Storing, PcOK
<1>5. QED
  BY <1>1, <1>2, <1>3, <1>4 DEF Typed

LEMMA TypesExists == ASSUME Typed, NEW r \in Relays, Exists(r) PROVE Typed'
<1>1. TablesOK' /\ ConnOK' /\ CountOK' /\ FileOK' /\ WorldOK' /\ FaultsOK' /\ HistoryOK'
  BY DEF Typed, Exists, database, world, history, TablesOK, ConnOK, CountOK, FileOK, WorldOK,
         FaultsOK, HistoryOK
<1>2. PcOK' /\ BatchOK'
  BY DEF Typed, Exists, Goto, PcOK, PCs, Recording, BatchOK
<1>3. InRange'
  BY DEF Typed, Exists, Goto, InRange, Storing, PcOK, BatchOK
<1>4. QED
  BY <1>1, <1>2, <1>3 DEF Typed

LEMMA TypesInsert == ASSUME Typed, NEW r \in Relays, Insert(r) PROVE Typed'
<1> DEFINE e == <<r, next[r]>>
<1>1. e \in Events
  <2>1. next[r] \in Nat /\ next[r] >= 1 /\ next[r] <= upto[r] /\ upto[r] \in 0 .. MaxEvents
    BY DEF Typed, Insert, InRange, BatchOK
  <2>2. MaxEvents \in Nat
    BY DatabaseAssumption
  <2>3. next[r] \in 1 .. MaxEvents
    BY <2>1, <2>2
  <2>4. QED
    BY <2>3 DEF Events
<1>2. TablesOK' /\ ConnOK' /\ FaultsOK' /\ newRecords' \in [Relays -> SUBSET Events]
  <2>0. TablesOK /\ ConnOK /\ FaultsOK /\ newRecords \in [Relays -> SUBSET Events]
    BY DEF Typed, BatchOK
  <2>1. CASE e \notin main.records /\ Write([main EXCEPT !.records = @ \union {e}])
             /\ last_rowid' = Other
             /\ newRecords' = [newRecords EXCEPT ![r] = @ \union {e}]
             /\ UNCHANGED <<aged, faults, failed>>
    <3>1. main.records \union {e} \in SUBSET Events
      BY <1>1, <2>0 DEF TablesOK, Tables
    <3>2. TablesOK' /\ txn' = txn
      BY <3>1, <2>0, <2>1, WithRecords, WriteTables
    <3>3. QED
      BY <3>2, <2>0, <2>1, <1>1 DEF ConnOK, FaultsOK
  <2>2. CASE newRecords' \in {newRecords, [newRecords EXCEPT ![r] = @ \union {e}]}
             /\ UNCHANGED <<database, aged, faults, failed>>
    BY <2>0, <2>2, <1>1 DEF database, TablesOK, ConnOK, FaultsOK
  <2>3. CASE Fails /\ UNCHANGED newRecords
    BY <2>0, <2>3, FailsTables
  <2>4. QED
    BY <2>1, <2>2, <2>3 DEF Insert
<1>3. PcOK' /\ BatchOK'
  <2>1. PcOK'
    BY DEF Typed, Insert, Goto, PcOK, PCs, Recording
  <2>2. next' \in [Relays -> Nat] /\ upto' = upto
    BY DEF Typed, Insert, BatchOK
  <2>3. upto' \in [Relays -> 0 .. MaxEvents]
    BY <2>2 DEF Typed, BatchOK
  <2>4. QED
    BY <1>2, <2>1, <2>2, <2>3 DEF BatchOK
<1>4. CountOK' /\ FileOK' /\ WorldOK' /\ HistoryOK'
  BY DEF Typed, Insert, CountOK, FileOK, WorldOK, HistoryOK
<1>5. InRange'
  BY DEF Typed, Insert, Goto, InRange, Storing, PcOK, BatchOK
<1>6. QED
  BY <1>2, <1>3, <1>4, <1>5 DEF Typed

LEMMA TypesCommit == ASSUME Typed, NEW r \in Relays, Commit(r) PROVE Typed'
<1>1. TablesOK' /\ ConnOK' /\ FaultsOK'
  <2>0. TablesOK /\ ConnOK /\ FaultsOK
    BY DEF Typed
  <2>1. CASE CommitStmt /\ UNCHANGED <<aged, faults, failed>>
    BY <2>0, <2>1, CommitTables DEF FaultsOK
  <2>2. CASE Fails
    BY <2>0, <2>2, FailsTables
  <2>3. QED
    BY <2>1, <2>2 DEF Commit
<1>2. DropLocals(r) /\ UNCHANGED FileRest /\ \E label \in {"prune", "idle"} : Goto(r, label)
  BY DEF Commit, FileRest
<1>3. QED
  BY <1>1, <1>2, TypesReturn DEF Typed

LEMMA Modulo == ASSUME NEW n \in Nat, NEW m \in Nat \ {0} PROVE n % m \in 0 .. m - 1
  OBVIOUS

LEMMA TypesPrune == ASSUME Typed, NEW r \in Relays, Prune(r) PROVE Typed'
<1>1. TablesOK' /\ ConnOK' /\ FaultsOK' /\ HistoryOK'
  <2>0. TablesOK /\ ConnOK /\ FaultsOK /\ HistoryOK
    BY DEF Typed
  <2>1. CASE UNCHANGED <<database, aged, faults, failed, reported>>
    BY <2>0, <2>1 DEF Prune, database, TablesOK, ConnOK, FaultsOK, HistoryOK
  <2>2. CASE /\ Write([main EXCEPT !.records = @ \ aged])
             /\ reported' = reported \ aged /\ aged' = {}
             /\ UNCHANGED <<last_rowid, faults, failed>>
    <3>1. main.records \ aged \in SUBSET Events
      BY <2>0 DEF TablesOK, Tables
    <3>2. TablesOK' /\ txn' = txn
      BY <3>1, <2>0, <2>2, WithRecords, WriteTables
    <3>3. QED
      BY <3>2, <2>0, <2>2 DEF Prune, ConnOK, FaultsOK, HistoryOK
  <2>3. CASE Fails /\ UNCHANGED reported
    BY <2>0, <2>3, FailsTables DEF Prune, HistoryOK
  <2>4. QED
    BY <2>1, <2>2, <2>3 DEF Prune
<1>2. BatchOK' /\ FileOK' /\ WorldOK'
  BY DEF Typed, Prune, BatchOK, FileOK, WorldOK
<1>3. PcOK'
  BY DEF Typed, Prune, Goto, PcOK, PCs
<1>4. CountOK'
  <2>1. prune_cycle_count[r] + 1 \in Nat
    BY DatabaseAssumption DEF Typed, CountOK
  <2>2. (prune_cycle_count[r] + 1) % PruneEvery \in 0 .. PruneEvery - 1
    BY <2>1, Modulo, DatabaseAssumption
  <2>3. QED
    BY <2>2 DEF Typed, Prune, CountOK
<1>5. InRange'
  BY DEF Typed, Prune, Goto, InRange, Storing, PcOK
<1>6. QED
  BY <1>1, <1>2, <1>3, <1>4, <1>5 DEF Typed

LEMMA TypesReport == ASSUME Typed, NEW r \in Relays, Report(r) PROVE Typed'
<1>1. TablesOK' /\ ConnOK' /\ CountOK' /\ FileOK' /\ WorldOK' /\ FaultsOK'
  BY DEF Typed, Report, database, world, TablesOK, ConnOK, CountOK, FileOK, WorldOK, FaultsOK
<1>2. PcOK' /\ BatchOK' /\ HistoryOK'
  BY DEF Typed, Report, Goto, PcOK, PCs, BatchOK, HistoryOK
<1>3. InRange'
  BY DEF Typed, Report, Goto, InRange, Storing, PcOK
<1>4. QED
  BY <1>1, <1>2, <1>3 DEF Typed

(* The steps of insertSettingsFile() *)

LEMMA TypesFileStep ==
  ASSUME Typed, UNCHANGED FileStep
  PROVE  /\ CountOK' /\ WorldOK' /\ HistoryOK'
         /\ rev' \in [Relays -> 0 .. MaxRevision]
         /\ upto' \in [Relays -> 0 .. MaxEvents] /\ newRecords' \in [Relays -> SUBSET Events]
<1>1. CountOK' /\ HistoryOK'
  BY DEF Typed, FileStep, FileRest, CountOK, HistoryOK
<1>2. WorldOK'
  BY DEF Typed, FileStep, FileRest, WorldOK
<1>3. QED
  BY <1>1, <1>2 DEF Typed, FileStep, FileRest, FileOK, BatchOK

LEMMA TypesTakeFile == ASSUME Typed, NEW r \in FileRelays, TakeFile(r) PROVE Typed'
<1>0. r \in Relays
  BY DatabaseAssumption
<1>1. TablesOK' /\ ConnOK' /\ CountOK' /\ WorldOK' /\ FaultsOK' /\ HistoryOK'
  BY DEF Typed, TakeFile, database, world, history, TablesOK, ConnOK, CountOK, WorldOK,
         FaultsOK, HistoryOK
<1>2. BatchOK'
  BY DEF Typed, TakeFile, BatchOK
<1>3. PcOK'
  BY <1>0 DEF Typed, TakeFile, Goto, PcOK, PCs
<1>4. FileOK'
  BY <1>0 DEF Typed, TakeFile, FileOK, WorldOK
<1>5. InRange'
  <2>1. revision[r] \in Nat /\ revision[r] >= 1
    BY DEF Typed, TakeFile, WorldOK
  <2>2. QED
    BY <1>0, <2>1 DEF Typed, TakeFile, Goto, InRange, Storing, PcOK, FileOK
<1>6. QED
  BY <1>1, <1>2, <1>3, <1>4, <1>5 DEF Typed

LEMMA TypesDelEntries == ASSUME Typed, NEW r \in FileRelays, DelEntries(r) PROVE Typed'
<1>0. r \in Relays /\ TablesOK /\ ConnOK /\ FaultsOK
  BY DatabaseAssumption DEF Typed
<1>1. TablesOK' /\ ConnOK' /\ FaultsOK'
  <2>1. CASE /\ Write([main EXCEPT !.entries = @ \ EntriesOf(main, r)])
             /\ UNCHANGED <<last_rowid, aged, faults, failed>>
    <3>1. main.entries \ EntriesOf(main, r) \in SUBSET Entries
      BY <1>0 DEF TablesOK, Tables
    <3>2. TablesOK' /\ txn' = txn
      BY <3>1, <1>0, <2>1, WithEntries, WriteTables
    <3>3. QED
      BY <3>2, <1>0, <2>1 DEF ConnOK, FaultsOK
  <2>2. CASE Fails
    BY <1>0, <2>2, FailsTables
  <2>3. QED
    BY <2>1, <2>2 DEF DelEntries
<1>2. UNCHANGED <<FileStep, next, linked>> /\ Goto(r, "delFile") /\ pc[r] = "delEntries"
  BY DEF DelEntries
<1>3. PcOK'
  BY <1>0, <1>2 DEF Typed, Goto, PcOK, PCs, Storing
<1>4. BatchOK' /\ FileOK'
  BY <1>2, TypesFileStep DEF Typed, BatchOK, FileOK
<1>5. InRange'
  BY <1>0, <1>2 DEF Typed, Goto, InRange, Storing, PcOK, FileStep
<1>6. QED
  BY <1>1, <1>2, <1>3, <1>4, <1>5, TypesFileStep DEF Typed

LEMMA TypesDelFile == ASSUME Typed, NEW r \in FileRelays, DelFile(r) PROVE Typed'
<1>0. r \in Relays /\ TablesOK /\ ConnOK /\ FaultsOK /\ 0 \in 0 .. MaxRevision
  BY DatabaseAssumption DEF Typed
<1>1. TablesOK' /\ ConnOK' /\ FaultsOK'
  <2>1. CASE /\ Write([main EXCEPT !.file[r] = 0])
             /\ UNCHANGED <<last_rowid, aged, faults, failed>>
    <3>1. TablesOK' /\ txn' = txn
      BY <1>0, <2>1, WithFile, WriteTables
    <3>2. QED
      BY <3>1, <1>0, <2>1 DEF ConnOK, FaultsOK
  <2>2. CASE Fails
    BY <1>0, <2>2, FailsTables
  <2>3. QED
    BY <2>1, <2>2 DEF DelFile
<1>2. UNCHANGED <<FileStep, next, linked>> /\ Goto(r, "insFile") /\ pc[r] = "delFile"
  BY DEF DelFile
<1>3. PcOK'
  BY <1>0, <1>2 DEF Typed, Goto, PcOK, PCs, Storing
<1>4. BatchOK' /\ FileOK'
  BY <1>2, TypesFileStep DEF Typed, BatchOK, FileOK
<1>5. InRange'
  BY <1>0, <1>2 DEF Typed, Goto, InRange, Storing, PcOK, FileStep
<1>6. QED
  BY <1>1, <1>2, <1>3, <1>4, <1>5, TypesFileStep DEF Typed

LEMMA TypesInsFile == ASSUME Typed, NEW r \in FileRelays, InsFile(r) PROVE Typed'
<1>0. r \in Relays /\ TablesOK /\ ConnOK /\ FaultsOK
  BY DatabaseAssumption DEF Typed
<1>1. TablesOK' /\ ConnOK' /\ FaultsOK'
  <2>1. CASE /\ Write([main EXCEPT !.file[r] = rev[r]])
             /\ last_rowid' = r
             /\ UNCHANGED <<aged, faults, failed>>
    <3>1. rev[r] \in 0 .. MaxRevision
      BY <1>0 DEF Typed, FileOK
    <3>2. TablesOK' /\ txn' = txn
      BY <3>1, <1>0, <2>1, WithFile, WriteTables
    <3>3. QED
      BY <3>2, <1>0, <2>1 DEF ConnOK, FaultsOK
  <2>2. CASE UNCHANGED <<database, aged, faults, failed>>
    BY <1>0, <2>2 DEF database, TablesOK, ConnOK, FaultsOK
  <2>3. CASE Fails
    BY <1>0, <2>3, FailsTables
  <2>4. QED
    BY <2>1, <2>2, <2>3 DEF InsFile
<1>2. /\ UNCHANGED <<FileStep, next, linked>> /\ pc[r] = "insFile"
      /\ \E label \in {"rowid", "rollback"} : Goto(r, label)
  BY DEF InsFile
<1>3. PcOK'
  BY <1>0, <1>2 DEF Typed, Goto, PcOK, PCs, Storing
<1>4. BatchOK' /\ FileOK'
  BY <1>2, TypesFileStep DEF Typed, BatchOK, FileOK
<1>5. InRange'
  BY <1>0, <1>2 DEF Typed, Goto, InRange, Storing, PcOK, FileStep
<1>6. QED
  BY <1>1, <1>2, <1>3, <1>4, <1>5, TypesFileStep DEF Typed

LEMMA TypesRowId == ASSUME Typed, NEW r \in FileRelays, RowId(r) PROVE Typed'
<1>0. r \in Relays
  BY DatabaseAssumption
<1>1. TablesOK' /\ ConnOK' /\ FaultsOK'
  BY DEF Typed, RowId, database, TablesOK, ConnOK, FaultsOK
<1>2. UNCHANGED FileStep /\ Goto(r, "insEntry") /\ pc[r] = "rowid"
  BY DEF RowId
<1>3. PcOK'
  BY <1>0, <1>2 DEF Typed, Goto, PcOK, PCs, Storing
<1>4. BatchOK'
  <2>1. next' \in [Relays -> Nat]
    BY DEF Typed, RowId, BatchOK
  <2>2. QED
    BY <1>2, <2>1, TypesFileStep DEF BatchOK
<1>5. FileOK'
  <2>1. linked' \in [Relays -> BOOLEAN]
    BY DEF Typed, RowId, FileOK
  <2>2. QED
    BY <1>2, <2>1, TypesFileStep DEF FileOK
<1>6. InRange'
  BY <1>0, <1>2 DEF Typed, RowId, Goto, InRange, Storing, PcOK, BatchOK, FileStep
<1>7. QED
  BY <1>1, <1>2, <1>3, <1>4, <1>5, <1>6, TypesFileStep DEF Typed

LEMMA TypesInsEntry == ASSUME Typed, NEW r \in FileRelays, InsEntry(r) PROVE Typed'
<1>0. r \in Relays /\ TablesOK /\ ConnOK /\ FaultsOK
  BY DatabaseAssumption DEF Typed
<1> DEFINE entry == [relay |-> r, rev |-> rev[r], line |-> next[r], linked |-> linked[r]]
<1>1. TablesOK' /\ ConnOK' /\ FaultsOK'
  <2>1. CASE /\ next[r] <= Lines
             /\ Write([main EXCEPT !.entries = @ \union {entry}])
             /\ last_rowid' = Other
             /\ UNCHANGED <<pc, aged, faults, failed>>
    <3>1. rev[r] \in 1 .. MaxRevision
      <4>1. rev[r] \in 0 .. MaxRevision /\ linked[r] \in BOOLEAN
        BY <1>0 DEF Typed, FileOK
      <4>2. rev[r] >= 1
        BY <1>0 DEF Typed, InRange, InsEntry, Storing
      <4>3. QED
        BY <4>1, <4>2, DatabaseAssumption
    <3>2. next[r] \in 1 .. Lines
      <4>1. next[r] \in Nat /\ next[r] >= 1
        BY <1>0 DEF Typed, InRange, BatchOK
      <4>2. QED
        BY <4>1, <2>1, DatabaseAssumption
    <3>3. linked[r] \in BOOLEAN
      BY <1>0 DEF Typed, FileOK
    <3>4. entry \in Entries
      BY <3>1, <3>2, <3>3 DEF Entries
    <3>5. main.entries \union {entry} \in SUBSET Entries
      BY <3>4, <1>0 DEF TablesOK, Tables
    <3>6. TablesOK' /\ txn' = txn
      BY <3>5, <1>0, <2>1, WithEntries, WriteTables
    <3>7. QED
      BY <3>6, <1>0, <2>1 DEF ConnOK, FaultsOK
  <2>2. CASE UNCHANGED <<database, next, aged, faults, failed>>
    BY <1>0, <2>2 DEF database, TablesOK, ConnOK, FaultsOK
  <2>3. CASE Fails
    BY <1>0, <2>3, FailsTables
  <2>4. QED
    BY <2>1, <2>2, <2>3 DEF InsEntry
<1>2. /\ UNCHANGED <<FileStep, linked>> /\ pc[r] = "insEntry"
      /\ UNCHANGED pc \/ \E label \in {"fileCommit", "rollback"} : Goto(r, label)
  BY DEF InsEntry
<1>3. UNCHANGED next \/ next' = [next EXCEPT ![r] = @ + 1]
  BY DEF InsEntry
<1>4. PcOK'
  BY <1>0, <1>2 DEF Typed, Goto, PcOK, PCs, Storing
<1>5. BatchOK' /\ FileOK'
  <2>1. next' \in [Relays -> Nat]
    BY <1>3 DEF Typed, BatchOK
  <2>2. QED
    BY <1>2, <2>1, TypesFileStep DEF Typed, BatchOK, FileOK
<1>6. InRange'
  <2>1. \A s \in Relays : next'[s] >= 1
    BY <1>3 DEF Typed, InRange, BatchOK
  <2>2. \A s \in Relays : s # r => next'[s] = next[s] /\ pc'[s] = pc[s]
    BY <1>2, <1>3 DEF Typed, Goto, PcOK, BatchOK
  <2>3. pc'[r] \in Storing /\ pc'[r] # "insert" /\ pc[r] \in Storing
    BY <1>0, <1>2 DEF Typed, Goto, PcOK, Storing
  <2>4. UNCHANGED <<upto, rev>>
    BY <1>2 DEF FileStep
  <2>5. QED
    BY <2>1, <2>2, <2>3, <2>4 DEF Typed, InRange
<1>7. QED
  BY <1>1, <1>2, <1>4, <1>5, <1>6, TypesFileStep DEF Typed

LEMMA TypesRollback == ASSUME Typed, NEW r \in FileRelays, Rollback(r) PROVE Typed'
<1>0. r \in Relays /\ TablesOK /\ ConnOK /\ FaultsOK
  BY DatabaseAssumption DEF Typed
<1>1. TablesOK' /\ ConnOK' /\ FaultsOK'
  <2>1. faults' = faults
    BY DEF Rollback
  <2>2. faults' \in Nat
    BY <1>0, <2>1 DEF FaultsOK
  <2>3. QED
    BY <1>0, <2>2, RollbackTables DEF Rollback, FaultsOK
<1>2. DropLocals(r) /\ UNCHANGED FileRest /\ Goto(r, "idle")
  BY DEF Rollback
<1>3. QED
  BY <1>0, <1>1, <1>2, TypesReturn DEF Typed

(* The world *)

LEMMA TypesLog == ASSUME Typed, NEW r \in Relays, Log(r) PROVE Typed'
<1>1. TablesOK' /\ ConnOK' /\ FaultsOK' /\ HistoryOK'
  BY DEF Typed, Log, database, history, TablesOK, ConnOK, FaultsOK, HistoryOK
<1>2. PcOK' /\ BatchOK' /\ CountOK' /\ FileOK' /\ InRange'
  BY DEF Typed, Log, worker, PcOK, BatchOK, CountOK, FileOK, InRange
<1>3. WorldOK'
  <2>1. logged[r] + 1 \in 0 .. MaxEvents
    BY DatabaseAssumption DEF Typed, Log, WorldOK
  <2>2. QED
    BY <2>1 DEF Typed, Log, WorldOK
<1>4. QED
  BY <1>1, <1>2, <1>3 DEF Typed

LEMMA TypesRevise == ASSUME Typed, NEW r \in FileRelays, Revise(r) PROVE Typed'
<1>1. TablesOK' /\ ConnOK' /\ FaultsOK' /\ HistoryOK'
  BY DEF Typed, Revise, database, history, TablesOK, ConnOK, FaultsOK, HistoryOK
<1>2. PcOK' /\ BatchOK' /\ CountOK' /\ FileOK' /\ InRange'
  BY DEF Typed, Revise, worker, PcOK, BatchOK, CountOK, FileOK, InRange
<1>3. WorldOK'
  <2>1. revision[r] + 1 \in 0 .. MaxRevision
    BY DatabaseAssumption DEF Typed, Revise, WorldOK
  <2>2. QED
    BY <2>1 DEF Typed, Revise, WorldOK
<1>4. QED
  BY <1>1, <1>2, <1>3 DEF Typed

LEMMA TypesAge == ASSUME Typed, NEW e \in Events, Age(e) PROVE Typed'
<1>1. TablesOK' /\ ConnOK' /\ HistoryOK'
  BY DEF Typed, Age, database, history, TablesOK, ConnOK, HistoryOK
<1>2. PcOK' /\ BatchOK' /\ CountOK' /\ FileOK' /\ InRange'
  BY DEF Typed, Age, worker, PcOK, BatchOK, CountOK, FileOK, InRange
<1>3. ages' \in Nat
  BY DEF Typed, Age, WorldOK
<1>4. WorldOK'
  BY <1>3 DEF Typed, Age, WorldOK
<1>5. FaultsOK'
  BY DEF Typed, Age, history, FaultsOK
<1>6. QED
  BY <1>1, <1>2, <1>4, <1>5 DEF Typed

LEMMA TypesCrash == ASSUME Typed, Crash PROVE Typed'
<1>1. TablesOK' /\ ConnOK' /\ HistoryOK'
  BY DEF Typed, Crash, history, TablesOK, ConnOK, HistoryOK
<1>2. PcOK'
  BY DEF Crash, PcOK, PCs
<1>a. 0 \in 0 .. MaxEvents /\ 0 \in 0 .. MaxRevision
  BY DatabaseAssumption
<1>3. BatchOK'
  BY <1>a DEF Crash, BatchOK
<1>4. CountOK'
  BY DatabaseAssumption DEF Crash, CountOK
<1>5. FileOK' /\ WorldOK'
  BY <1>a DEF Typed, Crash, FileOK, WorldOK
<1>6. faults' \in Nat
  BY DEF Typed, Crash, FaultsOK
<1>7. FaultsOK'
  BY <1>6 DEF Typed, Crash, FaultsOK, history
<1>8. InRange'
  <2>1. \A r \in Relays : pc'[r] = "idle" /\ next'[r] = 1
    BY DEF Crash
  <2>2. "idle" # "insert" /\ "idle" \notin {"fileBegin"} \union Storing
    BY DEF Storing
  <2>3. QED
    BY <2>1, <2>2 DEF Typed, InRange
<1>9. QED
  BY <1>1, <1>2, <1>3, <1>4, <1>5, <1>7, <1>8 DEF Typed

LEMMA TypesStutter == Typed /\ UNCHANGED vars => Typed'
<1> SUFFICES ASSUME Typed, UNCHANGED vars PROVE Typed'
  OBVIOUS
<1>1. TablesOK' /\ ConnOK' /\ FaultsOK' /\ HistoryOK'
  BY DEF Typed, vars, TablesOK, ConnOK, FaultsOK, HistoryOK
<1>2. PcOK' /\ BatchOK' /\ CountOK' /\ FileOK' /\ InRange'
  BY DEF Typed, vars, PcOK, BatchOK, CountOK, FileOK, InRange
<1>3. WorldOK'
  BY DEF Typed, vars, WorldOK
<1>4. QED
  BY <1>1, <1>2, <1>3 DEF Typed

LEMMA TypesNext == Typed /\ [Next]_vars => Typed'
<1> SUFFICES ASSUME Typed, [Next]_vars PROVE Typed'
  OBVIOUS
<1>1. ASSUME NEW r \in Relays, Worker(r) PROVE Typed'
  BY <1>1, TypesBegin, TypesExists, TypesInsert, TypesCommit, TypesPrune, TypesReport,
     TypesDelEntries, TypesDelFile, TypesInsFile, TypesRowId, TypesInsEntry, TypesRollback
     DEF Worker
<1>2. QED
  BY <1>1, TypesTakeSer, TypesLog, TypesTakeFile, TypesRevise, TypesAge, TypesCrash,
     TypesStutter DEF Next

(* TypeOK holds for every number of relays, events, revisions and lines.   *)
THEOREM TypeCorrect == Spec => []TypeOK
<1>1. Spec => []Typed
  BY TypesInit, TypesNext, PTL DEF Spec
<1>2. Typed => TypeOK
  BY TypeParts
<1>3. QED
  BY <1>1, <1>2, PTL

-----------------------------------------------------------------------------
(* The transaction has an owner *)

Inside == Recording \union Storing

LEMMA OwnedStep ==
  ASSUME PcOK, TransactionOwned, NEW r \in Relays, NEW label, Goto(r, label),
         txn' => txn, pc[r] \in Inside => label \in Inside
  PROVE  TransactionOwned'
<1> SUFFICES ASSUME txn' PROVE \E s \in Relays : pc'[s] \in Inside
  BY DEF TransactionOwned, Inside
<1>1. PICK s \in Relays : pc[s] \in Inside
  BY DEF TransactionOwned, Inside
<1>2. pc'[s] = IF s = r THEN label ELSE pc[s]
  BY DEF Goto, PcOK
<1>3. pc'[s] \in Inside
  BY <1>1, <1>2
<1>4. QED
  BY <1>3

LEMMA OwnedSame ==
  ASSUME TransactionOwned, UNCHANGED pc, txn' => txn
  PROVE  TransactionOwned'
  BY DEF TransactionOwned

LEMMA NoneOwned == ASSUME ~txn' PROVE TransactionOwned'
  BY DEF TransactionOwned

LEMMA OwnedRecording ==
  ASSUME Typed, TransactionOwned, NEW r \in Relays,
         Begin(r) \/ Exists(r) \/ Insert(r) \/ Commit(r) \/ Prune(r) \/ Report(r) \/ TakeSer(r)
  PROVE  TransactionOwned'
<1>0. PcOK
  BY DEF Typed
<1>1. CASE Begin(r)
  <2>1. pc'[r] \in Inside
    BY <1>0, <1>1 DEF Begin, Goto, PcOK, Inside, Recording, Storing
  <2>2. QED
    BY <2>1 DEF TransactionOwned, Inside
<1>2. CASE Exists(r)
  <2>1. txn' => txn
    BY <1>2 DEF Exists, database
  <2>2. UNCHANGED pc \/ \E label \in Recording : Goto(r, label)
    BY <1>2 DEF Exists, Recording
  <2>3. QED
    BY <1>0, <2>1, <2>2, OwnedStep, OwnedSame DEF Inside
<1>3. CASE Insert(r)
  <2>1. txn' => txn
    BY <1>3 DEF Insert, Write, Fails, database
  <2>2. Goto(r, "exists") /\ "exists" \in Inside
    BY <1>3 DEF Insert, Inside, Recording
  <2>3. QED
    BY <1>0, <2>1, <2>2, OwnedStep
<1>4. CASE Commit(r)
  <2>1. ~txn'
    BY <1>4 DEF Commit, CommitStmt
  <2>2. QED
    BY <2>1, NoneOwned
<1>5. CASE Prune(r)
  <2>1. txn' => txn
    BY <1>5 DEF Prune, Write, Fails, database
  <2>2. Goto(r, "report") /\ pc[r] \notin Inside
    BY <1>5 DEF Prune, Inside, Recording, Storing
  <2>3. QED
    BY <1>0, <2>1, <2>2, OwnedStep
<1>6. CASE Report(r)
  <2>1. (txn' => txn) /\ Goto(r, "idle") /\ pc[r] \notin Inside
    BY <1>6 DEF Report, database, Inside, Recording, Storing
  <2>2. QED
    BY <1>0, <2>1, OwnedStep
<1>7. CASE TakeSer(r)
  <2>1. (txn' => txn) /\ Goto(r, "begin") /\ pc[r] \notin Inside
    BY <1>7 DEF TakeSer, database, Inside, Recording, Storing
  <2>2. QED
    BY <1>0, <2>1, OwnedStep
<1>8. QED
  BY <1>1, <1>2, <1>3, <1>4, <1>5, <1>6, <1>7

LEMMA OwnedStoring ==
  ASSUME Typed, TransactionOwned, NEW r \in FileRelays,
         \/ DelEntries(r) \/ DelFile(r) \/ InsFile(r) \/ RowId(r) \/ InsEntry(r)
         \/ Rollback(r) \/ TakeFile(r)
  PROVE  TransactionOwned'
<1>0. PcOK /\ r \in Relays
  BY DatabaseAssumption DEF Typed
<1>1. CASE DelEntries(r)
  <2>1. (txn' => txn) /\ Goto(r, "delFile") /\ "delFile" \in Inside
    BY <1>1 DEF DelEntries, Write, Fails, Inside, Storing
  <2>2. QED
    BY <1>0, <2>1, OwnedStep
<1>2. CASE DelFile(r)
  <2>1. (txn' => txn) /\ Goto(r, "insFile") /\ "insFile" \in Inside
    BY <1>2 DEF DelFile, Write, Fails, Inside, Storing
  <2>2. QED
    BY <1>0, <2>1, OwnedStep
<1>3. CASE InsFile(r)
  <2>1. txn' => txn
    BY <1>3 DEF InsFile, Write, Fails, database
  <2>2. \E label \in Inside : Goto(r, label)
    BY <1>3 DEF InsFile, Inside, Storing
  <2>3. QED
    BY <1>0, <2>1, <2>2, OwnedStep
<1>4. CASE RowId(r)
  <2>1. (txn' => txn) /\ Goto(r, "insEntry") /\ "insEntry" \in Inside
    BY <1>4 DEF RowId, database, Inside, Storing
  <2>2. QED
    BY <1>0, <2>1, OwnedStep
<1>5. CASE InsEntry(r)
  <2>1. txn' => txn
    BY <1>5 DEF InsEntry, Write, Fails, database
  <2>2. UNCHANGED pc \/ \E label \in Inside : Goto(r, label)
    BY <1>5 DEF InsEntry, Inside, Storing
  <2>3. QED
    BY <1>0, <2>1, <2>2, OwnedStep, OwnedSame
<1>6. CASE Rollback(r)
  <2>1. ~txn'
    BY <1>6 DEF Rollback, RollbackStmt
  <2>2. QED
    BY <2>1, NoneOwned
<1>7. CASE TakeFile(r)
  <2>1. (txn' => txn) /\ Goto(r, "fileBegin") /\ pc[r] \notin Inside
    BY <1>7 DEF TakeFile, database, Inside, Recording, Storing
  <2>2. QED
    BY <1>0, <2>1, OwnedStep
<1>8. QED
  BY <1>1, <1>2, <1>3, <1>4, <1>5, <1>6, <1>7

LEMMA OwnedWorld ==
  ASSUME TransactionOwned,
         \/ \E r \in Relays : Log(r)
         \/ \E r \in FileRelays : Revise(r)
         \/ \E e \in Events : Age(e)
         \/ Crash
         \/ UNCHANGED vars
  PROVE  TransactionOwned'
<1>1. CASE Crash
  BY <1>1, NoneOwned DEF Crash
<1>2. CASE \/ \E r \in Relays : Log(r)
           \/ \E r \in FileRelays : Revise(r)
           \/ \E e \in Events : Age(e)
           \/ UNCHANGED vars
  BY <1>2 DEF Log, Revise, Age, vars, database, worker, TransactionOwned
<1>3. QED
  BY <1>1, <1>2

(* No transaction is left open when no worker is within its calls.         *)
THEOREM TransactionsAreOwned == Spec => []TransactionOwned
<1>1. Init => TransactionOwned
  BY DEF Init, TransactionOwned
<1>2. Typed /\ TransactionOwned /\ [Next]_vars => TransactionOwned'
  BY OwnedRecording, OwnedStoring, OwnedWorld DEF Next, Worker
<1>3. QED
  BY <1>1, <1>2, TypesInit, TypesNext, PTL DEF Spec

-----------------------------------------------------------------------------
(* What was reported stays *)

(* Without a transaction the connection sees what is on the disk; and old  *)
(* records are records.                                                    *)
Synced == ~txn => main = disk
AgedStored == aged \subseteq main.records

(* Until a statement fails: what a worker took for new is in the tables,   *)
(* not old, its own relay's and not reported yet, and from its COMMIT on   *)
(* it is on the disk; what it is about to insert is not there; and what    *)
(* was reported is in the tables and on the disk.                          *)
BatchFresh ==
  ~failed => \A r \in Relays :
    /\ newRecords[r] \subseteq main.records
    /\ newRecords[r] \intersect aged = {}
    /\ newRecords[r] \intersect reported = {}
    /\ \A e \in newRecords[r] : e[1] = r
Committed ==
  ~failed => \A r \in Relays : pc[r] \in {"prune", "report"} => newRecords[r] \subseteq disk.records
Absent ==
  ~failed => \A r \in Relays : pc[r] = "insert" => <<r, next[r]>> \notin main.records
Durable ==
  ~failed => reported \subseteq main.records /\ reported \subseteq disk.records /\ repeated = {}

Kept == Synced /\ AgedStored /\ BatchFresh /\ Committed /\ Absent /\ Durable

LEMMA KeptInit == Init => Kept
<1> SUFFICES ASSUME Init PROVE Kept
  OBVIOUS
<1>1. Synced /\ AgedStored /\ BatchFresh /\ Durable
  BY DEF Init, Synced, AgedStored, BatchFresh, Durable
<1>2. \A r \in Relays : pc[r] = "idle"
  BY DEF Init
<1>3. Committed /\ Absent
  BY <1>2 DEF Committed, Absent
<1>4. QED
  BY <1>1, <1>3 DEF Kept

(* Once a statement failed only the first two are left to show. *)
LEMMA KeptFailed == ASSUME failed', Synced', AgedStored' PROVE Kept'
  BY DEF Kept, BatchFresh, Committed, Absent, Durable

LEMMA KeptFails == ASSUME Kept, Fails PROVE Kept'
<1>1. failed'
  BY DEF Fails
<1>2. Synced' /\ AgedStored'
  BY DEF Fails, Kept, Synced, AgedStored
<1>3. QED
  BY <1>1, <1>2, KeptFailed

(* A step that leaves the records, the old ones and the history alone, and *)
(* moves one worker at most, to a place where nothing is claimed of it.    *)
LEMMA KeptQuiet ==
  ASSUME Kept, PcOK, Synced',
         main'.records = main.records, disk'.records = disk.records,
         UNCHANGED <<aged, failed, reported, repeated, newRecords>>,
         NEW r \in Relays,
         \A s \in Relays : s # r => next'[s] = next[s] /\ pc'[s] = pc[s],
         pc'[r] \notin {"insert", "prune", "report"}
  PROVE  Kept'
<1>1. AgedStored' /\ BatchFresh' /\ Durable'
  BY DEF Kept, AgedStored, BatchFresh, Durable
<1>2. Committed'
  BY DEF Kept, Committed
<1>3. Absent'
  BY DEF Kept, Absent
<1>4. QED
  BY <1>1, <1>2, <1>3 DEF Kept

LEMMA KeptWrite ==
  ASSUME Kept, PcOK, TablesOK, NEW t \in Tables, t.records = main.records, Write(t),
         UNCHANGED <<aged, failed, reported, repeated, newRecords>>,
         NEW r \in Relays,
         \A s \in Relays : s # r => next'[s] = next[s] /\ pc'[s] = pc[s],
         pc'[r] \notin {"insert", "prune", "report"}
  PROVE  Kept'
<1>1. Synced'
  BY DEF Write, Kept, Synced
<1>2. main'.records = main.records /\ disk'.records = disk.records
  BY DEF Write, Kept, Synced
<1>3. QED
  BY <1>1, <1>2, KeptQuiet

(* ... as when nothing at all happens to the tables. *)
LEMMA KeptDatabase ==
  ASSUME Kept, PcOK, UNCHANGED database,
         UNCHANGED <<aged, failed, reported, repeated, newRecords>>,
         NEW r \in Relays,
         \A s \in Relays : s # r => next'[s] = next[s] /\ pc'[s] = pc[s],
         pc'[r] \notin {"insert", "prune", "report"}
  PROVE  Kept'
<1>1. Synced' /\ main'.records = main.records /\ disk'.records = disk.records
  BY DEF Kept, Synced, database
<1>2. QED
  BY <1>1, KeptQuiet

LEMMA Moves ==
  ASSUME Typed, NEW r \in Relays, NEW label, Goto(r, label)
  PROVE  pc'[r] = label /\ \A s \in Relays : s # r => pc'[s] = pc[s]
  BY DEF Typed, PcOK, Goto

LEMMA Advances ==
  ASSUME Typed, NEW r \in Relays, NEW n,
         UNCHANGED next \/ next' = [next EXCEPT ![r] = n]
  PROVE  \A s \in Relays : s # r => next'[s] = next[s]
  BY DEF Typed, BatchOK

LEMMA KeptBegin == ASSUME Typed, Kept, NEW r \in Relays, Begin(r) PROVE Kept'
<1>1. PICK label \in {"exists", "delEntries"} : Goto(r, label)
  BY DEF Begin
<1>2. pc'[r] = label /\ \A s \in Relays : s # r => next'[s] = next[s] /\ pc'[s] = pc[s]
  BY <1>1, Moves DEF Begin
<1>3. Synced' /\ main' = main /\ disk' = disk
  BY DEF Begin, BeginStmt, Synced
<1>4. UNCHANGED <<aged, failed, reported, repeated, newRecords>>
  BY DEF Begin, world, history
<1>5. QED
  BY <1>2, <1>3, <1>4, KeptQuiet DEF Typed

LEMMA KeptTakeFile == ASSUME Typed, Kept, NEW r \in FileRelays, TakeFile(r) PROVE Kept'
<1>0. r \in Relays /\ PcOK
  BY DatabaseAssumption DEF Typed
<1>1. pc'[r] = "fileBegin" /\ \A s \in Relays : s # r => next'[s] = next[s] /\ pc'[s] = pc[s]
  BY <1>0, Moves DEF TakeFile
<1>2. UNCHANGED <<aged, failed, reported, repeated, newRecords>> /\ UNCHANGED database
  BY DEF TakeFile, world, history
<1>3. QED
  BY <1>0, <1>1, <1>2, KeptDatabase

LEMMA KeptStoring ==
  ASSUME Typed, Kept, NEW r \in FileRelays,
         DelEntries(r) \/ DelFile(r) \/ InsFile(r) \/ RowId(r) \/ InsEntry(r) \/ Rollback(r)
  PROVE  Kept'
<1>0. r \in Relays /\ PcOK /\ TablesOK
  BY DatabaseAssumption DEF Typed
<1>a. UNCHANGED <<reported, repeated, newRecords>>
  BY DEF DelEntries, DelFile, InsFile, RowId, InsEntry, Rollback, FileStep, FileRest
<1>b. \A s \in Relays : s # r => next'[s] = next[s]
  BY <1>0, Advances DEF DelEntries, DelFile, InsFile, RowId, InsEntry, Rollback, DropLocals
<1>c. UNCHANGED pc \/ \E label \in Storing \union {"idle"} : Goto(r, label)
  BY DEF DelEntries, DelFile, InsFile, RowId, InsEntry, Rollback, Storing
<1>d. pc[r] \in Storing
  BY DEF DelEntries, DelFile, InsFile, RowId, InsEntry, Rollback, Storing
<1>e. pc'[r] \notin {"insert", "prune", "report"} /\ \A s \in Relays : s # r => pc'[s] = pc[s]
  BY <1>0, <1>c, <1>d, Moves DEF Storing
<1>1. CASE /\ UNCHANGED <<aged, failed>>
           /\ \E t \in Tables : t.records = main.records /\ Write(t)
  BY <1>0, <1>a, <1>b, <1>e, <1>1, KeptWrite
<1>2. CASE UNCHANGED <<aged, failed>> /\ UNCHANGED database
  BY <1>0, <1>a, <1>b, <1>e, <1>2, KeptDatabase
<1>3. CASE Fails
  BY <1>3, KeptFails
<1>4. CASE RollbackStmt
  <2>1. failed' /\ Synced' /\ AgedStored'
    BY <1>4 DEF RollbackStmt, Kept, Synced, AgedStored
  <2>2. QED
    BY <2>1, KeptFailed
<1>5. CASE DelEntries(r)
  <2>1. CASE Fails
    BY <1>3, <2>1
  <2>2. CASE /\ Write([main EXCEPT !.entries = @ \ EntriesOf(main, r)])
             /\ UNCHANGED <<last_rowid, aged, faults, failed>>
    <3>1. main.entries \ EntriesOf(main, r) \in SUBSET Entries
      BY <1>0 DEF TablesOK, Tables
    <3>2. QED
      BY <1>0, <1>1, <2>2, <3>1, WithEntries
  <2>3. QED
    BY <1>5, <2>1, <2>2 DEF DelEntries
<1>6. CASE DelFile(r)
  <2>1. CASE Fails
    BY <1>3, <2>1
  <2>2. CASE Write([main EXCEPT !.file[r] = 0]) /\ UNCHANGED <<last_rowid, aged, faults, failed>>
    <3>1. 0 \in 0 .. MaxRevision
      BY DatabaseAssumption
    <3>2. QED
      BY <1>0, <1>1, <2>2, <3>1, WithFile
  <2>3. QED
    BY <1>6, <2>1, <2>2 DEF DelFile
<1>7. CASE InsFile(r)
  <2>1. CASE Fails
    BY <1>3, <2>1
  <2>2. CASE UNCHANGED <<database, aged, faults, failed>>
    BY <1>2, <2>2
  <2>3. CASE Write([main EXCEPT !.file[r] = rev[r]]) /\ UNCHANGED <<aged, faults, failed>>
    <3>1. rev[r] \in 0 .. MaxRevision
      BY <1>0 DEF Typed, FileOK
    <3>2. QED
      BY <1>0, <1>1, <2>3, <3>1, WithFile
  <2>4. QED
    BY <1>7, <2>1, <2>2, <2>3 DEF InsFile
<1>8. CASE RowId(r)
  BY <1>2, <1>8 DEF RowId
<1>9. CASE InsEntry(r)
  <2>1. CASE Fails
    BY <1>3, <2>1
  <2>2. CASE UNCHANGED <<database, next, aged, faults, failed>>
    BY <1>2, <2>2
  <2> DEFINE entry == [relay |-> r, rev |-> rev[r], line |-> next[r], linked |-> linked[r]]
  <2>3. CASE /\ next[r] <= Lines
             /\ Write([main EXCEPT !.entries = @ \union {entry}])
             /\ UNCHANGED <<pc, aged, faults, failed>>
    <3>1. rev[r] \in 0 .. MaxRevision /\ linked[r] \in BOOLEAN /\ next[r] \in Nat
      BY <1>0 DEF Typed, FileOK, BatchOK
    <3>2. rev[r] >= 1 /\ next[r] >= 1
      BY <1>0, <1>d DEF Typed, InRange
    <3>3. rev[r] \in 1 .. MaxRevision /\ next[r] \in 1 .. Lines
      BY <3>1, <3>2, <2>3, DatabaseAssumption
    <3>4. entry \in Entries
      BY <3>1, <3>3 DEF Entries
    <3>5. main.entries \union {entry} \in SUBSET Entries
      BY <1>0, <3>4 DEF TablesOK, Tables
    <3>6. QED
      BY <1>0, <1>1, <2>3, <3>5, WithEntries
  <2>4. QED
    BY <1>9, <2>1, <2>2, <2>3 DEF InsEntry
<1>10. CASE Rollback(r)
  BY <1>4, <1>10 DEF Rollback
<1>11. QED
  BY <1>5, <1>6, <1>7, <1>8, <1>9, <1>10

LEMMA KeptExists == ASSUME Typed, Kept, NEW r \in Relays, Exists(r) PROVE Kept'
<1>0. UNCHANGED database /\ UNCHANGED <<aged, failed, reported, repeated, newRecords>>
  BY DEF Exists, world, history
<1>1. Synced' /\ AgedStored' /\ BatchFresh' /\ Durable'
  BY <1>0 DEF Kept, Synced, AgedStored, BatchFresh, Durable, database
<1>2. \/ UNCHANGED next /\ Goto(r, "commit")
      \/ UNCHANGED pc /\ pc[r] = "exists" /\ next' = [next EXCEPT ![r] = @ + 1]
      \/ UNCHANGED next /\ Goto(r, "insert") /\ <<r, next[r]>> \notin main.records
  BY DEF Exists
<1>3. \A s \in Relays : s # r => next'[s] = next[s] /\ pc'[s] = pc[s]
  BY <1>2, Advances, Moves
<1>4. \/ pc'[r] \in {"commit", "exists"}
      \/ pc'[r] = "insert" /\ <<r, next'[r]>> \notin main.records
  BY <1>2, Moves
<1>5. Committed'
  BY <1>0, <1>3, <1>4 DEF Kept, Committed, database
<1>6. Absent'
  BY <1>0, <1>3, <1>4 DEF Kept, Absent, database
<1>7. QED
  BY <1>1, <1>5, <1>6 DEF Kept

LEMMA KeptInsert == ASSUME Typed, Kept, NEW r \in Relays, Insert(r) PROVE Kept'
<1> DEFINE e == <<r, next[r]>>
<1>0. PcOK /\ TablesOK /\ newRecords \in [Relays -> SUBSET Events]
  BY DEF Typed, BatchOK
<1>1. pc[r] = "insert" /\ pc'[r] = "exists"
  BY Moves DEF Insert
<1>2. \A s \in Relays : s # r => next'[s] = next[s] /\ pc'[s] = pc[s]
  BY Moves, Advances DEF Insert
<1>3. CASE Fails
  BY <1>3, KeptFails
<1>4. CASE /\ e \in main.records
           /\ newRecords' \in {newRecords, [newRecords EXCEPT ![r] = @ \union {e}]}
           /\ UNCHANGED <<database, aged, faults, failed>>
  <2>1. Synced' /\ AgedStored'
    BY <1>4 DEF Kept, Synced, AgedStored, database
  <2>2. failed'
    BY <1>1, <1>4 DEF Kept, Absent
  <2>3. QED
    BY <2>1, <2>2, KeptFailed
<1>5. CASE /\ e \notin main.records
           /\ Write([main EXCEPT !.records = @ \union {e}])
           /\ newRecords' = [newRecords EXCEPT ![r] = @ \union {e}]
           /\ UNCHANGED <<aged, faults, failed>>
  <2>1. e \in Events
    <3>1. next[r] \in Nat /\ next[r] >= 1 /\ next[r] <= upto[r] /\ upto[r] \in 0 .. MaxEvents
      BY <1>1 DEF Typed, InRange, BatchOK
    <3>2. next[r] \in 1 .. MaxEvents
      BY <3>1, DatabaseAssumption
    <3>3. QED
      BY <3>2 DEF Events
  <2>2. main'.records = main.records \union {e}
    <3>1. main.records \union {e} \in SUBSET Events
      BY <1>0, <2>1 DEF TablesOK, Tables
    <3>2. QED
      BY <1>0, <1>5, <3>1, WithRecords DEF Write
  <2>3. Synced'
    BY <1>5 DEF Kept, Synced, Write
  <2>4. AgedStored'
    BY <1>5, <2>2 DEF Kept, AgedStored
  <2>5. disk.records \subseteq disk'.records
    BY <1>5, <2>2 DEF Kept, Synced, Write
  <2>6. UNCHANGED <<aged, failed, reported, repeated>>
    BY <1>5 DEF Insert
  <2>7. newRecords'[r] = newRecords[r] \union {e}
        /\ \A s \in Relays : s # r => newRecords'[s] = newRecords[s]
    BY <1>0, <1>5
  <2>8. BatchFresh'
    <3> SUFFICES ASSUME ~failed, NEW s \in Relays
                 PROVE  /\ newRecords'[s] \subseteq main'.records
                        /\ newRecords'[s] \intersect aged = {}
                        /\ newRecords'[s] \intersect reported = {}
                        /\ \A x \in newRecords'[s] : x[1] = s
      BY <2>6 DEF BatchFresh
    <3>1. /\ newRecords[s] \subseteq main.records
          /\ newRecords[s] \intersect aged = {}
          /\ newRecords[s] \intersect reported = {}
          /\ \A x \in newRecords[s] : x[1] = s
      BY DEF Kept, BatchFresh
    <3>2. e \notin aged /\ e \notin reported /\ e[1] = r
      BY <1>5 DEF Kept, AgedStored, Durable
    <3>3. QED
      BY <3>1, <3>2, <2>2, <2>7
  <2>9. Committed'
    BY <1>1, <1>2, <2>5, <2>6, <2>7 DEF Kept, Committed
  <2>10. Absent'
    <3> SUFFICES ASSUME ~failed, NEW s \in Relays, pc'[s] = "insert"
                 PROVE  <<s, next'[s]>> \notin main'.records
      BY <2>6 DEF Absent
    <3>1. s # r
      BY <1>1
    <3>2. pc[s] = "insert" /\ next'[s] = next[s] /\ <<s, next[s]>> # e
      BY <3>1, <1>2
    <3>3. <<s, next[s]>> \notin main.records
      BY <3>2 DEF Kept, Absent
    <3>4. QED
      BY <3>2, <3>3, <2>2
  <2>11. Durable'
    BY <2>2, <2>5, <2>6 DEF Kept, Durable
  <2>12. QED
    BY <2>3, <2>4, <2>8, <2>9, <2>10, <2>11 DEF Kept
<1>6. QED
  BY <1>3, <1>4, <1>5 DEF Insert

LEMMA KeptCommit == ASSUME Typed, Kept, NEW r \in Relays, Commit(r) PROVE Kept'
<1>1. CASE Fails
  BY <1>1, KeptFails
<1>2. CASE CommitStmt /\ UNCHANGED <<aged, faults, failed>>
  <2>1. main' = main /\ disk' = main /\ ~txn'
    BY <1>2 DEF CommitStmt, Kept, Synced
  <2>2. UNCHANGED <<aged, failed, reported, repeated, newRecords>>
    BY <1>2 DEF Commit
  <2>3. Synced' /\ AgedStored' /\ BatchFresh' /\ Durable'
    BY <2>1, <2>2 DEF Kept, Synced, AgedStored, BatchFresh, Durable
  <2>4. Committed'
    BY <2>1, <2>2 DEF Kept, BatchFresh, Committed
  <2>5. /\ pc'[r] # "insert"
        /\ \A s \in Relays : s # r => pc'[s] = pc[s] /\ next'[s] = next[s]
    BY Moves, TypesDropLocals DEF Commit
  <2>6. Absent'
    BY <2>1, <2>2, <2>5 DEF Kept, Absent
  <2>7. QED
    BY <2>3, <2>4, <2>6 DEF Kept
<1>3. QED
  BY <1>1, <1>2 DEF Commit

LEMMA KeptPrune == ASSUME Typed, Kept, NEW r \in Relays, Prune(r) PROVE Kept'
<1>0. TablesOK /\ UNCHANGED <<repeated, newRecords, next>>
  BY DEF Typed, Prune
<1>1. pc[r] = "prune" /\ pc'[r] = "report" /\ \A s \in Relays : s # r => pc'[s] = pc[s]
  BY Moves DEF Prune
<1>2. CASE Fails
  BY <1>2, KeptFails
<1>3. CASE UNCHANGED <<database, aged, faults, failed, reported>>
  <2>1. Synced' /\ AgedStored' /\ BatchFresh' /\ Durable'
    BY <1>0, <1>3 DEF Kept, Synced, AgedStored, BatchFresh, Durable, database
  <2>2. Committed' /\ Absent'
    BY <1>0, <1>1, <1>3 DEF Kept, Committed, Absent, database
  <2>3. QED
    BY <2>1, <2>2 DEF Kept
<1>4. CASE /\ Write([main EXCEPT !.records = @ \ aged])
           /\ reported' = reported \ aged /\ aged' = {}
           /\ UNCHANGED <<last_rowid, faults, failed>>
  <2>1. main'.records = main.records \ aged
    <3>1. main.records \ aged \in SUBSET Events
      BY <1>0 DEF TablesOK, Tables
    <3>2. QED
      BY <1>0, <1>4, <3>1, WithRecords DEF Write
  <2>2. Synced' /\ AgedStored'
    BY <1>4 DEF Kept, Synced, AgedStored, Write
  <2>3. disk.records \ aged \subseteq disk'.records
    BY <1>4, <2>1 DEF Kept, Synced, Write
  <2>4. BatchFresh'
    BY <1>0, <1>4, <2>1 DEF Kept, BatchFresh
  <2>5. Committed'
    BY <1>0, <1>1, <1>4, <2>3 DEF Kept, Committed, BatchFresh
  <2>6. Absent'
    BY <1>0, <1>1, <1>4, <2>1 DEF Kept, Absent
  <2>7. Durable'
    BY <1>0, <1>4, <2>1, <2>3 DEF Kept, Durable
  <2>8. QED
    BY <2>2, <2>4, <2>5, <2>6, <2>7 DEF Kept
<1>5. QED
  BY <1>2, <1>3, <1>4 DEF Prune

LEMMA KeptReport == ASSUME Typed, Kept, NEW r \in Relays, Report(r) PROVE Kept'
<1>0. newRecords \in [Relays -> SUBSET Events] /\ pc[r] = "report"
  BY DEF Typed, BatchOK, Report
<1>1. UNCHANGED database /\ UNCHANGED <<aged, failed, next>>
  BY DEF Report, world
<1>2. pc'[r] = "idle" /\ \A s \in Relays : s # r => pc'[s] = pc[s]
  BY Moves DEF Report
<1>3. newRecords'[r] = {} /\ \A s \in Relays : s # r => newRecords'[s] = newRecords[s]
  BY <1>0 DEF Report
<1>4. /\ repeated' = repeated \union (reported \intersect newRecords[r])
      /\ reported' = reported \union newRecords[r]
  BY DEF Report
<1>5. Synced' /\ AgedStored'
  BY <1>1 DEF Kept, Synced, AgedStored, database
<1>6. BatchFresh'
  <2> SUFFICES ASSUME ~failed, NEW s \in Relays
               PROVE  /\ newRecords'[s] \subseteq main.records
                      /\ newRecords'[s] \intersect aged = {}
                      /\ newRecords'[s] \intersect reported' = {}
                      /\ \A x \in newRecords'[s] : x[1] = s
    BY <1>1 DEF BatchFresh, database
  <2>1. CASE s = r
    BY <1>3, <2>1
  <2>2. CASE s # r
    <3>1. /\ newRecords[s] \subseteq main.records
          /\ newRecords[s] \intersect aged = {}
          /\ newRecords[s] \intersect reported = {}
          /\ \A x \in newRecords[s] : x[1] = s
      BY DEF Kept, BatchFresh
    <3>2. \A x \in newRecords[r] : x[1] = r
      BY DEF Kept, BatchFresh
    <3>3. newRecords[s] \intersect newRecords[r] = {}
      BY <3>1, <3>2, <2>2
    <3>4. QED
      BY <3>1, <3>3, <1>3, <1>4, <2>2
  <2>3. QED
    BY <2>1, <2>2
<1>7. Committed'
  BY <1>1, <1>2, <1>3 DEF Kept, Committed, database
<1>8. Absent'
  BY <1>1, <1>2 DEF Kept, Absent, database
<1>9. Durable'
  BY <1>0, <1>1, <1>4 DEF Kept, Durable, Committed, BatchFresh, database
<1>10. QED
  BY <1>5, <1>6, <1>7, <1>8, <1>9 DEF Kept

LEMMA KeptTakeSer == ASSUME Typed, Kept, NEW r \in Relays, TakeSer(r) PROVE Kept'
<1>0. newRecords \in [Relays -> SUBSET Events]
  BY DEF Typed, BatchOK
<1>1. UNCHANGED database /\ UNCHANGED <<aged, failed, reported, repeated>>
  BY DEF TakeSer, world, history
<1>2. pc'[r] = "begin" /\ \A s \in Relays : s # r => pc'[s] = pc[s] /\ next'[s] = next[s]
  BY Moves, Advances DEF TakeSer
<1>3. newRecords'[r] = {} /\ \A s \in Relays : s # r => newRecords'[s] = newRecords[s]
  BY <1>0 DEF TakeSer
<1>4. Synced' /\ AgedStored' /\ Durable'
  BY <1>1 DEF Kept, Synced, AgedStored, Durable, database
<1>5. BatchFresh'
  BY <1>1, <1>3 DEF Kept, BatchFresh, database
<1>6. Committed' /\ Absent'
  BY <1>1, <1>2, <1>3 DEF Kept, Committed, Absent, database
<1>7. QED
  BY <1>4, <1>5, <1>6 DEF Kept

LEMMA KeptWorld ==
  ASSUME Typed, Kept,
         \/ \E r \in Relays : Log(r)
         \/ \E r \in FileRelays : Revise(r)
         \/ \E e \in Events : Age(e)
         \/ UNCHANGED vars
  PROVE  Kept'
<1>1. UNCHANGED <<main, disk, txn, pc, next, newRecords, failed, reported, repeated>>
  BY DEF Log, Revise, Age, vars, database, worker, history
<1>2. CASE UNCHANGED aged
  BY <1>1, <1>2 DEF Kept, Synced, AgedStored, BatchFresh, Committed, Absent, Durable
<1>3. CASE \E e \in Events : Age(e)
  <2>1. PICK e \in Events : Age(e)
    BY <1>3
  <2>2. /\ aged' = aged \union {e} /\ e \in main.records
        /\ \A r \in Relays : e \notin newRecords[r]
    BY <2>1 DEF Age
  <2>3. AgedStored' /\ BatchFresh'
    BY <1>1, <2>2 DEF Kept, AgedStored, BatchFresh
  <2>4. Synced' /\ Committed' /\ Absent' /\ Durable'
    BY <1>1 DEF Kept, Synced, Committed, Absent, Durable
  <2>5. QED
    BY <2>3, <2>4 DEF Kept
<1>4. QED
  BY <1>2, <1>3 DEF Log, Revise, vars

LEMMA KeptCrash == ASSUME Typed, Kept, Crash PROVE Kept'
<1>1. /\ main' = disk /\ disk' = disk /\ aged' = aged \intersect disk.records
      /\ UNCHANGED <<failed, reported, repeated>>
      /\ \A r \in Relays : pc'[r] = "idle" /\ newRecords'[r] = {}
  BY DEF Crash, history
<1>2. Synced' /\ AgedStored'
  BY <1>1 DEF Synced, AgedStored
<1>3. BatchFresh'
  BY <1>1 DEF BatchFresh
<1>4. Committed' /\ Absent'
  BY <1>1 DEF Committed, Absent
<1>5. Durable'
  BY <1>1 DEF Kept, Durable
<1>6. QED
  BY <1>2, <1>3, <1>4, <1>5 DEF Kept

LEMMA KeptNext == Typed /\ Kept /\ [Next]_vars => Kept'
<1> SUFFICES ASSUME Typed, Kept, [Next]_vars PROVE Kept'
  OBVIOUS
<1>1. ASSUME NEW r \in Relays, Worker(r) PROVE Kept'
  BY <1>1, KeptBegin, KeptExists, KeptInsert, KeptCommit, KeptPrune, KeptReport, KeptStoring
     DEF Worker
<1>2. QED
  BY <1>1, KeptTakeSer, KeptTakeFile, KeptWorld, KeptCrash DEF Next

LEMMA AlwaysKept == Spec => []Kept
  BY KeptInit, KeptNext, TypesInit, TypesNext, PTL DEF Spec

(* A record that went out to the shared-memory ring is on the disk, unless *)
(* a statement failed, however the workers of any number of relays share   *)
(* the connection's transactions.                                          *)
THEOREM ReportsAreDurable == Spec => []ReportedIsDurable
<1>1. Kept => ReportedIsDurable
  BY DEF Kept, Durable, ReportedIsDurable
<1>2. QED
  BY <1>1, AlwaysKept, PTL

(* ... and it goes out once. *)
THEOREM ReportsAreUnique == Spec => []ReportedOnce
<1>1. Kept => ReportedOnce
  BY DEF Kept, Durable, ReportedOnce
<1>2. QED
  BY <1>1, AlwaysKept, PTL

-----------------------------------------------------------------------------
(* A worker alone on the connection *)

(* The lines 1 .. k of revision n of relay r's file, each with its row. *)
StoredLines(r, n, k) == {[relay |-> r, rev |-> n, line |-> l, linked |-> TRUE] : l \in 1 .. k}

WholeFile(t, r) == t.entries = (IF t.file[r] = 0 THEN {} ELSE StoredLines(r, t.file[r], Lines))

SameSettings(t, u) == t.entries = u.entries /\ t.file = u.file

(* What is on the disk is whole; what the transaction has made of it so    *)
(* far follows from where the worker is.                                   *)
Alone(r) ==
  /\ WholeFile(disk, r)
  /\ pc[r] # "rollback"
  /\ txn <=> pc[r] \in Inside
  /\ pc[r] \notin Storing \ {"delEntries"} => SameSettings(main, disk)
  /\ pc[r] \in {"delFile", "insFile", "rowid"} => main.entries = {}
  /\ pc[r] = "insFile" => main.file[r] = 0
  /\ pc[r] \in {"rowid", "insEntry", "fileCommit"} => main.file[r] = rev[r]
  /\ pc[r] = "rowid" => last_rowid = r
  /\ pc[r] = "insEntry" => /\ linked[r] /\ next[r] \in 1 .. Lines + 1
                           /\ main.entries = StoredLines(r, rev[r], next[r] - 1)
  /\ pc[r] = "fileCommit" => main.entries = StoredLines(r, rev[r], Lines)

LEMMA AloneElsewhere ==
  ASSUME NEW r, Alone(r), SameSettings(disk', disk), SameSettings(main', disk'),
         pc'[r] \notin Storing \ {"delEntries"}, txn' <=> pc'[r] \in Inside
  PROVE  Alone(r)'
  BY DEF Alone, WholeFile, SameSettings, Storing

LEMMA AloneStill ==
  ASSUME NEW r, Alone(r), UNCHANGED <<main, disk, txn, last_rowid, pc, next, rev, linked>>
  PROVE  Alone(r)'
  BY DEF Alone, WholeFile, SameSettings, StoredLines

LEMMA AloneRecords ==
  ASSUME TablesOK, NEW S, SameSettings(main, disk), Write([main EXCEPT !.records = S])
  PROVE  SameSettings(disk', disk) /\ SameSettings(main', disk') /\ txn' = txn
<1>1. SameSettings([main EXCEPT !.records = S], main)
  BY DEF TablesOK, Tables, SameSettings
<1>2. QED
  BY <1>1 DEF Write, SameSettings

LEMMA AloneRecording ==
  ASSUME Typed, NEW r \in Relays, Alone(r), ~SqlFails,
         Begin(r) \/ Exists(r) \/ Insert(r) \/ Commit(r) \/ Prune(r) \/ Report(r) \/ TakeSer(r)
  PROVE  Alone(r)'
<1>0. PcOK /\ TablesOK /\ ~Fails
  BY DEF Typed, Fails
<1>1. CASE Begin(r)
  <2>1. /\ UNCHANGED <<main, disk>> /\ txn' = TRUE /\ SameSettings(main, disk)
        /\ pc'[r] \in {"exists", "delEntries"}
    BY <1>0, <1>1 DEF Begin, BeginStmt, Goto, PcOK, Alone, Storing
  <2>2. SameSettings(disk', disk) /\ SameSettings(main', disk')
    BY <2>1 DEF SameSettings
  <2>3. QED
    BY <2>1, <2>2, AloneElsewhere DEF Storing, Inside, Recording
<1>2. CASE Exists(r)
  <2>1. /\ UNCHANGED <<main, disk, txn>> /\ pc[r] = "exists" /\ SameSettings(main, disk) /\ txn
        /\ pc'[r] \in {"exists", "commit", "insert"}
    BY <1>0, <1>2 DEF Exists, database, Goto, PcOK, Alone, Storing, Inside, Recording
  <2>2. SameSettings(disk', disk) /\ SameSettings(main', disk')
    BY <2>1 DEF SameSettings
  <2>3. QED
    BY <2>1, <2>2, AloneElsewhere DEF Storing, Inside, Recording
<1>3. CASE Insert(r)
  <2>1. pc[r] = "insert" /\ SameSettings(main, disk) /\ txn /\ pc'[r] = "exists"
    BY <1>0, <1>3 DEF Insert, Goto, PcOK, Alone, Storing, Inside, Recording
  <2>2. UNCHANGED <<main, disk, txn>> \/ \E S : Write([main EXCEPT !.records = S])
    BY <1>0, <1>3 DEF Insert, database
  <2>3. SameSettings(disk', disk) /\ SameSettings(main', disk') /\ txn' = txn
    <3>1. CASE UNCHANGED <<main, disk, txn>>
      BY <2>1, <3>1 DEF SameSettings
    <3>2. QED
      BY <1>0, <2>1, <2>2, <3>1, AloneRecords
  <2>4. QED
    BY <2>1, <2>3, AloneElsewhere DEF Storing, Inside, Recording
<1>4. CASE Commit(r)
  <2>1. CommitStmt /\ txn /\ ~txn' /\ main' = main /\ disk' = main
    BY <1>0, <1>4 DEF Commit, CommitStmt, Alone, Inside, Recording, Storing
  <2>2. pc'[r] \in {"prune", "idle"}
    BY <1>0, <1>4 DEF Commit, Goto, PcOK
  <2>3. WholeFile(disk', r)
    <3>1. CASE pc[r] = "commit"
      BY <2>1, <3>1 DEF Alone, WholeFile, SameSettings, Storing
    <3>2. CASE pc[r] = "fileCommit"
      <4>1. rev[r] # 0
        BY <3>2 DEF Typed, InRange, Storing
      <4>2. QED
        BY <2>1, <3>2, <4>1 DEF Alone, WholeFile
    <3>3. QED
      BY <1>4, <3>1, <3>2 DEF Commit
  <2>4. SameSettings(main', disk')
    BY <2>1 DEF SameSettings
  <2>5. QED
    BY <2>1, <2>2, <2>3, <2>4 DEF Alone, Inside, Recording, Storing
<1>5. CASE Prune(r)
  <2>1. pc[r] = "prune" /\ SameSettings(main, disk) /\ ~txn /\ pc'[r] = "report"
    BY <1>0, <1>5 DEF Prune, Goto, PcOK, Alone, Storing, Inside, Recording
  <2>2. UNCHANGED <<main, disk, txn>> \/ \E S : Write([main EXCEPT !.records = S])
    BY <1>0, <1>5 DEF Prune, database
  <2>3. SameSettings(disk', disk) /\ SameSettings(main', disk') /\ txn' = txn
    <3>1. CASE UNCHANGED <<main, disk, txn>>
      BY <2>1, <3>1 DEF SameSettings
    <3>2. QED
      BY <1>0, <2>1, <2>2, <3>1, AloneRecords
  <2>4. QED
    BY <2>1, <2>3, AloneElsewhere DEF Storing, Inside, Recording
<1>6. CASE Report(r) \/ TakeSer(r)
  <2>1. /\ UNCHANGED <<main, disk, txn>> /\ pc[r] \in {"report", "idle"}
        /\ SameSettings(main, disk) /\ ~txn /\ pc'[r] \in {"idle", "begin"}
    BY <1>0, <1>6 DEF Report, TakeSer, database, Goto, PcOK, Alone, Storing, Inside, Recording
  <2>2. SameSettings(disk', disk) /\ SameSettings(main', disk')
    BY <2>1 DEF SameSettings
  <2>3. QED
    BY <2>1, <2>2, AloneElsewhere DEF Storing, Inside, Recording
<1>7. QED
  BY <1>1, <1>2, <1>3, <1>4, <1>5, <1>6

(* Within the transaction a write changes the settings of main alone. *)
LEMMA AloneWrite ==
  ASSUME TablesOK, txn, NEW r \in FileRelays, NEW n \in 0 .. MaxRevision, NEW E
  PROVE  /\ Write([main EXCEPT !.entries = E]) =>
              /\ disk' = disk /\ txn' /\ main'.entries = E /\ main'.file[r] = main.file[r]
         /\ Write([main EXCEPT !.file[r] = n]) =>
              /\ disk' = disk /\ txn' /\ main'.entries = main.entries /\ main'.file[r] = n
<1>1. /\ [main EXCEPT !.entries = E].entries = E
      /\ [main EXCEPT !.entries = E].file = main.file
      /\ [main EXCEPT !.file[r] = n].entries = main.entries
      /\ [main EXCEPT !.file[r] = n].file[r] = n
  BY DEF TablesOK, Tables
<1>2. QED
  BY <1>1 DEF Write

LEMMA AloneStoring ==
  ASSUME Typed, NEW r \in FileRelays, FileRelays = {r}, Alone(r), ~SqlFails,
         \/ DelEntries(r) \/ DelFile(r) \/ InsFile(r) \/ RowId(r) \/ InsEntry(r)
         \/ Rollback(r) \/ TakeFile(r)
  PROVE  Alone(r)'
<1>0. PcOK /\ TablesOK /\ FileOK /\ BatchOK /\ ~Fails /\ r \in Relays
  BY DatabaseAssumption DEF Typed, Fails
<1>1. CASE DelEntries(r)
  <2>1. Write([main EXCEPT !.entries = @ \ EntriesOf(main, r)]) /\ pc[r] = "delEntries"
        /\ pc'[r] = "delFile" /\ txn
    BY <1>0, <1>1 DEF DelEntries, Goto, PcOK, Alone, Inside, Storing
  <2>2. main.entries \ EntriesOf(main, r) = {}
    BY <1>0 DEF TablesOK, Tables, Entries, EntriesOf
  <2>3. disk' = disk /\ txn' /\ main'.entries = {}
    <3>1. 0 \in 0 .. MaxRevision
      BY DatabaseAssumption
    <3>2. QED
      BY <1>0, <2>1, <2>2, <3>1, AloneWrite
  <2>4. QED
    BY <2>1, <2>3 DEF Alone, WholeFile, Inside, Storing
<1>2. CASE DelFile(r)
  <2>1. Write([main EXCEPT !.file[r] = 0]) /\ pc[r] = "delFile" /\ pc'[r] = "insFile" /\ txn
    BY <1>0, <1>2 DEF DelFile, Goto, PcOK, Alone, Inside, Storing
  <2>2. disk' = disk /\ txn' /\ main'.entries = main.entries /\ main'.file[r] = 0
    <3>1. 0 \in 0 .. MaxRevision
      BY DatabaseAssumption
    <3>2. QED
      BY <1>0, <2>1, <3>1, AloneWrite
  <2>3. main'.entries = {}
    BY <2>1, <2>2 DEF Alone
  <2>4. QED
    BY <2>1, <2>2, <2>3 DEF Alone, WholeFile, Inside, Storing
<1>3. CASE InsFile(r)
  <2>1. main.file[r] = 0 /\ main.entries = {} /\ pc[r] = "insFile" /\ txn
    BY <1>3 DEF InsFile, Alone, Inside, Storing
  <2>2. Write([main EXCEPT !.file[r] = rev[r]]) /\ last_rowid' = r /\ pc'[r] = "rowid"
    BY <1>0, <1>3, <2>1 DEF InsFile, Goto, PcOK
  <2>3. disk' = disk /\ txn' /\ main'.entries = {} /\ main'.file[r] = rev[r]
    <3>1. rev[r] \in 0 .. MaxRevision
      BY <1>0 DEF FileOK
    <3>2. QED
      BY <1>0, <2>1, <2>2, <3>1, AloneWrite
  <2>4. UNCHANGED rev
    BY <1>3 DEF InsFile, FileStep
  <2>5. QED
    BY <2>1, <2>2, <2>3, <2>4 DEF Alone, WholeFile, Inside, Storing
<1>4. CASE RowId(r)
  <2>1. /\ UNCHANGED <<main, disk, txn, rev>> /\ pc[r] = "rowid" /\ pc'[r] = "insEntry"
        /\ linked'[r] /\ next'[r] = 1 /\ txn
    BY <1>0, <1>4
       DEF RowId, database, FileStep, Goto, PcOK, FileOK, BatchOK, Alone, Inside, Storing
  <2>2. StoredLines(r, rev[r], 1 - 1) = {}
    <3>1. 1 .. 1 - 1 = {}
      OBVIOUS
    <3>2. QED
      BY <3>1 DEF StoredLines
  <2>3. 1 \in 1 .. Lines + 1
    BY DatabaseAssumption
  <2>4. main'.entries = StoredLines(r, rev'[r], next'[r] - 1)
    BY <2>1, <2>2 DEF Alone
  <2>5. QED
    BY <2>1, <2>3, <2>4 DEF Alone, WholeFile, Inside, Storing
<1>5. CASE InsEntry(r)
  <2>0. pc[r] = "insEntry" /\ linked[r] /\ next[r] \in 1 .. Lines + 1 /\ txn
        /\ main.file[r] = rev[r] /\ main.entries = StoredLines(r, rev[r], next[r] - 1)
        /\ UNCHANGED <<rev, linked>>
    BY <1>5 DEF InsEntry, Alone, Inside, Storing, FileStep
  <2>1. CASE next[r] > Lines
    <3>0. ~(next[r] <= Lines)
      BY <2>0, <2>1, DatabaseAssumption
    <3>1. UNCHANGED <<main, disk, txn>> /\ pc'[r] = "fileCommit"
      BY <1>0, <1>5, <3>0 DEF InsEntry, database, Goto, PcOK
    <3>2. next[r] - 1 = Lines
      BY <2>0, <2>1, DatabaseAssumption
    <3>3. QED
      BY <2>0, <3>1, <3>2 DEF Alone, WholeFile, Inside, Storing
  <2>2. CASE next[r] <= Lines
    <3>. DEFINE new == [relay |-> r, rev |-> rev[r], line |-> next[r], linked |-> linked[r]]
    <3>1. /\ Write([main EXCEPT !.entries = @ \union {new}]) /\ UNCHANGED pc
          /\ next' = [next EXCEPT ![r] = @ + 1]
      BY <1>0, <1>5, <2>0, <2>2, DatabaseAssumption DEF InsEntry
    <3>2. next'[r] = next[r] + 1
      BY <1>0, <3>1 DEF BatchOK
    <3>3. disk' = disk /\ txn' /\ main'.entries = main.entries \union {new}
          /\ main'.file[r] = main.file[r]
      <4>1. 0 \in 0 .. MaxRevision
        BY DatabaseAssumption
      <4>2. QED
        BY <1>0, <2>0, <3>1, <4>1, AloneWrite
    <3>4. StoredLines(r, rev[r], next[r] - 1) \union {new} = StoredLines(r, rev[r], next[r])
      <4>1. linked[r] = TRUE
        BY <1>0, <2>0 DEF FileOK
      <4>2. \A l : l \in 1 .. next[r] <=> l \in 1 .. next[r] - 1 \/ l = next[r]
        BY <2>0
      <4>3. QED
        BY <4>1, <4>2 DEF StoredLines
    <3>5. next'[r] - 1 = next[r] /\ next'[r] \in 1 .. Lines + 1
      BY <2>0, <2>2, <3>2, DatabaseAssumption
    <3>6. main'.entries = StoredLines(r, rev'[r], next'[r] - 1)
      BY <2>0, <3>3, <3>4, <3>5
    <3>7. QED
      BY <2>0, <3>1, <3>3, <3>5, <3>6 DEF Alone, WholeFile, Inside, Storing
  <2>3. QED
    <3>1. next[r] > Lines \/ next[r] <= Lines
      BY <2>0, DatabaseAssumption
    <3>2. QED
      BY <2>1, <2>2, <3>1
<1>6. CASE Rollback(r)
  BY <1>6 DEF Rollback, Alone
<1>7. CASE TakeFile(r)
  <2>1. /\ UNCHANGED <<main, disk, txn>> /\ pc[r] = "idle" /\ pc'[r] = "fileBegin"
        /\ SameSettings(main, disk) /\ ~txn
    BY <1>0, <1>7 DEF TakeFile, database, Goto, PcOK, Alone, Storing, Inside, Recording
  <2>2. SameSettings(disk', disk) /\ SameSettings(main', disk')
    BY <2>1 DEF SameSettings
  <2>3. QED
    BY <2>1, <2>2, AloneElsewhere DEF Storing, Inside, Recording
<1>8. QED
  BY <1>1, <1>2, <1>3, <1>4, <1>5, <1>6, <1>7

LEMMA AloneWorld ==
  ASSUME NEW r \in Relays, Alone(r),
         \/ \E s \in Relays : Log(s)
         \/ \E s \in FileRelays : Revise(s)
         \/ \E e \in Events : Age(e)
         \/ Crash
         \/ UNCHANGED vars
  PROVE  Alone(r)'
<1>1. CASE Crash
  <2>1. main' = disk /\ disk' = disk /\ ~txn' /\ pc'[r] = "idle"
    BY <1>1 DEF Crash
  <2>2. SameSettings(disk', disk) /\ SameSettings(main', disk')
    BY <2>1 DEF SameSettings
  <2>3. QED
    BY <2>1, <2>2, AloneElsewhere DEF Storing, Inside, Recording
<1>2. CASE \/ \E s \in Relays : Log(s)
           \/ \E s \in FileRelays : Revise(s)
           \/ \E e \in Events : Age(e)
           \/ UNCHANGED vars
  BY <1>2, AloneStill DEF Log, Revise, Age, vars, database, worker
<1>3. QED
  BY <1>1, <1>2

LEMMA AloneNext ==
  ASSUME NEW r \in FileRelays, Relays = {r}, ~SqlFails
  PROVE  Typed /\ Alone(r) /\ [Next]_vars => Alone(r)'
<1>1. FileRelays = {r} /\ r \in Relays
  BY DatabaseAssumption
<1>2. QED
  BY <1>1, AloneRecording, AloneStoring, AloneWorld DEF Next, Worker

LEMMA AloneInit == ASSUME NEW r \in FileRelays, Init PROVE Alone(r)
<1>1. r \in Relays
  BY DatabaseAssumption
<1>2. pc[r] = "idle" /\ main = Empty /\ disk = Empty /\ txn = FALSE
  BY <1>1 DEF Init
<1>3. Empty.entries = {} /\ Empty.file[r] = 0
  BY DEF Empty
<1>4. QED
  BY <1>2, <1>3 DEF Alone, WholeFile, SameSettings, Inside, Recording, Storing

LEMMA AloneWhole ==
  ASSUME NEW r \in FileRelays, FileRelays = {r}, Typed, Alone(r)
  PROVE  SettingsWhole /\ EntriesLinked
<1>1. SettingsWhole
  <2>. DEFINE f == disk.file[r]
  <2>1. EntriesOf(disk, r) = disk.entries
    BY DEF Typed, TablesOK, Tables, Entries, EntriesOf
  <2>2. CASE f = 0
    BY <2>1, <2>2 DEF Alone, WholeFile, SettingsWhole
  <2>3. CASE f # 0
    <3>1. disk.entries = StoredLines(r, f, Lines)
      BY <2>3 DEF Alone, WholeFile
    <3>. HIDE DEF f
    <3>2. {<<e.rev, e.line>> : e \in StoredLines(r, f, Lines)} = {f} \X (1 .. Lines)
      <4>1. ASSUME NEW l \in 1 .. Lines
            PROVE  \E e \in StoredLines(r, f, Lines) : <<e.rev, e.line>> = <<f, l>>
        <5>1. [relay |-> r, rev |-> f, line |-> l, linked |-> TRUE] \in StoredLines(r, f, Lines)
          BY DEF StoredLines
        <5>2. QED
          BY <5>1
      <4>2. \A e \in StoredLines(r, f, Lines) : e.rev = f /\ e.line \in 1 .. Lines
        BY DEF StoredLines
      <4>3. QED
        BY <4>1, <4>2
    <3>3. QED
      BY <2>1, <2>3, <3>1, <3>2 DEF SettingsWhole, f
  <2>4. QED
    BY <2>2, <2>3
<1>2. EntriesLinked
  <2>1. \A n, k : \A e \in StoredLines(r, n, k) : e.linked
    BY DEF StoredLines
  <2>2. main.entries = {} \/ \E n, k : main.entries = StoredLines(r, n, k)
    <3>1. CASE pc[r] \in Storing \ {"delEntries"}
      BY <3>1 DEF Alone, Storing
    <3>2. CASE pc[r] \notin Storing \ {"delEntries"}
      BY <3>2 DEF Alone, SameSettings, WholeFile
    <3>3. QED
      BY <3>1, <3>2
  <2>3. QED
    BY <2>1, <2>2 DEF EntriesLinked
<1>3. QED
  BY <1>1, <1>2

(* ser_database.hpp:300, :305: what the comments promise of a settings     *)
(* file is true of a worker that is alone on the connection, as long as no *)
(* statement fails: however often the program is killed, a file on the     *)
(* disk has all its lines and no others, and every line its file.          *)
THEOREM SettingsWholeAlone ==
  ASSUME NEW only, Relays = {only}, ~SqlFails
  PROVE  Spec => [](SettingsWhole /\ EntriesLinked)
<1>1. CASE only \in FileRelays
  <2>1. FileRelays = {only}
    BY <1>1, DatabaseAssumption
  <2>2. Init => Typed /\ Alone(only)
    BY <1>1, TypesInit, AloneInit
  <2>3. Typed /\ Alone(only) /\ [Next]_vars => (Typed /\ Alone(only))'
    BY <1>1, TypesNext, AloneNext
  <2>4. Typed /\ Alone(only) => SettingsWhole /\ EntriesLinked
    BY <1>1, <2>1, AloneWhole
  <2>5. QED
    BY <2>2, <2>3, <2>4, PTL DEF Spec
<1>2. CASE only \notin FileRelays
  <2>1. FileRelays = {}
    BY <1>2, DatabaseAssumption
  <2>2. Typed => SettingsWhole /\ EntriesLinked
    BY <2>1 DEF Typed, TablesOK, Tables, Entries, SettingsWhole, EntriesLinked
  <2>3. QED
    BY <2>2, TypesInit, TypesNext, PTL DEF Spec
<1>3. QED
  BY <1>1, <1>2
=============================================================================
