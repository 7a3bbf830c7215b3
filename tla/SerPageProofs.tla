--------------------------- MODULE SerPageProofs ---------------------------
(***************************************************************************)
(* Theorems about the page and its worker, for every ring, every sequence  *)
(* of snapshots, whatever the bytes that are no length may read as, and    *)
(* any number of clicks and outages.                                       *)
(***************************************************************************)
EXTENDS SerPage, SequenceTheorems, TLAPS

-----------------------------------------------------------------------------
(* Types *)

(* A position is in the ring, and a length fits when the reader takes it;  *)
(* while the pump drains the ring, its slot is in use.                     *)
TypeInv ==
  /\ TypeOK
  /\ rpc \notin {"off", "wait"} => cserReaderRunning
  /\ rpc = "copy" => length # 0

LEMMA PositionsAreNat == Positions \subseteq Nat /\ 0 \in Positions /\ Inactive \notin Positions
BY RingAssumption DEF Positions, Inactive

LEMMA VersionsAreNat == Versions \subseteq Nat /\ 1 \in Versions
  /\ \A v \in Versions : Sizes[v] \in Nat /\ Record(v) \in Nat
BY RingAssumption, PageAssumption DEF Versions, Record

LEMMA SumOfThree == ASSUME NEW a \in Nat, NEW b \in Nat, NEW c \in Nat PROVE a + b + c \in Nat
OBVIOUS

LEMMA WrapInRing == ASSUME NEW p \in Nat PROVE Wrap(p) \in Positions
BY RingAssumption DEF Wrap, Positions

LEMMA LengthsAreNat == ASSUME NEW p \in Nat PROVE Lengths(p) \subseteq Nat
<1> DEFINE cells == {mem[p + i] : i \in 0 .. Prefix - 1}
           whole == \E v \in Versions : \A i \in 0 .. Prefix - 1 : mem[p + i] = <<v, i>>
           there == IF cells = {<<>>} THEN {0} ELSE IF whole THEN {Sizes[mem[p][1]]} ELSE Junk
<1>1. Lengths(p) = there \/ Lengths(p) = there \union Junk
  BY DEF Lengths
<1>2. Junk \subseteq Nat
  BY RingAssumption
<1>3. there \subseteq Nat
  <2>1. CASE whole
    <3>1. PICK v \in Versions : \A i \in 0 .. Prefix - 1 : mem[p + i] = <<v, i>>
      BY <2>1
    <3>2. 0 \in 0 .. Prefix - 1 /\ p + 0 = p
      BY RingAssumption
    <3>3. mem[p] = <<v, 0>>
      BY <3>1, <3>2
    <3>4. mem[p][1] = v /\ Sizes[v] \in Nat
      BY <3>3, VersionsAreNat
    <3>5. there = {0} \/ there = {Sizes[v]}
      BY <2>1, <3>4
    <3> HIDE DEF there
    <3> QED BY <3>4, <3>5
  <2>2. CASE ~whole
    <3> HIDE DEF whole, cells
    <3>1. there = {0} \/ there = Junk
      BY <2>2
    <3>2. {0} \subseteq Nat
      OBVIOUS
    <3> HIDE DEF there
    <3> QED BY ONLY <1>2, <3>1, <3>2, Zenon
  <2> QED BY <2>1, <2>2
<1> HIDE DEF there
<1> QED
  BY <1>1, <1>2, <1>3

(* The steps of the two sides of the ring keep its types. *)
LEMMA WriteTypes ==
  ASSUME RingTypeOK, Write
  PROVE  RingTypeOK' /\ (readPos # Inactive => readPos' # Inactive)
<1> USE PositionsAreNat, VersionsAreNat DEF RingTypeOK
<1>1. CASE Free
  BY <1>1 DEF Free, ring, reader
<1>2. CASE Drop
  <2> DEFINE pos == IF readPos + Prefix > Capacity THEN 0 ELSE readPos
  <2>1. CASE Used(target) = 0 \/ (pos # readPos /\ pos = target)
    BY <1>2, <2>1 DEF Drop, ring, reader
  <2>2. CASE ~(Used(target) = 0 \/ (pos # readPos /\ pos = target))
    <3>1. readPos \in Positions /\ pos \in Nat
      BY <2>2 DEF Used
    <3>2. PICK n \in Lengths(pos) : skipTo' = IF NoLength(n) THEN target ELSE Wrap(pos + Prefix + n)
      BY <1>2, <2>2 DEF Drop
    <3>3. n \in Nat /\ pos + Prefix + n \in Nat
      <4>1. Lengths(pos) \subseteq Nat
        BY <3>1, LengthsAreNat
      <4>2. n \in Nat
        BY <4>1
      <4> HIDE DEF pos
      <4>3. Prefix \in Nat
        BY RingAssumption
      <4> QED
        BY <3>1, <4>2, <4>3, SumOfThree
    <3>4. skipTo' \in Positions
      BY <3>2, <3>3, WrapInRing
    <3>5. slowest' = readPos /\ wpc' = "compare" /\ UNCHANGED <<writing, target, ring, reader>>
      BY <1>2, <2>2 DEF Drop
    <3> QED
      BY <3>1, <3>4, <3>5 DEF ring, reader
  <2> QED
    BY <2>1, <2>2
<1>3. CASE Compare
  BY <1>3 DEF Compare, ring, reader
<1>4. CASE Move
  BY <1>4 DEF Move, reader
<1>5. CASE Put
  <2>1. ASSUME NEW p \in Positions, p \in target .. target + Record(writing) - 1
        PROVE  p - target \in Nat
    BY <2>1
  <2>2. mem' \in [Positions -> {<<>>} \union (Versions \X Nat)]
    BY <1>5, <2>1 DEF Put
  <2> QED
    BY <1>5, <2>2 DEF Put, reader
<1>6. CASE Publish
  <2>1. writePos' \in Positions
    BY <1>6, WrapInRing DEF Publish
  <2> QED
    BY <1>6, <2>1 DEF Publish, reader
<1>7. CASE Notify
  BY <1>7 DEF Notify, reader
<1> QED
  BY <1>1, <1>2, <1>3, <1>4, <1>5, <1>6, <1>7 DEF Write

LEMMA ReadTypes ==
  ASSUME RingTypeOK, readPos # Inactive, rpc = "copy" => length # 0, Read
  PROVE  /\ RingTypeOK' /\ readPos' # Inactive
         /\ rpc \notin {"off", "wait"} /\ (rpc' = "copy" => length' # 0)
<1> USE PositionsAreNat, VersionsAreNat DEF RingTypeOK
<1>1. CASE ReadBegins
  BY <1>1 DEF ReadBegins, ring, writer
<1>2. CASE Look
  <2>1. CASE from = writePos
    BY <1>2, <2>1, RingAssumption DEF Look, Forget, ring, writer
  <2>2. CASE from # writePos
    <3>1. PICK place \in Places :
            IF NoLength(place.len)
            THEN next' = writePos /\ length' = 0 /\ rpc' = "store"
            ELSE next' = place.pos /\ length' = place.len /\ rpc' = "copy"
      BY <1>2, <2>2 DEF Look
    <3> DEFINE pos == IF from + Prefix > Capacity THEN 0 ELSE from
    <3>2. pos \in Positions
      OBVIOUS
    <3>3. place.pos \in Positions /\ place.len \in Nat
      <4>1. Lengths(pos) \subseteq Nat /\ Lengths(0) \subseteq Nat
        BY <3>2, LengthsAreNat
      <4> QED
        BY <3>2, <4>1 DEF Places
    <3>4. /\ next' \in Positions /\ length' \in 0 .. Capacity /\ rpc' \in {"store", "copy"}
          /\ rpc' = "copy" => length' # 0
      BY <3>1, <3>3, RingAssumption DEF NoLength
    <3>5. rpc = "look" /\ UNCHANGED <<ring, writer, from, payload>>
      BY <1>2, <2>2 DEF Look
    <3> QED
      BY <3>4, <3>5 DEF ring, writer
  <2> QED
    BY <2>1, <2>2
<1>3. CASE Copy
  <2>1. next + Prefix + length \in Nat
    BY RingAssumption
  <2>2. next' \in Positions
    BY <1>3, <2>1, WrapInRing DEF Copy
  <2>3. payload' \in [whole : BOOLEAN, of : SUBSET Versions]
    <3>1. Owners \subseteq Versions /\ writing \in Versions /\ IsWhole \in BOOLEAN
      BY DEF Owners, IsWhole
    <3>2. \/ payload' = [whole |-> IsWhole, of |-> Owners]
          \/ payload' = [whole |-> FALSE, of |-> Owners \union {writing}]
      BY <1>3 DEF Copy
    <3>3. ASSUME NEW b \in BOOLEAN, NEW o \in SUBSET Versions
          PROVE  [whole |-> b, of |-> o] \in [whole : BOOLEAN, of : SUBSET Versions]
      OBVIOUS
    <3>4. Owners \in SUBSET Versions /\ Owners \union {writing} \in SUBSET Versions
      BY <3>1
    <3> QED BY ONLY <3>1, <3>2, <3>3, <3>4, Zenon
  <2> QED
    BY <1>3, <2>2, <2>3 DEF Copy, ring, writer
<1>4. CASE Store
  BY <1>4, RingAssumption DEF Store, Forget, writer
<1> QED
  BY <1>1, <1>2, <1>3, <1>4 DEF Read

(* The worker leaves to the page what is the page's. *)
LEMMA WriteKeepsReader == Write => UNCHANGED reader
BY DEF Write, Free, Drop, Compare, Move, Put, Publish, Notify, reader

(* RingTypeOK speaks of the ring's variables only. *)
LEMMA RingUnchanged ==
  ASSUME RingTypeOK, UNCHANGED <<ring, writer, reader>>
  PROVE  RingTypeOK' /\ UNCHANGED <<readPos, rpc, length>>
BY DEF RingTypeOK, ring, writer, reader

LEMMA TypeInvInductive == TypeInv /\ [Next]_vars => TypeInv'
<1> SUFFICES ASSUME TypeInv, [Next]_vars PROVE TypeInv'
  OBVIOUS
<1> USE VersionsAreNat, PositionsAreNat, PageAssumption DEF TypeInv, TypeOK, rows
<1>1. CASE OnOpen
  BY <1>1, RingUnchanged DEF OnOpen, page, server, clicks, Statuses
<1>2. CASE OnClose
  <2>1. RingTypeOK' /\ UNCHANGED <<readPos, rpc, length>>
    BY <1>2, RingUnchanged DEF OnClose
  <2>2. timers' \in Nat
    BY <1>2 DEF OnClose, Reconnect
  <2>3. <<"disconnected">> \in Seq(Statuses) /\ <<"error", "disconnected">> \in Seq(Statuses)
    BY DEF Statuses
  <2>4. toPage' \in Seq(Statuses)
    <3>1. CASE ws = "open"
      BY <1>2, <2>3, <3>1 DEF OnClose
    <3>2. CASE ws # "open"
      BY <1>2, <2>3, <3>2 DEF OnClose
    <3> QED
      BY <3>1, <3>2
  <2>5. inbox' = <<>> /\ ws' = "dead"
    BY <1>2 DEF OnClose
  <2> QED
    BY <1>2, <2>1, <2>2, <2>4, <2>5 DEF OnClose, page, server, clicks
<1>3. CASE OnCloseOfOld
  BY <1>3, RingUnchanged DEF OnCloseOfOld, Reconnect, page, server, clicks, Statuses
<1>4. CASE Timer
  <2>1. RingTypeOK' /\ UNCHANGED <<readPos, rpc, length>>
    BY <1>4, RingUnchanged DEF Timer
  <2>2. timers' \in Nat
    BY <1>4 DEF Timer
  <2>3. CASE wsUrl
    <3>1. ConnectWebSocket /\ UNCHANGED <<toWorker, page, rows, server, clicks>>
      BY <1>4, <2>3 DEF Timer
    <3>2. wsUrl' = TRUE /\ ws' = "connecting" /\ inbox' = <<>>
      BY <3>1 DEF ConnectWebSocket
    <3>3. closing' \in Nat
      BY <3>1 DEF ConnectWebSocket
    <3>4. toPage' \in Seq(Statuses)
      BY <3>1 DEF ConnectWebSocket, Statuses
    <3> QED
      BY <2>1, <2>2, <3>1, <3>2, <3>3, <3>4 DEF page, server, clicks
  <2>4. CASE ~wsUrl
    BY <1>4, <2>1, <2>2, <2>4 DEF Timer, page, server, clicks
  <2> QED
    BY <2>3, <2>4
<1>5. CASE HandleConnect
  BY <1>5, RingUnchanged DEF HandleConnect, ConnectWebSocket, Live, page, server, clicks, Statuses
<1>6. CASE HandleSend
  BY <1>6, RingUnchanged DEF HandleSend, page, server, clicks
<1>7. CASE HandleDisconnect
  <2>1. RingTypeOK' /\ UNCHANGED <<readPos, rpc, length>>
    BY <1>7, RingUnchanged DEF HandleDisconnect
  <2>2. wsUrl' \in BOOLEAN /\ ws' = "none" /\ inbox' = <<>> /\ inbox' \in Seq(Versions)
    <3>1. wsUrl' = FALSE /\ ws' = "none" /\ inbox' = <<>>
      BY <1>7 DEF HandleDisconnect
    <3>2. <<>> \in Seq(Versions)
      OBVIOUS
    <3> QED
      BY ONLY <3>1, <3>2
  <2>3. closing' \in Nat
    BY <1>7 DEF HandleDisconnect
  <2>4. toWorker' \in Seq({"connect", "getData", "disconnect"})
    BY <1>7 DEF HandleDisconnect
  <2>5. toPage' \in Seq(Statuses)
    BY <1>7 DEF HandleDisconnect, Statuses
  <2>6. UNCHANGED <<timers, page, rows, server, clicks>>
    BY <1>7 DEF HandleDisconnect
  <2> QED
    BY <2>1, <2>2, <2>3, <2>4, <2>5, <2>6 DEF page, server, clicks
<1>8. CASE OnMessage
  <2>1. Head(inbox) \in Versions /\ inbox' \in Seq(Versions) /\ ws = "open"
    BY <1>8 DEF OnMessage
  <2>2. RingTypeOK' /\ UNCHANGED <<readPos, rpc, length>>
    <3>1. CASE WriteBegins(Head(inbox))
      BY <2>1, <3>1 DEF WriteBegins, RingTypeOK, ring, reader
    <3>2. CASE UNCHANGED <<ring, writer, reader>>
      BY <3>2, RingUnchanged
    <3> QED
      BY <1>8, <3>1, <3>2 DEF OnMessage
  <2> QED
    BY <1>8, <2>1, <2>2 DEF OnMessage, page, server, clicks
<1>9. CASE WriterSteps
  <2>1. RingTypeOK' /\ (readPos # Inactive => readPos' # Inactive) /\ UNCHANGED reader
    BY <1>9, WriteTypes, WriteKeepsReader DEF WriterSteps
  <2> QED
    BY <1>9, <2>1 DEF WriterSteps, reader, socket, page, server, clicks
<1>10. CASE OnStatus
  BY <1>10, RingUnchanged DEF OnStatus, socket, server, clicks
<1>11. CASE Heartbeat
  BY <1>11, RingUnchanged DEF Heartbeat, socket, page, server, clicks
<1>12. CASE ConnectAll
  <2>1. RingTypeOK' /\ cserWorker' = TRUE /\ cserReaderRunning' \in BOOLEAN
        /\ (cserReaderRunning' => readPos' # Inactive)
        /\ (rpc' \notin {"off", "wait"} => FALSE)
    <3>1. CASE cserWorker
      BY <1>12, <3>1, RingUnchanged DEF ConnectAll, PageIsFree
    <3>2. CASE ~cserWorker
      BY <1>12, <3>2 DEF ConnectAll, Register, RingTypeOK, writer
    <3> QED
      BY <3>1, <3>2
  <2> QED
    BY <1>12, <2>1 DEF ConnectAll, socket, server
<1>13. CASE DisconnectAll
  <2>1. RingTypeOK' /\ rpc' \in {"off", "wait"}
    BY <1>13 DEF DisconnectAll, Unregister, PageIsFree, RingTypeOK, writer, reader
  <2>2. /\ cserAutoRefresh' = FALSE /\ cserReaderRunning' = FALSE /\ cserConnected' = FALSE
        /\ wanted' = FALSE
    BY <1>13 DEF DisconnectAll
  <2>3. disconnects' \in 0 .. MaxDisconnects
    BY <1>13 DEF DisconnectAll
  <2>4. toWorker' \in Seq({"connect", "getData", "disconnect"})
    BY <1>13 DEF DisconnectAll
  <2> QED
    BY <1>13, <2>1, <2>2, <2>3, <2>4 DEF DisconnectAll, socket, server
<1>14. CASE PumpWakes
  <2>1. RingTypeOK' /\ UNCHANGED readPos
        /\ (rpc' = "off" \/ (rpc' = "begin" /\ cserReaderRunning))
    <3>1. CASE cserReaderRunning
      BY <1>14, <3>1 DEF PumpWakes, Wake, RingTypeOK, writer
    <3>2. CASE ~cserReaderRunning
      <4>1. rpc' = "off" /\ UNCHANGED <<ring, writer, from, next, length, payload>>
        BY <1>14, <3>2 DEF PumpWakes
      <4>2. RingTypeOK'
        BY <4>1 DEF RingTypeOK, ring, writer
      <4>3. UNCHANGED readPos
        BY <4>1 DEF ring
      <4> QED
        BY <4>1, <4>2, <4>3
    <3> QED
      BY <3>1, <3>2
  <2> QED
    BY <1>14, <2>1 DEF PumpWakes, socket, page, server, clicks
<1>15. CASE PumpReads
  <2>1. rpc \notin {"off", "wait"}
    BY <1>15 DEF PumpReads, Read, ReadBegins, Look, Copy, Store
  <2>2. RingTypeOK' /\ readPos' # Inactive /\ (rpc' = "copy" => length' # 0)
    BY <1>15, <2>1, ReadTypes DEF PumpReads
  <2> QED
    BY <1>15, <2>1, <2>2 DEF PumpReads, socket, page, server, clicks
<1>16. CASE PumpShows
  <2>1. payload.of \subseteq Versions
    BY DEF RingTypeOK
  <2>2. payload' \in [whole : BOOLEAN, of : SUBSET Versions]
    BY <1>16 DEF PumpShows, Nothing
  <2>3. RingTypeOK' /\ UNCHANGED readPos /\ rpc = "decode" /\ rpc' = "begin"
    BY <1>16, <2>2 DEF PumpShows, RingTypeOK, ring, writer
  <2>4. shown' \in Versions \union {0} /\ torn' \in SUBSET Versions
    BY <1>16, <2>1 DEF PumpShows
  <2> QED
    BY <1>16, <2>3, <2>4 DEF PumpShows, socket, page, server, clicks
<1>17. CASE TableChanges
  BY <1>17, RingUnchanged DEF TableChanges, page, clicks
<1>18. CASE ServerGoes
  <2>1. RingTypeOK' /\ UNCHANGED <<readPos, rpc, length>>
    BY <1>18, RingUnchanged DEF ServerGoes
  <2>2. outages' \in 0 .. MaxOutages
    BY <1>18 DEF ServerGoes
  <2>3. serverUp' = FALSE
    BY <1>18 DEF ServerGoes
  <2> QED
    BY <1>18, <2>1, <2>2, <2>3 DEF ServerGoes, socket, page, clicks
<1>19. CASE ServerReturns
  BY <1>19, RingUnchanged DEF ServerReturns, socket, page, clicks
<1>20. CASE UNCHANGED vars
  BY <1>20, RingUnchanged DEF vars, socket, page, server, clicks
<1> QED
  BY <1>1, <1>2, <1>3, <1>4, <1>5, <1>6, <1>7, <1>8, <1>9, <1>10, <1>11, <1>12, <1>13, <1>14,
     <1>15, <1>16, <1>17, <1>18, <1>19, <1>20 DEF Next

(* The types at the start. *)
LEMMA InitTypes == Init => TypeInv
<1> SUFFICES ASSUME Init PROVE TypeInv
  OBVIOUS
<1>1. RingTypeOK
  <2>1. (CHOOSE v \in Versions : TRUE) \in Versions
    BY VersionsAreNat
  <2>2. mem \in [Positions -> {<<>>} \union (Versions \X Nat)]
    BY DEF Init, RingInit
  <2>3. payload \in [whole : BOOLEAN, of : SUBSET Versions]
    BY DEF Init, RingInit, Nothing
  <2>4. length \in 0 .. Capacity
    BY RingAssumption DEF Init, RingInit
  <2> QED
    BY <2>1, <2>2, <2>3, <2>4, PositionsAreNat DEF Init, RingInit, RingTypeOK
<1> QED
  <2>1. /\ connects \in 0 .. MaxConnects /\ disconnects \in 0 .. MaxDisconnects
        /\ outages \in 0 .. MaxOutages
    BY PageAssumption DEF Init
  <2>2. inbox \in Seq(Versions) /\ toWorker \in Seq({"connect", "getData", "disconnect"})
        /\ toPage \in Seq(Statuses)
    BY DEF Init
  <2> QED
    BY <1>1, <2>1, <2>2, VersionsAreNat DEF Init, RingInit, TypeInv, TypeOK

(* Every position that either side computes lies in the ring, and a length *)
(* that the reader takes fits into it, although the writer may have moved  *)
(* the reader or overwritten what it reads: whatever the bytes say, the    *)
(* loops of ring_buffer.js stay within the buffer.                         *)
THEOREM PageTypeCorrect == Spec => []TypeOK
<1>1. TypeInv => TypeOK
  BY DEF TypeInv
<1> QED
  BY <1>1, InitTypes, TypeInvInductive, PTL DEF Spec

-----------------------------------------------------------------------------
(* The signal.  Told: the pump will wake, now or once writePayload(), which *)
(* ends with the signal, has returned.                                      *)
Told == signalled \/ wpc # "idle"

(* NoLostWakeup is not inductive: while the pump drains the ring, the copy *)
(* that it has of a position may have become stale, and then it has been   *)
(* told or will be.                                                        *)
SignalInv ==
  /\ rpc = "look" => from = readPos \/ Told
  /\ rpc = "copy" => length # 0
  /\ rpc = "store" /\ length = 0 => next = writePos \/ Told
  /\ rpc = "wait" /\ cserReaderRunning => readPos = writePos \/ Told

(* A step of writePayload() is followed by another, or it is the signal.   *)
LEMMA WriteTells ==
  ASSUME Write
  PROVE  Told' /\ UNCHANGED reader
BY DEF Write, Free, Drop, Compare, Move, Put, Publish, Notify, Told, reader, ring

(* A step of readPayload() keeps what the pump relies on. *)
LEMMA ReadKeepsSignalInv ==
  ASSUME SignalInv, Read, UNCHANGED cserReaderRunning
  PROVE  SignalInv'
<1>1. CASE ReadBegins
  BY <1>1 DEF ReadBegins, SignalInv, Told, ring, writer
<1>2. CASE Look
  BY <1>2 DEF Look, SignalInv, Told, ring, writer, NoLength
<1>3. CASE Copy
  BY <1>3 DEF Copy, SignalInv, Told, ring, writer
<1>4. CASE Store
  BY <1>4 DEF Store, SignalInv, Told, writer
<1> QED
  BY <1>1, <1>2, <1>3, <1>4 DEF Read

(* The same of the events of both threads that leave the positions alone. *)
LEMMA QuietKeepsSignalInv ==
  ASSUME SignalInv, UNCHANGED <<ring, writer, reader, cserReaderRunning>>
  PROVE  SignalInv'
BY DEF SignalInv, Told, ring, writer, reader

LEMMA SignalInvInductive == SignalInv /\ [Next]_vars => SignalInv'
<1> SUFFICES ASSUME SignalInv, [Next]_vars PROVE SignalInv'
  OBVIOUS
<1>1. CASE OnOpen \/ OnClose \/ OnCloseOfOld \/ Timer \/ HandleConnect \/ HandleSend
           \/ HandleDisconnect
  BY <1>1, QuietKeepsSignalInv
  DEF OnOpen, OnClose, OnCloseOfOld, Timer, HandleConnect, HandleSend, HandleDisconnect, page
<1>2. CASE OnMessage
  <2>1. CASE WriteBegins(Head(inbox))
    BY <1>2, <2>1 DEF OnMessage, WriteBegins, SignalInv, Told, ring, reader, page
  <2>2. CASE UNCHANGED <<ring, writer, reader>>
    BY <1>2, <2>2, QuietKeepsSignalInv DEF OnMessage, page
  <2> QED
    BY <1>2, <2>1, <2>2 DEF OnMessage
<1>3. CASE WriterSteps
  <2>1. Told' /\ UNCHANGED <<reader, cserReaderRunning>>
    BY <1>3, WriteTells DEF WriterSteps, page
  <2> QED
    BY <2>1 DEF SignalInv, reader
<1>4. CASE OnStatus \/ Heartbeat \/ TableChanges \/ ServerGoes \/ ServerReturns
  BY <1>4, QuietKeepsSignalInv
  DEF OnStatus, Heartbeat, TableChanges, ServerGoes, ServerReturns, page
<1>5. CASE ConnectAll
  <2>1. CASE cserWorker
    BY <1>5, <2>1, QuietKeepsSignalInv DEF ConnectAll
  <2>2. CASE ~cserWorker
    BY <1>5, <2>2 DEF ConnectAll, Register, SignalInv, Told
  <2> QED
    BY <2>1, <2>2
<1>6. CASE DisconnectAll
  BY <1>6 DEF DisconnectAll, PageIsFree, Unregister, SignalInv, reader
<1>7. CASE PumpWakes
  BY <1>7 DEF PumpWakes, Wake, SignalInv
<1>8. CASE PumpReads
  BY <1>8, ReadKeepsSignalInv DEF PumpReads, page
<1>9. CASE PumpShows
  BY <1>9 DEF PumpShows, SignalInv
<1>10. CASE UNCHANGED vars
  BY <1>10, QuietKeepsSignalInv DEF vars, page
<1> QED
  BY <1>1, <1>2, <1>3, <1>4, <1>5, <1>6, <1>7, <1>8, <1>9, <1>10 DEF Next

(* A page that waits for the signal while there is something in the ring   *)
(* has been signalled, once the worker is out of writePayload(): the order *)
(* of the stores in writePayload() and of the loads in the pump loses no   *)
(* wake-up, although nothing is locked.                                    *)
THEOREM NoWakeupIsLost == Spec => []NoLostWakeup
<1>1. Init => SignalInv
  BY DEF Init, RingInit, SignalInv
<1>2. SignalInv => NoLostWakeup
  BY DEF SignalInv, NoLostWakeup, Told
<1> QED
  BY <1>1, <1>2, SignalInvInductive, PTL DEF Spec

-----------------------------------------------------------------------------
(* The clicks.  A message that asks for more than the table is of a click.  *)
IsClick(m) == m \in {"connect", "disconnect"}
Settled(q) == \A i \in 1 .. Len(q) : ~IsClick(q[i])

(* The last click in the queue q is that of Connect, or of Disconnect. *)
Asks(q, wish) ==
  \A i \in 1 .. Len(q) :
    IsClick(q[i]) /\ (\A j \in i + 1 .. Len(q) : ~IsClick(q[j])) => (q[i] = "connect" <=> wish)

(* Once the worker has seen the last click, its URL and its sockets are as *)
(* the user wants them: connected, about to be, or waiting to try again    *)
(* after Connect; and after Disconnect without a socket, with no delay or  *)
(* event of an old socket able to open another (ser_worker.js).            *)
LastClickWins ==
  Settled(toWorker) =>
    IF wanted THEN wsUrl /\ (Live \/ timers > 0) ELSE ~wsUrl /\ ws = "none"

(* While clicks are still in the queue, the last of them is what the user  *)
(* wants; the URL and the sockets agree all the time.                      *)
ClickInv ==
  /\ Asks(toWorker, wanted)
  /\ Settled(toWorker) => (wsUrl <=> wanted)
  /\ wsUrl => Live \/ timers > 0
  /\ ~wsUrl => ws = "none"

LEMMA MessageAdded ==
  ASSUME NEW S, NEW q \in Seq(S), NEW m \in S
  PROVE  /\ IsClick(m) => /\ ~Settled(Append(q, m))
                          /\ \A wish : (m = "connect" <=> wish) => Asks(Append(q, m), wish)
         /\ ~IsClick(m) => /\ Settled(Append(q, m)) <=> Settled(q)
                           /\ \A wish : Asks(q, wish) => Asks(Append(q, m), wish)
<1> DEFINE r == Append(q, m)  n == Len(q)
<1>1. /\ n \in Nat /\ Len(r) = n + 1 /\ r[n + 1] = m
      /\ \A i \in 1 .. n : r[i] = q[i]
  OBVIOUS
<1> HIDE DEF r
<1>2. 1 .. n + 1 = 1 .. n \union {n + 1}
  BY <1>1
<1>3. ASSUME IsClick(m) PROVE ~Settled(r) /\ \A wish : (m = "connect" <=> wish) => Asks(r, wish)
  <2>1. ASSUME NEW i \in 1 .. Len(r), IsClick(r[i]),
               \A j \in i + 1 .. Len(r) : ~IsClick(r[j])
        PROVE  i = n + 1
    <3>1. CASE i = n + 1
      BY <3>1
    <3>2. CASE i # n + 1
      <4>1. n + 1 \in i + 1 .. Len(r)
        BY <1>1, <2>1, <3>2
      <4>2. ~IsClick(r[n + 1])
        BY <2>1, <4>1
      <4> QED BY <1>1, <1>3, <4>2
    <3> QED BY <3>1, <3>2
  <2>2. ASSUME NEW wish, m = "connect" <=> wish PROVE Asks(r, wish)
    BY <1>1, <2>1, <2>2 DEF Asks
  <2>3. n + 1 \in 1 .. Len(r)
    BY <1>1
  <2> QED BY <1>1, <1>3, <2>2, <2>3 DEF Settled
<1>4. ASSUME ~IsClick(m) PROVE Settled(r) <=> Settled(q)
  BY <1>1, <1>2, <1>4 DEF Settled
<1>5. ASSUME ~IsClick(m), NEW wish, Asks(q, wish) PROVE Asks(r, wish)
  <2> SUFFICES ASSUME NEW i \in 1 .. Len(r), IsClick(r[i]),
                      \A j \in i + 1 .. Len(r) : ~IsClick(r[j])
               PROVE  r[i] = "connect" <=> wish
    BY DEF Asks
  <2>1. i # n + 1
    BY <1>1, <1>5
  <2>2. i \in 1 .. n /\ r[i] = q[i]
    BY <1>1, <2>1
  <2>3. \A j \in i + 1 .. n : ~IsClick(q[j])
    <3> SUFFICES ASSUME NEW j \in i + 1 .. n PROVE ~IsClick(q[j])
      OBVIOUS
    <3>1. j \in i + 1 .. Len(r) /\ j \in 1 .. n
      BY <1>1, <2>2
    <3> QED BY <1>1, <3>1
  <2> QED BY <1>5, <2>2, <2>3 DEF Asks
<1> QED BY <1>3, <1>4, <1>5 DEF r

LEMMA MessageTaken ==
  ASSUME NEW S, NEW q \in Seq(S), q # <<>>
  PROVE  /\ \A wish : Asks(q, wish) => Asks(Tail(q), wish)
         /\ ~IsClick(Head(q)) => (Settled(Tail(q)) <=> Settled(q))
         /\ \A wish : IsClick(Head(q)) /\ Settled(Tail(q)) /\ Asks(q, wish)
                        => (Head(q) = "connect" <=> wish)
<1> DEFINE r == Tail(q)  n == Len(q)
<1>1. /\ n \in Nat /\ n >= 1 /\ Len(r) = n - 1 /\ Head(q) = q[1]
      /\ \A i \in 1 .. n - 1 : r[i] = q[i + 1]
  OBVIOUS
<1> HIDE DEF r
<1>2. ASSUME NEW i \in 2 .. n PROVE i - 1 \in 1 .. Len(r) /\ r[i - 1] = q[i]
  <2>1. i - 1 \in 1 .. n - 1 /\ (i - 1) + 1 = i
    BY <1>1
  <2> QED BY <1>1, <2>1
<1>3. ASSUME NEW wish, Asks(q, wish) PROVE Asks(r, wish)
  <2> SUFFICES ASSUME NEW i \in 1 .. Len(r), IsClick(r[i]),
                      \A j \in i + 1 .. Len(r) : ~IsClick(r[j])
               PROVE  r[i] = "connect" <=> wish
    BY DEF Asks
  <2>1. i + 1 \in 1 .. n /\ r[i] = q[i + 1]
    BY <1>1
  <2>2. \A j \in (i + 1) + 1 .. n : ~IsClick(q[j])
    <3> SUFFICES ASSUME NEW j \in (i + 1) + 1 .. n PROVE ~IsClick(q[j])
      OBVIOUS
    <3>1. j \in 2 .. n /\ j - 1 \in i + 1 .. Len(r)
      BY <1>1, <2>1
    <3> QED BY <1>2, <3>1
  <2> QED BY <1>3, <2>1, <2>2 DEF Asks
<1>4. Settled(r) <=> \A i \in 2 .. n : ~IsClick(q[i])
  <2>1. ASSUME Settled(r), NEW i \in 2 .. n PROVE ~IsClick(q[i])
    BY <1>2, <2>1 DEF Settled
  <2>2. ASSUME \A i \in 2 .. n : ~IsClick(q[i]), NEW i \in 1 .. Len(r) PROVE ~IsClick(r[i])
    <3>1. i + 1 \in 2 .. n /\ r[i] = q[i + 1]
      BY <1>1
    <3> QED BY <2>2, <3>1
  <2> QED BY <2>1, <2>2 DEF Settled
<1>5. Settled(q) <=> ~IsClick(q[1]) /\ \A i \in 2 .. n : ~IsClick(q[i])
  <2>1. 1 .. n = {1} \union 2 .. n
    BY <1>1
  <2> QED BY <2>1 DEF Settled
<1>6. ASSUME NEW wish, IsClick(Head(q)), Settled(r), Asks(q, wish)
      PROVE  Head(q) = "connect" <=> wish
  <2>1. 1 \in 1 .. n /\ 1 + 1 .. n = 2 .. n
    BY <1>1
  <2>2. \A j \in 1 + 1 .. n : ~IsClick(q[j])
    BY <1>4, <1>6, <2>1
  <2> QED BY <1>1, <1>6, <2>1, <2>2 DEF Asks
<1> QED BY <1>1, <1>3, <1>4, <1>5, <1>6 DEF r

LEMMA ClickInvInductive == TypeInv /\ ClickInv /\ [Next]_vars => ClickInv'
<1> SUFFICES ASSUME TypeInv, ClickInv, [Next]_vars PROVE ClickInv'
  OBVIOUS
<1> DEFINE Messages3 == {"connect", "getData", "disconnect"}
<1>1. /\ toWorker \in Seq(Messages3) /\ timers \in Nat /\ closing \in Nat
      /\ wsUrl \in BOOLEAN /\ wanted \in BOOLEAN
  BY DEF TypeInv, TypeOK
<1>2. /\ Asks(toWorker, wanted) /\ (Settled(toWorker) => (wsUrl <=> wanted))
      /\ (wsUrl => Live \/ timers > 0) /\ (~wsUrl => ws = "none")
  BY DEF ClickInv
<1>3. Live => wsUrl
  BY <1>2 DEF Live
<1> HIDE DEF Messages3
<1>4. "connect" \in Messages3 /\ "getData" \in Messages3 /\ "disconnect" \in Messages3
      /\ IsClick("connect") /\ ~IsClick("getData") /\ IsClick("disconnect")
  BY DEF Messages3, IsClick
<1>5. ASSUME UNCHANGED <<toWorker, wanted>>, UNCHANGED wsUrl,
             (wsUrl => Live \/ timers > 0)', (~wsUrl => ws = "none")'
      PROVE  ClickInv'
  BY <1>2, <1>5 DEF ClickInv, Asks, Settled
<1>6. ASSUME UNCHANGED <<socket, toWorker, wanted>> PROVE ClickInv'
  BY <1>2, <1>5, <1>6 DEF socket, Live
<1>7. ASSUME UNCHANGED <<socket, wanted>>, toWorker' = Append(toWorker, "getData")
      PROVE  ClickInv'
  <2>1. /\ Settled(toWorker') <=> Settled(toWorker)
        /\ Asks(toWorker, wanted) => Asks(toWorker', wanted)
    BY <1>1, <1>4, <1>7, MessageAdded
  <2> QED BY <1>2, <1>7, <2>1 DEF ClickInv, socket, Live
<1>10. CASE OnOpen
  <2>1. UNCHANGED <<toWorker, wanted, wsUrl>> /\ ws = "connecting" /\ ws' = "open"
    BY <1>10 DEF OnOpen, page
  <2> QED BY <1>2, <1>5, <2>1 DEF Live
<1>11. CASE OnClose
  <2>1. UNCHANGED <<toWorker, wanted, wsUrl>> /\ Live /\ ws' = "dead" /\ Reconnect
    BY <1>11 DEF OnClose, page
  <2>2. wsUrl /\ timers' > 0
    BY <1>1, <1>3, <2>1 DEF Reconnect
  <2> QED BY <1>5, <2>1, <2>2
<1>12. CASE OnCloseOfOld
  <2>1. UNCHANGED <<toWorker, wanted, wsUrl, ws>> /\ Reconnect
    BY <1>12 DEF OnCloseOfOld, page
  <2>2. timers' >= timers
    BY <1>1, <2>1 DEF Reconnect
  <2>3. (wsUrl => Live \/ timers > 0)'
    BY <1>1, <1>2, <2>1, <2>2 DEF Live, Reconnect
  <2> QED BY <1>2, <1>5, <2>1, <2>3
<1>13. CASE Timer
  <2>1. UNCHANGED <<toWorker, wanted>>
    BY <1>13 DEF Timer, page
  <2>2. CASE wsUrl
    <3>1. wsUrl' /\ ws' = "connecting"
      BY <1>13, <2>2 DEF Timer, ConnectWebSocket
    <3> QED BY <1>5, <2>1, <2>2, <3>1, <1>1 DEF Live
  <2>3. CASE ~wsUrl
    <3>1. UNCHANGED <<wsUrl, ws>>
      BY <1>13, <2>3 DEF Timer
    <3> QED BY <1>2, <1>5, <2>1, <2>3, <3>1
  <2> QED BY <2>2, <2>3
<1>14. CASE HandleConnect
  <2>1. /\ toWorker # <<>> /\ Head(toWorker) = "connect" /\ toWorker' = Tail(toWorker)
        /\ UNCHANGED wanted /\ wsUrl' = TRUE /\ ws' = "connecting"
    BY <1>14 DEF HandleConnect, ConnectWebSocket, page
  <2>2. /\ Asks(toWorker, wanted) => Asks(toWorker', wanted)
        /\ Settled(toWorker') /\ Asks(toWorker, wanted) => wanted
    BY <1>1, <1>4, <2>1, MessageTaken
  <2> QED BY <1>2, <2>1, <2>2 DEF ClickInv, Live
<1>15. CASE HandleDisconnect
  <2>1. /\ toWorker # <<>> /\ Head(toWorker) = "disconnect" /\ toWorker' = Tail(toWorker)
        /\ UNCHANGED wanted /\ wsUrl' = FALSE /\ ws' = "none"
    BY <1>15 DEF HandleDisconnect, page
  <2>2. /\ Asks(toWorker, wanted) => Asks(toWorker', wanted)
        /\ Settled(toWorker') /\ Asks(toWorker, wanted) => ~wanted
    BY <1>1, <1>4, <2>1, MessageTaken
  <2> QED BY <1>2, <2>1, <2>2 DEF ClickInv, Live
<1>16. CASE HandleSend
  <2>1. /\ toWorker # <<>> /\ Head(toWorker) = "getData" /\ toWorker' = Tail(toWorker)
        /\ UNCHANGED <<wanted, wsUrl, ws, timers>>
    BY <1>16 DEF HandleSend, page
  <2>2. /\ Asks(toWorker, wanted) => Asks(toWorker', wanted)
        /\ Settled(toWorker') <=> Settled(toWorker)
    BY <1>1, <1>4, <2>1, MessageTaken
  <2> QED BY <1>2, <2>1, <2>2 DEF ClickInv, Live
<1>17. CASE ConnectAll
  <2>1. toWorker' = Append(toWorker, "connect") /\ wanted' = TRUE /\ UNCHANGED socket
    BY <1>17 DEF ConnectAll
  <2>2. ~Settled(toWorker') /\ \A wish : wish => Asks(toWorker', wish)
    BY <1>1, <1>4, <2>1, MessageAdded
  <2> QED BY <1>2, <2>1, <2>2 DEF ClickInv, socket, Live
<1>18. CASE DisconnectAll
  <2>1. toWorker' = Append(toWorker, "disconnect") /\ wanted' = FALSE /\ UNCHANGED socket
    BY <1>18 DEF DisconnectAll
  <2>2. ~Settled(toWorker') /\ \A wish : ~wish => Asks(toWorker', wish)
    BY <1>1, <1>4, <2>1, MessageAdded
  <2> QED BY <1>2, <2>1, <2>2 DEF ClickInv, socket, Live
<1>19. CASE OnStatus
  <2>1. UNCHANGED <<socket, wanted>>
        /\ (toWorker' = Append(toWorker, "getData") \/ toWorker' = toWorker)
    BY <1>19 DEF OnStatus
  <2> QED BY <1>6, <1>7, <2>1
<1>20. CASE Heartbeat
  BY <1>7, <1>20 DEF Heartbeat, page
<1>21. CASE OnMessage \/ TableChanges
  <2>1. UNCHANGED <<toWorker, wanted, wsUrl, ws, timers>>
    BY <1>21 DEF OnMessage, TableChanges, page
  <2> QED BY <1>2, <1>5, <2>1 DEF Live
<1>22. CASE WriterSteps \/ PumpWakes \/ PumpReads \/ PumpShows \/ ServerGoes \/ ServerReturns
  BY <1>6, <1>22 DEF WriterSteps, PumpWakes, PumpReads, PumpShows, ServerGoes, ServerReturns, page
<1>23. CASE UNCHANGED vars
  BY <1>6, <1>23 DEF vars, page
<1> QED
  BY <1>10, <1>11, <1>12, <1>13, <1>14, <1>15, <1>16, <1>17, <1>18, <1>19, <1>20, <1>21, <1>22,
     <1>23 DEF Next

(* Whatever the clicks, the outages and the delays that are still running  *)
(* do to each other, the last click wins: it is the safe part of           *)
(* StaysConnected and StaysDisconnected (ser_worker.js: the URL that is    *)
(* set by connect, cleared by disconnect, and read by ws.onclose and by    *)
(* the timer).                                                             *)
THEOREM TheLastClickWins == Spec => []LastClickWins
<1>1. Init => TypeInv /\ ClickInv
  <2>1. Init => toWorker = <<>> /\ ~wanted /\ ~wsUrl /\ ws = "none"
    BY DEF Init
  <2>2. Init => ClickInv
    BY <2>1 DEF ClickInv, Asks, Settled
  <2> QED BY <2>2, InitTypes
<1>2. ClickInv => LastClickWins
  BY DEF ClickInv, LastClickWins
<1>3. TypeInv /\ ClickInv /\ [Next]_vars => (TypeInv /\ ClickInv)'
  BY TypeInvInductive, ClickInvInductive
<1> QED
  BY <1>1, <1>2, <1>3, PTL DEF Spec

-----------------------------------------------------------------------------
(* What is shown.  No bytes that the ring holds, the worker writes or the  *)
(* page copies are of a table that the server has not had yet.             *)
Served(v) == v <= table

ServedInv ==
  /\ Served(shown)
  /\ \A v \in torn : Served(v)
  /\ wpc # "idle" => Served(writing) /\ target + Record(writing) <= Capacity
  /\ \A i \in 1 .. Len(inbox) : Served(inbox[i])
  /\ \A p \in Positions : mem[p] # <<>> => Served(mem[p][1])
  /\ \A v \in payload.of : Served(v)
  /\ rpc = "copy" => length # 0 /\ next + Prefix + length <= Capacity

(* The page shows no snapshot but one that the server has had; the rows    *)
(* that it makes of torn bytes, and the decoder makes them, are of bytes   *)
(* of such snapshots; and what it copies and what the worker writes lies   *)
(* between the two ends of the ring (ring_buffer.js: data.slice() and      *)
(* data.set(), which throws otherwise).                                    *)
ShownWasServed ==
  /\ Served(shown)
  /\ \A v \in torn : Served(v)
  /\ wpc = "put" => target + Record(writing) <= Capacity
  /\ rpc = "copy" => next + Prefix + length <= Capacity

LEMMA OneTake ==
  ASSUME NEW q \in Seq(Versions), q # <<>>
  PROVE  /\ Head(q) \in Versions /\ Len(Tail(q)) \in Nat /\ 1 \in 1 .. Len(q) /\ Head(q) = q[1]
         /\ \A i \in 1 .. Len(Tail(q)) : i + 1 \in 1 .. Len(q) /\ Tail(q)[i] = q[i + 1]
OBVIOUS

LEMMA OneMore ==
  ASSUME NEW q \in Seq(Versions), NEW v
  PROVE  \A i \in 1 .. Len(Append(q, v)) :
           IF i \in 1 .. Len(q) THEN Append(q, v)[i] = q[i] ELSE Append(q, v)[i] = v
OBVIOUS

LEMMA ServedInvInductive == TypeInv /\ ServedInv /\ [Next]_vars => ServedInv'
<1> SUFFICES ASSUME TypeInv, ServedInv, [Next]_vars PROVE ServedInv'
  OBVIOUS
<1>1. /\ inbox \in Seq(Versions) /\ table \in Nat /\ Capacity \in Nat /\ Prefix \in Nat
      /\ writing \in Versions /\ target \in Nat /\ writePos \in Positions
      /\ mem \in [Positions -> {<<>>} \union (Versions \X Nat)] /\ Versions \subseteq Nat
      /\ next \in Nat /\ length \in Nat /\ shown \in Nat
      /\ payload.of \subseteq Nat /\ torn \subseteq Nat
      /\ \A v \in Versions : Sizes[v] \in Nat /\ Record(v) \in Nat
  <2>1. /\ inbox \in Seq(Versions) /\ table \in Versions /\ shown \in Versions \union {0}
        /\ torn \subseteq Versions
    BY DEF TypeInv, TypeOK
  <2>2. /\ writing \in Versions /\ target \in Positions /\ writePos \in Positions
        /\ mem \in [Positions -> {<<>>} \union (Versions \X Nat)] /\ next \in Positions
        /\ length \in 0 .. Capacity
        /\ payload \in [whole : BOOLEAN, of : SUBSET Versions]
    BY DEF TypeInv, TypeOK, RingTypeOK
  <2>3. Capacity \in Nat /\ Prefix \in Nat
    BY RingAssumption
  <2>4. payload.of \subseteq Nat /\ torn \subseteq Nat
    <3>1. payload \in [whole : BOOLEAN, of : SUBSET Versions]
      BY <2>2
    <3>2. payload.of \subseteq Versions
      BY ONLY <3>1
    <3> QED BY <2>1, <3>2, VersionsAreNat
  <2> QED BY <2>1, <2>2, <2>3, <2>4, VersionsAreNat, PositionsAreNat
<1>2. /\ Served(shown)
      /\ (\A v \in torn : Served(v))
      /\ (wpc # "idle" => Served(writing) /\ target + Record(writing) <= Capacity)
      /\ (\A i \in 1 .. Len(inbox) : Served(inbox[i]))
      /\ (\A p \in Positions : mem[p] # <<>> => Served(mem[p][1]))
      /\ (\A v \in payload.of : Served(v))
      /\ (rpc = "copy" => length # 0 /\ next + Prefix + length <= Capacity)
  BY DEF ServedInv
<1> USE DEF rows
<1>3. ASSUME UNCHANGED <<ring, writer, reader, rows, inbox>>, table' = table
      PROVE  ServedInv'
  BY <1>2, <1>3 DEF ServedInv, Served, ring, writer, reader
<1>4. ASSUME UNCHANGED <<ring, writer, reader, rows, table>>,
             \A i \in 1 .. Len(inbox') : Served(inbox'[i])
      PROVE  ServedInv'
  BY <1>2, <1>4 DEF ServedInv, Served, ring, writer, reader
<1>10. CASE OnOpen
  <2>1. inbox' = <<table>> /\ UNCHANGED <<ring, writer, reader, rows, table>>
    BY <1>10 DEF OnOpen, server
  <2>2. \A i \in 1 .. Len(inbox') : inbox'[i] = table
    BY <2>1
  <2>3. \A i \in 1 .. Len(inbox') : Served(inbox'[i])
    BY <1>1, <2>2 DEF Served
  <2> QED BY <1>4, <2>1, <2>3
<1>11. CASE OnClose \/ HandleConnect \/ HandleDisconnect
  <2>1. inbox' = <<>> /\ UNCHANGED <<ring, writer, reader, rows, table>>
    BY <1>11 DEF OnClose, HandleConnect, ConnectWebSocket, HandleDisconnect, server
  <2>2. \A i \in 1 .. Len(inbox') : Served(inbox'[i])
    BY <2>1
  <2> QED BY <1>4, <2>1, <2>2
<1>12. CASE Timer
  <2>1. (inbox' = <<>> \/ inbox' = inbox) /\ UNCHANGED <<ring, writer, reader, rows, table>>
    BY <1>12 DEF Timer, ConnectWebSocket, server
  <2>2. \A i \in 1 .. Len(inbox') : Served(inbox'[i])
    BY <1>2, <2>1
  <2> QED BY <1>4, <2>1, <2>2
<1>13. CASE OnMessage
  <2>1. inbox # <<>> /\ inbox' = Tail(inbox) /\ UNCHANGED <<rows, table>> /\ WorkerIsFree
    BY <1>13 DEF OnMessage, server
  <2>2. Head(inbox) \in Versions /\ Served(Head(inbox))
    BY <1>1, <1>2, <2>1, OneTake
  <2>3. \A i \in 1 .. Len(inbox') : Served(inbox'[i])
    BY <1>1, <1>2, <2>1, OneTake
  <2>4. CASE WriteBegins(Head(inbox))
    <3> DEFINE v == Head(inbox)
    <3>1. /\ writing' = v /\ UNCHANGED <<ring, reader>> /\ Sizes[v] <= Capacity - Prefix
          /\ target' = IF writePos + Record(v) > Capacity THEN 0 ELSE writePos
      BY <2>4 DEF WriteBegins
    <3> HIDE DEF v
    <3>2. Sizes[v] \in Nat /\ Record(v) = Prefix + Sizes[v] /\ writePos \in Nat
      BY <1>1, <2>2, PositionsAreNat DEF Record, v
    <3>3. target' + Record(v) <= Capacity
      BY <1>1, <3>1, <3>2
    <3>4. Record(writing)' = Record(v)
      BY <3>1 DEF Record
    <3>5. Served(writing)' /\ target' + Record(writing)' <= Capacity
      BY <2>1, <2>2, <3>1, <3>3, <3>4 DEF Served, v
    <3> QED BY <1>2, <2>1, <2>3, <3>1, <3>5 DEF ServedInv, Served, ring, reader
  <2>5. CASE UNCHANGED <<ring, writer, reader>>
    BY <1>4, <2>1, <2>3, <2>5
  <2> QED BY <1>13, <2>4, <2>5 DEF OnMessage
<1>14. CASE HandleSend
  <2>1. (inbox' = inbox \/ inbox' = Append(inbox, table)) /\ UNCHANGED <<ring, writer, reader, rows, table>>
    BY <1>14 DEF HandleSend, server
  <2>2. \A i \in 1 .. Len(inbox') : (i \in 1 .. Len(inbox) /\ inbox'[i] = inbox[i]) \/ inbox'[i] = table
    BY <1>1, <2>1, OneMore
  <2>3. \A i \in 1 .. Len(inbox') : Served(inbox'[i])
    BY <1>1, <1>2, <2>2 DEF Served
  <2> QED BY <1>4, <2>1, <2>3
<1>15. CASE TableChanges
  <2>1. /\ inbox' = inbox \/ inbox' = Append(inbox, table')
        /\ UNCHANGED <<ring, writer, reader, rows>> /\ table' = table + 1
    BY <1>15 DEF TableChanges
  <2>2. \A i \in 1 .. Len(inbox') : (i \in 1 .. Len(inbox) /\ inbox'[i] = inbox[i]) \/ inbox'[i] = table'
    <3>1. CASE inbox' = inbox
      BY <3>1
    <3>2. CASE inbox' = Append(inbox, table')
      <4> DEFINE v == table'
      <4>1. \A i \in 1 .. Len(Append(inbox, v)) :
              IF i \in 1 .. Len(inbox) THEN Append(inbox, v)[i] = inbox[i] ELSE Append(inbox, v)[i] = v
        BY <1>1, OneMore
      <4>2. inbox' = Append(inbox, v)
        BY <3>2
      <4> HIDE DEF v
      <4>3. \A i \in 1 .. Len(inbox') :
              IF i \in 1 .. Len(inbox) THEN inbox'[i] = inbox[i] ELSE inbox'[i] = v
        BY <4>1, <4>2
      <4> QED BY <4>3 DEF v
    <3> QED BY <2>1, <3>1, <3>2
  <2>3. ASSUME NEW v \in Nat, Served(v) PROVE v <= table'
    BY <1>1, <2>1, <2>3 DEF Served
  <2>4. ASSUME NEW i \in 1 .. Len(inbox') PROVE inbox'[i] <= table'
    <3>1. CASE i \in 1 .. Len(inbox) /\ inbox'[i] = inbox[i]
      <4>1. inbox[i] \in Versions
        BY <1>1, <3>1
      <4>2. inbox[i] \in Nat /\ Served(inbox[i])
        BY <1>1, <1>2, <3>1, <4>1
      <4> QED BY <2>3, <3>1, <4>2
    <3>2. CASE inbox'[i] = table'
      BY <1>1, <2>1, <3>2
    <3> QED BY <2>2, <3>1, <3>2
  <2>5. ASSUME NEW p \in Positions, mem[p] # <<>> PROVE mem[p][1] <= table'
    <3>1. mem[p][1] \in Nat
      BY <1>1, <2>5
    <3> QED BY <1>2, <2>3, <2>5, <3>1
  <2>6. /\ shown <= table' /\ (wpc # "idle" => writing <= table')
        /\ (\A v \in payload.of : v <= table') /\ (\A v \in torn : v <= table')
    BY <1>1, <1>2, <2>3
  <2>7. UNCHANGED <<mem, wpc, writing, target, payload, rpc, next, length, shown, torn>>
    BY <2>1 DEF ring, writer, reader
  <2>8. /\ (wpc # "idle" => target + Record(writing) <= Capacity)'
        /\ (rpc = "copy" => length # 0 /\ next + Prefix + length <= Capacity)'
    BY <1>2, <2>7 DEF Record
  <2>9. /\ Served(shown)' /\ (wpc # "idle" => Served(writing))'
        /\ (\A v \in payload.of : Served(v))' /\ (\A v \in torn : Served(v))'
    BY <2>6, <2>7 DEF Served
  <2>10. (\A p \in Positions : mem[p] # <<>> => Served(mem[p][1]))'
    BY <2>5, <2>7 DEF Served
  <2>11. (\A i \in 1 .. Len(inbox) : Served(inbox[i]))'
    BY <2>4 DEF Served
  <2> QED BY <2>8, <2>9, <2>10, <2>11 DEF ServedInv
<1>16. CASE WriterSteps
  <2>1. /\ Write /\ UNCHANGED <<rows, inbox, table>>
    BY <1>16 DEF WriterSteps, socket, server
  <2>2. CASE Free \/ Drop \/ Compare \/ Move \/ Publish \/ Notify
    <3>1. UNCHANGED <<mem, writing, target, reader>> /\ wpc # "idle"
      BY <2>2 DEF Free, Drop, Compare, Move, Publish, Notify, ring
    <3> QED BY <1>2, <2>1, <3>1 DEF ServedInv, Served, reader, Record
  <2>3. CASE Put
    <3>1. UNCHANGED <<writing, target, reader>> /\ wpc # "idle"
      BY <2>3 DEF Put
    <3>2. ASSUME NEW p \in Positions, mem'[p] # <<>> PROVE mem'[p][1] <= table
      <4>1. mem'[p] = IF p \in target .. target + Record(writing) - 1
                      THEN <<writing, p - target>> ELSE mem[p]
        BY <2>3 DEF Put
      <4> QED BY <1>2, <3>1, <3>2, <4>1 DEF Served
    <3> QED BY <1>2, <2>1, <3>1, <3>2 DEF ServedInv, Served, reader, Record
  <2> QED BY <2>1, <2>2, <2>3 DEF Write
<1>17. CASE PumpReads
  <2>1. Read /\ UNCHANGED <<rows, inbox, table>>
    BY <1>17 DEF PumpReads, socket, server
  <2>2. CASE ReadBegins \/ Store
    <3>1. UNCHANGED <<mem, writer, payload>> /\ rpc' # "copy"
      BY <2>2 DEF ReadBegins, Store, ring
    <3> QED BY <1>2, <2>1, <3>1 DEF ServedInv, Served, writer, Record
  <2>3. CASE Look
    <3>1. UNCHANGED <<mem, writer, payload>>
      BY <2>3 DEF Look, ring
    <3>2. ASSUME rpc' = "copy" PROVE length' # 0 /\ next' + Prefix + length' <= Capacity
      <4>1. PICK place \in Places : ~NoLength(place.len) /\ next' = place.pos /\ length' = place.len
        BY <2>3, <3>2 DEF Look
      <4>2. from \in Nat
        BY PositionsAreNat DEF TypeInv, TypeOK, RingTypeOK
      <4> DEFINE pos == IF from + Prefix > Capacity THEN 0 ELSE from
      <4>3. pos \in Nat /\ Lengths(pos) \subseteq Nat /\ Lengths(0) \subseteq Nat
        BY <4>2, LengthsAreNat
      <4>4. \/ \E n \in Lengths(pos) : /\ place = [pos |-> pos, len |-> n]
                                       /\ ~NoLength(n) => pos + Prefix + n <= Capacity
            \/ \E n \in Lengths(0) \union {0} : place = [pos |-> 0, len |-> n]
        BY <4>1 DEF Places
      <4> HIDE DEF pos
      <4>5. CASE \E n \in Lengths(pos) : /\ place = [pos |-> pos, len |-> n]
                                         /\ ~NoLength(n) => pos + Prefix + n <= Capacity
        BY <4>1, <4>5 DEF NoLength
      <4>6. CASE \E n \in Lengths(0) \union {0} : place = [pos |-> 0, len |-> n]
        <5>1. PICK n \in Lengths(0) \union {0} : place = [pos |-> 0, len |-> n]
          BY <4>6
        <5>2. n \in Nat /\ place.pos = 0 /\ place.len = n
          BY <4>3, <5>1
        <5>3. n # 0 /\ ~(n > Capacity - Prefix)
          BY <4>1, <5>2 DEF NoLength
        <5>4. 0 + Prefix + n <= Capacity
          BY <1>1, <5>2, <5>3
        <5> QED BY <4>1, <5>2, <5>3, <5>4
      <4> QED BY <4>4, <4>5, <4>6
    <3> QED BY <1>2, <2>1, <3>1, <3>2 DEF ServedInv, Served, writer, Record
  <2>4. CASE Copy
    <3>1. UNCHANGED <<mem, writer>> /\ rpc = "copy" /\ rpc' = "store"
      BY <2>4 DEF Copy, ring
    <3>2. ASSUME NEW v \in Owners PROVE v <= table
      <4>1. PICK i \in 0 .. length - 1 :
              mem[next + Prefix + i] # <<>> /\ mem[next + Prefix + i][1] = v
        BY <3>2 DEF Owners
      <4>2. next + Prefix + i \in Positions
        BY <1>1, <1>2, <3>1 DEF Positions
      <4> QED BY <1>2, <4>1, <4>2 DEF Served
    <3>3. CASE payload'.of = Owners
      BY <1>2, <2>1, <3>1, <3>2, <3>3 DEF ServedInv, Served, writer, Record
    <3>4. CASE payload'.of = Owners \union {writing} /\ wpc = "put"
      BY <1>2, <2>1, <3>1, <3>2, <3>4 DEF ServedInv, Served, writer, Record
    <3> QED BY <2>4, <3>3, <3>4 DEF Copy, Racing
  <2> QED BY <2>1, <2>2, <2>3, <2>4 DEF Read
<1>18. CASE PumpShows
  <2>1. /\ UNCHANGED <<ring, writer, inbox, table>> /\ rpc' = "begin" /\ payload'.of = {}
        /\ shown' = shown \/ shown' \in payload.of
        /\ torn' \subseteq torn \union payload.of
    BY <1>18 DEF PumpShows, Nothing, socket, server
  <2> QED BY <1>2, <2>1 DEF ServedInv, Served, ring, writer, Record
<1>19. CASE PumpWakes
  <2>1. UNCHANGED <<mem, writer, payload, rows, inbox, table>> /\ rpc' # "copy"
    BY <1>19 DEF PumpWakes, Wake, socket, server, ring
  <2> QED BY <1>2, <2>1 DEF ServedInv, Served, writer, Record
<1>20. CASE ConnectAll
  <2>1. UNCHANGED <<rows, inbox, table>>
    BY <1>20 DEF ConnectAll, socket, server
  <2>2. CASE UNCHANGED <<ring, writer, reader>>
    BY <1>3, <2>1, <2>2
  <2>3. CASE Register
    <3>1. UNCHANGED <<mem, writer, payload>> /\ rpc' = "wait"
      BY <2>3 DEF Register
    <3> QED BY <1>2, <2>1, <3>1 DEF ServedInv, Served, writer, Record
  <2> QED BY <1>20, <2>2, <2>3 DEF ConnectAll
<1>21. CASE DisconnectAll
  <2>1. UNCHANGED <<rows, inbox, table, mem, writer, reader>>
    BY <1>21 DEF DisconnectAll, Unregister, socket, server
  <2> QED BY <1>2, <2>1 DEF ServedInv, Served, writer, reader, Record
<1>22. CASE OnCloseOfOld \/ OnStatus \/ Heartbeat \/ ServerGoes \/ ServerReturns
  <2>1. UNCHANGED <<ring, writer, reader, rows, inbox, table>>
    BY <1>22 DEF OnCloseOfOld, OnStatus, Heartbeat, ServerGoes, ServerReturns, socket, server
  <2> QED BY <1>3, <2>1
<1>23. CASE UNCHANGED vars
  <2>1. UNCHANGED <<ring, writer, reader, rows, inbox, table>>
    BY <1>23 DEF vars, socket, server
  <2> QED BY <1>3, <2>1
<1> QED
  BY <1>10, <1>11, <1>12, <1>13, <1>14, <1>15, <1>16, <1>17, <1>18, <1>19, <1>20, <1>21, <1>22,
     <1>23 DEF Next

(* However the two threads interleave on a ring that nothing locks, and    *)
(* whatever a torn length reads as: nothing is read or written outside the *)
(* ring; a snapshot that the page shows the server has had; and when bytes *)
(* are decoded that were not written together, which happens               *)
(* (MCSerPageTorn.cfg), each of them is of a snapshot that it has had.     *)
THEOREM PageShowsServedTables == Spec => []ShownWasServed
<1>1. Init => ServedInv
  <2>1. Init => /\ shown = 0 /\ table = 1 /\ wpc = "idle" /\ inbox = <<>> /\ payload.of = {} /\ torn = {}
                /\ rpc = "off" /\ \A p \in Positions : mem[p] = <<>>
    BY DEF Init, RingInit, Nothing
  <2> QED BY <2>1 DEF ServedInv, Served
<1>2. ServedInv => ShownWasServed
  BY DEF ServedInv, ShownWasServed
<1>3. TypeInv /\ ServedInv /\ [Next]_vars => (TypeInv /\ ServedInv)'
  BY TypeInvInductive, ServedInvInductive
<1> QED
  BY <1>1, <1>2, <1>3, InitTypes, PTL DEF Spec
=============================================================================
