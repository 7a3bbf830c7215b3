----------------------- MODULE WebSocketSessionProofs -----------------------
(***************************************************************************)
(* Theorems about WebSocketSession, for any number of workers and          *)
(* requests, with or without handlers that throw.                          *)
(***************************************************************************)
EXTENDS WebSocketSession, SequenceTheorems, TLAPS

(* The parts of TypeOK, by who writes them. *)
ReadOK == /\ phase \in {"handshake", "open", "refused"} /\ registered \in BOOLEAN
          /\ reading \in Nat /\ pending_read \in BOOLEAN
OutputOK == /\ writing \in BOOLEAN /\ inflight \in Seq(Writes)
            /\ write_queue \in Seq(Pending)
StrandOK == strand \in Seq(Posted)
HandlerOK == handler \in [Requests -> HandlerPCs] /\ abort \in BOOLEAN
WorkersOK == /\ version \in Nat /\ at \in [Broadcasters -> {"idle", "loaded", "posting"}]
             /\ payload \in [Broadcasters -> Frames]
BrowserOK == /\ link \in BOOLEAN /\ inbox \in Seq([id : Requests, kind : RequestKinds])
             /\ sent \in 0 .. MaxRequests /\ answers \in Seq(Nat) /\ shown \in Nat

LEMMA TypeParts ==
  TypeOK <=> ReadOK /\ OutputOK /\ StrandOK /\ HandlerOK /\ WorkersOK /\ BrowserOK
BY DEF TypeOK, ReadOK, OutputOK, StrandOK, HandlerOK, WorkersOK, BrowserOK

LEMMA TypePartsNext ==
  TypeOK' <=> ReadOK' /\ OutputOK' /\ StrandOK' /\ HandlerOK' /\ WorkersOK' /\ BrowserOK'
BY DEF TypeOK, ReadOK, OutputOK, StrandOK, HandlerOK, WorkersOK, BrowserOK

(* Before the handshake is done, nobody may read. *)
NoReadYet ==
  phase # "open" => reading = 0 /\ ~pending_read /\ Serving = {} /\ ToRead = {}

(* The right to read exists at most once, and at least once while the      *)
(* connection works.                                                       *)
ReadInv == AtMostOneRead /\ ReadLoopAlive /\ NoReadYet

IInv == TypeOK /\ OneWriter /\ ReadInv

-----------------------------------------------------------------------------
(* Sequences *)

LEMMA EmptyOrNot == ASSUME NEW S, NEW s \in Seq(S)
                    PROVE  (s = <<>>) <=> (Len(s) = 0)
OBVIOUS

(* A function that reads is posted to a strand without one: it is the      *)
(* only one.                                                               *)
LEMMA PostRead ==
  ASSUME StrandOK, NEW p \in Posted, strand' = Append(strand, p),
         p.run \in {"respond", "do_read"}, ToRead = {}
  PROVE  StrandOK' /\ ToRead' = {Len(strand) + 1}
<1>1. /\ strand' \in Seq(Posted)
      /\ Len(strand') = Len(strand) + 1
      /\ \A i \in 1 .. Len(strand) : strand'[i] = strand[i]
      /\ strand'[Len(strand) + 1] = p
  BY DEF StrandOK
<1>2. Len(strand) \in Nat
  BY DEF StrandOK
<1>3. QED
  BY <1>1, <1>2 DEF StrandOK, ToRead

(* One that does not read leaves ToRead alone. *)
LEMMA PostOther ==
  ASSUME StrandOK, NEW p \in Posted, strand' = Append(strand, p),
         p.run \notin {"respond", "do_read"}
  PROVE  StrandOK' /\ ToRead' = ToRead
<1>1. /\ strand' \in Seq(Posted)
      /\ Len(strand') = Len(strand) + 1
      /\ \A i \in 1 .. Len(strand) : strand'[i] = strand[i]
      /\ strand'[Len(strand) + 1] = p
  BY DEF StrandOK
<1>2. Len(strand) \in Nat
  BY DEF StrandOK
<1>3. QED
  BY <1>1, <1>2 DEF StrandOK, ToRead

(* The head of the strand leaves it: what remains moves up by one. *)
LEMMA TakePosted ==
  ASSUME StrandOK, strand # <<>>, strand' = Tail(strand)
  PROVE  /\ StrandOK'
         /\ Head(strand) \in Posted
         /\ (1 \in ToRead) <=> Head(strand).run \in {"respond", "do_read"}
         /\ \A i \in Nat : i \in ToRead' <=> (i > 0 /\ i + 1 \in ToRead)
<1>1. /\ Len(strand) \in Nat \ {0}
      /\ Head(strand) = strand[1] /\ Head(strand) \in Posted
      /\ strand' \in Seq(Posted)
      /\ Len(strand') = Len(strand) - 1
      /\ \A i \in 1 .. Len(strand') : strand'[i] = strand[i + 1]
  BY EmptyOrNot DEF StrandOK
<1>2. (1 \in ToRead) <=> Head(strand).run \in {"respond", "do_read"}
  BY <1>1 DEF ToRead
<1>3. \A i \in Nat : i \in ToRead' <=> (i > 0 /\ i + 1 \in ToRead)
  BY <1>1 DEF ToRead
<1>4. QED
  BY <1>1, <1>2, <1>3 DEF StrandOK

-----------------------------------------------------------------------------
(* Writing *)

LEMMA Outgoing == /\ \A f \in Frames : f \in Pending
                  /\ SendAll \in Pending
                  /\ \A m \in Pending : m # SendAll => m \in Frames
                  /\ \A v \in Nat : Snapshot(v) \in Frames /\ Text(v) \in Frames
BY DEF Pending, Frames, Snapshot, Text, SendAll

LEMMA StartEffect ==
  ASSUME NEW q \in Seq(Pending), NEW f \in Frames,
         NEW d \in {"on_write", "on_broadcast_write"},
         Start(<<>>, q, f, d)
  PROVE  OutputOK' /\ OneWriter'
<1>1. [frame |-> f, done |-> d] \in Writes
  BY DEF Writes
<1>2. inflight' = <<[frame |-> f, done |-> d]>>
  BY DEF Start
<1>3. inflight' \in Seq(Writes) /\ Len(inflight') = 1 /\ inflight' # <<>>
  BY <1>1, <1>2
<1>4. QED
  BY <1>3 DEF Start, OutputOK, OneWriter

LEMMA WriteEffect ==
  ASSUME OutputOK, OneWriter, NEW item \in Pending, NEW f \in Frames,
         NEW d \in {"on_write", "on_broadcast_write"},
         WriteOrQueue(item, f, d)
  PROVE  OutputOK' /\ OneWriter'
<1>1. CASE writing
  <2>1. write_queue' = Append(write_queue, item) /\ UNCHANGED <<writing, inflight>>
    BY <1>1 DEF WriteOrQueue
  <2>2. write_queue' \in Seq(Pending)
    BY <2>1 DEF OutputOK
  <2>3. QED
    BY <1>1, <2>1, <2>2 DEF OutputOK, OneWriter
<1>2. CASE ~writing
  <2>1. inflight = <<>>
    BY <1>2 DEF OneWriter
  <2>2. Start(<<>>, write_queue, f, d)
    BY <1>2, <2>1 DEF WriteOrQueue
  <2>3. QED
    BY <2>2, StartEffect DEF OutputOK
<1>3. QED
  BY <1>1, <1>2

LEMMA DrainEffect ==
  ASSUME OutputOK, OneWriter, version \in Nat, inflight # <<>>, DrainQueue(Tail(inflight))
  PROVE  OutputOK' /\ OneWriter'
<1>0. inflight \in Seq(Writes) /\ Len(inflight) \in Nat /\ Len(inflight) <= 1
  BY DEF OutputOK, OneWriter
<1>1. Len(inflight) = 1 /\ Tail(inflight) = <<>>
  <2>1. Len(inflight) # 0
    BY <1>0, EmptyOrNot
  <2>2. Len(inflight) = 1
    <3>1. \A n \in Nat : n <= 1 /\ n # 0 => n = 1
      OBVIOUS
    <3>2. QED
      BY <1>0, <2>1, <3>1
  <2>3. Tail(inflight) \in Seq(Writes) /\ Len(Tail(inflight)) = 0
    BY <1>0, <2>2
  <2>4. QED
    BY <2>2, <2>3, EmptyOrNot
<1>2. CASE write_queue = <<>>
  <2>1. writing' = FALSE /\ inflight' = <<>> /\ write_queue' = <<>>
    BY <1>1, <1>2 DEF DrainQueue
  <2>2. Len(inflight') = 0 /\ inflight' \in Seq(Writes) /\ write_queue' \in Seq(Pending)
    BY <2>1
  <2>3. OutputOK'
    BY <2>1, <2>2 DEF OutputOK
  <2>4. Len(inflight') <= 1
    BY <2>2
  <2>5. OneWriter'
    BY <2>1, <2>4 DEF OneWriter
  <2>6. QED
    BY <2>3, <2>5
<1>3. CASE write_queue # <<>>
  <2>1. Head(write_queue) \in Pending /\ Tail(write_queue) \in Seq(Pending)
    BY <1>3 DEF OutputOK
  <2>2. PICK f \in Frames, d \in {"on_write", "on_broadcast_write"} :
          Start(<<>>, Tail(write_queue), f, d)
    BY <1>1, <1>3, <2>1, Outgoing DEF DrainQueue
  <2>3. QED
    BY <2>1, <2>2, StartEffect
<1>4. QED
  BY <1>2, <1>3

-----------------------------------------------------------------------------
(* The actions.  What each lemma needs of the rest is that it is unchanged. *)

LEMMA OnAcceptStep == ASSUME IInv, OnAccept PROVE IInv'
<1>0. /\ ReadOK /\ OutputOK /\ StrandOK /\ HandlerOK /\ WorkersOK /\ BrowserOK
      /\ OneWriter /\ NoReadYet
  BY TypeParts DEF IInv, ReadInv
<1>1. /\ phase = "handshake"
      /\ UNCHANGED <<reading, strand, handler, abort, workers, browser>>
  BY DEF OnAccept
<1>2. reading = 0 /\ ~pending_read /\ Serving = {} /\ ToRead = {}
  BY <1>0, <1>1 DEF NoReadYet
<1>3. Serving' = {} /\ ToRead' = {} /\ reading' = 0
  BY <1>1, <1>2 DEF Serving, ToRead
<1>4. StrandOK' /\ HandlerOK' /\ WorkersOK' /\ BrowserOK'
  BY <1>0, <1>1 DEF StrandOK, HandlerOK, WorkersOK, BrowserOK, workers, browser
<1>5. CASE link
  <2>1. phase' = "open" /\ registered' = TRUE /\ pending_read' = TRUE /\ SendData
    BY <1>5 DEF OnAccept
  <2>2. OutputOK' /\ OneWriter'
    BY <1>0, <2>1, Outgoing, WriteEffect DEF SendData, WorkersOK
  <2>3. ReadOK'
    BY <1>3, <2>1 DEF ReadOK
  <2>4. ReadInv'
    BY <1>3, <2>1 DEF ReadInv, AtMostOneRead, ReadLoopAlive, NoReadYet
  <2>5. QED
    BY <1>4, <2>2, <2>3, <2>4, TypePartsNext DEF IInv
<1>6. CASE ~link
  <2>1. phase' = "refused" /\ UNCHANGED <<registered, pending_read, output>>
    BY <1>6 DEF OnAccept
  <2>2. OutputOK' /\ OneWriter'
    BY <1>0, <2>1 DEF OutputOK, OneWriter, output
  <2>3. ReadOK'
    BY <1>0, <1>3, <2>1 DEF ReadOK
  <2>4. ReadInv'
    BY <1>2, <1>3, <2>1 DEF ReadInv, AtMostOneRead, ReadLoopAlive, NoReadYet
  <2>5. QED
    BY <1>4, <2>2, <2>3, <2>4, TypePartsNext DEF IInv
<1>7. QED
  BY <1>5, <1>6

LEMMA OnReadStep == ASSUME IInv, OnRead PROVE IInv'
<1>0. /\ ReadOK /\ OutputOK /\ StrandOK /\ HandlerOK /\ WorkersOK /\ BrowserOK
      /\ OneWriter /\ ReadInv
  BY TypeParts DEF IInv
<1>1. /\ reading > 0 /\ inbox # <<>>
      /\ reading' = reading - 1
      /\ inbox' = Tail(inbox)
      /\ UNCHANGED <<phase, registered, strand, workers, link, sent, answers, shown>>
  BY DEF OnRead
<1>2. /\ reading = 1 /\ ~pending_read /\ Serving = {} /\ ToRead = {} /\ phase = "open"
  <2>1. reading \in Nat /\ reading # 0 /\ reading <= 1
    BY <1>0, <1>1 DEF ReadOK, ReadInv, AtMostOneRead
  <2>2. reading = 1
    BY <2>1
  <2>3. QED
    BY <1>0, <2>1, <2>2 DEF ReadInv, AtMostOneRead, NoReadYet
<1>3. reading' = 0 /\ ToRead' = {} /\ phase' = "open"
  BY <1>1, <1>2 DEF ToRead
<1>4. Head(inbox) \in [id : Requests, kind : RequestKinds]
      /\ Tail(inbox) \in Seq([id : Requests, kind : RequestKinds])
  <2> DEFINE R == [id : Requests, kind : RequestKinds]
  <2>1. inbox \in Seq(R) /\ inbox # <<>>
    BY <1>0, <1>1 DEF BrowserOK
  <2> HIDE DEF R
  <2>2. Head(inbox) \in R /\ Tail(inbox) \in Seq(R)
    BY <2>1
  <2>3. QED
    BY <2>2 DEF R
<1>5. StrandOK' /\ WorkersOK' /\ BrowserOK'
  BY <1>0, <1>1, <1>4 DEF StrandOK, WorkersOK, BrowserOK, workers
<1>6. CASE Head(inbox).kind = "refresh"
  <2>1. pending_read' = TRUE /\ SendData /\ UNCHANGED <<handler, abort>>
    BY <1>6 DEF OnRead
  <2>2. OutputOK' /\ OneWriter'
    BY <1>0, <2>1, Outgoing, WriteEffect DEF SendData, WorkersOK
  <2>3. Serving' = {}
    BY <1>2, <2>1 DEF Serving
  <2>4. ReadOK' /\ HandlerOK'
    BY <1>0, <1>1, <1>3, <2>1 DEF ReadOK, HandlerOK
  <2>5. ReadInv'
    BY <1>3, <2>1, <2>3 DEF ReadInv, AtMostOneRead, ReadLoopAlive, NoReadYet
  <2>6. QED
    BY <1>5, <2>2, <2>4, <2>5, TypePartsNext DEF IInv
<1>7. CASE Head(inbox).kind # "refresh"
  <2> DEFINE n == Head(inbox).id
             k == Head(inbox).kind
  <2>1. /\ handler' = [handler EXCEPT ![n] = k]
        /\ abort' = (k = "action" /\ abort)
        /\ UNCHANGED <<pending_read, output>>
    BY <1>7 DEF OnRead
  <2>2. n \in Requests /\ k \in {"action", "command"}
    BY <1>4, <1>7 DEF RequestKinds
  <2>3. HandlerOK'
    <3>1. handler' \in [Requests -> HandlerPCs]
      BY <1>0, <2>1, <2>2 DEF HandlerOK, HandlerPCs
    <3>2. abort' \in BOOLEAN
      BY <1>0, <2>1 DEF HandlerOK
    <3>3. QED
      BY <3>1, <3>2 DEF HandlerOK
  <2>4. Serving' = {n}
    BY <1>0, <1>2, <2>1, <2>2 DEF Serving, HandlerOK
  <2>5. OutputOK' /\ OneWriter' /\ ReadOK'
    BY <1>0, <1>1, <1>3, <2>1 DEF OutputOK, OneWriter, ReadOK, output
  <2>6. ReadInv'
    BY <1>2, <1>3, <2>1, <2>4 DEF ReadInv, AtMostOneRead, ReadLoopAlive, NoReadYet
  <2>7. QED
    BY <1>5, <2>3, <2>5, <2>6, TypePartsNext DEF IInv
<1>8. QED
  BY <1>6, <1>7

LEMMA OnReadErrorStep == ASSUME IInv, OnReadError PROVE IInv'
<1>0. /\ ReadOK /\ OutputOK /\ StrandOK /\ HandlerOK /\ WorkersOK /\ BrowserOK
      /\ OneWriter /\ ReadInv
  BY TypeParts DEF IInv
<1>1. /\ reading > 0 /\ ~link
      /\ reading' = reading - 1 /\ registered' = FALSE
      /\ UNCHANGED <<phase, pending_read, output, strand, handler, abort, workers, browser>>
  BY DEF OnReadError
<1>2. reading = 1 /\ reading' = 0
  <2>1. reading \in Nat /\ reading # 0 /\ reading <= 1
    BY <1>0, <1>1 DEF ReadOK, ReadInv, AtMostOneRead
  <2>2. QED
    BY <1>1, <2>1
<1>3. Serving' = Serving /\ ToRead' = ToRead /\ ~link'
  BY <1>1 DEF Serving, ToRead, browser
<1>4. ReadInv'
  <2>1. ~pending_read /\ Serving = {} /\ ToRead = {}
    BY <1>0, <1>2 DEF ReadInv, AtMostOneRead
  <2>2. ~pending_read' /\ Serving' = {} /\ ToRead' = {} /\ reading' <= 1 /\ reading' # 1
    BY <1>1, <1>2, <1>3, <2>1
  <2>3. QED
    BY <1>2, <1>3, <2>2 DEF ReadInv, AtMostOneRead, ReadLoopAlive, NoReadYet
<1>5. ReadOK'
  <2>1. registered' = FALSE /\ UNCHANGED <<phase, pending_read>>
    BY <1>1
  <2>2. reading' \in Nat
    BY <1>2
  <2>3. registered' \in BOOLEAN
    BY <2>1
  <2>4. phase' \in {"handshake", "open", "refused"} /\ pending_read' \in BOOLEAN
    BY <1>0, <2>1 DEF ReadOK
  <2>5. QED
    BY <2>2, <2>3, <2>4 DEF ReadOK
<1>6. OutputOK' /\ OneWriter'
  BY <1>0, <1>1 DEF OutputOK, OneWriter, output
<1>7. StrandOK' /\ HandlerOK' /\ WorkersOK' /\ BrowserOK'
  BY <1>0, <1>1 DEF StrandOK, HandlerOK, WorkersOK, BrowserOK, workers, browser
<1>8. QED
  BY <1>4, <1>5, <1>6, <1>7, TypePartsNext DEF IInv

LEMMA OnWriteStep == ASSUME IInv, OnWrite PROVE IInv'
<1>0. /\ ReadOK /\ OutputOK /\ StrandOK /\ HandlerOK /\ WorkersOK /\ BrowserOK
      /\ OneWriter /\ ReadInv
  BY TypeParts DEF IInv
<1> DEFINE w == Head(inflight)
<1>1. /\ inflight # <<>> /\ Arrive(w.frame) /\ DrainQueue(Tail(inflight))
      /\ IF w.done = "on_write" /\ pending_read
         THEN pending_read' = FALSE /\ reading' = reading + 1
         ELSE UNCHANGED <<pending_read, reading>>
      /\ UNCHANGED <<phase, registered, strand, handler, abort, workers, link, inbox, sent>>
  BY DEF OnWrite
<1>2. w \in Writes
  <2>1. inflight \in Seq(Writes) /\ inflight # <<>>
    BY <1>0, <1>1 DEF OutputOK
  <2>2. QED
    BY <2>1
<1>3. w.frame.n \in Nat
  BY <1>2 DEF Writes, Frames
<1>4. BrowserOK'
  <2>1. answers' \in Seq(Nat)
    BY <1>0, <1>1, <1>3 DEF Arrive, BrowserOK
  <2>2. shown' \in Nat
    BY <1>0, <1>1, <1>3 DEF Arrive, BrowserOK
  <2>3. QED
    BY <1>0, <1>1, <2>1, <2>2 DEF BrowserOK
<1>5. OutputOK' /\ OneWriter'
  BY <1>0, <1>1, DrainEffect DEF WorkersOK
<1>6. Serving' = Serving /\ ToRead' = ToRead
  BY <1>1 DEF Serving, ToRead
<1>7. StrandOK' /\ HandlerOK' /\ WorkersOK'
  BY <1>0, <1>1 DEF StrandOK, HandlerOK, WorkersOK, workers
<1>8. ReadOK' /\ ReadInv'
  <2>1. CASE w.done = "on_write" /\ pending_read
    <3>1. reading = 0 /\ Serving = {} /\ ToRead = {} /\ phase = "open"
      BY <1>0, <2>1 DEF ReadInv, AtMostOneRead, NoReadYet
    <3>2. pending_read' = FALSE /\ reading' = 1
      BY <1>1, <2>1, <3>1
    <3>3. ReadOK'
      BY <1>0, <1>1, <3>2 DEF ReadOK
    <3>4. ~pending_read' /\ Serving' = {} /\ ToRead' = {} /\ reading' <= 1 /\ phase' = "open"
      BY <1>1, <1>6, <3>1, <3>2
    <3>5. ReadInv'
      BY <3>2, <3>4 DEF ReadInv, AtMostOneRead, ReadLoopAlive, NoReadYet
    <3>6. QED
      BY <3>3, <3>5
  <2>2. CASE ~(w.done = "on_write" /\ pending_read)
    BY <1>0, <1>1, <1>6, <2>2 DEF ReadOK, ReadInv, AtMostOneRead, ReadLoopAlive, NoReadYet
  <2>3. QED
    BY <2>1, <2>2
<1>9. QED
  BY <1>4, <1>5, <1>7, <1>8, TypePartsNext DEF IInv

LEMMA OnWriteErrorStep == ASSUME IInv, OnWriteError PROVE IInv'
<1>0. /\ ReadOK /\ OutputOK /\ StrandOK /\ HandlerOK /\ WorkersOK /\ BrowserOK
      /\ OneWriter /\ ReadInv
  BY TypeParts DEF IInv
<1>1. /\ inflight # <<>> /\ ~link
      /\ abort' = (abort \/ Head(inflight).done = "on_write")
      /\ writing' = FALSE /\ inflight' = Tail(inflight) /\ write_queue' = <<>>
      /\ UNCHANGED <<session, strand, handler, workers, browser>>
  BY DEF OnWriteError
<1>2. Tail(inflight) \in Seq(Writes) /\ Tail(inflight) = <<>>
  <2>1. Len(inflight) \in Nat /\ Len(inflight) # 0 /\ Len(inflight) <= 1
    BY <1>0, <1>1, EmptyOrNot DEF OutputOK, OneWriter
  <2>2. \A n \in Nat : n <= 1 /\ n # 0 => n = 1
    OBVIOUS
  <2>3. Len(inflight) = 1
    BY <2>1, <2>2
  <2>4. Tail(inflight) \in Seq(Writes) /\ Len(Tail(inflight)) = 0
    BY <1>0, <1>1, <2>3 DEF OutputOK
  <2>5. QED
    BY <2>4, EmptyOrNot
<1>3. OutputOK'
  <2>1. <<>> \in Seq(Pending)
    OBVIOUS
  <2>2. QED
    BY <1>1, <1>2, <2>1 DEF OutputOK
<1>4. OneWriter'
  <2>1. Len(inflight') <= 1
    BY <1>1, <1>2
  <2>2. QED
    BY <1>1, <1>2, <2>1 DEF OneWriter
<1>5. HandlerOK'
  <2>1. abort' \in BOOLEAN
    BY <1>0, <1>1 DEF HandlerOK
  <2>2. QED
    BY <1>0, <1>1, <2>1 DEF HandlerOK
<1>6. Serving' = Serving /\ ToRead' = ToRead
  BY <1>1 DEF Serving, ToRead
<1>7. ReadOK' /\ StrandOK' /\ WorkersOK' /\ BrowserOK'
  BY <1>0, <1>1 DEF ReadOK, StrandOK, WorkersOK, BrowserOK, session, workers, browser
<1>8. ReadInv'
  BY <1>0, <1>1, <1>6 DEF ReadInv, AtMostOneRead, ReadLoopAlive, NoReadYet, session, browser
<1>9. QED
  BY <1>3, <1>4, <1>5, <1>7, <1>8, TypePartsNext DEF IInv

LEMMA RunPostedStep == ASSUME IInv, RunPosted PROVE IInv'
<1>0. /\ ReadOK /\ OutputOK /\ StrandOK /\ HandlerOK /\ WorkersOK /\ BrowserOK
      /\ OneWriter /\ ReadInv
  BY TypeParts DEF IInv
<1> DEFINE p == Head(strand)
<1>1. /\ strand # <<>> /\ strand' = Tail(strand)
      /\ \/ p.run = "do_broadcast" /\ DoBroadcast(p.frame)
         \/ p.run \in {"sendTextResponse", "respond"} /\ SendTextResponse(p.frame)
         \/ p.run = "do_read" /\ UNCHANGED output
      /\ reading' = IF p.run \in {"respond", "do_read"} THEN reading + 1 ELSE reading
      /\ UNCHANGED <<phase, registered, pending_read, handler, abort, workers, browser>>
  BY DEF RunPosted
<1>2. /\ StrandOK' /\ p \in Posted
      /\ (1 \in ToRead) <=> p.run \in {"respond", "do_read"}
      /\ \A i \in Nat : i \in ToRead' <=> (i > 0 /\ i + 1 \in ToRead)
  BY <1>0, <1>1, TakePosted
<1>3. p.frame \in Frames
  BY <1>2 DEF Posted
<1>4. OutputOK' /\ OneWriter'
  <2>1. CASE p.run = "do_broadcast" /\ DoBroadcast(p.frame)
    BY <1>0, <1>3, <2>1, Outgoing, WriteEffect DEF DoBroadcast
  <2>2. CASE SendTextResponse(p.frame)
    BY <1>0, <1>3, <2>2, Outgoing, WriteEffect DEF SendTextResponse
  <2>3. CASE UNCHANGED output
    BY <1>0, <2>3 DEF OutputOK, OneWriter, output
  <2>4. QED
    BY <1>1, <2>1, <2>2, <2>3
<1>5. HandlerOK' /\ WorkersOK' /\ BrowserOK' /\ Serving' = Serving
  BY <1>0, <1>1 DEF HandlerOK, WorkersOK, BrowserOK, Serving, workers, browser
<1>6. ToRead \subseteq Nat /\ ToRead' \subseteq Nat
  BY <1>0, <1>2 DEF ToRead, StrandOK
<1>7. ReadOK' /\ ReadInv'
  <2>1. CASE p.run \in {"respond", "do_read"}
    <3>1. /\ 1 \in ToRead /\ \A i \in ToRead : i = 1
      BY <1>0, <1>2, <2>1 DEF ReadInv, AtMostOneRead
    <3>2. ToRead' = {}
      <4>1. ASSUME NEW i \in ToRead' PROVE FALSE
        BY <1>2, <1>6, <3>1, <4>1
      <4>2. QED
        BY <4>1
    <3>3. ~pending_read /\ Serving = {} /\ phase = "open" /\ reading <= 1 /\ reading # 1
      BY <1>0, <3>1 DEF ReadInv, AtMostOneRead, NoReadYet
    <3>4. reading = 0
      BY <1>0, <3>3 DEF ReadOK
    <3>5. reading' = 1 /\ ~pending_read' /\ Serving' = {} /\ phase' = "open"
      BY <1>1, <1>5, <2>1, <3>3, <3>4
    <3>6. ReadOK'
      BY <1>0, <1>1, <3>5 DEF ReadOK
    <3>7. ReadInv'
      BY <3>2, <3>5 DEF ReadInv, AtMostOneRead, ReadLoopAlive, NoReadYet
    <3>8. QED
      BY <3>6, <3>7
  <2>2. CASE p.run \notin {"respond", "do_read"}
    <3>1. reading' = reading /\ link' = link
      BY <1>1, <2>2 DEF browser
    <3>2. ToRead = {} => ToRead' = {}
      BY <1>2, <1>6
    <3>3. ToRead # {} => ToRead' # {}
      <4>1. ASSUME NEW i \in ToRead PROVE ToRead' # {}
        <5>1. i \in Nat /\ i > 1
          BY <1>0, <1>2, <2>2, <4>1 DEF ToRead, StrandOK
        <5>2. i - 1 \in Nat /\ i - 1 > 0 /\ (i - 1) + 1 \in ToRead
          BY <4>1, <5>1
        <5>3. QED
          BY <1>2, <5>2
      <4>2. QED
        BY <4>1
    <3>4. \A i, j \in ToRead' : i = j
      <4>1. ASSUME NEW i \in ToRead', NEW j \in ToRead' PROVE i = j
        <5>1. i \in Nat /\ j \in Nat /\ i + 1 \in ToRead /\ j + 1 \in ToRead
          BY <1>2, <1>6
        <5>2. i + 1 = j + 1
          BY <1>0, <5>1 DEF ReadInv, AtMostOneRead
        <5>3. QED
          BY <5>1, <5>2
      <4>2. QED
        BY <4>1
    <3>5. ReadOK'
      BY <1>0, <1>1, <3>1 DEF ReadOK
    <3>6. AtMostOneRead'
      BY <1>0, <1>1, <1>5, <3>1, <3>2, <3>3, <3>4 DEF ReadInv, AtMostOneRead
    <3>7. ReadLoopAlive'
      BY <1>0, <1>1, <1>5, <3>1, <3>3 DEF ReadInv, ReadLoopAlive
    <3>8. NoReadYet'
      BY <1>0, <1>1, <1>5, <3>1, <3>2 DEF ReadInv, NoReadYet
    <3>9. QED
      BY <3>5, <3>6, <3>7, <3>8 DEF ReadInv
  <2>3. QED
    BY <2>1, <2>2
<1>8. QED
  BY <1>2, <1>4, <1>5, <1>7, TypePartsNext DEF IInv

(* A handler thread that serves a request is the only reader-to-be. *)
LEMMA ServingAlone ==
  ASSUME IInv, NEW n \in Requests, handler[n] \in {"action", "command", "responded"}
  PROVE  /\ Serving = {n} /\ reading = 0 /\ ~pending_read /\ ToRead = {} /\ phase = "open"
<1>1. n \in Serving
  BY DEF Serving
<1>2. ReadInv /\ reading \in Nat
  BY TypeParts DEF IInv, ReadOK
<1>3. ~pending_read /\ ToRead = {} /\ phase = "open" /\ reading <= 1 /\ reading # 1
  BY <1>1, <1>2 DEF ReadInv, AtMostOneRead, NoReadYet
<1>4. reading = 0
  BY <1>2, <1>3
<1>5. Serving = {n}
  BY <1>1, <1>2 DEF ReadInv, AtMostOneRead
<1>6. QED
  BY <1>3, <1>4, <1>5

(* What a handler thread leaves alone. *)
LEMMA HandlerFrame ==
  ASSUME IInv, UNCHANGED <<session, output, abort, workers, browser>>, HandlerOK', StrandOK',
         ReadInv'
  PROVE  IInv'
<1>0. ReadOK /\ OutputOK /\ WorkersOK /\ BrowserOK /\ OneWriter
  BY TypeParts DEF IInv
<1>1. ReadOK' /\ WorkersOK' /\ BrowserOK'
  BY <1>0 DEF ReadOK, WorkersOK, BrowserOK, session, workers, browser
<1>2. OutputOK' /\ OneWriter'
  BY <1>0 DEF OutputOK, OneWriter, output
<1>3. QED
  BY <1>1, <1>2, TypePartsNext DEF IInv

(* The answer, or the end of the answer, that carries the read. *)
LEMMA HandOverStep ==
  ASSUME IInv, NEW n \in Requests, RespondAction(n) \/ ReadOn(n)
  PROVE  IInv'
<1>1. PICK r \in {"respond", "do_read"} : Post(r, Text(n))
  BY DEF RespondAction, ReadOn
<1>2. /\ handler[n] \in {"action", "responded"}
      /\ handler' = [handler EXCEPT ![n] = "done"]
      /\ UNCHANGED <<session, output, abort, workers, browser>>
  BY DEF RespondAction, ReadOn
<1>3. HandlerOK /\ StrandOK
  BY TypeParts DEF IInv
<1>4. Serving = {n} /\ reading = 0 /\ ~pending_read /\ ToRead = {} /\ phase = "open"
  BY <1>2, ServingAlone
<1>5. [run |-> r, frame |-> Text(n)] \in Posted
  <2>1. n \in Nat
    BY SessionAssumption DEF Requests
  <2>2. QED
    BY <2>1, Outgoing DEF Posted
<1>6. StrandOK' /\ ToRead' = {Len(strand) + 1}
  BY <1>1, <1>3, <1>4, <1>5, PostRead DEF Post
<1>7. HandlerOK'
  BY <1>2, <1>3 DEF HandlerOK, HandlerPCs
<1>8. Serving' = {}
  BY <1>2, <1>3, <1>4 DEF Serving, HandlerOK
<1>9. reading' = 0 /\ ~pending_read' /\ phase' = "open"
  BY <1>2, <1>4 DEF session
<1>10. ReadInv'
  BY <1>6, <1>8, <1>9 DEF ReadInv, AtMostOneRead, ReadLoopAlive, NoReadYet
<1>11. QED
  BY <1>2, <1>6, <1>7, <1>10, HandlerFrame

LEMMA RespondCommandStep ==
  ASSUME IInv, NEW n \in Requests, RespondCommand(n)
  PROVE  IInv'
<1>1. /\ handler[n] = "command"
      /\ handler' = [handler EXCEPT ![n] = "responded"]
      /\ Post("sendTextResponse", Text(n)) \/ UNCHANGED strand
      /\ UNCHANGED <<session, output, abort, workers, browser>>
  BY DEF RespondCommand
<1>2. HandlerOK /\ StrandOK
  BY TypeParts DEF IInv
<1>3. Serving = {n} /\ reading = 0 /\ ~pending_read /\ ToRead = {} /\ phase = "open"
  BY <1>1, ServingAlone
<1>4. StrandOK' /\ ToRead' = {}
  <2>1. [run |-> "sendTextResponse", frame |-> Text(n)] \in Posted
    <3>1. n \in Nat
      BY SessionAssumption DEF Requests
    <3>2. QED
      BY <3>1, Outgoing DEF Posted
  <2>2. CASE Post("sendTextResponse", Text(n))
    BY <1>2, <1>3, <2>1, <2>2, PostOther DEF Post
  <2>3. CASE UNCHANGED strand
    BY <1>2, <1>3, <2>3 DEF StrandOK, ToRead
  <2>4. QED
    BY <1>1, <2>2, <2>3
<1>5. HandlerOK'
  BY <1>1, <1>2 DEF HandlerOK, HandlerPCs
<1>6. Serving' = {n}
  BY <1>1, <1>2, <1>3 DEF Serving, HandlerOK
<1>7. reading' = 0 /\ ~pending_read' /\ phase' = "open"
  BY <1>1, <1>3 DEF session
<1>8. ReadInv'
  BY <1>4, <1>6, <1>7 DEF ReadInv, AtMostOneRead, ReadLoopAlive, NoReadYet
<1>9. QED
  BY <1>1, <1>4, <1>5, <1>8, HandlerFrame

LEMMA ThrowStep ==
  ASSUME IInv, NEW n \in Requests, Throw(n)
  PROVE  IInv'
<1>1. /\ handler[n] \in {"action", "command"}
      /\ handler' = [handler EXCEPT ![n] = "threw"]
      /\ UNCHANGED <<session, output, strand, abort, workers, browser>>
  BY DEF Throw
<1>2. HandlerOK /\ StrandOK
  BY TypeParts DEF IInv
<1>3. Serving = {n} /\ reading = 0 /\ ~pending_read /\ ToRead = {} /\ phase = "open"
  BY <1>1, ServingAlone
<1>4. StrandOK' /\ ToRead' = {}
  BY <1>1, <1>2, <1>3 DEF StrandOK, ToRead
<1>5. HandlerOK'
  BY <1>1, <1>2 DEF HandlerOK, HandlerPCs
<1>6. Serving' = {} /\ handler'[n] = "threw"
  BY <1>1, <1>2, <1>3 DEF Serving, HandlerOK
<1>7. reading' = 0 /\ ~pending_read' /\ phase' = "open"
  BY <1>1, <1>3 DEF session
<1>8. ReadInv'
  BY <1>4, <1>6, <1>7 DEF ReadInv, AtMostOneRead, ReadLoopAlive, NoReadYet
<1>9. QED
  BY <1>1, <1>4, <1>5, <1>8, HandlerFrame

(* Steps that touch neither the session's reads nor its writes. *)
LEMMA ElsewhereStep ==
  ASSUME IInv, UNCHANGED <<session, output, handler, abort>>, link' => link,
         StrandOK', WorkersOK', BrowserOK', ToRead' = ToRead
  PROVE  IInv'
<1>0. ReadOK /\ OutputOK /\ HandlerOK /\ OneWriter /\ ReadInv
  BY TypeParts DEF IInv
<1>1. ReadOK' /\ HandlerOK' /\ Serving' = Serving
  BY <1>0 DEF ReadOK, HandlerOK, Serving, session
<1>2. OutputOK' /\ OneWriter'
  BY <1>0 DEF OutputOK, OneWriter, output
<1>3. ReadInv'
  BY <1>0, <1>1 DEF ReadInv, AtMostOneRead, ReadLoopAlive, NoReadYet, session
<1>4. QED
  BY <1>1, <1>2, <1>3, TypePartsNext DEF IInv

LEMMA WorkerStep ==
  ASSUME IInv, NEW b \in Broadcasters, Worker(b)
  PROVE  IInv'
<1>0. StrandOK /\ WorkersOK /\ BrowserOK
  BY TypeParts DEF IInv
<1>1. CASE LoadAll(b) \/ LoadText(b) \/ GetSessions(b)
  <2>1. UNCHANGED <<session, output, strand, handler, abort, version, browser>>
    BY <1>1 DEF LoadAll, LoadText, GetSessions
  <2>2. at' \in [Broadcasters -> {"idle", "loaded", "posting"}]
    BY <1>0, <1>1 DEF LoadAll, LoadText, GetSessions, WorkersOK
  <2>3. payload' \in [Broadcasters -> Frames]
    <3>1. Snapshot(version) \in Frames /\ Text(0) \in Frames
      BY <1>0, Outgoing DEF WorkersOK
    <3>2. QED
      BY <1>0, <1>1, <3>1 DEF LoadAll, LoadText, GetSessions, WorkersOK
  <2>4. StrandOK' /\ WorkersOK' /\ BrowserOK' /\ ToRead' = ToRead
    BY <1>0, <2>1, <2>2, <2>3 DEF StrandOK, WorkersOK, BrowserOK, ToRead, browser
  <2>5. QED
    BY <2>1, <2>4, ElsewhereStep DEF browser
<1>2. CASE SendBroadcast(b)
  <2>1. /\ at' = [at EXCEPT ![b] = "idle"]
        /\ UNCHANGED <<session, output, handler, abort, version, payload, browser>>
    BY <1>2 DEF SendBroadcast
  <2>2. PICK r \in {"do_broadcast", "sendTextResponse"} : Post(r, payload[b])
    BY <1>2 DEF SendBroadcast
  <2>3. [run |-> r, frame |-> payload[b]] \in Posted
    BY <1>0 DEF WorkersOK, Posted
  <2>4. StrandOK' /\ ToRead' = ToRead
    BY <1>0, <2>2, <2>3, PostOther DEF Post
  <2>5. WorkersOK' /\ BrowserOK'
    BY <1>0, <2>1 DEF WorkersOK, BrowserOK, browser
  <2>6. QED
    BY <2>1, <2>4, <2>5, ElsewhereStep DEF browser
<1>3. QED
  BY <1>1, <1>2 DEF Worker

LEMMA ClientStep ==
  ASSUME IInv, Change \/ Leave \/ \E kind \in RequestKinds : Send(kind)
  PROVE  IInv'
<1>0. StrandOK /\ WorkersOK /\ BrowserOK
  BY TypeParts DEF IInv
<1>1. CASE Change
  <2>1. StrandOK' /\ BrowserOK' /\ ToRead' = ToRead
    BY <1>0, <1>1 DEF Change, StrandOK, BrowserOK, ToRead, browser
  <2>2. WorkersOK'
    BY <1>0, <1>1 DEF Change, WorkersOK
  <2>3. QED
    BY <1>1, <2>1, <2>2, ElsewhereStep DEF Change, browser
<1>2. CASE Leave
  <2>1. StrandOK' /\ BrowserOK' /\ WorkersOK' /\ ToRead' = ToRead
    BY <1>0, <1>2 DEF Leave, StrandOK, BrowserOK, WorkersOK, ToRead, workers
  <2>2. QED
    BY <1>2, <2>1, ElsewhereStep DEF Leave
<1>3. ASSUME NEW kind \in RequestKinds, Send(kind) PROVE IInv'
  <2>1. StrandOK' /\ WorkersOK' /\ ToRead' = ToRead
    BY <1>0, <1>3 DEF Send, StrandOK, WorkersOK, ToRead, workers
  <2>2. sent' \in Requests /\ sent' \in 0 .. MaxRequests
    BY <1>0, <1>3, SessionAssumption DEF Send, BrowserOK, Requests
  <2>3. inbox' \in Seq([id : Requests, kind : RequestKinds])
    <3> DEFINE R == [id : Requests, kind : RequestKinds]
    <3>1. inbox \in Seq(R) /\ [id |-> sent', kind |-> kind] \in R
      BY <1>0, <2>2 DEF BrowserOK
    <3>2. inbox' = Append(inbox, [id |-> sent', kind |-> kind])
      BY <1>3 DEF Send
    <3> HIDE DEF R
    <3>3. inbox' \in Seq(R)
      BY <3>1, <3>2
    <3>4. QED
      BY <3>3 DEF R
  <2>4. BrowserOK'
    BY <1>0, <1>3, <2>2, <2>3 DEF Send, BrowserOK
  <2>5. QED
    BY <1>3, <2>1, <2>4, ElsewhereStep DEF Send
<1>4. QED
  BY <1>1, <1>2, <1>3

-----------------------------------------------------------------------------
LEMMA InitIInv == Init => IInv
<1> SUFFICES ASSUME Init PROVE IInv
  OBVIOUS
<1>1. /\ <<>> \in Seq(Writes) /\ <<>> \in Seq(Pending) /\ <<>> \in Seq(Posted)
      /\ <<>> \in Seq([id : Requests, kind : RequestKinds]) /\ <<>> \in Seq(Nat)
      /\ Len(<<>>) = 0
  OBVIOUS
<1>2. Snapshot(0) \in Frames
  BY Outgoing
<1>3. ReadOK /\ StrandOK
  BY <1>1 DEF Init, ReadOK, StrandOK
<1>4. OutputOK /\ OneWriter
  <2>1. OutputOK
    BY <1>1 DEF Init, OutputOK
  <2>2. Len(inflight) <= 1
    BY <1>1 DEF Init
  <2>3. QED
    BY <2>1, <2>2 DEF Init, OneWriter
<1>5. HandlerOK
  BY DEF Init, HandlerOK, HandlerPCs
<1>6. WorkersOK
  BY <1>2 DEF Init, WorkersOK
<1>7. BrowserOK
  BY <1>1, SessionAssumption DEF Init, BrowserOK
<1>8. Serving = {} /\ ToRead = {}
  BY <1>1 DEF Init, Serving, ToRead
<1>9. ReadInv
  BY <1>8 DEF Init, ReadInv, AtMostOneRead, ReadLoopAlive, NoReadYet
<1>10. QED
  BY <1>3, <1>4, <1>5, <1>6, <1>7, <1>9, TypeParts DEF IInv

(* IInv is inductive. *)
LEMMA NextIInv == IInv /\ [Next]_vars => IInv'
<1>1. SUFFICES ASSUME IInv, [Next]_vars PROVE IInv'
  OBVIOUS
<1>2. CASE Strand
  BY <1>1, <1>2, OnAcceptStep, OnReadStep, OnReadErrorStep, OnWriteStep, OnWriteErrorStep,
     RunPostedStep DEF Strand
<1>3. ASSUME NEW n \in Requests, Handler(n) PROVE IInv'
  BY <1>1, <1>3, HandOverStep, RespondCommandStep, ThrowStep DEF Handler
<1>4. CASE \E b \in Broadcasters : Worker(b)
  BY <1>1, <1>4, WorkerStep
<1>5. CASE Change \/ Leave \/ \E kind \in RequestKinds : Send(kind)
  BY <1>1, <1>5, ClientStep
<1>6. CASE UNCHANGED vars
  <2>1. TypeOK'
    BY <1>1, <1>6 DEF vars, IInv, TypeOK
  <2>2. OneWriter'
    BY <1>1, <1>6 DEF vars, IInv, OneWriter
  <2>3. Serving' = Serving /\ ToRead' = ToRead
    BY <1>6 DEF vars, Serving, ToRead
  <2>4. ReadInv'
    BY <1>1, <1>6, <2>3 DEF vars, IInv, ReadInv, AtMostOneRead, ReadLoopAlive, NoReadYet
  <2>5. QED
    BY <2>1, <2>2, <2>4 DEF IInv
<1>7. QED
  BY <1>1, <1>2, <1>3, <1>4, <1>5, <1>6 DEF Next

LEMMA AlwaysIInv == Spec => []IInv
<1>1. QED
  BY InitIInv, NextIInv, PTL DEF Spec

(* The type invariant, for any number of workers and requests. *)
THEOREM StrandTypeCorrect == Spec => []TypeOK
<1>1. IInv => TypeOK
  BY DEF IInv
<1>2. QED
  BY <1>1, AlwaysIInv, PTL

(* ws_server.hpp:526-600, 749-798, 835-851: writing_ keeps the writes on   *)
(* the stream apart, and a queued message always has a write before it.    *)
THEOREM WritesAreSerial == Spec => []OneWriter
<1>1. IInv => OneWriter
  BY DEF IInv
<1>2. QED
  BY <1>1, AlwaysIInv, PTL

(* ws_server.hpp:605-741: no two async_reads are ever outstanding on the   *)
(* stream, whatever refreshes, handler threads and broadcasts overlap.     *)
THEOREM ReadsAreSerial == Spec => []AtMostOneRead
<1>1. IInv => AtMostOneRead
  BY DEF IInv, ReadInv
<1>2. QED
  BY <1>1, AlwaysIInv, PTL

(* ws_server.hpp:605-798: while the connection works and no handler threw, *)
(* something will read on.                                                 *)
THEOREM NeverDeaf == Spec => []ReadLoopAlive
<1>1. IInv => ReadLoopAlive
  BY DEF IInv, ReadInv
<1>2. QED
  BY <1>1, AlwaysIInv, PTL
-----------------------------------------------------------------------------
(* The order of the answers *)

(* The answers that are under way, as the numbers of their requests: those *)
(* that have arrived, are being written, are queued and are posted.  0 is  *)
(* whatever else is sent.                                                  *)
FrameNo(frame) == IF frame.kind = "text" THEN frame.n ELSE 0
PostedNo(posted) == IF posted.run = "do_read" THEN 0 ELSE FrameNo(posted.frame)

Flying == [i \in 1 .. Len(inflight) |-> FrameNo(inflight[i].frame)]
Queued == [i \in 1 .. Len(write_queue) |-> FrameNo(write_queue[i])]
Waiting == [i \in 1 .. Len(strand) |-> PostedNo(strand[i])]

Under(s, x) == \A i \in DOMAIN s : s[i] > 0 /\ x > 0 => s[i] < x
Over(x, s) == \A i \in DOMAIN s : s[i] > 0 /\ x > 0 => x < s[i]
Below(s, t) == \A j \in DOMAIN t : Under(s, t[j])
Sorted(s) == \A i, j \in DOMAIN s : i < j /\ s[i] > 0 /\ s[j] > 0 => s[i] < s[j]

Ordered(a, f, q, w) ==
  /\ Sorted(a) /\ Sorted(f) /\ Sorted(q) /\ Sorted(w)
  /\ Below(a, f) /\ Below(a, q) /\ Below(a, w)
  /\ Below(f, q) /\ Below(f, w) /\ Below(q, w)

(* t is s and then x; t is s without its head x. *)
Added(s, t, x) ==
  \E n \in Nat : /\ DOMAIN s = 1 .. n /\ DOMAIN t = 1 .. n + 1
                 /\ \A i \in 1 .. n : t[i] = s[i]
                 /\ t[n + 1] = x
Removed(s, t, x) ==
  \E n \in Nat : /\ DOMAIN s = 1 .. n + 1 /\ DOMAIN t = 1 .. n
                 /\ \A i \in 1 .. n : t[i] = s[i + 1]
                 /\ s[1] = x

LEMMA AddedOrder ==
  ASSUME NEW s, NEW t, NEW x, Added(s, t, x)
  PROVE  /\ Sorted(s) /\ Under(s, x) => Sorted(t)
         /\ \A u : Below(s, u) /\ Over(x, u) => Below(t, u)
         /\ \A u : Below(u, s) /\ Under(u, x) => Below(u, t)
<1>1. PICK n \in Nat : /\ DOMAIN s = 1 .. n /\ DOMAIN t = 1 .. n + 1
                       /\ \A i \in 1 .. n : t[i] = s[i]
                       /\ t[n + 1] = x
  BY DEF Added
<1>2. \A i \in DOMAIN t : (i \in DOMAIN s /\ t[i] = s[i]) \/ (i = n + 1 /\ t[i] = x)
  <2>. SUFFICES ASSUME NEW i \in DOMAIN t
                PROVE  (i \in DOMAIN s /\ t[i] = s[i]) \/ (i = n + 1 /\ t[i] = x)
    OBVIOUS
  <2>1. i \in 1 .. n + 1
    BY <1>1
  <2>2. CASE i \in 1 .. n
    BY <1>1, <2>2
  <2>3. CASE i = n + 1
    <3>1. t[n + 1] = x
      BY <1>1
    <3>2. QED
      BY <2>3, <3>1
  <2>4. QED
    BY <2>1, <2>2, <2>3
<1>3. ASSUME Sorted(s), Under(s, x) PROVE Sorted(t)
  <2>1. \A i, j \in DOMAIN t : i < j => i \in DOMAIN s /\ t[i] = s[i]
    BY <1>1
  <2>2. SUFFICES ASSUME NEW i \in DOMAIN t, NEW j \in DOMAIN t, i < j, t[i] > 0, t[j] > 0
                 PROVE  t[i] < t[j]
    BY DEF Sorted
  <2>3. i \in DOMAIN s /\ t[i] = s[i]
    BY <2>1, <2>2
  <2>4. CASE j \in DOMAIN s /\ t[j] = s[j]
    BY <1>3, <2>2, <2>3, <2>4 DEF Sorted
  <2>5. CASE t[j] = x
    BY <1>3, <2>2, <2>3, <2>5 DEF Under
  <2>6. QED
    BY <1>2, <2>4, <2>5
<1>4. ASSUME NEW u, Below(s, u), Over(x, u) PROVE Below(t, u)
  BY <1>2, <1>4 DEF Below, Under, Over
<1>5. ASSUME NEW u, Below(u, s), Under(u, x) PROVE Below(u, t)
  BY <1>2, <1>5 DEF Below
<1>6. QED
  BY <1>3, <1>4, <1>5

LEMMA RemovedOrder ==
  ASSUME NEW s, NEW t, NEW x, Removed(s, t, x)
  PROVE  /\ Sorted(s) => Sorted(t) /\ Over(x, t)
         /\ \A u : Below(s, u) => Below(t, u) /\ Over(x, u)
         /\ \A u : Below(u, s) => Below(u, t) /\ Under(u, x)
<1>1. PICK n \in Nat : /\ DOMAIN s = 1 .. n + 1 /\ DOMAIN t = 1 .. n
                       /\ \A i \in 1 .. n : t[i] = s[i + 1]
                       /\ s[1] = x
  BY DEF Removed
<1>2. /\ 1 \in DOMAIN s /\ s[1] = x
      /\ \A i \in DOMAIN t : i \in Nat /\ i + 1 \in DOMAIN s /\ t[i] = s[i + 1] /\ 1 < i + 1
  <2>1. 1 \in DOMAIN s /\ s[1] = x
    <3>1. DOMAIN s = 1 .. n + 1 /\ n \in Nat
      BY <1>1
    <3>2. 1 \in DOMAIN s
      BY <3>1
    <3>3. s[1] = x
      BY <1>1
    <3>4. QED
      BY <3>2, <3>3
  <2>2. ASSUME NEW i \in DOMAIN t
        PROVE  i \in Nat /\ i + 1 \in DOMAIN s /\ t[i] = s[i + 1] /\ 1 < i + 1
    <3>1. i \in 1 .. n
      BY <1>1, <2>2
    <3>2. i \in Nat /\ i + 1 \in 1 .. n + 1 /\ 1 < i + 1
      BY <3>1
    <3>3. QED
      BY <1>1, <3>1, <3>2
  <2>3. QED
    BY <2>1, <2>2
<1>3. ASSUME Sorted(s) PROVE Sorted(t) /\ Over(x, t)
  <2>1. Sorted(t)
    BY <1>2, <1>3 DEF Sorted
  <2>2. Over(x, t)
    BY <1>1, <1>2, <1>3 DEF Sorted, Over
  <2>3. QED
    BY <2>1, <2>2
<1>4. ASSUME NEW u, Below(s, u) PROVE Below(t, u) /\ Over(x, u)
  BY <1>2, <1>4 DEF Below, Under, Over
<1>5. ASSUME NEW u, Below(u, s) PROVE Below(u, t) /\ Under(u, x)
  BY <1>2, <1>5 DEF Below
<1>6. QED
  BY <1>3, <1>4, <1>5

(* What holds of nothing, and of the number 0. *)
LEMMA NothingOrder ==
  ASSUME NEW e, DOMAIN e = {}
  PROVE  /\ Sorted(e)
         /\ \A x : Under(e, x) /\ Over(x, e)
         /\ \A u : Below(e, u) /\ Below(u, e)
BY DEF Sorted, Under, Over, Below

LEMMA ZeroOrder == \A s : Under(s, 0) /\ Over(0, s)
BY DEF Under, Over

(* The moves of an answer, and of everything else, keep the order. *)
LEMMA MoveToQueue ==
  ASSUME NEW a, NEW f, NEW q, NEW w, NEW q1, NEW w1, NEW x,
         Ordered(a, f, q, w), Removed(w, w1, x), Added(q, q1, x)
  PROVE  Ordered(a, f, q1, w1)
BY AddedOrder, RemovedOrder DEF Ordered

LEMMA MoveToWire ==
  ASSUME NEW a, NEW f, NEW q, NEW w, NEW f1, NEW w1, NEW x,
         Ordered(a, f, q, w), Removed(w, w1, x), Added(f, f1, x), DOMAIN q = {}
  PROVE  Ordered(a, f1, q, w1)
BY AddedOrder, RemovedOrder, NothingOrder DEF Ordered

LEMMA Drain ==
  ASSUME NEW a, NEW f, NEW q, NEW w, NEW f1, NEW q1, NEW x,
         Ordered(a, f, q, w), Removed(q, q1, x), Added(f, f1, x)
  PROVE  Ordered(a, f1, q1, w)
BY AddedOrder, RemovedOrder DEF Ordered

LEMMA Arrives ==
  ASSUME NEW a, NEW f, NEW q, NEW w, NEW a1, NEW f1, NEW x,
         Ordered(a, f, q, w), Removed(f, f1, x), Added(a, a1, x)
  PROVE  Ordered(a1, f1, q, w)
BY AddedOrder, RemovedOrder DEF Ordered

LEMMA Dropped ==
  ASSUME NEW a, NEW f, NEW q, NEW w, NEW s, NEW x, Ordered(a, f, q, w)
  PROVE  /\ Removed(f, s, x) => Ordered(a, s, q, w)
         /\ Removed(q, s, x) => Ordered(a, f, s, w)
         /\ Removed(w, s, x) => Ordered(a, f, q, s)
         /\ DOMAIN s = {} => Ordered(a, f, s, w)
BY RemovedOrder, NothingOrder DEF Ordered

LEMMA NoAnswer ==
  ASSUME NEW a, NEW f, NEW q, NEW w, NEW s, Ordered(a, f, q, w)
  PROVE  /\ Added(f, s, 0) => Ordered(a, s, q, w)
         /\ Added(q, s, 0) => Ordered(a, f, s, w)
BY AddedOrder, ZeroOrder DEF Ordered

LEMMA NewAnswer ==
  ASSUME NEW a, NEW f, NEW q, NEW w, NEW w1, NEW x, Ordered(a, f, q, w),
         Added(w, w1, x), Under(a, x), Under(f, x), Under(q, x), Under(w, x)
  PROVE  Ordered(a, f, q, w1)
BY AddedOrder DEF Ordered

(* The moves, on the variables. *)
LEMMA PostFlow ==
  ASSUME StrandOK, NEW p \in Posted, strand' = Append(strand, p)
  PROVE  Added(Waiting, Waiting', PostedNo(p))
<1>1. /\ Len(strand) \in Nat /\ Len(strand') = Len(strand) + 1
      /\ \A i \in 1 .. Len(strand) : strand'[i] = strand[i]
      /\ strand'[Len(strand) + 1] = p
  BY DEF StrandOK
<1>2. \A i \in 1 .. Len(strand) : i \in 1 .. Len(strand) + 1
  BY <1>1
<1>3. Len(strand) + 1 \in 1 .. Len(strand) + 1
  BY <1>1
<1>. DEFINE n == Len(strand)
<1>4. /\ DOMAIN Waiting = 1 .. n /\ DOMAIN Waiting' = 1 .. n + 1
      /\ \A i \in 1 .. n : Waiting'[i] = Waiting[i]
      /\ Waiting'[n + 1] = PostedNo(p)
  BY <1>1, <1>2, <1>3 DEF Waiting
<1>5. n \in Nat
  BY <1>1
<1>. HIDE DEF n
<1>6. QED
  BY <1>4, <1>5 DEF Added

LEMMA TakeFlow ==
  ASSUME StrandOK, strand # <<>>, strand' = Tail(strand)
  PROVE  Removed(Waiting, Waiting', PostedNo(Head(strand)))
<1>. DEFINE n == Len(strand')
<1>1. /\ n \in Nat /\ Len(strand) = n + 1 /\ Head(strand) = strand[1]
      /\ \A i \in 1 .. n : strand'[i] = strand[i + 1]
  BY EmptyOrNot DEF StrandOK
<1>2. 1 \in 1 .. n + 1 /\ \A i \in 1 .. n : i + 1 \in 1 .. n + 1
  BY <1>1
<1>3. /\ DOMAIN Waiting = 1 .. n + 1 /\ DOMAIN Waiting' = 1 .. n
      /\ \A i \in 1 .. n : Waiting'[i] = Waiting[i + 1]
      /\ Waiting[1] = PostedNo(Head(strand))
  BY <1>1, <1>2 DEF Waiting
<1>. HIDE DEF n
<1>4. QED
  BY <1>1, <1>3 DEF Removed

LEMMA QueueFlow ==
  ASSUME OutputOK, NEW item \in Pending, write_queue' = Append(write_queue, item)
  PROVE  Added(Queued, Queued', FrameNo(item))
<1>. DEFINE n == Len(write_queue)
<1>1. /\ n \in Nat /\ Len(write_queue') = n + 1
      /\ \A i \in 1 .. n : write_queue'[i] = write_queue[i]
      /\ write_queue'[n + 1] = item
  BY DEF OutputOK
<1>2. n + 1 \in 1 .. n + 1 /\ \A i \in 1 .. n : i \in 1 .. n + 1
  BY <1>1
<1>3. /\ DOMAIN Queued = 1 .. n /\ DOMAIN Queued' = 1 .. n + 1
      /\ \A i \in 1 .. n : Queued'[i] = Queued[i]
      /\ Queued'[n + 1] = FrameNo(item)
  BY <1>1, <1>2 DEF Queued
<1>. HIDE DEF n
<1>4. QED
  BY <1>1, <1>3 DEF Added

LEMMA UnqueueFlow ==
  ASSUME OutputOK, write_queue # <<>>, write_queue' = Tail(write_queue)
  PROVE  Removed(Queued, Queued', FrameNo(Head(write_queue)))
<1>. DEFINE n == Len(write_queue')
<1>1. /\ n \in Nat /\ Len(write_queue) = n + 1 /\ Head(write_queue) = write_queue[1]
      /\ \A i \in 1 .. n : write_queue'[i] = write_queue[i + 1]
  BY EmptyOrNot DEF OutputOK
<1>2. 1 \in 1 .. n + 1 /\ \A i \in 1 .. n : i + 1 \in 1 .. n + 1
  BY <1>1
<1>3. /\ DOMAIN Queued = 1 .. n + 1 /\ DOMAIN Queued' = 1 .. n
      /\ \A i \in 1 .. n : Queued'[i] = Queued[i + 1]
      /\ Queued[1] = FrameNo(Head(write_queue))
  BY <1>1, <1>2 DEF Queued
<1>. HIDE DEF n
<1>4. QED
  BY <1>1, <1>3 DEF Removed

(* A write begins on a stream without one, and ends. *)
Quiet == [i \in 1 .. 0 |-> 0]

LEMMA StartFlow ==
  ASSUME NEW writes, Len(writes) = 0, writes \in Seq(Writes), NEW f \in Frames, NEW d, NEW q,
         Start(writes, q, f, d), d \in {"on_write", "on_broadcast_write"}
  PROVE  Added(Quiet, Flying', FrameNo(f))
<1>. DEFINE w == [frame |-> f, done |-> d]
<1>1. w \in Writes /\ w.frame = f
  BY DEF Writes
<1>. HIDE DEF w
<1>2. inflight' = Append(writes, w)
  BY DEF Start, w
<1>3. Len(inflight') = 1 /\ inflight'[1] = w
  BY <1>1, <1>2
<1>4. DOMAIN Flying' = 1 .. 0 + 1 /\ Flying'[0 + 1] = FrameNo(f) /\ DOMAIN Quiet = 1 .. 0
  BY <1>1, <1>3 DEF Flying, Quiet
<1>5. \A i \in 1 .. 0 : FALSE
  OBVIOUS
<1>6. QED
  BY <1>4, <1>5 DEF Added

LEMMA FinishFlow ==
  ASSUME OutputOK, OneWriter, inflight # <<>>
  PROVE  /\ Removed(Flying, Quiet, FrameNo(Head(inflight).frame))
         /\ Tail(inflight) \in Seq(Writes) /\ Len(Tail(inflight)) = 0
<1>1. inflight \in Seq(Writes) /\ Len(inflight) \in Nat /\ Len(inflight) <= 1 /\ Len(inflight) # 0
  BY EmptyOrNot DEF OutputOK, OneWriter
<1>2. Len(inflight) = 1
  <2>1. \A n \in Nat : n <= 1 /\ n # 0 => n = 1
    OBVIOUS
  <2>2. QED
    BY <1>1, <2>1
<1>3. Tail(inflight) \in Seq(Writes) /\ Len(Tail(inflight)) = 0 /\ Head(inflight) = inflight[1]
  BY <1>1, <1>2
<1>4. /\ DOMAIN Flying = 1 .. 0 + 1 /\ DOMAIN Quiet = 1 .. 0
      /\ Flying[1] = FrameNo(Head(inflight).frame)
  BY <1>2, <1>3 DEF Flying, Quiet
<1>5. \A i \in 1 .. 0 : FALSE
  OBVIOUS
<1>6. Removed(Flying, Quiet, FrameNo(Head(inflight).frame))
  <2>. DEFINE s == Flying
              t == Quiet
              x == FrameNo(Head(inflight).frame)
  <2>. HIDE DEF s, t, x
  <2>1. DOMAIN s = 1 .. 0 + 1 /\ DOMAIN t = 1 .. 0 /\ s[1] = x
    BY <1>4 DEF s, t, x
  <2>2. \A i \in 1 .. 0 : t[i] = s[i + 1]
    BY <1>5
  <2>3. Removed(s, t, x)
    BY <2>1, <2>2 DEF Removed
  <2>4. QED
    BY <2>3 DEF s, t, x
<1>7. QED
  BY <1>3, <1>6

LEMMA EmptyFlow ==
  /\ DOMAIN Quiet = {}
  /\ inflight = <<>> => DOMAIN Flying = {} /\ Flying = Quiet
  /\ write_queue = <<>> => DOMAIN Queued = {}
<1>1. 1 .. 0 = {}
  OBVIOUS
<1>2. inflight = <<>> => Flying = Quiet
  BY <1>1 DEF Flying, Quiet
<1>3. write_queue = <<>> => DOMAIN Queued = {}
  BY <1>1 DEF Queued
<1>4. QED
  BY <1>1, <1>2, <1>3 DEF Quiet

(* What do_broadcast(), sendTextResponse() and sendData() do to the order. *)
LEMMA WriteFlow ==
  ASSUME OutputOK, OneWriter, NEW item \in Pending, NEW f \in Frames,
         FrameNo(item) = FrameNo(f), NEW d \in {"on_write", "on_broadcast_write"},
         WriteOrQueue(item, f, d)
  PROVE  \/ Added(Queued, Queued', FrameNo(f)) /\ Flying' = Flying
         \/ Added(Flying, Flying', FrameNo(f)) /\ Queued' = Queued /\ DOMAIN Queued = {}
<1>1. CASE writing
  <2>1. write_queue' = Append(write_queue, item) /\ inflight' = inflight
    BY <1>1 DEF WriteOrQueue
  <2>2. QED
    BY <2>1, QueueFlow DEF Flying
<1>2. CASE ~writing
  <2>1. inflight = <<>> /\ write_queue = <<>> /\ Start(inflight, write_queue, f, d)
    BY <1>2 DEF WriteOrQueue, OneWriter
  <2>2. Len(inflight) = 0 /\ inflight \in Seq(Writes)
    BY <2>1 DEF OutputOK
  <2>3. Added(Flying, Flying', FrameNo(f))
    BY <2>1, <2>2, StartFlow, EmptyFlow
  <2>4. Queued' = Queued
    BY <2>1 DEF Start, Queued
  <2>5. QED
    BY <2>1, <2>3, <2>4, EmptyFlow
<1>3. QED
  BY <1>1, <1>2

(* What drainQueue() does once a write has finished. *)
LEMMA DrainFlow ==
  ASSUME OutputOK, version \in Nat, NEW writes \in Seq(Writes), Len(writes) = 0,
         DrainQueue(writes)
  PROVE  \/ Flying' = Quiet /\ Queued' = Queued
         \/ /\ Removed(Queued, Queued', FrameNo(Head(write_queue)))
            /\ \/ Added(Quiet, Flying', 0)
               \/ Added(Quiet, Flying', FrameNo(Head(write_queue)))
<1>1. CASE write_queue = <<>>
  <2>1. inflight' = writes /\ writes = <<>> /\ write_queue' = write_queue
    BY <1>1, EmptyOrNot DEF DrainQueue
  <2>2. Flying' = Quiet
    BY <2>1 DEF Flying, Quiet
  <2>3. QED
    BY <2>1, <2>2 DEF Queued
<1>2. CASE write_queue # <<>>
  <2>1. Head(write_queue) \in Pending
    BY <1>2 DEF OutputOK
  <2>2. PICK f \in Frames, d \in {"on_write", "on_broadcast_write"} :
          /\ Start(writes, Tail(write_queue), f, d)
          /\ FrameNo(f) = 0 \/ f = Head(write_queue)
    BY <1>2, <2>1, Outgoing DEF DrainQueue, FrameNo, Snapshot
  <2>3. write_queue' = Tail(write_queue)
    BY <2>2 DEF Start
  <2>4. Added(Quiet, Flying', FrameNo(f))
    BY <2>2, StartFlow
  <2>5. QED
    BY <1>2, <2>2, <2>3, <2>4, UnqueueFlow
<1>3. QED
  BY <1>1, <1>2

(* A number in the flow is that of a request whose thread has answered. *)
KnownNo(h, x) == x > 0 => x \in Requests /\ h[x] \in {"responded", "done"}
Known(h, s) == \A i \in DOMAIN s : KnownNo(h, s[i])

InOrder(h, a, f, q, w) ==
  /\ Ordered(a, f, q, w)
  /\ Known(h, a) /\ Known(h, f) /\ Known(h, q) /\ Known(h, w)

FlowInv == InOrder(handler, answers, Flying, Queued, Waiting)

(* Requests are read in the order they were sent, and the one that waits   *)
(* for its answer is the last one read.                                    *)
Read(n) == handler[n] # "none"
ReadOrder ==
  /\ \A m, n \in Requests : Read(m) /\ handler[n] \in {"action", "command"} => m <= n
  /\ \A n \in Requests : Read(n) => n <= sent
  /\ \A n \in Requests, k \in 1 .. Len(inbox) : Read(n) => n < inbox[k].id
  /\ \A k \in 1 .. Len(inbox) : inbox[k].id <= sent
  /\ \A j, k \in 1 .. Len(inbox) : j < k => inbox[j].id < inbox[k].id

(* Broadcasts are no answers. *)
PayloadInv == \A b \in Broadcasters : FrameNo(payload[b]) = 0

Answers == \A i \in 1 .. Len(answers) : answers[i] > 0

OrderInv == FlowInv /\ ReadOrder /\ PayloadInv

LEMMA KnownAdded ==
  ASSUME NEW h, NEW s, NEW t, NEW x, Added(s, t, x), Known(h, s), KnownNo(h, x)
  PROVE  Known(h, t)
<1>1. PICK n \in Nat : /\ DOMAIN s = 1 .. n /\ DOMAIN t = 1 .. n + 1
                       /\ \A i \in 1 .. n : t[i] = s[i]
                       /\ t[n + 1] = x
  BY DEF Added
<1>. SUFFICES ASSUME NEW i \in DOMAIN t PROVE KnownNo(h, t[i])
  BY DEF Known
<1>2. i \in 1 .. n + 1
  BY <1>1
<1>3. CASE i \in 1 .. n
  <2>1. i \in DOMAIN s /\ t[i] = s[i]
    BY <1>1, <1>3
  <2>2. QED
    BY <2>1 DEF Known
<1>4. CASE i = n + 1
  <2>1. t[i] = x
    BY <1>1, <1>4
  <2>2. QED
    BY <2>1
<1>5. QED
  BY <1>2, <1>3, <1>4

LEMMA KnownRemoved ==
  ASSUME NEW h, NEW s, NEW t, NEW x, Removed(s, t, x), Known(h, s)
  PROVE  Known(h, t) /\ KnownNo(h, x)
<1>1. PICK n \in Nat : /\ DOMAIN s = 1 .. n + 1 /\ DOMAIN t = 1 .. n
                       /\ \A i \in 1 .. n : t[i] = s[i + 1]
                       /\ s[1] = x
  BY DEF Removed
<1>2. 1 \in DOMAIN s /\ s[1] = x
  <2>1. DOMAIN s = 1 .. n + 1
    BY <1>1
  <2>2. 1 \in DOMAIN s
    BY <2>1
  <2>3. QED
    BY <1>1, <2>2
<1>3. ASSUME NEW i \in DOMAIN t PROVE KnownNo(h, t[i])
  <2>1. i \in 1 .. n
    BY <1>1, <1>3
  <2>2. i + 1 \in 1 .. n + 1
    BY <2>1
  <2>3. i + 1 \in DOMAIN s /\ t[i] = s[i + 1]
    BY <1>1, <2>1, <2>2
  <2>4. QED
    BY <2>3 DEF Known
<1>4. QED
  BY <1>2, <1>3 DEF Known

LEMMA KnownNothing == ASSUME NEW h PROVE KnownNo(h, 0) /\ \A e : DOMAIN e = {} => Known(h, e)
BY DEF KnownNo, Known

-----------------------------------------------------------------------------
(* The actions that move answers *)

LEMMA FlowRunPosted ==
  ASSUME IInv, FlowInv, RunPosted
  PROVE  FlowInv'
<1>1. OutputOK /\ StrandOK /\ OneWriter
  BY TypeParts DEF IInv
<1>. DEFINE p == Head(strand)
            x == PostedNo(p)
<1>2. strand # <<>> /\ strand' = Tail(strand) /\ handler' = handler /\ answers' = answers
  BY DEF RunPosted, browser
<1>3. Removed(Waiting, Waiting', x) /\ p \in Posted
  BY <1>1, <1>2, TakeFlow, TakePosted
<1>4. p.frame \in Frames
  BY <1>3 DEF Posted
<1>5. \/ Flying' = Flying /\ Queued' = Queued
      \/ x = FrameNo(p.frame) /\ \E d \in {"on_write", "on_broadcast_write"} :
                                   WriteOrQueue(p.frame, p.frame, d)
  <2>1. CASE UNCHANGED output
    BY <2>1 DEF output, Flying, Queued
  <2>2. CASE p.run = "do_broadcast" /\ DoBroadcast(p.frame)
    BY <2>2 DEF DoBroadcast, PostedNo
  <2>3. CASE p.run \in {"sendTextResponse", "respond"} /\ SendTextResponse(p.frame)
    BY <2>3 DEF SendTextResponse, PostedNo
  <2>4. QED
    BY <2>1, <2>2, <2>3 DEF RunPosted
<1>. HIDE DEF p
<1>6. \/ Flying' = Flying /\ Queued' = Queued
      \/ Added(Queued, Queued', x) /\ Flying' = Flying
      \/ Added(Flying, Flying', x) /\ Queued' = Queued /\ DOMAIN Queued = {}
  BY <1>1, <1>4, <1>5, WriteFlow, Outgoing
<1>. HIDE DEF x
<1>7. Ordered(answers, Flying', Queued', Waiting')
  BY <1>3, <1>6, MoveToQueue, MoveToWire, Dropped DEF FlowInv, InOrder
<1>8. Known(handler, Waiting') /\ KnownNo(handler, x)
  BY <1>3, KnownRemoved DEF FlowInv, InOrder
<1>9. Known(handler, Flying') /\ Known(handler, Queued')
  BY <1>6, <1>8, KnownAdded DEF FlowInv, InOrder
<1>10. QED
  BY <1>2, <1>7, <1>8, <1>9 DEF FlowInv, InOrder

LEMMA FlowOnWrite ==
  ASSUME IInv, FlowInv, OnWrite
  PROVE  FlowInv'
<1>1. OutputOK /\ OneWriter /\ version \in Nat /\ answers \in Seq(Nat)
  BY TypeParts DEF IInv, WorkersOK, BrowserOK
<1>. DEFINE x == FrameNo(Head(inflight).frame)
<1>2. /\ inflight # <<>> /\ Arrive(Head(inflight).frame) /\ DrainQueue(Tail(inflight))
      /\ strand' = strand /\ handler' = handler
  BY DEF OnWrite
<1>3. Removed(Flying, Quiet, x) /\ Tail(inflight) \in Seq(Writes) /\ Len(Tail(inflight)) = 0
  BY <1>1, <1>2, FinishFlow
<1>4. answers' = answers \/ Added(answers, answers', x)
  <2>. DEFINE frame == Head(inflight).frame
  <2>1. \/ answers' = answers
        \/ frame.kind = "text" /\ answers' = Append(answers, frame.n)
    BY <1>2 DEF Arrive
  <2>2. CASE frame.kind = "text" /\ answers' = Append(answers, frame.n)
    <3>. DEFINE n == Len(answers)
    <3>1. frame.n = x
      BY <2>2 DEF FrameNo
    <3>2. /\ n \in Nat /\ DOMAIN answers = 1 .. n /\ DOMAIN answers' = 1 .. n + 1
          /\ \A i \in 1 .. n : answers'[i] = answers[i]
          /\ answers'[n + 1] = frame.n
      <4>1. Head(inflight) \in Writes
        BY <1>1, <1>2 DEF OutputOK
      <4>2. frame.n \in Nat
        BY <4>1 DEF Writes, Frames
      <4>3. QED
        BY <1>1, <2>2, <4>2
    <3>. HIDE DEF n
    <3>3. QED
      BY <3>1, <3>2 DEF Added
  <2>3. QED
    BY <2>1, <2>2
<1>. HIDE DEF x
<1>5. InOrder(handler, answers', Quiet, Queued, Waiting)
  <2>1. Ordered(answers', Quiet, Queued, Waiting)
    BY <1>3, <1>4, Arrives, Dropped DEF FlowInv, InOrder
  <2>2. Known(handler, Quiet) /\ KnownNo(handler, x)
    BY <1>3, KnownRemoved DEF FlowInv, InOrder
  <2>3. Known(handler, answers')
    BY <1>4, <2>2, KnownAdded DEF FlowInv, InOrder
  <2>4. QED
    BY <2>1, <2>2, <2>3 DEF FlowInv, InOrder
<1>6. Waiting' = Waiting
  BY <1>2 DEF Waiting
<1>. DEFINE y == FrameNo(Head(write_queue))
<1>7. \/ Flying' = Quiet /\ Queued' = Queued
      \/ Removed(Queued, Queued', y) /\ (Added(Quiet, Flying', 0) \/ Added(Quiet, Flying', y))
  BY <1>1, <1>2, <1>3, DrainFlow
<1>. HIDE DEF y
<1>8. CASE Flying' = Quiet /\ Queued' = Queued
  BY <1>2, <1>5, <1>6, <1>8 DEF FlowInv
<1>9. CASE Removed(Queued, Queued', y) /\ (Added(Quiet, Flying', 0) \/ Added(Quiet, Flying', y))
  <2>1. Ordered(answers', Quiet, Queued', Waiting)
    BY <1>5, <1>9, Dropped DEF InOrder
  <2>2. Ordered(answers', Flying', Queued', Waiting)
    BY <1>5, <1>9, <2>1, Drain, NoAnswer DEF InOrder
  <2>3. Known(handler, Queued') /\ KnownNo(handler, y)
    BY <1>5, <1>9, KnownRemoved DEF InOrder
  <2>4. Known(handler, Flying')
    BY <1>5, <1>9, <2>3, KnownAdded, KnownNothing DEF InOrder
  <2>5. QED
    BY <1>2, <1>5, <1>6, <2>2, <2>3, <2>4 DEF FlowInv, InOrder
<1>10. QED
  BY <1>7, <1>8, <1>9

LEMMA FlowOnWriteError ==
  ASSUME IInv, FlowInv, OnWriteError
  PROVE  FlowInv'
<1>1. OutputOK /\ OneWriter
  BY TypeParts DEF IInv
<1>2. /\ inflight # <<>> /\ inflight' = Tail(inflight) /\ write_queue' = <<>>
      /\ UNCHANGED <<strand, handler, answers>>
  BY DEF OnWriteError, browser
<1>. DEFINE x == FrameNo(Head(inflight).frame)
<1>3. Removed(Flying, Quiet, x) /\ Tail(inflight) \in Seq(Writes) /\ Len(Tail(inflight)) = 0
  BY <1>1, <1>2, FinishFlow
<1>. HIDE DEF x
<1>4. Flying' = Quiet
  <2>1. inflight' = <<>>
    BY <1>2, <1>3, EmptyOrNot
  <2>2. QED
    BY <2>1 DEF Flying, Quiet
<1>5. DOMAIN Queued' = {} /\ Waiting' = Waiting
  <2>1. 1 .. 0 = {}
    OBVIOUS
  <2>2. QED
    BY <1>2, <2>1 DEF Queued, Waiting
<1>6. Ordered(answers, Quiet, Queued, Waiting)
  BY <1>3, Dropped DEF FlowInv, InOrder
<1>7. Ordered(answers, Quiet, Queued', Waiting)
  BY <1>5, <1>6, Dropped
<1>8. Known(handler, Quiet) /\ Known(handler, Queued')
  BY <1>3, <1>5, KnownRemoved, KnownNothing DEF FlowInv, InOrder
<1>9. QED
  BY <1>2, <1>4, <1>5, <1>7, <1>8 DEF FlowInv, InOrder

(* Sending the table moves no answer. *)
LEMMA FlowSendData ==
  ASSUME IInv, FlowInv, SendData, UNCHANGED <<strand, answers>>
  PROVE  InOrder(handler, answers', Flying', Queued', Waiting')
<1>1. OutputOK /\ OneWriter /\ version \in Nat
  BY TypeParts DEF IInv, WorkersOK
<1>2. /\ FrameNo(SendAll) = 0 /\ FrameNo(Snapshot(version)) = 0
      /\ WriteOrQueue(SendAll, Snapshot(version), "on_write")
  BY DEF FrameNo, SendAll, Snapshot, SendData
<1>3. \/ Added(Queued, Queued', 0) /\ Flying' = Flying
      \/ Added(Flying, Flying', 0) /\ Queued' = Queued
  BY <1>1, <1>2, WriteFlow, Outgoing
<1>4. Waiting' = Waiting /\ answers' = answers
  BY DEF Waiting
<1>5. Ordered(answers, Flying', Queued', Waiting)
  BY <1>3, NoAnswer DEF FlowInv, InOrder
<1>6. Known(handler, Flying') /\ Known(handler, Queued')
  BY <1>3, KnownAdded, KnownNothing DEF FlowInv, InOrder
<1>7. QED
  BY <1>4, <1>5, <1>6 DEF FlowInv, InOrder

(* Nor does posting something that is no answer. *)
LEMMA FlowPost ==
  ASSUME IInv, FlowInv, NEW p \in Posted, strand' = Append(strand, p), PostedNo(p) = 0,
         UNCHANGED <<output, answers>>
  PROVE  InOrder(handler, answers', Flying', Queued', Waiting')
<1>1. Added(Waiting, Waiting', 0)
  BY PostFlow, TypeParts DEF IInv
<1>2. Flying' = Flying /\ Queued' = Queued
  BY DEF output, Flying, Queued
<1>3. Ordered(answers, Flying, Queued, Waiting')
  BY <1>1, NewAnswer, ZeroOrder DEF FlowInv, InOrder
<1>4. Known(handler, Waiting')
  BY <1>1, KnownAdded, KnownNothing DEF FlowInv, InOrder
<1>5. QED
  BY <1>2, <1>3, <1>4 DEF FlowInv, InOrder

(* What a thread has answered stays answered. *)
LEMMA KnownStays ==
  ASSUME NEW g, NEW h, NEW a, NEW f, NEW q, NEW w, InOrder(g, a, f, q, w),
         \A n \in Requests : g[n] \in {"responded", "done"} => h[n] \in {"responded", "done"}
  PROVE  InOrder(h, a, f, q, w)
BY DEF InOrder, Known, KnownNo

-----------------------------------------------------------------------------
(* The steps *)

LEMMA FlowStill ==
  ASSUME FlowInv, UNCHANGED <<output, strand, answers>>
  PROVE  InOrder(handler, answers', Flying', Queued', Waiting')
<1>1. Flying' = Flying /\ Queued' = Queued /\ Waiting' = Waiting
  BY DEF Flying, Queued, Waiting, output
<1>2. QED
  BY <1>1 DEF FlowInv

LEMMA ReadOrderStill ==
  ASSUME ReadOrder, UNCHANGED <<handler, inbox, sent>>
  PROVE  ReadOrder'
BY DEF ReadOrder, Read

(* The thread of a request moves on. *)
LEMMA ReadOrderHandler ==
  ASSUME IInv, ReadOrder, UNCHANGED <<inbox, sent>>, NEW n \in Requests, handler[n] # "none",
         NEW place \in {"responded", "done", "threw"}, handler' = [handler EXCEPT ![n] = place]
  PROVE  ReadOrder'
<1>1. /\ \A m \in Requests : handler'[m] = IF m = n THEN place ELSE handler[m]
      /\ \A m \in Requests : Read(m)' <=> Read(m)
  BY DEF IInv, TypeOK, Read
<1>2. \A m \in Requests : handler'[m] \in {"action", "command"} => handler[m] \in {"action", "command"}
  BY <1>1
<1>3. QED
  BY <1>1, <1>2 DEF ReadOrder

LEMMA OrderOnRead ==
  ASSUME IInv, OrderInv, OnRead
  PROVE  OrderInv'
<1>0. OutputOK /\ HandlerOK /\ BrowserOK /\ reading \in Nat /\ AtMostOneRead
  BY TypeParts DEF IInv, ReadInv, ReadOK
<1>1. /\ reading > 0 /\ inbox # <<>> /\ inbox' = Tail(inbox)
      /\ UNCHANGED <<strand, answers, sent, payload>>
  BY DEF OnRead, workers
<1>2. /\ Head(inbox) = inbox[1] /\ inbox[1] \in [id : Requests, kind : RequestKinds]
      /\ Len(inbox) \in Nat \ {0} /\ Len(inbox') = Len(inbox) - 1
      /\ \A k \in 1 .. Len(inbox') : inbox'[k] = inbox[k + 1]
  <2>. DEFINE Message == [id : Requests, kind : RequestKinds]
  <2>1. inbox \in Seq(Message)
    BY <1>0 DEF BrowserOK
  <2>. HIDE DEF Message
  <2>2. /\ Len(inbox) \in Nat /\ Len(inbox) # 0
        /\ Head(inbox) = inbox[1] /\ Tail(inbox) \in Seq(Message)
        /\ Len(Tail(inbox)) = Len(inbox) - 1
        /\ \A k \in 1 .. Len(Tail(inbox)) : Tail(inbox)[k] = inbox[k + 1]
    BY <1>1, <2>1, EmptyOrNot
  <2>3. inbox[1] \in Message
    BY <2>1, <2>2
  <2>4. QED
    BY <1>1, <2>2, <2>3 DEF Message
<1>3. /\ 1 \in 1 .. Len(inbox)
      /\ \A k \in 1 .. Len(inbox') : k + 1 \in 1 .. Len(inbox) /\ 1 < k + 1
  BY <1>2
<1>4. PayloadInv'
  BY <1>1 DEF OrderInv, PayloadInv
<1>5. CASE SendData /\ UNCHANGED handler
  <2>1. FlowInv'
    BY <1>1, <1>5, FlowSendData DEF OrderInv, FlowInv
  <2>2. ReadOrder'
    <3>1. \A k \in 1 .. Len(inbox') : k + 1 \in 1 .. Len(inbox) /\ inbox'[k] = inbox[k + 1]
      BY <1>2, <1>3
    <3>2. \A j, k \in 1 .. Len(inbox') : j < k => j + 1 < k + 1
      OBVIOUS
    <3>3. QED
      BY <1>1, <1>5, <3>1, <3>2 DEF OrderInv, ReadOrder, Read
  <2>3. QED
    BY <1>4, <2>1, <2>2 DEF OrderInv
<1>6. CASE \E kind \in {"action", "command"} :
             handler' = [handler EXCEPT ![Head(inbox).id] = kind] /\ UNCHANGED output
  <2>. DEFINE new == inbox[1].id
  <2>1. PICK kind \in {"action", "command"} :
          handler' = [handler EXCEPT ![new] = kind] /\ UNCHANGED output
    BY <1>2, <1>6
  <2>2. new \in Requests /\ new <= sent
    BY <1>2, <1>3 DEF OrderInv, ReadOrder
  <2>3. handler[new] = "none"
    <3>1. ~Read(new)
      <4>1. Read(new) => new < new
        BY <1>3, <2>2 DEF OrderInv, ReadOrder
      <4>2. new \in Int
        BY <2>2 DEF Requests
      <4>3. QED
        BY <4>1, <4>2
    <3>2. QED
      BY <3>1 DEF Read
  <2>4. \A n \in Requests : handler'[n] = IF n = new THEN kind ELSE handler[n]
    BY <1>0, <2>1, <2>2 DEF HandlerOK
  <2>5. \A n \in Requests : handler[n] \notin {"action", "command"}
    BY <1>0, <1>1 DEF AtMostOneRead, Serving
  <2>6. \A n \in Requests : Read(n)' => n = new \/ (Read(n) /\ n < new)
    BY <1>3, <2>4 DEF OrderInv, ReadOrder, Read
  <2>7. \A k \in 1 .. Len(inbox') : new < inbox'[k].id /\ inbox'[k].id <= sent
    BY <1>2, <1>3 DEF OrderInv, ReadOrder
  <2>8. FlowInv'
    <3>1. InOrder(handler, answers', Flying', Queued', Waiting')
      BY <1>1, <2>1, FlowStill DEF OrderInv
    <3>2. \A n \in Requests : handler[n] \in {"responded", "done"}
                                => handler'[n] \in {"responded", "done"}
      BY <2>3, <2>4
    <3>3. QED
      BY <3>1, <3>2, KnownStays DEF FlowInv
  <2>. HIDE DEF new
  <2>9. ReadOrder'
    <3>1. ASSUME NEW m \in Requests, NEW n \in Requests, Read(m)', handler'[n] \in {"action", "command"}
          PROVE  m <= n
      <4>1. n = new /\ m \in Int /\ n \in Int
        BY <2>4, <2>5, <3>1 DEF Requests
      <4>2. m = new \/ m < new
        BY <2>6, <3>1
      <4>3. QED
        BY <4>1, <4>2
    <3>2. ASSUME NEW n \in Requests, Read(n)' PROVE n <= sent'
      BY <1>1, <2>2, <2>6, <3>2 DEF OrderInv, ReadOrder
    <3>3. ASSUME NEW n \in Requests, NEW k \in 1 .. Len(inbox'), Read(n)' PROVE n < inbox'[k].id
      <4>1. k + 1 \in 1 .. Len(inbox) /\ inbox'[k] = inbox[k + 1]
        BY <1>2, <1>3
      <4>2. QED
        BY <2>6, <2>7, <3>3, <4>1 DEF OrderInv, ReadOrder
    <3>4. \A k \in 1 .. Len(inbox') : inbox'[k].id <= sent'
      BY <1>1, <2>7
    <3>5. ASSUME NEW j \in 1 .. Len(inbox'), NEW k \in 1 .. Len(inbox'), j < k
          PROVE  inbox'[j].id < inbox'[k].id
      <4>1. /\ j + 1 \in 1 .. Len(inbox) /\ k + 1 \in 1 .. Len(inbox) /\ j + 1 < k + 1
            /\ inbox'[j] = inbox[j + 1] /\ inbox'[k] = inbox[k + 1]
        BY <1>2, <1>3, <3>5
      <4>2. QED
        BY <4>1 DEF OrderInv, ReadOrder
    <3>6. QED
      BY <3>1, <3>2, <3>3, <3>4, <3>5 DEF ReadOrder
  <2>10. QED
    BY <1>4, <2>8, <2>9 DEF OrderInv
<1>7. (SendData /\ UNCHANGED handler)
      \/ \E kind \in {"action", "command"} :
           handler' = [handler EXCEPT ![Head(inbox).id] = kind] /\ UNCHANGED output
  BY <1>2 DEF OnRead, RequestKinds
<1>8. QED
  BY <1>5, <1>6, <1>7

(* The answer to the last request read comes after all others. *)
LEMMA OrderRespond ==
  ASSUME IInv, OrderInv, NEW n \in Requests, RespondAction(n) \/ RespondCommand(n)
  PROVE  OrderInv'
<1>0. StrandOK /\ HandlerOK
  BY TypeParts DEF IInv
<1>1. PICK place \in {"responded", "done"} :
        /\ handler[n] \in {"action", "command"}
        /\ handler' = [handler EXCEPT ![n] = place]
        /\ UNCHANGED <<output, workers, browser>>
        /\ \/ UNCHANGED strand
           \/ \E run \in {"respond", "sendTextResponse"} : Post(run, Text(n))
  BY DEF RespondAction, RespondCommand
<1>2. n \in Nat /\ n > 0
  BY SessionAssumption DEF Requests
<1>3. PayloadInv'
  BY <1>1 DEF OrderInv, PayloadInv, workers
<1>4. ReadOrder'
  BY <1>1, ReadOrderHandler DEF OrderInv, browser
<1>5. /\ \A m \in Requests : handler[m] \in {"responded", "done"} => handler'[m] \in {"responded", "done"}
      /\ handler'[n] \in {"responded", "done"}
  BY <1>0, <1>1 DEF HandlerOK
<1>6. CASE UNCHANGED strand
  <2>1. InOrder(handler, answers', Flying', Queued', Waiting')
    BY <1>1, <1>6, FlowStill DEF OrderInv, browser
  <2>2. FlowInv'
    BY <1>5, <2>1, KnownStays DEF FlowInv
  <2>3. QED
    BY <1>3, <1>4, <2>2 DEF OrderInv
<1>7. CASE \E run \in {"respond", "sendTextResponse"} : Post(run, Text(n))
  <2>1. PICK run \in {"respond", "sendTextResponse"} : Post(run, Text(n))
    BY <1>7
  <2>. DEFINE p == [run |-> run, frame |-> Text(n)]
  <2>2. p \in Posted /\ PostedNo(p) = n
    BY <1>2, <2>1, Outgoing DEF Posted, PostedNo, FrameNo, Text
  <2>3. Added(Waiting, Waiting', n)
    BY <1>0, <2>1, <2>2, PostFlow DEF Post
  <2>4. Flying' = Flying /\ Queued' = Queued /\ answers' = answers
    BY <1>1 DEF output, Flying, Queued, browser
  <2>5. ASSUME NEW s, Known(handler, s) PROVE Under(s, n)
    <3>. SUFFICES ASSUME NEW i \in DOMAIN s, s[i] > 0 PROVE s[i] < n
      BY DEF Under
    <3>1. s[i] \in Requests /\ handler[s[i]] \in {"responded", "done"}
      BY <2>5 DEF Known, KnownNo
    <3>2. s[i] <= n /\ s[i] # n
      BY <1>1, <3>1 DEF OrderInv, ReadOrder, Read
    <3>3. s[i] \in Nat
      BY <3>1 DEF Requests
    <3>4. QED
      BY <1>2, <3>2, <3>3
  <2>6. Ordered(answers, Flying, Queued, Waiting')
    BY <2>3, <2>5, NewAnswer DEF OrderInv, FlowInv, InOrder
  <2>7. InOrder(handler', answers, Flying, Queued, Waiting)
    BY <1>5, KnownStays DEF OrderInv, FlowInv
  <2>8. Known(handler', Waiting')
    BY <1>5, <2>3, <2>7, KnownAdded DEF InOrder, KnownNo
  <2>9. FlowInv'
    BY <2>4, <2>6, <2>7, <2>8 DEF FlowInv, InOrder
  <2>10. QED
    BY <1>3, <1>4, <2>9 DEF OrderInv
<1>8. QED
  BY <1>1, <1>6, <1>7

LEMMA OrderStep ==
  ASSUME IInv, OrderInv, [Next]_vars
  PROVE  OrderInv'
<1>1. CASE OnAccept
  <2>1. UNCHANGED <<strand, handler, answers, inbox, sent, payload>> /\ (SendData \/ UNCHANGED output)
    BY <1>1 DEF OnAccept, workers, browser
  <2>2. FlowInv'
    BY <2>1, FlowSendData, FlowStill DEF OrderInv, FlowInv
  <2>3. QED
    BY <2>1, <2>2, ReadOrderStill DEF OrderInv, PayloadInv
<1>2. CASE OnRead
  BY <1>2, OrderOnRead
<1>3. CASE OnReadError \/ Leave \/ Change \/ UNCHANGED vars
  <2>1. UNCHANGED <<output, strand, handler, answers, inbox, sent, payload>>
    BY <1>3 DEF OnReadError, Leave, Change, workers, browser, vars, output
  <2>2. FlowInv'
    BY <2>1, FlowStill DEF OrderInv, FlowInv
  <2>3. QED
    BY <2>1, <2>2, ReadOrderStill DEF OrderInv, PayloadInv
<1>4. CASE OnWrite \/ OnWriteError \/ RunPosted
  <2>1. FlowInv'
    BY <1>4, FlowOnWrite, FlowOnWriteError, FlowRunPosted DEF OrderInv
  <2>2. UNCHANGED <<handler, inbox, sent, payload>>
    BY <1>4 DEF OnWrite, OnWriteError, RunPosted, workers, browser
  <2>3. QED
    BY <2>1, <2>2, ReadOrderStill DEF OrderInv, PayloadInv
<1>5. ASSUME NEW n \in Requests, RespondAction(n) \/ RespondCommand(n) PROVE OrderInv'
  BY <1>5, OrderRespond
<1>6. ASSUME NEW n \in Requests, ReadOn(n) \/ Throw(n) PROVE OrderInv'
  <2>1. PICK place \in {"done", "threw"} :
          /\ handler[n] \in {"action", "command", "responded"}
          /\ handler[n] = "responded" => place = "done"
          /\ handler' = [handler EXCEPT ![n] = place]
          /\ UNCHANGED <<output, workers, browser>>
          /\ UNCHANGED strand \/ Post("do_read", Text(n))
    BY <1>6 DEF ReadOn, Throw
  <2>2. InOrder(handler, answers', Flying', Queued', Waiting')
    <3>1. CASE UNCHANGED strand
      BY <2>1, <3>1, FlowStill DEF OrderInv, browser
    <3>2. CASE Post("do_read", Text(n))
      <4>. DEFINE p == [run |-> "do_read", frame |-> Text(n)]
      <4>1. n \in Nat
        BY SessionAssumption DEF Requests
      <4>2. p \in Posted /\ PostedNo(p) = 0
        BY <4>1, Outgoing DEF Posted, PostedNo
      <4>3. strand' = Append(strand, p)
        BY <3>2 DEF Post
      <4>. HIDE DEF p
      <4>4. QED
        BY <2>1, <4>2, <4>3, FlowPost DEF OrderInv, browser
    <3>3. QED
      BY <2>1, <3>1, <3>2
  <2>3. \A m \in Requests : handler[m] \in {"responded", "done"} => handler'[m] \in {"responded", "done"}
    BY <2>1 DEF IInv, TypeOK
  <2>4. FlowInv'
    BY <2>2, <2>3, KnownStays DEF FlowInv
  <2>5. ReadOrder'
    BY <2>1, ReadOrderHandler DEF OrderInv, browser
  <2>6. QED
    BY <2>1, <2>4, <2>5 DEF OrderInv, PayloadInv, workers
<1>7. ASSUME NEW b \in Broadcasters, LoadAll(b) \/ LoadText(b) \/ GetSessions(b) PROVE OrderInv'
  <2>1. /\ UNCHANGED <<output, strand, handler, answers, inbox, sent>>
        /\ \/ UNCHANGED payload
           \/ \E f \in {Snapshot(version), Text(0)} : payload' = [payload EXCEPT ![b] = f]
    BY <1>7 DEF LoadAll, LoadText, GetSessions, browser
  <2>2. FrameNo(Snapshot(version)) = 0 /\ FrameNo(Text(0)) = 0
    BY DEF FrameNo, Snapshot, Text
  <2>3. PayloadInv'
    <3>1. ASSUME NEW c \in Broadcasters PROVE FrameNo(payload'[c]) = 0
      <4>1. payload'[c] \in {payload[c], Snapshot(version), Text(0)}
        BY <2>1 DEF IInv, TypeOK
      <4>2. QED
        BY <2>2, <4>1 DEF OrderInv, PayloadInv
    <3>2. QED
      BY <3>1 DEF PayloadInv
  <2>4. FlowInv'
    BY <2>1, FlowStill DEF OrderInv, FlowInv
  <2>5. QED
    BY <2>1, <2>3, <2>4, ReadOrderStill DEF OrderInv
<1>8. ASSUME NEW b \in Broadcasters, SendBroadcast(b) PROVE OrderInv'
  <2>1. PICK run \in {"do_broadcast", "sendTextResponse"} : Post(run, payload[b])
    BY <1>8 DEF SendBroadcast
  <2>2. UNCHANGED <<output, handler, answers, inbox, sent, payload>>
    BY <1>8 DEF SendBroadcast, browser
  <2>. DEFINE p == [run |-> run, frame |-> payload[b]]
  <2>3. p \in Posted /\ PostedNo(p) = 0
    BY DEF Posted, PostedNo, OrderInv, PayloadInv, IInv, TypeOK
  <2>4. strand' = Append(strand, p)
    BY <2>1 DEF Post
  <2>. HIDE DEF p
  <2>5. FlowInv'
    BY <2>2, <2>3, <2>4, FlowPost DEF OrderInv, FlowInv
  <2>6. QED
    BY <2>2, <2>5, ReadOrderStill DEF OrderInv, PayloadInv
<1>9. ASSUME NEW kind \in RequestKinds, Send(kind) PROVE OrderInv'
  <2>1. /\ sent' = sent + 1 /\ inbox' = Append(inbox, [id |-> sent', kind |-> kind])
        /\ UNCHANGED <<output, strand, handler, answers, payload>>
    BY <1>9 DEF Send, workers, browser
  <2>2. BrowserOK
    BY TypeParts DEF IInv
  <2>3. sent \in Nat /\ Len(inbox) \in Nat /\ Len(inbox') = Len(inbox) + 1
    BY <2>1, <2>2, SessionAssumption DEF BrowserOK
  <2>4. ASSUME NEW k \in 1 .. Len(inbox')
        PROVE  \/ k \in 1 .. Len(inbox) /\ inbox'[k] = inbox[k]
               \/ k = Len(inbox) + 1 /\ inbox'[k].id = sent + 1
    BY <2>1, <2>2, <2>3 DEF BrowserOK
  <2>5. \A k \in 1 .. Len(inbox) : inbox[k].id \in Nat
    <3>1. \A k \in 1 .. Len(inbox) : inbox[k] \in [id : Requests, kind : RequestKinds]
      <4>. DEFINE Message == [id : Requests, kind : RequestKinds]
      <4>1. inbox \in Seq(Message)
        BY <2>2 DEF BrowserOK
      <4>. HIDE DEF Message
      <4>2. \A k \in 1 .. Len(inbox) : inbox[k] \in Message
        BY <4>1
      <4>3. QED
        BY <4>2 DEF Message
    <3>2. Requests \subseteq Nat
      BY SessionAssumption DEF Requests
    <3>3. QED
      BY <3>1, <3>2
  <2>6. ReadOrder'
    <3>1. \A n \in Requests : (Read(n)' <=> Read(n)) /\ n \in Nat
      BY <2>1 DEF Read, Requests
    <3>2. ASSUME NEW n \in Requests, Read(n) PROVE n <= sent'
      BY <2>1, <2>3, <3>1, <3>2 DEF OrderInv, ReadOrder
    <3>3. ASSUME NEW n \in Requests, NEW k \in 1 .. Len(inbox'), Read(n) PROVE n < inbox'[k].id
      <4>1. CASE k \in 1 .. Len(inbox) /\ inbox'[k] = inbox[k]
        BY <3>3, <4>1 DEF OrderInv, ReadOrder
      <4>2. CASE inbox'[k].id = sent + 1
        BY <2>3, <3>1, <3>3, <4>2 DEF OrderInv, ReadOrder
      <4>3. QED
        BY <2>4, <4>1, <4>2
    <3>4. ASSUME NEW k \in 1 .. Len(inbox') PROVE inbox'[k].id <= sent'
      <4>1. CASE k \in 1 .. Len(inbox) /\ inbox'[k] = inbox[k]
        BY <2>1, <2>3, <2>5, <4>1 DEF OrderInv, ReadOrder
      <4>2. CASE inbox'[k].id = sent + 1
        BY <2>1, <2>3, <4>2
      <4>3. QED
        BY <2>4, <4>1, <4>2
    <3>5. ASSUME NEW j \in 1 .. Len(inbox'), NEW k \in 1 .. Len(inbox'), j < k
          PROVE  inbox'[j].id < inbox'[k].id
      <4>1. j \in 1 .. Len(inbox) /\ inbox'[j] = inbox[j]
        BY <2>3, <2>4, <3>5
      <4>2. CASE k \in 1 .. Len(inbox) /\ inbox'[k] = inbox[k]
        BY <3>5, <4>1, <4>2 DEF OrderInv, ReadOrder
      <4>3. CASE inbox'[k].id = sent + 1
        BY <2>3, <2>5, <4>1, <4>3 DEF OrderInv, ReadOrder
      <4>4. QED
        BY <2>4, <4>2, <4>3
    <3>6. QED
      BY <2>1, <3>1, <3>2, <3>3, <3>4, <3>5 DEF OrderInv, ReadOrder
  <2>7. FlowInv'
    BY <2>1, FlowStill DEF OrderInv, FlowInv
  <2>8. QED
    BY <2>1, <2>6, <2>7 DEF OrderInv, PayloadInv
<1>10. QED
  BY <1>1, <1>2, <1>3, <1>4, <1>5, <1>6, <1>7, <1>8, <1>9 DEF Next, Strand, Handler, Worker

(* Only an answer to a request is one. *)
LEMMA AnswersStep ==
  ASSUME IInv, Answers, [Next]_vars
  PROVE  Answers'
<1>0. OutputOK /\ answers \in Seq(Nat)
  BY TypeParts DEF IInv, BrowserOK
<1>1. \/ UNCHANGED answers
      \/ inflight # <<>> /\ Arrive(Head(inflight).frame)
  BY DEF Next, Strand, Handler, Worker, OnAccept, OnRead, OnReadError, OnWrite, OnWriteError,
         RunPosted, RespondAction, RespondCommand, ReadOn, Throw, LoadAll, LoadText, GetSessions,
         SendBroadcast, Change, Send, Leave, workers, browser, vars
<1>2. CASE UNCHANGED answers
  BY <1>2 DEF Answers
<1>3. CASE inflight # <<>> /\ Arrive(Head(inflight).frame)
  <2>1. Head(inflight) \in Writes
    BY <1>0, <1>3 DEF OutputOK
  <2>. DEFINE n == Head(inflight).frame.n
  <2>2. n \in Nat
    BY <2>1 DEF Writes, Frames
  <2>3. UNCHANGED answers \/ (n > 0 /\ answers' = Append(answers, n))
    BY <1>3 DEF Arrive
  <2>. HIDE DEF n
  <2>4. CASE n > 0 /\ answers' = Append(answers, n)
    BY <1>0, <2>2, <2>4 DEF Answers
  <2>5. QED
    BY <1>2, <2>3, <2>4
<1>4. QED
  BY <1>1, <1>2, <1>3

LEMMA InitOrder == Init => OrderInv
<1>. SUFFICES ASSUME Init PROVE OrderInv
  OBVIOUS
<1>1. 1 .. 0 = {}
  OBVIOUS
<1>2. /\ DOMAIN answers = {} /\ DOMAIN Flying = {} /\ DOMAIN Queued = {} /\ DOMAIN Waiting = {}
      /\ Len(inbox) = 0
  BY <1>1 DEF Init, Flying, Queued, Waiting
<1>3. FlowInv
  BY <1>2, NothingOrder, KnownNothing DEF FlowInv, InOrder, Ordered
<1>4. ReadOrder
  BY <1>1, <1>2 DEF Init, ReadOrder, Read
<1>5. PayloadInv
  BY DEF Init, PayloadInv, FrameNo, Snapshot
<1>6. QED
  BY <1>3, <1>4, <1>5 DEF OrderInv

(* ws_server.hpp:526-741: whatever broadcasts, refreshes and threads come  *)
(* between, the strand and write_queue_ never let an answer overtake the   *)
(* answer to an earlier request, and none is sent twice.                   *)
THEOREM AnswersKeepOrder == Spec => []AnswersInOrder
<1>0. Init => Answers
  BY DEF Init, Answers
<1>1. (IInv /\ OrderInv /\ Answers) /\ [Next]_vars => (IInv /\ OrderInv /\ Answers)'
  BY NextIInv, OrderStep, AnswersStep
<1>2. IInv /\ OrderInv /\ Answers => AnswersInOrder
  <2>. SUFFICES ASSUME IInv, OrderInv, Answers,
                       NEW i \in 1 .. Len(answers), NEW j \in 1 .. Len(answers), i < j
                PROVE  answers[i] < answers[j]
    BY DEF AnswersInOrder
  <2>1. Sorted(answers)
    BY DEF OrderInv, FlowInv, InOrder, Ordered
  <2>2. i \in DOMAIN answers /\ j \in DOMAIN answers
    BY DEF IInv, TypeOK
  <2>3. answers[i] > 0 /\ answers[j] > 0
    BY DEF Answers
  <2>4. QED
    BY <2>1, <2>2, <2>3 DEF Sorted
<1>3. QED
  BY <1>0, <1>1, <1>2, InitIInv, InitOrder, PTL DEF Spec

-----------------------------------------------------------------------------
(* No answer is lost.  The parts of Answering, by where the answer is. *)

PostedAnswer(n) ==
  \E i \in 1 .. Len(strand) : /\ strand[i].run \in {"respond", "sendTextResponse"}
                              /\ strand[i].frame = Text(n)
QueuedAnswer(n) == \E i \in 1 .. Len(write_queue) : write_queue[i] = Text(n)
WrittenAnswer(n) == \E i \in 1 .. Len(inflight) : inflight[i].frame = Text(n)
ReceivedAnswer(n) == \E i \in 1 .. Len(answers) : answers[i] = n

LEMMA AnsweringParts ==
  ASSUME NEW n
  PROVE  /\ Answering(n) <=> \/ PostedAnswer(n) \/ QueuedAnswer(n)
                             \/ WrittenAnswer(n) \/ ReceivedAnswer(n)
         /\ Answering(n)' <=> \/ PostedAnswer(n)' \/ QueuedAnswer(n)'
                              \/ WrittenAnswer(n)' \/ ReceivedAnswer(n)'
BY DEF Answering, PostedAnswer, QueuedAnswer, WrittenAnswer, ReceivedAnswer

LEMMA AppendHas ==
  ASSUME NEW S, NEW s \in Seq(S), NEW x \in S
  PROVE  /\ Len(Append(s, x)) = Len(s) + 1 /\ Len(s) \in Nat
         /\ \A i \in 1 .. Len(s) : i \in 1 .. Len(Append(s, x)) /\ Append(s, x)[i] = s[i]
         /\ Len(s) + 1 \in 1 .. Len(Append(s, x)) /\ Append(s, x)[Len(s) + 1] = x
OBVIOUS

LEMMA TailHas ==
  ASSUME NEW S, NEW s \in Seq(S), s # <<>>, NEW i \in 1 .. Len(s)
  PROVE  s[i] = Head(s) \/ \E j \in 1 .. Len(Tail(s)) : Tail(s)[j] = s[i]
<1>1. Len(s) \in Nat /\ Head(s) = s[1] /\ Len(Tail(s)) = Len(s) - 1
      /\ \A j \in 1 .. Len(Tail(s)) : Tail(s)[j] = s[j + 1]
  BY EmptyOrNot
<1>2. CASE i = 1
  BY <1>1, <1>2
<1>3. CASE i # 1
  <2>1. i - 1 \in 1 .. Len(Tail(s)) /\ Tail(s)[i - 1] = s[i]
    BY <1>1, <1>3
  <2>2. QED
    BY <2>1
<1>4. QED
  BY <1>2, <1>3

(* What was posted stays posted when something is posted behind it. *)
LEMMA PostKeeps ==
  ASSUME StrandOK, NEW p \in Posted, strand' = Append(strand, p), NEW n, PostedAnswer(n)
  PROVE  PostedAnswer(n)'
<1>1. PICK i \in 1 .. Len(strand) : /\ strand[i].run \in {"respond", "sendTextResponse"}
                                    /\ strand[i].frame = Text(n)
  BY DEF PostedAnswer
<1>2. i \in 1 .. Len(strand') /\ strand'[i] = strand[i]
  BY AppendHas DEF StrandOK
<1>3. QED
  BY <1>1, <1>2 DEF PostedAnswer

(* A frame that is written or queued is there afterwards, and so is what   *)
(* was in the queue and on the wire.                                       *)
LEMMA WriteKeeps ==
  ASSUME OutputOK, OneWriter, NEW item \in Pending, NEW f \in Frames,
         NEW d \in {"on_write", "on_broadcast_write"}, WriteOrQueue(item, f, d), NEW n
  PROVE  /\ QueuedAnswer(n) \/ WrittenAnswer(n) => QueuedAnswer(n)' \/ WrittenAnswer(n)'
         /\ item = f /\ f = Text(n) => QueuedAnswer(n)' \/ WrittenAnswer(n)'
<1>1. CASE writing
  <2>1. write_queue' = Append(write_queue, item) /\ UNCHANGED <<writing, inflight>>
    BY <1>1 DEF WriteOrQueue
  <2>2. WrittenAnswer(n) => WrittenAnswer(n)'
    BY <2>1 DEF WrittenAnswer
  <2>3. /\ \A i \in 1 .. Len(write_queue) : i \in 1 .. Len(write_queue')
                                            /\ write_queue'[i] = write_queue[i]
        /\ Len(write_queue) + 1 \in 1 .. Len(write_queue')
        /\ write_queue'[Len(write_queue) + 1] = item
    BY <2>1, AppendHas DEF OutputOK
  <2>4. (QueuedAnswer(n) => QueuedAnswer(n)') /\ (item = Text(n) => QueuedAnswer(n)')
    BY <2>3 DEF QueuedAnswer
  <2>5. QED
    BY <2>2, <2>4
<1>2. CASE ~writing
  <2>1. inflight = <<>> /\ UNCHANGED write_queue
        /\ inflight' = Append(inflight, [frame |-> f, done |-> d])
    BY <1>2 DEF OneWriter, WriteOrQueue, Start
  <2>2. inflight' = <<[frame |-> f, done |-> d]>>
    BY <2>1
  <2>3. 1 \in 1 .. Len(inflight') /\ inflight'[1].frame = f
    BY <2>2
  <2>4. f = Text(n) => WrittenAnswer(n)'
    BY <2>3 DEF WrittenAnswer
  <2>5. ~WrittenAnswer(n) /\ (QueuedAnswer(n) => QueuedAnswer(n)')
    <3>1. Len(inflight) = 0 /\ 1 .. 0 = {}
      BY <2>1
    <3>2. QED
      BY <2>1, <3>1 DEF WrittenAnswer, QueuedAnswer
  <2>6. QED
    BY <2>4, <2>5
<1>3. QED
  BY <1>1, <1>2

(* When a write completes, the head of the queue goes to the wire. *)
LEMMA DrainKeeps ==
  ASSUME OutputOK, OneWriter, inflight # <<>>, DrainQueue(Tail(inflight)), NEW n,
         QueuedAnswer(n)
  PROVE  QueuedAnswer(n)' \/ WrittenAnswer(n)'
<1>1. PICK i \in 1 .. Len(write_queue) : write_queue[i] = Text(n)
  BY DEF QueuedAnswer
<1>2. write_queue # <<>>
  <2>1. Len(write_queue) \in Nat /\ Len(write_queue) # 0
    BY <1>1 DEF OutputOK
  <2>2. QED
    BY <2>1, EmptyOrNot DEF OutputOK
<1>3. write_queue' = Tail(write_queue)
  BY <1>2 DEF DrainQueue, Start
<1>4. write_queue[i] = Head(write_queue) \/ \E j \in 1 .. Len(Tail(write_queue)) :
                                               Tail(write_queue)[j] = write_queue[i]
  BY <1>2, TailHas DEF OutputOK
<1>5. CASE write_queue[i] = Head(write_queue)
  <2>1. Head(write_queue) # SendAll
    BY <1>1, <1>5 DEF SendAll, Text
  <2>2. inflight' = Append(Tail(inflight),
                           [frame |-> Head(write_queue), done |-> "on_broadcast_write"])
    BY <1>2, <2>1 DEF DrainQueue, Start
  <2>3. Head(write_queue) \in Frames
    <3>1. Head(write_queue) \in Pending
      BY <1>2 DEF OutputOK
    <3>2. QED
      BY <2>1, <3>1, Outgoing
  <2>4. [frame |-> Head(write_queue), done |-> "on_broadcast_write"] \in Writes
    BY <2>3 DEF Writes
  <2>5. Tail(inflight) \in Seq(Writes)
    BY DEF OutputOK
  <2>6. Len(Tail(inflight)) + 1 \in 1 .. Len(inflight')
        /\ inflight'[Len(Tail(inflight)) + 1]
             = [frame |-> Head(write_queue), done |-> "on_broadcast_write"]
    BY <2>2, <2>4, <2>5, AppendHas
  <2>7. QED
    BY <1>1, <1>5, <2>6 DEF WrittenAnswer
<1>6. CASE \E j \in 1 .. Len(Tail(write_queue)) : Tail(write_queue)[j] = write_queue[i]
  BY <1>1, <1>3, <1>6 DEF QueuedAnswer
<1>7. QED
  BY <1>4, <1>5, <1>6

(* A frame that arrives over a connection that works has been received. *)
LEMMA ArriveKeeps ==
  ASSUME answers \in Seq(Nat), NEW f \in Frames, Arrive(f), NEW n \in Requests
  PROVE  /\ ReceivedAnswer(n) => ReceivedAnswer(n)'
         /\ link /\ f = Text(n) => ReceivedAnswer(n)'
<1>1. n \in Nat /\ n > 0
  BY SessionAssumption DEF Requests
<1>2. CASE answers' = answers
  <2>1. ~(link /\ f = Text(n)) \/ ReceivedAnswer(n)'
    <3>. SUFFICES ASSUME link, f = Text(n) PROVE FALSE
      OBVIOUS
    <3>1. f.kind = "text" /\ f.n = n
      BY DEF Text
    <3>2. answers' = Append(answers, n)
      BY <1>1, <3>1 DEF Arrive
    <3>3. Len(answers') = Len(answers) + 1 /\ Len(answers) \in Nat
      BY <1>1, <3>2
    <3>4. QED
      BY <1>2, <3>3
  <2>2. QED
    BY <1>2, <2>1 DEF ReceivedAnswer
<1>3. CASE answers' = Append(answers, f.n)
  <2>1. f.n \in Nat
    BY DEF Frames
  <2>2. /\ \A i \in 1 .. Len(answers) : i \in 1 .. Len(answers') /\ answers'[i] = answers[i]
        /\ Len(answers) + 1 \in 1 .. Len(answers') /\ answers'[Len(answers) + 1] = f.n
    BY <1>3, <2>1, AppendHas
  <2>3. f = Text(n) => f.n = n
    BY DEF Text
  <2>4. QED
    BY <2>2, <2>3 DEF ReceivedAnswer
<1>4. QED
  BY <1>2, <1>3 DEF Arrive

LEMMA KeptOnWrite ==
  ASSUME IInv, OnWrite, NEW n \in Requests, Answering(n), link'
  PROVE  Answering(n)'
<1>0. OutputOK /\ OneWriter /\ answers \in Seq(Nat) /\ link /\ UNCHANGED strand
  BY TypeParts DEF IInv, BrowserOK, OnWrite
<1>1. inflight # <<>> /\ Arrive(Head(inflight).frame) /\ DrainQueue(Tail(inflight))
  BY DEF OnWrite
<1>2. Head(inflight) \in Writes /\ Head(inflight).frame \in Frames
  <2>1. Head(inflight) \in Writes
    BY <1>0, <1>1 DEF OutputOK
  <2>2. QED
    BY <2>1 DEF Writes
<1>3. CASE PostedAnswer(n)
  <2>1. PostedAnswer(n)'
    BY <1>0, <1>3 DEF PostedAnswer
  <2>2. QED
    BY <2>1, AnsweringParts
<1>4. CASE QueuedAnswer(n)
  BY <1>0, <1>1, <1>4, DrainKeeps, AnsweringParts
<1>5. CASE WrittenAnswer(n)
  <2>1. PICK i \in 1 .. Len(inflight) : inflight[i].frame = Text(n)
    BY <1>5 DEF WrittenAnswer
  <2>2. Len(inflight) = 1 /\ i = 1
    <3>1. Len(inflight) \in Nat /\ Len(inflight) <= 1
      BY <1>0 DEF OutputOK, OneWriter
    <3>2. \A m \in Nat : \A k \in 1 .. m : m <= 1 => m = 1 /\ k = 1
      OBVIOUS
    <3>3. QED
      BY <3>1, <3>2
  <2>3. Head(inflight).frame = Text(n)
    BY <1>0, <2>1, <2>2 DEF OutputOK
  <2>4. QED
    BY <1>0, <1>1, <1>2, <2>3, ArriveKeeps, AnsweringParts
<1>6. CASE ReceivedAnswer(n)
  BY <1>0, <1>1, <1>2, <1>6, ArriveKeeps, AnsweringParts
<1>7. QED
  BY <1>3, <1>4, <1>5, <1>6, AnsweringParts

LEMMA KeptRunPosted ==
  ASSUME IInv, RunPosted, NEW n \in Requests, Answering(n)
  PROVE  Answering(n)'
<1>0. OutputOK /\ OneWriter /\ StrandOK /\ UNCHANGED answers /\ strand # <<>>
      /\ strand' = Tail(strand)
  BY TypeParts DEF IInv, RunPosted, browser
<1>. DEFINE next == Head(strand)
<1>1. next \in Posted
  BY <1>0 DEF StrandOK
<1>2. next.frame \in Frames /\ next.frame \in Pending
  <2>1. next.frame \in Frames
    BY <1>1 DEF Posted
  <2>2. QED
    BY <2>1, Outgoing
<1>3. \/ WriteOrQueue(next.frame, next.frame, "on_broadcast_write")
      \/ WriteOrQueue(next.frame, next.frame, "on_write")
      \/ next.run = "do_read" /\ UNCHANGED output
  BY DEF RunPosted, DoBroadcast, SendTextResponse
<1>. HIDE DEF next
<1>4. CASE QueuedAnswer(n) \/ WrittenAnswer(n)
  <2>1. QueuedAnswer(n)' \/ WrittenAnswer(n)'
    <3>1. CASE UNCHANGED output
      BY <1>4, <3>1 DEF output, QueuedAnswer, WrittenAnswer
    <3>2. QED
      BY <1>0, <1>2, <1>3, <1>4, <3>1, WriteKeeps
  <2>2. QED
    BY <2>1, AnsweringParts
<1>5. CASE ReceivedAnswer(n)
  <2>1. ReceivedAnswer(n)'
    BY <1>0, <1>5 DEF ReceivedAnswer
  <2>2. QED
    BY <2>1, AnsweringParts
<1>6. CASE PostedAnswer(n)
  <2>1. PICK i \in 1 .. Len(strand) : /\ strand[i].run \in {"respond", "sendTextResponse"}
                                      /\ strand[i].frame = Text(n)
    BY <1>6 DEF PostedAnswer
  <2>2. strand[i] = next \/ \E j \in 1 .. Len(strand') : strand'[j] = strand[i]
    BY <1>0, TailHas DEF StrandOK, next
  <2>3. CASE strand[i] = next
    <3>1. next.frame = Text(n) /\ next.run # "do_read"
      BY <2>1, <2>3
    <3>2. QueuedAnswer(n)' \/ WrittenAnswer(n)'
      BY <1>0, <1>2, <1>3, <3>1, WriteKeeps
    <3>3. QED
      BY <3>2, AnsweringParts
  <2>4. CASE \E j \in 1 .. Len(strand') : strand'[j] = strand[i]
    <3>1. PostedAnswer(n)'
      BY <2>1, <2>4 DEF PostedAnswer
    <3>2. QED
      BY <3>1, AnsweringParts
  <2>5. QED
    BY <2>2, <2>3, <2>4
<1>7. QED
  BY <1>4, <1>5, <1>6, AnsweringParts

(* The steps that start a write: the handshake and a refresh. *)
LEMMA KeptSendData ==
  ASSUME IInv, SendData \/ UNCHANGED output, UNCHANGED <<strand, answers>>,
         NEW n \in Requests, Answering(n)
  PROVE  Answering(n)'
<1>0. OutputOK /\ OneWriter /\ SendAll \in Pending /\ Snapshot(version) \in Frames
  BY TypeParts, Outgoing DEF IInv, WorkersOK
<1>1. QueuedAnswer(n) \/ WrittenAnswer(n) => QueuedAnswer(n)' \/ WrittenAnswer(n)'
  <2>1. CASE UNCHANGED output
    BY <2>1 DEF output, QueuedAnswer, WrittenAnswer
  <2>2. CASE SendData
    BY <1>0, <2>2, WriteKeeps DEF SendData
  <2>3. QED
    BY <2>1, <2>2
<1>2. (PostedAnswer(n) => PostedAnswer(n)') /\ (ReceivedAnswer(n) => ReceivedAnswer(n)')
  BY DEF PostedAnswer, ReceivedAnswer
<1>3. QED
  BY <1>1, <1>2, AnsweringParts

(* The steps that post to the strand, or leave it alone. *)
LEMMA KeptPost ==
  ASSUME IInv, UNCHANGED <<output, answers>>, NEW n, Answering(n),
         UNCHANGED strand \/ \E p \in Posted : strand' = Append(strand, p)
  PROVE  Answering(n)'
<1>0. StrandOK
  BY TypeParts DEF IInv
<1>1. PostedAnswer(n) => PostedAnswer(n)'
  <2>1. CASE UNCHANGED strand
    BY <2>1 DEF PostedAnswer
  <2>2. QED
    BY <1>0, <2>1, PostKeeps
<1>2. /\ QueuedAnswer(n) => QueuedAnswer(n)'
      /\ WrittenAnswer(n) => WrittenAnswer(n)'
      /\ ReceivedAnswer(n) => ReceivedAnswer(n)'
  BY DEF output, QueuedAnswer, WrittenAnswer, ReceivedAnswer
<1>3. QED
  BY <1>1, <1>2, AnsweringParts

LEMMA PostsOne ==
  ASSUME IInv, NEW run \in {"do_broadcast", "sendTextResponse", "respond", "do_read"},
         NEW f \in Frames, Post(run, f)
  PROVE  \E p \in Posted : strand' = Append(strand, p)
<1>1. [run |-> run, frame |-> f] \in Posted
  BY DEF Posted
<1>2. QED
  BY <1>1 DEF Post

LEMMA AnswerStep ==
  ASSUME IInv, Next, NEW n \in Requests, Answering(n), link'
  PROVE  Answering(n)'
<1>1. CASE OnAccept
  BY <1>1, KeptSendData DEF OnAccept, browser
<1>2. CASE OnRead
  BY <1>2, KeptSendData DEF OnRead
<1>3. CASE OnReadError
  BY <1>3, KeptPost DEF OnReadError, browser
<1>4. CASE OnWrite
  BY <1>4, KeptOnWrite
<1>5. CASE OnWriteError
  BY <1>5 DEF OnWriteError, browser
<1>6. CASE RunPosted
  BY <1>6, KeptRunPosted
<1>7. CASE \E m \in Requests : Handler(m)
  <2>1. PICK m \in Requests : Handler(m)
    BY <1>7
  <2>2. Text(m) \in Frames
    BY Outgoing, SessionAssumption DEF Requests
  <2>3. UNCHANGED strand \/ \E p \in Posted : strand' = Append(strand, p)
    BY <2>1, <2>2, PostsOne DEF Handler, RespondAction, RespondCommand, ReadOn, Throw
  <2>4. UNCHANGED <<output, answers>>
    BY <2>1 DEF Handler, RespondAction, RespondCommand, ReadOn, Throw, browser
  <2>5. QED
    BY <2>3, <2>4, KeptPost
<1>8. CASE \E b \in Broadcasters : Worker(b)
  <2>1. PICK b \in Broadcasters : Worker(b)
    BY <1>8
  <2>2. payload[b] \in Frames
    BY TypeParts DEF IInv, WorkersOK
  <2>3. UNCHANGED strand \/ \E p \in Posted : strand' = Append(strand, p)
    BY <2>1, <2>2, PostsOne DEF Worker, LoadAll, LoadText, GetSessions, SendBroadcast
  <2>4. UNCHANGED <<output, answers>>
    BY <2>1 DEF Worker, LoadAll, LoadText, GetSessions, SendBroadcast, browser
  <2>5. QED
    BY <2>3, <2>4, KeptPost
<1>9. CASE Change \/ Leave \/ \E kind \in RequestKinds : Send(kind)
  BY <1>9, KeptPost DEF Change, Leave, Send, browser
<1>10. QED
  BY <1>1, <1>2, <1>3, <1>4, <1>5, <1>6, <1>7, <1>8, <1>9 DEF Next, Strand

(* ws_server.hpp:526-741: of the answers that handlers post none is lost   *)
(* between the strand, write_queue_ and the wire while the connection      *)
(* works.                                                                  *)
THEOREM AnswersReach == Spec => NoAnswerLost
<1>1. IInv /\ [Next]_vars => [\A n \in Requests : Answering(n) /\ link' => Answering(n)']_vars
  BY AnswerStep
<1>2. QED
  BY <1>1, AlwaysIInv, PTL DEF Spec, NoAnswerLost
=============================================================================
