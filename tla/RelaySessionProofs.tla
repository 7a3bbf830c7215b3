------------------------- MODULE RelaySessionProofs -------------------------
(***************************************************************************)
(* Theorems about RelaySession, for any number of users, any commands, any *)
(* limits on attempts and logins, with or without late answers, exceptions *)
(* and early users.                                                        *)
(***************************************************************************)
EXTENDS RelaySession, SequenceTheorems, TLAPS

(* The parts of TypeOK, by who writes them. *)
ClientOK == /\ connected \in BOOLEAN /\ open \in BOOLEAN /\ last_io_ok \in BOOLEAN
            /\ last_response \in Seq(Answers)
Screenings == {"no", "yes", "restart"}
RelayOK == /\ alive \in BOOLEAN /\ level \in 0 .. 2 /\ asking \in {"no", "L1", "L2"}
           /\ wire \in Seq(Answers) /\ screened \in Screenings /\ upset \in BOOLEAN
FsmOK == fsm \in FsmStates /\ retry \in Nat /\ denied \in Nat
HolderOK == success \in BOOLEAN /\ response \in Seq(Answers) /\ failReason \in FailReasons
ThreadsOK == /\ pc \in [Threads -> PCs] /\ cmd \in [Threads -> Commands]
             /\ attempt \in [Threads -> 1 .. MaxRetries]
             /\ mutex \in Threads \union {Nobody}
FlagsOK == /\ screen \in BOOLEAN /\ stop \in BOOLEAN /\ queue \in Seq(Commands)
           /\ reach \in BOOLEAN /\ accept \in BOOLEAN /\ calm \in BOOLEAN

LEMMA TypeParts ==
  TypeOK <=> ClientOK /\ RelayOK /\ FsmOK /\ HolderOK /\ ThreadsOK /\ FlagsOK
BY DEF TypeOK, ClientOK, RelayOK, FsmOK, HolderOK, ThreadsOK, FlagsOK, Screenings

LEMMA TypePartsNext ==
  TypeOK' <=> ClientOK' /\ RelayOK' /\ FsmOK' /\ HolderOK' /\ ThreadsOK' /\ FlagsOK'
BY DEF TypeOK, ClientOK, RelayOK, FsmOK, HolderOK, ThreadsOK, FlagsOK, Screenings

(* What the connection machine knows of the socket: it gets to Login_L1    *)
(* only with a connection, and a response shows that the socket is open.   *)
LinkInv ==
  /\ fsm = "Connecting" /\ last_io_ok => connected
  /\ fsm \in {"Login_L1", "Operational"} => connected
  /\ fsm = "Login_L1" /\ last_response # <<>> => open
  /\ fsm = "Operational" => open

(* Who owns the mutex, and what its owner finds.  What CommandsNeedSession *)
(* says of the line SET S is here in the words of the code, as the flag    *)
(* screen_size_configured_ (screen).                                       *)
LockInv ==
  \A t \in Threads :
    /\ pc[t] \in Inside => mutex = t
    /\ pc[t] \in Sending => fsm = "Operational" /\ screen
    /\ pc[t] \in {"user", "pass"} => fsm = "Login_L1" /\ connected

IInv == TypeOK /\ LinkInv /\ LockInv /\ NeverConnLost

-----------------------------------------------------------------------------
(* The calls of TelnetClient *)

LEMMA CommandsAreLines == Commands \subseteq Lines
BY DEF Lines

(* The empty sequence, the only one with no element. *)
LEMMA EmptyOrNot == ASSUME NEW S, NEW s \in Seq(S)
                    PROVE  (s = <<>>) <=> (Len(s) = 0)
OBVIOUS

LEMMA ConnectEffect ==
  ASSUME ConnectCheck, screened' \in Screenings
  PROVE  /\ ClientOK' /\ RelayOK'
         /\ last_io_ok' => connected'
         /\ last_response' = <<>>
<1>1. <<>> \in Seq(Answers)
  OBVIOUS
<1>2. last_response' = <<>> /\ level' = 0 /\ asking' = "no" /\ wire' = <<>> /\ upset' = FALSE
  BY DEF ConnectCheck
<1>3. /\ connected' \in BOOLEAN /\ open' \in BOOLEAN
      /\ last_io_ok' \in BOOLEAN /\ alive' \in BOOLEAN
      /\ last_io_ok' => connected'
  BY Zenon DEF ConnectCheck
<1>4. ClientOK'
  BY <1>1, <1>2, <1>3 DEF ClientOK
<1>5. RelayOK'
  <2>1. wire' \in Seq(Answers) /\ level' \in 0 .. 2 /\ asking' \in {"no", "L1", "L2"}
    BY <1>1, <1>2
  <2>2. upset' \in BOOLEAN
    BY <1>2, Zenon
  <2>3. QED
    BY <1>3, <2>1, <2>2 DEF RelayOK
<1>6. QED
  BY <1>2, <1>3, <1>4, <1>5

LEMMA RelayEffect ==
  ASSUME RelayOK, NEW line, NEW says, RelayTakes(line, says)
  PROVE  level' \in 0 .. 2 /\ asking' \in {"no", "L1", "L2"}
BY DEF RelayOK, RelayTakes

LEMMA SendEffect ==
  ASSUME ClientOK, RelayOK, NEW line \in Lines, Send(line)
  PROVE  /\ ClientOK' /\ RelayOK'
         /\ connected' = connected /\ open' = open
         /\ last_response' # <<>> => open \/ last_response' = last_response
         /\ Received \in Seq(Answers)
<1>1. connected' = connected /\ open' = open
  BY DEF Send
<1>0. screened' \in Screenings /\ upset \in BOOLEAN
  BY DEF Send, RelayOK, Screenings
<1>2. CASE ~(connected /\ open)
  <2>1. last_io_ok' = FALSE /\ last_response' = last_response /\ UNCHANGED <<far, upset>>
    BY <1>2 DEF Send
  <2>2. ClientOK'
    BY <1>1, <2>1 DEF ClientOK
  <2>3. RelayOK'
    BY <1>0, <2>1 DEF RelayOK, far
  <2>4. Received = <<>>
    BY <2>1 DEF Received
  <2>5. QED
    BY <1>1, <2>1, <2>2, <2>3, <2>4
<1>3. CASE connected /\ open /\ ~alive
  <2>1. last_io_ok' = FALSE /\ last_response' = <<>> /\ UNCHANGED <<far, upset>>
    BY <1>3 DEF Send
  <2>. <<>> \in Seq(Answers)
    OBVIOUS
  <2>2. ClientOK'
    BY <1>1, <2>1 DEF ClientOK
  <2>3. RelayOK'
    BY <1>0, <2>1 DEF RelayOK, far
  <2>4. Received = <<>>
    BY <2>1 DEF Received
  <2>5. QED
    BY <1>1, <2>1, <2>2, <2>3, <2>4
<1>4. CASE connected /\ open /\ alive
  <2>1. PICK says \in Replies, n \in 0 .. Len(wire) + 1 :
          /\ RelayTakes(line, says)
          /\ last_response' = SubSeq(Append(wire, [to |-> line, says |-> says]), 1, n)
          /\ wire' = SubSeq(Append(wire, [to |-> line, says |-> says]), n + 1,
                            Len(Append(wire, [to |-> line, says |-> says])))
          /\ last_io_ok' = (n > 0)
    BY <1>4 DEF Send
  <2>2. alive' = alive /\ upset' \in BOOLEAN
    BY <1>0, <1>4, Zenon DEF Send
  <2>. DEFINE all == Append(wire, [to |-> line, says |-> says])
  <2>3. wire \in Seq(Answers) /\ Len(wire) \in Nat
    BY DEF RelayOK
  <2>4. [to |-> line, says |-> says] \in Answers
    BY DEF Answers
  <2>5. all \in Seq(Answers) /\ Len(all) = Len(wire) + 1
    BY <2>3, <2>4
  <2>. HIDE DEF all
  <2>6. SubSeq(all, 1, n) \in Seq(Answers)
    <3>1. \A i \in 1 .. n : all[i] \in Answers
      BY <2>3, <2>5
    <3>2. QED
      BY <3>1, SubSeqProperties
  <2>7. SubSeq(all, n + 1, Len(all)) \in Seq(Answers)
    <3>1. \A i \in n + 1 .. Len(all) : all[i] \in Answers
      BY <2>3, <2>5
    <3>2. n + 1 \in Int /\ Len(all) \in Int
      BY <2>3, <2>5
    <3>3. QED
      BY <3>1, <3>2, SubSeqProperties
  <2>8. last_response' \in Seq(Answers) /\ wire' \in Seq(Answers)
    BY <2>1, <2>6, <2>7 DEF all
  <2>9. level' \in 0 .. 2 /\ asking' \in {"no", "L1", "L2"}
    BY <2>1, RelayEffect
  <2>10. QED
    BY <1>0, <1>1, <1>4, <2>1, <2>2, <2>8, <2>9 DEF ClientOK, RelayOK, Received
<1>5. QED
  BY <1>2, <1>3, <1>4 DEF ClientOK, RelayOK

(* Sending keeps the machine's state and what it knows of the socket. *)
LEMMA SendKeepsLink ==
  ASSUME TypeOK, LinkInv, NEW line \in Lines, Send(line), fsm' = fsm,
         fsm \in {"Login_L1", "Operational"}
  PROVE  ClientOK' /\ RelayOK' /\ LinkInv' /\ connected' /\ Received \in Seq(Answers)
<1>1. ClientOK /\ RelayOK
  BY TypeParts
<1>2. /\ ClientOK' /\ RelayOK'
      /\ connected' = connected /\ open' = open
      /\ last_response' # <<>> => open \/ last_response' = last_response
      /\ Received \in Seq(Answers)
  BY <1>1, SendEffect
<1>3. QED
  BY <1>2 DEF LinkInv

-----------------------------------------------------------------------------
(* The events of RelayConnectionFSM *)

LEMMA ConnectingEffect ==
  ASSUME FsmOK, NEW how \in Screenings, ToConnecting(how)
  PROVE  ClientOK' /\ RelayOK' /\ FsmOK' /\ LinkInv'
<1>1. fsm' = "Connecting" /\ ConnectCheck /\ screened' = how /\ UNCHANGED <<retry, denied>>
  BY DEF ToConnecting
<1>2. ClientOK' /\ RelayOK' /\ (last_io_ok' => connected')
  BY <1>1, ConnectEffect
<1>3. QED
  BY <1>1, <1>2 DEF FsmOK, FsmStates, LinkInv

LEMMA UnchangedLink ==
  ASSUME TypeOK, LinkInv, UNCHANGED <<fsm, retry, denied, client, relay>>
  PROVE  ClientOK' /\ RelayOK' /\ FsmOK' /\ LinkInv'
BY TypeParts DEF client, relay, ClientOK, RelayOK, FsmOK, LinkInv

LEMMA DisconnectEffect ==
  ASSUME TypeOK, LinkInv, NEW how \in Screenings, DisconnectEvent(how)
  PROVE  ClientOK' /\ RelayOK' /\ FsmOK' /\ LinkInv'
<1>1. FsmOK
  BY TypeParts
<1>2. CASE fsm \in {"Operational", "Error"}
  BY <1>1, <1>2, ConnectingEffect DEF DisconnectEvent
<1>3. CASE fsm \notin {"Operational", "Error"}
  BY <1>3, UnchangedLink DEF DisconnectEvent
<1>4. QED
  BY <1>2, <1>3

LEMMA StartEffect ==
  ASSUME TypeOK, LinkInv, StartEvent
  PROVE  ClientOK' /\ RelayOK' /\ FsmOK' /\ LinkInv'
<1>1. FsmOK
  BY TypeParts
<1>2. CASE fsm = "Idle"
  BY <1>1, <1>2, ConnectingEffect DEF StartEvent, Screenings
<1>3. CASE fsm # "Idle"
  BY <1>3, UnchangedLink DEF StartEvent
<1>4. QED
  BY <1>2, <1>3

LEMMA StepEffect ==
  ASSUME TypeOK, LinkInv, NEW next, StepEvent(next)
  PROVE  /\ ClientOK' /\ RelayOK' /\ FsmOK' /\ LinkInv'
         /\ next = "user" => fsm' = "Login_L1" /\ connected'
         /\ next \in {"drive", "user"}
<1>1. ClientOK /\ RelayOK /\ FsmOK
  BY TypeParts
<1>2. CASE fsm \in {"ConnectWait", "LoginRetryWait"}
  <2>1. ToConnecting("no") /\ next = "drive"
    BY <1>2 DEF StepEvent
  <2>2. QED
    BY <1>1, <2>1, ConnectingEffect DEF Screenings
<1>3. CASE fsm = "Connecting" /\ last_io_ok
  BY <1>1, <1>3 DEF StepEvent, relay, ClientOK, RelayOK, FsmOK, FsmStates, LinkInv
<1>4. CASE fsm = "Connecting" /\ ~last_io_ok
  BY <1>1, <1>4 DEF StepEvent, client, relay, ClientOK, RelayOK, FsmOK, FsmStates, LinkInv
<1>5. CASE fsm = "Login_L1"
  <2>1. /\ next = "drive" /\ fsm' = LoginOutcome /\ UNCHANGED <<client, relay>>
        /\ retry' = IF fsm' \in {"Operational", "Error"} THEN 0
                    ELSE IF fsm' = "LoginRetryWait" THEN retry + 1 ELSE retry
        /\ denied' = IF fsm' \in {"Operational", "Error"} THEN 0 ELSE denied
    BY <1>5 DEF StepEvent, CountRetries
  <2>2. ClientOK' /\ RelayOK'
    BY <1>1, <2>1 DEF client, relay, ClientOK, RelayOK
  <2>3. fsm' \in {"Operational", "LoginRetryWait", "Error", "ConnectWait"}
    BY <2>1 DEF LoginOutcome
  <2>4. FsmOK'
    BY <1>1, <2>1, <2>3 DEF FsmOK, FsmStates
  <2>5. fsm' = "Operational" => last_response # <<>>
    BY <2>1 DEF LoginOutcome, HasPrompt
  <2>6. LinkInv'
    BY <1>5, <2>1, <2>3, <2>5 DEF LinkInv, client
  <2>7. QED
    BY <2>1, <2>2, <2>4, <2>6
<1>6. CASE fsm = "Idle"
  <2>1. next = "drive" /\ UNCHANGED <<fsm, retry, denied, client, relay>>
    BY <1>6 DEF StepEvent
  <2>2. QED
    BY <2>1, UnchangedLink
<1>7. QED
  BY <1>2, <1>3, <1>4, <1>5, <1>6 DEF StepEvent

-----------------------------------------------------------------------------
(* Who moves, and where to *)

LEMMA GotoEffect ==
  ASSUME ThreadsOK, NEW t \in Threads, NEW label \in PCs, Goto(t, label)
  PROVE  /\ pc' \in [Threads -> PCs]
         /\ pc'[t] = label
         /\ \A u \in Threads : u # t => pc'[u] = pc[u]
BY DEF ThreadsOK, Goto

(* A step of the thread that owns the mutex. *)
LEMMA OwnerStep ==
  ASSUME IInv, NEW t \in Threads, pc[t] \in Inside, NEW label \in PCs, Goto(t, label),
         label \in Inside => mutex' = mutex,
         label \in Sending => fsm' = "Operational" /\ screen',
         label \in {"user", "pass"} => fsm' = "Login_L1" /\ connected'
  PROVE  LockInv' /\ pc' \in [Threads -> PCs]
<1>1. ThreadsOK /\ LockInv
  BY TypeParts DEF IInv
<1>2. /\ pc' \in [Threads -> PCs] /\ pc'[t] = label
      /\ \A u \in Threads : u # t => pc'[u] = pc[u]
  BY <1>1, GotoEffect
<1>3. mutex = t
  BY <1>1 DEF LockInv
<1>4. \A u \in Threads : u # t => pc[u] \notin Inside
  BY <1>1, <1>3 DEF LockInv
<1>5. Sending \subseteq Inside /\ {"user", "pass"} \subseteq Inside
  BY DEF Sending, Inside
<1>6. QED
  BY <1>2, <1>3, <1>4, <1>5 DEF LockInv

(* A step of a thread that does not, to a place outside. *)
LEMMA OtherStep ==
  ASSUME IInv, NEW t \in Threads, NEW label \in PCs \ Inside, Goto(t, label),
         UNCHANGED <<fsm, screen, mutex, connected>>
  PROVE  LockInv' /\ pc' \in [Threads -> PCs]
<1>1. ThreadsOK /\ LockInv
  BY TypeParts DEF IInv
<1>2. /\ pc' \in [Threads -> PCs] /\ pc'[t] = label
      /\ \A u \in Threads : u # t => pc'[u] = pc[u]
  BY <1>1, GotoEffect
<1>3. Sending \subseteq Inside /\ {"user", "pass"} \subseteq Inside
  BY DEF Sending, Inside
<1>4. QED
  BY <1>1, <1>2, <1>3 DEF LockInv

(* Return() leaves the session. *)
LEMMA ReturnEffect ==
  ASSUME IInv, NEW t \in Threads, pc[t] \in Inside, Return(t)
  PROVE  /\ LockInv' /\ pc' \in [Threads -> PCs]
         /\ mutex' \in Threads \union {Nobody}
<1>1. PICK label \in {"wait", "idle"} : Goto(t, label)
  BY DEF Return
<1>2. label \in PCs /\ label \notin Inside /\ label \notin Sending /\ label \notin {"user", "pass"}
  BY <1>1 DEF PCs, Inside, Sending
<1>3. QED
  BY <1>1, <1>2, OwnerStep DEF Return

LEMMA Labels ==
  /\ Inside \subseteq PCs
  /\ {"wait", "idle", "lock", "backoff", "restart", "exit"} \subseteq PCs \ Inside
BY DEF PCs, Inside

-----------------------------------------------------------------------------
(* The steps of a thread inside the session *)

LEMMA AttemptStep ==
  ASSUME IInv, NEW t \in Threads, Attempt(t)
  PROVE  IInv'
<1>0. /\ pc[t] = "attempt"
      /\ \/ Return(t)
         \/ Goto(t, "drive") /\ mutex' = mutex
      /\ UNCHANGED <<fsm, retry, denied, client, screen, holder, queue, stop, cmd, attempt,
                     relay, faults>>
  BY DEF Attempt
<1>1. pc[t] \in Inside
  BY <1>0 DEF Inside
<1>2. ClientOK' /\ RelayOK' /\ FsmOK' /\ LinkInv'
  BY <1>0, UnchangedLink DEF IInv
<1>3. LockInv' /\ pc' \in [Threads -> PCs] /\ mutex' \in Threads \union {Nobody}
  <2>1. CASE Return(t)
    BY <1>1, <2>1, ReturnEffect
  <2>2. CASE Goto(t, "drive") /\ mutex' = mutex
    <3>1. "drive" \in PCs /\ "drive" \notin Sending /\ "drive" \notin {"user", "pass"}
      BY DEF PCs, Inside, Sending
    <3>2. mutex \in Threads \union {Nobody}
      BY DEF IInv, TypeOK
    <3>3. QED
      BY <1>1, <2>2, <3>1, <3>2, OwnerStep
  <2>3. QED
    BY <1>0, <2>1, <2>2
<1>4. HolderOK' /\ ThreadsOK' /\ FlagsOK' /\ NeverConnLost'
  BY <1>0, <1>3, TypeParts
  DEF IInv, HolderOK, ThreadsOK, FlagsOK, NeverConnLost, holder, faults
<1>5. QED
  BY <1>2, <1>3, <1>4, TypePartsNext DEF IInv

(* A step that is one call of SendCmdReceiveData(). *)
LEMMA SendStep ==
  ASSUME IInv, NEW t \in Threads, pc[t] \in Inside, NEW line \in Lines, Send(line),
         fsm' = fsm, fsm \in {"Login_L1", "Operational"},
         NEW label \in PCs, Goto(t, label), mutex' = mutex,
         label \in Sending => fsm = "Operational" /\ screen',
         label \in {"user", "pass"} => fsm = "Login_L1",
         screen' \in BOOLEAN, denied' \in Nat, HolderOK', NeverConnLost',
         UNCHANGED <<retry, queue, stop, cmd, attempt, faults>>
  PROVE  IInv'
<1>1. ClientOK' /\ RelayOK' /\ LinkInv' /\ connected'
  BY SendKeepsLink DEF IInv
<1>2. LockInv' /\ pc' \in [Threads -> PCs]
  BY <1>1, OwnerStep
<1>3. FsmOK' /\ ThreadsOK' /\ FlagsOK'
  BY <1>2, TypeParts DEF IInv, FsmOK, ThreadsOK, FlagsOK, faults
<1>4. QED
  BY <1>1, <1>2, <1>3, TypePartsNext DEF IInv

LEMMA SendUserStep ==
  ASSUME IInv, NEW t \in Threads, SendUser(t)
  PROVE  IInv'
<1>0. /\ pc[t] = "user" /\ Send("user")
      /\ Goto(t, IF last_io_ok' THEN "pass" ELSE "drive")
      /\ UNCHANGED <<fsm, retry, denied, screen, holder, queue, mutex, stop, cmd, attempt, faults>>
  BY DEF SendUser
<1>1. fsm = "Login_L1" /\ pc[t] \in Inside /\ "user" \in Lines
  BY <1>0 DEF IInv, LockInv, Inside, Lines
<1>2. PICK label \in {"pass", "drive"} : Goto(t, label)
  BY <1>0
<1>3. label \in PCs /\ label \notin Sending
  BY <1>2 DEF PCs, Inside, Sending
<1>4. HolderOK' /\ NeverConnLost' /\ screen' \in BOOLEAN /\ denied' \in Nat
  BY <1>0 DEF IInv, TypeOK, HolderOK, NeverConnLost, holder
<1>5. QED
  BY <1>0, <1>1, <1>2, <1>3, <1>4, SendStep

LEMMA SendPassStep ==
  ASSUME IInv, NEW t \in Threads, SendPass(t)
  PROVE  IInv'
<1>0. /\ pc[t] = "pass" /\ Send("pass") /\ Goto(t, "drive")
      /\ denied' = IF connected /\ open /\ alive /\ level' = 0 /\ denied < LoginRetries + 2
                   THEN denied + 1 ELSE denied
      /\ UNCHANGED <<fsm, retry, screen, holder, queue, mutex, stop, cmd, attempt, faults>>
  BY DEF SendPass
<1>1. fsm = "Login_L1" /\ pc[t] \in Inside /\ "pass" \in Lines
  BY <1>0 DEF IInv, LockInv, Inside, Lines
<1>2. "drive" \in PCs /\ "drive" \notin Sending
  BY DEF PCs, Inside, Sending
<1>3. HolderOK' /\ NeverConnLost' /\ screen' \in BOOLEAN
  BY <1>0 DEF IInv, TypeOK, HolderOK, NeverConnLost, holder
<1>4. denied' \in Nat
  BY <1>0 DEF IInv, TypeOK
<1>5. QED
  BY <1>0, <1>1, <1>2, <1>3, <1>4, SendStep

LEMMA FireStep ==
  ASSUME IInv, NEW t \in Threads, Fire(t)
  PROVE  IInv'
<1>0. /\ pc[t] = "fire"
      /\ UNCHANGED <<fsm, retry, denied, screen, queue, mutex, stop, cmd, attempt, faults>>
  BY DEF Fire
<1>1. fsm = "Operational" /\ screen /\ pc[t] \in Inside
  BY <1>0 DEF IInv, LockInv, Inside, Sending
<1>2. screen' \in BOOLEAN /\ denied' \in Nat /\ screen'
  BY <1>0, <1>1 DEF IInv, TypeOK
<1>3. CASE /\ cmd[t] \in FsmCommands \union RawCommands
           /\ Send(cmd[t]) /\ success' = last_io_ok' /\ response' = Received
           /\ failReason' = IF cmd[t] \in FsmCommands THEN CmdFailure ELSE failReason
           /\ Goto(t, "decide")
  <2>1. cmd[t] \in Lines
    BY <1>3 DEF Lines, Commands
  <2>2. ClientOK' /\ connected' /\ Received \in Seq(Answers)
    BY <1>0, <1>1, <1>3, <2>1, SendKeepsLink DEF IInv
  <2>3. success' \in BOOLEAN /\ response' \in Seq(Answers)
    BY <1>3, <2>2 DEF ClientOK
  <2>4. failReason' \in FailReasons /\ failReason' # "CONN_LOST"
    BY <1>3, <2>2 DEF IInv, TypeOK, NeverConnLost, FailReasons, CmdFailure
  <2>5. HolderOK' /\ NeverConnLost'
    BY <2>3, <2>4 DEF HolderOK, NeverConnLost
  <2>6. "decide" \in PCs /\ "decide" \notin {"user", "pass"}
    BY DEF PCs, Inside
  <2>7. QED
    BY <1>0, <1>1, <1>2, <1>3, <2>1, <2>5, <2>6, SendStep
<1>4. CASE /\ cmd[t] \in L2Commands /\ Send("2ac")
           /\ success' = FALSE /\ response' = <<>> /\ UNCHANGED failReason
           /\ Goto(t, IF last_io_ok' THEN "l2pass" ELSE "decide")
  <2>1. "2ac" \in Lines
    BY DEF Lines
  <2>. <<>> \in Seq(Answers)
    OBVIOUS
  <2>2. HolderOK' /\ NeverConnLost'
    BY <1>4 DEF IInv, TypeOK, HolderOK, NeverConnLost
  <2>3. PICK label \in {"l2pass", "decide"} : Goto(t, label)
    BY <1>4
  <2>4. label \in PCs /\ label \notin {"user", "pass"}
    BY <2>3 DEF PCs, Inside
  <2>5. QED
    BY <1>0, <1>1, <1>2, <1>4, <2>1, <2>2, <2>3, <2>4, SendStep
<1>5. QED
  BY <1>3, <1>4 DEF Fire

LEMMA SendL2PassStep ==
  ASSUME IInv, NEW t \in Threads, SendL2Pass(t)
  PROVE  IInv'
<1>0. /\ pc[t] = "l2pass" /\ Send("l2pass")
      /\ Goto(t, IF Elevated THEN "l2cmd" ELSE "decide")
      /\ UNCHANGED <<fsm, retry, denied, screen, holder, queue, mutex, stop, cmd, attempt, faults>>
  BY DEF SendL2Pass
<1>1. /\ fsm = "Operational" /\ screen /\ pc[t] \in Inside /\ "l2pass" \in Lines
  BY <1>0 DEF IInv, LockInv, Inside, Sending, Lines
<1>2. PICK label \in {"l2cmd", "decide"} : Goto(t, label)
  BY <1>0
<1>3. label \in PCs /\ label \notin {"user", "pass"}
  BY <1>2 DEF PCs, Inside
<1>4. HolderOK' /\ NeverConnLost' /\ screen' \in BOOLEAN /\ screen' /\ denied' \in Nat
  BY <1>0, <1>1 DEF IInv, TypeOK, HolderOK, NeverConnLost, holder
<1>5. QED
  BY <1>0, <1>1, <1>2, <1>3, <1>4, SendStep

LEMMA SendL2CommandStep ==
  ASSUME IInv, NEW t \in Threads, SendL2Command(t)
  PROVE  IInv'
<1>0. /\ pc[t] = "l2cmd" /\ Send(cmd[t])
      /\ success' = (last_io_ok' /\ ~Has(Received, {"bad", "badask"}))
      /\ response' = Received
      /\ Goto(t, "acc")
      /\ UNCHANGED <<fsm, retry, denied, screen, failReason, queue, mutex, stop, cmd, attempt, faults>>
  BY DEF SendL2Command
<1>1. /\ fsm = "Operational" /\ screen /\ pc[t] \in Inside
  BY <1>0 DEF IInv, LockInv, Inside, Sending
<1>2. cmd[t] \in Lines
  BY DEF IInv, TypeOK, Lines
<1>3. Received \in Seq(Answers)
  BY <1>0, <1>1, <1>2, SendKeepsLink DEF IInv
<1>4. success' \in BOOLEAN
  BY <1>0
<1>5. HolderOK' /\ NeverConnLost'
  BY <1>0, <1>3, <1>4 DEF IInv, TypeOK, HolderOK, NeverConnLost
<1>6. screen' \in BOOLEAN /\ screen' /\ denied' \in Nat
  BY <1>0, <1>1 DEF IInv, TypeOK
<1>7. "acc" \in PCs /\ "acc" \notin {"user", "pass"}
  BY DEF PCs, Inside
<1>8. QED
  BY <1>0, <1>1, <1>2, <1>5, <1>6, <1>7, SendStep

LEMMA SendAccStep ==
  ASSUME IInv, NEW t \in Threads, SendAcc(t)
  PROVE  IInv'
<1>0. /\ pc[t] = "acc" /\ Send("acc") /\ Goto(t, "decide")
      /\ UNCHANGED <<fsm, retry, denied, screen, holder, queue, mutex, stop, cmd, attempt, faults>>
  BY DEF SendAcc
<1>1. /\ fsm = "Operational" /\ screen /\ pc[t] \in Inside /\ "acc" \in Lines
  BY <1>0 DEF IInv, LockInv, Inside, Sending, Lines
<1>2. "decide" \in PCs /\ "decide" \notin {"user", "pass"}
  BY DEF PCs, Inside
<1>3. HolderOK' /\ NeverConnLost' /\ screen' \in BOOLEAN /\ screen' /\ denied' \in Nat
  BY <1>0, <1>1 DEF IInv, TypeOK, HolderOK, NeverConnLost, holder
<1>4. QED
  BY <1>0, <1>1, <1>2, <1>3, SendStep

(* A step of the connection machine that sends nothing. *)
LEMMA MachineStep ==
  ASSUME IInv, NEW t \in Threads, pc[t] \in Inside,
         ClientOK', RelayOK', FsmOK', LinkInv',
         LockInv', pc' \in [Threads -> PCs],
         mutex' \in Threads \union {Nobody},
         screen' \in BOOLEAN,
         UNCHANGED <<holder, queue, stop, cmd, attempt, faults>>
  PROVE  IInv'
<1>1. HolderOK' /\ ThreadsOK' /\ FlagsOK' /\ NeverConnLost'
  BY TypeParts DEF IInv, HolderOK, ThreadsOK, FlagsOK, NeverConnLost, holder, faults
<1>2. QED
  BY <1>1, TypePartsNext DEF IInv

LEMMA DriveStep ==
  ASSUME IInv, NEW t \in Threads, Drive(t)
  PROVE  IInv'
<1>0. /\ pc[t] = "drive" /\ pc[t] \in Inside
      /\ UNCHANGED <<holder, queue, stop, cmd, attempt, faults>>
  BY DEF Drive, Inside
<1>1. /\ mutex \in Threads \union {Nobody} /\ screen \in BOOLEAN
      /\ TypeOK /\ LinkInv
  BY DEF IInv, TypeOK
<1>2. CASE Return(t) /\ UNCHANGED <<fsm, retry, denied, client, screen, relay>>
  <2>1. /\ LockInv' /\ pc' \in [Threads -> PCs]
        /\ mutex' \in Threads \union {Nobody}
    BY <1>0, <1>2, ReturnEffect
  <2>2. ClientOK' /\ RelayOK' /\ FsmOK' /\ LinkInv'
    BY <1>1, <1>2, UnchangedLink
  <2>3. QED
    BY <1>0, <1>1, <1>2, <2>1, <2>2, MachineStep
<1>3. CASE /\ fsm = "Operational" /\ screen /\ Goto(t, "fire")
           /\ UNCHANGED <<fsm, retry, denied, client, screen, mutex, relay>>
  <2>1. "fire" \in PCs /\ "fire" \notin {"user", "pass"}
    BY DEF PCs, Inside
  <2>2. LockInv' /\ pc' \in [Threads -> PCs]
    BY <1>0, <1>3, <2>1, OwnerStep
  <2>3. ClientOK' /\ RelayOK' /\ FsmOK' /\ LinkInv'
    BY <1>1, <1>3, UnchangedLink
  <2>4. QED
    BY <1>0, <1>1, <1>3, <2>2, <2>3, MachineStep
<1>4. CASE /\ fsm = "Operational" /\ Send("screen") /\ screen' = TRUE /\ Goto(t, "fire")
           /\ UNCHANGED <<fsm, retry, denied, mutex>>
  <2>1. "fire" \in PCs /\ "fire" \notin {"user", "pass"} /\ "screen" \in Lines
    BY DEF PCs, Inside, Lines
  <2>2. HolderOK' /\ NeverConnLost' /\ screen' \in BOOLEAN /\ screen' /\ denied' \in Nat
    BY <1>0, <1>4 DEF IInv, TypeOK, HolderOK, NeverConnLost, holder
  <2>3. QED
    BY <1>0, <1>4, <2>1, <2>2, SendStep
<1>5. CASE /\ screen' = FALSE /\ Goto(t, "nap")
           /\ UNCHANGED <<fsm, retry, denied, client, mutex, relay>>
  <2>1. "nap" \in PCs /\ "nap" \notin Sending /\ "nap" \notin {"user", "pass"}
    BY DEF PCs, Inside, Sending
  <2>2. LockInv' /\ pc' \in [Threads -> PCs]
    BY <1>0, <1>5, <2>1, OwnerStep
  <2>3. ClientOK' /\ RelayOK' /\ FsmOK' /\ LinkInv'
    BY <1>1, <1>5, UnchangedLink
  <2>4. QED
    BY <1>0, <1>1, <1>5, <2>2, <2>3, MachineStep
<1>6. CASE /\ \E next \in {"drive", "user"} : StepEvent(next) /\ Goto(t, next)
           /\ UNCHANGED <<screen, mutex>>
  <2>1. PICK next \in {"drive", "user"} : StepEvent(next) /\ Goto(t, next)
    BY <1>6
  <2>2. /\ ClientOK' /\ RelayOK' /\ FsmOK' /\ LinkInv'
        /\ next = "user" => fsm' = "Login_L1" /\ connected'
    BY <1>1, <2>1, StepEffect
  <2>3. next \in PCs /\ next \notin Sending /\ next # "pass"
    BY <2>1 DEF PCs, Inside, Sending
  <2>4. LockInv' /\ pc' \in [Threads -> PCs]
    BY <1>0, <1>6, <2>1, <2>2, <2>3, OwnerStep
  <2>5. QED
    BY <1>0, <1>1, <1>6, <2>2, <2>4, MachineStep
<1>7. QED
  BY <1>2, <1>3, <1>4, <1>5, <1>6 DEF Drive, BeforeNap

LEMMA NapStep ==
  ASSUME IInv, NEW t \in Threads, Nap(t)
  PROVE  IInv'
<1>0. /\ pc[t] = "nap" /\ pc[t] \in Inside
      /\ UNCHANGED <<screen, holder, queue, stop, cmd, attempt, faults>>
  BY DEF Nap, Inside
<1>1. /\ mutex \in Threads \union {Nobody} /\ screen \in BOOLEAN
      /\ TypeOK /\ LinkInv
  BY DEF IInv, TypeOK
<1>2. CASE Return(t) /\ UNCHANGED <<fsm, retry, denied, client, relay>>
  <2>1. /\ LockInv' /\ pc' \in [Threads -> PCs]
        /\ mutex' \in Threads \union {Nobody}
    BY <1>0, <1>2, ReturnEffect
  <2>2. ClientOK' /\ RelayOK' /\ FsmOK' /\ LinkInv'
    BY <1>1, <1>2, UnchangedLink
  <2>3. QED
    BY <1>0, <1>1, <2>1, <2>2, MachineStep
<1>3. CASE /\ Goto(t, "drive") /\ UNCHANGED mutex
           /\ DisconnectEvent("no") \/ StepEvent("drive")
  <2>1. ClientOK' /\ RelayOK' /\ FsmOK' /\ LinkInv'
    BY <1>1, <1>3, DisconnectEffect, StepEffect DEF Screenings
  <2>2. "drive" \in PCs /\ "drive" \notin Sending /\ "drive" \notin {"user", "pass"}
    BY DEF PCs, Inside, Sending
  <2>3. LockInv' /\ pc' \in [Threads -> PCs]
    BY <1>0, <1>3, <2>2, OwnerStep
  <2>4. QED
    BY <1>0, <1>1, <1>3, <2>1, <2>3, MachineStep
<1>4. QED
  BY <1>2, <1>3 DEF Nap

LEMMA DecideStep ==
  ASSUME IInv, NEW t \in Threads, Decide(t)
  PROVE  IInv'
<1>0. /\ pc[t] = "decide" /\ pc[t] \in Inside
      /\ UNCHANGED <<fsm, retry, denied, client, screen, relay>>
      /\ UNCHANGED <<holder, queue, stop, cmd, faults>>
  BY DEF Decide, Inside, IInv, NeverConnLost
<1>1. /\ mutex \in Threads \union {Nobody} /\ screen \in BOOLEAN
      /\ TypeOK /\ LinkInv
  BY DEF IInv, TypeOK
<1>2. ClientOK' /\ RelayOK' /\ FsmOK' /\ LinkInv'
  BY <1>0, <1>1, UnchangedLink
<1>3. CASE /\ attempt[t] < MaxRetries
           /\ attempt' = [attempt EXCEPT ![t] = @ + 1]
           /\ Goto(t, "attempt") /\ UNCHANGED mutex
  <2>1. "attempt" \in PCs /\ "attempt" \notin Sending /\ "attempt" \notin {"user", "pass"}
    BY DEF PCs, Inside, Sending
  <2>2. LockInv' /\ pc' \in [Threads -> PCs]
    BY <1>0, <1>3, <2>1, OwnerStep
  <2>3. attempt' \in [Threads -> 1 .. MaxRetries]
    <3>1. attempt \in [Threads -> 1 .. MaxRetries] /\ MaxRetries \in Nat
      BY SessionAssumption DEF IInv, TypeOK
    <3>2. attempt[t] + 1 \in 1 .. MaxRetries
      BY <1>3, <3>1
    <3>3. QED
      BY <1>3, <3>1, <3>2
  <2>4. HolderOK' /\ ThreadsOK' /\ FlagsOK' /\ NeverConnLost'
    BY <1>0, <1>3, <2>2, <2>3, TypeParts
    DEF IInv, HolderOK, ThreadsOK, FlagsOK, NeverConnLost, holder, faults
  <2>5. QED
    BY <1>2, <2>2, <2>4, TypePartsNext DEF IInv
<1>4. CASE Return(t) /\ UNCHANGED attempt
  <2>1. /\ LockInv' /\ pc' \in [Threads -> PCs]
        /\ mutex' \in Threads \union {Nobody}
    BY <1>0, <1>4, ReturnEffect
  <2>2. QED
    BY <1>0, <1>1, <1>2, <1>4, <2>1, MachineStep
<1>5. QED
  BY <1>3, <1>4 DEF Decide

LEMMA ThrowStep ==
  ASSUME IInv, NEW t \in Threads, Throw(t)
  PROVE  IInv'
<1>0. /\ pc[t] \in Inside /\ mutex' = Nobody
      /\ Goto(t, IF t = Rx THEN "backoff" ELSE "idle")
      /\ upset' = (upset \/ pc[t] \in {"l2cmd", "acc"})
      /\ UNCHANGED <<fsm, retry, denied, client, screen, holder, queue, stop, cmd, attempt,
                     far, screened, faults>>
  BY DEF Throw
<1>1. PICK label \in {"backoff", "idle"} : Goto(t, label)
  BY <1>0
<1>2. label \in PCs /\ label \notin Inside /\ label \notin Sending /\ label \notin {"user", "pass"}
  BY <1>1 DEF PCs, Inside, Sending
<1>3. LockInv' /\ pc' \in [Threads -> PCs]
  BY <1>0, <1>1, <1>2, OwnerStep
<1>4. ClientOK' /\ RelayOK' /\ FsmOK' /\ LinkInv'
  <2>1. upset' \in BOOLEAN
    BY <1>0, Zenon DEF IInv, TypeOK
  <2>2. QED
    BY <1>0, <2>1, TypeParts DEF IInv, client, far, ClientOK, RelayOK, FsmOK, LinkInv
<1>5. screen' \in BOOLEAN /\ mutex' \in Threads \union {Nobody}
  BY <1>0 DEF IInv, TypeOK
<1>6. QED
  BY <1>0, <1>3, <1>4, <1>5, MachineStep

-----------------------------------------------------------------------------
(* The steps outside the session *)

(* A step that leaves the machine, the client and the mutex alone. *)
LEMMA QuietStep ==
  ASSUME IInv, UNCHANGED <<fsm, retry, denied, client, relay>>,
         UNCHANGED <<screen, holder>>,
         ThreadsOK', LockInv', FlagsOK'
  PROVE  IInv'
<1>1. ClientOK' /\ RelayOK' /\ FsmOK' /\ LinkInv'
  BY UnchangedLink DEF IInv
<1>2. HolderOK' /\ NeverConnLost'
  BY TypeParts DEF IInv, HolderOK, NeverConnLost, holder
<1>3. QED
  BY <1>1, <1>2, TypePartsNext DEF IInv

LEMMA LockStep ==
  ASSUME IInv, NEW t \in Threads, Lock(t)
  PROVE  IInv'
<1>0. /\ pc[t] = "lock" /\ mutex = Nobody /\ mutex' = t
      /\ attempt' = [attempt EXCEPT ![t] = 1]
      /\ Goto(t, "attempt")
      /\ UNCHANGED <<fsm, retry, denied, client, screen, holder, queue, stop, cmd, relay, faults>>
  BY DEF Lock
<1>1. ThreadsOK /\ LockInv /\ FlagsOK
  BY TypeParts DEF IInv
<1>2. "attempt" \in PCs /\ "attempt" \notin Sending /\ "attempt" \notin {"user", "pass"}
  BY DEF PCs, Inside, Sending
<1>3. /\ pc' \in [Threads -> PCs] /\ pc'[t] = "attempt"
      /\ \A u \in Threads : u # t => pc'[u] = pc[u]
  BY <1>0, <1>1, <1>2, GotoEffect
<1>4. \A u \in Threads : pc[u] \notin Inside
  BY <1>0, <1>1, SessionAssumption DEF LockInv, Threads
<1>5. Sending \subseteq Inside /\ {"user", "pass"} \subseteq Inside
  BY DEF Sending, Inside
<1>6. LockInv'
  BY <1>0, <1>2, <1>3, <1>4, <1>5 DEF LockInv
<1>7. ThreadsOK'
  BY <1>0, <1>1, <1>3, SessionAssumption DEF ThreadsOK
<1>8. FlagsOK'
  BY <1>0, <1>1 DEF FlagsOK, faults
<1>9. QED
  BY <1>0, <1>6, <1>7, <1>8, QuietStep

LEMMA KickStep ==
  ASSUME IInv, Kick
  PROVE  IInv'
<1>0. /\ mutex = Nobody
      /\ StartEvent \/ DisconnectEvent("restart")
      /\ Goto(Rx, "wait")
      /\ UNCHANGED <<screen, holder, queue, mutex, stop, cmd, attempt, faults>>
  BY DEF Kick
<1>1. ThreadsOK /\ LockInv /\ FlagsOK /\ TypeOK /\ LinkInv
  BY TypeParts DEF IInv
<1>2. ClientOK' /\ RelayOK' /\ FsmOK' /\ LinkInv'
  BY <1>0, <1>1, StartEffect, DisconnectEffect DEF Screenings
<1>3. Rx \in Threads /\ "wait" \in PCs /\ "wait" \notin Inside
  BY DEF Threads, PCs, Inside
<1>4. /\ pc' \in [Threads -> PCs] /\ pc'[Rx] = "wait"
      /\ \A u \in Threads : u # Rx => pc'[u] = pc[u]
  BY <1>0, <1>1, <1>3, GotoEffect
<1>5. \A u \in Threads : pc[u] \notin Inside
  BY <1>0, <1>1, SessionAssumption DEF LockInv, Threads
<1>6. Sending \subseteq Inside /\ {"user", "pass"} \subseteq Inside
  BY DEF Sending, Inside
<1>7. LockInv'
  BY <1>3, <1>4, <1>5, <1>6 DEF LockInv
<1>8. HolderOK' /\ ThreadsOK' /\ FlagsOK' /\ NeverConnLost'
  BY <1>0, <1>1, <1>4, TypeParts
  DEF IInv, HolderOK, ThreadsOK, FlagsOK, NeverConnLost, holder, faults
<1>9. QED
  BY <1>2, <1>7, <1>8, TypePartsNext DEF IInv

LEMMA RestStep ==
  ASSUME IInv, Backoff \/ Exit
  PROVE  IInv'
<1>1. PICK label \in {"exit", "restart"} : Goto(Rx, label)
  BY DEF Backoff, Exit
<1>2. UNCHANGED <<fsm, retry, denied, client, screen, holder, queue, cmd, attempt, mutex,
                  stop, relay, faults>>
  BY DEF Backoff, Exit
<1>3. Rx \in Threads /\ label \in PCs \ Inside
  BY <1>1, Labels DEF Threads
<1>4. LockInv' /\ pc' \in [Threads -> PCs]
  BY <1>1, <1>2, <1>3, OtherStep DEF client
<1>5. ThreadsOK' /\ FlagsOK'
  BY <1>2, <1>4, TypeParts DEF IInv, ThreadsOK, FlagsOK, faults
<1>6. QED
  BY <1>2, <1>4, <1>5, QuietStep

LEMMA TakeStep ==
  ASSUME IInv, Take
  PROVE  IInv'
<1>0. /\ queue # <<>> /\ cmd' = [cmd EXCEPT ![Rx] = Head(queue)] /\ queue' = Tail(queue)
      /\ Goto(Rx, "lock")
      /\ UNCHANGED <<fsm, retry, denied, client, screen, holder, attempt, mutex, stop, relay, faults>>
  BY DEF Take
<1>1. ThreadsOK /\ FlagsOK
  BY TypeParts DEF IInv
<1>2. Rx \in Threads /\ "lock" \in PCs \ Inside
  BY Labels DEF Threads
<1>3. LockInv' /\ pc' \in [Threads -> PCs]
  BY <1>0, <1>2, OtherStep DEF client
<1>4. Head(queue) \in Commands /\ Tail(queue) \in Seq(Commands)
  BY <1>0, <1>1 DEF FlagsOK
<1>5. ThreadsOK'
  BY <1>0, <1>1, <1>3, <1>4 DEF ThreadsOK
<1>6. FlagsOK'
  BY <1>0, <1>1, <1>4 DEF FlagsOK, faults
<1>7. QED
  BY <1>0, <1>3, <1>5, <1>6, QuietStep

LEMMA CallStep ==
  ASSUME IInv, NEW u \in Users, NEW c \in Commands, Call(u, c)
  PROVE  IInv'
<1>0. /\ cmd' = [cmd EXCEPT ![u] = c] /\ Goto(u, "lock")
      /\ UNCHANGED <<fsm, retry, denied, client, screen, holder, queue, attempt, mutex, stop,
                     relay, faults>>
  BY DEF Call
<1>1. ThreadsOK /\ FlagsOK
  BY TypeParts DEF IInv
<1>2. u \in Threads /\ "lock" \in PCs \ Inside
  BY Labels DEF Threads
<1>3. LockInv' /\ pc' \in [Threads -> PCs]
  BY <1>0, <1>2, OtherStep DEF client
<1>4. ThreadsOK' /\ FlagsOK'
  BY <1>0, <1>1, <1>3 DEF ThreadsOK, FlagsOK, faults
<1>5. QED
  BY <1>0, <1>3, <1>4, QuietStep

(* Steps that move no thread: callers that queue or stop, and the relay. *)
LEMMA StillStep ==
  ASSUME IInv, (\E c \in Commands : QueueCommand(c)) \/ Stop \/ Environment
  PROVE  IInv'
<1>1. /\ UNCHANGED <<fsm, retry, denied, client, screen, holder, threads>>
      /\ stop' \in BOOLEAN /\ reach' \in BOOLEAN /\ accept' \in BOOLEAN /\ calm' \in BOOLEAN
      /\ queue' \in Seq(Commands)
  <2>1. FlagsOK
    BY TypeParts DEF IInv
  <2>2. ASSUME NEW c \in Commands, QueueCommand(c)
        PROVE  /\ UNCHANGED <<fsm, retry, denied, client, screen, holder, threads>>
               /\ UNCHANGED <<stop, faults>> /\ queue' \in Seq(Commands)
    BY <2>1, <2>2 DEF QueueCommand, FlagsOK
  <2>3. CASE Stop \/ LinkDown
    BY <2>1, <2>3 DEF Stop, LinkDown, FlagsOK, faults
  <2>4. CASE Change \/ Settle
    <3>1. reach' \in BOOLEAN /\ accept' \in BOOLEAN /\ calm' \in BOOLEAN
      BY <2>1, <2>4, Zenon DEF Change, Settle, FlagsOK
    <3>2. UNCHANGED <<fsm, retry, denied, client, screen, holder, queue, threads, stop>>
      BY <2>4 DEF Change, Settle
    <3>3. QED
      BY <2>1, <3>1, <3>2 DEF FlagsOK
  <2>5. QED
    BY <2>1, <2>2, <2>3, <2>4 DEF Environment, FlagsOK, faults
<1>2. RelayOK'
  <2>. <<>> \in Seq(Answers)
    OBVIOUS
  <2>1. \/ UNCHANGED relay
        \/ /\ alive' = FALSE /\ level' = 0 /\ asking' = "no" /\ wire' = <<>>
           /\ UNCHANGED <<screened, upset>>
    BY DEF QueueCommand, Stop, Environment, LinkDown, Change, Settle
  <2>2. CASE UNCHANGED relay
    BY <2>2, TypeParts DEF IInv, RelayOK, relay
  <2>3. CASE /\ alive' = FALSE /\ level' = 0 /\ asking' = "no" /\ wire' = <<>>
             /\ UNCHANGED <<screened, upset>>
    <3>1. wire' \in Seq(Answers)
      BY <2>3
    <3>2. alive' \in BOOLEAN
      BY <2>3
    <3>3. level' \in 0 .. 2 /\ asking' \in {"no", "L1", "L2"}
      BY <2>3
    <3>4. screened' \in Screenings /\ upset' \in BOOLEAN
      BY <2>3, TypeParts DEF IInv, RelayOK
    <3>5. QED
      BY <3>1, <3>2, <3>3, <3>4 DEF RelayOK
  <2>4. QED
    BY <2>1, <2>2, <2>3
<1>3. ClientOK' /\ FsmOK' /\ LinkInv'
  BY <1>1, TypeParts DEF IInv, ClientOK, FsmOK, LinkInv, client
<1>4. HolderOK' /\ NeverConnLost'
  BY <1>1, TypeParts DEF IInv, HolderOK, NeverConnLost, holder
<1>5. ThreadsOK' /\ LockInv'
  BY <1>1, TypeParts DEF IInv, ThreadsOK, LockInv, threads, client
<1>6. FlagsOK'
  BY <1>1 DEF IInv, TypeOK, FlagsOK
<1>7. QED
  BY <1>2, <1>3, <1>4, <1>5, <1>6, TypePartsNext DEF IInv

-----------------------------------------------------------------------------
LEMMA InitIInv == Init => IInv
<1>1. SUFFICES ASSUME Init PROVE IInv
  OBVIOUS
<1>2. <<>> \in Seq(Answers) /\ <<>> \in Seq(Commands) /\ 1 \in 1 .. MaxRetries
  BY SessionAssumption
<1>3. /\ ClientOK /\ RelayOK /\ FsmOK /\ HolderOK /\ FlagsOK
  <2>1. ClientOK
    BY <1>1, <1>2 DEF Init, ClientOK
  <2>2. RelayOK
    <3>1. alive = FALSE /\ level = 0 /\ asking = "no" /\ wire = <<>>
      BY <1>1 DEF Init
    <3>2. wire \in Seq(Answers)
      BY <1>2, <3>1
    <3>3. alive \in BOOLEAN
      BY <3>1
    <3>4. level \in 0 .. 2 /\ asking \in {"no", "L1", "L2"}
      BY <3>1
    <3>5. screened \in Screenings /\ upset \in BOOLEAN
      BY <1>1 DEF Init, Screenings
    <3>6. QED
      BY <3>2, <3>3, <3>4, <3>5 DEF RelayOK
  <2>3. FsmOK
    BY <1>1 DEF Init, FsmOK, FsmStates
  <2>4. HolderOK
    BY <1>1, <1>2 DEF Init, HolderOK, FailReasons
  <2>5. reach \in BOOLEAN /\ accept \in BOOLEAN /\ calm = FALSE
    BY <1>1, Zenon DEF Init
  <2>6. screen = FALSE /\ stop = FALSE /\ queue = <<>>
    BY <1>1 DEF Init
  <2>7. FlagsOK
    BY <1>2, <2>5, <2>6 DEF FlagsOK
  <2>8. QED
    BY <2>1, <2>2, <2>3, <2>4, <2>7
<1>4. /\ pc \in [Threads -> PCs]
      /\ \A t \in Threads : pc[t] \in {"start", "idle"}
  BY <1>1 DEF Init, PCs
<1>5. ThreadsOK
  BY <1>1, <1>2, <1>4 DEF Init, ThreadsOK
<1>6. LinkInv /\ NeverConnLost
  BY <1>1 DEF Init, LinkInv, NeverConnLost
<1>7. LockInv
  BY <1>4 DEF LockInv, Inside, Sending
<1>8. QED
  BY <1>3, <1>5, <1>6, <1>7, TypeParts DEF IInv

(* IInv is inductive. *)
LEMMA NextIInv == IInv /\ [Next]_vars => IInv'
<1>1. SUFFICES ASSUME IInv, [Next]_vars PROVE IInv'
  OBVIOUS
<1>2. ASSUME NEW t \in Threads, Session(t) PROVE IInv'
  BY <1>1, <1>2, AttemptStep, DriveStep, NapStep, SendUserStep, SendPassStep, FireStep,
     SendL2PassStep, SendL2CommandStep, SendAccStep, DecideStep DEF Session
<1>3. ASSUME NEW t \in Threads, Lock(t) \/ Throw(t) PROVE IInv'
  BY <1>1, <1>3, LockStep, ThrowStep
<1>4. CASE Kick \/ Take \/ Backoff \/ Exit
  BY <1>1, <1>4, KickStep, TakeStep, RestStep
<1>5. ASSUME NEW u \in Users, NEW c \in Commands, Call(u, c) PROVE IInv'
  BY <1>1, <1>5, CallStep
<1>6. CASE (\E c \in Commands : QueueCommand(c)) \/ Stop \/ Environment
  BY <1>1, <1>6, StillStep
<1>7. CASE UNCHANGED vars
  <2>1. UNCHANGED <<fsm, retry, denied, client, screen, holder, queue, threads, stop, relay, faults>>
    BY <1>7 DEF vars, client, holder, threads, relay, faults
  <2>2. ClientOK' /\ RelayOK' /\ FsmOK' /\ LinkInv'
    BY <1>1, <2>1, UnchangedLink DEF IInv
  <2>3. HolderOK' /\ ThreadsOK' /\ FlagsOK' /\ NeverConnLost' /\ LockInv'
    BY <1>1, <2>1, TypeParts
    DEF IInv, HolderOK, ThreadsOK, FlagsOK, NeverConnLost, LockInv,
        holder, threads, faults, client
  <2>4. QED
    BY <2>2, <2>3, TypePartsNext DEF IInv
<1>8. QED
  BY <1>1, <1>2, <1>3, <1>4, <1>5, <1>6, <1>7 DEF Next

LEMMA AlwaysIInv == Spec => []IInv
<1>1. QED
  BY InitIInv, NextIInv, PTL DEF Spec

(* Types, for every set of users and commands and every bound. *)
THEOREM SessionTypeCorrect == Spec => []TypeOK
<1>1. IInv => TypeOK
  BY DEF IInv
<1>2. QED
  BY <1>1, AlwaysIInv, PTL

(* SET S: the flag is set only on a session that was sent the line or that *)
(* a restart began; a nap, which a new session follows, begins with a      *)
(* reset.                                                                  *)
ScreenInv ==
  /\ screen => screened # "no"
  /\ fsm = "Idle" => ~screen
  /\ \A t \in Threads : pc[t] = "nap" => ~screen

LEMMA ScreenKept ==
  ASSUME ScreenInv, UNCHANGED screen, screen => screened' \in {screened, "yes", "restart"},
         fsm' = "Idle" => fsm = "Idle",
         \A u \in Threads : pc'[u] = "nap" => pc[u] = "nap"
  PROVE  ScreenInv'
BY DEF ScreenInv

(* A thread goes to a place that is not a nap. *)
LEMMA ScreenKeptBy ==
  ASSUME IInv, ScreenInv, NEW t \in Threads, NEW label \in PCs \ {"nap"}, Goto(t, label),
         UNCHANGED screen, screen => screened' \in {screened, "yes", "restart"},
         fsm' = "Idle" => fsm = "Idle"
  PROVE  ScreenInv'
<1>1. /\ pc'[t] = label
      /\ \A u \in Threads : u # t => pc'[u] = pc[u]
  BY GotoEffect, TypeParts DEF IInv
<1>2. QED
  BY <1>1, ScreenKept

LEMMA ScreenDrive ==
  ASSUME IInv, ScreenInv, NEW t \in Threads, Drive(t)
  PROVE  ScreenInv'
<1>0. {"fire", "drive", "user", "wait", "idle"} \subseteq PCs \ {"nap"} /\ pc[t] \in Inside
  BY DEF Drive, PCs, Inside
<1>1. CASE Return(t) /\ UNCHANGED <<fsm, screen, relay>>
  BY <1>0, <1>1, ScreenKeptBy DEF Return, relay
<1>2. CASE Goto(t, "fire") /\ UNCHANGED <<fsm, screen, relay>>
  BY <1>0, <1>2, ScreenKeptBy DEF relay
<1>3. CASE Goto(t, "fire") /\ Send("screen") /\ fsm = "Operational" /\ UNCHANGED fsm
  <2>1. screened' = "yes" /\ fsm' # "Idle"
    BY <1>3 DEF Send
  <2>2. "fire" \in PCs
    BY <1>0
  <2>3. /\ pc'[t] = "fire"
        /\ \A u \in Threads : u # t => pc'[u] = pc[u]
    BY <1>3, <2>2, GotoEffect, TypeParts DEF IInv
  <2>4. \A u \in Threads : u # t => pc[u] # "nap"
    BY <1>0 DEF IInv, LockInv, Inside
  <2>5. QED
    BY <2>1, <2>3, <2>4 DEF ScreenInv
<1>4. CASE screen' = FALSE
  BY <1>4 DEF ScreenInv
<1>5. CASE /\ fsm \in {"Idle", "Connecting", "Login_L1"} /\ UNCHANGED screen
           /\ \E next \in {"drive", "user"} : StepEvent(next) /\ Goto(t, next)
  <2>1. PICK next \in {"drive", "user"} : StepEvent(next) /\ Goto(t, next)
    BY <1>5
  <2>2. screened' = screened /\ (fsm' = "Idle" => fsm = "Idle")
    BY <1>5, <2>1 DEF StepEvent, LoginOutcome, relay
  <2>3. QED
    BY <1>0, <1>5, <2>1, <2>2, ScreenKeptBy
<1>6. QED
  BY <1>1, <1>2, <1>3, <1>4, <1>5 DEF Drive, BeforeNap

LEMMA ScreenSending ==
  ASSUME IInv, ScreenInv, NEW t \in Threads, NEW line, Send(line), UNCHANGED <<fsm, screen>>,
         \E label \in {"pass", "drive", "l2pass", "l2cmd", "acc", "decide"} : Goto(t, label)
  PROVE  ScreenInv'
<1>1. screened' \in {screened, "yes"}
  BY DEF Send
<1>2. {"pass", "drive", "l2pass", "l2cmd", "acc", "decide"} \subseteq PCs \ {"nap"}
  BY DEF PCs, Inside
<1>3. QED
  BY <1>1, <1>2, ScreenKeptBy

LEMMA ScreenStep ==
  ASSUME IInv, ScreenInv, [Next]_vars
  PROVE  ScreenInv'
<1>0. {"attempt", "drive", "wait", "idle", "lock", "backoff", "restart", "exit"} \subseteq PCs \ {"nap"}
  BY DEF PCs, Inside
<1>1. ASSUME NEW t \in Threads, Session(t) PROVE ScreenInv'
  <2>1. CASE Attempt(t)
    BY <1>0, <2>1, ScreenKeptBy DEF Attempt, Return, relay
  <2>2. CASE Drive(t)
    BY <2>2, ScreenDrive
  <2>3. CASE Nap(t)
    BY <2>3 DEF Nap, ScreenInv
  <2>4. CASE SendUser(t) \/ SendPass(t)
    BY <2>4, ScreenSending DEF SendUser, SendPass
  <2>5. CASE Fire(t)
    BY <2>5, ScreenSending DEF Fire
  <2>6. CASE SendL2Pass(t)
    BY <2>6, ScreenSending DEF SendL2Pass
  <2>7. CASE SendL2Command(t) \/ SendAcc(t)
    BY <2>7, ScreenSending DEF SendL2Command, SendAcc
  <2>8. CASE Decide(t)
    BY <1>0, <2>8, ScreenKeptBy DEF Decide, Return, IInv, NeverConnLost, relay
  <2>9. QED
    BY <1>1, <2>1, <2>2, <2>3, <2>4, <2>5, <2>6, <2>7, <2>8 DEF Session
<1>2. ASSUME NEW t \in Threads, Lock(t) \/ Throw(t) PROVE ScreenInv'
  BY <1>0, <1>2, ScreenKeptBy DEF Lock, Throw, relay
<1>3. CASE Kick
  <2>1. Goto(Rx, "wait") /\ UNCHANGED screen /\ Rx \in Threads
    BY <1>3 DEF Kick, Threads
  <2>2. CASE StartEvent
    BY <1>0, <2>1, <2>2, ScreenKeptBy DEF StartEvent, ToConnecting, ScreenInv, relay
  <2>3. CASE DisconnectEvent("restart")
    BY <1>0, <2>1, <2>3, ScreenKeptBy DEF DisconnectEvent, ToConnecting, relay
  <2>4. QED
    BY <1>3, <2>2, <2>3 DEF Kick
<1>4. CASE Take \/ Backoff \/ Exit
  BY <1>0, <1>4, ScreenKeptBy DEF Take, Backoff, Exit, relay, Threads
<1>5. ASSUME NEW u \in Users, NEW c \in Commands, Call(u, c) PROVE ScreenInv'
  BY <1>0, <1>5, ScreenKeptBy DEF Call, relay, Threads
<1>6. CASE (\E c \in Commands : QueueCommand(c)) \/ Stop \/ Environment \/ UNCHANGED vars
  <2>1. UNCHANGED <<fsm, screen, screened, pc>>
    BY <1>6 DEF QueueCommand, Stop, Environment, LinkDown, Change, Settle, threads, relay, vars
  <2>2. QED
    BY <2>1, ScreenKept
<1>7. QED
  BY <1>1, <1>2, <1>3, <1>4, <1>5, <1>6 DEF Next

(* Whatever the threads, the exceptions and the network do, only the owner *)
(* of sync_cmd_mutex_ uses the client, and no command goes out on a TCP    *)
(* session before the login is through and SET S was sent on that session, *)
(* unless it is a session that runLoop() began after an exception          *)
(* (relay_pipeline.hpp:130-180, 332-374, 402-407, 527-581).                *)
THEOREM SessionBeforeCommand == Spec => []CommandsNeedSession
<1>1. Init => ScreenInv
  BY DEF Init, ScreenInv
<1>2. IInv /\ ScreenInv => CommandsNeedSession
  BY DEF IInv, LockInv, ScreenInv, CommandsNeedSession
<1>3. (IInv /\ ScreenInv) /\ [Next]_vars => (IInv /\ ScreenInv)'
  BY NextIInv, ScreenStep
<1>4. QED
  BY <1>1, <1>2, <1>3, InitIInv, PTL DEF Spec

(* In Operational the client always says that it is connected: nothing but *)
(* connectCheck() writes connected_ (client.cpp:76-173, 355).              *)
THEOREM OperationalMeansConnected == Spec => []OperationalIsConnected
<1>1. IInv => OperationalIsConnected
  BY DEF IInv, LinkInv, OperationalIsConnected
<1>2. QED
  BY <1>1, AlwaysIInv, PTL

(* CONN_LOST is never reported, so that the reconnect cycle of             *)
(* executeCommand() (relay_pipeline.hpp:365-370) is never entered.         *)
THEOREM ConnLostUnreachable == Spec => []NeverConnLost
<1>1. IInv => NeverConnLost
  BY DEF IInv
<1>2. QED
  BY <1>1, AlwaysIInv, PTL

-----------------------------------------------------------------------------
(* A session on which no answer came late *)

(* A call that leaves no answer on the wire and found none there has read  *)
(* the answer to the line it sent.                                         *)
LEMMA PromptSend ==
  ASSUME wire = <<>>, NEW line, Send(line), ~upset'
  PROVE  /\ wire' = <<>>
         /\ ~(connected /\ open /\ alive) => ~last_io_ok' /\ UNCHANGED far
         /\ connected /\ open /\ alive =>
              /\ last_io_ok' /\ alive' = alive
              /\ \E says \in Replies :
                   /\ RelayTakes(line, says)
                   /\ Len(last_response') = 1
                   /\ last_response'[1] = [to |-> line, says |-> says]
<1>1. CASE ~(connected /\ open /\ alive)
  BY <1>1 DEF Send, far
<1>2. CASE connected /\ open /\ alive
  <2>1. PICK says \in Replies, n \in 0 .. Len(wire) + 1 :
          /\ RelayTakes(line, says)
          /\ last_response' = SubSeq(Append(wire, [to |-> line, says |-> says]), 1, n)
          /\ wire' = SubSeq(Append(wire, [to |-> line, says |-> says]), n + 1,
                            Len(Append(wire, [to |-> line, says |-> says])))
          /\ last_io_ok' = (n > 0)
          /\ upset' = (upset \/ wire' # <<>>)
    BY <1>2, Zenon DEF Send
  <2>. DEFINE a == [to |-> line, says |-> says]
              all == Append(wire, a)
  <2>2. alive' = alive /\ wire' = <<>>
    BY <1>2, <2>1 DEF Send
  <2>. HIDE DEF a
  <2>4. Len(all) = 1 /\ all[1] = a
    OBVIOUS
  <2>3. n = 1
    <3>1. n \in {0, 1}
      BY <2>1
    <3>2. CASE n = 0
      <4>1. wire' = SubSeq(all, 1, 1)
        BY <2>1, <2>4, <3>2 DEF a
      <4>2. \A i \in 1 .. 1 : all[i] \in {a}
        BY <2>4
      <4>3. Len(SubSeq(all, 1, 1)) = 1
        BY <2>4, <4>2, SubSeqProperties
      <4>4. QED
        BY <2>2, <4>1, <4>3
    <3>3. QED
      BY <3>1, <3>2
  <2>5. /\ last_response' = SubSeq(all, 1, 1)
        /\ wire' = SubSeq(all, 2, 1)
    BY <2>1, <2>3, <2>4 DEF a
  <2>. HIDE DEF all
  <2>6. wire' = <<>>
    BY <2>5, SubSeqEmpty
  <2>7. \A i \in 1 .. 1 : all[i] \in {a}
    BY <2>4
  <2>8. Len(last_response') = 1 /\ last_response'[1] = a
    BY <2>4, <2>5, <2>7, SubSeqProperties
  <2>9. 1 > 0
    OBVIOUS
  <2>10. last_io_ok'
    BY <2>1, <2>3, <2>9
  <2>11. QED
    BY <1>2, <2>1, <2>2, <2>6, <2>8, <2>10 DEF a
<1>3. QED
  BY <1>1, <1>2

-----------------------------------------------------------------------------
(* Logins *)

Refused == Has(last_response, {"bad", "badask"})

(* A refusal that the retry counter does not have yet is in the last       *)
(* response of a machine that is still in Login_L1, where the next event   *)
(* counts it.                                                              *)
LoginInv ==
  /\ retry \in 0 .. LoginRetries /\ denied \in 0 .. retry + 1
  /\ denied > retry => fsm = "Login_L1" /\ Refused
  /\ \A t \in Threads : pc[t] \in {"user", "pass"} => denied <= retry

LEMMA LoginKept ==
  ASSUME LoginInv, UNCHANGED <<retry, denied>>,
         denied > retry => /\ fsm' = fsm /\ last_response' = last_response
                           /\ \A u \in Threads : pc'[u] \in {"user", "pass"} => pc[u] \in {"user", "pass"}
  PROVE  LoginInv'
<1>1. CASE denied <= retry
  BY <1>1 DEF LoginInv
<1>2. CASE denied > retry
  BY <1>2 DEF LoginInv, Refused, Has
<1>3. denied \in Int /\ retry \in Int
  BY DEF LoginInv
<1>4. QED
  BY <1>1, <1>2, <1>3

(* A thread goes to a place that is not of the login. *)
LEMMA LoginKeptBy ==
  ASSUME IInv, LoginInv, NEW t \in Threads, NEW label \in PCs \ {"user", "pass"}, Goto(t, label),
         UNCHANGED <<retry, denied>>,
         denied > retry => fsm' = fsm /\ last_response' = last_response
  PROVE  LoginInv'
<1>1. /\ pc'[t] = label
      /\ \A u \in Threads : u # t => pc'[u] = pc[u]
  BY GotoEffect, TypeParts DEF IInv
<1>2. QED
  BY <1>1, LoginKept

LEMMA LoginStepEvent ==
  ASSUME IInv, LoginInv, NEW t \in Threads, NEW next \in {"drive", "user"}, StepEvent(next), Goto(t, next)
  PROVE  LoginInv'
<1>1. /\ pc'[t] = next /\ next \in PCs
      /\ \A u \in Threads : u # t => pc'[u] = pc[u]
  BY GotoEffect, TypeParts DEF IInv, PCs, Inside
<1>2. CASE fsm # "Login_L1"
  <2>1. denied <= retry
    BY <1>2 DEF LoginInv
  <2>2. UNCHANGED <<retry, denied>>
    BY <1>2 DEF StepEvent, ToConnecting
  <2>3. denied \in Int /\ retry \in Int /\ ~(denied > retry)
    BY <2>1 DEF LoginInv
  <2>4. QED
    BY <2>2, <2>3, LoginKept
<1>3. CASE fsm = "Login_L1"
  <2>1. /\ next = "drive" /\ fsm' = LoginOutcome /\ UNCHANGED <<client, relay>>
        /\ retry' = IF fsm' \in {"Operational", "Error"} THEN 0
                    ELSE IF fsm' = "LoginRetryWait" THEN retry + 1 ELSE retry
        /\ denied' = IF fsm' \in {"Operational", "Error"} THEN 0 ELSE denied
    BY <1>3 DEF StepEvent, CountRetries
  <2>2. LoginRetries \in Nat
    BY SessionAssumption
  <2>3. CASE fsm' \in {"Operational", "Error"}
    <3>1. retry' = 0 /\ denied' = 0
      BY <2>1, <2>3
    <3>2. QED
      BY <2>2, <3>1 DEF LoginInv
  <2>4. CASE fsm' = "LoginRetryWait"
    <3>1. retry < LoginRetries
      BY <2>1, <2>4 DEF LoginOutcome
    <3>2. retry' = retry + 1 /\ denied' = denied
      BY <2>1, <2>4
    <3>3. retry' \in 0 .. LoginRetries /\ denied' \in 0 .. retry' /\ ~(denied' > retry')
          /\ denied' \in 0 .. retry' + 1 /\ denied' <= retry'
      BY <2>2, <3>1, <3>2 DEF LoginInv
    <3>4. QED
      BY <3>3 DEF LoginInv
  <2>5. CASE fsm' = "ConnectWait"
    <3>1. ~Refused
      BY <2>1, <2>5 DEF LoginOutcome, Refused
    <3>2. denied <= retry /\ retry' = retry /\ denied' = denied
      BY <2>1, <2>5, <3>1 DEF LoginInv
    <3>3. QED
      BY <3>2, LoginKept DEF LoginInv
  <2>6. QED
    BY <2>1, <2>3, <2>4, <2>5 DEF LoginOutcome
<1>4. QED
  BY <1>2, <1>3

(* The password: a refusal is read at once. *)
LEMMA LoginSendPass ==
  ASSUME ~SlowAnswers, IInv, LoginInv, NEW t \in Threads, SendPass(t)
  PROVE  LoginInv'
<1>0. /\ pc[t] = "pass" /\ Send("pass") /\ Goto(t, "drive")
      /\ denied' = IF connected /\ open /\ alive /\ level' = 0 /\ denied < LoginRetries + 2
                   THEN denied + 1 ELSE denied
      /\ UNCHANGED <<fsm, retry>>
  BY DEF SendPass
<1>1. denied <= retry /\ fsm = "Login_L1" /\ pc[t] \in Inside
  BY <1>0 DEF LoginInv, IInv, LockInv, Inside
<1>2. CASE denied' = denied
  BY <1>0, <1>1, <1>2, LoginKept DEF LoginInv
<1>3. CASE connected /\ open /\ alive /\ level' = 0 /\ denied' = denied + 1
  <2>1. Refused'
    <3>1. PICK says \in Replies, n \in 0 .. Len(wire) + 1 :
            /\ RelayTakes("pass", says)
            /\ n = Len(wire) + 1
            /\ last_response' = SubSeq(Append(wire, [to |-> "pass", says |-> says]), 1, n)
      BY <1>0, <1>3 DEF Send
    <3>2. says \in {"bad", "badask"}
      <4>1. level \in 0 .. 2 /\ asking \in {"no", "L1", "L2"}
        BY DEF IInv, TypeOK
      <4>2. CASE asking # "no"
        BY <1>3, <3>1, <4>1, <4>2 DEF RelayTakes
      <4>3. CASE asking = "no"
        BY <1>3, <3>1, <4>1, <4>3 DEF RelayTakes
      <4>4. QED
        BY <4>2, <4>3
    <3>. DEFINE a == [to |-> "pass", says |-> says]
                all == Append(wire, a)
    <3>3. a.says \in {"bad", "badask"} /\ a \in Answers
      BY <3>2 DEF Answers, Lines
    <3>. HIDE DEF a
    <3>4. /\ Len(wire) \in Nat /\ all \in Seq(Answers) /\ Len(all) = n /\ all[n] = a
      BY <3>1, <3>3 DEF IInv, TypeOK
    <3>5. \A i \in 1 .. n : all[i] \in Answers
      BY <3>4
    <3>. HIDE DEF all
    <3>6. n \in Nat /\ 1 <= n
      BY <3>1, <3>4
    <3>7. Len(SubSeq(all, 1, n)) = n /\ SubSeq(all, 1, n)[n] = all[n]
      BY <3>5, <3>6, SubSeqProperties
    <3>8. last_response' = SubSeq(all, 1, n)
      BY <3>1 DEF all, a
    <3>9. n \in 1 .. Len(last_response') /\ last_response'[n].says \in {"bad", "badask"}
      BY <3>3, <3>4, <3>6, <3>7, <3>8
    <3>10. QED
      BY <3>9 DEF Refused, Has
  <2>2. /\ pc'[t] = "drive"
        /\ \A u \in Threads : u # t => pc'[u] = pc[u]
    BY <1>0, GotoEffect, TypeParts DEF IInv, PCs, Inside
  <2>3. \A u \in Threads : pc'[u] \notin {"user", "pass"}
    <3>1. mutex = t /\ \A u \in Threads : pc[u] \in {"user", "pass"} => mutex = u
      BY <1>0, <1>1 DEF IInv, LockInv, Inside
    <3>2. QED
      BY <2>2, <3>1
  <2>4. QED
    BY <1>0, <1>1, <1>3, <2>1, <2>3 DEF LoginInv
<1>4. QED
  BY <1>0, <1>2, <1>3

LEMMA LoginDrive ==
  ASSUME IInv, LoginInv, NEW t \in Threads, Drive(t) \/ Nap(t)
  PROVE  LoginInv'
<1>1. CASE \E next \in {"drive", "user"} : StepEvent(next) /\ Goto(t, next)
  BY <1>1, LoginStepEvent
<1>2. CASE fsm = "Operational" /\ UNCHANGED <<retry, denied>>
  BY <1>2, LoginKept DEF LoginInv
<1>3. CASE fsm = "Error" /\ DisconnectEvent("no")
  BY <1>3, LoginKept DEF LoginInv, DisconnectEvent, ToConnecting
<1>4. CASE UNCHANGED <<fsm, retry, denied, client>> /\ (Return(t) \/ Goto(t, "nap"))
  <2>1. PICK label \in {"wait", "idle", "nap"} : Goto(t, label)
    BY <1>4 DEF Return
  <2>2. label \in PCs \ {"user", "pass"}
    BY <2>1 DEF PCs, Inside
  <2>3. QED
    BY <1>4, <2>1, <2>2, LoginKeptBy DEF client
<1>5. Drive(t) \/ Nap(t) =>
        \/ \E next \in {"drive", "user"} : StepEvent(next) /\ Goto(t, next)
        \/ fsm = "Operational" /\ UNCHANGED <<retry, denied>>
        \/ fsm = "Error" /\ DisconnectEvent("no")
        \/ UNCHANGED <<fsm, retry, denied, client>> /\ (Return(t) \/ Goto(t, "nap"))
  <2>1. CASE Drive(t)
    BY <2>1 DEF Drive, BeforeNap
  <2>2. CASE Nap(t)
    BY <2>2 DEF Nap
  <2>3. QED
    BY <2>1, <2>2
<1>6. QED
  BY <1>1, <1>2, <1>3, <1>4, <1>5

(* What a thread does in Operational finds every refusal counted. *)
LEMMA LoginSending ==
  ASSUME IInv, LoginInv, NEW t \in Threads, pc[t] \in Sending, UNCHANGED <<retry, denied>>
  PROVE  LoginInv'
<1>1. fsm = "Operational"
  BY DEF IInv, LockInv
<1>2. QED
  BY <1>1, LoginKept DEF LoginInv

LEMMA LoginStep ==
  ASSUME ~SlowAnswers, IInv, LoginInv, [Next]_vars
  PROVE  LoginInv'
<1>1. ASSUME NEW t \in Threads, Attempt(t) PROVE LoginInv'
  <2>1. PICK label \in {"wait", "idle", "drive"} : Goto(t, label)
    BY <1>1 DEF Attempt, Return
  <2>2. label \in PCs \ {"user", "pass"} /\ UNCHANGED <<fsm, retry, denied, last_response>>
    BY <1>1, <2>1 DEF Attempt, client, PCs, Inside
  <2>3. QED
    BY <2>1, <2>2, LoginKeptBy
<1>2. ASSUME NEW t \in Threads, Drive(t) \/ Nap(t) PROVE LoginInv'
  BY <1>2, LoginDrive
<1>3. ASSUME NEW t \in Threads, SendUser(t) PROVE LoginInv'
  <2>1. denied <= retry /\ UNCHANGED <<retry, denied>>
    BY <1>3 DEF SendUser, LoginInv
  <2>2. QED
    BY <2>1, LoginKept DEF LoginInv
<1>4. ASSUME NEW t \in Threads, SendPass(t) PROVE LoginInv'
  BY <1>4, LoginSendPass
<1>5. ASSUME NEW t \in Threads, Fire(t) \/ SendL2Pass(t) \/ SendL2Command(t) \/ SendAcc(t)
      PROVE  LoginInv'
  <2>1. pc[t] \in Sending /\ UNCHANGED <<retry, denied>>
    BY <1>5 DEF Fire, SendL2Pass, SendL2Command, SendAcc, Sending
  <2>2. QED
    BY <2>1, LoginSending
<1>6. ASSUME NEW t \in Threads, Decide(t) PROVE LoginInv'
  <2>1. pc[t] \in Sending /\ UNCHANGED <<retry, denied>>
    BY <1>6 DEF Decide, Sending, DisconnectEvent, ToConnecting
  <2>2. QED
    BY <2>1, LoginSending
<1>7. ASSUME NEW t \in Threads, Throw(t) \/ Lock(t) PROVE LoginInv'
  <2>1. PICK label \in {"backoff", "idle", "attempt"} : Goto(t, label)
    BY <1>7 DEF Throw, Lock
  <2>2. label \in PCs \ {"user", "pass"} /\ UNCHANGED <<fsm, retry, denied, last_response>>
    BY <1>7, <2>1 DEF Throw, Lock, client, PCs, Inside
  <2>3. QED
    BY <2>1, <2>2, LoginKeptBy
<1>8. CASE Kick
  <2>1. Goto(Rx, "wait") /\ (StartEvent \/ DisconnectEvent("restart")) /\ "wait" \in PCs \ {"user", "pass"}
    BY <1>8 DEF Kick, PCs, Inside
  <2>2. /\ UNCHANGED <<retry, denied>>
        /\ denied > retry => fsm' = fsm /\ last_response' = last_response
    BY <2>1 DEF StartEvent, DisconnectEvent, ToConnecting, client, LoginInv
  <2>3. QED
    BY <2>1, <2>2, LoginKeptBy DEF Threads
<1>9. CASE Take \/ Backoff \/ Exit
  <2>1. PICK label \in {"lock", "exit", "restart"} : Goto(Rx, label)
    BY <1>9 DEF Take, Backoff, Exit
  <2>2. label \in PCs \ {"user", "pass"} /\ UNCHANGED <<fsm, retry, denied, last_response>>
    BY <1>9, <2>1 DEF Take, Backoff, Exit, client, PCs, Inside
  <2>3. QED
    BY <2>1, <2>2, LoginKeptBy DEF Threads
<1>10. ASSUME NEW u \in Users, NEW c \in Commands, Call(u, c) PROVE LoginInv'
  <2>1. /\ Goto(u, "lock") /\ "lock" \in PCs \ {"user", "pass"}
        /\ UNCHANGED <<fsm, retry, denied, last_response>>
    BY <1>10 DEF Call, client, PCs, Inside
  <2>2. QED
    BY <2>1, LoginKeptBy DEF Threads
<1>11. CASE (\E c \in Commands : QueueCommand(c)) \/ Stop \/ Environment \/ UNCHANGED vars
  <2>1. UNCHANGED <<fsm, retry, denied, last_response, pc>>
    BY <1>11 DEF QueueCommand, Stop, Environment, LinkDown, Change, Settle, threads, client, vars
  <2>2. QED
    BY <2>1, LoginKept
<1>12. QED
  BY <1>1, <1>2, <1>3, <1>4, <1>5, <1>6, <1>7, <1>8, <1>9, <1>10, <1>11 DEF Next, Session

(* A relay that answers in time never sees more than LoginRetries + 1      *)
(* rejected logins in a row (telnet_fsm.hpp: the guards of Login_L1 and    *)
(* RetryState), whatever threads, drops and exceptions do.                 *)
THEOREM LoginsBounded ==
  ASSUME ~SlowAnswers
  PROVE  Spec => []LoginAttemptsBounded
<1>1. Init => LoginInv
  BY SessionAssumption DEF Init, LoginInv
<1>2. (IInv /\ LoginInv) /\ [Next]_vars => (IInv /\ LoginInv)'
  BY NextIInv, LoginStep
<1>3. LoginInv => LoginAttemptsBounded
  BY SessionAssumption DEF LoginInv, LoginAttemptsBounded
<1>4. QED
  BY <1>1, <1>2, <1>3, InitIInv, PTL DEF Spec

-----------------------------------------------------------------------------
(* Answers and the commands they answer *)

(* What a session that is not upset has on the wire, and that only a new   *)
(* session is not upset any more.                                          *)
WireEmpty == upset \/ wire = <<>>
StaysUpset == upset => upset'

LEMMA SendUpsets ==
  ASSUME NEW line, Send(line)
  PROVE  StaysUpset /\ (WireEmpty => WireEmpty')
<1>1. \/ UNCHANGED <<far, upset>>
      \/ (upset \/ wire' # <<>>) <=> upset'
  BY Zenon DEF Send
<1>2. QED
  BY <1>1 DEF far, StaysUpset, WireEmpty

LEMMA WireStep ==
  ASSUME WireEmpty, [Next]_vars
  PROVE  WireEmpty' /\ (StaysUpset \/ ConnectCheck)
<1>. DEFINE Fine == WireEmpty' /\ (StaysUpset \/ ConnectCheck)
<1>1. CASE \E line : Send(line)
  BY <1>1, SendUpsets
<1>2. CASE ConnectCheck
  BY <1>2 DEF ConnectCheck, WireEmpty
<1>3. CASE (wire' = <<>> \/ UNCHANGED wire) /\ (upset => upset')
  BY <1>3 DEF WireEmpty, StaysUpset
<1>4. ASSUME NEW next, StepEvent(next) PROVE ConnectCheck \/ UNCHANGED <<wire, upset>>
  BY <1>4 DEF StepEvent, ToConnecting, relay
<1>5. ASSUME NEW t \in Threads, Session(t)
      PROVE  (\E line : Send(line)) \/ ConnectCheck \/ UNCHANGED <<wire, upset>>
  <2>1. CASE Attempt(t)
    BY <2>1 DEF Attempt, relay
  <2>2. CASE Drive(t)
    BY <2>2, <1>4 DEF Drive, relay
  <2>3. CASE Nap(t)
    BY <2>3, <1>4 DEF Nap, relay, DisconnectEvent, ToConnecting
  <2>4. CASE SendUser(t) \/ SendPass(t)
    BY <2>4 DEF SendUser, SendPass
  <2>5. CASE Fire(t)
    BY <2>5 DEF Fire
  <2>6. CASE SendL2Pass(t) \/ SendL2Command(t) \/ SendAcc(t)
    BY <2>6 DEF SendL2Pass, SendL2Command, SendAcc
  <2>7. CASE Decide(t)
    BY <2>7 DEF Decide, relay, DisconnectEvent, ToConnecting
  <2>8. QED
    BY <1>5, <2>1, <2>2, <2>3, <2>4, <2>5, <2>6, <2>7 DEF Session
<1>6. CASE Kick
  BY <1>6, <1>2, <1>3 DEF Kick, StartEvent, DisconnectEvent, ToConnecting, relay
<1>7. CASE (\E t \in Threads : Lock(t) \/ Throw(t)) \/ Take \/ Backoff \/ Exit
  <2>1. ASSUME NEW t \in Threads, Throw(t) PROVE Fine
    <3>1. upset => upset'
      BY <2>1, Zenon DEF Throw
    <3>2. UNCHANGED wire
      BY <2>1 DEF Throw, far
    <3>3. QED
      BY <1>3, <3>1, <3>2
  <2>2. QED
    BY <1>7, <1>3, <2>1 DEF Lock, Take, Backoff, Exit, relay
<1>8. CASE \E u \in Users, c \in Commands : Call(u, c)
  BY <1>8, <1>3 DEF Call, relay
<1>9. CASE (\E c \in Commands : QueueCommand(c)) \/ Stop \/ Environment \/ UNCHANGED vars
  BY <1>9, <1>3 DEF QueueCommand, Stop, Environment, LinkDown, Change, Settle, relay, vars
<1>10. QED
  BY <1>1, <1>2, <1>3, <1>5, <1>6, <1>7, <1>8, <1>9 DEF Next

Answered(t) == success => \A i \in 1 .. Len(response) : response[i].to = cmd[t]

(* A success in the holder is that of the command of the thread that is    *)
(* about to report it; an elevation starts from a failure.                 *)
AnswerInv ==
  \A t \in Threads : /\ pc[t] = "l2pass" => ~success
                     /\ pc[t] \in {"acc", "decide"} => upset \/ Answered(t)

(* A thread leaves the holder alone and goes to a place where nothing is   *)
(* asked of it.                                                            *)
LEMMA AnswerKeptBy ==
  ASSUME IInv, AnswerInv, NEW t \in Threads, NEW label \in PCs \ {"l2pass", "acc", "decide"},
         Goto(t, label), \A u \in Threads : u # t => cmd'[u] = cmd[u],
         UNCHANGED <<success, response>>, StaysUpset \/ mutex \in {t, Nobody}
  PROVE  AnswerInv'
<1>1. /\ pc'[t] = label
      /\ \A u \in Threads : u # t => pc'[u] = pc[u]
  BY GotoEffect, TypeParts DEF IInv
<1>2. \A u \in Threads : u # t /\ pc[u] \in {"acc", "decide"} => StaysUpset
  BY SessionAssumption DEF IInv, LockInv, Inside, Threads
<1>3. ASSUME NEW u \in Threads, pc'[u] \in {"acc", "decide"} PROVE upset' \/ Answered(u)'
  <2>1. u # t /\ pc[u] \in {"acc", "decide"}
    BY <1>1, <1>3
  <2>2. (upset \/ Answered(u)) /\ StaysUpset
    BY <1>2, <2>1 DEF AnswerInv
  <2>3. QED
    BY <2>1, <2>2 DEF StaysUpset, Answered
<1>4. QED
  BY <1>1, <1>3 DEF AnswerInv

(* The owner of the mutex has sent its command and has read the answer. *)
LEMMA AnswerRead ==
  ASSUME WireEmpty, IInv, NEW t \in Threads, pc[t] \in Inside, Send(cmd[t]),
         NEW label \in {"acc", "decide"}, Goto(t, label), UNCHANGED cmd,
         success' => last_io_ok', response' = Received
  PROVE  AnswerInv'
<1>1. label \in PCs /\ {"l2pass", "acc", "decide"} \subseteq Inside
  BY DEF PCs, Inside
<1>2. /\ pc'[t] = label
      /\ \A u \in Threads : u # t => pc'[u] = pc[u]
  BY <1>1, GotoEffect, TypeParts DEF IInv
<1>3. \A u \in Threads : u # t => pc[u] \notin Inside
  BY DEF IInv, LockInv
<1>4. ASSUME success', ~upset' PROVE \A i \in 1 .. Len(response') : response'[i].to = cmd[t]
  <2>. wire = <<>>
    BY <1>4, SendUpsets DEF StaysUpset, WireEmpty
  <2>0. last_io_ok' /\ response' = last_response'
    BY <1>4 DEF Received
  <2>00. PICK says : Len(last_response') = 1 /\ last_response'[1] = [to |-> cmd[t], says |-> says]
    BY <1>4, <2>0, PromptSend
  <2>1. Len(response') = 1 /\ response'[1].to = cmd[t]
    BY <2>0, <2>00
  <2>2. \A i \in 1 .. 1 : i = 1
    OBVIOUS
  <2>3. QED
    BY <2>1, <2>2
<1>5. QED
  BY <1>1, <1>2, <1>3, <1>4 DEF AnswerInv, Answered

LEMMA AnswerStep ==
  ASSUME WireEmpty, IInv, AnswerInv, [Next]_vars
  PROVE  AnswerInv'
<1>. DEFINE Elsewhere == PCs \ {"l2pass", "acc", "decide"}
<1>0. Elsewhere = {"attempt", "drive", "nap", "user", "pass", "fire", "2ac", "l2cmd", "idle",
                   "lock", "start", "restart", "wait", "backoff", "exit"}
  BY DEF PCs, Inside
<1>. HIDE DEF Elsewhere
<1>00. Elsewhere = PCs \ {"l2pass", "acc", "decide"}
  BY DEF Elsewhere
<1>1. ASSUME NEW t \in Threads, UNCHANGED <<success, response, cmd>>,
             \E label \in Elsewhere : Goto(t, label),
             pc[t] \in Inside \/ mutex = Nobody \/ upset' = upset
      PROVE  AnswerInv'
  <2>1. StaysUpset \/ mutex \in {t, Nobody}
    BY <1>1 DEF IInv, LockInv, StaysUpset
  <2>2. QED
    BY <1>1, <1>00, <2>1, AnswerKeptBy
<1>2. ASSUME NEW t \in Threads,
             \/ Attempt(t) \/ Drive(t) \/ Nap(t) \/ SendUser(t) \/ SendPass(t) \/ Decide(t)
             \/ Throw(t) \/ Lock(t)
      PROVE  AnswerInv'
  <2>0. pc[t] \in Inside \/ mutex = Nobody
    BY <1>2 DEF Attempt, Drive, Nap, SendUser, SendPass, Decide, Throw, Lock, Inside
  <2>1. UNCHANGED <<success, response, cmd>>
    BY <1>2 DEF Attempt, Drive, Nap, SendUser, SendPass, Decide, Throw, Lock, holder
  <2>2. CASE Attempt(t)
    BY <2>2, <2>0, <2>1, <1>0, <1>1 DEF Attempt, Return
  <2>3. CASE Drive(t)
    BY <2>3, <2>0, <2>1, <1>0, <1>1 DEF Drive, BeforeNap, Return
  <2>4. CASE Nap(t)
    BY <2>4, <2>0, <2>1, <1>0, <1>1 DEF Nap, Return
  <2>5. CASE SendUser(t) \/ SendPass(t)
    BY <2>5, <2>0, <2>1, <1>0, <1>1 DEF SendUser, SendPass
  <2>6. CASE Decide(t)
    BY <2>6, <2>0, <2>1, <1>0, <1>1 DEF Decide, Return
  <2>7. CASE Throw(t) \/ Lock(t)
    BY <2>7, <2>0, <2>1, <1>0, <1>1 DEF Throw, Lock
  <2>8. QED
    BY <1>2, <2>2, <2>3, <2>4, <2>5, <2>6, <2>7
<1>3. ASSUME NEW t \in Threads, Fire(t) PROVE AnswerInv'
  <2>1. pc[t] \in Inside /\ UNCHANGED cmd
    BY <1>3 DEF Fire, Inside
  <2>2. CASE cmd[t] \in FsmCommands \union RawCommands /\ Send(cmd[t])
             /\ success' = last_io_ok' /\ response' = Received /\ Goto(t, "decide")
    BY <2>1, <2>2, AnswerRead
  <2>3. CASE success' = FALSE
    BY <2>3 DEF AnswerInv, Answered
  <2>4. QED
    BY <1>3, <2>2, <2>3 DEF Fire
<1>4. ASSUME NEW t \in Threads, SendL2Pass(t) PROVE AnswerInv'
  <2>1. ~success /\ success' = success
    BY <1>4 DEF SendL2Pass, holder, AnswerInv
  <2>2. QED
    BY <2>1, Zenon DEF AnswerInv, Answered
<1>5. ASSUME NEW t \in Threads, SendL2Command(t) PROVE AnswerInv'
  <2>1. /\ pc[t] \in Inside /\ Send(cmd[t]) /\ Goto(t, "acc") /\ UNCHANGED cmd
        /\ success' => last_io_ok'
        /\ response' = Received
    BY <1>5 DEF SendL2Command, Inside
  <2>2. QED
    BY <2>1, AnswerRead
<1>6. ASSUME NEW t \in Threads, SendAcc(t) PROVE AnswerInv'
  <2>1. /\ pc[t] = "acc" /\ Goto(t, "decide") /\ UNCHANGED <<success, response, cmd>>
        /\ StaysUpset
    BY <1>6, SendUpsets DEF SendAcc, holder
  <2>2. /\ pc'[t] = "decide"
        /\ \A u \in Threads : u # t => pc'[u] = pc[u]
    BY <2>1, GotoEffect, TypeParts DEF IInv, PCs, Inside
  <2>3. QED
    BY <2>1, <2>2 DEF AnswerInv, Answered, StaysUpset
<1>7. CASE Kick \/ Backoff \/ Exit
  BY <1>7, <1>0, <1>1 DEF Kick, Backoff, Exit, holder, relay, Threads
<1>8. CASE Take
  <2>1. Goto(Rx, "lock") /\ UNCHANGED <<success, response>> /\ "lock" \in Elsewhere /\ StaysUpset
    BY <1>8, <1>0 DEF Take, holder, relay, StaysUpset
  <2>2. \A u \in Threads : u # Rx => cmd'[u] = cmd[u]
    BY <1>8 DEF Take, IInv, TypeOK
  <2>3. QED
    BY <2>1, <2>2, <1>00, AnswerKeptBy DEF Threads
<1>9. ASSUME NEW u \in Users, NEW c \in Commands, Call(u, c) PROVE AnswerInv'
  <2>1. Goto(u, "lock") /\ UNCHANGED <<success, response>> /\ "lock" \in Elsewhere /\ StaysUpset
    BY <1>9, <1>0 DEF Call, holder, relay, StaysUpset
  <2>2. \A v \in Threads : v # u => cmd'[v] = cmd[v]
    BY <1>9 DEF Call, IInv, TypeOK
  <2>3. QED
    BY <2>1, <2>2, <1>00, AnswerKeptBy DEF Threads
<1>10. CASE (\E c \in Commands : QueueCommand(c)) \/ Stop \/ Environment \/ UNCHANGED vars
  <2>1. UNCHANGED <<success, response, pc, cmd, upset>>
    BY <1>10 DEF QueueCommand, Stop, Environment, LinkDown, Change, Settle, threads, holder, relay, vars
  <2>2. QED
    BY <2>1 DEF AnswerInv, Answered
<1>11. QED
  BY <1>2, <1>3, <1>4, <1>5, <1>6, <1>7, <1>8, <1>9, <1>10 DEF Next, Session

(* Until an answer of the TCP session is left on the wire, every response  *)
(* that is pushed into the raw buffer or returned to a user                *)
(* (relay_pipeline.hpp: executeCommand, handleUserCommand) answers the     *)
(* command it goes with; the next session starts afresh.                   *)
THEOREM AnswersMatch == Spec => []ResponseMatchesCommand
<1>1. Init => WireEmpty /\ AnswerInv
  BY DEF Init, WireEmpty, AnswerInv, Answered
<1>2. (IInv /\ WireEmpty /\ AnswerInv) /\ [Next]_vars => (IInv /\ WireEmpty /\ AnswerInv)'
  BY NextIInv, WireStep, AnswerStep
<1>3. AnswerInv => ResponseMatchesCommand
  BY DEF AnswerInv, Answered, ResponseMatchesCommand
<1>4. QED
  BY <1>1, <1>2, <1>3, InitIInv, PTL DEF Spec

-----------------------------------------------------------------------------
(* Level 2 *)

High == {"l2cmd", "acc"}

(* While a thread is between the elevation and ACC, the relay asks for no  *)
(* password: it takes the next line as what it is.                         *)
LevelInv ==
  /\ \A t \in Threads : pc[t] \in High => asking = "no"
  /\ LevelTwoNeverKept

(* A session that is gone has no level. *)
DeadInv == ~alive => level = 0

(* A session that is not upset is as it should be. *)
QuietInv == DeadInv /\ (upset \/ LevelInv)

Tame == (level' = 2 => level = 2) /\ (~alive' => level' = 0)

(* Only the level 2 password elevates. *)
LEMMA TameSend ==
  ASSUME wire = <<>>, DeadInv, NEW line, line # "l2pass", Send(line), ~upset'
  PROVE  Tame
<1>1. CASE ~(connected /\ open /\ alive)
  BY <1>1, PromptSend DEF far, Tame, DeadInv
<1>2. CASE connected /\ open /\ alive
  <2>1. alive' = alive /\ \E says : RelayTakes(line, says)
    BY <1>2, PromptSend
  <2>2. level' = 2 => level = 2
    BY <2>1 DEF RelayTakes, Elevates
  <2>3. QED
    BY <1>2, <2>1, <2>2 DEF Tame
<1>3. QED
  BY <1>1, <1>2

LEMMA TameConnect == ASSUME ConnectCheck PROVE Tame /\ asking' = "no"
BY DEF ConnectCheck, Tame

LEMMA TameStill == ASSUME DeadInv, UNCHANGED <<alive, level>> PROVE Tame
BY DEF DeadInv, Tame

(* A new session is as it should be, whatever the last one was. *)
LEMMA FreshLevel == ASSUME ConnectCheck PROVE LevelInv'
BY DEF ConnectCheck, LevelInv, LevelTwoNeverKept

(* A thread goes from a place below level 2 to another one. *)
LEMMA LevelKeptBy ==
  ASSUME IInv, LevelInv, NEW t \in Threads, pc[t] \notin High, Tame,
         NEW label \in PCs \ High, Goto(t, label),
         asking' \in {asking, "no"} \/ pc[t] \in Inside
  PROVE  LevelInv'
<1>1. /\ pc'[t] = label
      /\ \A u \in Threads : u # t => pc'[u] = pc[u]
  BY GotoEffect, TypeParts DEF IInv
<1>2. High \subseteq Inside
  BY DEF High, Inside
<1>3. ASSUME NEW u \in Threads, pc'[u] \in High PROVE asking' = "no"
  <2>1. u # t /\ pc[u] \in High
    BY <1>1, <1>3
  <2>2. pc[t] \notin Inside
    BY <1>2, <2>1 DEF IInv, LockInv
  <2>3. QED
    BY <2>1, <2>2 DEF LevelInv
<1>4. LevelTwoNeverKept'
  <2>1. \A u \in Threads : pc[u] \in High => pc'[u] \in High
    BY <1>1
  <2>2. QED
    BY <2>1 DEF LevelInv, LevelTwoNeverKept, Tame, High
<1>5. QED
  BY <1>3, <1>4 DEF LevelInv

(* The owner of the mutex, still or again between elevation and ACC. *)
LEMMA LevelOwner ==
  ASSUME IInv, LevelInv, NEW t \in Threads, pc[t] \in Inside, NEW label \in PCs, Goto(t, label),
         label \in High => asking' = "no", label \notin High => level' # 2
  PROVE  LevelInv'
<1>1. /\ pc'[t] = label
      /\ \A u \in Threads : u # t => pc'[u] = pc[u]
  BY GotoEffect, TypeParts DEF IInv
<1>2. \A u \in Threads : u # t => pc[u] \notin High
  BY DEF IInv, LockInv, High, Inside
<1>3. QED
  BY <1>1, <1>2 DEF LevelInv, LevelTwoNeverKept, High

LEMMA LevelL2Pass ==
  ASSUME wire = <<>>, IInv, DeadInv, LevelInv, NEW t \in Threads, SendL2Pass(t), ~upset'
  PROVE  LevelInv'
<1>1. /\ pc[t] = "l2pass" /\ Send("l2pass")
      /\ Goto(t, IF Elevated THEN "l2cmd" ELSE "decide")
  BY DEF SendL2Pass
<1>2. {"l2pass", "l2cmd", "decide"} \subseteq Inside /\ Inside \subseteq PCs
  BY DEF Inside, PCs
<1>3. "l2pass" \notin High /\ "decide" \notin High /\ "l2cmd" \in High
  BY DEF High
<1>4. CASE ~(connected /\ open /\ alive)
  <2>1. ~last_io_ok' /\ UNCHANGED far
    BY <1>1, <1>4, PromptSend
  <2>2. ~Elevated
    BY <2>1 DEF Elevated
  <2>3. Tame
    BY <2>1, TameStill DEF far
  <2>4. QED
    BY <1>1, <1>2, <1>3, <2>2, <2>3, LevelKeptBy
<1>5. CASE connected /\ open /\ alive
  <2>1. PICK says \in Replies :
          /\ last_io_ok' /\ alive' = alive /\ RelayTakes("l2pass", says)
          /\ Len(last_response') = 1
          /\ last_response'[1] = [to |-> "l2pass", says |-> says]
    BY <1>1, <1>5, PromptSend
  <2>2. \A i \in 1 .. 1 : i = 1
    OBVIOUS
  <2>3. \A replies : Has(last_response', replies) <=> says \in replies
    BY <2>1, <2>2 DEF Has
  <2>4. Elevated <=> says = "ok"
    BY <2>1, <2>3 DEF Elevated
  <2>5. says = "ok" => asking' = "no"
    BY <2>1 DEF RelayTakes
  <2>6. says # "ok" => (level' = 2 => level = 2)
    BY <2>1 DEF RelayTakes
  <2>7. CASE Elevated
    BY <1>1, <1>2, <1>3, <1>5, <2>1, <2>4, <2>5, <2>7, LevelOwner
  <2>8. CASE ~Elevated
    <3>1. Tame
      BY <1>5, <2>1, <2>4, <2>6, <2>8 DEF Tame
    <3>2. QED
      BY <1>1, <1>2, <1>3, <2>8, <3>1, LevelKeptBy
  <2>9. QED
    BY <2>7, <2>8
<1>6. QED
  BY <1>4, <1>5

(* What is asked of the commands: the level-2 password is none, and a      *)
(* command of level 2 is no line that makes the relay ask for a password.  *)
CommandsAreCommands ==
  "l2pass" \notin Commands /\ L2Commands \intersect {"2ac", "user", "acc"} = {}

LEMMA LevelL2Command ==
  ASSUME wire = <<>>, CommandsAreCommands,
         IInv, DeadInv, LevelInv, NEW t \in Threads, cmd[t] \in L2Commands, SendL2Command(t), ~upset'
  PROVE  LevelInv'
<1>1. /\ pc[t] = "l2cmd" /\ Send(cmd[t]) /\ Goto(t, "acc")
  BY DEF SendL2Command
<1>2. pc[t] \in Inside /\ "acc" \in PCs /\ "acc" \in High /\ pc[t] \in High
  BY <1>1 DEF Inside, PCs, High
<1>3. asking = "no"
  BY <1>2 DEF LevelInv
<1>4. asking' = "no"
  <2>1. CASE ~(connected /\ open /\ alive)
    BY <1>1, <1>3, <2>1, PromptSend DEF far
  <2>2. CASE connected /\ open /\ alive
    <3>1. \E says : RelayTakes(cmd[t], says)
      BY <1>1, <2>2, PromptSend
    <3>2. cmd[t] \notin {"2ac", "user", "acc"}
      BY DEF CommandsAreCommands
    <3>3. QED
      BY <1>3, <3>1, <3>2 DEF RelayTakes
  <2>3. QED
    BY <2>1, <2>2
<1>5. QED
  BY <1>1, <1>2, <1>4, LevelOwner

LEMMA LevelAcc ==
  ASSUME wire = <<>>, IInv, DeadInv, LevelInv, NEW t \in Threads, SendAcc(t), ~upset'
  PROVE  LevelInv'
<1>1. pc[t] = "acc" /\ Send("acc") /\ Goto(t, "decide")
  BY DEF SendAcc
<1>2. /\ pc[t] \in Inside /\ "decide" \in PCs /\ "decide" \notin High /\ pc[t] \in High
      /\ pc[t] \in Sending
  BY <1>1 DEF Inside, PCs, High, Sending
<1>3. asking = "no" /\ (~alive => level = 0) /\ connected /\ open /\ level \in 0 .. 2
  BY <1>2 DEF LevelInv, DeadInv, IInv, TypeOK, LinkInv, LockInv
<1>4. level' # 2
  <2>1. CASE ~alive
    BY <1>1, <1>3, <2>1, PromptSend DEF far
  <2>2. CASE alive
    <3>1. \E says : RelayTakes("acc", says)
      BY <1>1, <1>3, <2>2, PromptSend
    <3>2. QED
      BY <1>3, <3>1 DEF RelayTakes
  <2>3. QED
    BY <2>1, <2>2
<1>5. QED
  BY <1>1, <1>2, <1>4, LevelOwner

(* Who is at the two places of level 2 executes a command of level 2. *)
ElevatedInv == \A t \in Threads : pc[t] \in {"l2pass", "l2cmd"} => cmd[t] \in L2Commands

LEMMA ElevatedStep ==
  ASSUME IInv, ElevatedInv, [Next]_vars
  PROVE  ElevatedInv'
<1>. pc \in [Threads -> PCs] /\ cmd \in [Threads -> Commands]
  BY DEF IInv, TypeOK
<1>1. ASSUME NEW t \in Threads, Session(t)  PROVE  ElevatedInv'
  <2>1. UNCHANGED cmd
    BY <1>1 DEF Session, Attempt, Drive, Nap, SendUser, SendPass, Fire, SendL2Pass,
       SendL2Command, SendAcc, Decide
  <2>2. pc'[t] \in {"l2pass", "l2cmd"} => cmd[t] \in L2Commands
    <3>1. CASE Attempt(t) \/ Nap(t) \/ SendUser(t) \/ SendPass(t)
      BY <3>1 DEF Attempt, Nap, SendUser, SendPass, Return, Goto
    <3>2. CASE Drive(t)
      BY <3>2 DEF Drive, BeforeNap, Return, Goto
    <3>3. CASE Fire(t)
      BY <3>3 DEF Fire, Goto
    <3>4. CASE SendL2Pass(t)
      BY <3>4 DEF SendL2Pass, ElevatedInv
    <3>5. CASE SendL2Command(t) \/ SendAcc(t) \/ Decide(t)
      BY <3>5 DEF SendL2Command, SendAcc, Decide, Return, Goto
    <3>6. QED
      BY <1>1, <3>1, <3>2, <3>3, <3>4, <3>5 DEF Session
  <2>3. \A u \in Threads : u # t => pc'[u] = pc[u]
    BY <1>1 DEF Session, Attempt, Drive, BeforeNap, Nap, SendUser, SendPass, Fire, SendL2Pass,
       SendL2Command, SendAcc, Decide, Return, Goto
  <2>4. QED
    BY <2>1, <2>2, <2>3 DEF ElevatedInv
<1>2. ASSUME NEW t \in Threads, Lock(t) \/ Throw(t)  PROVE  ElevatedInv'
  BY <1>2 DEF Lock, Throw, Goto, ElevatedInv
<1>3. CASE Kick \/ Take \/ Backoff \/ Exit
  BY <1>3 DEF Kick, Take, Backoff, Exit, Goto, ElevatedInv
<1>4. ASSUME NEW u \in Users, NEW c \in Commands, Call(u, c)  PROVE  ElevatedInv'
  BY <1>4 DEF Call, Goto, ElevatedInv
<1>5. CASE (\E c \in Commands : QueueCommand(c)) \/ Stop \/ Environment \/ UNCHANGED vars
  BY <1>5 DEF QueueCommand, Stop, Environment, LinkDown, Change, Settle, threads, vars, ElevatedInv
<1>6. QED
  BY <1>1, <1>2, <1>3, <1>4, <1>5 DEF Next

(* What a step of anybody but the relay sends, or that it sends nothing. *)
LEMMA Exchange ==
  ASSUME [Next]_vars
  PROVE  \/ \E line : Send(line)
         \/ ConnectCheck
         \/ LinkDown
         \/ UNCHANGED far
<1>1. ASSUME NEW next, StepEvent(next) PROVE ConnectCheck \/ UNCHANGED far
  BY <1>1 DEF StepEvent, ToConnecting, relay, far
<1>2. ASSUME NEW t \in Threads, Session(t)
      PROVE  (\E line : Send(line)) \/ ConnectCheck \/ UNCHANGED far
  <2>1. CASE Attempt(t)
    BY <2>1 DEF Attempt, relay, far
  <2>2. CASE Drive(t)
    BY <2>2, <1>1 DEF Drive, relay, far
  <2>3. CASE Nap(t)
    BY <2>3, <1>1 DEF Nap, relay, far, DisconnectEvent, ToConnecting
  <2>4. CASE SendUser(t) \/ SendPass(t)
    BY <2>4 DEF SendUser, SendPass
  <2>5. CASE Fire(t)
    BY <2>5 DEF Fire
  <2>6. CASE SendL2Pass(t) \/ SendL2Command(t) \/ SendAcc(t)
    BY <2>6 DEF SendL2Pass, SendL2Command, SendAcc
  <2>7. CASE Decide(t)
    BY <2>7 DEF Decide, relay, far, DisconnectEvent, ToConnecting
  <2>8. QED
    BY <1>2, <2>1, <2>2, <2>3, <2>4, <2>5, <2>6, <2>7 DEF Session
<1>3. CASE Kick
  BY <1>3 DEF Kick, StartEvent, DisconnectEvent, ToConnecting, relay, far
<1>4. CASE (\E t \in Threads : Lock(t) \/ Throw(t)) \/ Take \/ Backoff \/ Exit
  BY <1>4 DEF Lock, Throw, Take, Backoff, Exit, relay, far
<1>5. CASE \E u \in Users, c \in Commands : Call(u, c)
  BY <1>5 DEF Call, relay, far
<1>6. CASE (\E c \in Commands : QueueCommand(c)) \/ Stop \/ Environment \/ UNCHANGED vars
  BY <1>6 DEF QueueCommand, Stop, Environment, LinkDown, Change, Settle, relay, far, vars
<1>7. QED
  BY <1>2, <1>3, <1>4, <1>5, <1>6 DEF Next

LEMMA DeadStep ==
  ASSUME DeadInv, [Next]_vars
  PROVE  DeadInv'
<1>1. ASSUME NEW line, Send(line) PROVE DeadInv'
  BY <1>1 DEF Send, far, DeadInv
<1>2. QED
  BY <1>1, Exchange DEF ConnectCheck, LinkDown, far, DeadInv

(* A step of a session that is not upset and stays so. *)
LEMMA LevelStep ==
  ASSUME CommandsAreCommands, IInv, ElevatedInv, wire = <<>>, DeadInv, LevelInv, [Next]_vars, ~upset'
  PROVE  LevelInv'
<1>. DEFINE Low == PCs \ High
<1>0. Low = {"attempt", "drive", "nap", "user", "pass", "fire", "2ac", "l2pass", "decide",
             "idle", "lock", "start", "restart", "wait", "backoff", "exit"}
  BY DEF PCs, Inside, High
<1>. HIDE DEF Low
<1>00. Low = PCs \ High
  BY DEF Low
<1>1. ASSUME NEW t \in Threads, pc[t] \in Low, \E label \in Low : Goto(t, label),
             \/ UNCHANGED <<alive, level, asking>>
             \/ ConnectCheck
             \/ pc[t] \in Inside /\ \E line : line # "l2pass" /\ Send(line)
      PROVE  LevelInv'
  <2>1. Tame /\ (asking' \in {asking, "no"} \/ pc[t] \in Inside)
    BY <1>1, TameStill, TameConnect, TameSend
  <2>2. QED
    BY <1>1, <1>00, <2>1, LevelKeptBy
<1>2. ASSUME NEW t \in Threads, Drive(t) \/ Nap(t) PROVE LevelInv'
  <2>1. pc[t] \in Low /\ pc[t] \in Inside
    BY <1>2, <1>0 DEF Drive, Nap, Inside
  <2>2. \E label \in Low : Goto(t, label)
    BY <1>2, <1>0 DEF Drive, BeforeNap, Nap, Return
  <2>3. ASSUME NEW next, StepEvent(next) PROVE ConnectCheck \/ UNCHANGED <<alive, level, asking>>
    BY <2>3 DEF StepEvent, ToConnecting, relay
  <2>4. \/ UNCHANGED <<alive, level, asking>>
        \/ ConnectCheck
        \/ Send("screen")
    <3>1. CASE Drive(t)
      BY <2>3, <3>1 DEF Drive, relay
    <3>2. CASE Nap(t)
      BY <2>3, <3>2 DEF Nap, relay, DisconnectEvent, ToConnecting
    <3>3. QED
      BY <1>2, <3>1, <3>2
  <2>5. QED
    BY <1>1, <2>1, <2>2, <2>4
<1>3. ASSUME NEW t \in Threads, Attempt(t) \/ Decide(t) \/ Lock(t) PROVE LevelInv'
  <2>1. CASE Attempt(t)
    BY <1>0, <1>1, <2>1 DEF Attempt, Return, relay
  <2>2. CASE Decide(t)
    BY <1>0, <1>1, <2>2 DEF Decide, Return, relay, DisconnectEvent, ToConnecting
  <2>3. CASE Lock(t)
    BY <1>0, <1>1, <2>3 DEF Lock, relay
  <2>4. QED
    BY <1>3, <2>1, <2>2, <2>3
<1>4. ASSUME NEW t \in Threads, SendUser(t) \/ SendPass(t) PROVE LevelInv'
  <2>1. /\ pc[t] \in Low /\ pc[t] \in Inside /\ \E label \in Low : Goto(t, label)
        /\ \E line : line # "l2pass" /\ Send(line)
    BY <1>0, <1>4 DEF SendUser, SendPass, Inside
  <2>2. QED
    BY <1>1, <2>1
<1>5. ASSUME NEW t \in Threads, Fire(t) PROVE LevelInv'
  <2>1. /\ pc[t] \in Low /\ pc[t] \in Inside /\ \E label \in Low : Goto(t, label)
        /\ Send(cmd[t]) \/ Send("2ac")
    BY <1>0, <1>5 DEF Fire, Inside
  <2>2. cmd[t] # "l2pass"
    BY DEF IInv, TypeOK, CommandsAreCommands
  <2>3. QED
    BY <1>1, <2>1, <2>2
<1>6. CASE Kick
  BY <1>0, <1>1, <1>6 DEF Kick, StartEvent, DisconnectEvent, ToConnecting, relay, Threads
<1>7. CASE Take \/ Backoff \/ Exit
  BY <1>0, <1>1, <1>7 DEF Take, Backoff, Exit, relay, Threads
<1>8. ASSUME NEW u \in Users, NEW c \in Commands, Call(u, c) PROVE LevelInv'
  BY <1>0, <1>1, <1>8 DEF Call, relay, Threads
<1>9. CASE LinkDown
  <2>1. level' = 0 /\ asking' = "no" /\ UNCHANGED pc
    BY <1>9 DEF LinkDown, threads
  <2>2. QED
    BY <2>1 DEF LevelInv, LevelTwoNeverKept
<1>10. CASE (\E c \in Commands : QueueCommand(c)) \/ Stop \/ Change \/ Settle \/ UNCHANGED vars
  <2>1. UNCHANGED <<alive, level, asking, pc>>
    BY <1>10 DEF QueueCommand, Stop, Change, Settle, threads, relay, vars
  <2>2. QED
    BY <2>1 DEF LevelInv, LevelTwoNeverKept
<1>11. ASSUME NEW t \in Threads, Throw(t) PROVE LevelInv'
  <2>1. pc[t] \notin High /\ UNCHANGED <<alive, level, asking>>
    BY <1>11 DEF Throw, High, far
  <2>2. \E label \in Low : Goto(t, label)
    BY <1>0, <1>11 DEF Throw
  <2>3. pc[t] \in Low
    BY <1>00, <2>1 DEF IInv, TypeOK
  <2>4. QED
    BY <1>1, <2>1, <2>2, <2>3
<1>12. ASSUME NEW t \in Threads, SendL2Pass(t) \/ SendL2Command(t) \/ SendAcc(t) PROVE LevelInv'
  <2>1. SendL2Command(t) => cmd[t] \in L2Commands
    BY DEF SendL2Command, ElevatedInv
  <2>2. QED
    BY <1>12, <2>1, LevelL2Pass, LevelL2Command, LevelAcc
<1>13. QED
  BY <1>2, <1>3, <1>4, <1>5, <1>6, <1>7, <1>8, <1>9, <1>10, <1>11, <1>12
  DEF Next, Session, Environment

LEMMA QuietInvStep ==
  ASSUME CommandsAreCommands, IInv, ElevatedInv, WireEmpty, QuietInv, [Next]_vars
  PROVE  QuietInv'
<1>1. DeadInv'
  BY DeadStep DEF QuietInv
<1>2. ASSUME ~upset' PROVE LevelInv'
  <2>1. CASE ConnectCheck
    BY <2>1, FreshLevel
  <2>2. CASE StaysUpset
    <3>1. ~upset /\ wire = <<>> /\ DeadInv /\ LevelInv
      BY <1>2, <2>2 DEF StaysUpset, WireEmpty, QuietInv
    <3>2. QED
      BY <1>2, <3>1, LevelStep
  <2>3. QED
    BY <2>1, <2>2, WireStep
<1>3. QED
  BY <1>1, <1>2 DEF QuietInv

(* "ACC - back to Level 1 for safety" (relay_pipeline.hpp:231): level 2 is *)
(* never held outside a level 2 command, wherever in it the session drops, *)
(* the relay refuses or the thread stops, and whoever else throws, until   *)
(* on the same TCP session an answer comes too late or an exception hits   *)
(* the command between the elevation and ACC; 2AC and ACC may be commands  *)
(* of users.  L2Commands are PAS, DATE and TIME in the code.               *)
THEOREM LevelTwoGivenBack ==
  ASSUME CommandsAreCommands
  PROVE  Spec => []LevelTwoOnlyInside
<1>1. Init => WireEmpty /\ QuietInv /\ ElevatedInv
  BY DEF Init, WireEmpty, QuietInv, DeadInv, LevelInv, LevelTwoNeverKept, High, ElevatedInv
<1>2. (IInv /\ WireEmpty /\ QuietInv /\ ElevatedInv) /\ [Next]_vars
        => (IInv /\ WireEmpty /\ QuietInv /\ ElevatedInv)'
  BY NextIInv, WireStep, QuietInvStep, ElevatedStep
<1>3. QuietInv => LevelTwoOnlyInside
  BY DEF QuietInv, LevelInv, LevelTwoOnlyInside
<1>4. QED
  BY <1>1, <1>2, <1>3, InitIInv, PTL DEF Spec

-----------------------------------------------------------------------------
(* A session that is lost *)

(* The machine has its session, and the link under it is gone. *)
Dead == fsm = "Operational" /\ ~alive

(* runLoop()'s restart after an exception is the only way out of           *)
(* Operational (relay_pipeline.hpp:145-160): disconnect_event comes from   *)
(* nowhere else.                                                           *)
OnlyRestartReconnects ==
  [][fsm = "Operational" => fsm' = "Operational" \/ pc[Rx] = "restart"]_vars

(* A link that fails stays failed, until ConnectCheck() makes a new one. *)
Stays == fsm' = fsm /\ (alive' => alive)

(* No call but connectCheck() makes a link. *)
LEMMA SendStays ==
  ASSUME NEW line, Send(line)
  PROVE  alive' => alive
BY DEF Send, far

(* What the thread that has the lock does to the session. *)
LEMMA SessionStays ==
  ASSUME IInv, fsm = "Operational", NEW t \in Threads, Session(t)
  PROVE  Stays
<1>1. CASE Attempt(t)
  BY <1>1 DEF Attempt, Stays, relay
<1>2. CASE Drive(t)
  BY <1>2, SendStays DEF Drive, Stays, relay
<1>3. CASE Nap(t)
  BY <1>3 DEF Nap, StepEvent, Stays, relay
<1>4. CASE SendUser(t)
  BY <1>4, SendStays DEF SendUser, Stays
<1>5. CASE SendPass(t)
  BY <1>5, SendStays DEF SendPass, Stays
<1>6. CASE Fire(t)
  BY <1>6, SendStays DEF Fire, Stays
<1>7. CASE SendL2Pass(t) \/ SendL2Command(t) \/ SendAcc(t)
  BY <1>7, SendStays DEF SendL2Pass, SendL2Command, SendAcc, Stays
<1>8. CASE Decide(t)
  BY <1>8 DEF Decide, IInv, NeverConnLost, Stays, relay
<1>9. QED
  BY <1>1, <1>2, <1>3, <1>4, <1>5, <1>6, <1>7, <1>8 DEF Session

(* ... and what everybody else does. *)
LEMMA NextStays ==
  ASSUME IInv, fsm = "Operational", [Next]_vars, pc[Rx] # "restart"
  PROVE  Stays
<1>1. ASSUME NEW t \in Threads, Lock(t) \/ Throw(t)  PROVE  Stays
  BY <1>1 DEF Lock, Throw, Stays, relay, far
<1>2. CASE Kick
  BY <1>2 DEF Kick, StartEvent, Stays, relay
<1>3. CASE Take \/ Backoff \/ Exit
  BY <1>3 DEF Take, Backoff, Exit, Stays, relay
<1>4. ASSUME NEW u \in Users, NEW c \in Commands, Call(u, c)  PROVE  Stays
  BY <1>4 DEF Call, Stays, relay
<1>5. CASE (\E c \in Commands : QueueCommand(c)) \/ Stop
  BY <1>5 DEF QueueCommand, Stop, Stays, relay
<1>6. CASE Environment
  BY <1>6 DEF Environment, LinkDown, Change, Settle, Stays, relay
<1>7. CASE UNCHANGED vars
  BY <1>7 DEF vars, Stays
<1>8. QED
  BY <1>1, <1>2, <1>3, <1>4, <1>5, <1>6, <1>7, SessionStays DEF Next

(* However commands fail, time out and are retried, the machine keeps its *)
(* session until the worker restarts.                                     *)
THEOREM SessionIsKept == Spec => OnlyRestartReconnects
<1>1. IInv /\ [Next]_vars => [fsm = "Operational" => fsm' = "Operational" \/ pc[Rx] = "restart"]_vars
  BY NextStays DEF Stays
<1>2. QED
  BY <1>1, AlwaysIInv, PTL DEF Spec, OnlyRestartReconnects

(* Without an exception the worker never restarts. *)
NoRestart == pc[Rx] \notin {"backoff", "restart"}

(* ... because only Throw leads to a restart. *)
LEMMA NoRestartStep ==
  ASSUME ~Exceptions, IInv, NoRestart, [Next]_vars
  PROVE  NoRestart'
<1>. pc \in [Threads -> PCs] /\ Rx \in Threads
  BY DEF IInv, TypeOK, Threads
<1>1. ASSUME NEW t \in Threads, Session(t)  PROVE  NoRestart'
  BY <1>1 DEF Session, Attempt, Drive, BeforeNap, Nap, SendUser, SendPass, Fire, SendL2Pass,
              SendL2Command, SendAcc, Decide, Return, Goto, NoRestart
<1>2. ASSUME NEW t \in Threads, Lock(t) \/ Throw(t)  PROVE  NoRestart'
  BY <1>2 DEF Lock, Throw, Goto, NoRestart
<1>3. CASE Kick \/ Take \/ Backoff \/ Exit
  BY <1>3 DEF Kick, Take, Backoff, Exit, Goto, NoRestart
<1>4. ASSUME NEW u \in Users, NEW c \in Commands, Call(u, c)  PROVE  NoRestart'
  BY <1>4, SessionAssumption DEF Call, Goto, NoRestart
<1>5. CASE (\E c \in Commands : QueueCommand(c)) \/ Stop \/ Environment \/ UNCHANGED vars
  BY <1>5 DEF QueueCommand, Stop, Environment, LinkDown, Change, Settle, threads, vars, NoRestart
<1>6. QED
  BY <1>1, <1>2, <1>3, <1>4, <1>5 DEF Next

(* client.cpp:258, relay_pipeline.hpp:365-370: when no exception leaves    *)
(* the session's code, a session that was lost while the machine was       *)
(* Operational is never replaced, whatever commands come, fail and are     *)
(* retried and however the relay behaves afterwards.                       *)
THEOREM DropIsForGood ==
  ASSUME ~Exceptions
  PROVE  Spec => [](Dead => []Dead)
<1>1. Init => NoRestart
  BY SessionAssumption DEF Init, NoRestart, Threads
<1>2. IInv /\ NoRestart /\ [Next]_vars => NoRestart'
  BY NoRestartStep
<1>3. IInv /\ NoRestart /\ [Next]_vars => (Dead => Dead')
  BY NextStays DEF Stays, NoRestart, Dead
<1>4. QED
  BY <1>1, <1>2, <1>3, AlwaysIInv, PTL DEF Spec

(* No session is one that a restart began. *)
LEMMA SizedStep ==
  ASSUME NoRestart, screened # "restart", [Next]_vars
  PROVE  screened' # "restart"
<1>1. ASSUME NEW line, Send(line) PROVE screened' # "restart"
  BY <1>1 DEF Send
<1>2. ASSUME NEW next, StepEvent(next) PROVE screened' # "restart"
  BY <1>2 DEF StepEvent, ToConnecting, relay
<1>3. ASSUME NEW t \in Threads, Session(t) PROVE screened' # "restart"
  <2>1. CASE Attempt(t)
    BY <2>1 DEF Attempt, relay
  <2>2. CASE Drive(t)
    BY <2>2, <1>1, <1>2 DEF Drive, relay
  <2>3. CASE Nap(t)
    BY <2>3, <1>2 DEF Nap, relay, DisconnectEvent, ToConnecting
  <2>4. CASE SendUser(t) \/ SendPass(t)
    BY <2>4, <1>1 DEF SendUser, SendPass
  <2>5. CASE Fire(t)
    BY <2>5, <1>1 DEF Fire
  <2>6. CASE SendL2Pass(t) \/ SendL2Command(t) \/ SendAcc(t)
    BY <2>6, <1>1 DEF SendL2Pass, SendL2Command, SendAcc
  <2>7. CASE Decide(t)
    BY <2>7 DEF Decide, relay, DisconnectEvent, ToConnecting
  <2>8. QED
    BY <1>3, <2>1, <2>2, <2>3, <2>4, <2>5, <2>6, <2>7 DEF Session
<1>4. CASE Kick
  BY <1>4 DEF Kick, NoRestart, StartEvent, ToConnecting, relay
<1>5. CASE (\E t \in Threads : Lock(t) \/ Throw(t)) \/ Take \/ Backoff \/ Exit
  BY <1>5 DEF Lock, Throw, Take, Backoff, Exit, relay
<1>6. CASE \E u \in Users, c \in Commands : Call(u, c)
  BY <1>6 DEF Call, relay
<1>7. CASE (\E c \in Commands : QueueCommand(c)) \/ Stop \/ Environment \/ UNCHANGED vars
  BY <1>7 DEF QueueCommand, Stop, Environment, LinkDown, Change, Settle, relay, vars
<1>8. QED
  BY <1>3, <1>4, <1>5, <1>6, <1>7 DEF Next

(* "Reset on reconnect" (relay_pipeline.hpp:168) is true of every          *)
(* reconnect but one: when no exception leaves the session's code, no      *)
(* command goes out on a TCP session before SET S was sent on it.          *)
THEOREM SessionsSized ==
  ASSUME ~Exceptions
  PROVE  Spec => []EverySessionSized
<1>1. Init => NoRestart /\ screened # "restart" /\ ScreenInv
  BY SessionAssumption DEF Init, NoRestart, ScreenInv, Threads
<1>2. (IInv /\ ScreenInv /\ NoRestart /\ screened # "restart") /\ [Next]_vars
        => (IInv /\ ScreenInv /\ NoRestart /\ screened # "restart")'
  BY NextIInv, ScreenStep, NoRestartStep, SizedStep
<1>3. IInv /\ ScreenInv /\ screened # "restart" => EverySessionSized
  BY DEF IInv, TypeOK, LockInv, ScreenInv, EverySessionSized
<1>4. QED
  BY <1>1, <1>2, <1>3, InitIInv, PTL DEF Spec
=============================================================================
