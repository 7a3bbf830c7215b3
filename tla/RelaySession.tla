---------------------------- MODULE RelaySession ----------------------------
(***************************************************************************)
(* The telnet session of one relay: PipelineReceptionWorker                *)
(* (relay_pipeline.hpp) with its two state machines, RelayConnectionFSM    *)
(* and RelayCommandFSM (telnet_fsm.hpp), over TelnetClient (client.cpp),   *)
(* and the relay at the other end of the wire.                             *)
(*                                                                         *)
(* Two kinds of threads use the session: the worker thread Rx, which takes *)
(* commands off command_queue_, and Users, which call handleUserCommand(). *)
(* sync_cmd_mutex_ lets one of them at a time drive the machines; each     *)
(* step of a thread that does I/O is one call of TelnetClient.             *)
(***************************************************************************)
EXTENDS Naturals, Sequences

CONSTANTS
  Rx,             \* the worker thread
  Users,          \* the threads that call handleUserCommand()
  Nobody,         \* the owner of a mutex that is free
  FsmCommands,    \* commands RelayCommandFSM sends: SER, TAR, FILE DIR ..., SET
  RawCommands,    \* commands fireCommandEvent() sends itself: EVE, generic ones
  L2Commands,     \* commands that need access level 2: PAS, DATE x, TIME x
  MaxRetries,     \* MAX_RETRIES, attempts per command
  LoginRetries,   \* RetryState::max_retries
  SlowAnswers,    \* may the relay answer after the client gave up waiting?
  Exceptions,     \* may an exception leave the session's code?
  EarlyUsers,     \* may a user command come before the worker's start_event?
  MaxQueue,       \* bound of the model: commands waiting in command_queue_
  MaxWire         \* bound of the model: answers that are late at one time

ASSUME SessionAssumption ==
  /\ Rx \notin Users
  /\ Nobody \notin Users \union {Rx}
  /\ MaxRetries \in Nat \ {0}
  /\ LoginRetries \in Nat
  /\ SlowAnswers \in BOOLEAN
  /\ Exceptions \in BOOLEAN
  /\ EarlyUsers \in BOOLEAN

Threads == Users \union {Rx}
Commands == FsmCommands \union RawCommands \union L2Commands

(* What is sent over the wire, one line at a time, and what an answer to   *)
(* it looks like to the code: "ok" ends at the prompt =>, "ask" is a       *)
(* question such as "Password: ?", "bad" has the word Invalid and no       *)
(* prompt character in its last 30, "badask" has both.                     *)
Lines == Commands \union {"user", "pass", "screen", "2ac", "l2pass", "acc"}
Replies == {"ok", "ask", "bad", "badask"}
Answers == [to : Lines, says : Replies]

FsmStates == {"Idle", "Connecting", "ConnectWait", "Login_L1", "LoginRetryWait",
              "Operational", "Error"}
FailReasons == {"NONE", "TIMEOUT", "CONN_LOST"}

VARIABLES
  fsm,            \* the state of RelayConnectionFSM
  retry,          \* RetryState::current_attempt
  connected,      \* TelnetClient::connected_
  open,           \* socket_.is_open()
  last_io_ok,     \* TelnetClient::last_io_ok_
  last_response,  \* TelnetClient::last_response_, as the answers in it
  screen,         \* screen_size_configured_
  success,        \* CmdResponseHolder::success
  response,       \* CmdResponseHolder::response, as the answers in it
  failReason,     \* CmdResponseHolder::failReason
  queue,          \* command_queue_
  mutex,          \* the owner of sync_cmd_mutex_
  stop,           \* stop_flag_
  pc,             \* pc[t]: where thread t is
  cmd,            \* cmd[t]: the command t executes
  attempt         \* attempt[t]: the attempt t is at

(* The relay and the network: *)
VARIABLES
  reach,          \* the relay accepts connections
  alive,          \* the TCP session under socket_ still works
  accept,         \* the relay takes the configured passwords
  level,          \* access level of the relay's session, 0, 1 or 2
  asking,         \* which password the relay waits for: "no", "L1", "L2"
  wire,           \* answers the relay owes or has sent and nobody has read
  calm            \* no more faults from now on

(* History: *)
VARIABLES
  denied,         \* passwords the relay refused since the machine last was Operational
                  \* or in Error (counted up to LoginRetries + 2)
  screened,       \* has SET S been sent on this TCP session: "no", "yes", or "restart"
                  \* if the session was begun by the restart after an exception
  upset           \* on this TCP session an answer was left unread, or an exception
                  \* interrupted a command at level 2

client == <<connected, open, last_io_ok, last_response>>
holder == <<success, response, failReason>>
far == <<alive, level, asking, wire>>
relay == <<alive, level, asking, wire, screened, upset>>
faults == <<reach, accept, calm>>
threads == <<pc, cmd, attempt, mutex>>
vars == <<fsm, retry, connected, open, last_io_ok, last_response, screen,
          success, response, failReason, queue, mutex, stop, pc, cmd, attempt,
          reach, alive, accept, level, asking, wire, calm, denied, screened, upset>>

(* Where a thread that owns sync_cmd_mutex_ can be. *)
Inside == {"attempt", "drive", "nap", "user", "pass", "fire", "2ac", "l2pass", "l2cmd",
           "acc", "decide"}
PCs == Inside \union {"idle", "lock", "start", "restart", "wait", "backoff", "exit"}

TypeOK ==
  /\ fsm \in FsmStates
  /\ retry \in Nat
  /\ connected \in BOOLEAN /\ open \in BOOLEAN /\ last_io_ok \in BOOLEAN
  /\ last_response \in Seq(Answers)
  /\ screen \in BOOLEAN
  /\ success \in BOOLEAN /\ response \in Seq(Answers) /\ failReason \in FailReasons
  /\ queue \in Seq(Commands)
  /\ mutex \in Threads \union {Nobody}
  /\ stop \in BOOLEAN
  /\ pc \in [Threads -> PCs]
  /\ cmd \in [Threads -> Commands]
  /\ attempt \in [Threads -> 1 .. MaxRetries]
  /\ reach \in BOOLEAN /\ alive \in BOOLEAN /\ accept \in BOOLEAN /\ calm \in BOOLEAN
  /\ level \in 0 .. 2
  /\ asking \in {"no", "L1", "L2"}
  /\ wire \in Seq(Answers)
  /\ denied \in Nat
  /\ screened \in {"no", "yes", "restart"} /\ upset \in BOOLEAN

Init ==
  /\ fsm = "Idle" /\ retry = 0
  /\ connected = FALSE /\ open = FALSE /\ last_io_ok = FALSE /\ last_response = <<>>
  /\ screen = FALSE
  /\ success = FALSE /\ response = <<>> /\ failReason = "NONE"
  /\ queue = <<>>
  /\ mutex = Nobody
  /\ stop = FALSE
  /\ pc = [t \in Threads |-> IF t = Rx THEN "start" ELSE "idle"]
  /\ cmd \in {[t \in Threads |-> c] : c \in Commands}
  /\ attempt = [t \in Threads |-> 1]
  /\ reach \in BOOLEAN /\ accept \in BOOLEAN /\ calm = FALSE
  /\ alive = FALSE /\ level = 0 /\ asking = "no" /\ wire = <<>>
  /\ denied = 0 /\ screened = "no" /\ upset = FALSE

-----------------------------------------------------------------------------
(* TelnetClient *)

(* connectCheck(), after clearLastResponse().  The old socket is closed in *)
(* every case.  The attempt can fail although the relay is up (time-out,   *)
(* reset); a socket whose connect failed may stay open; and when the timer *)
(* has already expired as the connection completes, its handler closes the *)
(* socket that was just connected.                                         *)
ConnectCheck ==
  /\ last_response' = <<>>
  /\ level' = 0 /\ asking' = "no" /\ wire' = <<>> /\ upset' = FALSE
  /\ \/ /\ reach
        /\ connected' = TRUE /\ last_io_ok' = TRUE
        /\ open' = TRUE /\ alive' = TRUE
     \/ /\ reach /\ ~calm
        /\ connected' = TRUE /\ last_io_ok' = TRUE
        /\ open' = FALSE /\ alive' = FALSE
     \/ /\ ~reach \/ ~calm
        /\ connected' = FALSE /\ last_io_ok' = FALSE
        /\ open' \in BOOLEAN /\ alive' = FALSE

(* What the relay makes of a line: while it waits for a password every     *)
(* line is one.                                                            *)
Elevates(line) == \/ asking = "L1" /\ line = "pass"
                  \/ asking = "L2" /\ line = "l2pass"

RelayTakes(line, says) ==
  \/ /\ asking # "no" /\ asking' = "no"
     /\ IF accept /\ Elevates(line)
        THEN says = "ok" /\ level' = IF asking = "L1" THEN 1 ELSE 2
        ELSE says \in {"bad", "badask"} /\ UNCHANGED level
  \/ /\ asking = "no" /\ line = "2ac" /\ level > 0
     /\ asking' = "L2" /\ says = "ask" /\ UNCHANGED level
  \/ /\ asking = "no" /\ line \in {"user", "acc"} /\ level = 0
     /\ asking' = "L1" /\ says = "ask" /\ UNCHANGED level
  \/ /\ asking = "no" /\ line \in {"user", "acc"} /\ level > 0
     /\ level' = 1 /\ says = "ok" /\ UNCHANGED asking
  \/ /\ asking = "no" /\ line \notin {"2ac", "user", "acc"}
     /\ \/ says = "ok" /\ (level = 2 \/ (level = 1 /\ line \notin L2Commands))
        \/ says = "bad" /\ (level = 0 \/ line \in L2Commands)
     /\ UNCHANGED <<level, asking>>
  \/ /\ asking = "no" /\ line = "2ac" /\ level = 0
     /\ says = "bad" /\ UNCHANGED <<level, asking>>

(* SendCmdReceiveData(line).  It returns last_io_ok_.  It reads whatever   *)
(* comes first: nothing tells the answer to this line from a late one to   *)
(* an earlier line.  SendCmdMultiPage() only repeats it for the pages of   *)
(* one answer.                                                             *)
Send(line) ==
  /\ UNCHANGED <<connected, open>>
  /\ screened' = IF line = "screen" THEN "yes" ELSE screened
  /\ \/ /\ ~(connected /\ open)
        /\ last_io_ok' = FALSE
        /\ UNCHANGED <<last_response, far, upset>>
     \/ /\ connected /\ open /\ ~alive
        /\ last_io_ok' = FALSE /\ last_response' = <<>>
        /\ UNCHANGED <<far, upset>>
     \/ /\ connected /\ open /\ alive
        /\ \E says \in Replies, n \in 0 .. Len(wire) + 1 :
             /\ RelayTakes(line, says)
             /\ n = 0 => SlowAnswers /\ ~calm /\ Len(wire) < MaxWire
             /\ (~SlowAnswers => n = Len(wire) + 1)
             /\ LET all == Append(wire, [to |-> line, says |-> says])
                IN  /\ last_response' = SubSeq(all, 1, n)
                    /\ wire' = SubSeq(all, n + 1, Len(all))
             /\ last_io_ok' = (n > 0)
        /\ upset' = (upset \/ wire' # <<>>)
        /\ UNCHANGED alive

(* What the call just made left in its caller's (fresh) buffer. *)
Received == IF last_io_ok' THEN last_response' ELSE <<>>

Has(out, replies) == \E i \in 1 .. Len(out) : out[i].says \in replies

(* hasPrompt(): a prompt character among the last 30 *)
HasPrompt(out) == out # <<>> /\ out[Len(out)].says \in {"ok", "ask", "badask"}

-----------------------------------------------------------------------------
(* RelayConnectionFSM: process_event(), which runs the entry action of the *)
(* state it enters.  An event that the current state has no transition for *)
(* is ignored.                                                             *)

(* Into "Connecting", whose entry action connects: a new TCP session, with *)
(* nothing sent on it.                                                     *)
ToConnecting(unsized) ==
  /\ fsm' = "Connecting"
  /\ ConnectCheck
  /\ screened' = unsized
  /\ UNCHANGED <<retry, denied>>

StartEvent ==
  IF fsm = "Idle" THEN ToConnecting("no")
  ELSE UNCHANGED <<fsm, retry, denied, client, relay>>

(* Mutant: an Error state that is terminal. *)
DisconnectWhenOperational(unsized) ==
  IF fsm = "Operational" THEN ToConnecting(unsized)
  ELSE UNCHANGED <<fsm, retry, denied, client, relay>>

DisconnectEvent(unsized) ==
  IF fsm \in {"Operational", "Error"} THEN ToConnecting(unsized)
  ELSE UNCHANGED <<fsm, retry, denied, client, relay>>

(* Mutant: logins that are retried without limit. *)
UnlimitedRetries ==
  IF last_io_ok /\ HasPrompt(last_response) THEN "Operational"
  ELSE IF Has(last_response, {"bad", "badask"}) THEN "LoginRetryWait" ELSE "ConnectWait"

(* The guards of Login_L1, in the order of the table. *)
LoginOutcome ==
  IF last_io_ok /\ HasPrompt(last_response) THEN "Operational"
  ELSE IF Has(last_response, {"bad", "badask"})
       THEN IF retry < LoginRetries THEN "LoginRetryWait" ELSE "Error"
       ELSE "ConnectWait"

(* The entry actions of the states a login ends in. *)
CountRetries ==
  retry' = IF fsm' \in {"Operational", "Error"} THEN 0
           ELSE IF fsm' = "LoginRetryWait" THEN retry + 1 ELSE retry

(* step_event.  The entry action of Login_L1 sends the user name and the   *)
(* password: these are steps of their own, at next.                        *)
StepEvent(next) ==
  \/ /\ fsm \in {"ConnectWait", "LoginRetryWait"}
     /\ ToConnecting("no") /\ next = "drive"
  \/ /\ fsm = "Connecting" /\ last_io_ok
     /\ fsm' = "Login_L1" /\ next = "user"
     /\ last_response' = <<>>
     /\ UNCHANGED <<retry, denied, connected, open, last_io_ok, relay>>
  \/ /\ fsm = "Connecting" /\ ~last_io_ok
     /\ fsm' = "ConnectWait" /\ next = "drive"
     /\ UNCHANGED <<retry, denied, client, relay>>
  \/ /\ fsm = "Login_L1" /\ next = "drive"
     /\ fsm' = LoginOutcome
     /\ CountRetries
     /\ denied' = IF fsm' \in {"Operational", "Error"} THEN 0 ELSE denied
     /\ UNCHANGED <<client, relay>>
  \/ /\ fsm = "Idle" /\ next = "drive"
     /\ UNCHANGED <<fsm, retry, denied, client, relay>>

-----------------------------------------------------------------------------
(* PipelineReceptionWorker: what a thread does while it owns the mutex *)

Goto(t, label) == pc' = [pc EXCEPT ![t] = label]

(* executeCommand() or handleUserCommand() returns and drops the mutex. *)
Return(t) ==
  /\ Goto(t, IF t = Rx THEN "wait" ELSE "idle")
  /\ mutex' = Nobody

(* The head of the attempts' loop. *)
Attempt(t) ==
  /\ pc[t] = "attempt"
  /\ IF stop THEN Return(t) ELSE Goto(t, "drive") /\ UNCHANGED mutex
  /\ UNCHANGED <<fsm, retry, denied, client, screen, holder, queue, stop, cmd, attempt,
                 relay, faults>>

(* Mutant: a reset of the flag that is missing in the wait states. *)
ResetInErrorOnly(t) ==
  /\ fsm \in {"Error", "ConnectWait", "LoginRetryWait"}
  /\ screen' = (screen /\ fsm # "Error")
  /\ Goto(t, "nap")

(* driveToOperational() in Error or in a wait state: before it sleeps it   *)
(* notes that SET S has to be sent again.                                  *)
BeforeNap(t) ==
  /\ fsm \in {"Error", "ConnectWait", "LoginRetryWait"}
  /\ screen' = FALSE
  /\ Goto(t, "nap")

(* One turn of the loop of driveToOperational(). *)
Drive(t) ==
  /\ pc[t] = "drive"
  /\ \/ /\ stop /\ Return(t)
        /\ UNCHANGED <<fsm, retry, denied, client, screen, relay>>
     \/ /\ ~stop /\ fsm = "Operational" /\ screen
        /\ Goto(t, "fire")
        /\ UNCHANGED <<fsm, retry, denied, client, screen, mutex, relay>>
     \/ /\ ~stop /\ fsm = "Operational" /\ ~screen
        /\ Send("screen")
        /\ screen' = TRUE
        /\ Goto(t, "fire")
        /\ UNCHANGED <<fsm, retry, denied, mutex>>
     \/ /\ ~stop /\ BeforeNap(t)
        /\ UNCHANGED <<fsm, retry, denied, client, mutex, relay>>
     \/ /\ ~stop /\ fsm \in {"Idle", "Connecting", "Login_L1"}
        /\ \E next \in {"drive", "user"} : StepEvent(next) /\ Goto(t, next)
        /\ UNCHANGED <<screen, mutex>>
  /\ UNCHANGED <<holder, queue, stop, cmd, attempt, faults>>

(* The sleep of driveToOperational() is over: 60 s in Error, 5 s in a wait *)
(* state, cut short by stop_flag_.                                         *)
Nap(t) ==
  /\ pc[t] = "nap"
  /\ \/ /\ stop /\ Return(t)
        /\ UNCHANGED <<fsm, retry, denied, client, relay>>
     \/ /\ ~stop /\ Goto(t, "drive")
        /\ IF fsm = "Error" THEN DisconnectEvent("no") ELSE StepEvent("drive")
        /\ UNCHANGED mutex
  /\ UNCHANGED <<screen, holder, queue, stop, cmd, attempt, faults>>

(* LoginLevel1Function() *)
SendUser(t) ==
  /\ pc[t] = "user"
  /\ Send("user")
  /\ Goto(t, IF last_io_ok' THEN "pass" ELSE "drive")
  /\ UNCHANGED <<fsm, retry, denied, screen, holder, queue, mutex, stop, cmd, attempt, faults>>

SendPass(t) ==
  /\ pc[t] = "pass"
  /\ Send("pass")
  /\ denied' = IF connected /\ open /\ alive /\ level' = 0 /\ denied < LoginRetries + 2
               THEN denied + 1 ELSE denied
  /\ Goto(t, "drive")
  /\ UNCHANGED <<fsm, retry, screen, holder, queue, mutex, stop, cmd, attempt, faults>>

(* How the actions of RelayCommandFSM classify the outcome of a command. *)
CmdFailure == IF success' THEN "NONE" ELSE IF ~connected' THEN "CONN_LOST" ELSE "TIMEOUT"

(* fireCommandEvent().  Only the actions of RelayCommandFSM set failReason. *)
(* (Its clearLastResponse() shows nowhere: the guards that read             *)
(* last_response_ follow a clearLastResponse() of their own.)               *)
Fire(t) ==
  /\ pc[t] = "fire"
  /\ \/ /\ cmd[t] \in FsmCommands \union RawCommands
        /\ Send(cmd[t])
        /\ success' = last_io_ok' /\ response' = Received
        /\ failReason' = IF cmd[t] \in FsmCommands THEN CmdFailure ELSE failReason
        /\ Goto(t, "decide")
     \/ /\ cmd[t] \in L2Commands
        /\ Send("2ac")
        /\ success' = FALSE /\ response' = <<>> /\ UNCHANGED failReason
        /\ Goto(t, IF last_io_ok' THEN "l2pass" ELSE "decide")
  /\ UNCHANGED <<fsm, retry, denied, screen, queue, mutex, stop, cmd, attempt, faults>>

(* LoginLevel2Function(), the second line.  Not elevated: nothing more is  *)
(* sent.                                                                   *)
Elevated == last_io_ok' /\ Has(last_response', {"ok"}) /\ ~Has(last_response', {"bad", "badask"})

SendL2Pass(t) ==
  /\ pc[t] = "l2pass"
  /\ Send("l2pass")
  /\ Goto(t, IF Elevated THEN "l2cmd" ELSE "decide")
  /\ UNCHANGED <<fsm, retry, denied, screen, holder, queue, mutex, stop, cmd, attempt, faults>>

(* Mutant: demotion only after success. *)
DemoteOnSuccess(t) ==
  /\ pc[t] = "l2cmd"
  /\ Send(cmd[t])
  /\ success' = (last_io_ok' /\ ~Has(Received, {"bad", "badask"}))
  /\ response' = Received
  /\ Goto(t, IF success' THEN "acc" ELSE "decide")
  /\ UNCHANGED <<fsm, retry, denied, screen, failReason, queue, mutex, stop, cmd, attempt, faults>>

SendL2Command(t) ==
  /\ pc[t] = "l2cmd"
  /\ Send(cmd[t])
  /\ success' = (last_io_ok' /\ ~Has(Received, {"bad", "badask"}))
  /\ response' = Received
  /\ Goto(t, "acc")
  /\ UNCHANGED <<fsm, retry, denied, screen, failReason, queue, mutex, stop, cmd, attempt, faults>>

(* Mutant: the reply to ACC lands in the response. *)
AccOverwrites(t) ==
  /\ pc[t] = "acc"
  /\ Send("acc")
  /\ response' = Received
  /\ Goto(t, "decide")
  /\ UNCHANGED <<fsm, retry, denied, screen, success, failReason, queue, mutex, stop, cmd,
                 attempt, faults>>

(* LogoutLevel2Function(), whose result is ignored *)
SendAcc(t) ==
  /\ pc[t] = "acc"
  /\ Send("acc")
  /\ Goto(t, "decide")
  /\ UNCHANGED <<fsm, retry, denied, screen, holder, queue, mutex, stop, cmd, attempt, faults>>

(* Mutant: attempts that are not counted. *)
DecideUncounted(t) ==
  /\ pc[t] = "decide"
  /\ IF ~success THEN Goto(t, "attempt") /\ UNCHANGED mutex ELSE Return(t)
  /\ UNCHANGED <<fsm, retry, denied, client, screen, relay, holder, queue, stop, cmd, attempt,
                 faults>>

(* The rest of the attempt: on success Rx pushes [cmd, response] into the  *)
(* raw buffer, a user gets the response.  A lost connection is given up    *)
(* before the next attempt, a time-out is not.                             *)
Decide(t) ==
  /\ pc[t] = "decide"
  /\ IF ~success /\ failReason = "CONN_LOST"
     THEN screen' = FALSE /\ DisconnectEvent("no")
     ELSE UNCHANGED <<fsm, retry, denied, client, screen, relay>>
  /\ IF ~success /\ attempt[t] < MaxRetries
     THEN /\ attempt' = [attempt EXCEPT ![t] = @ + 1]
          /\ Goto(t, "attempt") /\ UNCHANGED mutex
     ELSE /\ Return(t) /\ UNCHANGED attempt
  /\ UNCHANGED <<holder, queue, stop, cmd, faults>>

(* An exception leaves the thread's call: the lock is released, runLoop()  *)
(* catches it and backs off.                                               *)
Throw(t) ==
  /\ Exceptions /\ ~calm
  /\ pc[t] \in Inside
  /\ Goto(t, IF t = Rx THEN "backoff" ELSE "idle")
  /\ mutex' = Nobody
  /\ upset' = (upset \/ pc[t] \in {"l2cmd", "acc"})
  /\ UNCHANGED <<fsm, retry, denied, client, screen, holder, queue, stop, cmd, attempt,
                 far, screened, faults>>

-----------------------------------------------------------------------------
(* ... and while it does not *)

(* sync_cmd_mutex_ is taken, the first attempt begins. *)
Lock(t) ==
  /\ pc[t] = "lock" /\ mutex = Nobody
  /\ mutex' = t
  /\ attempt' = [attempt EXCEPT ![t] = 1]
  /\ Goto(t, "attempt")
  /\ UNCHANGED <<fsm, retry, denied, client, screen, holder, queue, stop, cmd, relay, faults>>

(* runLoop(): start_event the first time, disconnect_event after an        *)
(* exception, under the lock.  The latter begins a session without a       *)
(* reset of screen_size_configured_.                                       *)
Kick ==
  /\ pc[Rx] \in {"start", "restart"} /\ ~stop /\ mutex = Nobody
  /\ IF pc[Rx] = "start" THEN StartEvent ELSE DisconnectEvent("restart")
  /\ Goto(Rx, "wait")
  /\ UNCHANGED <<screen, holder, queue, mutex, stop, cmd, attempt, faults>>

(* The next command off the queue. *)
Take ==
  /\ pc[Rx] = "wait" /\ ~stop /\ queue # <<>>
  /\ cmd' = [cmd EXCEPT ![Rx] = Head(queue)]
  /\ queue' = Tail(queue)
  /\ Goto(Rx, "lock")
  /\ UNCHANGED <<fsm, retry, denied, client, screen, holder, attempt, mutex, stop, relay, faults>>

(* The 5 s after an exception. *)
Backoff ==
  /\ pc[Rx] = "backoff"
  /\ Goto(Rx, IF stop THEN "exit" ELSE "restart")
  /\ UNCHANGED <<fsm, retry, denied, client, screen, holder, queue, cmd, attempt, mutex,
                 stop, relay, faults>>

(* Mutant: a wait for commands that stop_flag_ does not end. *)
ExitBeforeWait ==
  /\ pc[Rx] \in {"start", "restart"} /\ stop
  /\ Goto(Rx, "exit")
  /\ UNCHANGED <<fsm, retry, denied, client, screen, holder, queue, cmd, attempt, mutex,
                 stop, relay, faults>>

Exit ==
  /\ pc[Rx] \in {"start", "restart", "wait"} /\ stop
  /\ Goto(Rx, "exit")
  /\ UNCHANGED <<fsm, retry, denied, client, screen, holder, queue, cmd, attempt, mutex,
                 stop, relay, faults>>

(* handleUserCommand(c) is called. *)
Call(u, c) ==
  /\ pc[u] = "idle" /\ ~stop
  /\ EarlyUsers \/ pc[Rx] # "start"
  /\ cmd' = [cmd EXCEPT ![u] = c]
  /\ Goto(u, "lock")
  /\ UNCHANGED <<fsm, retry, denied, client, screen, holder, queue, attempt, mutex, stop,
                 relay, faults>>

(* queueCommand(c) *)
QueueCommand(c) ==
  /\ Len(queue) < MaxQueue /\ ~stop
  /\ queue' = Append(queue, c)
  /\ UNCHANGED <<fsm, retry, denied, client, screen, holder, threads, stop, relay, faults>>

(* stop(), up to the join *)
Stop ==
  /\ ~stop /\ stop' = TRUE
  /\ UNCHANGED <<fsm, retry, denied, client, screen, holder, queue, threads, relay, faults>>

-----------------------------------------------------------------------------
(* The relay and the network *)

(* The session is lost: the relay restarts, a cable is pulled. *)
LinkDown ==
  /\ ~calm /\ alive
  /\ alive' = FALSE /\ level' = 0 /\ asking' = "no" /\ wire' = <<>>
  /\ UNCHANGED <<fsm, retry, denied, client, screen, holder, queue, threads, stop, faults,
                 screened, upset>>

(* The relay becomes reachable or not; its passwords are changed. *)
Change ==
  /\ ~calm
  /\ \/ reach' = ~reach /\ UNCHANGED accept
     \/ accept' = ~accept /\ UNCHANGED reach
  /\ UNCHANGED <<fsm, retry, denied, client, screen, holder, queue, threads, stop, relay, calm>>

(* From now on the relay is reachable, takes the passwords and answers. *)
Settle ==
  /\ ~calm
  /\ calm' = TRUE /\ reach' = TRUE /\ accept' = TRUE
  /\ UNCHANGED <<fsm, retry, denied, client, screen, holder, queue, threads, stop, relay>>

-----------------------------------------------------------------------------
Session(t) ==
  \/ Attempt(t) \/ Drive(t) \/ Nap(t) \/ SendUser(t) \/ SendPass(t)
  \/ Fire(t) \/ SendL2Pass(t) \/ SendL2Command(t) \/ SendAcc(t) \/ Decide(t)

Environment == LinkDown \/ Change \/ Settle

Next ==
  \/ \E t \in Threads : Session(t) \/ Lock(t) \/ Throw(t)
  \/ Kick \/ Take \/ Backoff \/ Exit
  \/ \E u \in Users, c \in Commands : Call(u, c)
  \/ \E c \in Commands : QueueCommand(c)
  \/ Stop
  \/ Environment

Spec == Init /\ [][Next]_vars

(* Threads that can run do run; a thread that waits for the mutex gets it  *)
(* when it is free again and again (the worker is at rest between two      *)
(* polls, which are a minute apart); the poller keeps polling.             *)
Fairness ==
  /\ \A t \in Threads : WF_vars(Session(t)) /\ SF_vars(Lock(t))
  /\ SF_vars(Kick) /\ WF_vars(Take) /\ WF_vars(Backoff) /\ WF_vars(Exit)
  /\ WF_vars(\E c \in FsmCommands : QueueCommand(c))

FairSpec == Spec /\ Fairness

-----------------------------------------------------------------------------
(* Properties *)

(* The lock excludes, and what it protects is in the state each step needs *)
(* when it comes: a command goes out on a socket that is open, after a     *)
(* login, and after SET S was sent on this very TCP session, however       *)
(* drops, restarts and time-outs fell: "Reset on reconnect"                *)
(* (relay_pipeline.hpp:168).  One kind of session is excepted, the one     *)
(* that runLoop() begins after an exception: EverySessionSized.            *)
Sending == {"fire", "2ac", "l2pass", "l2cmd", "acc", "decide"}

CommandsNeedSession ==
  \A t \in Threads :
    /\ pc[t] \in Inside => mutex = t
    /\ pc[t] \in Sending => fsm = "Operational" /\ screened # "no"
    /\ pc[t] \in {"user", "pass"} => fsm = "Login_L1" /\ connected

(* Without the exception this is false: the restart reconnects with        *)
(* screen_size_configured_ still set, and commands run on a session the    *)
(* screen size of which is the relay's default.                            *)
EverySessionSized ==
  \A t \in Threads : pc[t] \in Sending => screened = "yes"

(* connected_ and the socket outlive every failure of a command: while the *)
(* machine is Operational they never say that the link is gone, ...        *)
OperationalIsConnected == fsm = "Operational" => connected /\ open

(* ... so that no failure is ever classified as CONN_LOST.                 *)
NeverConnLost == failReason # "CONN_LOST"

(* The relay never sees more than LoginRetries + 1 rejected logins between *)
(* two pauses of 60 s (or successful logins).                              *)
LoginAttemptsBounded == denied <= LoginRetries + 1

(* A response that is pushed or returned answers the command it goes with, *)
(* as long as no answer of this TCP session was left on the wire.          *)
ResponseMatchesCommand ==
  \A t \in Threads : pc[t] = "decide" /\ success /\ ~upset =>
    \A i \in 1 .. Len(response) : response[i].to = cmd[t]

(* Level 2 is held only within an L2 command: "ACC - back to Level 1 for   *)
(* safety" (relay_pipeline.hpp:231), whatever the relay refuses, wherever  *)
(* the link drops, and whoever throws elsewhere.  It is kept beyond the    *)
(* command only on a session on which an answer came too late or an        *)
(* exception hit the command between the elevation and ACC: without that   *)
(* exception the formula, LevelTwoNeverKept, is false.                     *)
LevelTwoNeverKept ==
  level = 2 => \E t \in Threads : pc[t] \in {"l2cmd", "acc"}

LevelTwoOnlyInside == upset \/ LevelTwoNeverKept

(* Once the relay behaves, the machine leaves every wait and error state. *)
ReachesOperational == calm ~> (fsm = "Operational" \/ stop)

(* ... and every user command returns. *)
CommandReturns == \A u \in Users : (calm /\ pc[u] # "idle") ~> (pc[u] = "idle")

(* stop() ends the worker and every call, whatever the relay does. *)
StopReleases == \A t \in Threads : stop ~> pc[t] \in {"exit", "idle"}

(* A lost session is replaced by a new one once the relay behaves: "Trigger *)
(* reconnect cycle, then retry" (relay_pipeline.hpp:328).                   *)
ReconnectsAfterDrop == (calm /\ ~alive) ~> (alive \/ stop)

=============================================================================
