---------------------------- MODULE RelayManager ----------------------------
(***************************************************************************)
(* RelayManager (relay_manager.hpp): the pipelines that run, the mutex     *)
(* that every operation holds from its first line to its last, and the     *)
(* passwords it keeps for the pipelines it will start.  A pipeline         *)
(* (RelayPipeline, relay_pipeline.hpp) appears here only as far as its     *)
(* callers can tell: does it have a session in which commands are          *)
(* answered?  RelaySession has the rest.                                   *)
(*                                                                         *)
(* The operations are written for a thread t of the module that EXTENDS    *)
(* this one.                                                               *)
(***************************************************************************)
EXTENDS Naturals

CONSTANTS
  Relays,         \* the ids of getRelayConfigs()
  Passwords,      \* level-1 passwords a relay can have
  Nobody          \* the owner of a mutex that is free

VARIABLES
  session,        \* session[r]: what the entry of r in active_ is doing
  mutex,          \* the thread that holds mutex_
  configs,        \* configs[r]: the password in configs_
  creds           \* creds[r]: the password in the LoginConfig of r's pipeline

(* The relays: *)
VARIABLES
  up,             \* the relays that accept connections
  password,       \* password[r]: the password relay r takes
  unsure          \* history: the relays that took a password in a change which was
                  \* not confirmed, or while an earlier one waited to be stored

manager == <<session, mutex, configs, creds>>
outside == <<up, password, unsure>>

(* "off": r is not in active_.  "starting": start_event is still to come.  *)
(* "held": a command has taken sync_cmd_mutex_ before it, and              *)
(* driveToOperational() spins in Idle.  "connecting": the machine is on    *)
(* its way.  "operational": it is Operational.  "stopping": stopRelay() or *)
(* stopAll() joins the pipeline's workers.  "deaf": so it does, but one of *)
(* them has not heard the notification and sleeps.                         *)
Sessions == {"off", "starting", "held", "connecting", "operational", "stopping", "deaf"}

active == {r \in Relays : session[r] # "off"}

ManagerTypeOK(threads) ==
  /\ session \in [Relays -> Sessions]
  /\ mutex \in threads \union {Nobody}
  /\ configs \in [Relays -> Passwords]
  /\ creds \in [Relays -> Passwords]
  /\ up \in SUBSET Relays
  /\ password \in [Relays -> Passwords]
  /\ unsure \in SUBSET Relays

(* relay_config.hpp has the relays' own passwords, which the model calls   *)
(* AnyPassword.                                                            *)
AnyPassword == CHOOSE p \in Passwords : TRUE

ManagerInit ==
  /\ session = [r \in Relays |-> "off"]
  /\ mutex = Nobody
  /\ password = [r \in Relays |-> AnyPassword]
  /\ configs = password
  /\ creds = password
  /\ up \in SUBSET Relays
  /\ unsure = {}

SetSession(r, s) == session' = [session EXCEPT ![r] = s]

(* startRelay(r).  The pipeline takes its own copy of the credentials; its *)
(* worker thread begins.  Nothing here blocks.                             *)
StartRelay(r) ==
  /\ mutex = Nobody
  /\ IF r \in active
     THEN UNCHANGED <<session, creds>>
     ELSE /\ SetSession(r, "starting")
          /\ creds' = [creds EXCEPT ![r] = configs[r]]
  /\ UNCHANGED <<mutex, configs>>

(* RelayPipeline::stop(): the flags of the workers are set and they are    *)
(* notified, which they may miss: notify_all() is called without the mutex *)
(* they wait with (RelayPipeline).                                         *)
Halt(r) == SetSession(r, "stopping") \/ SetSession(r, "deaf")

(* stopRelay(r), r active: the pipeline is told to stop, ... *)
StopRelay(t, r) ==
  /\ mutex = Nobody /\ r \in active
  /\ mutex' = t
  /\ Halt(r)
  /\ UNCHANGED <<configs, creds>>

(* ... they are joined and the pipeline is destroyed. *)
RelayStopped(t, r) ==
  /\ mutex = t /\ session[r] = "stopping"
  /\ SetSession(r, "off")
  /\ mutex' = Nobody
  /\ UNCHANGED <<configs, creds>>

(* stopRelay(r) or handleUserCommand(r, ...), r not active: returns. *)
NotActive(r) ==
  /\ mutex = Nobody /\ r \notin active
  /\ UNCHANGED manager

(* stopAll(): the pipelines are stopped and joined one after the other. *)
StopAllBegins(t) ==
  /\ mutex = Nobody
  /\ mutex' = t
  /\ UNCHANGED <<session, configs, creds>>

StopNext(t) ==
  /\ mutex = t
  /\ \A r \in active : session[r] \notin {"stopping", "deaf"}
  /\ \E r \in active : Halt(r)
  /\ UNCHANGED <<mutex, configs, creds>>

(* (active_ is cleared at the end only, which nobody can tell.) *)
NextStopped(t) ==
  /\ mutex = t
  /\ \E r \in active : session[r] = "stopping" /\ SetSession(r, "off")
  /\ UNCHANGED <<mutex, configs, creds>>

StopAllEnds(t) ==
  /\ mutex = t /\ active = {}
  /\ mutex' = Nobody
  /\ UNCHANGED <<session, configs, creds>>

(* handleUserCommand(r, ...), r active: the lock is kept, with the         *)
(* pipeline's sync_cmd_mutex_, ...                                         *)
CommandBegins(t, r) ==
  /\ mutex = Nobody /\ r \in active
  /\ mutex' = t
  /\ IF session[r] = "starting" THEN SetSession(r, "held") ELSE UNCHANGED session
  /\ UNCHANGED <<configs, creds>>

(* ... until the command has returned, which it does only when the machine *)
(* is Operational: stop_flag_, which would end driveToOperational(), is    *)
(* set by stopRelay() and stopAll() alone, under this lock.                *)
CommandEnds(t, r) ==
  /\ mutex = t /\ session[r] = "operational"
  /\ mutex' = Nobody
  /\ UNCHANGED <<session, configs, creds>>

(* ... or it is left by an exception, which nothing in Idle throws. *)
CommandThrows(t, r) ==
  /\ mutex = t /\ session[r] \in {"connecting", "operational"}
  /\ mutex' = Nobody
  /\ UNCHANGED <<session, configs, creds>>

(* Mutant: a password that is kept nowhere. *)
StoreNothing(r, value) ==
  /\ mutex = Nobody
  /\ UNCHANGED manager

(* updateStoredPassword(r, value) *)
UpdateStoredPassword(r, value) ==
  /\ mutex = Nobody
  /\ configs' = [configs EXCEPT ![r] = value]
  /\ UNCHANGED <<session, mutex, creds>>

(* getActiveRelayIds(), isActive(), queueCommand(): a look under the lock. *)
Look ==
  /\ mutex = Nobody
  /\ UNCHANGED manager

-----------------------------------------------------------------------------
(* The pipelines' own steps *)

(* The worker thread gets sync_cmd_mutex_ and fires start_event. *)
Kick(r) ==
  /\ session[r] = "starting"
  /\ SetSession(r, "connecting")
  /\ UNCHANGED <<mutex, configs, creds, outside>>

(* A worker that sleeps through stop() wakes for another reason, if there  *)
(* ever is one.                                                            *)
Rouse(r) ==
  /\ session[r] = "deaf"
  /\ SetSession(r, "stopping")
  /\ UNCHANGED <<mutex, configs, creds, outside>>

(* The machine of r gets to Operational. *)
Connect(r) ==
  /\ session[r] = "connecting" /\ r \in up /\ creds[r] = password[r]
  /\ SetSession(r, "operational")
  /\ UNCHANGED <<mutex, configs, creds, outside>>

(* An exception left the worker's loop: it begins again with               *)
(* disconnect_event.  (A session that is merely lost is not replaced:      *)
(* RelaySession.)                                                          *)
RestartSession(r) ==
  /\ session[r] = "operational"
  /\ SetSession(r, "connecting")
  /\ UNCHANGED <<mutex, configs, creds, outside>>

(* A relay is switched off, its network fails, or it comes back. *)
RelaySwitches(r) ==
  /\ up' = IF r \in up THEN up \ {r} ELSE up \union {r}
  /\ UNCHANGED <<manager, password, unsure>>

(* Every pipeline has its session, can get it or can end: none is kept in  *)
(* Idle by an early command, none has missed the notification of stop().   *)
Served ==
  \A r \in active :
    \/ session[r] \in {"operational", "stopping"}
    \/ session[r] \in {"starting", "connecting"} /\ r \in up /\ creds[r] = password[r]

=============================================================================
