--------------------------- MODULE LossyBroadcast ---------------------------
(***************************************************************************)
(* What a relay's raw-response buffer promises, without its deque, its     *)
(* base index or its trimming: an ever growing log of published messages   *)
(* and one cursor per subscriber.  A subscriber receives, in publication   *)
(* order and each once, every message published after it subscribed,       *)
(* except those it loses by falling more than Capacity messages behind.    *)
(***************************************************************************)
EXTENDS Naturals, Sequences

CONSTANTS
  Subscribers,  \* reader identities
  Messages,     \* what can be published
  Capacity      \* how far a subscriber may fall behind before it loses messages (> 0)

VARIABLES
  log,          \* every message ever published
  subscribed,   \* subscribed[s]: s receives what is published
  cursor,       \* cursor[s]: how many messages of the log s is past
  got           \* got[s]: the messages s was given since it subscribed

vars == <<log, subscribed, cursor, got>>

Init ==
  /\ log = <<>>
  /\ subscribed = [s \in Subscribers |-> FALSE]
  /\ cursor = [s \in Subscribers |-> 0]
  /\ got = [s \in Subscribers |-> <<>>]

(* Publishing never waits for a subscriber: one that is Capacity messages  *)
(* behind loses the oldest of them.                                        *)
Publish(m) ==
  /\ log' = Append(log, m)
  /\ cursor' = [s \in Subscribers |->
                  IF subscribed[s] /\ Len(log') > cursor[s] + Capacity
                  THEN cursor[s] + 1 ELSE cursor[s]]
  /\ UNCHANGED <<subscribed, got>>

(* A new subscriber sees only what is published from now on. *)
Subscribe(s) ==
  /\ ~subscribed[s]
  /\ subscribed' = [subscribed EXCEPT ![s] = TRUE]
  /\ cursor' = [cursor EXCEPT ![s] = Len(log)]
  /\ got' = [got EXCEPT ![s] = <<>>]
  /\ UNCHANGED log

Unsubscribe(s) ==
  /\ subscribed' = [subscribed EXCEPT ![s] = FALSE]
  /\ UNCHANGED <<log, cursor, got>>

(* The next message of the log, never another one. *)
Deliver(s) ==
  /\ subscribed[s]
  /\ cursor[s] < Len(log)
  /\ got' = [got EXCEPT ![s] = Append(@, log[cursor[s] + 1])]
  /\ cursor' = [cursor EXCEPT ![s] = @ + 1]
  /\ UNCHANGED <<log, subscribed>>

(* All subscribers give up what they have not been given yet. *)
Flush ==
  /\ cursor' = [s \in Subscribers |-> IF subscribed[s] THEN Len(log) ELSE cursor[s]]
  /\ UNCHANGED <<log, subscribed, got>>

Next ==
  \/ \E m \in Messages : Publish(m)
  \/ \E s \in Subscribers : Subscribe(s) \/ Unsubscribe(s) \/ Deliver(s)
  \/ Flush

Spec == Init /\ [][Next]_vars

=============================================================================
