-------------------------- MODULE ServiceLifetime --------------------------
(***************************************************************************)
(* What the database, and every other resource of TelnetSmlApp::Impl that  *)
(* threads use by reference, is promised: it is open from before its first *)
(* user begins until after its last user has ended.                        *)
(***************************************************************************)
CONSTANT Users

VARIABLES
  open,           \* the resource is usable
  users           \* who uses it

Init == open = FALSE /\ users = {}

Open == ~open /\ open' = TRUE /\ UNCHANGED users

(* Several users may begin and end in one step. *)
Use ==
  /\ open /\ UNCHANGED open
  /\ users' \in SUBSET Users

Close == open /\ users = {} /\ open' = FALSE /\ UNCHANGED users

Next == Open \/ Use \/ Close

Spec == Init /\ [][Next]_<<open, users>>

(* Nobody uses what is closed. *)
ClosedIsUnused == ~open => users = {}

=============================================================================
