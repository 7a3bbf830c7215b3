------------------------------ MODULE MCSerPage ------------------------------
(* Instances of SerPage: snapshots of which two fit into the ring, and     *)
(* snapshots that are longer than half of it.  The encoding of a snapshot  *)
(* is checked with them.                                                   *)
EXTENDS SerPage, SerTlvChecks

SmallSnapshots == <<1, 2>>
LargeSnapshots == <<3, 4>>
FullSnapshots == <<5, 6>>
=============================================================================
