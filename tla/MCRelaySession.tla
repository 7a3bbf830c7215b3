--------------------------- MODULE MCRelaySession ---------------------------
(* A small RelaySession: one user beside the worker, one command of each   *)
(* kind.                                                                   *)
EXTENDS RelaySession
MCUsers == {"user1"}
MCFsmCommands == {"SER"}
MCRawCommands == {"EVE"}
MCL2Commands == {"PAS"}
MCNone == {}
=============================================================================
