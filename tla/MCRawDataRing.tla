--------------------------- MODULE MCRawDataRing ---------------------------
(* A small RawDataRing: fewer slots than messages, a capacity that the     *)
(* writes exceed, readers that come and go.  With its run TLC evaluates    *)
(* the assumptions of GooseChecks.                                         *)
EXTENDS RawDataRing, GooseChecks
CONSTANTS m1, m2
MCMessages == {m1, m2}
=============================================================================
