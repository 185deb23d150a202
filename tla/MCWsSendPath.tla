--------------------------- MODULE MCWsSendPath ----------------------------
(***************************************************************************)
(* Messages and sizes for WsSendPath.  With a byte limit of 3 a long       *)
(* message fits exactly, and beside a short one not at all; two short ones *)
(* meet the limit of messages first.  Liveness needs no more than one      *)
(* message behind another.                                                 *)
(***************************************************************************)
EXTENDS WsSendPath

CONSTANTS short1, short2, long

AllMessages == {short1, short2, long}
TwoMessages == {short1, long}
Sizes       == [m \in Messages |-> IF m = long THEN 3 ELSE 1]
=============================================================================
