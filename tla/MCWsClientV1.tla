---------------------------- MODULE MCWsClientV1 ----------------------------
(***************************************************************************)
(* A small instance of WsClientV1.  Delays 1, 2, 3: a doubling that fits   *)
(* and one the maximum cuts.                                               *)
(***************************************************************************)
EXTENDS WsClientV1
=============================================================================
