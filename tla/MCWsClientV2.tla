---------------------------- MODULE MCWsClientV2 ----------------------------
(***************************************************************************)
(* A small instance of WsClientV2.                                         *)
(***************************************************************************)
EXTENDS WsClientV2
=============================================================================
