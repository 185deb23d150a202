---------------------------- MODULE MCWsReceive ----------------------------
EXTENDS WsReceive
=============================================================================
