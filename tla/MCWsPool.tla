------------------------------ MODULE MCWsPool ------------------------------
(***************************************************************************)
(* Symmetry for the safety run of WsPool: nothing tells two addresses      *)
(* apart.  Clients differ by their hooks, threads by who owns the pool.    *)
(***************************************************************************)
EXTENDS WsPool, TLC

WsiSymmetry == Permutations(Wsis)
=============================================================================
