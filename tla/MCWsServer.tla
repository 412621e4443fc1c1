----------------------------- MODULE MCWsServer -----------------------------
(***************************************************************************)
(* Instances of WsServer for TLC: the sockets are interchangeable, since   *)
(* nothing but the order of the registry tells them apart.                 *)
(***************************************************************************)
EXTENDS WsServer, TLC

ConnSymmetry == Permutations(Conns)

=============================================================================
