----------------------------- MODULE MCWsManager -----------------------------
(* Small instances of WsManager for TLC. *)
EXTENDS WsManager
=============================================================================
