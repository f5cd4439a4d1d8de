---------------------------- MODULE MCGameMachine ----------------------------
(* Small instances of GameMachine for TLC. *)
EXTENDS GameMachine
=============================================================================
