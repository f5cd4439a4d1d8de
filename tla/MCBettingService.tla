-------------------------- MODULE MCBettingService --------------------------
(* Small instances of BettingService for TLC: the values are in the .cfg files. *)
EXTENDS BettingService
=============================================================================
