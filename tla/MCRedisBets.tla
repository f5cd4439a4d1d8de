----------------------------- MODULE MCRedisBets -----------------------------
EXTENDS RedisBets, TLC
CONSTANTS u1, u2
TwoShards == u1 :> 0 @@ u2 :> 1
OneShard  == u1 :> 0
==============================================================================
