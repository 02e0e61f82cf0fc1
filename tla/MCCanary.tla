------------------------------ MODULE MCCanary ------------------------------
EXTENDS Canary, TLC

CONSTANTS c1, c2, sw, op

MCConfig == (c1 :> [strategy |-> "canary", weight |-> 0, auto |-> TRUE, window |-> 0])
         @@ (c2 :> [strategy |-> "canary", weight |-> 50, auto |-> FALSE, window |-> 1])
=============================================================================
