--------------------------- MODULE MCBrokerBalance ---------------------------
(* Three partitions on three brokers.  With these placements loads of one to *)
(* three meet one to three brokers in use, and the sums do not divide evenly.*)
EXTENDS BrokerBalance, TLC

CONSTANTS b1, b2, b3
MCReplicaSets == {{b1}, {b1, b2}}
=============================================================================
