----------------------------- MODULE MCLagAlarm -----------------------------
EXTENDS LagAlarm
CONSTANTS g1, t1
MCMaxOffset == [t \in Topics |-> 1]
=============================================================================
