---------------------------- MODULE MCLagSampling ----------------------------
EXTENDS LagSampling
CONSTANTS g1, t1, t2
\* Nothing is ever written to t2.
MCMaxOffset == [t \in Topics |-> IF t = t1 THEN 2 ELSE 0]
=============================================================================
