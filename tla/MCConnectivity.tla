-------------------------- MODULE MCConnectivity --------------------------
EXTENDS Connectivity

MCMax == [p \in Phases |-> IF p = 1 THEN 2 ELSE 1]
=============================================================================
