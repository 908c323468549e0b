----------------------------- MODULE MCGateway ------------------------------
(* Instances of Gateway for TLC.                                           *)
EXTENDS Gateway, TLC

CONSTANTS c1, c2, n1, s1, s2, k1, k2

\* All the connections are of one node: nodes share nothing but the lock.
MCNodeOf == [c \in Conns |-> n1]
=============================================================================
