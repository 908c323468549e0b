------------------------------- MODULE MCEdge -------------------------------
(* The instance of Edge for TLC.  The tunnels do not look at the clock, and *)
(* the cache does not look at the tunnels: the initial state picks whether  *)
(* tunnels come and go while the API moves the route once, or time passes   *)
(* while the API moves it twice.                                           *)
EXTENDS Edge, TLC

CONSTANTS t1, t2, t3, n1, n2, r1, r2

VARIABLE scenario

Scenarios == {"tunnels", "routes"}

\* Two tunnels of one node, and one of another.
MCNodeOf == [t \in Tunnels |-> IF t = t3 THEN n2 ELSE n1]

MCInit == Init /\ scenario \in Scenarios

MCStep ==
    /\ scenario' = scenario
    /\ scenario = "tunnels" => now' = now /\ published' <= 2
    /\ scenario = "routes" => tunnels' = tunnels

MCNext == Next /\ MCStep

MCSpec == MCInit /\ [][MCNext]_<<vars, scenario>>

MCSymmetry == Permutations({t1, t2}) \union Permutations(Requests)
=============================================================================
