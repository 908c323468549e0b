-------------------------- MODULE SessionRegistry ---------------------------
(***************************************************************************)
(* What the gateway and the edge promise about the sessions of a node,     *)
(* whatever their sockets do: a node has one current session, the newest;  *)
(* the one it replaces is retired and ends without a word; only a session  *)
(* that was current when it ended is reported to the API as disconnected.  *)
(* apps/gateway/main.go (register, remove) and apps/edge/main.go           *)
(* (connectTunnel, unregister) implement it.                               *)
(***************************************************************************)
CONSTANTS
    Sessions,
    Nodes,
    NodeOf,   \* the node of each session
    None

VARIABLES
    current,  \* the session of each node
    phase     \* how far each session is

vars == <<current, phase>>

Phases == {"new", "current", "retired", "leaving", "gone"}

Init ==
    /\ current = [n \in Nodes |-> None]
    /\ phase = [s \in Sessions |-> "new"]

\* Authentication fails.
Reject(s) ==
    /\ phase[s] = "new"
    /\ phase' = [phase EXCEPT ![s] = "gone"]
    /\ UNCHANGED current

\* The session takes the place of the current one, which is retired.
Attach(s) ==
    /\ phase[s] = "new"
    /\ current' = [current EXCEPT ![NodeOf[s]] = s]
    /\ phase' = [t \in Sessions |->
                   IF t = s THEN "current"
                   ELSE IF t = current[NodeOf[s]] THEN "retired"
                   ELSE phase[t]]

\* The current session ends: its node has none until another attaches.
Detach(s) ==
    /\ current[NodeOf[s]] = s
    /\ current' = [current EXCEPT ![NodeOf[s]] = None]
    /\ phase' = [phase EXCEPT ![s] = "leaving"]

\* The API is told that the node is disconnected.
Report(s) ==
    /\ phase[s] = "leaving"
    /\ phase' = [phase EXCEPT ![s] = "gone"]
    /\ UNCHANGED current

Retire(s) ==
    /\ phase[s] = "retired"
    /\ phase' = [phase EXCEPT ![s] = "gone"]
    /\ UNCHANGED current

Next == \E s \in Sessions :
           Reject(s) \/ Attach(s) \/ Detach(s) \/ Report(s) \/ Retire(s)

SafeSpec == Init /\ [][Next]_vars

\* A retired session ends, and the end of a current one is reported.
Spec == SafeSpec /\ \A s \in Sessions : WF_vars(Retire(s)) /\ WF_vars(Report(s))
=============================================================================
