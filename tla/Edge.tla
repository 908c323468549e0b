-------------------------------- MODULE Edge --------------------------------
(***************************************************************************)
(* The edge (apps/edge/main.go): nodes open tunnels to it, and it forwards *)
(* the requests for a hostname through the tunnel of the node that the     *)
(* API routes the hostname to.  A node has one registered tunnel, the      *)
(* newest; routes are cached for CacheSeconds.                             *)
(*                                                                         *)
(* One hostname: hostnames share nothing but the map they are kept in.     *)
(* Time is counted in seconds; a goroutine that has the API's answer       *)
(* stores it within the same second.                                       *)
(***************************************************************************)
EXTENDS Naturals

CONSTANTS
    Tunnels,       \* the tunnels ever opened
    Nodes,
    NodeOf,        \* the node of each tunnel
    Requests,      \* the requests the edge serves at a time
    NoTunnel,
    Unavailable,   \* a route whose workload is not available
    CacheSeconds,  \* 5 in the code
    CallSeconds,   \* http.Client.Timeout, 5 in the code
    MaxTime,       \* bound on the clock
    MaxVersion     \* bound on how often the API changes the route

ASSUME EdgeAssumption ==
    /\ NodeOf \in [Tunnels -> Nodes] /\ NoTunnel \notin Tunnels
    /\ Unavailable \notin Nodes
    /\ CacheSeconds \in Nat \ {0} /\ CallSeconds \in Nat
    /\ MaxTime \in Nat /\ MaxVersion \in Nat \ {0}

VARIABLES
    sessions,   \* e.sessions: the tunnel of each node
    tunnels,    \* the handler of every tunnel
    cached,     \* e.routes of the hostname; version 0 if there is none
    requests,   \* the handler of every request
    content,    \* external: what each version of the route says
    published,  \* external: the version the API answers
    retired,    \* history: when each version was replaced
    now

vars == <<sessions, tunnels, cached, requests, content, published, retired, now>>

tunnelVars == <<sessions, tunnels>>
routeVars == <<cached, requests>>
apiVars == <<content, published, retired>>

Versions == 1..MaxVersion
Contents == Nodes \union {Unavailable}

Tunnel == [at : {"new", "closingPrevious", "announcing", "waiting", "reporting", "gone"},
           open     : BOOLEAN,                    \* the yamux session
           previous : Tunnels \union {NoTunnel}]

Request == [at : {"idle", "fetching", "resolved", "opening"},
            started : Nat,                        \* when the call to the API began
            version : Versions \union {0},        \* the route, 0 before the answer
            tunnel  : Tunnels \union {NoTunnel}]

TypeOK ==
    /\ sessions \in [Nodes -> Tunnels \union {NoTunnel}]
    /\ tunnels \in [Tunnels -> Tunnel]
    /\ cached \in [version : Versions \union {0}, expires : Nat]
    /\ requests \in [Requests -> Request]
    /\ \A r \in Requests :
          /\ requests[r].at \in {"resolved", "opening"} => requests[r].version # 0
          /\ requests[r].at = "opening" => requests[r].tunnel # NoTunnel
    /\ content \in [Versions -> Contents]
    /\ published \in Versions
    /\ retired \in [Versions -> Nat]
    /\ now \in Nat

Idle == [at |-> "idle", started |-> 0, version |-> 0, tunnel |-> NoTunnel]

Init ==
    /\ sessions = [n \in Nodes |-> NoTunnel]
    /\ tunnels = [t \in Tunnels |-> [at |-> "new", open |-> TRUE, previous |-> NoTunnel]]
    /\ cached = [version |-> 0, expires |-> 0]
    /\ requests = [r \in Requests |-> Idle]
    /\ \E c \in Contents : content = [v \in Versions |-> c]
    /\ published = 1
    /\ retired = [v \in Versions |-> 0]
    /\ now = 0

-----------------------------------------------------------------------------
(* Tunnels.                                                                *)

\* The node is not verified, or its socket fails before the session starts.
RefuseTunnel(t) ==
    /\ tunnels[t].at = "new"
    /\ tunnels' = [tunnels EXCEPT ![t].at = "gone", ![t].open = FALSE]
    /\ UNCHANGED <<sessions, routeVars, apiVars, now>>

\* connectTunnel, under the lock.
ConnectTunnel(t) ==
    /\ tunnels[t].at = "new"
    /\ tunnels' = [tunnels EXCEPT ![t].at = "closingPrevious",
                                  ![t].previous = sessions[NodeOf[t]]]
    /\ sessions' = [sessions EXCEPT ![NodeOf[t]] = t]
    /\ UNCHANGED <<routeVars, apiVars, now>>

\* Mutation of ClosePrevious: the replaced session is left to the agent.
LeavePrevious(t) ==
    /\ tunnels[t].at = "closingPrevious"
    /\ tunnels' = [tunnels EXCEPT ![t].at = "announcing"]
    /\ UNCHANGED <<sessions, routeVars, apiVars, now>>

\* previous.Close().
ClosePrevious(t) ==
    /\ tunnels[t].at = "closingPrevious"
    /\ tunnels' = [s \in Tunnels |->
          IF s = t THEN [tunnels[t] EXCEPT !.at = "announcing"]
          ELSE IF s = tunnels[t].previous THEN [tunnels[s] EXCEPT !.open = FALSE]
          ELSE tunnels[s]]
    /\ UNCHANGED <<sessions, routeVars, apiVars, now>>

\* tunnelState(true) returns; its error is ignored.
Announced(t) ==
    /\ tunnels[t].at = "announcing"
    /\ tunnels' = [tunnels EXCEPT ![t].at = "waiting"]
    /\ UNCHANGED <<sessions, routeVars, apiVars, now>>

\* The agent hangs up, or yamux gives up on it.
SessionDies(t) ==
    /\ tunnels[t].at \in {"closingPrevious", "announcing", "waiting"} /\ tunnels[t].open
    /\ tunnels' = [tunnels EXCEPT ![t].open = FALSE]
    /\ UNCHANGED <<sessions, routeVars, apiVars, now>>

\* Mutation of Unregister: the entry is deleted without looking.
UnregisterNode(t) ==
    /\ tunnels[t].at = "waiting" /\ ~tunnels[t].open
    /\ sessions' = [sessions EXCEPT ![NodeOf[t]] = NoTunnel]
    /\ tunnels' = [tunnels EXCEPT ![t].at = "reporting"]
    /\ UNCHANGED <<routeVars, apiVars, now>>

\* CloseChan is closed; unregister, under the lock.  The Close that follows
\* finds the session closed.
Unregister(t) ==
    /\ tunnels[t].at = "waiting" /\ ~tunnels[t].open
    /\ IF sessions[NodeOf[t]] = t
       THEN /\ sessions' = [sessions EXCEPT ![NodeOf[t]] = NoTunnel]
            /\ tunnels' = [tunnels EXCEPT ![t].at = "reporting"]
       ELSE /\ tunnels' = [tunnels EXCEPT ![t].at = "gone"]
            /\ UNCHANGED sessions
    /\ UNCHANGED <<routeVars, apiVars, now>>

\* tunnelState(false) returns.
Reported(t) ==
    /\ tunnels[t].at = "reporting"
    /\ tunnels' = [tunnels EXCEPT ![t].at = "gone"]
    /\ UNCHANGED <<sessions, routeVars, apiVars, now>>

-----------------------------------------------------------------------------
(* Requests.                                                               *)

SetRequest(r, value) ==
    /\ requests' = [requests EXCEPT ![r] = value]
    /\ UNCHANGED <<tunnelVars, apiVars, now>>

Hit == cached.version # 0 /\ now < cached.expires

\* Mutation of ResolveCached: a hit keeps the route for another CacheSeconds.
ResolveAndRenew(r) ==
    /\ requests[r].at = "idle" /\ Hit
    /\ cached' = [cached EXCEPT !.expires = now + CacheSeconds]
    /\ SetRequest(r, [Idle EXCEPT !.at = "resolved", !.version = cached.version])

\* resolve: the cached route, under the read lock.
ResolveCached(r) ==
    /\ requests[r].at = "idle" /\ Hit
    /\ SetRequest(r, [Idle EXCEPT !.at = "resolved", !.version = cached.version])
    /\ UNCHANGED cached

\* resolve: a call to the API, without the lock.
Fetch(r) ==
    /\ requests[r].at = "idle" /\ ~Hit
    /\ SetRequest(r, [Idle EXCEPT !.at = "fetching", !.started = now])
    /\ UNCHANGED cached

ApiAnswers(r) ==
    /\ requests[r].at = "fetching" /\ requests[r].version = 0
    /\ SetRequest(r, [requests[r] EXCEPT !.version = published])
    /\ UNCHANGED cached

\* The answer arrives in time and is stored, under the lock, whatever another
\* request has stored since.
StoreRoute(r) ==
    LET v == requests[r].version
    IN  /\ requests[r].at = "fetching" /\ v # 0
        /\ now <= requests[r].started + CallSeconds
        /\ cached' = [version |-> v, expires |-> now + CacheSeconds]
        /\ SetRequest(r, [requests[r] EXCEPT !.at = "resolved", !.started = 0])

\* The call fails or times out, or the API knows no route: 503, nothing stored.
FetchFails(r) ==
    /\ requests[r].at = "fetching"
    /\ SetRequest(r, Idle)
    /\ UNCHANGED cached

\* Mutation of FindTunnel: the node is taken from the cache, not from the route
\* that was resolved.
FindCachedTunnel(r) ==
    LET node == content[cached.version]
    IN  /\ requests[r].at = "resolved"
        /\ SetRequest(r, IF node \in Nodes /\ sessions[node] # NoTunnel
                         THEN [requests[r] EXCEPT !.at = "opening",
                                                  !.tunnel = sessions[node]]
                         ELSE Idle)
        /\ UNCHANGED cached

\* proxyHTTP: the session of the route's node, under the read lock.
FindTunnel(r) ==
    LET node == content[requests[r].version]
    IN  /\ requests[r].at = "resolved"
        /\ SetRequest(r, IF node \in Nodes /\ sessions[node] # NoTunnel
                         THEN [requests[r] EXCEPT !.at = "opening",
                                                  !.tunnel = sessions[node]]
                         ELSE Idle)
        /\ UNCHANGED cached

\* IsClosed and Open, and the answer: of the workload, or 503.
Forward(r) ==
    /\ requests[r].at = "opening"
    /\ SetRequest(r, Idle)
    /\ UNCHANGED cached

-----------------------------------------------------------------------------
(* The API and the clock.                                                  *)

\* The next version of the route.
Publish ==
    /\ published < MaxVersion
    /\ published' = published + 1
    /\ retired' = [retired EXCEPT ![published] = now]
    /\ \E c \in Contents : content' = [content EXCEPT ![published'] = c]
    /\ UNCHANGED <<tunnelVars, routeVars, now>>

Tick ==
    /\ now < MaxTime
    /\ now' = now + 1
    /\ UNCHANGED <<tunnelVars, routeVars, apiVars>>

TunnelStep(t) ==
    \/ RefuseTunnel(t) \/ ConnectTunnel(t) \/ ClosePrevious(t) \/ Announced(t)
    \/ SessionDies(t) \/ Unregister(t) \/ Reported(t)

RequestStep(r) ==
    \/ ResolveCached(r) \/ Fetch(r) \/ ApiAnswers(r) \/ StoreRoute(r) \/ FetchFails(r)
    \/ FindTunnel(r) \/ Forward(r)

Next ==
    \/ \E t \in Tunnels : TunnelStep(t)
    \/ \E r \in Requests : RequestStep(r)
    \/ Publish \/ Tick

Spec == Init /\ [][Next]_vars

-----------------------------------------------------------------------------
(* Properties.                                                             *)

Serving(t) == tunnels[t].at \in {"closingPrevious", "announcing", "waiting"}

\* Some tunnel that replaced t is still to close it.
ToBeClosed(t) ==
    \E s \in Tunnels : tunnels[s].at = "closingPrevious" /\ tunnels[s].previous = t

\* A tunnel the registry lost is closed, or the one that replaced it is about
\* to close it, so that its handler ends (connectTunnel, unregister).
UnregisteredIsClosed ==
    \A t \in Tunnels : Serving(t) /\ sessions[NodeOf[t]] # t =>
       ~tunnels[t].open \/ ToBeClosed(t)

\* A request opens its stream on a tunnel of the node that the route it
\* resolved names, and that tunnel is the node's newest, or it is closed, or
\* about to be closed by the one that replaced it: whatever tunnels and routes
\* came and went since the lock was released, no request goes on being carried
\* by a tunnel that the node has left (proxyHTTP, connectTunnel).
OpensNewest ==
    \A r \in Requests : requests[r].at = "opening" =>
       LET t == requests[r].tunnel
           node == content[requests[r].version]
       IN  /\ NodeOf[t] = node
           /\ sessions[node] = t \/ ~tunnels[t].open \/ ToBeClosed(t)

\* A version is used at most for the cache's and the call's time after the API
\* replaced it, though a slow answer may overwrite a newer one and be cached
\* anew (resolve).
UsableStill(v) == v = published \/ now < retired[v] + CacheSeconds + CallSeconds

RouteFresh ==
    [][\A r \in Requests :
          requests[r].at # "resolved" /\ requests'[r].at = "resolved" =>
             UsableStill(requests'[r].version)]_vars

Phase(t) ==
    CASE tunnels[t].at = "new" -> "new"
      [] tunnels[t].at = "gone" -> "gone"
      [] tunnels[t].at = "reporting" -> "leaving"
      [] Serving(t) /\ sessions[NodeOf[t]] = t -> "current"
      [] OTHER -> "retired"

TunnelPhases == [t \in Tunnels |-> Phase(t)]

Registry == INSTANCE SessionRegistry WITH
    Sessions <- Tunnels, None <- NoTunnel, current <- sessions, phase <- TunnelPhases

\* The edge is an implementation of SessionRegistry: the newest tunnel of a
\* node is the current one, the one it replaces ends in silence, and only the
\* end of a current one is reported (connectTunnel, unregister).
TunnelsPromise == Registry!SafeSpec

-----------------------------------------------------------------------------
(* The inductive invariant of the proofs.                                  *)

SessionsServed ==
    \A n \in Nodes : sessions[n] # NoTunnel =>
       NodeOf[sessions[n]] = n /\ Serving(sessions[n])

\* The replacing tunnel closes another one of the same node.
PreviousOther ==
    \A t \in Tunnels : tunnels[t].at = "closingPrevious" => tunnels[t].previous # t

\* The two halves of OpensNewest: the tunnel that a request opens is of the
\* route's node, and it is registered, or closed, or about to be.
RoutedToItsNode ==
    \A r \in Requests : requests[r].at = "opening" =>
       NodeOf[requests[r].tunnel] = content[requests[r].version]

OpenedRetires ==
    \A r \in Requests : requests[r].at = "opening" =>
       LET t == requests[r].tunnel
       IN  sessions[NodeOf[t]] = t \/ ~tunnels[t].open \/ ToBeClosed(t)

\* What is cached expires, at the latest, the two times after its version was
\* replaced, and no call began after the version it read was replaced.
RoutesAge ==
    /\ cached.version <= published /\ cached.expires <= now + CacheSeconds
    /\ cached.version # 0 =>
          \/ cached.version = published
          \/ cached.expires <= retired[cached.version] + CacheSeconds + CallSeconds
    /\ \A r \in Requests :
          /\ requests[r].version <= published /\ requests[r].started <= now
          /\ requests[r].at = "fetching" /\ requests[r].version # 0 =>
                \/ requests[r].version = published
                \/ requests[r].started <= retired[requests[r].version]

\* Both halves of the edge, tunnels and routes (connectTunnel, resolve).
EdgeInv == SessionsServed /\ PreviousOther /\ UnregisteredIsClosed /\ RoutesAge
           /\ RoutedToItsNode /\ OpenedRetires
=============================================================================
