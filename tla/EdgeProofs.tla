----------------------------- MODULE EdgeProofs -----------------------------
(* Proofs about Edge, for any number of tunnels, nodes and requests and    *)
(* any times: types, the inductive invariant, the freshness of routes and  *)
(* the implementation of SessionRegistry.                                  *)
EXTENDS Edge, TLAPS

-----------------------------------------------------------------------------
(* Types.                                                                  *)

LEMMA TunnelAt ==
  ASSUME NEW d \in Tunnel,
         NEW at \in {"new", "closingPrevious", "announcing", "waiting", "reporting", "gone"}
  PROVE  [d EXCEPT !.at = at] \in Tunnel
  BY DEF Tunnel

LEMMA TunnelClosed ==
  ASSUME NEW d \in Tunnel
  PROVE  [d EXCEPT !.open = FALSE] \in Tunnel
  BY DEF Tunnel

LEMMA IdleType == 0 \in Versions \union {0} /\ Idle \in Request
  BY DEF Idle, Request

LEMMA InitType == EdgeAssumption /\ Init => TypeOK
<1> SUFFICES ASSUME EdgeAssumption, Init PROVE TypeOK
  OBVIOUS
<1>1. [at |-> "new", open |-> TRUE, previous |-> NoTunnel] \in Tunnel
  BY DEF Tunnel
<1>2. 1 \in Versions
  BY DEF Versions, EdgeAssumption
<1>3. \A r \in Requests : requests[r].at = "idle"
  BY DEF Init, Idle
<1>4. content \in [Versions -> Contents]
  BY DEF Init
<1>5. sessions \in [Nodes -> Tunnels \union {NoTunnel}] /\ tunnels \in [Tunnels -> Tunnel]
  BY <1>1 DEF Init
<1>6. requests \in [Requests -> Request]
  BY IdleType DEF Init
<1>7. /\ cached \in [version : Versions \union {0}, expires : Nat]
      /\ published \in Versions /\ retired \in [Versions -> Nat] /\ now \in Nat
  BY <1>2 DEF Init
<1>8. QED
  BY <1>3, <1>4, <1>5, <1>6, <1>7 DEF TypeOK

LEMMA TunnelStepType ==
  ASSUME EdgeAssumption, TypeOK, NEW t \in Tunnels, TunnelStep(t)
  PROVE  TypeOK'
<1>1. UNCHANGED <<routeVars, apiVars, now>>
  BY DEF TunnelStep, RefuseTunnel, ConnectTunnel, ClosePrevious, Announced,
         SessionDies, Unregister, Reported
<1>2. tunnels \in [Tunnels -> Tunnel] /\ NodeOf[t] \in Nodes
      /\ sessions \in [Nodes -> Tunnels \union {NoTunnel}]
  BY DEF TypeOK, EdgeAssumption
<1>3. tunnels' \in [Tunnels -> Tunnel] /\ sessions' \in [Nodes -> Tunnels \union {NoTunnel}]
  <2>1. CASE RefuseTunnel(t)
    BY <1>2, <2>1 DEF RefuseTunnel, Tunnel
  <2>2. CASE ConnectTunnel(t)
    <3>1. [tunnels[t] EXCEPT !.at = "closingPrevious", !.previous = sessions[NodeOf[t]]]
            \in Tunnel
      BY <1>2 DEF Tunnel
    <3>2. QED
      BY <1>2, <2>2, <3>1 DEF ConnectTunnel
  <2>3. CASE ClosePrevious(t)
    BY <1>2, <2>3, TunnelAt, TunnelClosed DEF ClosePrevious
  <2>4. CASE Announced(t) \/ Reported(t)
    <3>1. /\ [tunnels[t] EXCEPT !.at = "waiting"] \in Tunnel
          /\ [tunnels[t] EXCEPT !.at = "gone"] \in Tunnel
      BY <1>2, TunnelAt
    <3>2. CASE Announced(t)
      BY <1>2, <3>1, <3>2 DEF Announced
    <3>3. CASE Reported(t)
      BY <1>2, <3>1, <3>3 DEF Reported
    <3>4. QED
      BY <2>4, <3>2, <3>3
  <2>5. CASE SessionDies(t)
    BY <1>2, <2>5, TunnelClosed DEF SessionDies
  <2>6. CASE Unregister(t)
    <3>1. /\ [tunnels[t] EXCEPT !.at = "reporting"] \in Tunnel
          /\ [tunnels[t] EXCEPT !.at = "gone"] \in Tunnel
      BY <1>2, TunnelAt
    <3>2. CASE sessions[NodeOf[t]] = t
      BY <1>2, <2>6, <3>1, <3>2 DEF Unregister
    <3>3. CASE sessions[NodeOf[t]] # t
      BY <1>2, <2>6, <3>1, <3>3 DEF Unregister
    <3>4. QED
      BY <3>2, <3>3
  <2>7. QED
    BY <2>1, <2>2, <2>3, <2>4, <2>5, <2>6 DEF TunnelStep
<1>4. QED
  BY <1>1, <1>3 DEF TypeOK, routeVars, apiVars

\* What a request keeps after a step of its own.
LEMMA RequestStepType ==
  ASSUME EdgeAssumption, TypeOK, NEW r \in Requests, RequestStep(r)
  PROVE  TypeOK'
<1>1. UNCHANGED <<tunnelVars, apiVars, now>>
  BY DEF RequestStep, ResolveCached, Fetch, ApiAnswers, StoreRoute, FetchFails,
         FindTunnel, Forward, SetRequest
<1>2. /\ requests \in [Requests -> Request] /\ now \in Nat /\ published \in Versions
      /\ cached \in [version : Versions \union {0}, expires : Nat]
      /\ sessions \in [Nodes -> Tunnels \union {NoTunnel}]
  BY DEF TypeOK
<1>3. \A x \in Versions : x # 0
  BY DEF Versions
<1>4. PICK value \in Request :
         /\ requests' = [requests EXCEPT ![r] = value]
         /\ value.at \in {"resolved", "opening"} => value.version # 0
         /\ value.at = "opening" => value.tunnel # NoTunnel
         /\ cached' \in [version : Versions \union {0}, expires : Nat]
  <2>1. CASE ResolveCached(r)
    <3> DEFINE value == [Idle EXCEPT !.at = "resolved", !.version = cached.version]
    <3>1. value \in Request /\ value.at = "resolved" /\ value.version # 0
      BY <1>2, <2>1 DEF Idle, Request, ResolveCached, Hit
    <3>2. requests' = [requests EXCEPT ![r] = value] /\ cached' = cached
      BY <2>1 DEF ResolveCached, SetRequest
    <3> HIDE DEF value
    <3>3. QED
      BY <1>2, <3>1, <3>2
  <2>2. CASE Fetch(r)
    <3> DEFINE value == [Idle EXCEPT !.at = "fetching", !.started = now]
    <3>1. value \in Request /\ value.at = "fetching"
      BY <1>2 DEF Idle, Request
    <3>2. requests' = [requests EXCEPT ![r] = value] /\ cached' = cached
      BY <2>2 DEF Fetch, SetRequest
    <3> HIDE DEF value
    <3>3. QED
      BY <1>2, <3>1, <3>2
  <2>3. CASE ApiAnswers(r)
    <3> DEFINE value == [requests[r] EXCEPT !.version = published]
    <3>1. value \in Request /\ value.at = "fetching"
      BY <1>2, <2>3 DEF ApiAnswers, Request
    <3>2. requests' = [requests EXCEPT ![r] = value] /\ cached' = cached
      BY <2>3 DEF ApiAnswers, SetRequest
    <3> HIDE DEF value
    <3>3. QED
      BY <1>2, <3>1, <3>2
  <2>4. CASE StoreRoute(r)
    <3> DEFINE value == [requests[r] EXCEPT !.at = "resolved", !.started = 0]
    <3>1. value \in Request /\ value.at = "resolved" /\ value.version # 0
      BY <1>2, <2>4 DEF StoreRoute, Request
    <3>2. requests' = [requests EXCEPT ![r] = value]
      BY <2>4 DEF StoreRoute, SetRequest
    <3>3. requests[r].version \in Versions /\ now + CacheSeconds \in Nat
      BY <1>2, <2>4 DEF StoreRoute, Request, EdgeAssumption
    <3>4. cached' \in [version : Versions \union {0}, expires : Nat]
      BY <2>4, <3>3 DEF StoreRoute
    <3> HIDE DEF value
    <3>5. QED
      BY <3>1, <3>2, <3>4
  <2>5. CASE FetchFails(r) \/ Forward(r)
    <3>1. requests' = [requests EXCEPT ![r] = Idle] /\ cached' = cached
      BY <2>5 DEF FetchFails, Forward, SetRequest
    <3>2. Idle.at = "idle"
      BY DEF Idle
    <3>3. QED
      BY <1>2, <3>1, <3>2, IdleType
  <2>6. CASE FindTunnel(r)
    <3> DEFINE node == content[requests[r].version]
               value == IF node \in Nodes /\ sessions[node] # NoTunnel
                        THEN [requests[r] EXCEPT !.at = "opening", !.tunnel = sessions[node]]
                        ELSE Idle
    <3>1. /\ requests' = [requests EXCEPT ![r] = value] /\ cached' = cached
          /\ requests[r].version # 0
      BY <2>6 DEF FindTunnel, SetRequest, TypeOK
    <3>2. /\ value \in Request
          /\ value.at \in {"resolved", "opening"} => value.version # 0
          /\ value.at = "opening" => value.tunnel # NoTunnel
      <4>1. CASE node \in Nodes /\ sessions[node] # NoTunnel
        BY <1>2, <3>1, <4>1 DEF Request
      <4>2. CASE ~(node \in Nodes /\ sessions[node] # NoTunnel)
        <5>1. value = Idle
          BY <4>2
        <5>2. Idle.at = "idle"
          BY DEF Idle
        <5> HIDE DEF value
        <5>3. QED
          BY <5>1, <5>2, IdleType
      <4>3. QED
        BY <4>1, <4>2
    <3> HIDE DEF value
    <3>3. QED
      BY <1>2, <3>1, <3>2
  <2>7. QED
    BY <2>1, <2>2, <2>3, <2>4, <2>5, <2>6 DEF RequestStep
<1>5. requests' \in [Requests -> Request]
  BY <1>2, <1>4
<1>6. \A q \in Requests :
         /\ requests'[q].at \in {"resolved", "opening"} => requests'[q].version # 0
         /\ requests'[q].at = "opening" => requests'[q].tunnel # NoTunnel
  BY <1>2, <1>4 DEF TypeOK
<1>7. QED
  BY <1>1, <1>4, <1>5, <1>6 DEF TypeOK, tunnelVars, apiVars

LEMMA NextType == EdgeAssumption /\ TypeOK /\ [Next]_vars => TypeOK'
<1> SUFFICES ASSUME EdgeAssumption, TypeOK, [Next]_vars PROVE TypeOK'
  OBVIOUS
<1>1. CASE Publish
  <2>1. published' \in Versions
    BY <1>1 DEF Publish, TypeOK, Versions, EdgeAssumption
  <2>2. content' \in [Versions -> Contents]
    BY <1>1 DEF Publish, TypeOK
  <2>3. retired' \in [Versions -> Nat]
    BY <1>1 DEF Publish, TypeOK
  <2>4. QED
    BY <1>1, <2>1, <2>2, <2>3 DEF Publish, TypeOK, tunnelVars, routeVars
<1>2. CASE Tick
  BY <1>2 DEF Tick, TypeOK, tunnelVars, routeVars, apiVars
<1>3. CASE UNCHANGED vars
  BY <1>3 DEF vars, TypeOK
<1>4. QED
  BY <1>1, <1>2, <1>3, TunnelStepType, RequestStepType DEF Next

\* No handler leaves what it does not understand: a request that opens a
\* stream has a session, and one that resolved a route has it (proxyHTTP).
THEOREM TypeCorrect == Spec => []TypeOK
<1>1. Init => TypeOK
  BY EdgeAssumption, InitType
<1>2. TypeOK /\ [Next]_vars => TypeOK'
  BY EdgeAssumption, NextType
<1>3. QED
  BY <1>1, <1>2, PTL DEF Spec

-----------------------------------------------------------------------------
(* Tunnels: the registry names serving tunnels, and what it lost ends.     *)

TunnelsInv == SessionsServed /\ PreviousOther /\ UnregisteredIsClosed

\* A step that moves t alone, does not open it and does not move it into
\* "closingPrevious", keeps the invariant if it leaves the registry without t
\* or t serving.
LEMMA TunnelMoves ==
  ASSUME EdgeAssumption, TypeOK, TunnelsInv, NEW t \in Tunnels,
         \A s \in Tunnels \ {t} : tunnels'[s] = tunnels[s],
         tunnels'[t].at = "closingPrevious" <=> tunnels[t].at = "closingPrevious",
         tunnels'[t].at = "closingPrevious" => tunnels'[t].previous = tunnels[t].previous,
         Serving(t)' => Serving(t) /\ (tunnels'[t].open => tunnels[t].open),
         \/ sessions' = sessions /\ (Serving(t) => Serving(t)')
         \/ sessions' = sessions /\ sessions[NodeOf[t]] # t
         \/ /\ sessions[NodeOf[t]] = t /\ ~Serving(t)'
            /\ sessions' = [sessions EXCEPT ![NodeOf[t]] = NoTunnel]
  PROVE  TunnelsInv'
<1>1. NodeOf \in [Tunnels -> Nodes] /\ NoTunnel \notin Tunnels
      /\ sessions \in [Nodes -> Tunnels \union {NoTunnel}]
  BY DEF TypeOK, EdgeAssumption
<1>2. SessionsServed'
  BY <1>1 DEF TunnelsInv, SessionsServed, Serving
<1>3. PreviousOther'
  BY DEF TunnelsInv, PreviousOther
<1>4. UnregisteredIsClosed'
  <2> SUFFICES ASSUME NEW u \in Tunnels, Serving(u)', sessions'[NodeOf[u]] # u,
                      tunnels'[u].open
               PROVE  \E s \in Tunnels : /\ tunnels'[s].at = "closingPrevious"
                                         /\ tunnels'[s].previous = u
    BY DEF UnregisteredIsClosed, Serving, ToBeClosed
  <2>1. Serving(u) /\ tunnels[u].open
    BY DEF Serving
  <2>2. sessions[NodeOf[u]] # u
    BY <1>1 DEF Serving
  <2>3. PICK s \in Tunnels : tunnels[s].at = "closingPrevious" /\ tunnels[s].previous = u
    BY <2>1, <2>2 DEF TunnelsInv, UnregisteredIsClosed, ToBeClosed
  <2>4. QED
    BY <2>3
<1>5. QED
  BY <1>2, <1>3, <1>4 DEF TunnelsInv

LEMMA ConnectKeeps ==
  ASSUME EdgeAssumption, TypeOK, TunnelsInv, NEW t \in Tunnels, ConnectTunnel(t)
  PROVE  TunnelsInv'
<1>1. /\ NodeOf \in [Tunnels -> Nodes] /\ NoTunnel \notin Tunnels
      /\ sessions \in [Nodes -> Tunnels \union {NoTunnel}]
      /\ tunnels \in [Tunnels -> Tunnel]
  BY DEF TypeOK, EdgeAssumption
<1>2. /\ \A s \in Tunnels \ {t} : tunnels'[s] = tunnels[s]
      /\ tunnels[t].at = "new" /\ tunnels'[t].at = "closingPrevious"
      /\ tunnels'[t].previous = sessions[NodeOf[t]]
      /\ sessions' = [sessions EXCEPT ![NodeOf[t]] = t]
  BY <1>1 DEF ConnectTunnel, Tunnel
<1>3. SessionsServed'
  BY <1>1, <1>2 DEF TunnelsInv, SessionsServed, Serving
<1>4. PreviousOther'
  BY <1>1, <1>2 DEF TunnelsInv, PreviousOther, SessionsServed, Serving
<1>5. UnregisteredIsClosed'
  BY <1>1, <1>2 DEF TunnelsInv, UnregisteredIsClosed, Serving, ToBeClosed
<1>6. QED
  BY <1>3, <1>4, <1>5 DEF TunnelsInv

LEMMA ClosePreviousKeeps ==
  ASSUME EdgeAssumption, TypeOK, TunnelsInv, NEW t \in Tunnels, ClosePrevious(t)
  PROVE  TunnelsInv'
<1>1. /\ NodeOf \in [Tunnels -> Nodes] /\ tunnels \in [Tunnels -> Tunnel]
      /\ sessions \in [Nodes -> Tunnels \union {NoTunnel}] /\ NoTunnel \notin Tunnels
  BY DEF TypeOK, EdgeAssumption
<1>2. tunnels[t].previous # t /\ tunnels[t].at = "closingPrevious"
  BY DEF TunnelsInv, PreviousOther, ClosePrevious
<1>3. /\ tunnels'[t].at = "announcing" /\ tunnels'[t].open = tunnels[t].open
      /\ sessions' = sessions
  BY <1>1 DEF ClosePrevious, Tunnel
<1>4. \A s \in Tunnels \ {t} :
         /\ tunnels'[s].at = tunnels[s].at /\ tunnels'[s].previous = tunnels[s].previous
         /\ IF s = tunnels[t].previous THEN tunnels'[s].open = FALSE
            ELSE tunnels'[s] = tunnels[s]
  BY <1>1 DEF ClosePrevious, Tunnel
<1>5. \A s \in Tunnels : Serving(s)' <=> Serving(s)
  BY <1>2, <1>3, <1>4 DEF Serving
<1>6. SessionsServed'
  BY <1>1, <1>3, <1>5 DEF TunnelsInv, SessionsServed
<1>7. PreviousOther'
  BY <1>3, <1>4 DEF TunnelsInv, PreviousOther
<1>8. UnregisteredIsClosed'
  <2> SUFFICES ASSUME NEW u \in Tunnels, Serving(u)', sessions'[NodeOf[u]] # u,
                      tunnels'[u].open
               PROVE  \E s \in Tunnels : /\ tunnels'[s].at = "closingPrevious"
                                         /\ tunnels'[s].previous = u
    BY DEF UnregisteredIsClosed, Serving, ToBeClosed
  <2>1. u # tunnels[t].previous /\ tunnels[u].open
    BY <1>1, <1>2, <1>3, <1>4
  <2>2. PICK s \in Tunnels : tunnels[s].at = "closingPrevious" /\ tunnels[s].previous = u
    BY <1>3, <1>5, <2>1 DEF TunnelsInv, UnregisteredIsClosed, ToBeClosed
  <2>3. QED
    BY <1>4, <2>1, <2>2
<1>9. QED
  BY <1>6, <1>7, <1>8 DEF TunnelsInv

LEMMA TunnelStepKeeps ==
  ASSUME EdgeAssumption, TypeOK, TunnelsInv, NEW t \in Tunnels, TunnelStep(t)
  PROVE  TunnelsInv'
<1>1. /\ tunnels \in [Tunnels -> Tunnel] /\ NodeOf[t] \in Nodes
      /\ sessions \in [Nodes -> Tunnels \union {NoTunnel}] /\ NoTunnel \notin Tunnels
  BY DEF TypeOK, EdgeAssumption
<1>2. CASE RefuseTunnel(t)
  <2>1. /\ \A s \in Tunnels \ {t} : tunnels'[s] = tunnels[s]
        /\ tunnels[t].at = "new" /\ tunnels'[t].at = "gone" /\ sessions' = sessions
    BY <1>1, <1>2 DEF RefuseTunnel, Tunnel
  <2>2. ~Serving(t) /\ ~Serving(t)'
    BY <2>1 DEF Serving
  <2>3. QED
    BY <2>1, <2>2, TunnelMoves
<1>3. CASE Announced(t)
  <2>1. /\ \A s \in Tunnels \ {t} : tunnels'[s] = tunnels[s]
        /\ tunnels[t].at = "announcing" /\ tunnels'[t].at = "waiting"
        /\ tunnels'[t].open = tunnels[t].open /\ sessions' = sessions
    BY <1>1, <1>3 DEF Announced, Tunnel
  <2>2. Serving(t) /\ Serving(t)'
    BY <2>1 DEF Serving
  <2>3. QED
    BY <2>1, <2>2, TunnelMoves
<1>4. CASE SessionDies(t)
  <2>1. /\ \A s \in Tunnels \ {t} : tunnels'[s] = tunnels[s]
        /\ tunnels'[t].at = tunnels[t].at /\ tunnels'[t].open = FALSE
        /\ tunnels'[t].previous = tunnels[t].previous
        /\ sessions' = sessions /\ Serving(t)
    BY <1>1, <1>4 DEF SessionDies, Tunnel, Serving
  <2>2. Serving(t)'
    BY <2>1 DEF Serving
  <2>3. QED
    BY <2>1, <2>2, TunnelMoves
<1>5. CASE Unregister(t)
  <2>1. /\ \A s \in Tunnels \ {t} : tunnels'[s] = tunnels[s]
        /\ tunnels[t].at = "waiting" /\ tunnels'[t].at \in {"reporting", "gone"}
    BY <1>1, <1>5 DEF Unregister, Tunnel
  <2>2. \/ sessions' = sessions /\ sessions[NodeOf[t]] # t
        \/ sessions[NodeOf[t]] = t /\ sessions' = [sessions EXCEPT ![NodeOf[t]] = NoTunnel]
    BY <1>5 DEF Unregister
  <2>3. ~Serving(t)'
    BY <2>1 DEF Serving
  <2>4. QED
    BY <2>1, <2>2, <2>3, TunnelMoves
<1>6. CASE Reported(t)
  <2>1. /\ \A s \in Tunnels \ {t} : tunnels'[s] = tunnels[s]
        /\ tunnels[t].at = "reporting" /\ tunnels'[t].at = "gone" /\ sessions' = sessions
    BY <1>1, <1>6 DEF Reported, Tunnel
  <2>2. ~Serving(t) /\ ~Serving(t)'
    BY <2>1 DEF Serving
  <2>3. QED
    BY <2>1, <2>2, TunnelMoves
<1>7. QED
  BY <1>2, <1>3, <1>4, <1>5, <1>6, ConnectKeeps, ClosePreviousKeeps DEF TunnelStep

LEMMA TunnelsInvKept ==
  ASSUME EdgeAssumption, TypeOK, TunnelsInv, [Next]_vars
  PROVE  TunnelsInv'
<1>1. CASE UNCHANGED tunnelVars
  BY <1>1 DEF tunnelVars, TunnelsInv, SessionsServed, PreviousOther,
              UnregisteredIsClosed, Serving, ToBeClosed
<1>2. CASE \E t \in Tunnels : TunnelStep(t)
  BY <1>2, TunnelStepKeeps
<1>3. CASE \E r \in Requests : RequestStep(r)
  BY <1>1, <1>3 DEF RequestStep, ResolveCached, Fetch, ApiAnswers, StoreRoute, FetchFails,
         FindTunnel, Forward, SetRequest
<1>4. CASE Publish \/ Tick
  BY <1>1, <1>4 DEF Publish, Tick
<1>5. CASE UNCHANGED vars
  BY <1>1, <1>5 DEF vars, tunnelVars
<1>6. QED
  BY <1>2, <1>3, <1>4, <1>5 DEF Next

-----------------------------------------------------------------------------
(* The tunnels that requests open: current, closed, or about to be closed. *)

\* A step that moves t alone, neither opens it nor moves it into or out of
\* "closingPrevious", and takes it out of the registry only if it is closed,
\* keeps what is known of every tunnel that is opened.
LEMMA OpenedMoves ==
  ASSUME EdgeAssumption, TypeOK, OpenedRetires, NEW t \in Tunnels, requests' = requests,
         \A s \in Tunnels \ {t} : tunnels'[s] = tunnels[s],
         tunnels'[t].at = "closingPrevious" <=> tunnels[t].at = "closingPrevious",
         tunnels'[t].at = "closingPrevious" => tunnels'[t].previous = tunnels[t].previous,
         tunnels'[t].open => tunnels[t].open,
         \/ sessions' = sessions
         \/ /\ sessions[NodeOf[t]] = t /\ ~tunnels'[t].open
            /\ sessions' = [sessions EXCEPT ![NodeOf[t]] = NoTunnel]
  PROVE  OpenedRetires'
<1> SUFFICES ASSUME NEW r \in Requests, requests[r].at = "opening", NEW u,
                    u = requests[r].tunnel, tunnels'[u].open, sessions'[NodeOf[u]] # u
             PROVE  ToBeClosed(u)'
  BY DEF OpenedRetires, ToBeClosed
<1>1. /\ NodeOf \in [Tunnels -> Nodes] /\ u \in Tunnels
      /\ sessions \in [Nodes -> Tunnels \union {NoTunnel}]
  BY DEF TypeOK, EdgeAssumption, Request
<1>2. tunnels[u].open /\ sessions[NodeOf[u]] # u
  BY <1>1
<1>3. PICK s \in Tunnels : tunnels[s].at = "closingPrevious" /\ tunnels[s].previous = u
  BY <1>2 DEF OpenedRetires, ToBeClosed
<1>4. tunnels'[s].at = "closingPrevious" /\ tunnels'[s].previous = u
  BY <1>3
<1>5. QED
  BY <1>4 DEF ToBeClosed

LEMMA OpenedConnects ==
  ASSUME EdgeAssumption, TypeOK, OpenedRetires, NEW t \in Tunnels, ConnectTunnel(t)
  PROVE  OpenedRetires'
<1>1. /\ NodeOf \in [Tunnels -> Nodes] /\ tunnels \in [Tunnels -> Tunnel]
      /\ sessions \in [Nodes -> Tunnels \union {NoTunnel}] /\ requests' = requests
  BY DEF TypeOK, EdgeAssumption, ConnectTunnel, routeVars
<1>2. /\ \A s \in Tunnels \ {t} : tunnels'[s] = tunnels[s]
      /\ tunnels[t].at = "new" /\ tunnels'[t].at = "closingPrevious"
      /\ tunnels'[t].previous = sessions[NodeOf[t]]
      /\ sessions' = [sessions EXCEPT ![NodeOf[t]] = t]
  BY <1>1 DEF ConnectTunnel, Tunnel
<1> SUFFICES ASSUME NEW r \in Requests, requests[r].at = "opening", NEW u,
                    u = requests[r].tunnel, tunnels'[u].open, sessions'[NodeOf[u]] # u
             PROVE  ToBeClosed(u)'
  BY <1>1 DEF OpenedRetires, ToBeClosed
<1>3. u \in Tunnels /\ u # t /\ tunnels[u].open
  BY <1>1, <1>2 DEF TypeOK, Request
<1>4. CASE sessions[NodeOf[u]] = u
  <2>1. tunnels'[t].previous = u
    BY <1>1, <1>2, <1>3, <1>4
  <2>2. QED
    BY <1>2, <2>1 DEF ToBeClosed
<1>5. CASE sessions[NodeOf[u]] # u
  <2>1. PICK s \in Tunnels : tunnels[s].at = "closingPrevious" /\ tunnels[s].previous = u
    BY <1>3, <1>5 DEF OpenedRetires, ToBeClosed
  <2>2. tunnels'[s].at = "closingPrevious" /\ tunnels'[s].previous = u
    BY <1>2, <2>1
  <2>3. QED
    BY <2>2 DEF ToBeClosed
<1>6. QED
  BY <1>4, <1>5

LEMMA OpenedClosesPrevious ==
  ASSUME EdgeAssumption, TypeOK, PreviousOther, OpenedRetires, NEW t \in Tunnels,
         ClosePrevious(t)
  PROVE  OpenedRetires'
<1>1. /\ tunnels \in [Tunnels -> Tunnel] /\ sessions' = sessions /\ requests' = requests
  BY DEF TypeOK, ClosePrevious, routeVars
<1>2. tunnels[t].previous # t /\ tunnels[t].at = "closingPrevious"
  BY DEF PreviousOther, ClosePrevious
<1>3. tunnels'[t].open = tunnels[t].open
  BY <1>1 DEF ClosePrevious, Tunnel
<1>4. \A s \in Tunnels \ {t} :
         /\ tunnels'[s].at = tunnels[s].at /\ tunnels'[s].previous = tunnels[s].previous
         /\ IF s = tunnels[t].previous THEN tunnels'[s].open = FALSE
            ELSE tunnels'[s] = tunnels[s]
  BY <1>1 DEF ClosePrevious, Tunnel
<1> SUFFICES ASSUME NEW r \in Requests, requests[r].at = "opening", NEW u,
                    u = requests[r].tunnel, tunnels'[u].open, sessions[NodeOf[u]] # u
             PROVE  ToBeClosed(u)'
  BY <1>1 DEF OpenedRetires, ToBeClosed
<1>5. u \in Tunnels /\ u # tunnels[t].previous /\ tunnels[u].open
  BY <1>2, <1>3, <1>4 DEF TypeOK, Request
<1>6. PICK s \in Tunnels : tunnels[s].at = "closingPrevious" /\ tunnels[s].previous = u
  BY <1>5 DEF OpenedRetires, ToBeClosed
<1>7. tunnels'[s].at = "closingPrevious" /\ tunnels'[s].previous = u
  BY <1>4, <1>5, <1>6
<1>8. QED
  BY <1>7 DEF ToBeClosed

LEMMA OpenedByTunnel ==
  ASSUME EdgeAssumption, TypeOK, PreviousOther, OpenedRetires, NEW t \in Tunnels,
         TunnelStep(t)
  PROVE  OpenedRetires'
<1>1. tunnels \in [Tunnels -> Tunnel]
  BY DEF TypeOK
<1>2. requests' = requests
  BY DEF TunnelStep, RefuseTunnel, ConnectTunnel, ClosePrevious, Announced, SessionDies,
         Unregister, Reported, routeVars
<1>3. CASE RefuseTunnel(t) \/ Announced(t) \/ SessionDies(t) \/ Reported(t)
  <2>1. /\ \A s \in Tunnels \ {t} : tunnels'[s] = tunnels[s]
        /\ tunnels'[t].at = "closingPrevious" <=> tunnels[t].at = "closingPrevious"
        /\ tunnels'[t].previous = tunnels[t].previous
        /\ tunnels'[t].open => tunnels[t].open
        /\ sessions' = sessions
    BY <1>1, <1>3 DEF RefuseTunnel, Announced, SessionDies, Reported, Tunnel
  <2>2. QED
    BY <1>2, <2>1, OpenedMoves
<1>4. CASE Unregister(t)
  <2>1. /\ \A s \in Tunnels \ {t} : tunnels'[s] = tunnels[s]
        /\ tunnels[t].at = "waiting" /\ tunnels'[t].at \in {"reporting", "gone"}
        /\ ~tunnels[t].open /\ tunnels'[t].open = tunnels[t].open
    BY <1>1, <1>4 DEF Unregister, Tunnel
  <2>2. \/ sessions' = sessions
        \/ sessions[NodeOf[t]] = t /\ sessions' = [sessions EXCEPT ![NodeOf[t]] = NoTunnel]
    BY <1>4 DEF Unregister
  <2>3. tunnels[t].at # "closingPrevious" /\ tunnels'[t].at # "closingPrevious"
    BY <2>1
  <2>4. QED
    BY <1>2, <2>1, <2>2, <2>3, OpenedMoves
<1>5. QED
  BY <1>3, <1>4, OpenedConnects, OpenedClosesPrevious DEF TunnelStep

LEMMA OpenedByRequest ==
  ASSUME EdgeAssumption, TypeOK, TunnelsInv, OpenedRetires, NEW r \in Requests,
         RequestStep(r)
  PROVE  OpenedRetires'
<1>1. sessions' = sessions /\ tunnels' = tunnels
  BY DEF RequestStep, ResolveCached, Fetch, ApiAnswers, StoreRoute, FetchFails,
         FindTunnel, Forward, SetRequest, tunnelVars
<1>2. requests \in [Requests -> Request] /\ Idle.at = "idle"
  BY DEF TypeOK, Idle
<1>3. PICK value : requests' = [requests EXCEPT ![r] = value]
  BY DEF RequestStep, ResolveCached, Fetch, ApiAnswers, StoreRoute, FetchFails,
         FindTunnel, Forward, SetRequest
<1>4. \A q \in Requests : requests'[q] = IF q = r THEN value ELSE requests[q]
  BY <1>2, <1>3
<1>5. ASSUME value.at = "opening"
      PROVE  sessions[NodeOf[value.tunnel]] = value.tunnel
  <2>1. CASE FindTunnel(r)
    <3> DEFINE node == content[requests[r].version]
               found == [requests[r] EXCEPT !.at = "opening", !.tunnel = sessions[node]]
    <3>1. CASE node \in Nodes /\ sessions[node] # NoTunnel
      <4>1. requests'[r] = found
        BY <1>2, <2>1, <3>1 DEF FindTunnel, SetRequest
      <4>2. value.tunnel = sessions[node]
        <5>1. value = found /\ requests[r] \in Request
          BY <1>2, <1>4, <4>1
        <5>2. QED
          BY <5>1 DEF Request
      <4>3. QED
        BY <3>1, <4>2 DEF TunnelsInv, SessionsServed
    <3>2. CASE ~(node \in Nodes /\ sessions[node] # NoTunnel)
      <4>1. requests'[r] = Idle
        BY <1>2, <2>1, <3>2 DEF FindTunnel, SetRequest
      <4>2. QED
        BY <1>2, <1>4, <1>5, <4>1
    <3>3. QED
      BY <3>1, <3>2
  <2>2. CASE ResolveCached(r) \/ Fetch(r) \/ FetchFails(r) \/ Forward(r)
    BY <1>2, <1>4, <1>5, <2>2
       DEF ResolveCached, Fetch, FetchFails, Forward, SetRequest, Idle
  <2>3. CASE ApiAnswers(r) \/ StoreRoute(r)
    <3>1. value = requests'[r] /\ requests[r] \in Request
      BY <1>2, <1>4
    <3>2. ApiAnswers(r) => value = [requests[r] EXCEPT !.version = published]
      BY <1>2, <3>1 DEF ApiAnswers, SetRequest
    <3>3. ApiAnswers(r) => requests[r].at = "fetching"
      BY DEF ApiAnswers
    <3>4. StoreRoute(r) => value = [requests[r] EXCEPT !.at = "resolved", !.started = 0]
      BY <1>2, <3>1 DEF StoreRoute, SetRequest
    <3>5. value.at \in {"fetching", "resolved"}
      BY <2>3, <3>1, <3>2, <3>3, <3>4 DEF Request
    <3>6. QED
      BY <1>5, <3>5
  <2>4. QED
    BY <2>1, <2>2, <2>3 DEF RequestStep
<1>6. QED
  BY <1>1, <1>4, <1>5 DEF OpenedRetires, ToBeClosed

LEMMA OpenedKept ==
  ASSUME EdgeAssumption, TypeOK, TunnelsInv, OpenedRetires, [Next]_vars
  PROVE  OpenedRetires'
<1>1. CASE UNCHANGED <<sessions, tunnels, requests>>
  BY <1>1 DEF OpenedRetires, ToBeClosed
<1>2. CASE \E t \in Tunnels : TunnelStep(t)
  BY <1>2, OpenedByTunnel DEF TunnelsInv
<1>3. CASE \E r \in Requests : RequestStep(r)
  BY <1>3, OpenedByRequest
<1>4. CASE Publish \/ Tick
  BY <1>1, <1>4 DEF Publish, Tick, tunnelVars, routeVars
<1>5. CASE UNCHANGED vars
  BY <1>1, <1>5 DEF vars
<1>6. QED
  BY <1>2, <1>3, <1>4, <1>5 DEF Next

-----------------------------------------------------------------------------
(* Routes: what is cached and what was read is not too old.                *)

RoutesInv == RoutesAge /\ RoutedToItsNode

LEMMA PublishKeeps ==
  ASSUME EdgeAssumption, TypeOK, RoutesInv, Publish
  PROVE  RoutesInv'
<1>1. /\ published \in Nat /\ published' = published + 1 /\ now \in Nat
      /\ CacheSeconds \in Nat /\ CallSeconds \in Nat
      /\ UNCHANGED <<cached, requests, now>>
  BY DEF Publish, TypeOK, EdgeAssumption, Versions, routeVars
<1>2. /\ cached.version \in Nat /\ cached.expires \in Nat
      /\ \A r \in Requests : requests[r].version \in Nat /\ requests[r].started \in Nat
  BY DEF TypeOK, Request, Versions
<1>3. /\ retired'[published] = now
      /\ \A v \in Versions : v # published => retired'[v] = retired[v]
      /\ \A v \in Versions : v # published + 1 => content'[v] = content[v]
  BY <1>1 DEF Publish, TypeOK
<1>4. /\ cached.version = 0 \/ cached.version \in Versions
      /\ \A r \in Requests : requests[r].version = 0 \/ requests[r].version \in Versions
  BY DEF TypeOK, Request
<1>5. cached'.version # 0 =>
         \/ cached'.version = published'
         \/ cached'.expires <= retired'[cached'.version] + CacheSeconds + CallSeconds
  <2>1. CASE cached.version = published
    BY <1>1, <1>2, <1>3, <2>1 DEF RoutesInv, RoutesAge
  <2>2. CASE cached.version # published
    BY <1>1, <1>3, <1>4, <2>2 DEF RoutesInv, RoutesAge
  <2>3. QED
    BY <2>1, <2>2
<1>6. ASSUME NEW r \in Requests
      PROVE  /\ requests'[r].version <= published' /\ requests'[r].started <= now'
             /\ requests'[r].at = "fetching" /\ requests'[r].version # 0 =>
                   \/ requests'[r].version = published'
                   \/ requests'[r].started <= retired'[requests'[r].version]
  <2>1. requests[r].version <= published /\ requests[r].started <= now
    BY DEF RoutesInv, RoutesAge
  <2>2. CASE requests[r].version = published
    BY <1>1, <1>2, <1>3, <2>1, <2>2
  <2>3. CASE requests[r].version # published
    BY <1>1, <1>2, <1>3, <1>4, <2>1, <2>3 DEF RoutesInv, RoutesAge
  <2>4. QED
    BY <2>2, <2>3
<1>7. RoutesAge'
  BY <1>1, <1>2, <1>5, <1>6 DEF RoutesInv, RoutesAge
<1>8. RoutedToItsNode'
  <2> SUFFICES ASSUME NEW r \in Requests, requests[r].at = "opening"
               PROVE  NodeOf[requests[r].tunnel] = content'[requests[r].version]
    BY <1>1 DEF RoutedToItsNode
  <2>1. requests[r].version \in Versions /\ requests[r].version # published + 1
    BY <1>1, <1>2, <1>4 DEF TypeOK, RoutesInv, RoutesAge
  <2>2. QED
    BY <1>3, <2>1 DEF RoutesInv, RoutedToItsNode
<1>9. QED
  BY <1>7, <1>8 DEF RoutesInv

\* A step of a request leaves the clock and the API alone: what it puts into
\* the cache and into its own record decides.
LEMMA RequestMoves ==
  ASSUME EdgeAssumption, TypeOK, RoutesInv, NEW r \in Requests, NEW value \in Request,
         requests' = [requests EXCEPT ![r] = value],
         UNCHANGED <<tunnelVars, apiVars, now>>,
         cached' = cached \/
            /\ cached'.version <= published /\ cached'.expires <= now + CacheSeconds
            /\ cached'.version # 0 =>
                  \/ cached'.version = published
                  \/ cached'.expires <= retired[cached'.version] + CacheSeconds + CallSeconds,
         value.version <= published /\ value.started <= now,
         value.at = "fetching" /\ value.version # 0 =>
            value.version = published \/ value.started <= retired[value.version],
         value.at = "opening" => NodeOf[value.tunnel] = content[value.version]
  PROVE  RoutesInv'
<1>1. /\ requests \in [Requests -> Request]
      /\ published' = published /\ retired' = retired /\ content' = content /\ now' = now
  BY DEF TypeOK, apiVars
<1>2. \A q \in Requests : requests'[q] = IF q = r THEN value ELSE requests[q]
  BY <1>1
<1>3. RoutesAge'
  BY <1>1, <1>2 DEF RoutesInv, RoutesAge
<1>4. RoutedToItsNode'
  BY <1>1, <1>2 DEF RoutesInv, RoutedToItsNode
<1>5. QED
  BY <1>3, <1>4 DEF RoutesInv

LEMMA RequestStepKeeps ==
  ASSUME EdgeAssumption, TypeOK, TunnelsInv, RoutesInv, NEW r \in Requests, RequestStep(r)
  PROVE  RoutesInv'
<1>1. UNCHANGED <<tunnelVars, apiVars, now>>
  BY DEF RequestStep, ResolveCached, Fetch, ApiAnswers, StoreRoute, FetchFails,
         FindTunnel, Forward, SetRequest
<1>2. /\ requests[r] \in Request /\ now \in Nat /\ published \in Nat /\ 0 <= published
      /\ cached.version \in Versions \union {0} /\ cached.expires \in Nat
      /\ CacheSeconds \in Nat /\ CallSeconds \in Nat
      /\ requests[r].version <= published /\ requests[r].started <= now
      /\ cached.version <= published
  BY DEF TypeOK, Versions, EdgeAssumption, RoutesInv, RoutesAge
<1>3. /\ Idle \in Request /\ Idle.at = "idle" /\ Idle.version = 0 /\ Idle.started = 0
      /\ 0 <= now /\ published <= published /\ now <= now
  BY <1>2, IdleType DEF Idle
<1>4. CASE ResolveCached(r)
  <2> DEFINE value == [Idle EXCEPT !.at = "resolved", !.version = cached.version]
  <2>1. /\ value \in Request /\ value.at = "resolved" /\ value.started = 0
        /\ value.version = cached.version
    BY <1>2, <1>4 DEF Idle, Request, ResolveCached, Hit
  <2>2. requests' = [requests EXCEPT ![r] = value] /\ cached' = cached
    BY <1>4 DEF ResolveCached, SetRequest
  <2> HIDE DEF value
  <2>3. QED
    BY <1>1, <1>2, <1>3, <2>1, <2>2, RequestMoves
<1>5. CASE Fetch(r)
  <2> DEFINE value == [Idle EXCEPT !.at = "fetching", !.started = now]
  <2>1. /\ value \in Request /\ value.at = "fetching" /\ value.version = 0
        /\ value.started = now
    BY <1>2 DEF Idle, Request
  <2>2. requests' = [requests EXCEPT ![r] = value] /\ cached' = cached
    BY <1>5 DEF Fetch, SetRequest
  <2> HIDE DEF value
  <2>3. QED
    BY <1>1, <1>2, <1>3, <2>1, <2>2, RequestMoves
<1>6. CASE ApiAnswers(r)
  <2> DEFINE value == [requests[r] EXCEPT !.version = published]
  <2>1. /\ value \in Request /\ value.at = "fetching" /\ value.version = published
        /\ value.started = requests[r].started
    BY <1>2, <1>6 DEF ApiAnswers, Request, TypeOK
  <2>2. requests' = [requests EXCEPT ![r] = value] /\ cached' = cached
    BY <1>6 DEF ApiAnswers, SetRequest
  <2> HIDE DEF value
  <2>3. QED
    BY <1>1, <1>2, <1>3, <2>1, <2>2, RequestMoves
<1>7. CASE StoreRoute(r)
  <2> DEFINE value == [requests[r] EXCEPT !.at = "resolved", !.started = 0]
             v == requests[r].version
  <2>1. /\ value \in Request /\ value.at = "resolved" /\ value.version = v
        /\ value.started = 0
    BY <1>2, <1>7 DEF StoreRoute, Request
  <2>2. requests' = [requests EXCEPT ![r] = value]
    BY <1>7 DEF StoreRoute, SetRequest
  <2>3. cached'.version = v /\ cached'.expires = now + CacheSeconds
    BY <1>7 DEF StoreRoute
  <2>4. v = published \/ now + CacheSeconds <= retired[v] + CacheSeconds + CallSeconds
    <3>1. /\ requests[r].at = "fetching" /\ v # 0 /\ now <= requests[r].started + CallSeconds
      BY <1>7 DEF StoreRoute
    <3>2. v = published \/ requests[r].started <= retired[v]
      BY <3>1 DEF RoutesInv, RoutesAge
    <3>3. retired[v] \in Nat /\ requests[r].started \in Nat
      BY <1>2, <3>1 DEF TypeOK, Request
    <3>4. QED
      BY <1>2, <3>1, <3>2, <3>3
  <2>5. now + CacheSeconds <= now + CacheSeconds
    BY <1>2
  <2> HIDE DEF value, v
  <2>6. v <= published
    BY <1>2 DEF v
  <2>7. QED
    BY <1>1, <1>2, <1>3, <2>1, <2>2, <2>3, <2>4, <2>5, <2>6, RequestMoves
<1>8. CASE FetchFails(r) \/ Forward(r)
  <2>1. requests' = [requests EXCEPT ![r] = Idle] /\ cached' = cached
    BY <1>8 DEF FetchFails, Forward, SetRequest
  <2>2. QED
    BY <1>1, <1>2, <1>3, <2>1, RequestMoves
<1>9. CASE FindTunnel(r)
  <2> DEFINE node == content[requests[r].version]
             found == [requests[r] EXCEPT !.at = "opening", !.tunnel = sessions[node]]
  <2>1. CASE node \in Nodes /\ sessions[node] # NoTunnel
    <3>1. requests' = [requests EXCEPT ![r] = found] /\ cached' = cached
      BY <1>9, <2>1 DEF FindTunnel, SetRequest
    <3>2. /\ found \in Request /\ found.at = "opening" /\ found.tunnel = sessions[node]
          /\ found.version = requests[r].version /\ found.started = requests[r].started
      BY <1>2, <2>1 DEF Request, TypeOK
    <3>3. NodeOf[sessions[node]] = node
      BY <2>1 DEF TunnelsInv, SessionsServed
    <3> HIDE DEF found
    <3>4. QED
      BY <1>1, <1>2, <1>3, <3>1, <3>2, <3>3, RequestMoves
  <2>2. CASE ~(node \in Nodes /\ sessions[node] # NoTunnel)
    <3>1. requests' = [requests EXCEPT ![r] = Idle] /\ cached' = cached
      BY <1>9, <2>2 DEF FindTunnel, SetRequest
    <3>2. QED
      BY <1>1, <1>2, <1>3, <3>1, RequestMoves
  <2>3. QED
    BY <2>1, <2>2
<1>10. QED
  BY <1>4, <1>5, <1>6, <1>7, <1>8, <1>9 DEF RequestStep

LEMMA TickKeeps ==
  ASSUME EdgeAssumption, TypeOK, RoutesInv, Tick
  PROVE  RoutesInv'
<1>1. /\ now' = now + 1 /\ now \in Nat /\ CacheSeconds \in Nat /\ cached.expires \in Nat
      /\ cached' = cached /\ requests' = requests /\ content' = content
      /\ published' = published /\ retired' = retired
      /\ \A r \in Requests : requests[r].started \in Nat
  BY DEF Tick, routeVars, apiVars, TypeOK, EdgeAssumption, Request
<1>2. RoutesAge'
  BY <1>1 DEF RoutesInv, RoutesAge
<1>3. RoutedToItsNode'
  BY <1>1 DEF RoutesInv, RoutedToItsNode
<1>4. QED
  BY <1>2, <1>3 DEF RoutesInv

LEMMA RoutesInvKept ==
  ASSUME EdgeAssumption, TypeOK, TunnelsInv, RoutesInv, [Next]_vars
  PROVE  RoutesInv'
<1>1. CASE UNCHANGED <<routeVars, apiVars, now>>
  BY <1>1 DEF routeVars, apiVars, RoutesInv, RoutesAge, RoutedToItsNode
<1>2. CASE \E t \in Tunnels : TunnelStep(t)
  BY <1>1, <1>2 DEF TunnelStep, RefuseTunnel, ConnectTunnel, ClosePrevious, Announced,
         SessionDies, Unregister, Reported
<1>3. CASE \E r \in Requests : RequestStep(r)
  BY <1>3, RequestStepKeeps
<1>4. CASE UNCHANGED vars
  BY <1>1, <1>4 DEF vars, routeVars, apiVars
<1>5. QED
  BY <1>2, <1>3, <1>4, PublishKeeps, TickKeeps DEF Next

LEMMA InitInv == EdgeAssumption /\ Init => EdgeInv
<1> SUFFICES ASSUME EdgeAssumption, Init PROVE EdgeInv
  OBVIOUS
<1>1. /\ \A n \in Nodes : sessions[n] = NoTunnel
      /\ \A t \in Tunnels : tunnels[t].at = "new"
  BY DEF Init
<1>2. SessionsServed /\ PreviousOther /\ UnregisteredIsClosed
  BY <1>1 DEF SessionsServed, PreviousOther, UnregisteredIsClosed, Serving, ToBeClosed
<1>3. /\ cached.version = 0 /\ cached.expires = 0 /\ published = 1 /\ now = 0
      /\ \A r \in Requests : /\ requests[r].at = "idle" /\ requests[r].version = 0
                             /\ requests[r].started = 0
  BY DEF Init, Idle
<1>4. RoutesAge
  BY <1>3 DEF RoutesAge, EdgeAssumption
<1>5. RoutedToItsNode /\ OpenedRetires
  BY <1>3 DEF RoutedToItsNode, OpenedRetires
<1>6. QED
  BY <1>2, <1>4, <1>5 DEF EdgeInv

\* The registry names serving tunnels of the right node, what it lost is closed
\* or about to be, and neither the cache nor a call holds a route that is older
\* than the two times allow (connectTunnel, unregister, resolve).
THEOREM InvHolds == Spec => []EdgeInv
<1>1. Init => TypeOK /\ EdgeInv
  BY EdgeAssumption, InitType, InitInv
<1>2. TypeOK /\ EdgeInv /\ [Next]_vars => (TypeOK /\ EdgeInv)'
  <2> SUFFICES ASSUME TypeOK, EdgeInv, [Next]_vars PROVE TypeOK' /\ EdgeInv'
    OBVIOUS
  <2>1. TunnelsInv /\ RoutesInv /\ OpenedRetires
    BY DEF EdgeInv, TunnelsInv, RoutesInv
  <2>2. TypeOK' /\ TunnelsInv' /\ RoutesInv' /\ OpenedRetires'
    BY <2>1, EdgeAssumption, NextType, TunnelsInvKept, RoutesInvKept, OpenedKept
  <2>3. QED
    BY <2>2 DEF EdgeInv, TunnelsInv, RoutesInv
<1>3. QED
  BY <1>1, <1>2, PTL DEF Spec

\* A tunnel that the registry lost does not stay open unseen (connectTunnel).
THEOREM UnregisteredCloses == Spec => []UnregisteredIsClosed
<1>1. EdgeInv => UnregisteredIsClosed
  BY DEF EdgeInv
<1>2. QED
  BY <1>1, InvHolds, PTL

\* A request opens its stream on a tunnel of the node that its route names, and
\* on the newest one of that node or on one that is closed or about to be
\* closed, however tunnels, routes and requests overtake one another (proxyHTTP,
\* connectTunnel, unregister).
THEOREM RoutingHolds == Spec => []OpensNewest
<1>1. EdgeInv => OpensNewest
  BY DEF EdgeInv, RoutedToItsNode, OpenedRetires, OpensNewest
<1>2. QED
  BY <1>1, InvHolds, PTL

-----------------------------------------------------------------------------
(* Steps.                                                                  *)

LEMMA FreshStep ==
  ASSUME EdgeAssumption, TypeOK, EdgeInv, [Next]_vars, NEW r \in Requests,
         requests[r].at # "resolved", requests'[r].at = "resolved"
  PROVE  UsableStill(requests'[r].version)
<1>1. requests \in [Requests -> Request] /\ now \in Nat /\ cached.expires \in Nat
      /\ CacheSeconds \in Nat /\ CallSeconds \in Nat /\ RoutesAge
      /\ 0 < CacheSeconds
  BY DEF TypeOK, EdgeAssumption, EdgeInv
<1>2. \A v \in Versions : retired[v] \in Nat
  BY DEF TypeOK
<1>3. PICK q \in Requests : RequestStep(q)
  BY DEF Next, TunnelStep, RefuseTunnel, ConnectTunnel, ClosePrevious, Announced,
         SessionDies, Unregister, Reported, Publish, Tick, vars, routeVars
<1>4. PICK value : requests' = [requests EXCEPT ![q] = value]
  BY <1>3 DEF RequestStep, ResolveCached, Fetch, ApiAnswers, StoreRoute, FetchFails,
         FindTunnel, Forward, SetRequest
<1>5. q = r
  BY <1>1, <1>4
<1>6. requests[r] \in Request
  BY <1>1
<1>7. CASE ResolveCached(r)
  <2>1. /\ cached.version # 0 /\ now < cached.expires
        /\ requests'[r].version = cached.version
    BY <1>1, <1>7 DEF ResolveCached, Hit, SetRequest, Idle
  <2>2. \/ cached.version = published
        \/ cached.expires <= retired[cached.version] + CacheSeconds + CallSeconds
    BY <1>1, <2>1 DEF RoutesAge
  <2>3. retired[cached.version] \in Nat
    BY <1>2, <2>1 DEF TypeOK
  <2>4. QED
    BY <1>1, <2>1, <2>2, <2>3 DEF UsableStill
<1>8. CASE StoreRoute(r)
  <2> DEFINE v == requests[r].version
  <2>1. /\ requests[r].at = "fetching" /\ v # 0 /\ now <= requests[r].started + CallSeconds
        /\ requests'[r].version = v
    BY <1>1, <1>6, <1>8 DEF StoreRoute, SetRequest, Request
  <2>2. v = published \/ requests[r].started <= retired[v]
    BY <1>1, <2>1 DEF RoutesAge
  <2>3. retired[v] \in Nat /\ requests[r].started \in Nat
    BY <1>2, <1>6, <2>1 DEF Request
  <2>4. v = published \/ now < retired[v] + CacheSeconds + CallSeconds
    BY <1>1, <2>1, <2>2, <2>3
  <2>5. QED
    BY <2>1, <2>4 DEF UsableStill
<1>9. CASE Fetch(r) \/ FetchFails(r) \/ Forward(r)
  <2>1. Idle.at = "idle" /\ [Idle EXCEPT !.at = "fetching", !.started = now].at = "fetching"
    BY DEF Idle
  <2>2. QED
    BY <1>1, <1>9, <2>1 DEF Fetch, FetchFails, Forward, SetRequest
<1>10. CASE ApiAnswers(r)
  BY <1>1, <1>6, <1>10 DEF ApiAnswers, SetRequest, Request
<1>11. CASE FindTunnel(r)
  BY <1>11 DEF FindTunnel
<1>12. QED
  BY <1>3, <1>5, <1>7, <1>8, <1>9, <1>10, <1>11 DEF RequestStep

\* However the answers of slow calls overtake one another, a route is used at
\* most CacheSeconds + CallSeconds after the API replaced it (resolve).
THEOREM RoutesFresh == Spec => RouteFresh
<1>1. TypeOK /\ EdgeInv /\ [Next]_vars =>
        [\A r \in Requests :
            requests[r].at # "resolved" /\ requests'[r].at = "resolved" =>
               UsableStill(requests'[r].version)]_vars
  BY EdgeAssumption, FreshStep
<1>2. QED
  BY <1>1, TypeCorrect, InvHolds, PTL DEF Spec, RouteFresh

-----------------------------------------------------------------------------
(* The edge implements SessionRegistry.                                    *)

LEMMA PhaseIs ==
  ASSUME NEW t \in Tunnels
  PROVE  /\ tunnels[t].at = "new" => Phase(t) = "new"
         /\ tunnels[t].at = "gone" => Phase(t) = "gone"
         /\ tunnels[t].at = "reporting" => Phase(t) = "leaving"
         /\ Serving(t) /\ sessions[NodeOf[t]] = t => Phase(t) = "current"
         /\ Serving(t) /\ sessions[NodeOf[t]] # t => Phase(t) = "retired"
  BY DEF Phase, Serving

LEMMA PhaseBecomes ==
  ASSUME NEW t \in Tunnels
  PROVE  /\ tunnels'[t].at = "new" => Phase(t)' = "new"
         /\ tunnels'[t].at = "gone" => Phase(t)' = "gone"
         /\ tunnels'[t].at = "reporting" => Phase(t)' = "leaving"
         /\ Serving(t)' /\ sessions'[NodeOf[t]] = t => Phase(t)' = "current"
         /\ Serving(t)' /\ sessions'[NodeOf[t]] # t => Phase(t)' = "retired"
  BY DEF Phase, Serving

LEMMA Unmoved ==
  ASSUME NEW t \in Tunnels, tunnels'[t].at = tunnels[t].at,
         sessions'[NodeOf[t]] = t <=> sessions[NodeOf[t]] = t
  PROVE  Phase(t)' = Phase(t)
  BY DEF Phase, Serving

\* A step that moves t alone, and the registry at most at t, moves the phase of
\* t alone.
LEMMA PhaseMoves ==
  ASSUME EdgeAssumption, NEW t \in Tunnels, NEW p, Phase(t)' = p,
         \A s \in Tunnels \ {t} :
            /\ tunnels'[s].at = tunnels[s].at
            /\ sessions'[NodeOf[s]] = s <=> sessions[NodeOf[s]] = s
  PROVE  TunnelPhases' = [TunnelPhases EXCEPT ![t] = p]
<1>1. \A s \in Tunnels \ {t} : Phase(s)' = Phase(s)
  BY Unmoved
<1>2. TunnelPhases' = [s \in Tunnels |-> IF s = t THEN p ELSE Phase(s)]
  BY <1>1 DEF TunnelPhases
<1>3. [TunnelPhases EXCEPT ![t] = p] = [s \in Tunnels |-> IF s = t THEN p ELSE Phase(s)]
  BY DEF TunnelPhases
<1>4. QED
  BY <1>2, <1>3

LEMMA PhasesStand ==
  ASSUME \A t \in Tunnels : \/ tunnels'[t].at = tunnels[t].at
                            \/ Serving(t) /\ Serving(t)',
         sessions' = sessions
  PROVE  UNCHANGED <<sessions, TunnelPhases>>
<1>1. \A t \in Tunnels : Phase(t)' = Phase(t)
  <2> SUFFICES ASSUME NEW t \in Tunnels PROVE Phase(t)' = Phase(t)
    OBVIOUS
  <2>1. CASE tunnels'[t].at = tunnels[t].at
    BY <2>1, Unmoved
  <2>2. CASE Serving(t) /\ Serving(t)'
    BY <2>2, PhaseIs, PhaseBecomes
  <2>3. QED
    BY <2>1, <2>2
<1>2. QED
  BY <1>1 DEF TunnelPhases

LEMMA ConnectAttaches ==
  ASSUME EdgeAssumption, TypeOK, TunnelsInv, NEW t \in Tunnels, ConnectTunnel(t)
  PROVE  Registry!Attach(t)
<1>1. /\ NodeOf \in [Tunnels -> Nodes] /\ NoTunnel \notin Tunnels
      /\ sessions \in [Nodes -> Tunnels \union {NoTunnel}]
      /\ tunnels \in [Tunnels -> Tunnel]
  BY DEF TypeOK, EdgeAssumption
<1>2. /\ \A s \in Tunnels \ {t} : tunnels'[s] = tunnels[s]
      /\ tunnels[t].at = "new" /\ tunnels'[t].at = "closingPrevious"
      /\ sessions' = [sessions EXCEPT ![NodeOf[t]] = t]
  BY <1>1 DEF ConnectTunnel, Tunnel
<1>3. Phase(t) = "new" /\ Phase(t)' = "current"
  <2>1. Serving(t)' /\ sessions'[NodeOf[t]] = t
    BY <1>1, <1>2 DEF Serving
  <2>2. QED
    BY <1>2, <2>1, PhaseIs, PhaseBecomes
<1>4. ASSUME NEW s \in Tunnels, s # t
      PROVE  Phase(s)' = IF s = sessions[NodeOf[t]] THEN "retired" ELSE Phase(s)
  <2>1. CASE s = sessions[NodeOf[t]]
    <3>1. NodeOf[s] = NodeOf[t] /\ Serving(s)
      BY <1>1, <1>4, <2>1 DEF TunnelsInv, SessionsServed
    <3>2. Serving(s)' /\ sessions'[NodeOf[s]] # s
      BY <1>1, <1>2, <1>4, <3>1 DEF Serving
    <3>3. QED
      BY <2>1, <3>2, PhaseBecomes
  <2>2. CASE s # sessions[NodeOf[t]]
    <3>1. tunnels'[s].at = tunnels[s].at
      BY <1>2, <1>4
    <3>2. sessions'[NodeOf[s]] = s <=> sessions[NodeOf[s]] = s
      BY <1>1, <1>2, <1>4, <2>2
    <3>3. QED
      BY <2>2, <3>1, <3>2, Unmoved
  <2>3. QED
    BY <2>1, <2>2
<1>5. TunnelPhases' = [s \in Tunnels |->
                         IF s = t THEN "current"
                         ELSE IF s = sessions[NodeOf[t]] THEN "retired"
                         ELSE TunnelPhases[s]]
  BY <1>3, <1>4 DEF TunnelPhases
<1>6. TunnelPhases[t] = "new"
  BY <1>3 DEF TunnelPhases
<1>7. QED
  BY <1>2, <1>5, <1>6 DEF Registry!Attach

LEMMA TunnelStepRefines ==
  ASSUME EdgeAssumption, TypeOK, TunnelsInv, NEW t \in Tunnels, TunnelStep(t)
  PROVE  Registry!Next \/ UNCHANGED <<sessions, TunnelPhases>>
<1>1. /\ tunnels \in [Tunnels -> Tunnel] /\ NodeOf \in [Tunnels -> Nodes]
      /\ sessions \in [Nodes -> Tunnels \union {NoTunnel}] /\ NoTunnel \notin Tunnels
  BY DEF TypeOK, EdgeAssumption
<1>2. TunnelPhases[t] = Phase(t)
  BY DEF TunnelPhases
<1>3. CASE RefuseTunnel(t)
  <2>1. /\ \A s \in Tunnels \ {t} : tunnels'[s] = tunnels[s]
        /\ tunnels[t].at = "new" /\ tunnels'[t].at = "gone" /\ sessions' = sessions
    BY <1>1, <1>3 DEF RefuseTunnel, Tunnel
  <2>2. Phase(t) = "new" /\ Phase(t)' = "gone"
    BY <2>1, PhaseIs, PhaseBecomes
  <2>3. Registry!Reject(t)
    BY <1>2, <2>1, <2>2, PhaseMoves DEF Registry!Reject
  <2>4. QED
    BY <2>3 DEF Registry!Next
<1>4. CASE ConnectTunnel(t)
  BY <1>4, ConnectAttaches DEF Registry!Next
<1>5. CASE ClosePrevious(t)
  <2>1. /\ tunnels[t].at = "closingPrevious" /\ tunnels'[t].at = "announcing"
        /\ \A s \in Tunnels \ {t} : tunnels'[s].at = tunnels[s].at
        /\ sessions' = sessions
    BY <1>1, <1>5 DEF ClosePrevious, Tunnel
  <2>2. Serving(t) /\ Serving(t)'
    BY <2>1 DEF Serving
  <2>3. QED
    BY <2>1, <2>2, PhasesStand
<1>6. CASE Announced(t)
  <2>1. /\ tunnels[t].at = "announcing" /\ tunnels'[t].at = "waiting"
        /\ \A s \in Tunnels \ {t} : tunnels'[s].at = tunnels[s].at
        /\ sessions' = sessions
    BY <1>1, <1>6 DEF Announced, Tunnel
  <2>2. Serving(t) /\ Serving(t)'
    BY <2>1 DEF Serving
  <2>3. QED
    BY <2>1, <2>2, PhasesStand
<1>7. CASE SessionDies(t)
  <2>1. (\A s \in Tunnels : tunnels'[s].at = tunnels[s].at) /\ sessions' = sessions
    BY <1>1, <1>7 DEF SessionDies, Tunnel
  <2>2. QED
    BY <2>1, PhasesStand
<1>8. CASE Unregister(t)
  <2>1. /\ \A s \in Tunnels \ {t} : tunnels'[s] = tunnels[s]
        /\ tunnels[t].at = "waiting" /\ Serving(t)
    BY <1>1, <1>8 DEF Unregister, Tunnel, Serving
  <2>2. CASE sessions[NodeOf[t]] = t
    <3>1. /\ tunnels'[t].at = "reporting"
          /\ sessions' = [sessions EXCEPT ![NodeOf[t]] = NoTunnel]
      BY <1>1, <1>8, <2>2 DEF Unregister, Tunnel
    <3>2. \A s \in Tunnels \ {t} : sessions'[NodeOf[s]] = s <=> sessions[NodeOf[s]] = s
      BY <1>1, <2>2, <3>1
    <3>3. Phase(t)' = "leaving"
      BY <3>1, PhaseBecomes
    <3>4. Registry!Detach(t)
      BY <2>1, <2>2, <3>1, <3>2, <3>3, PhaseMoves DEF Registry!Detach
    <3>5. QED
      BY <3>4 DEF Registry!Next
  <2>3. CASE sessions[NodeOf[t]] # t
    <3>1. tunnels'[t].at = "gone" /\ sessions' = sessions
      BY <1>1, <1>8, <2>3 DEF Unregister, Tunnel
    <3>2. Phase(t) = "retired" /\ Phase(t)' = "gone"
      BY <2>1, <2>3, <3>1, PhaseIs, PhaseBecomes
    <3>3. Registry!Retire(t)
      BY <1>2, <2>1, <3>1, <3>2, PhaseMoves DEF Registry!Retire
    <3>4. QED
      BY <3>3 DEF Registry!Next
  <2>4. QED
    BY <2>2, <2>3
<1>9. CASE Reported(t)
  <2>1. /\ \A s \in Tunnels \ {t} : tunnels'[s] = tunnels[s]
        /\ tunnels[t].at = "reporting" /\ tunnels'[t].at = "gone" /\ sessions' = sessions
    BY <1>1, <1>9 DEF Reported, Tunnel
  <2>2. Phase(t) = "leaving" /\ Phase(t)' = "gone"
    BY <2>1, PhaseIs, PhaseBecomes
  <2>3. Registry!Report(t)
    BY <1>2, <2>1, <2>2, PhaseMoves DEF Registry!Report
  <2>4. QED
    BY <2>3 DEF Registry!Next
<1>10. QED
  BY <1>3, <1>4, <1>5, <1>6, <1>7, <1>8, <1>9 DEF TunnelStep

LEMMA NextRefines ==
  ASSUME EdgeAssumption, TypeOK, TunnelsInv, [Next]_vars
  PROVE  [Registry!Next]_(Registry!vars)
<1>1. Registry!Next \/ UNCHANGED <<sessions, TunnelPhases>>
  <2>1. CASE UNCHANGED tunnelVars
    BY <2>1, PhasesStand DEF tunnelVars
  <2>2. CASE \E t \in Tunnels : TunnelStep(t)
    BY <2>2, TunnelStepRefines
  <2>3. CASE \E r \in Requests : RequestStep(r)
    BY <2>1, <2>3 DEF RequestStep, ResolveCached, Fetch, ApiAnswers, StoreRoute,
         FetchFails, FindTunnel, Forward, SetRequest
  <2>4. CASE Publish \/ Tick
    BY <2>1, <2>4 DEF Publish, Tick
  <2>5. CASE UNCHANGED vars
    BY <2>1, <2>5 DEF vars, tunnelVars
  <2>6. QED
    BY <2>2, <2>3, <2>4, <2>5 DEF Next
<1>2. QED
  BY <1>1 DEF Registry!vars

LEMMA InitRefines == Init => Registry!Init
<1> SUFFICES ASSUME Init PROVE Registry!Init
  OBVIOUS
<1>1. \A t \in Tunnels : Phase(t) = "new"
  BY PhaseIs DEF Init
<1>2. QED
  BY <1>1 DEF Init, Registry!Init, TunnelPhases

\* The edge implements SessionRegistry: whatever the sockets do, each step is a
\* step of the registry or none (connectTunnel, unregister).
THEOREM EdgeImplementsRegistry == Spec => TunnelsPromise
<1>1. TypeOK /\ EdgeInv /\ [Next]_vars => [Registry!Next]_(Registry!vars)
  BY EdgeAssumption, NextRefines DEF EdgeInv, TunnelsInv
<1>2. QED
  BY <1>1, InitRefines, TypeCorrect, InvHolds, PTL DEF Spec, TunnelsPromise, Registry!SafeSpec
=============================================================================
