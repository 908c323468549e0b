--------------------------- MODULE GatewayProofs ----------------------------
(***************************************************************************)
(* Proofs about Gateway, for every set of nodes, connections, statuses and *)
(* goroutines, and that it implements SessionRegistry.                     *)
(***************************************************************************)
EXTENDS Gateway, TLAPS

-----------------------------------------------------------------------------
(* Type correctness, by what each goroutine writes.                        *)

\* The fields of a client that are written keep it a client.
LEMMA ClientFields ==
  ASSUME NEW cl \in Client
  PROVE  /\ Close(cl) \in Client
         /\ \A to \in Wires : [cl EXCEPT !.wire = to] \in Client
         /\ \A s \in Statuses \union {NoStatus} : [cl EXCEPT !.pending = s] \in Client
         /\ \A b \in BOOLEAN : [cl EXCEPT !.syncing = b] \in Client
  BY DEF Client, Close

LEMMA ReaderFields ==
  ASSUME NEW r \in Reader
  PROVE  /\ \A at \in ReaderSteps : [r EXCEPT !.at = at] \in Reader
         /\ \A s \in Statuses \union {NoStatus} : [r EXCEPT !.received = s] \in Reader
         /\ \A p \in Conns \union {NoConn} : [r EXCEPT !.previous = p] \in Reader
         /\ \A b \in BOOLEAN : [r EXCEPT !.current = b] \in Reader
  BY DEF Reader

LEMMA InitType == Init => TypeOK
  BY GatewayAssumption
  DEF Init, TypeOK, Client, Wires, Reader, ReaderSteps, Worker, WorkerSteps, Idle

LEMMA SocketType ==
  ASSUME TypeOK, NEW c \in Conns,
         FinishClose(c) \/ GoSilent(c) \/ Return(c) \/ HangUp(c)
         \/ KernelGivesUp(c) \/ WriteStuck(c)
  PROVE  TypeOK'
<1>1. \E to \in Wires : clients' = [clients EXCEPT ![c].wire = to]
  BY DEF FinishClose, GoSilent, Return, HangUp, KernelGivesUp, WriteStuck, Wire, Wires
<1>2. clients' \in [Conns -> Client]
  BY <1>1, ClientFields DEF TypeOK
<1>3. UNCHANGED <<nodes, readers, connecting, transport, workers, revoked, cuts,
                  newest, accepted>>
  BY DEF FinishClose, GoSilent, Return, HangUp, KernelGivesUp, WriteStuck, Wire
<1>4. QED
  BY <1>2, <1>3 DEF TypeOK

LEMMA HandlerType ==
  ASSUME TypeOK, NEW c \in Conns,
         \/ Verify(c) \/ VerifyFails(c) \/ Register(c) \/ Supersede(c)
         \/ Superseded(c) \/ Greet(c) \/ Receive(c) \/ ReadFails(c)
         \/ Remove(c) \/ CloseRemoved(c) \/ LeaveClosed(c) \/ NotifyDisconnected(c)
         \/ QueueHeartbeat(c)
  PROVE  TypeOK'
<1> USE GatewayAssumption
<1>1. CASE Verify(c)
  BY <1>1, ReaderFields DEF TypeOK, Verify, GoTo, ReaderSteps
<1>2. CASE VerifyFails(c)
  BY <1>2, ReaderFields, ClientFields DEF TypeOK, VerifyFails, GoTo, ReaderSteps, Wires
<1>3. CASE Register(c)
  BY <1>3, ReaderFields DEF TypeOK, Register, ReaderSteps
<1>4. CASE Supersede(c)
  BY <1>4, ClientFields DEF TypeOK, Supersede
<1>5. CASE Superseded(c)
  BY <1>5, ReaderFields DEF TypeOK, Superseded, GoTo, ReaderSteps
<1>6. CASE Greet(c)
  BY <1>6, ReaderFields DEF TypeOK, Greet, GoTo, ReaderSteps
<1>7. CASE Receive(c)
  <2>1. PICK s \in Statuses :
           readers' = [readers EXCEPT ![c].at = "acking", ![c].received = s]
    BY <1>7 DEF Receive
  <2>2. [readers[c] EXCEPT !.at = "acking"] \in Reader
    BY ReaderFields DEF TypeOK, ReaderSteps
  <2>3. [[readers[c] EXCEPT !.at = "acking"] EXCEPT !.received = s] \in Reader
    BY <2>2, ReaderFields
  <2>4. readers' \in [Conns -> Reader]
    BY <2>1, <2>3 DEF TypeOK
  <2>5. QED
    BY <1>7, <2>4 DEF TypeOK, Receive
<1>8. CASE ReadFails(c)
  BY <1>8, ReaderFields DEF TypeOK, ReadFails, GoTo, ReaderSteps
<1>9. CASE Remove(c)
  BY <1>9, ReaderFields DEF TypeOK, Remove, ReaderSteps
<1>10. CASE CloseRemoved(c)
  BY <1>10, ReaderFields, ClientFields DEF TypeOK, CloseRemoved, GoTo, ReaderSteps
<1>11. CASE LeaveClosed(c)
  BY <1>11, ReaderFields DEF TypeOK, LeaveClosed, GoTo, ReaderSteps
<1>12. CASE NotifyDisconnected(c)
  BY <1>12, ReaderFields DEF TypeOK, NotifyDisconnected, GoTo, ReaderSteps
<1>13. CASE QueueHeartbeat(c)
  <2>1. readers[c].received \in Statuses \union {NoStatus}
    BY DEF TypeOK, Reader
  <2>2. clients' \in [Conns -> Client]
    BY <1>13, <2>1, ClientFields DEF TypeOK, QueueHeartbeat
  <2>3. readers' \in [Conns -> Reader]
    BY <1>13, ReaderFields DEF TypeOK, QueueHeartbeat, ReaderSteps
  <2>4. workers' \in [Conns -> [Workers -> Worker]]
    <3>1. CASE UNCHANGED workers
      BY <3>1 DEF TypeOK
    <3>2. ASSUME NEW w \in Workers,
                 workers' = [workers EXCEPT ![c][w].at = "taking"]
          PROVE  workers' \in [Conns -> [Workers -> Worker]]
      <4> workers[c][w] \in Worker
        BY DEF TypeOK
      <4>1. [workers[c][w] EXCEPT !.at = "taking"] \in Worker
        BY DEF Worker, WorkerSteps
      <4>2. QED
        BY <3>2, <4>1 DEF TypeOK
    <3>3. QED
      BY <1>13, <3>1, <3>2 DEF QueueHeartbeat
  <2>5. QED
    BY <1>13, <2>1, <2>2, <2>3, <2>4 DEF TypeOK, QueueHeartbeat
<1>14. QED
  BY <1>1, <1>2, <1>3, <1>4, <1>5, <1>6, <1>7, <1>8, <1>9, <1>10, <1>11, <1>12,
     <1>13

LEMMA SideType ==
  ASSUME TypeOK, NEW c \in Conns,
         \/ SyncAnswered(c) \/ SyncFails(c) \/ SyncEnds(c)
         \/ TransportStops(c) \/ PongTimeout(c) \/ Ping(c) \/ PingReturns(c)
  PROVE  TypeOK'
<1>1. clients' = clients \/ clients' = [clients EXCEPT ![c] = Close(@)]
  BY DEF SyncAnswered, SyncFails, SyncEnds, TransportStops, PongTimeout, Ping,
         PingReturns
<1>2. clients' \in [Conns -> Client]
  BY <1>1, ClientFields DEF TypeOK
<1>3. QED
  BY <1>2 DEF TypeOK, SyncAnswered, SyncFails, SyncEnds, TransportStops,
              PongTimeout, Ping, PingReturns

LEMMA WorkerType ==
  ASSUME TypeOK, NEW c \in Conns, NEW w \in Workers, WorkerStep(c, w)
  PROVE  TypeOK'
<1>1. /\ clients[c] \in Client
      /\ clients[c].pending \in Statuses \union {NoStatus}
      /\ workers[c][w].status \in Statuses \union {NoStatus}
  BY DEF TypeOK, Worker, Client
<1>2. \E at \in WorkerSteps, s \in Statuses \union {NoStatus} : SetWorker(c, w, at, s)
  BY <1>1 DEF WorkerStep, TakePending, HeartbeatAnswered, HeartbeatFails, Reported,
              Requeue, RetryOrStop, Refuse, WorkerSteps
<1>3. workers' \in [Conns -> [Workers -> Worker]]
  BY <1>2 DEF TypeOK, SetWorker, Worker
<1>4. \/ clients' = clients
      \/ clients' = [clients EXCEPT ![c] = Close(@)]
      \/ \E b \in BOOLEAN : clients' = [clients EXCEPT ![c].syncing = b]
      \/ \E s \in Statuses \union {NoStatus} :
            clients' = [clients EXCEPT ![c].pending = s]
  BY <1>1 DEF WorkerStep, TakePending, HeartbeatAnswered, HeartbeatFails, Reported,
              Requeue, RetryOrStop, Refuse, KeepForRetry, TypeOK
<1>5. clients' \in [Conns -> Client]
  <2>1. /\ Close(clients[c]) \in Client
        /\ \A b \in BOOLEAN : [clients[c] EXCEPT !.syncing = b] \in Client
        /\ \A s \in Statuses \union {NoStatus} :
              [clients[c] EXCEPT !.pending = s] \in Client
    BY <1>1, ClientFields
  <2>2. ASSUME NEW cl \in Client, clients' = [clients EXCEPT ![c] = cl]
        PROVE  clients' \in [Conns -> Client]
    BY <2>2 DEF TypeOK
  <2>3. \/ clients' = clients
        \/ \E cl \in Client : clients' = [clients EXCEPT ![c] = cl]
    BY <1>4, <2>1
  <2>4. QED
    BY <2>2, <2>3 DEF TypeOK
<1>6. accepted' \in [Conns -> Statuses \union {NoStatus}]
  BY <1>1 DEF TypeOK, WorkerStep, TakePending, HeartbeatAnswered, HeartbeatFails,
              Reported, Requeue, RetryOrStop, Refuse
<1>7. UNCHANGED <<nodes, readers, connecting, transport, revoked, cuts, newest>>
  BY DEF WorkerStep, TakePending, HeartbeatAnswered, HeartbeatFails, Reported,
         Requeue, RetryOrStop, Refuse
<1>8. QED
  BY <1>3, <1>5, <1>6, <1>7 DEF TypeOK

LEMMA RevocationType ==
  ASSUME TypeOK, NEW n \in Nodes, Revoke(n) \/ DisconnectNode(n)
  PROVE  TypeOK'
<1>1. nodes[n] # NoConn => nodes[n] \in Conns /\ Close(clients[nodes[n]]) \in Client
  BY ClientFields DEF TypeOK
<1>2. CASE Revoke(n)
  BY <1>2 DEF TypeOK, Revoke
<1>3. CASE DisconnectNode(n)
  <2>1. clients' \in [Conns -> Client]
    BY <1>1, <1>3 DEF TypeOK, DisconnectNode
  <2>2. QED
    BY <1>3, <2>1 DEF TypeOK, DisconnectNode
<1>4. QED
  BY <1>2, <1>3

LEMMA NextType == TypeOK /\ [Next]_vars => TypeOK'
<1>1. TypeOK /\ UNCHANGED vars => TypeOK'
  BY DEF TypeOK, vars
<1>2. QED
  BY <1>1, SocketType, HandlerType, SideType, WorkerType, RevocationType DEF Next

\* Every variable keeps its type: the goroutines of a connection leave each
\* other's state well formed.
THEOREM TypeCorrect == Spec => []TypeOK
  BY InitType, NextType, PTL DEF Spec

-----------------------------------------------------------------------------
(* The registry.                                                           *)

LEMMA InitRegistry == Init => RegistryInv
  BY GatewayAssumption
  DEF Init, RegistryInv, RegistryNamesHandlers, HandlerLocals, PreviousIsPast,
      ClosedIsDone, Closed, UnregisteredIsEnding, Serving, Authenticating, Past

\* The registry and the handlers stand still, and connections at most end or
\* have their sockets closed by FinishClose.
OnlyEnding ==
    /\ UNCHANGED <<nodes, readers>>
    /\ \A c \in Conns :
          /\ clients[c].done => clients'[c].done
          /\ clients'[c].wire = "closed" =>
                clients[c].wire = "closed" \/ clients'[c].done

LEMMA EndingKeepsRegistry == RegistryInv /\ OnlyEnding => RegistryInv'
  BY DEF RegistryInv, OnlyEnding, RegistryNamesHandlers, HandlerLocals,
         PreviousIsPast, ClosedIsDone, Closed, UnregisteredIsEnding

LEMMA SocketOnlyEnding ==
  ASSUME TypeOK, NEW c \in Conns,
         FinishClose(c) \/ GoSilent(c) \/ Return(c) \/ HangUp(c)
         \/ KernelGivesUp(c) \/ WriteStuck(c)
  PROVE  OnlyEnding
<1>1. CASE FinishClose(c)
  BY <1>1 DEF TypeOK, Client, FinishClose, OnlyEnding
<1>2. ASSUME NEW from, NEW to, to # "closed", Wire(c, from, to)
      PROVE  OnlyEnding
  BY <1>2 DEF TypeOK, Client, Wire, OnlyEnding
<1>3. QED
  BY <1>1, <1>2 DEF GoSilent, Return, HangUp, KernelGivesUp, WriteStuck

LEMMA CloseOnlyEnding ==
  ASSUME TypeOK, NEW c \in Conns, UNCHANGED <<nodes, readers>>,
         clients' = clients \/ clients' = [clients EXCEPT ![c] = Close(@)]
  PROVE  OnlyEnding
  BY DEF TypeOK, Client, Close, OnlyEnding

LEMMA SideOnlyEnding ==
  ASSUME TypeOK, NEW c \in Conns,
         \/ SyncAnswered(c) \/ SyncFails(c) \/ SyncEnds(c)
         \/ TransportStops(c) \/ PongTimeout(c) \/ Ping(c) \/ PingReturns(c)
  PROVE  OnlyEnding
<1>1. clients' = clients \/ clients' = [clients EXCEPT ![c] = Close(@)]
  BY DEF SyncAnswered, SyncFails, SyncEnds, TransportStops, PongTimeout, Ping,
         PingReturns
<1>2. UNCHANGED <<nodes, readers>>
  BY DEF SyncAnswered, SyncFails, SyncEnds, TransportStops, PongTimeout, Ping,
         PingReturns
<1>3. QED
  BY <1>1, <1>2, CloseOnlyEnding

LEMMA WorkerOnlyEnding ==
  ASSUME TypeOK, NEW c \in Conns, NEW w \in Workers, WorkerStep(c, w)
  PROVE  OnlyEnding
<1>1. UNCHANGED <<nodes, readers>>
  BY DEF WorkerStep, TakePending, HeartbeatAnswered, HeartbeatFails, Reported,
         Requeue, RetryOrStop, Refuse
<1>2. \/ clients' = clients
      \/ clients' = [clients EXCEPT ![c] = Close(@)]
      \/ \E b \in BOOLEAN : clients' = [clients EXCEPT ![c].syncing = b]
      \/ \E s : clients' = [clients EXCEPT ![c].pending = s]
  BY DEF WorkerStep, TakePending, HeartbeatAnswered, HeartbeatFails, Reported,
         Requeue, RetryOrStop, Refuse
<1>3. ASSUME NEW cl, cl.done = clients[c].done, cl.wire = clients[c].wire,
             clients' = [clients EXCEPT ![c] = cl]
      PROVE  OnlyEnding
  BY <1>1, <1>3 DEF TypeOK, OnlyEnding
<1>4. /\ \A b \in BOOLEAN : /\ [clients[c] EXCEPT !.syncing = b].done = clients[c].done
                           /\ [clients[c] EXCEPT !.syncing = b].wire = clients[c].wire
      /\ \A s : /\ [clients[c] EXCEPT !.pending = s].done = clients[c].done
                /\ [clients[c] EXCEPT !.pending = s].wire = clients[c].wire
  BY DEF TypeOK, Client
<1>5. QED
  BY <1>1, <1>2, <1>3, <1>4, CloseOnlyEnding

LEMMA RevocationOnlyEnding ==
  ASSUME TypeOK, NEW n \in Nodes, Revoke(n) \/ DisconnectNode(n)
  PROVE  OnlyEnding
<1>1. UNCHANGED <<nodes, readers>>
  BY DEF Revoke, DisconnectNode
<1>2. clients' = clients \/ \E c \in Conns : clients' = [clients EXCEPT ![c] = Close(@)]
  BY DEF Revoke, DisconnectNode, TypeOK
<1>3. QED
  BY <1>1, <1>2, CloseOnlyEnding DEF OnlyEnding

LEMMA AdvanceKeepsRegistry ==
  ASSUME TypeOK, RegistryInv, NEW c \in Conns, NEW to \in ReaderSteps,
         NEW s \in Statuses \union {NoStatus},
         readers' = [readers EXCEPT ![c].at = to, ![c].received = s],
         nodes' = nodes,
         \A d \in Conns : /\ clients'[d].done = clients[d].done
                          /\ clients'[d].wire = clients[d].wire,
         \/ readers[c].at = "verifying" /\ to = "registering"
         \/ readers[c].at = "superseding" /\ to = "greeting" /\ Closed(readers[c].previous)
         \/ readers[c].at = "greeting" /\ to = "reading"
         \/ readers[c].at = "reading" /\ to = "acking" /\ s # NoStatus
         \/ readers[c].at = "acking" /\ to = "reading"
  PROVE  RegistryInv'
<1>1. \A d \in Conns :
         /\ readers'[d].previous = readers[d].previous
         /\ readers'[d].current = readers[d].current
         /\ readers'[d].at = IF d = c THEN to ELSE readers[d].at
         /\ readers'[d].received = IF d = c THEN s ELSE readers[d].received
  BY DEF TypeOK, Reader
<1>2. RegistryNamesHandlers'
  BY <1>1 DEF TypeOK, RegistryInv, RegistryNamesHandlers, Serving
<1>3. HandlerLocals'
  <2>1. ASSUME NEW d \in Conns, d # c
        PROVE  /\ readers'[d].at = "superseding" => readers'[d].previous \in Conns
               /\ readers'[d].at = "acking" => readers'[d].received # NoStatus
               /\ readers'[d].at = "notifying" => readers'[d].current
               /\ readers'[d].current => readers'[d].at \in Past
    <3>1. readers'[d] = readers[d]
      BY <2>1 DEF TypeOK
    <3>2. QED
      BY <3>1 DEF RegistryInv, HandlerLocals
  <2>2. ~readers[c].current
    BY DEF RegistryInv, HandlerLocals, Past
  <2>3. readers'[c].at = to /\ readers'[c].received = s /\ ~readers'[c].current
    BY <1>1, <2>2
  <2>4. to # "superseding" /\ to # "notifying" /\ (to = "acking" => s # NoStatus)
    OBVIOUS
  <2>5. QED
    BY <2>1, <2>3, <2>4 DEF HandlerLocals
<1>4. PreviousIsPast'
  BY <1>1 DEF TypeOK, Reader, RegistryInv, PreviousIsPast, Authenticating
<1>5. ClosedIsDone'
  <2>1. ASSUME NEW d \in Conns, clients[d].wire = "closed"
        PROVE  clients[d].done \/ readers[d].at = "ended"
    BY <2>1 DEF RegistryInv, ClosedIsDone, Closed
  <2>2. readers[c].at # "ended"
    OBVIOUS
  <2>3. ASSUME NEW d \in Conns, clients'[d].wire = "closed"
        PROVE  clients'[d].done \/ readers'[d].at = "ended"
    <3>1. clients[d].done \/ readers[d].at = "ended"
      BY <2>1, <2>3
    <3>2. QED
      BY <1>1, <2>2, <3>1
  <2>4. QED
    BY <2>3 DEF ClosedIsDone, Closed
<1>6. UnregisteredIsEnding'
  <2> SUFFICES ASSUME NEW e \in Conns, readers'[e].at \in Serving,
                      nodes[NodeOf[e]] # e, ~clients[e].done
               PROVE  \E d \in Conns :
                        readers'[d].at = "superseding" /\ readers'[d].previous = e
    BY DEF UnregisteredIsEnding
  <2>1. readers[e].at \in Serving
    BY <1>1 DEF Serving
  <2>2. PICK d \in Conns :
           readers[d].at = "superseding" /\ readers[d].previous = e
    BY <2>1 DEF RegistryInv, UnregisteredIsEnding
  <2>3. CASE d # c
    BY <1>1, <2>2, <2>3
  <2>4. CASE d = c
    BY <2>1, <2>2, <2>4 DEF RegistryInv, ClosedIsDone, Closed, Serving
  <2>5. QED
    BY <2>3, <2>4
<1>7. QED
  BY <1>2, <1>3, <1>4, <1>5, <1>6 DEF RegistryInv

LEMMA HandlerRegistry ==
  ASSUME TypeOK, RegistryInv, NEW c \in Conns,
         \/ Verify(c) \/ VerifyFails(c) \/ Register(c) \/ Supersede(c)
         \/ Superseded(c) \/ Greet(c) \/ Receive(c) \/ ReadFails(c)
         \/ Remove(c) \/ CloseRemoved(c) \/ LeaveClosed(c) \/ NotifyDisconnected(c)
         \/ QueueHeartbeat(c)
  PROVE  RegistryInv'
<1>1. CASE Verify(c)
  <2>1. readers' = [readers EXCEPT ![c].at = "registering",
                                ![c].received = readers[c].received]
    BY <1>1 DEF Verify, GoTo, TypeOK, Reader
  <2>2. readers[c].received \in Statuses \union {NoStatus}
    BY DEF TypeOK, Reader
  <2>3. QED
    BY <1>1, <2>1, <2>2, AdvanceKeepsRegistry DEF Verify, ReaderSteps
<1>2. CASE VerifyFails(c)
  BY <1>2, GatewayAssumption
  DEF TypeOK, Reader, Client, RegistryInv, RegistryNamesHandlers, HandlerLocals,
      PreviousIsPast, ClosedIsDone, Closed, UnregisteredIsEnding, Serving,
      Authenticating, Past, GoTo, Close, VerifyFails
<1>3. CASE Register(c)
  <2> DEFINE n == NodeOf[c]
  <2>1. /\ readers[c].at = "registering"
        /\ nodes' = [nodes EXCEPT ![n] = c]
        /\ UNCHANGED clients
    BY <1>3 DEF Register
  <2>2. n \in Nodes /\ c # NoConn
    BY GatewayAssumption
  <2>3. \A d \in Conns :
           /\ readers'[d].previous = IF d = c THEN nodes[n] ELSE readers[d].previous
           /\ readers'[d].current = readers[d].current
           /\ readers'[d].received = readers[d].received
           /\ d # c => readers'[d].at = readers[d].at
           /\ readers'[c].at = IF nodes[n] = NoConn THEN "greeting" ELSE "superseding"
    BY <1>3 DEF Register, TypeOK, Reader
  <2>4. \A d \in Conns : nodes[NodeOf[d]] # c
    BY <2>1, GatewayAssumption DEF RegistryInv, RegistryNamesHandlers, Serving, TypeOK
  <2>5. \A d \in Conns : readers[d].previous # c
    BY <2>1 DEF RegistryInv, PreviousIsPast, Authenticating
  <2>6. RegistryNamesHandlers'
    BY <2>1, <2>2, <2>3 DEF RegistryInv, RegistryNamesHandlers, Serving, TypeOK
  <2>7. HandlerLocals'
    BY <2>1, <2>2, <2>3 DEF RegistryInv, HandlerLocals, Past, TypeOK
  <2>8. PreviousIsPast'
    <3> SUFFICES ASSUME NEW e \in Conns, NEW d \in Conns, readers'[d].previous = e
                 PROVE  /\ NodeOf[e] = NodeOf[d]
                        /\ nodes'[NodeOf[e]] # e
                        /\ ~readers'[e].current
                        /\ readers'[e].at \notin Authenticating
      BY DEF PreviousIsPast
    <3>1. CASE d = c
      <4>1. e = nodes[n] /\ e # NoConn /\ e # c
        BY <2>3, <2>4, <3>1, GatewayAssumption
      <4>2. NodeOf[e] = n /\ readers[e].at \in Serving \union {"leaving"}
        BY <2>2, <4>1 DEF RegistryInv, RegistryNamesHandlers
      <4>3. ~readers[e].current
        BY <4>2 DEF RegistryInv, HandlerLocals, Past, Serving
      <4>4. QED
        BY <2>1, <2>2, <2>3, <3>1, <4>1, <4>2, <4>3 DEF TypeOK, Authenticating, Serving
    <3>2. CASE d # c
      <4>1. /\ readers[d].previous = e /\ e # c
            /\ NodeOf[e] = NodeOf[d] /\ nodes[NodeOf[e]] # e
            /\ ~readers[e].current /\ readers[e].at \notin Authenticating
        BY <2>3, <2>5, <3>2 DEF RegistryInv, PreviousIsPast
      <4>2. QED
        BY <2>1, <2>2, <2>3, <4>1, GatewayAssumption DEF TypeOK
    <3>3. QED
      BY <3>1, <3>2
  <2>9. ClosedIsDone'
    BY <2>1, <2>3 DEF RegistryInv, ClosedIsDone, Closed
  <2>10. UnregisteredIsEnding'
    <3> SUFFICES ASSUME NEW e \in Conns, readers'[e].at \in Serving,
                        nodes'[NodeOf[e]] # e, ~clients[e].done
                 PROVE  \E d \in Conns :
                          readers'[d].at = "superseding" /\ readers'[d].previous = e
      BY <2>1 DEF UnregisteredIsEnding
    <3>1. e # c /\ readers[e].at \in Serving
      BY <2>1, <2>2, <2>3 DEF TypeOK
    <3>2. CASE nodes[NodeOf[e]] = e
      <4>1. NodeOf[e] = n
        BY <2>1, <2>2, <3>2, GatewayAssumption DEF TypeOK
      <4>2. QED
        BY <2>3, <3>2, <4>1, GatewayAssumption
    <3>3. CASE nodes[NodeOf[e]] # e
      <4>1. PICK d \in Conns :
               readers[d].at = "superseding" /\ readers[d].previous = e
        BY <3>1, <3>3 DEF RegistryInv, UnregisteredIsEnding
      <4>2. QED
        BY <2>1, <2>3, <4>1
    <3>4. QED
      BY <3>2, <3>3
  <2>11. QED
    BY <2>6, <2>7, <2>8, <2>9, <2>10 DEF RegistryInv
<1>4. CASE Supersede(c)
  BY <1>4, GatewayAssumption
  DEF TypeOK, Reader, Client, RegistryInv, RegistryNamesHandlers, HandlerLocals,
      PreviousIsPast, ClosedIsDone, Closed, UnregisteredIsEnding, Serving,
      Authenticating, Past, GoTo, Close, Supersede
<1>5. CASE Superseded(c)
  <2>1. readers' = [readers EXCEPT ![c].at = "greeting",
                                ![c].received = readers[c].received]
    BY <1>5 DEF Superseded, GoTo, TypeOK, Reader
  <2>2. readers[c].received \in Statuses \union {NoStatus}
    BY DEF TypeOK, Reader
  <2>3. QED
    BY <1>5, <2>1, <2>2, AdvanceKeepsRegistry DEF Superseded, ReaderSteps
<1>6. CASE Greet(c)
  <2>1. readers' = [readers EXCEPT ![c].at = "reading",
                                ![c].received = readers[c].received]
    BY <1>6 DEF Greet, GoTo, TypeOK, Reader
  <2>2. readers[c].received \in Statuses \union {NoStatus}
    BY DEF TypeOK, Reader
  <2>3. QED
    BY <1>6, <2>1, <2>2, AdvanceKeepsRegistry DEF Greet, ReaderSteps
<1>7. CASE Receive(c)
  <2>1. PICK s \in Statuses :
           readers' = [readers EXCEPT ![c].at = "acking", ![c].received = s]
    BY <1>7 DEF Receive
  <2>2. QED
    BY <1>7, <2>1, AdvanceKeepsRegistry, GatewayAssumption DEF Receive, ReaderSteps
<1>8. CASE ReadFails(c)
  <2>1. /\ readers[c].at = "reading"
        /\ UNCHANGED <<nodes, clients>>
        /\ \A d \in Conns :
              /\ readers'[d].previous = readers[d].previous
              /\ readers'[d].current = readers[d].current
              /\ readers'[d].received = readers[d].received
              /\ readers'[d].at = IF d = c THEN "leaving" ELSE readers[d].at
    BY <1>8 DEF ReadFails, GoTo, TypeOK, Reader
  <2>2. RegistryNamesHandlers'
    BY <2>1 DEF TypeOK, RegistryInv, RegistryNamesHandlers, Serving
  <2>3. HandlerLocals'
    BY <2>1 DEF RegistryInv, HandlerLocals, Past
  <2>4. PreviousIsPast' /\ ClosedIsDone'
    BY <2>1 DEF RegistryInv, PreviousIsPast, Authenticating, ClosedIsDone, Closed
  <2>5. UnregisteredIsEnding'
    BY <2>1 DEF RegistryInv, UnregisteredIsEnding, Serving
  <2>6. QED
    BY <2>2, <2>3, <2>4, <2>5 DEF RegistryInv
<1>9. CASE Remove(c)
  <2> DEFINE n == NodeOf[c]
  <2>1. /\ readers[c].at = "leaving"
        /\ nodes' = [nodes EXCEPT ![n] = IF nodes[n] = c THEN NoConn ELSE nodes[n]]
        /\ UNCHANGED clients
    BY <1>9 DEF Remove
  <2>2. n \in Nodes /\ c # NoConn
    BY GatewayAssumption
  <2>3. \A d \in Conns :
           /\ readers'[d].previous = readers[d].previous
           /\ readers'[d].received = readers[d].received
           /\ d # c => /\ readers'[d].at = readers[d].at
                       /\ readers'[d].current = readers[d].current
           /\ readers'[c].at = "unregistered"
           /\ readers'[c].current = (nodes[n] = c)
    BY <1>9 DEF Remove, TypeOK, Reader
  <2>4. \A m \in Nodes : nodes'[m] = nodes[m] \/ (nodes[m] = c /\ nodes'[m] = NoConn)
    BY <2>1, <2>2 DEF TypeOK
  <2>5. \A m \in Nodes : nodes'[m] # c
    BY <2>1, <2>2 DEF TypeOK, RegistryInv, RegistryNamesHandlers
  <2>6. RegistryNamesHandlers'
    BY <2>3, <2>4, <2>5 DEF RegistryInv, RegistryNamesHandlers, TypeOK
  <2>7. HandlerLocals'
    BY <2>1, <2>3 DEF RegistryInv, HandlerLocals, Past
  <2>8. PreviousIsPast'
    <3> SUFFICES ASSUME NEW e \in Conns, NEW d \in Conns, readers'[d].previous = e
                 PROVE  /\ NodeOf[e] = NodeOf[d]
                        /\ nodes'[NodeOf[e]] # e
                        /\ ~readers'[e].current
                        /\ readers'[e].at \notin Authenticating
      BY DEF PreviousIsPast
    <3>1. /\ NodeOf[e] = NodeOf[d] /\ nodes[NodeOf[e]] # e
          /\ ~readers[e].current /\ readers[e].at \notin Authenticating
      BY <2>3 DEF RegistryInv, PreviousIsPast
    <3>2. nodes'[NodeOf[e]] # e
      BY <2>4, <3>1, GatewayAssumption
    <3>3. ~readers'[e].current /\ readers'[e].at \notin Authenticating
      BY <2>3, <3>1 DEF Authenticating
    <3>4. QED
      BY <3>1, <3>2, <3>3
  <2>9. ClosedIsDone'
    BY <2>1, <2>3 DEF RegistryInv, ClosedIsDone, Closed
  <2>10. UnregisteredIsEnding'
    BY <2>1, <2>2, <2>3, <2>4, GatewayAssumption
    DEF RegistryInv, UnregisteredIsEnding, Serving
  <2>11. QED
    BY <2>6, <2>7, <2>8, <2>9, <2>10 DEF RegistryInv
<1>10. CASE CloseRemoved(c)
  BY <1>10, GatewayAssumption
  DEF TypeOK, Reader, Client, RegistryInv, RegistryNamesHandlers, HandlerLocals,
      PreviousIsPast, ClosedIsDone, Closed, UnregisteredIsEnding, Serving,
      Authenticating, Past, GoTo, Close, CloseRemoved
<1>11. CASE LeaveClosed(c)
  BY <1>11, GatewayAssumption
  DEF TypeOK, Reader, Client, RegistryInv, RegistryNamesHandlers, HandlerLocals,
      PreviousIsPast, ClosedIsDone, Closed, UnregisteredIsEnding, Serving,
      Authenticating, Past, GoTo, Close, LeaveClosed
<1>12. CASE NotifyDisconnected(c)
  BY <1>12, GatewayAssumption
  DEF TypeOK, Reader, Client, RegistryInv, RegistryNamesHandlers, HandlerLocals,
      PreviousIsPast, ClosedIsDone, Closed, UnregisteredIsEnding, Serving,
      Authenticating, Past, GoTo, Close, NotifyDisconnected
<1>13. CASE QueueHeartbeat(c)
  <2>1. \A d \in Conns : /\ clients'[d].done = clients[d].done
                         /\ clients'[d].wire = clients[d].wire
    BY <1>13 DEF QueueHeartbeat, TypeOK, Client
  <2>2. QED
    BY <1>13, <2>1, AdvanceKeepsRegistry DEF QueueHeartbeat, ReaderSteps
<1>14. QED
  BY <1>1, <1>2, <1>3, <1>4, <1>5, <1>6, <1>7, <1>8, <1>9, <1>10, <1>11, <1>12,
     <1>13

LEMMA NextRegistry == TypeOK /\ RegistryInv /\ [Next]_vars => RegistryInv'
<1>1. RegistryInv /\ UNCHANGED vars => RegistryInv'
  BY EndingKeepsRegistry DEF vars, OnlyEnding
<1>2. QED
  BY <1>1, EndingKeepsRegistry, SocketOnlyEnding, SideOnlyEnding,
     WorkerOnlyEnding, RevocationOnlyEnding, HandlerRegistry DEF Next

-----------------------------------------------------------------------------
(* The heartbeats.                                                         *)

LEMMA InitQueue == Init => QueueInv
  BY DEF Init, Idle, QueueInv, SingleFlight, WorkerLocals, NewestKept, Carries

\* Nothing happens to the heartbeats of a connection, except that it ends.
QueueStands(c) ==
    /\ clients'[c].pending = clients[c].pending
    /\ clients'[c].syncing = clients[c].syncing
    /\ clients[c].done => clients'[c].done
    /\ workers'[c] = workers[c]
    /\ newest'[c] = newest[c]
    /\ accepted'[c] = accepted[c]

\* QueueInv, one connection at a time.
SingleFlightOf(c) ==
    \A v, w \in Workers :
       workers[c][v].at # "idle" /\ workers[c][w].at # "idle" => v = w

WorkerLocalsOf(c) ==
    /\ ~clients[c].syncing => clients[c].pending = NoStatus
    /\ clients[c].syncing /\ ~clients[c].done =>
          \E w \in Workers : workers[c][w].at # "idle"
    /\ \A w \in Workers :
          /\ workers[c][w].at # "idle" => clients[c].syncing
          /\ Carries(c, w) <=> workers[c][w].status # NoStatus

NewestKeptOf(c) ==
    \/ clients[c].done
    \/ \E w \in Workers : workers[c][w].at = "refusing"
    \/ clients[c].pending # NoStatus /\ clients[c].pending = newest[c]
    \/ /\ clients[c].pending = NoStatus
       /\ \A w \in Workers : Carries(c, w) => workers[c][w].status = newest[c]
       /\ (\E w \in Workers : Carries(c, w)) \/ accepted[c] = newest[c]

QueueInvOf(c) == SingleFlightOf(c) /\ WorkerLocalsOf(c) /\ NewestKeptOf(c)

LEMMA QueuePointwise == QueueInv <=> \A c \in Conns : QueueInvOf(c)
  BY DEF QueueInv, SingleFlight, WorkerLocals, NewestKept, QueueInvOf,
         SingleFlightOf, WorkerLocalsOf, NewestKeptOf

LEMMA StandingKeepsQueue ==
  ASSUME NEW c \in Conns, QueueInvOf(c), QueueStands(c)
  PROVE  QueueInvOf(c)'
  BY DEF QueueInvOf, SingleFlightOf, WorkerLocalsOf, NewestKeptOf, QueueStands,
         Carries

\* The only step of the handler that touches the heartbeats.
LEMMA QueueHeartbeatKeeps ==
  ASSUME TypeOK, RegistryInv, NEW c \in Conns, QueueInvOf(c), QueueHeartbeat(c)
  PROVE  QueueInvOf(c)'
<1> DEFINE s == readers[c].received
<1>1. /\ s # NoStatus
      /\ clients'[c].pending = s /\ clients'[c].syncing
      /\ clients'[c].done = clients[c].done
      /\ newest'[c] = s
      /\ accepted' = accepted
  BY DEF QueueHeartbeat, TypeOK, Client, RegistryInv, HandlerLocals
<1>2. NewestKeptOf(c)'
  BY <1>1 DEF NewestKeptOf
<1>3. CASE clients[c].syncing /\ UNCHANGED workers
  BY <1>1, <1>2, <1>3 DEF QueueInvOf, SingleFlightOf, WorkerLocalsOf, Carries
<1>4. ASSUME NEW k \in Workers, ~clients[c].syncing, workers[c][k].at = "idle",
             workers' = [workers EXCEPT ![c][k].at = "taking"]
      PROVE  QueueInvOf(c)'
  <2>1. \A w \in Workers : workers[c][w].at = "idle" /\ workers[c][w].status = NoStatus
    BY <1>4 DEF QueueInvOf, WorkerLocalsOf, Carries
  <2>2. \A w \in Workers : /\ workers'[c][w].at = IF w = k THEN "taking" ELSE "idle"
                           /\ workers'[c][w].status = NoStatus
    BY <1>4, <2>1 DEF TypeOK, Worker
  <2>3. QED
    BY <1>1, <1>2, <2>2 DEF QueueInvOf, SingleFlightOf, WorkerLocalsOf, Carries
<1>5. QED
  BY <1>3, <1>4 DEF QueueHeartbeat

\* Every step of a worker, case by case.
LEMMA WorkerKeeps ==
  ASSUME TypeOK, NEW c \in Conns, NEW k \in Workers, QueueInvOf(c), WorkerStep(c, k)
  PROVE  QueueInvOf(c)'
<1> DEFINE at(w) == workers[c][w].at
           status(w) == workers[c][w].status
<1>1. \A a, s : SetWorker(c, k, a, s) =>
         \A w \in Workers :
            /\ workers'[c][w].at = IF w = k THEN a ELSE at(w)
            /\ workers'[c][w].status = IF w = k THEN s ELSE status(w)
  BY DEF SetWorker, TypeOK
<1>2. at(k) # "idle"
  BY DEF WorkerStep, TakePending, HeartbeatAnswered, HeartbeatFails, Reported,
         Requeue, RetryOrStop, Refuse
<1>3. \A w \in Workers : w # k => at(w) = "idle" /\ status(w) = NoStatus /\ ~Carries(c, w)
  BY <1>2 DEF QueueInvOf, SingleFlightOf, WorkerLocalsOf, Carries
<1>4. clients[c].syncing
  BY <1>2 DEF QueueInvOf, WorkerLocalsOf
<1>5. UNCHANGED newest
  BY DEF WorkerStep, TakePending, HeartbeatAnswered, HeartbeatFails, Reported,
         Requeue, RetryOrStop, Refuse
<1>6. \A a, s : SetWorker(c, k, a, s) => SingleFlightOf(c)'
  BY <1>1, <1>3 DEF SingleFlightOf
<1>7. clients[c] \in Client /\ status(k) \in Statuses \union {NoStatus}
  BY DEF TypeOK, Worker
<1>8. CASE TakePending(c, k)
  <2>1. CASE clients[c].pending = NoStatus
    <3>1. /\ SetWorker(c, k, "idle", NoStatus)
          /\ ~clients'[c].syncing /\ clients'[c].pending = NoStatus
          /\ clients'[c].done = clients[c].done
          /\ accepted' = accepted
      BY <1>7, <1>8, <2>1 DEF TakePending, TypeOK, Client
    <3>2. WorkerLocalsOf(c)'
      BY <1>1, <1>3, <3>1 DEF WorkerLocalsOf, Carries
    <3>3. NewestKeptOf(c)'
      BY <1>1, <1>3, <1>5, <1>8, <2>1, <3>1
      DEF TakePending, QueueInvOf, NewestKeptOf, Carries
    <3>4. QED
      BY <1>6, <3>1, <3>2, <3>3 DEF QueueInvOf
  <2>2. CASE clients[c].pending # NoStatus
    <3>1. /\ SetWorker(c, k, "calling", clients[c].pending)
          /\ clients'[c].syncing /\ clients'[c].pending = NoStatus
          /\ clients'[c].done = clients[c].done
          /\ accepted' = accepted
      BY <1>4, <1>7, <1>8, <2>2 DEF TakePending, TypeOK, Client
    <3>2. WorkerLocalsOf(c)'
      BY <1>1, <1>3, <2>2, <3>1 DEF WorkerLocalsOf, Carries
    <3>3. NewestKeptOf(c)'
      BY <1>1, <1>3, <1>5, <1>8, <2>2, <3>1
      DEF TakePending, QueueInvOf, NewestKeptOf, Carries
    <3>4. QED
      BY <1>6, <3>1, <3>2, <3>3 DEF QueueInvOf
  <2>3. QED
    BY <2>1, <2>2
<1>9. CASE HeartbeatAnswered(c, k)
  <2>1. /\ clients' = clients /\ at(k) = "calling"
        /\ \/ /\ SetWorker(c, k, "refusing", NoStatus)
              /\ accepted' = accepted
           \/ /\ SetWorker(c, k, "reporting", NoStatus)
              /\ accepted'[c] = status(k)
    BY <1>9 DEF HeartbeatAnswered, TypeOK
  <2>2. WorkerLocalsOf(c)'
    BY <1>1, <1>3, <1>4, <2>1 DEF QueueInvOf, WorkerLocalsOf, Carries
  <2>3. NewestKeptOf(c)'
    BY <1>1, <1>3, <1>5, <2>1 DEF QueueInvOf, NewestKeptOf, Carries
  <2>4. QED
    BY <1>6, <2>1, <2>2, <2>3 DEF QueueInvOf
<1>10. CASE HeartbeatFails(c, k)
  <2>1. clients' = clients /\ at(k) = "calling" /\ SetWorker(c, k, "degraded", status(k))
    BY <1>10 DEF HeartbeatFails
  <2>2. Carries(c, k) /\ status(k) # NoStatus
    BY <2>1 DEF QueueInvOf, WorkerLocalsOf, Carries
  <2>3. WorkerLocalsOf(c)'
    BY <1>1, <1>3, <1>4, <2>1, <2>2 DEF QueueInvOf, WorkerLocalsOf, Carries
  <2>4. NewestKeptOf(c)'
    BY <1>1, <1>3, <1>5, <2>1, <2>2 DEF QueueInvOf, NewestKeptOf, Carries
  <2>5. QED
    BY <1>6, <2>1, <2>3, <2>4 DEF QueueInvOf
<1>11. CASE Reported(c, k)
  <2>1. /\ clients' = clients /\ accepted' = accepted /\ at(k) = "reporting"
        /\ SetWorker(c, k, "taking", NoStatus)
    BY <1>11 DEF Reported
  <2>2. WorkerLocalsOf(c)'
    BY <1>1, <1>3, <1>4, <2>1 DEF QueueInvOf, WorkerLocalsOf, Carries
  <2>3. NewestKeptOf(c)'
    BY <1>1, <1>3, <1>5, <2>1 DEF QueueInvOf, NewestKeptOf, Carries
  <2>4. QED
    BY <1>6, <2>1, <2>2, <2>3 DEF QueueInvOf
<1>12. CASE Requeue(c, k)
  <2>1. /\ accepted' = accepted /\ at(k) = "degraded"
        /\ SetWorker(c, k, "waiting", NoStatus)
        /\ clients'[c].pending = KeepForRetry(clients[c].pending, status(k))
        /\ clients'[c].done = clients[c].done
        /\ clients'[c].syncing = clients[c].syncing
    BY <1>7, <1>12 DEF Requeue, TypeOK, Client
  <2>2. Carries(c, k) /\ status(k) # NoStatus
    BY <2>1 DEF QueueInvOf, WorkerLocalsOf, Carries
  <2>3. WorkerLocalsOf(c)'
    BY <1>1, <1>3, <1>4, <2>1 DEF QueueInvOf, WorkerLocalsOf, Carries
  <2>4. NewestKeptOf(c)'
    BY <1>1, <1>3, <1>5, <2>1, <2>2 DEF QueueInvOf, NewestKeptOf, Carries, KeepForRetry
  <2>5. QED
    BY <1>6, <2>1, <2>3, <2>4 DEF QueueInvOf
<1>13. CASE RetryOrStop(c, k)
  <2>1. /\ clients' = clients /\ accepted' = accepted /\ at(k) = "waiting"
        /\ \/ SetWorker(c, k, "taking", NoStatus)
           \/ clients[c].done /\ SetWorker(c, k, "idle", NoStatus)
    BY <1>13 DEF RetryOrStop
  <2>2. WorkerLocalsOf(c)'
    BY <1>1, <1>3, <1>4, <2>1 DEF QueueInvOf, WorkerLocalsOf, Carries
  <2>3. NewestKeptOf(c)'
    BY <1>1, <1>3, <1>5, <2>1 DEF QueueInvOf, NewestKeptOf, Carries
  <2>4. QED
    BY <1>6, <2>1, <2>2, <2>3 DEF QueueInvOf
<1>14. CASE Refuse(c, k)
  <2>1. /\ SetWorker(c, k, "idle", NoStatus)
        /\ clients'[c].done
        /\ clients'[c].syncing
    BY <1>4, <1>7, <1>14 DEF Refuse, TypeOK, Client, Close
  <2>2. WorkerLocalsOf(c)'
    BY <1>1, <1>3, <2>1 DEF WorkerLocalsOf, Carries
  <2>3. NewestKeptOf(c)'
    BY <2>1 DEF NewestKeptOf
  <2>4. QED
    BY <1>6, <2>1, <2>2, <2>3 DEF QueueInvOf
<1>15. QED
  BY <1>8, <1>9, <1>10, <1>11, <1>12, <1>13, <1>14 DEF WorkerStep

\* A step that only changes the sockets or ends connections.
LEMMA CloseStands ==
  ASSUME TypeOK, NEW c \in Conns, NEW d \in Conns,
         UNCHANGED <<workers, newest, accepted>>,
         \/ clients' = clients
         \/ clients' = [clients EXCEPT ![d] = Close(@)]
         \/ \E to : clients' = [clients EXCEPT ![d].wire = to]
  PROVE  QueueStands(c)
<1>1. clients[d] \in Client
  BY DEF TypeOK
<1>2. \A cl : clients' = [clients EXCEPT ![d] = cl] =>
         clients'[c] = IF c = d THEN cl ELSE clients[c]
  BY DEF TypeOK
<1>3. /\ Close(clients[d]).pending = clients[d].pending
      /\ Close(clients[d]).syncing = clients[d].syncing
      /\ Close(clients[d]).done
      /\ \A to : /\ [clients[d] EXCEPT !.wire = to].pending = clients[d].pending
                 /\ [clients[d] EXCEPT !.wire = to].syncing = clients[d].syncing
                 /\ [clients[d] EXCEPT !.wire = to].done = clients[d].done
  BY <1>1 DEF Client, Close
<1>4. CASE clients' = clients
  BY <1>4 DEF QueueStands
<1>5. ASSUME NEW cl, clients' = [clients EXCEPT ![d] = cl],
             cl.pending = clients[d].pending, cl.syncing = clients[d].syncing,
             clients[d].done => cl.done
      PROVE  QueueStands(c)
  BY <1>2, <1>5 DEF QueueStands
<1>6. CASE clients' = [clients EXCEPT ![d] = Close(@)]
  BY <1>3, <1>5, <1>6
<1>7. ASSUME NEW to, clients' = [clients EXCEPT ![d].wire = to]
      PROVE  QueueStands(c)
  <2> DEFINE cl == [clients[d] EXCEPT !.wire = to]
  <2>1. /\ cl.pending = clients[d].pending /\ cl.syncing = clients[d].syncing
        /\ clients[d].done => cl.done
    BY <1>3
  <2>2. clients' = [clients EXCEPT ![d] = cl]
    BY <1>7
  <2> HIDE DEF cl
  <2>3. QED
    BY <1>5, <2>1, <2>2
<1>8. QED
  BY <1>4, <1>6, <1>7

LEMMA OtherStepsStand ==
  ASSUME TypeOK, RegistryInv, NEW c \in Conns, NEW d \in Conns,
         \/ FinishClose(d) \/ GoSilent(d) \/ Return(d) \/ HangUp(d)
         \/ KernelGivesUp(d) \/ WriteStuck(d)
         \/ Verify(d) \/ VerifyFails(d) \/ Register(d) \/ Supersede(d)
         \/ Superseded(d) \/ Greet(d) \/ Receive(d) \/ ReadFails(d)
         \/ Remove(d) \/ CloseRemoved(d) \/ LeaveClosed(d) \/ NotifyDisconnected(d)
         \/ SyncAnswered(d) \/ SyncFails(d) \/ SyncEnds(d)
         \/ TransportStops(d) \/ PongTimeout(d) \/ Ping(d) \/ PingReturns(d)
  PROVE  QueueStands(c)
<1>1. CASE \/ FinishClose(d) \/ GoSilent(d) \/ Return(d) \/ HangUp(d)
           \/ KernelGivesUp(d) \/ WriteStuck(d) \/ VerifyFails(d)
  BY <1>1, CloseStands
  DEF FinishClose, GoSilent, Return, HangUp, KernelGivesUp, WriteStuck, Wire,
      VerifyFails
<1>2. CASE \/ Verify(d) \/ Register(d) \/ Superseded(d) \/ Greet(d) \/ Receive(d)
           \/ ReadFails(d) \/ Remove(d) \/ LeaveClosed(d) \/ NotifyDisconnected(d)
  BY <1>2, CloseStands
  DEF Verify, Register, Superseded, Greet, Receive, ReadFails, Remove,
      LeaveClosed, NotifyDisconnected
<1>3. CASE Supersede(d)
  BY <1>3, CloseStands DEF Supersede, RegistryInv, HandlerLocals
<1>4. CASE CloseRemoved(d)
  BY <1>4, CloseStands DEF CloseRemoved
<1>5. CASE \/ SyncAnswered(d) \/ SyncFails(d) \/ SyncEnds(d)
           \/ TransportStops(d) \/ PongTimeout(d) \/ Ping(d) \/ PingReturns(d)
  BY <1>5, CloseStands
  DEF SyncAnswered, SyncFails, SyncEnds, TransportStops, PongTimeout, Ping,
      PingReturns
<1>6. QED
  BY <1>1, <1>2, <1>3, <1>4, <1>5

LEMMA RevocationStands ==
  ASSUME TypeOK, NEW c \in Conns, NEW n \in Nodes, Revoke(n) \/ DisconnectNode(n)
  PROVE  QueueStands(c)
<1>1. clients' = clients \/ \E d \in Conns : clients' = [clients EXCEPT ![d] = Close(@)]
  BY DEF Revoke, DisconnectNode, TypeOK
<1>2. UNCHANGED <<workers, newest, accepted>>
  BY DEF Revoke, DisconnectNode
<1>3. QED
  BY <1>1, <1>2, CloseStands

\* A worker, and queueHeartbeat, act on their own connection.
LEMMA OwnQueueOnly ==
  ASSUME TypeOK, NEW c \in Conns, NEW d \in Conns, c # d,
         QueueHeartbeat(d) \/ \E w \in Workers : WorkerStep(d, w)
  PROVE  QueueStands(c)
<1>1. CASE QueueHeartbeat(d)
  BY <1>1 DEF QueueHeartbeat, QueueStands, TypeOK
<1>2. ASSUME NEW w \in Workers, WorkerStep(d, w)
      PROVE  QueueStands(c)
  BY <1>2
  DEF QueueStands, TypeOK, SetWorker, WorkerStep, TakePending, HeartbeatAnswered,
      HeartbeatFails, Reported, Requeue, RetryOrStop, Refuse
<1>3. QED
  BY <1>1, <1>2

LEMMA NextQueue == TypeOK /\ RegistryInv /\ QueueInv /\ [Next]_vars => QueueInv'
<1> SUFFICES ASSUME TypeOK, RegistryInv, QueueInv, [Next]_vars, NEW c \in Conns
             PROVE  QueueInvOf(c)'
  BY DEF QueueInv, SingleFlight, WorkerLocals, NewestKept, QueueInvOf,
         SingleFlightOf, WorkerLocalsOf, NewestKeptOf, Carries
<1>1. QueueInvOf(c)
  BY QueuePointwise
<1>2. CASE UNCHANGED vars
  BY <1>1, <1>2, StandingKeepsQueue DEF vars, QueueStands
<1>3. ASSUME NEW d \in Conns, QueueHeartbeat(d) \/ \E w \in Workers : WorkerStep(d, w)
      PROVE  QueueInvOf(c)'
  BY <1>1, <1>3, OwnQueueOnly, QueueHeartbeatKeeps, WorkerKeeps, StandingKeepsQueue
<1>4. CASE Next
  BY <1>1, <1>3, <1>4, OtherStepsStand, RevocationStands, StandingKeepsQueue DEF Next
<1>5. QED
  BY <1>2, <1>4

-----------------------------------------------------------------------------

LEMMA NextGateway == GatewayInv /\ [Next]_vars => GatewayInv'
  BY NextType, NextRegistry, NextQueue DEF GatewayInv

\* The inductive invariant holds for any number of nodes, connections,
\* goroutines and statuses, whatever goes wrong.
THEOREM GatewayInvariant == Spec => []GatewayInv
<1>1. Init => GatewayInv
  BY InitType, InitRegistry, InitQueue DEF GatewayInv
<1>2. QED
  BY <1>1, NextGateway, PTL DEF Spec

\* One goroutine at most forwards the heartbeats of a connection.
THEOREM OneWorker == Spec => []SingleFlight
<1>1. GatewayInv => SingleFlight
  BY DEF GatewayInv, QueueInv
<1>2. QED
  BY <1>1, GatewayInvariant, PTL

\* The newest heartbeat of an open connection is never lost nor overtaken.
THEOREM NewestHeartbeatKept == Spec => []NewestKept
<1>1. GatewayInv => NewestKept
  BY DEF GatewayInv, QueueInv
<1>2. QED
  BY <1>1, GatewayInvariant, PTL

\* A connection the registry lost track of is being closed.
THEOREM NoStrayConnection == Spec => []UnregisteredIsEnding
<1>1. GatewayInv => UnregisteredIsEnding
  BY DEF GatewayInv, RegistryInv
<1>2. QED
  BY <1>1, GatewayInvariant, PTL

\* The registry names connections that are served, each for its own node.
THEOREM RegistrySound == Spec => []RegistryNamesHandlers
<1>1. GatewayInv => RegistryNamesHandlers
  BY DEF GatewayInv, RegistryInv
<1>2. QED
  BY <1>1, GatewayInvariant, PTL

\* The end of a superseded connection is never reported as the node's.
THEOREM ReplacedIsSilent == Spec => []SupersededStaySilent
<1>1. GatewayInv => SupersededStaySilent
  BY DEF GatewayInv, RegistryInv, SupersededStaySilent, PreviousIsPast, HandlerLocals
<1>2. QED
  BY <1>1, GatewayInvariant, PTL

-----------------------------------------------------------------------------
(* The gateway implements SessionRegistry.                                 *)

LEMMA InitRefines == Init => Registry!Init
  BY GatewayAssumption DEF Init, Registry!Init, Phase

\* A step that keeps the registry keeps the phase of every connection whose
\* handler stays where it is.
LEMMA PhaseStands ==
  ASSUME NEW c \in Conns,
         readers'[c].at = readers[c].at, readers'[c].current = readers[c].current,
         (nodes'[NodeOf[c]] = c) <=> (nodes[NodeOf[c]] = c)
  PROVE  Phase'[c] = Phase[c]
  BY DEF Phase

LEMMA StandingRefines ==
  ASSUME TypeOK, UNCHANGED <<nodes, readers>>
  PROVE  UNCHANGED <<nodes, Phase>>
  BY DEF Phase

\* A handler moves on within one phase.
LEMMA AdvanceRefines ==
  ASSUME TypeOK, RegistryInv, NEW c \in Conns, UNCHANGED nodes,
         \A d \in Conns : /\ d # c => readers'[d] = readers[d]
                          /\ readers'[c].current = readers[c].current,
         \/ readers[c].at = "verifying" /\ readers'[c].at = "registering"
         \/ /\ readers[c].at \in Serving \union {"unregistered", "closing"}
            /\ readers'[c].at \in Serving \union {"leaving", "closing", "notifying"}
  PROVE  UNCHANGED <<nodes, Phase>>
<1>1. Phase'[c] = Phase[c]
  <2>1. CASE readers[c].at = "verifying" /\ readers'[c].at = "registering"
    BY <2>1 DEF Phase
  <2>2. CASE /\ readers[c].at \in Serving \union {"unregistered", "closing"}
             /\ readers'[c].at \in Serving \union {"leaving", "closing", "notifying"}
    <3>1. /\ readers[c].at \notin {"verifying", "registering", "ended"}
          /\ readers'[c].at \notin {"verifying", "registering", "ended"}
      BY <2>2 DEF Serving
    <3>2. CASE readers[c].current
      BY <3>1, <3>2 DEF Phase
    <3>3. CASE ~readers[c].current
      BY <3>1, <3>3 DEF Phase
    <3>4. QED
      BY <3>2, <3>3
  <2>3. QED
    BY <2>1, <2>2
<1>2. \A d \in Conns : d # c => Phase'[d] = Phase[d]
  BY DEF Phase
<1>3. QED
  BY <1>1, <1>2 DEF Phase

\* What a handler that stays where it is keeps while c moves on.
LEMMA PhaseEquals ==
  ASSUME NEW c \in Conns, NEW p, Phase'[c] = p,
         \A d \in Conns : d # c => Phase'[d] = Phase[d]
  PROVE  Phase' = [Phase EXCEPT ![c] = p]
<1>1. Phase = [d \in Conns |-> Phase[d]] /\ Phase' = [d \in Conns |-> Phase'[d]]
  BY DEF Phase
<1>2. Phase' = [d \in Conns |-> IF d = c THEN p ELSE Phase[d]]
  BY <1>1
<1>3. [Phase EXCEPT ![c] = p] = [d \in Conns |-> IF d = c THEN p ELSE Phase[d]]
  BY <1>1
<1>4. QED
  BY <1>2, <1>3

\* A handler before its registration or past its removal is not named.
LEMMA NotNamed ==
  ASSUME RegistryInv, NEW c \in Conns,
         readers[c].at \notin Serving \union {"leaving"}
  PROVE  nodes[NodeOf[c]] # c
<1>1. NodeOf[c] \in Nodes /\ c # NoConn
  BY GatewayAssumption
<1>2. QED
  BY <1>1 DEF RegistryInv, RegistryNamesHandlers

LEMMA HandlerRefines ==
  ASSUME TypeOK, RegistryInv, NEW c \in Conns,
         \/ Verify(c) \/ VerifyFails(c) \/ Register(c) \/ Supersede(c)
         \/ Superseded(c) \/ Greet(c) \/ Receive(c) \/ ReadFails(c)
         \/ Remove(c) \/ CloseRemoved(c) \/ LeaveClosed(c) \/ NotifyDisconnected(c)
         \/ QueueHeartbeat(c)
  PROVE  Registry!Next \/ UNCHANGED <<nodes, Phase>>
<1>1. CASE \/ Verify(c) \/ Superseded(c) \/ Greet(c) \/ Receive(c) \/ ReadFails(c)
           \/ CloseRemoved(c) \/ QueueHeartbeat(c)
  <2>1. \A d \in Conns : /\ d # c => readers'[d] = readers[d]
                         /\ readers'[c].current = readers[c].current
    BY <1>1 DEF Verify, Superseded, Greet, Receive, ReadFails, CloseRemoved,
                QueueHeartbeat, GoTo, TypeOK, Reader
  <2>2. \/ readers[c].at = "verifying" /\ readers'[c].at = "registering"
        \/ /\ readers[c].at \in Serving \union {"unregistered", "closing"}
           /\ readers'[c].at \in Serving \union {"leaving", "closing", "notifying"}
    BY <1>1 DEF Verify, Superseded, Greet, Receive, ReadFails, CloseRemoved,
                QueueHeartbeat, GoTo, TypeOK, Reader, Serving
  <2>3. UNCHANGED nodes
    BY <1>1 DEF Verify, Superseded, Greet, Receive, ReadFails, CloseRemoved,
                QueueHeartbeat
  <2>4. QED
    BY <2>1, <2>2, <2>3, AdvanceRefines
<1>2. CASE VerifyFails(c)
  <2> nodes[NodeOf[c]] # c
    BY <1>2, NotNamed DEF VerifyFails, Serving
  <2>1. /\ readers[c].at = "verifying"
        /\ readers'[c].at = "ended" /\ UNCHANGED nodes
        /\ \A d \in Conns : d # c => readers'[d] = readers[d]
    BY <1>2 DEF VerifyFails, GoTo, TypeOK, Reader
  <2>2. Phase[c] = "new" /\ Phase'[c] = "gone"
    BY <2>1 DEF Phase
  <2>3. \A d \in Conns : d # c => Phase'[d] = Phase[d]
    BY <2>1 DEF Phase
  <2>4. Registry!Reject(c)
    BY <2>1, <2>2, <2>3, PhaseEquals DEF Registry!Reject
  <2>5. QED
    BY <2>4 DEF Registry!Next
<1>3. CASE Register(c)
  <2> DEFINE n == NodeOf[c]
  <2>1. /\ readers[c].at = "registering" /\ nodes' = [nodes EXCEPT ![n] = c]
        /\ readers'[c].at \in Serving
        /\ \A d \in Conns : d # c => readers'[d] = readers[d]
    BY <1>3 DEF Register, TypeOK, Reader, Serving
  <2>2. n \in Nodes /\ nodes'[n] = c
    BY <2>1, GatewayAssumption DEF TypeOK
  <2>3. Phase[c] = "new" /\ Phase'[c] = "current"
    BY <2>1, <2>2 DEF Phase, Serving
  <2>4. ASSUME NEW d \in Conns, d # c, d = nodes[n]
        PROVE  Phase'[d] = "retired"
    <3>1. NodeOf[d] = n /\ readers[d].at \in Serving \union {"leaving"}
      BY <2>2, <2>4, GatewayAssumption DEF RegistryInv, RegistryNamesHandlers
    <3>2. ~readers[d].current
      BY <3>1 DEF RegistryInv, HandlerLocals, Serving, Past
    <3>3. QED
      BY <2>1, <2>2, <2>4, <3>1, <3>2 DEF Phase, Serving
  <2>5. ASSUME NEW d \in Conns, d # c, d # nodes[n]
        PROVE  Phase'[d] = Phase[d]
    BY <2>1, <2>2, <2>5, GatewayAssumption DEF Phase, TypeOK
  <2>6. Phase' = [d \in Conns |-> IF d = c THEN "current"
                                ELSE IF d = nodes[n] THEN "retired" ELSE Phase[d]]
    BY <2>3, <2>4, <2>5 DEF Phase
  <2>7. Registry!Attach(c)
    BY <2>1, <2>3, <2>6 DEF Registry!Attach
  <2>8. QED
    BY <2>7 DEF Registry!Next
<1>4. CASE Supersede(c)
  BY <1>4, StandingRefines DEF Supersede
<1>5. CASE Remove(c)
  <2> DEFINE n == NodeOf[c]
  <2>1. /\ readers[c].at = "leaving"
        /\ nodes' = [nodes EXCEPT ![n] = IF nodes[n] = c THEN NoConn ELSE nodes[n]]
        /\ readers'[c].at = "unregistered" /\ readers'[c].current = (nodes[n] = c)
        /\ \A d \in Conns : d # c => readers'[d] = readers[d]
    BY <1>5 DEF Remove, TypeOK, Reader
  <2>2. n \in Nodes /\ c # NoConn
    BY GatewayAssumption
  <2>3. \A d \in Conns : d # c => Phase'[d] = Phase[d]
    BY <2>1, <2>2, GatewayAssumption DEF Phase, TypeOK
  <2>4. CASE nodes[n] = c
    <3>1. Phase'[c] = "leaving"
      BY <2>1, <2>2, <2>4 DEF Phase, TypeOK
    <3>2. nodes' = [nodes EXCEPT ![n] = NoConn]
      BY <2>1, <2>4
    <3>3. Registry!Detach(c)
      BY <2>3, <2>4, <3>1, <3>2, PhaseEquals DEF Registry!Detach
    <3>4. QED
      BY <3>3 DEF Registry!Next
  <2>5. CASE nodes[n] # c
    <3>1. ~readers[c].current
      BY <2>1 DEF RegistryInv, HandlerLocals, Past
    <3>2. nodes' = nodes
      BY <2>1, <2>2, <2>5 DEF TypeOK
    <3>3. Phase'[c] = "retired" /\ Phase[c] = "retired"
      BY <2>1, <2>5, <3>1, <3>2 DEF Phase
    <3>4. Phase' = Phase
      BY <2>3, <3>3 DEF Phase
    <3>5. QED
      BY <3>2, <3>4
  <2>6. QED
    BY <2>4, <2>5
<1>6. CASE LeaveClosed(c)
  <2> nodes[NodeOf[c]] # c
    BY <1>6, NotNamed DEF LeaveClosed, Serving
  <2>1. /\ readers[c].at = "closing" /\ UNCHANGED nodes
        /\ \A d \in Conns : d # c => readers'[d] = readers[d]
        /\ readers'[c].at = IF readers[c].current THEN "notifying" ELSE "ended"
    BY <1>6 DEF LeaveClosed, GoTo, TypeOK, Reader
  <2>2. readers'[c].current = readers[c].current
    BY <1>6 DEF LeaveClosed, GoTo, TypeOK, Reader
  <2>3. CASE readers[c].current
    BY <2>1, <2>2, <2>3, AdvanceRefines
  <2>4. CASE ~readers[c].current
    <3>1. Phase[c] = "retired" /\ Phase'[c] = "gone"
      BY <2>1, <2>2, <2>4 DEF Phase
    <3>2. \A d \in Conns : d # c => Phase'[d] = Phase[d]
      BY <2>1 DEF Phase
    <3>3. Registry!Retire(c)
      BY <2>1, <3>1, <3>2, PhaseEquals DEF Registry!Retire
    <3>4. QED
      BY <3>3 DEF Registry!Next
  <2>5. QED
    BY <2>3, <2>4
<1>7. CASE NotifyDisconnected(c)
  <2> nodes[NodeOf[c]] # c
    BY <1>7, NotNamed DEF NotifyDisconnected, Serving
  <2>1. /\ readers[c].at = "notifying" /\ UNCHANGED nodes
        /\ readers'[c].at = "ended"
        /\ \A d \in Conns : d # c => readers'[d] = readers[d]
    BY <1>7 DEF NotifyDisconnected, GoTo, TypeOK, Reader
  <2> readers[c].current
    BY <2>1 DEF RegistryInv, HandlerLocals
  <2>2. Phase[c] = "leaving" /\ Phase'[c] = "gone"
    BY <2>1 DEF Phase
  <2>3. \A d \in Conns : d # c => Phase'[d] = Phase[d]
    BY <2>1 DEF Phase
  <2>4. Registry!Report(c)
    BY <2>1, <2>2, <2>3, PhaseEquals DEF Registry!Report
  <2>5. QED
    BY <2>4 DEF Registry!Next
<1>8. QED
  BY <1>1, <1>2, <1>3, <1>4, <1>5, <1>6, <1>7

LEMMA NextRefines ==
  TypeOK /\ RegistryInv /\ [Next]_vars => [Registry!Next]_(Registry!vars)
<1> SUFFICES ASSUME TypeOK, RegistryInv, [Next]_vars
             PROVE  Registry!Next \/ UNCHANGED <<nodes, Phase>>
  BY DEF Registry!vars
<1>1. CASE UNCHANGED vars
  BY <1>1, StandingRefines DEF vars
<1>2. OnlyEnding => UNCHANGED <<nodes, Phase>>
  BY StandingRefines DEF OnlyEnding
<1>3. CASE Next
  BY <1>2, <1>3, SocketOnlyEnding, SideOnlyEnding, WorkerOnlyEnding,
     RevocationOnlyEnding, HandlerRefines DEF Next
<1>4. QED
  BY <1>1, <1>3

\* The gateway implements the sessions of SessionRegistry (its safety part):
\* register and remove do to the registry what Attach, Detach, Report and
\* Retire say, and every other step nothing.
THEOREM GatewayImplementsRegistry == Spec => Registry!SafeSpec
<1>1. GatewayInv => TypeOK /\ RegistryInv
  BY DEF GatewayInv
<1>2. QED
  BY <1>1, InitRefines, NextRefines, GatewayInvariant, PTL DEF Spec, Registry!SafeSpec
=============================================================================
