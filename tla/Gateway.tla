------------------------------ MODULE Gateway -------------------------------
(***************************************************************************)
(* The node gateway (apps/gateway/main.go): the connections of the agents, *)
(* the registry that names one connection per node, the heartbeats each    *)
(* connection forwards to the API, and how connections end.                *)
(*                                                                         *)
(* A connection is served by goroutines: the handler that accepted it      *)
(* (readers), syncConnected (connecting), transportLoop (transport) and    *)
(* the heartbeat workers (workers).  A step is what one of them does under *)
(* one lock, or one call it makes.  The API is external: a call succeeds,  *)
(* is rejected because the credential of the node is revoked, or fails, in *)
(* which case the API may have acted on it or not.                         *)
(***************************************************************************)
EXTENDS Naturals, FiniteSets

CONSTANTS
    Conns,        \* connections ever accepted: the bound on their number
    Nodes,
    NodeOf,       \* the node whose credential a connection presents
    Workers,      \* goroutines available to run syncHeartbeats
    Statuses,     \* the contents of heartbeats
    NoStatus,     \* the nil map
    NoConn,
    Faults        \* what goes wrong in this instance

ASSUME GatewayAssumption ==
    /\ NodeOf \in [Conns -> Nodes]
    /\ NoConn \notin Conns
    /\ NoStatus \notin Statuses
    /\ Faults \subseteq {"silence", "return", "hangup", "api", "revocation"}

VARIABLES
    nodes,        \* gateway.nodes
    clients,      \* the client of every connection
    readers,      \* the handler of every connection
    connecting,   \* its syncConnected goroutine
    transport,    \* its transportLoop goroutine
    workers,      \* workers[c][w]: its syncHeartbeats goroutines
    revoked,      \* API: the nodes whose credential is revoked
    cuts,         \* disconnectNode: the request about each node
    newest,       \* history: the last status queued on each connection
    accepted      \* history: the last status of it the API acted on

vars == <<nodes, clients, readers, connecting, transport, workers, revoked,
          cuts, newest, accepted>>

\* The socket: its agent answers, is silent (hung, or cut off without a
\* notice), has filled its buffers so that a writer is stuck with writeMu
\* held, has hung up, or was closed by the gateway.
Wires == {"flowing", "silent", "blocked", "broken", "closed"}

Client == [done    : BOOLEAN,
           wire    : Wires,
           pending : Statuses \union {NoStatus},
           syncing : BOOLEAN]

ReaderSteps == {"verifying", "registering", "superseding", "greeting",
                "reading", "acking", "leaving", "unregistered", "closing",
                "notifying", "ended"}

Reader == [at       : ReaderSteps,
           received : Statuses \union {NoStatus},  \* the heartbeat just read
           previous : Conns \union {NoConn},       \* register: the one replaced
           current  : BOOLEAN]                     \* remove: wasCurrent

WorkerSteps == {"idle", "taking", "calling", "reporting", "degraded",
                "refusing", "waiting"}

Worker == [at : WorkerSteps, status : Statuses \union {NoStatus}]

Idle == [at |-> "idle", status |-> NoStatus]

\* One type for every variable.
TypeOK ==
    /\ nodes \in [Nodes -> Conns \union {NoConn}]
    /\ clients \in [Conns -> Client]
    /\ readers \in [Conns -> Reader]
    /\ connecting \in [Conns -> {"off", "calling", "writing", "refusing", "ended"}]
    /\ transport \in [Conns -> {"off", "on", "pinging", "ended"}]
    /\ workers \in [Conns -> [Workers -> Worker]]
    /\ revoked \in [Nodes -> BOOLEAN]
    /\ cuts \in [Nodes -> {"none", "asked", "done"}]
    /\ newest \in [Conns -> Statuses \union {NoStatus}]
    /\ accepted \in [Conns -> Statuses \union {NoStatus}]

Init ==
    /\ nodes = [n \in Nodes |-> NoConn]
    /\ clients = [c \in Conns |-> [done |-> FALSE, wire |-> "flowing",
                                   pending |-> NoStatus, syncing |-> FALSE]]
    /\ readers = [c \in Conns |-> [at |-> "verifying", received |-> NoStatus,
                                   previous |-> NoConn, current |-> FALSE]]
    /\ connecting = [c \in Conns |-> "off"]
    /\ transport = [c \in Conns |-> "off"]
    /\ workers = [c \in Conns |-> [w \in Workers |-> Idle]]
    /\ revoked = [n \in Nodes |-> FALSE]
    /\ cuts = [n \in Nodes |-> "none"]
    /\ newest = [c \in Conns |-> NoStatus]
    /\ accepted = [c \in Conns |-> NoStatus]

-----------------------------------------------------------------------------
(* The socket and how a connection is closed.                              *)

\* A write returns, with or without an error, unless a writer holds writeMu.
WriteReturns(c) == clients[c].wire # "blocked"

Closed(c) == clients[c].wire = "closed"

\* close: the first caller ends done at once; FinishClose is the rest of it.
\* Every caller but the first only waits for the first (sync.Once).
Close(cl) == [cl EXCEPT !.done = TRUE]

GoTo(c, step) == readers' = [readers EXCEPT ![c].at = step]

\* Mutation of FinishClose: it waits for the handler before it closes.
FinishCloseAfterHandler(c) ==
    /\ clients[c].done /\ WriteReturns(c) /\ ~Closed(c)
    /\ readers[c].at = "closing"
    /\ clients' = [clients EXCEPT ![c].wire = "closed"]
    /\ UNCHANGED <<nodes, readers, connecting, transport, workers, revoked,
                   cuts, newest, accepted>>

\* The close frame needs writeMu; then the socket is closed.
FinishClose(c) ==
    /\ clients[c].done /\ WriteReturns(c) /\ ~Closed(c)
    /\ clients' = [clients EXCEPT ![c].wire = "closed"]
    /\ UNCHANGED <<nodes, readers, connecting, transport, workers, revoked,
                   cuts, newest, accepted>>

Wire(c, from, to) ==
    /\ clients[c].wire \in from
    /\ clients' = [clients EXCEPT ![c].wire = to]
    /\ UNCHANGED <<nodes, readers, connecting, transport, workers, revoked,
                   cuts, newest, accepted>>

GoSilent(c)    == "silence" \in Faults /\ Wire(c, {"flowing"}, "silent")
Return(c)      == "return" \in Faults /\ Wire(c, {"silent", "blocked"}, "flowing")
HangUp(c)      == "hangup" \in Faults /\ Wire(c, {"flowing"}, "broken")
\* The operating system ends a connection whose data is not acknowledged.
KernelGivesUp(c) == Wire(c, {"silent", "blocked"}, "broken")

\* Somebody writes to c: one of its goroutines, or syncNode or sendCommand,
\* which take the connection from the registry.
Writing(c) ==
    \/ readers[c].at \in {"greeting", "acking"}
    \/ connecting[c] \in {"writing", "refusing"}
    \/ \E w \in Workers : workers[c][w].at \in {"reporting", "degraded", "refusing"}
    \/ nodes[NodeOf[c]] = c

\* WriteJSON has no deadline: it keeps writeMu as long as the agent does not
\* read and the buffers are full.
WriteStuck(c) == Writing(c) /\ Wire(c, {"silent"}, "blocked")

-----------------------------------------------------------------------------
(* connect: authentication, registration, the read loop.                   *)

Verify(c) ==
    /\ readers[c].at = "verifying"
    /\ ~revoked[NodeOf[c]]
    /\ GoTo(c, "registering")
    /\ UNCHANGED <<nodes, clients, connecting, transport, workers, revoked,
                   cuts, newest, accepted>>

\* No hello, no authenticate message, a rejected credential or no API.
VerifyFails(c) ==
    /\ readers[c].at = "verifying"
    /\ clients' = [clients EXCEPT ![c].wire = "closed"]
    /\ GoTo(c, "ended")
    /\ UNCHANGED <<nodes, connecting, transport, workers, revoked, cuts,
                   newest, accepted>>

Register(c) ==
    LET n == NodeOf[c]
    IN  /\ readers[c].at = "registering"
        /\ nodes' = [nodes EXCEPT ![n] = c]
        /\ readers' = [readers EXCEPT
              ![c].previous = nodes[n],
              ![c].at = IF nodes[n] = NoConn THEN "greeting" ELSE "superseding"]
        /\ UNCHANGED <<clients, connecting, transport, workers, revoked, cuts,
                       newest, accepted>>

\* Mutation of Supersede: the previous connection is only forgotten.
ForgetPrevious(c) ==
    /\ readers[c].at = "superseding"
    /\ GoTo(c, "greeting")
    /\ UNCHANGED <<nodes, clients, connecting, transport, workers, revoked,
                   cuts, newest, accepted>>

\* register: the rest, outside the lock.
Supersede(c) ==
    /\ readers[c].at = "superseding"
    /\ LET p == readers[c].previous
       IN  /\ ~clients[p].done
           /\ clients' = [clients EXCEPT ![p] = Close(@)]
    /\ UNCHANGED <<nodes, readers, connecting, transport, workers, revoked,
                   cuts, newest, accepted>>

Superseded(c) ==
    /\ readers[c].at = "superseding"
    /\ Closed(readers[c].previous)
    /\ GoTo(c, "greeting")
    /\ UNCHANGED <<nodes, clients, connecting, transport, workers, revoked,
                   cuts, newest, accepted>>

Greet(c) ==
    /\ readers[c].at = "greeting" /\ WriteReturns(c)
    /\ GoTo(c, "reading")
    /\ connecting' = [connecting EXCEPT ![c] = "calling"]
    /\ transport' = [transport EXCEPT ![c] = "on"]
    /\ UNCHANGED <<nodes, clients, workers, revoked, cuts, newest, accepted>>

Receive(c) ==
    /\ readers[c].at = "reading" /\ clients[c].wire = "flowing"
    /\ \E s \in Statuses :
          readers' = [readers EXCEPT ![c].at = "acking", ![c].received = s]
    /\ UNCHANGED <<nodes, clients, connecting, transport, workers, revoked,
                   cuts, newest, accepted>>

\* Mutation of QueueHeartbeat: syncing is not looked at.
StartAlways(c) ==
    LET s == readers[c].received
    IN  /\ readers[c].at = "acking" /\ WriteReturns(c)
        /\ readers' = [readers EXCEPT ![c].at = "reading", ![c].received = NoStatus]
        /\ clients' = [clients EXCEPT ![c].pending = s, ![c].syncing = TRUE]
        /\ newest' = [newest EXCEPT ![c] = s]
        /\ \E w \in Workers :
              /\ workers[c][w].at = "idle"
              /\ workers' = [workers EXCEPT ![c][w].at = "taking"]
        /\ UNCHANGED <<nodes, connecting, transport, revoked, cuts, accepted>>

\* The acknowledgement is written, then queueHeartbeat runs under syncMu.
QueueHeartbeat(c) ==
    LET s == readers[c].received
    IN  /\ readers[c].at = "acking" /\ WriteReturns(c)
        /\ readers' = [readers EXCEPT ![c].at = "reading", ![c].received = NoStatus]
        /\ clients' = [clients EXCEPT ![c].pending = s, ![c].syncing = TRUE]
        /\ newest' = [newest EXCEPT ![c] = s]
        /\ \/ clients[c].syncing /\ UNCHANGED workers
           \/ /\ ~clients[c].syncing
              /\ \E w \in Workers :
                    /\ workers[c][w].at = "idle"
                    /\ workers' = [workers EXCEPT ![c][w].at = "taking"]
        /\ UNCHANGED <<nodes, connecting, transport, revoked, cuts, accepted>>

\* The socket was closed or its read deadline passed.
ReadFails(c) ==
    /\ readers[c].at = "reading" /\ clients[c].wire # "flowing"
    /\ GoTo(c, "leaving")
    /\ UNCHANGED <<nodes, clients, connecting, transport, workers, revoked,
                   cuts, newest, accepted>>

-----------------------------------------------------------------------------
(* remove: deferred until the read loop returns.                           *)

\* Mutation of Remove: the entry is deleted whoever holds it.
DeleteAnyEntry(c) ==
    LET n == NodeOf[c]
    IN  /\ readers[c].at = "leaving"
        /\ nodes' = [nodes EXCEPT ![n] = NoConn]
        /\ readers' = [readers EXCEPT ![c].at = "unregistered",
                                      ![c].current = nodes[n] = c]
        /\ UNCHANGED <<clients, connecting, transport, workers, revoked, cuts,
                       newest, accepted>>

\* Mutation of Remove: the entry of a connection that is done is left to the
\* one that closed it.
KeepEntryWhenDone(c) ==
    LET n == NodeOf[c]
        wasCurrent == nodes[n] = c
    IN  /\ readers[c].at = "leaving"
        /\ nodes' = [nodes EXCEPT
              ![n] = IF wasCurrent /\ ~clients[c].done THEN NoConn ELSE @]
        /\ readers' = [readers EXCEPT ![c].at = "unregistered",
                                      ![c].current = wasCurrent]
        /\ UNCHANGED <<clients, connecting, transport, workers, revoked, cuts,
                       newest, accepted>>

\* Mutation of Remove: the disconnection is reported in any case.
ReportAnyEnd(c) ==
    LET n == NodeOf[c]
    IN  /\ readers[c].at = "leaving"
        /\ nodes' = [nodes EXCEPT ![n] = IF @ = c THEN NoConn ELSE @]
        /\ readers' = [readers EXCEPT ![c].at = "unregistered",
                                      ![c].current = TRUE]
        /\ UNCHANGED <<clients, connecting, transport, workers, revoked, cuts,
                       newest, accepted>>

Remove(c) ==
    LET n == NodeOf[c]
        wasCurrent == nodes[n] = c
    IN  /\ readers[c].at = "leaving"
        /\ nodes' = [nodes EXCEPT ![n] = IF wasCurrent THEN NoConn ELSE @]
        /\ readers' = [readers EXCEPT ![c].at = "unregistered",
                                      ![c].current = wasCurrent]
        /\ UNCHANGED <<clients, connecting, transport, workers, revoked, cuts,
                       newest, accepted>>

CloseRemoved(c) ==
    /\ readers[c].at = "unregistered"
    /\ clients' = [clients EXCEPT ![c] = Close(@)]
    /\ GoTo(c, "closing")
    /\ UNCHANGED <<nodes, connecting, transport, workers, revoked, cuts,
                   newest, accepted>>

LeaveClosed(c) ==
    /\ readers[c].at = "closing" /\ Closed(c)
    /\ GoTo(c, IF readers[c].current THEN "notifying" ELSE "ended")
    /\ UNCHANGED <<nodes, clients, connecting, transport, workers, revoked,
                   cuts, newest, accepted>>

\* POST /internal/nodes/:id/disconnected, whatever its result.
NotifyDisconnected(c) ==
    /\ readers[c].at = "notifying"
    /\ GoTo(c, "ended")
    /\ UNCHANGED <<nodes, clients, connecting, transport, workers, revoked,
                   cuts, newest, accepted>>

-----------------------------------------------------------------------------
(* syncConnected: POST /internal/nodes/:id/connected and its answer, with  *)
(* the desired state and the commands that are then written.               *)

SyncAnswered(c) ==
    /\ connecting[c] = "calling"
    /\ connecting' = [connecting EXCEPT
          ![c] = IF revoked[NodeOf[c]] THEN "refusing" ELSE "writing"]
    /\ UNCHANGED <<nodes, clients, readers, transport, workers, revoked, cuts,
                   newest, accepted>>

SyncFails(c) ==
    /\ connecting[c] = "calling" /\ "api" \in Faults
    /\ connecting' = [connecting EXCEPT ![c] = "writing"]
    /\ UNCHANGED <<nodes, clients, readers, transport, workers, revoked, cuts,
                   newest, accepted>>

\* Mutation of SyncEnds: the synchronization status is kept as a step.
EndDegraded(c) ==
    /\ connecting[c] \in {"writing", "refusing"} /\ WriteReturns(c)
    /\ connecting' = [connecting EXCEPT ![c] = "degraded"]
    /\ clients' = IF connecting[c] = "refusing"
                  THEN [clients EXCEPT ![c] = Close(@)] ELSE clients
    /\ UNCHANGED <<nodes, readers, transport, workers, revoked, cuts, newest,
                   accepted>>

SyncEnds(c) ==
    /\ connecting[c] \in {"writing", "refusing"} /\ WriteReturns(c)
    /\ connecting' = [connecting EXCEPT ![c] = "ended"]
    /\ clients' = IF connecting[c] = "refusing"
                  THEN [clients EXCEPT ![c] = Close(@)] ELSE clients
    /\ UNCHANGED <<nodes, readers, transport, workers, revoked, cuts, newest,
                   accepted>>

-----------------------------------------------------------------------------
(* transportLoop: every 15 seconds, a ping or the end of a silent agent.   *)

TransportStops(c) ==
    /\ transport[c] = "on" /\ clients[c].done
    /\ transport' = [transport EXCEPT ![c] = "ended"]
    /\ UNCHANGED <<nodes, clients, readers, connecting, workers, revoked, cuts,
                   newest, accepted>>

\* heartbeat_timeout: no pong for 45 seconds.
PongTimeout(c) ==
    /\ transport[c] = "on" /\ clients[c].wire \in {"silent", "blocked"}
    /\ transport' = [transport EXCEPT ![c] = "ended"]
    /\ clients' = [clients EXCEPT ![c] = Close(@)]
    /\ UNCHANGED <<nodes, readers, connecting, workers, revoked, cuts, newest,
                   accepted>>

\* The ping waits for writeMu, and the ticks with it.
Ping(c) ==
    /\ transport[c] = "on" /\ ~WriteReturns(c)
    /\ transport' = [transport EXCEPT ![c] = "pinging"]
    /\ UNCHANGED <<nodes, clients, readers, connecting, workers, revoked, cuts,
                   newest, accepted>>

\* connect_timeout: the ping cannot be written.
PingReturns(c) ==
    /\ \/ transport[c] = "pinging" /\ WriteReturns(c)
       \/ transport[c] = "on" /\ clients[c].wire \in {"broken", "closed"}
    /\ IF clients[c].wire = "flowing"
       THEN /\ transport' = [transport EXCEPT ![c] = "on"]
            /\ UNCHANGED clients
       ELSE /\ transport' = [transport EXCEPT ![c] = "ended"]
            /\ clients' = [clients EXCEPT ![c] = Close(@)]
    /\ UNCHANGED <<nodes, readers, connecting, workers, revoked, cuts, newest,
                   accepted>>

-----------------------------------------------------------------------------
(* syncHeartbeats.                                                         *)

SetWorker(c, w, at, status) ==
    workers' = [workers EXCEPT ![c][w] = [at |-> at, status |-> status]]

\* Mutation of TakePending: syncing stays set when the worker ends.
EndStillSyncing(c, w) ==
    /\ workers[c][w].at = "taking"
    /\ IF clients[c].pending = NoStatus
       THEN /\ SetWorker(c, w, "idle", NoStatus)
            /\ UNCHANGED clients
       ELSE /\ SetWorker(c, w, "calling", clients[c].pending)
            /\ clients' = [clients EXCEPT ![c].pending = NoStatus]
    /\ UNCHANGED <<nodes, readers, connecting, transport, revoked, cuts, newest,
                   accepted>>

TakePending(c, w) ==
    /\ workers[c][w].at = "taking"
    /\ IF clients[c].pending = NoStatus
       THEN /\ SetWorker(c, w, "idle", NoStatus)
            /\ clients' = [clients EXCEPT ![c].syncing = FALSE]
       ELSE /\ SetWorker(c, w, "calling", clients[c].pending)
            /\ clients' = [clients EXCEPT ![c].pending = NoStatus]
    /\ UNCHANGED <<nodes, readers, connecting, transport, revoked, cuts, newest,
                   accepted>>

HeartbeatAnswered(c, w) ==
    LET status == workers[c][w].status
    IN  /\ workers[c][w].at = "calling"
        /\ IF revoked[NodeOf[c]]
           THEN /\ SetWorker(c, w, "refusing", NoStatus)
                /\ UNCHANGED accepted
           ELSE /\ SetWorker(c, w, "reporting", NoStatus)
                /\ accepted' = [accepted EXCEPT ![c] = status]
        /\ UNCHANGED <<nodes, clients, readers, connecting, transport, revoked,
                       cuts, newest>>

\* The call fails or takes more than 5 seconds, after the API acted or not.
HeartbeatFails(c, w) ==
    LET status == workers[c][w].status
    IN  /\ workers[c][w].at = "calling" /\ "api" \in Faults
        /\ SetWorker(c, w, "degraded", status)
        /\ \/ UNCHANGED accepted
           \/ /\ ~revoked[NodeOf[c]]
              /\ accepted' = [accepted EXCEPT ![c] = status]
        /\ UNCHANGED <<nodes, clients, readers, connecting, transport, revoked,
                       cuts, newest>>

\* writeSynchronization and deliverCommands.
Reported(c, w) ==
    /\ workers[c][w].at = "reporting" /\ WriteReturns(c)
    /\ SetWorker(c, w, "taking", NoStatus)
    /\ UNCHANGED <<nodes, clients, readers, connecting, transport, revoked,
                   cuts, newest, accepted>>

\* Mutation of KeepForRetry: the failed status is retried first.
RetryFirst(pending, status) == status

\* The failed status waits again, unless a newer one does.
KeepForRetry(pending, status) == IF pending = NoStatus THEN status ELSE pending

Requeue(c, w) ==
    /\ workers[c][w].at = "degraded" /\ WriteReturns(c)
    /\ clients' = [clients EXCEPT
          ![c].pending = KeepForRetry(@, workers[c][w].status)]
    /\ SetWorker(c, w, "waiting", NoStatus)
    /\ UNCHANGED <<nodes, readers, connecting, transport, revoked, cuts, newest,
                   accepted>>

\* select: the delay passed, or the connection is done.
RetryOrStop(c, w) ==
    /\ workers[c][w].at = "waiting"
    /\ \/ SetWorker(c, w, "taking", NoStatus)
       \/ clients[c].done /\ SetWorker(c, w, "idle", NoStatus)
    /\ UNCHANGED <<nodes, clients, readers, connecting, transport, revoked,
                   cuts, newest, accepted>>

\* Mutation of Refuse: the agent is told, the connection stays open.
RefuseKeepingOpen(c, w) ==
    /\ workers[c][w].at = "refusing" /\ WriteReturns(c)
    /\ SetWorker(c, w, "idle", NoStatus)
    /\ UNCHANGED <<nodes, clients, readers, connecting, transport, revoked,
                   cuts, newest, accepted>>

\* credential_rejected: the worker returns and leaves syncing set.
Refuse(c, w) ==
    /\ workers[c][w].at = "refusing" /\ WriteReturns(c)
    /\ SetWorker(c, w, "idle", NoStatus)
    /\ clients' = [clients EXCEPT ![c] = Close(@)]
    /\ UNCHANGED <<nodes, readers, connecting, transport, revoked, cuts, newest,
                   accepted>>

-----------------------------------------------------------------------------
(* The API revokes the credential of a node and asks for its disconnection,*)
(* in a request that may be lost: DisconnectNode may never happen.         *)

Revoke(n) ==
    /\ ~revoked[n] /\ "revocation" \in Faults
    /\ revoked' = [revoked EXCEPT ![n] = TRUE]
    /\ cuts' = [cuts EXCEPT ![n] = "asked"]
    /\ UNCHANGED <<nodes, clients, readers, connecting, transport, workers,
                   newest, accepted>>

DisconnectNode(n) ==
    /\ cuts[n] = "asked"
    /\ cuts' = [cuts EXCEPT ![n] = "done"]
    /\ clients' = IF nodes[n] = NoConn THEN clients
                  ELSE [clients EXCEPT ![nodes[n]] = Close(@)]
    /\ UNCHANGED <<nodes, readers, connecting, transport, workers, revoked,
                   newest, accepted>>

-----------------------------------------------------------------------------

WorkerStep(c, w) ==
    \/ TakePending(c, w) \/ HeartbeatAnswered(c, w) \/ HeartbeatFails(c, w)
    \/ Reported(c, w) \/ Requeue(c, w) \/ RetryOrStop(c, w) \/ Refuse(c, w)

Next ==
    \/ \E c \in Conns :
          \/ FinishClose(c) \/ GoSilent(c) \/ Return(c) \/ HangUp(c)
          \/ KernelGivesUp(c) \/ WriteStuck(c)
          \/ Verify(c) \/ VerifyFails(c) \/ Register(c) \/ Supersede(c)
          \/ Superseded(c) \/ Greet(c) \/ Receive(c) \/ QueueHeartbeat(c)
          \/ ReadFails(c) \/ Remove(c) \/ CloseRemoved(c) \/ LeaveClosed(c)
          \/ NotifyDisconnected(c)
          \/ SyncAnswered(c) \/ SyncFails(c) \/ SyncEnds(c)
          \/ TransportStops(c) \/ PongTimeout(c) \/ Ping(c) \/ PingReturns(c)
          \/ \E w \in Workers : WorkerStep(c, w)
    \/ \E n \in Nodes : Revoke(n) \/ DisconnectNode(n)

Spec == Init /\ [][Next]_vars

(* Fairness.  Go runs every goroutine that can run, and hands a mutex to   *)
(* one that has waited for it: close, which waits for writeMu, gets it if  *)
(* writes return now and then.  The rest is assumed of others: agents that *)
(* answer send heartbeats (heartbeatSeconds) until they stop for good, a   *)
(* call to the API that is tried again and again is answered, and the      *)
(* operating system gives up silent connections.                           *)

HandlerStep(c) ==
    \/ VerifyFails(c) \/ Register(c) \/ Supersede(c) \/ Superseded(c) \/ Greet(c)
    \/ QueueHeartbeat(c) \/ ReadFails(c) \/ Remove(c) \/ CloseRemoved(c)
    \/ LeaveClosed(c) \/ NotifyDisconnected(c)

SyncStep(c) == SyncAnswered(c) \/ SyncFails(c) \/ SyncEnds(c)

OwnWorkerStep(c, w) ==
    \/ TakePending(c, w) \/ Reported(c, w) \/ Requeue(c, w)
    \/ RetryOrStop(c, w) \/ Refuse(c, w)

Fairness ==
    \A c \in Conns :
       /\ WF_vars(HandlerStep(c)) /\ WF_vars(Receive(c))
       /\ SF_vars(FinishClose(c))
       /\ WF_vars(SyncStep(c)) /\ WF_vars(KernelGivesUp(c))
       /\ \A w \in Workers :
             WF_vars(OwnWorkerStep(c, w)) /\ SF_vars(HeartbeatAnswered(c, w))

FairSpec == Spec /\ Fairness

-----------------------------------------------------------------------------
(* Properties.                                                             *)

\* The handlers that hold a session: registered and not yet in remove.
Serving == {"superseding", "greeting", "reading", "acking"}

\* The registry never names a connection of another node, nor one whose
\* handler is past remove: sendCommand, syncNode and disconnectNode find a
\* connection that is served, or none.
RegistryNamesHandlers ==
    \A n \in Nodes : nodes[n] # NoConn =>
       /\ NodeOf[nodes[n]] = n
       /\ readers[nodes[n]].at \in Serving \union {"leaving"}

\* A served connection that the registry does not name is being closed, or
\* the handler of the connection that replaced it is about to: no agent keeps
\* a socket that the gateway has lost track of.
UnregisteredIsEnding ==
    \A c \in Conns :
       readers[c].at \in Serving /\ nodes[NodeOf[c]] # c =>
          \/ clients[c].done
          \/ \E d \in Conns :
                readers[d].at = "superseding" /\ readers[d].previous = c

\* The end of a superseded connection is not reported as the disconnection
\* of the node, which another connection serves (remove: wasCurrent).
SupersededStaySilent ==
    \A c, d \in Conns :
       readers[d].previous = c => readers[c].at # "notifying"

\* One goroutine at most forwards the heartbeats of a connection (syncing),
\* however the reader, the worker that ends and the next one interleave.
SingleFlight ==
    \A c \in Conns : \A v, w \in Workers :
       workers[c][v].at # "idle" /\ workers[c][w].at # "idle" => v = w

Carries(c, w) == workers[c][w].at \in {"calling", "degraded"}

\* The newest heartbeat of an open connection is never lost or overtaken by
\* an older one: what the API hears last, after the calls and the retries
\* under way, is the newest status queued (queueHeartbeat, and the retry of
\* syncHeartbeats that keeps a newer pending status).
NewestKept ==
    \A c \in Conns :
       \/ clients[c].done
       \/ \E w \in Workers : workers[c][w].at = "refusing"
       \/ clients[c].pending # NoStatus /\ clients[c].pending = newest[c]
       \/ /\ clients[c].pending = NoStatus
          /\ \A w \in Workers : Carries(c, w) => workers[c][w].status = newest[c]
          /\ (\E w \in Workers : Carries(c, w)) \/ accepted[c] = newest[c]

\* The gateway keeps the promise about the sessions of a node: register and
\* remove, whatever the other goroutines do in between.
Phase == [c \in Conns |->
            IF readers[c].at \in {"verifying", "registering"} THEN "new"
            ELSE IF nodes[NodeOf[c]] = c THEN "current"
            ELSE IF readers[c].at = "ended" THEN "gone"
            ELSE IF readers[c].current THEN "leaving"
            ELSE "retired"]

Registry == INSTANCE SessionRegistry
            WITH Sessions <- Conns, None <- NoConn, current <- nodes, phase <- Phase

\* Safety and liveness of that promise: a superseded connection ends, and the
\* end of a current one is reported.
SessionsPromise == Registry!Spec

\* A connection that replaces another is not held up for ever by the close of
\* the old one (register waits for previous.close), even if a writer is stuck
\* on the old socket with writeMu held.
NewcomerServed ==
    \A c \in Conns : readers[c].at = "superseding" ~> readers[c].at # "superseding"

\* Revoking the credential of a node ends its connections even if the request
\* to /internal/disconnect is lost or comes before the registration: the
\* heartbeats are refused sooner or later.
RevokedIsCutOff ==
    \A c \in Conns :
       revoked[NodeOf[c]] ~> readers[c].at \in {"verifying", "ended"}

\* A heartbeat reaches the API unless a newer one or the end of the connection
\* comes first: the worker is never asleep while a status is pending.
HeartbeatArrives ==
    \A c \in Conns : \A s \in Statuses :
       newest[c] = s ~> \/ accepted[c] = s \/ newest[c] # s \/ clients[c].done
                       \/ revoked[NodeOf[c]]

-----------------------------------------------------------------------------
(* The inductive invariant: why the properties above hold in every state.  *)

Authenticating == {"verifying", "registering"}
Past == {"unregistered", "closing", "notifying", "ended"}

\* The local variables of a handler agree with where it is.
HandlerLocals ==
    \A c \in Conns :
       /\ readers[c].at = "superseding" => readers[c].previous \in Conns
       /\ readers[c].at = "acking" => readers[c].received # NoStatus
       /\ readers[c].at = "notifying" => readers[c].current
       /\ readers[c].current => readers[c].at \in Past

\* A connection that another replaced was registered before, for the same
\* node, and never is again.
PreviousIsPast ==
    \A c, d \in Conns : readers[d].previous = c =>
       /\ NodeOf[c] = NodeOf[d]
       /\ nodes[NodeOf[c]] # c
       /\ ~readers[c].current
       /\ readers[c].at \notin Authenticating

ClosedIsDone ==
    \A c \in Conns : Closed(c) => clients[c].done \/ readers[c].at = "ended"

\* The connections: what register, remove and close rest on.
RegistryInv ==
    /\ RegistryNamesHandlers
    /\ HandlerLocals
    /\ PreviousIsPast
    /\ ClosedIsDone
    /\ UnregisteredIsEnding

\* A worker exists only while syncing is set, and nothing waits without one.
WorkerLocals ==
    \A c \in Conns :
       /\ ~clients[c].syncing => clients[c].pending = NoStatus
       /\ clients[c].syncing /\ ~clients[c].done =>
             \E w \in Workers : workers[c][w].at # "idle"
       /\ \A w \in Workers :
             /\ workers[c][w].at # "idle" => clients[c].syncing
             /\ Carries(c, w) <=> workers[c][w].status # NoStatus

\* The heartbeats: what queueHeartbeat and syncHeartbeats rest on.
QueueInv ==
    /\ SingleFlight
    /\ WorkerLocals
    /\ NewestKept

\* The inductive invariant of the gateway.
GatewayInv == TypeOK /\ RegistryInv /\ QueueInv
=============================================================================
