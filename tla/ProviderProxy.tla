----------------------------- MODULE ProviderProxy -----------------------------
(***************************************************************************)
(* Admission and shutdown of the provider proxy (syntavra_runtime/          *)
(* provider_proxy.py): a server with an accept loop and a semaphore of      *)
(* slots, a thread per connection that serves one request after the other,  *)
(* a counter of active requests, and a shutdown that waits for them up to a *)
(* deadline and then for the accept loop.  Over TLS the loop itself does    *)
(* the handshake, without a timeout.  What a request does between _enter    *)
(* and _exit is left out: it may hang.  One thread calls shutdown.          *)
(***************************************************************************)
EXTENDS Integers, FiniteSets

CONSTANTS
    Connection,    \* connections, which clients open again and again
    MaxConcurrent, \* max_concurrent_requests
    MaxStarts      \* bound: servers started

ASSUME ProxyAssumption ==
    IsFiniteSet(Connection) /\ MaxConcurrent \in Nat /\ MaxStarts \in Nat

VARIABLES
    server,    \* the number of the server, and whether it listens
    accepted,  \* the client that the accept loop is at, if any
    slots,     \* free slots of the server's semaphore
    accepting, \* _accepting
    active,    \* _active
    conn,      \* the server and the state of each connection
    stopping   \* where shutdown is, and whether its deadline has passed

proxyVars == <<server, accepted, slots, accepting, active, conn, stopping>>

-----------------------------------------------------------------------------
NotConnected == [at |-> "closed", server |-> 0]
NotStopping == [at |-> "none", late |-> FALSE]

ProxyInit ==
    /\ server = [number |-> 0, listens |-> FALSE]
    /\ accepted = {}
    /\ slots = 0
    /\ accepting = TRUE
    /\ active = 0
    /\ conn = [c \in Connection |-> NotConnected]
    /\ stopping = NotStopping

\* start, serve_forever: a new server has a semaphore of its own.
StartProxy ==
    /\ ~server.listens /\ stopping = NotStopping /\ server.number < MaxStarts
    /\ accepting' = TRUE
    /\ server' = [number |-> server.number + 1, listens |-> TRUE]
    /\ slots' = MaxConcurrent
    /\ UNCHANGED <<accepted, active, conn, stopping>>

\* The accept loop, until server.shutdown is called.
AcceptConnection(c) ==
    /\ server.listens /\ stopping.at # "stop"
    /\ accepted = {} /\ conn[c] = NotConnected
    /\ accepted' = {c}
    /\ UNCHANGED <<server, slots, accepting, active, conn, stopping>>

\* The handshake is over; process_request, with a thread for the connection.
ServeConnection(c) ==
    /\ c \in accepted /\ slots > 0
    /\ accepted' = {}
    /\ slots' = slots - 1
    /\ conn' = [conn EXCEPT ![c] = [at |-> "open", server |-> server.number]]
    /\ UNCHANGED <<server, accepting, active, stopping>>

\* The thread cannot be started: the slot is lost.
ThreadFails(c) ==
    /\ c \in accepted /\ slots > 0
    /\ accepted' = {}
    /\ slots' = slots - 1
    /\ UNCHANGED <<server, accepting, active, conn, stopping>>

\* The handshake fails, or there is no slot and the connection is shed.
DropConnection(c) ==
    /\ c \in accepted
    /\ accepted' = {}
    /\ UNCHANGED <<server, slots, accepting, active, conn, stopping>>

\* Fault: a connection that is open may go on while the proxy drains.
AdmitsOpen == TRUE

Admits == accepting

\* _enter; a refused request leaves the connection as it is.
EnterRequest(c) ==
    /\ conn[c].at = "open" /\ Admits
    /\ active' = active + 1
    /\ conn' = [conn EXCEPT ![c].at = "request"]
    /\ UNCHANGED <<server, accepted, slots, accepting, stopping>>

Left(n) == IF n > 0 THEN n - 1 ELSE 0

\* _exit, whether the request was answered, refused by a check or raised.
ExitRequest(c) ==
    /\ conn[c].at = "request"
    /\ active' = Left(active)
    /\ conn' = [conn EXCEPT ![c].at = "open"]
    /\ UNCHANGED <<server, accepted, slots, accepting, stopping>>

\* Fault: the slot is given back to whatever server there is.
ReleasedToAny(c) == slots + 1

\* The slot goes back to the semaphore of the server that accepted the connection.
Released(c) == IF conn[c].server = server.number THEN slots + 1 ELSE slots

\* process_request_thread: the connection ends between two requests.
CloseConnection(c) ==
    /\ conn[c].at = "open"
    /\ slots' = Released(c)
    /\ conn' = [conn EXCEPT ![c] = NotConnected]
    /\ UNCHANGED <<server, accepted, accepting, active, stopping>>

Shutdown ==
    /\ server.listens /\ stopping = NotStopping
    /\ accepting' = FALSE
    /\ stopping' = [at |-> "drain", late |-> FALSE]
    /\ UNCHANGED <<server, accepted, slots, active, conn>>

DrainTimesOut ==
    /\ stopping.at = "drain" /\ ~stopping.late
    /\ stopping' = [stopping EXCEPT !.late = TRUE]
    /\ UNCHANGED <<server, accepted, slots, accepting, active, conn>>

\* Fault: the deadline is not looked at.
DrainedOnly == active = 0

Drained == active = 0 \/ stopping.late

StopListening ==
    /\ stopping.at = "drain" /\ Drained
    /\ stopping' = [stopping EXCEPT !.at = "stop"]
    /\ UNCHANGED <<server, accepted, slots, accepting, active, conn>>

\* server.shutdown returns when the accept loop is done with its client; then
\* server_close.  The threads of connections live on.
StopServer ==
    /\ stopping.at = "stop" /\ accepted = {}
    /\ server' = [server EXCEPT !.listens = FALSE]
    /\ stopping' = NotStopping
    /\ UNCHANGED <<accepted, slots, accepting, active, conn>>

ProxyNext ==
    \/ StartProxy \/ Shutdown \/ DrainTimesOut \/ StopListening \/ StopServer
    \/ \E c \in Connection :
          \/ AcceptConnection(c) \/ ServeConnection(c) \/ ThreadFails(c) \/ DropConnection(c)
          \/ EnterRequest(c) \/ ExitRequest(c) \/ CloseConnection(c)

\* Time passes and the thread in shutdown runs on; nothing is assumed of requests
\* and clients, a client in its handshake included.
ProxyFairness ==
    WF_proxyVars(DrainTimesOut) /\ WF_proxyVars(StopListening) /\ WF_proxyVars(StopServer)

ProxySpec == ProxyInit /\ [][ProxyNext]_proxyVars /\ ProxyFairness

-----------------------------------------------------------------------------
Threads(n) == {c \in Connection : conn[c].at # "closed" /\ conn[c].server = n}
InRequest == {c \in Connection : conn[c].at = "request"}

ProxyTypeOK ==
    /\ server.number \in 0 .. MaxStarts /\ slots \in 0 .. MaxConcurrent
    /\ accepted \subseteq Connection /\ Cardinality(accepted) <= 1
    /\ active \in 0 .. Cardinality(Connection)
    /\ \A c \in Connection : conn[c].at \in {"closed", "open", "request"}
    /\ stopping.at \in {"none", "drain", "stop"}

\* No server has more threads than slots, also when connections of an earlier server
\* end while the next one serves, and when threads could not be started.
LoadBounded ==
    /\ \A n \in 1 .. server.number : Cardinality(Threads(n)) <= MaxConcurrent
    /\ slots + Cardinality(Threads(server.number)) <= MaxConcurrent

\* A server stops only when no request is under way, or its deadline has passed,
\* although connections of this and earlier servers keep their threads: the counter
\* counts every request.
StopsDrained ==
    /\ active = Cardinality(InRequest)
    /\ stopping.at = "stop" /\ ~stopping.late => InRequest = {}

\* shutdown returns, whatever the requests do; only a client that stays in the accept
\* loop for ever, with the handshake it never ends, can hold it up.
ShutdownReturns ==
    [](stopping.at = "drain" => <>(stopping = NotStopping \/ [](accepted # {})))
=============================================================================
