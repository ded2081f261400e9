------------------------------- MODULE Listen -------------------------------
(***************************************************************************)
(* The dispatcher thread accepts clients (daemon/memcached.cc): limits on  *)
(* the number of connections, their accounting, which is shared with the   *)
(* worker threads that close connections, and the suspension of listening  *)
(* when the process runs out of file descriptors.                          *)
(***************************************************************************)
EXTENDS Integers, FiniteSets, FiniteSetsExt

CONSTANTS
  Sock,         \* client sockets
  Port,         \* listening ports
  NoSock,         \* no socket
  MaxConns,     \* [Port -> Nat]: maxconn of the interface
  Addresses,    \* addresses per port: one per address family
  BindFailures, \* bound: addresses that are in use at startup
  FdLimit,      \* clients that the process has descriptors for
  Backoff,      \* initial listen_state.count
  ConnRange,    \* bound: 2^32, the range of stats.curr_conns
  AllocFails    \* BOOLEAN: setting up an accepted connection may fail

ASSUME ListenAssumption ==
  /\ NoSock \notin Sock
  /\ MaxConns \in [Port -> Nat]
  /\ Addresses \in Nat \ {0} /\ BindFailures \in Nat
  /\ FdLimit \in Nat /\ Backoff \in Nat \ {0} /\ ConnRange \in Nat \ {0}
  /\ AllocFails \in BOOLEAN

VARIABLES
  sock,      \* [Sock -> state of the socket]
  port,      \* [Sock -> Port]: parent port
  curr,      \* stats.curr_conns
  portConns, \* [Port -> Int]: curr_conns of the port
  tried,     \* [Port -> Nat]: addresses that server_socket has tried to bind
  bound,     \* [Port -> Nat]: listening sockets
  disabled,  \* listen_state.disabled
  count,     \* listen_state.count
  listening, \* BOOLEAN: the listening sockets are registered in libevent
  wake,      \* bytes in the notification pipe of the dispatcher
  looking,   \* sockets closed by threads that have yet to test is_listen_disabled
  notifying, \* threads that are about to call notify_dispatcher
  freed,     \* history: sockets closed since listening was disabled
  dpc,       \* where the dispatcher is in conn_listening
  taken,       \* the socket that it has accepted
  old        \* what it has read from stats.curr_conns

portVars == <<port, portConns>>
bindVars == <<tried, bound>>
listenVars == <<disabled, count, listening>>
pipeVars == <<wake, looking, notifying, freed>>
dispatcherVars == <<dpc, taken, old>>
allListenVars == <<sock, curr, portVars, bindVars, listenVars, pipeVars, dispatcherVars>>

\* "unwanted": the dispatcher rejects it; "closing": the descriptor is closed but
\* the port still counts the connection; "lost": it will count it for ever.
SockState == {"unused", "backlog", "accepted", "unwanted", "queued", "open",
              "closing", "lost", "closed"}

\* Sockets that take a file descriptor of the process.
Descriptors == {s \in Sock : sock[s] \in {"accepted", "unwanted", "queued", "open"}}

ListenInit ==
  /\ sock = [s \in Sock |-> "unused"]
  /\ port \in [Sock -> Port]
  /\ curr = 0
  /\ portConns = [p \in Port |-> 0]
  /\ tried = [p \in Port |-> 0] /\ bound = [p \in Port |-> 0]
  /\ disabled = FALSE /\ count = 0 /\ listening = FALSE
  /\ wake = 0 /\ looking = 0 /\ notifying = 0 /\ freed = 0
  /\ dpc = "startup" /\ taken = NoSock /\ old = 0

\* stats.curr_conns after a socket is closed.
LessOne(n) == (n - 1) % ConnRange

\* The addresses that were in use at startup.
FailedBinds == MapThenSumSet(LAMBDA q : tried[q] - bound[q], Port)

\* server_socket and add_listening_port for one address of port p.  If the address
\* is in use, safe_close closes a socket that was never counted.
server_socket(p) ==
  /\ dpc = "startup" /\ tried[p] < Addresses
  /\ tried' = [tried EXCEPT ![p] = @ + 1]
  /\ \/ /\ bound' = [bound EXCEPT ![p] = @ + 1]
        /\ portConns' = [portConns EXCEPT ![p] = @ + 1]
        /\ curr' = (curr + 1) % ConnRange
     \/ /\ FailedBinds < BindFailures
        /\ curr' = LessOne(curr)
        /\ UNCHANGED <<bound, portConns>>
  /\ UNCHANGED <<sock, port, listenVars, pipeVars, dispatcherVars>>

\* All addresses were tried, and each port has a listening socket.
StartListening ==
  /\ dpc = "startup"
  /\ \A p \in Port : tried[p] = Addresses /\ bound[p] > 0
  /\ dpc' = "loop" /\ listening' = TRUE
  /\ UNCHANGED <<sock, curr, portVars, bindVars, disabled, count, pipeVars, taken,
                 old>>

\* A client connects: its connection waits in the backlog.
Connect(s) ==
  /\ sock[s] = "unused"
  /\ sock' = [sock EXCEPT ![s] = "backlog"]
  /\ UNCHANGED <<curr, portVars, bindVars, listenVars, pipeVars, dispatcherVars>>

\* safe_close tells the dispatcher while listening is disabled.
MustNotify == disabled

\* safe_close closes a socket and takes it off stats.curr_conns.
safe_close ==
  /\ curr' = LessOne(curr)
  /\ looking' = looking + 1
  /\ freed' = IF disabled THEN freed + 1 ELSE freed

\* The rest of safe_close: the dispatcher hears of it if listening is disabled now.
is_listen_disabled ==
  /\ looking > 0
  /\ looking' = looking - 1
  /\ notifying' = IF MustNotify THEN notifying + 1 ELSE notifying
  /\ UNCHANGED <<sock, curr, portVars, bindVars, listenVars, wake, freed,
                 dispatcherVars>>

\* A thread is about to notify the dispatcher.
MayNotify == notifying > 0

\* notify_dispatcher
notify_dispatcher ==
  /\ MayNotify
  /\ notifying' = notifying - 1
  /\ wake' = wake + 1
  /\ UNCHANGED <<sock, curr, portVars, bindVars, listenVars, looking, freed,
                 dispatcherVars>>

-----------------------------------------------------------------------------
(* The dispatcher thread.                                                  *)

\* accept fails with EMFILE.
OutOfDescriptors ==
  /\ dpc = "loop" /\ listening
  /\ \E s \in Sock : sock[s] = "backlog"
  /\ Cardinality(Descriptors) >= FdLimit
  /\ dpc' = "emfile"
  /\ UNCHANGED <<sock, curr, portVars, bindVars, listenVars, pipeVars, taken, old>>

\* disable_listen: connections that were closed since accept failed are missed.
disable_listen ==
  /\ dpc = "emfile"
  /\ disabled' = TRUE /\ count' = Backoff /\ listening' = FALSE
  /\ freed' = 0
  /\ dpc' = "loop"
  /\ UNCHANGED <<sock, curr, portVars, bindVars, wake, looking, notifying, taken,
                 old>>

\* conn_listening accepts s and counts it in stats.curr_conns.
conn_listening(s) ==
  /\ dpc = "loop" /\ listening
  /\ sock[s] = "backlog" /\ Cardinality(Descriptors) < FdLimit
  /\ sock' = [sock EXCEPT ![s] = "accepted"]
  /\ old' = IF 2 * curr >= ConnRange THEN curr - ConnRange ELSE curr
  /\ curr' = (curr + 1) % ConnRange
  /\ dpc' = "counted" /\ taken' = s
  /\ UNCHANGED <<portVars, bindVars, listenVars, pipeVars>>

\* settings.getMaxconns: the sum over the interfaces.
MaxTotal == MapThenSumSet(LAMBDA p : MaxConns[p], Port)

\* Too many connections, in total or on the port, of which conns is the number.
LimitReached(conns) ==
  \/ old >= MaxTotal
  \/ conns >= MaxConns[port[taken]]

\* conn_listening counts the connection on its port and decides.
CountOnPort ==
  LET conns == portConns[port[taken]] + 1 IN
  /\ dpc = "counted"
  /\ portConns' = [portConns EXCEPT ![port[taken]] = conns]
  /\ sock' = [sock EXCEPT ![taken] =
                IF LimitReached(conns) THEN "unwanted" ELSE "accepted"]
  /\ dpc' = IF LimitReached(conns) THEN "reject" ELSE "dispatch"
  /\ UNCHANGED <<bindVars, curr, port, listenVars, pipeVars, taken, old>>

\* A rejected connection, or one that cannot be made non-blocking.
Reject ==
  /\ dpc = "reject" \/ (dpc = "dispatch" /\ AllocFails)
  /\ portConns' = [portConns EXCEPT ![port[taken]] = @ - 1]
  /\ sock' = [sock EXCEPT ![taken] = "closed"]
  /\ safe_close
  /\ dpc' = "loop" /\ taken' = NoSock /\ old' = 0
  /\ UNCHANGED <<bindVars, port, listenVars, wake, notifying>>

\* dispatch_conn_new gives the socket to a worker, or closes it.
dispatch_conn_new ==
  /\ dpc = "dispatch"
  /\ \/ /\ sock' = [sock EXCEPT ![taken] = "queued"]
        /\ UNCHANGED <<curr, looking, freed>>
     \/ /\ AllocFails
        /\ sock' = [sock EXCEPT ![taken] = "lost"]
        /\ safe_close
  /\ dpc' = "loop" /\ taken' = NoSock /\ old' = 0
  /\ UNCHANGED <<portVars, bindVars, listenVars, wake, notifying>>

\* Mutant: one more connection has to be closed.
OverdueClosed(left) == left < 0

\* Enough connections were closed.
EnoughClosed(left) == left <= 0

\* dispatch_event_handler reads the pipe; enough closed connections re-enable
\* listening.
dispatch_event_handler ==
  LET left == count - wake IN
  /\ dpc = "loop" /\ wake > 0
  /\ wake' = 0
  /\ IF disabled
     THEN /\ count' = left
          /\ disabled' = ~EnoughClosed(left)
          /\ listening' = EnoughClosed(left)
     ELSE UNCHANGED listenVars
  /\ UNCHANGED <<sock, curr, portVars, bindVars, looking, notifying, freed,
                 dispatcherVars>>

-----------------------------------------------------------------------------
(* Worker threads.                                                         *)

\* conn_new, or the failure of conn_new in dispatch_new_connections, which
\* closes the socket but leaves the connection counted on its port.
conn_new(s) ==
  /\ sock[s] = "queued"
  /\ \/ sock' = [sock EXCEPT ![s] = "open"] /\ UNCHANGED <<curr, looking, freed>>
     \/ AllocFails /\ sock' = [sock EXCEPT ![s] = "lost"] /\ safe_close
  /\ UNCHANGED <<portVars, bindVars, listenVars, wake, notifying, dispatcherVars>>

\* conn_closing closes the socket.
conn_closing(s) ==
  /\ sock[s] = "open"
  /\ sock' = [sock EXCEPT ![s] = "closing"]
  /\ safe_close
  /\ UNCHANGED <<portVars, bindVars, listenVars, wake, notifying, dispatcherVars>>

\* Mutant: the connection stays counted on its port.
PortKeepsConn(p) == portConns[p]

\* What remains on the port of a connection that is destroyed.
PortLosesConn(p) == portConns[p] - 1

\* conn_immediate_close
conn_immediate_close(s) ==
  /\ sock[s] = "closing"
  /\ sock' = [sock EXCEPT ![s] = "closed"]
  /\ portConns' = [portConns EXCEPT ![port[s]] = PortLosesConn(port[s])]
  /\ UNCHANGED <<bindVars, curr, port, listenVars, pipeVars, dispatcherVars>>

Dispatcher ==
  \/ StartListening \/ OutOfDescriptors \/ disable_listen \/ CountOnPort \/ Reject
  \/ dispatch_conn_new \/ dispatch_event_handler
  \/ \E p \in Port : server_socket(p)
  \/ \E s \in Sock : conn_listening(s)

ClosingThread(s) == conn_new(s) \/ conn_closing(s) \/ conn_immediate_close(s)

ListenNext ==
  \/ Dispatcher
  \/ is_listen_disabled
  \/ notify_dispatcher
  \/ \E s \in Sock : Connect(s) \/ ClosingThread(s)

ListenSpec == ListenInit /\ [][ListenNext]_allListenVars

-----------------------------------------------------------------------------
(* Properties.                                                             *)

\* The clients of port p that are connected, or still counted on it.
Clients(p) ==
  {s \in Sock : port[s] = p /\ sock[s] \in {"queued", "open", "closing", "lost"}}

\* curr_conns of a port is the number of its listening sockets and clients, while
\* the dispatcher and the workers change it in different steps: conn_listening
\* adds a client that it may take back, conn_immediate_close removes one.  Clients
\* that no worker could set up are never removed.
PortConnsCounted ==
  \A p \in Port :
     portConns[p] = bound[p] + Cardinality(Clients(p))
                      + (IF dpc \in {"reject", "dispatch"} /\ port[taken] = p
                           THEN 1 ELSE 0)

\* A port has fewer connections, its listening sockets included, than its
\* maxconn, although conn_listening counts first and decides later, and workers
\* remove connections in between.
PortLimit ==
  \A p \in Port :
     Clients(p) # {} => bound[p] + Cardinality(Clients(p)) < MaxConns[p]

\* While listening is disabled, no closed connection is missed: each one is
\* subtracted from count already, is in the pipe, or its thread is in safe_close
\* (safe_close, notify_dispatcher, dispatch_event_handler).
ClosesNoticed ==
  disabled => Backoff - count + wake + notifying + looking >= freed

\* Listening resumes when at least as many connections are left to be closed as
\* listen_state.count asks for.
ListenResumes ==
  (disabled /\ Cardinality(Descriptors) + looking + notifying + wake >= count)
     ~> ~disabled

=============================================================================
