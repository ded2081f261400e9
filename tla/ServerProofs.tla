---------------------------- MODULE ServerProofs ----------------------------
(***************************************************************************)
(* Proofs about the main thread of the server.                             *)
(*                                                                         *)
(* Listen: the connections of a port are counted exactly and stay below    *)
(* its maxconn, and no closed connection is missed while listening is      *)
(* disabled, for any number of sockets and ports.                          *)
(*                                                                         *)
(* Process: what the threads use is released after they have stopped, for  *)
(* any number of clients.                                                  *)
(***************************************************************************)
EXTENDS Listen, Process, FiniteSetTheorems, TLAPS

-----------------------------------------------------------------------------
(* The dispatcher and the threads that close connections.                  *)

\* The types of the variables, but for the two flags.
ListenTypes ==
  /\ sock \in [Sock -> SockState]
  /\ port \in [Sock -> Port]
  /\ curr \in 0 .. ConnRange - 1
  /\ portConns \in [Port -> Int]
  /\ count \in Int
  /\ wake \in Nat /\ looking \in Nat /\ notifying \in Nat /\ freed \in Nat
  /\ tried \in [Port -> Nat] /\ bound \in [Port -> Nat]
  /\ dpc \in {"startup", "loop", "emfile", "counted", "reject", "dispatch"}
  /\ taken \in Sock \cup {NoSock}
  /\ old \in Int

\* The socket in the hands of the dispatcher is in the state that its place in
\* conn_listening says, and nobody was accepted before the ports are bound.
DispatcherInv ==
  /\ dpc \in {"counted", "reject", "dispatch"} => taken \in Sock
  /\ dpc \in {"counted", "dispatch"} => sock[taken] = "accepted"
  /\ dpc = "reject" => sock[taken] = "unwanted"
  /\ dpc = "startup" => \A s \in Sock : sock[s] \in {"unused", "backlog"}

\* A connection that will be dispatched was counted below the limit of its port.
DispatchInv ==
  dpc = "dispatch" => portConns[port[taken]] < MaxConns[port[taken]]

\* Sockets are taken one at a time, so that the clients can be counted.
ClientsFinite == \A p \in Port : IsFiniteSet(Clients(p))

ListenIInv ==
  /\ ListenTypes /\ DispatcherInv /\ DispatchInv /\ ClientsFinite
  /\ PortConnsCounted /\ PortLimit /\ ClosesNoticed

-----------------------------------------------------------------------------
(* What a step does to the clients of a port.                              *)

\* A remainder is in its range.
LEMMA Remainder ==
  ASSUME NEW n \in Int
  PROVE  n % ConnRange \in 0 .. ConnRange - 1
BY ListenAssumption

\* No client is added or removed if no socket enters or leaves the states that
\* are counted.
LEMMA SameClients ==
  ASSUME NEW p \in Port, port' = port,
         \A s \in Sock : (sock'[s] \in {"queued", "open", "closing", "lost"})
                           <=> (sock[s] \in {"queued", "open", "closing", "lost"})
  PROVE  Clients(p)' = Clients(p)
BY Zenon DEF Clients

\* One socket becomes a client of its port.
LEMMA OneMoreClient ==
  ASSUME ListenTypes, ClientsFinite, NEW s \in Sock, NEW x, port' = port,
         x \in {"queued", "lost"}, sock[s] = "accepted", sock' = [sock EXCEPT ![s] = x],
         NEW p \in Port
  PROVE  /\ IsFiniteSet(Clients(p)')
         /\ p = port[s] => Cardinality(Clients(p)') = Cardinality(Clients(p)) + 1
         /\ p # port[s] => Clients(p)' = Clients(p)
<1>1. IsFiniteSet(Clients(p)) /\ s \notin Clients(p)
  BY Zenon DEF ClientsFinite, Clients
<1>2. p = port[s] => Clients(p)' = Clients(p) \cup {s}
  BY Zenon DEF Clients, ListenTypes
<1>3. p # port[s] => Clients(p)' = Clients(p)
  BY Zenon DEF Clients, ListenTypes
<1>4. /\ Cardinality(Clients(p) \cup {s}) = Cardinality(Clients(p)) + 1
      /\ IsFiniteSet(Clients(p) \cup {s})
  BY Zenon, <1>1, FS_AddElement
<1>5. QED
  BY Zenon, <1>1, <1>2, <1>3, <1>4

\* One client leaves its port.
LEMMA OneClientLess ==
  ASSUME ListenTypes, ClientsFinite, NEW s \in Sock, port' = port,
         sock[s] = "closing", sock' = [sock EXCEPT ![s] = "closed"],
         NEW p \in Port
  PROVE  /\ IsFiniteSet(Clients(p)')
         /\ p = port[s] => /\ Cardinality(Clients(p)') = Cardinality(Clients(p)) - 1
                           /\ Clients(p) # {}
         /\ p # port[s] => Clients(p)' = Clients(p)
<1>1. IsFiniteSet(Clients(p))
  BY Zenon DEF ClientsFinite
<1>2. p = port[s] => Clients(p)' = Clients(p) \ {s} /\ s \in Clients(p)
  BY Zenon DEF Clients, ListenTypes
<1>3. p # port[s] => Clients(p)' = Clients(p)
  BY Zenon DEF Clients, ListenTypes
<1>4. /\ s \in Clients(p) => Cardinality(Clients(p) \ {s}) = Cardinality(Clients(p)) - 1
      /\ IsFiniteSet(Clients(p) \ {s})
  BY Zenon, <1>1, FS_RemoveElement
<1>5. QED
  BY Zenon, <1>1, <1>2, <1>3, <1>4

\* The number of clients of a port is a natural number.
LEMMA ClientsNat ==
  ASSUME ClientsFinite
  PROVE  \A p \in Port : Cardinality(Clients(p)) \in Nat
BY Zenon, FS_CardinalityType DEF ClientsFinite

\* A thread that closes a socket is counted in looking until it has told the
\* dispatcher.
LEMMA SafeClose ==
  ASSUME ListenTypes, ClosesNoticed, safe_close,
         disabled' = disabled, count' = count, wake' = wake, notifying' = notifying
  PROVE  /\ curr' \in 0 .. ConnRange - 1 /\ looking' \in Nat /\ freed' \in Nat
         /\ ClosesNoticed'
<1> USE DEF safe_close
<1>1. curr - 1 \in Int
  BY ListenAssumption DEF ListenTypes
<1>2. curr' \in 0 .. ConnRange - 1
  BY Zenon, <1>1, Remainder DEF LessOne
<1>3. looking' = looking + 1 /\ looking \in Nat /\ freed \in Nat
  BY Zenon DEF ListenTypes
<1>4. CASE disabled
  <2>1. freed' = freed + 1
    BY Zenon, <1>4
  <2>2. Backoff - count + wake + notifying + looking >= freed
    BY Zenon, <1>4 DEF ClosesNoticed
  <2>3. Backoff - count + wake + notifying + looking' >= freed'
    BY <1>3, <2>1, <2>2, ListenAssumption DEF ListenTypes
  <2>4. QED
    BY <1>2, <1>3, <2>1, <2>3 DEF ClosesNoticed
<1>5. CASE ~disabled
  BY <1>2, <1>3, <1>5 DEF ClosesNoticed
<1>6. QED
  BY Zenon, <1>4, <1>5

-----------------------------------------------------------------------------
(* Startup.                                                                *)

\* server_socket counts an address that it binds, and nobody is connected yet.
LEMMA ServerSocketIInv ==
  ASSUME ListenIInv, NEW p \in Port, server_socket(p)
  PROVE  ListenIInv'
<1> USE DEF ListenIInv, server_socket, listenVars, pipeVars, dispatcherVars
<1>1. ListenTypes'
  BY Remainder DEF ListenTypes, LessOne
<1>2. \A q \in Port : Clients(q)' = Clients(q) /\ Clients(q) = {}
  BY Zenon DEF Clients, DispatcherInv
<1>3. DispatcherInv' /\ DispatchInv' /\ ClosesNoticed'
  BY Zenon DEF DispatcherInv, DispatchInv, ClosesNoticed
<1>4. ClientsFinite'
  BY Zenon, <1>2 DEF ClientsFinite
<1>5. PortConnsCounted'
  <2> SUFFICES ASSUME NEW q \in Port PROVE PortConnsCounted!(q)'
    BY Zenon DEF PortConnsCounted
  <2>1. Cardinality(Clients(q)') = Cardinality(Clients(q)) /\ Cardinality(Clients(q)) \in Nat
    BY Zenon, <1>2, ClientsNat
  <2>2. QED
    BY <2>1 DEF PortConnsCounted, ListenTypes
<1>6. PortLimit'
  BY Zenon, <1>2 DEF PortLimit
<1>7. QED
  BY Zenon, <1>1, <1>3, <1>4, <1>5, <1>6

\* A step that neither counts a connection nor moves the dispatcher.
LEMMA QuietIInv ==
  ASSUME ListenIInv, ListenTypes', DispatcherInv', ClosesNoticed',
         portConns' = portConns, bound' = bound, port' = port,
         dpc' = dpc, taken' = taken,
         \A s \in Sock : (sock'[s] \in {"queued", "open", "closing", "lost"})
                           <=> (sock[s] \in {"queued", "open", "closing", "lost"})
  PROVE  ListenIInv'
<1> USE DEF ListenIInv
<1>1. \A q \in Port : Clients(q)' = Clients(q)
  BY Zenon, SameClients
<1>2. DispatchInv'
  BY Zenon DEF DispatchInv
<1>3. ClientsFinite' /\ PortConnsCounted' /\ PortLimit'
  BY Zenon, <1>1 DEF ClientsFinite, PortConnsCounted, PortLimit
<1>4. QED
  BY Zenon, <1>2, <1>3

\* A step of the dispatcher that counts no connection and ends where it holds no
\* socket that is counted.
LEMMA DispatcherMovesIInv ==
  ASSUME ListenIInv, ListenTypes', DispatcherInv', ClosesNoticed',
         portConns' = portConns, bound' = bound, port' = port,
         dpc \notin {"reject", "dispatch"}, dpc' \notin {"reject", "dispatch"},
         \A s \in Sock : (sock'[s] \in {"queued", "open", "closing", "lost"})
                           <=> (sock[s] \in {"queued", "open", "closing", "lost"})
  PROVE  ListenIInv'
<1> USE DEF ListenIInv
<1>1. \A q \in Port : Clients(q)' = Clients(q)
  BY Zenon, SameClients
<1>2. DispatchInv'
  BY Zenon DEF DispatchInv
<1>3. ClientsFinite' /\ PortConnsCounted' /\ PortLimit'
  BY Zenon, <1>1 DEF ClientsFinite, PortConnsCounted, PortLimit
<1>4. QED
  BY Zenon, <1>2, <1>3

-----------------------------------------------------------------------------
(* Steps that count no connection.                                         *)

\* The event loop starts, or accept fails.
LEMMA DispatcherLoopIInv ==
  ASSUME ListenIInv, StartListening \/ OutOfDescriptors \/ disable_listen
  PROVE  ListenIInv'
<1> USE ListenAssumption
    DEF StartListening, OutOfDescriptors, disable_listen, portVars, bindVars,
        listenVars, pipeVars
<1>1. ListenTypes' /\ DispatcherInv' /\ ClosesNoticed'
  BY DEF ListenIInv, ListenTypes, DispatcherInv, ClosesNoticed
<1>2. /\ portConns' = portConns /\ bound' = bound /\ port' = port /\ sock' = sock
      /\ dpc \notin {"reject", "dispatch"} /\ dpc' \notin {"reject", "dispatch"}
  BY Zenon
<1>3. QED
  BY Zenon, <1>1, <1>2, DispatcherMovesIInv

\* conn_listening takes a socket out of the backlog.
LEMMA ConnListeningIInv ==
  ASSUME ListenIInv, NEW s \in Sock, conn_listening(s)
  PROVE  ListenIInv'
<1> USE ListenAssumption
    DEF conn_listening, portVars, bindVars, listenVars, pipeVars
<1>1. ListenTypes'
  BY Remainder DEF ListenIInv, ListenTypes, SockState
<1>2. DispatcherInv' /\ ClosesNoticed'
  BY Zenon DEF ListenIInv, ListenTypes, DispatcherInv, ClosesNoticed
<1>3. /\ portConns' = portConns /\ bound' = bound /\ port' = port
      /\ dpc \notin {"reject", "dispatch"} /\ dpc' \notin {"reject", "dispatch"}
      /\ \A x \in Sock : (sock'[x] \in {"queued", "open", "closing", "lost"})
                           <=> (sock[x] \in {"queued", "open", "closing", "lost"})
  BY Zenon DEF ListenIInv, ListenTypes
<1>4. QED
  BY Zenon, <1>1, <1>2, <1>3, DispatcherMovesIInv

\* The notification of the dispatcher, and what it does with it.
LEMMA NotificationIInv ==
  ASSUME ListenIInv, is_listen_disabled \/ notify_dispatcher \/ dispatch_event_handler
  PROVE  ListenIInv'
<1> USE ListenAssumption
    DEF is_listen_disabled, notify_dispatcher, dispatch_event_handler, MayNotify,
        MustNotify, EnoughClosed, portVars, bindVars, listenVars, dispatcherVars
<1>1. ListenTypes'
  BY DEF ListenIInv, ListenTypes
<1>2. DispatcherInv'
  BY Zenon DEF ListenIInv, DispatcherInv
<1>3. ClosesNoticed'
  <2> SUFFICES ASSUME disabled' PROVE ClosesNoticed!2'
    BY Zenon DEF ClosesNoticed
  <2>1. disabled
    BY Zenon
  <2>2. Backoff - count + wake + notifying + looking >= freed
    BY Zenon, <2>1 DEF ListenIInv, ClosesNoticed
  <2>3. /\ count \in Int /\ wake \in Nat /\ looking \in Nat /\ notifying \in Nat
        /\ freed \in Nat /\ Backoff \in Nat /\ freed' = freed
    BY Zenon DEF ListenIInv, ListenTypes
  <2>4. CASE is_listen_disabled
    <3>1. looking' = looking - 1 /\ notifying' = notifying + 1 /\ wake' = wake /\ count' = count
      BY Zenon, <2>1, <2>4
    <3>2. QED
      BY <2>2, <2>3, <3>1
  <2>5. CASE notify_dispatcher
    <3>1. looking' = looking /\ notifying' = notifying - 1 /\ wake' = wake + 1 /\ count' = count
      BY Zenon, <2>5
    <3>2. QED
      BY <2>2, <2>3, <3>1
  <2>6. CASE dispatch_event_handler
    <3>1. looking' = looking /\ notifying' = notifying /\ wake' = 0 /\ count' = count - wake
      BY Zenon, <2>1, <2>6
    <3>2. QED
      BY <2>2, <2>3, <3>1
  <2>7. QED
    BY Zenon, <2>4, <2>5, <2>6
<1>4. /\ portConns' = portConns /\ bound' = bound /\ port' = port /\ sock' = sock
      /\ dpc' = dpc /\ taken' = taken
  BY Zenon
<1>5. QED
  BY Zenon, <1>1, <1>2, <1>3, <1>4, QuietIInv

\* A client connects, or a worker sets up a connection or closes its socket.
LEMMA ClientIInv ==
  ASSUME ListenIInv, NEW s \in Sock, Connect(s) \/ conn_new(s) \/ conn_closing(s)
  PROVE  ListenIInv'
<1> USE ListenAssumption
    DEF Connect, conn_new, conn_closing, portVars, bindVars, listenVars,
        pipeVars, dispatcherVars
<1>0. \/ safe_close
      \/ curr' = curr /\ looking' = looking /\ freed' = freed
  BY Zenon DEF Connect, conn_new, conn_closing
<1>1. ListenTypes' /\ ClosesNoticed'
  <2>1. /\ curr' \in 0 .. ConnRange - 1 /\ looking' \in Nat /\ freed' \in Nat
        /\ ClosesNoticed'
    BY <1>0, SafeClose DEF ListenIInv, ListenTypes, ClosesNoticed
  <2>2. sock' \in [Sock -> SockState]
    BY Zenon DEF ListenIInv, ListenTypes, SockState
  <2>3. QED
    BY Zenon, <2>1, <2>2 DEF ListenIInv, ListenTypes
<1>2. DispatcherInv'
  BY Zenon DEF ListenIInv, ListenTypes, DispatcherInv
<1>3. /\ portConns' = portConns /\ bound' = bound /\ port' = port
      /\ dpc' = dpc /\ taken' = taken
      /\ \A x \in Sock : (sock'[x] \in {"queued", "open", "closing", "lost"})
                           <=> (sock[x] \in {"queued", "open", "closing", "lost"})
  BY Zenon DEF ListenIInv, ListenTypes
<1>4. QED
  BY Zenon, <1>1, <1>2, <1>3, QuietIInv

-----------------------------------------------------------------------------
(* Steps that count a connection.                                          *)

\* conn_listening counts the connection on its port and decides.
LEMMA CountOnPortIInv ==
  ASSUME ListenIInv, CountOnPort
  PROVE  ListenIInv'
<1> USE ListenAssumption DEF CountOnPort, ListenIInv, bindVars, listenVars, pipeVars
<1>1. taken \in Sock /\ sock[taken] = "accepted" /\ port[taken] \in Port
  BY Zenon DEF DispatcherInv, ListenTypes
<1>2. ListenTypes'
  BY <1>1 DEF ListenTypes, SockState
<1>3. DispatcherInv' /\ ClosesNoticed'
  BY Zenon, <1>1 DEF DispatcherInv, ClosesNoticed, ListenTypes
<1>4. DispatchInv'
  <2> SUFFICES ASSUME dpc' = "dispatch" PROVE DispatchInv!2'
    BY Zenon DEF DispatchInv
  <2>1. portConns'[port[taken]] = portConns[port[taken]] + 1
    BY Zenon, <1>1 DEF ListenTypes
  <2>2. ~LimitReached(portConns[port[taken]] + 1)
    BY Zenon
  <2>3. ~(portConns[port[taken]] + 1 >= MaxConns[port[taken]])
    BY Zenon, <2>2 DEF LimitReached
  <2>4. portConns[port[taken]] \in Int /\ MaxConns[port[taken]] \in Nat
    BY Zenon, <1>1 DEF ListenTypes
  <2>5. portConns'[port[taken]] < MaxConns[port[taken]]
    BY <2>1, <2>3, <2>4
  <2>6. QED
    BY Zenon, <2>5
<1>5. \A q \in Port : Clients(q)' = Clients(q)
  BY Zenon, <1>1, SameClients DEF ListenTypes
<1>6. ClientsFinite' /\ PortLimit'
  BY Zenon, <1>5 DEF ClientsFinite, PortLimit
<1>7. PortConnsCounted'
  BY <1>1, <1>5, ClientsNat DEF PortConnsCounted, ListenTypes
<1>8. QED
  BY Zenon, <1>2, <1>3, <1>4, <1>6, <1>7

\* A rejected connection is taken off its port.
LEMMA RejectIInv ==
  ASSUME ListenIInv, Reject
  PROVE  ListenIInv'
<1> USE ListenAssumption DEF Reject, ListenIInv, bindVars, listenVars
<1>1. taken \in Sock /\ sock[taken] \in {"accepted", "unwanted"} /\ port[taken] \in Port
  BY Zenon DEF DispatcherInv, ListenTypes
<1>0. safe_close
  BY Zenon
<1>2. ListenTypes' /\ ClosesNoticed'
  <2>1. /\ curr' \in 0 .. ConnRange - 1 /\ looking' \in Nat /\ freed' \in Nat
        /\ ClosesNoticed'
    BY Zenon, <1>0, SafeClose DEF ListenTypes, ClosesNoticed
  <2>2. sock' \in [Sock -> SockState] /\ portConns' \in [Port -> Int]
    BY <1>1 DEF ListenTypes, SockState
  <2>3. QED
    BY <2>1, <2>2 DEF ListenTypes
<1>3. DispatcherInv' /\ DispatchInv'
  BY Zenon DEF DispatcherInv, DispatchInv
<1>5. \A q \in Port : Clients(q)' = Clients(q)
  BY Zenon, <1>1, SameClients DEF ListenTypes
<1>6. ClientsFinite' /\ PortLimit'
  BY Zenon, <1>5 DEF ClientsFinite, PortLimit
<1>7. PortConnsCounted'
  BY <1>1, <1>5, ClientsNat DEF PortConnsCounted, ListenTypes
<1>8. QED
  BY Zenon, <1>2, <1>3, <1>6, <1>7

\* The connection becomes a client of its port: a worker gets it, or its socket
\* is closed and the port goes on counting it.
LEMMA DispatchConnNewIInv ==
  ASSUME ListenIInv, dispatch_conn_new
  PROVE  ListenIInv'
<1> USE ListenAssumption
    DEF dispatch_conn_new, ListenIInv, portVars, bindVars, listenVars
<1>1. taken \in Sock /\ sock[taken] = "accepted" /\ port[taken] \in Port
  BY Zenon DEF DispatcherInv, ListenTypes
<1>0. \/ safe_close
      \/ curr' = curr /\ looking' = looking /\ freed' = freed
  BY Zenon
<1>2. ListenTypes' /\ ClosesNoticed'
  <2>1. /\ curr' \in 0 .. ConnRange - 1 /\ looking' \in Nat /\ freed' \in Nat
        /\ ClosesNoticed'
    BY Zenon, <1>0, SafeClose DEF ListenTypes, ClosesNoticed
  <2>2. sock' \in [Sock -> SockState] /\ portConns' \in [Port -> Int]
    BY Zenon, <1>1 DEF ListenTypes, SockState
  <2>3. QED
    BY <2>1, <2>2 DEF ListenTypes
<1>3. DispatcherInv' /\ DispatchInv'
  BY Zenon DEF DispatcherInv, DispatchInv
<1>5. \A q \in Port : /\ IsFiniteSet(Clients(q)')
                      /\ q = port[taken] =>
                           Cardinality(Clients(q)') = Cardinality(Clients(q)) + 1
                      /\ q # port[taken] => Clients(q)' = Clients(q)
  BY Zenon, <1>1, OneMoreClient
<1>6. ClientsFinite'
  BY Zenon, <1>5 DEF ClientsFinite
<1>7. PortConnsCounted'
  BY <1>1, <1>5, ClientsNat DEF PortConnsCounted, ListenTypes
<1>8. PortLimit'
  BY <1>1, <1>5, ClientsNat DEF PortConnsCounted, DispatchInv, PortLimit, ListenTypes
<1>9. QED
  BY Zenon, <1>2, <1>3, <1>6, <1>7, <1>8

\* A worker destroys a connection and takes it off its port.
LEMMA ImmediateCloseIInv ==
  ASSUME ListenIInv, NEW s \in Sock, conn_immediate_close(s)
  PROVE  ListenIInv'
<1> USE ListenAssumption
    DEF conn_immediate_close, ListenIInv, PortLosesConn, bindVars, listenVars, pipeVars,
        dispatcherVars
<1>1. port[s] \in Port
  BY Zenon DEF ListenTypes
<1>2. ListenTypes'
  BY <1>1 DEF ListenTypes, SockState
<1>3. DispatcherInv' /\ ClosesNoticed'
  BY Zenon DEF DispatcherInv, ClosesNoticed, ListenTypes
<1>4. DispatchInv'
  <2> SUFFICES ASSUME dpc = "dispatch" PROVE DispatchInv!2'
    BY Zenon DEF DispatchInv
  <2> DEFINE q == port[taken]
  <2>1. q \in Port /\ portConns[q] < MaxConns[q]
    BY Zenon DEF DispatchInv, DispatcherInv, ListenTypes
  <2>2. portConns'[q] \in {portConns[q], portConns[q] - 1} /\ portConns[q] \in Int
    BY Zenon, <1>1, <2>1 DEF ListenTypes
  <2>3. MaxConns[q] \in Nat
    BY Zenon, <2>1
  <2>4. portConns'[q] < MaxConns[q]
    BY <2>1, <2>2, <2>3
  <2>5. QED
    BY Zenon, <2>4
<1>5. \A q \in Port : /\ IsFiniteSet(Clients(q)')
                      /\ q = port[s] =>
                           /\ Cardinality(Clients(q)') = Cardinality(Clients(q)) - 1
                           /\ Clients(q) # {}
                      /\ q # port[s] => Clients(q)' = Clients(q)
  BY Zenon, OneClientLess
<1>6. ClientsFinite'
  BY Zenon, <1>5 DEF ClientsFinite
<1>7. PortConnsCounted'
  BY <1>1, <1>5, ClientsNat DEF PortConnsCounted, ListenTypes
<1>8. PortLimit'
  <2> SUFFICES ASSUME NEW q \in Port, Clients(q)' # {}
               PROVE  bound[q] + Cardinality(Clients(q)') < MaxConns[q]
    BY Zenon DEF PortLimit
  <2>1. CASE q # port[s]
    BY Zenon, <1>5, <2>1 DEF PortLimit
  <2>2. CASE q = port[s]
    <3>1. bound[q] + Cardinality(Clients(q)) < MaxConns[q]
      BY Zenon, <1>5, <2>2 DEF PortLimit
    <3>2. bound[q] \in Nat /\ MaxConns[q] \in Nat /\ Cardinality(Clients(q)) \in Nat
      BY Zenon, ClientsNat DEF ListenTypes
    <3>3. QED
      BY <1>5, <2>2, <3>1, <3>2
  <2>3. QED
    BY Zenon, <2>1, <2>2
<1>9. QED
  BY Zenon, <1>2, <1>3, <1>4, <1>6, <1>7, <1>8

-----------------------------------------------------------------------------
(* The theorems.                                                           *)

\* No socket is a client at the start.
LEMMA ListenInitIInv ==
  ASSUME ListenInit
  PROVE  ListenIInv
<1> USE ListenAssumption DEF ListenInit
<1>1. ListenTypes
  BY DEF ListenTypes, SockState
<1>2. DispatcherInv /\ DispatchInv /\ ClosesNoticed
  BY Zenon DEF DispatcherInv, DispatchInv, ClosesNoticed
<1>3. \A p \in Port : Clients(p) = {}
  BY Zenon DEF Clients
<1>4. IsFiniteSet({}) /\ Cardinality({}) = 0
  BY Zenon, FS_EmptySet
<1>5. ClientsFinite /\ PortLimit
  BY Zenon, <1>3, <1>4 DEF ClientsFinite, PortLimit
<1>6. PortConnsCounted
  BY <1>3, <1>4 DEF PortConnsCounted
<1>7. QED
  BY Zenon, <1>1, <1>2, <1>5, <1>6 DEF ListenIInv

\* Every step of the dispatcher and of the threads that close connections keeps
\* the invariant.
LEMMA ListenStepIInv ==
  ASSUME ListenIInv, [ListenNext]_allListenVars
  PROVE  ListenIInv'
<1>1. CASE Dispatcher
  BY Zenon, <1>1, ServerSocketIInv, DispatcherLoopIInv, ConnListeningIInv, NotificationIInv,
     CountOnPortIInv, RejectIInv, DispatchConnNewIInv DEF Dispatcher
<1>2. CASE is_listen_disabled \/ notify_dispatcher
  BY Zenon, <1>2, NotificationIInv
<1>3. ASSUME NEW s \in Sock, Connect(s) \/ ClosingThread(s)
      PROVE  ListenIInv'
  BY Zenon, <1>3, ClientIInv, ImmediateCloseIInv DEF ClosingThread
<1>4. CASE UNCHANGED allListenVars
  BY <1>4 DEF ListenIInv, ListenTypes, DispatcherInv, DispatchInv, ClientsFinite,
     PortConnsCounted, PortLimit, ClosesNoticed, Clients, allListenVars, portVars,
     bindVars, listenVars, pipeVars, dispatcherVars
<1>5. QED
  BY Zenon, <1>1, <1>2, <1>3, <1>4 DEF ListenNext

\* The invariant of the dispatcher and the closing threads always holds.
LEMMA ListenInvariant == ListenSpec => []ListenIInv
<1>1. ListenInit => ListenIInv
  BY Zenon, ListenInitIInv
<1>2. ListenIInv /\ [ListenNext]_allListenVars => ListenIInv'
  BY Zenon, ListenStepIInv
<1>3. QED
  BY <1>1, <1>2, PTL DEF ListenSpec

\* curr_conns of a port is exactly the number of its listening sockets and
\* clients, whatever the dispatcher (conn_listening) and the workers
\* (conn_immediate_close) do in between, for any number of sockets and ports.
THEOREM PortConnsAreCounted == ListenSpec => []PortConnsCounted
BY ListenInvariant, PTL DEF ListenIInv

\* A port never has as many connections as its maxconn, although it is counted
\* first and decided later (conn_listening), for any maxconn.
THEOREM PortLimitKept == ListenSpec => []PortLimit
BY ListenInvariant, PTL DEF ListenIInv

\* No closed connection is missed while listening is disabled: the dispatcher
\* has subtracted it from listen_state.count or will (safe_close,
\* dispatch_event_handler).
THEOREM ClosesAreNoticed == ListenSpec => []ClosesNoticed
BY ListenInvariant, PTL DEF ListenIInv

-----------------------------------------------------------------------------
(* The life of the process.                                                *)

Fields == {"phase", "step", "alive", "stdin", "brk", "shutdown", "term", "worker",
           "client", "bucket", "slot", "main", "op", "on", "ops"}

\* What the worker, the bucket threads and the tasks of the executor use.
Base == {"threads", "buckets", "sasl", "enginemap", "executors", "connections"}

\* What the proofs need of the types.
ProcessTypes ==
  /\ DOMAIN pr = Fields
  /\ pr.phase \in {"start", "check", "enter", "loop", "down", "exited", "ended"}
  /\ pr.step \in 1 .. 13
  /\ DOMAIN pr.slot = Slots
  /\ \A s \in Slots : pr.slot[s] \in {"None", "Creating", "Ready", "Stopping"}
  /\ DOMAIN pr.client = ClientConns /\ DOMAIN pr.bucket = ClientConns
  /\ DOMAIN pr.op = ClientConns /\ DOMAIN pr.on = ClientConns

\* Clients in a bucket are connected and the bucket is there, and those that wait
\* for a task are blocked; a worker that stopped has no clients, and gets none,
\* since the shutdown has begun.
ClientInv ==
  /\ \A c \in ClientConns :
       /\ pr.bucket[c] # NoSlot => /\ pr.client[c] \notin {"away", "closed"}
                                   /\ pr.bucket[c] \in Slots
                                   /\ pr.slot[pr.bucket[c]] \in {"Ready", "Stopping"}
       /\ pr.op[c] # "none" => pr.client[c] = "blocked"
  /\ pr.worker = "stopped" => /\ pr.shutdown
                              /\ \A c \in ClientConns : pr.client[c] \in {"away", "closed"}

\* A bucket is created, and deleted for a client, by a task; the main thread waits
\* for the one it deletes in its first step.
TaskInv ==
  \A s \in Slots :
    /\ pr.slot[s] = "Creating" =>
         \E c \in ClientConns : pr.op[c] \in {"create", "delete"} /\ pr.on[c] = s
    /\ pr.slot[s] = "Stopping" =>
         \/ \E c \in ClientConns : pr.op[c] \in {"create", "delete"} /\ pr.on[c] = s
         \/ pr.main = s /\ pr.phase = "down" /\ pr.step = 1

\* What is there in each phase, and who has stopped at each step of the end.
PhaseInv ==
  /\ pr.phase = "start" =>
       /\ "connections" \in pr.alive
       /\ pr.step > 3 => "enginemap" \in pr.alive
       /\ pr.step > 4 => "buckets" \in pr.alive
       /\ pr.step > 5 => "sasl" \in pr.alive
       /\ pr.step > 8 => "threads" \in pr.alive
       /\ pr.step > 9 => "executors" \in pr.alive
  /\ pr.phase \in {"check", "enter", "loop"} => pr.step = 1 /\ Base \subseteq pr.alive
  /\ pr.phase = "down" =>
       /\ pr.step <= 6 => Base \subseteq pr.alive
       /\ pr.step > 4 => pr.worker = "stopped"
       /\ pr.step > 5 => \A c \in ClientConns : pr.op[c] = "none"
       /\ pr.step > 6 => \A s \in Slots : pr.slot[s] = "None"
  /\ pr.phase = "ended" => pr.worker = "stopped" /\ \A s \in Slots : pr.slot[s] = "None"

ProcessIInv ==
  ProcessTypes /\ ClientInv /\ (pr.phase # "exited" => TaskInv /\ PhaseInv)

-----------------------------------------------------------------------------
(* Steps that leave clients, buckets and the worker alone.                 *)

\* The fields that the invariant is about, except for the phase, the step and
\* what is alive.
SameUsers ==
  /\ pr'.worker = pr.worker /\ pr'.client = pr.client /\ pr'.bucket = pr.bucket
  /\ pr'.slot = pr.slot /\ pr'.main = pr.main /\ pr'.op = pr.op /\ pr'.on = pr.on

\* Requests to shut down, and what ends the process at once.
LEMMA RequestKeeps ==
  ASSUME ProcessIInv, SameUsers, DOMAIN pr' = Fields, pr'.step = pr.step,
         pr'.alive = pr.alive, pr'.phase \in {pr.phase, "exited"}, pr.shutdown => pr'.shutdown
  PROVE  ProcessIInv'
<1> USE DEF ProcessIInv, SameUsers
<1>1. ProcessTypes'
  BY Zenon DEF ProcessTypes
<1>2. ClientInv'
  BY DEF ClientInv
<1>3. ASSUME pr'.phase # "exited" PROVE TaskInv' /\ PhaseInv'
  BY <1>3 DEF TaskInv, PhaseInv
<1>4. QED
  BY Zenon, <1>1, <1>2, <1>3

LEMMA AskedKeeps ==
  ASSUME ProcessIInv,
         check_stdin_thread \/ Signal \/ sigterm_handler \/ ParentMonitor
  PROVE  ProcessIInv'
<1> USE DEF ProcessIInv, ProcessTypes, Fields
<1>1. /\ SameUsers /\ DOMAIN pr' = Fields /\ pr'.step = pr.step /\ pr'.alive = pr.alive
      /\ pr'.phase \in {pr.phase, "exited"}
  <2>1. CASE check_stdin_thread
    <3>1. ASSUME pr' = [ShutDown(pr) EXCEPT !.stdin = "asked"]
          PROVE  /\ SameUsers /\ DOMAIN pr' = Fields /\ pr'.step = pr.step
                 /\ pr'.alive = pr.alive /\ pr'.phase \in {pr.phase, "exited"}
      BY Zenon, <3>1 DEF ShutDown, SameUsers
    <3>2. ASSUME pr' = [pr EXCEPT !.stdin = "waits"] \/ pr' = [pr EXCEPT !.phase = "exited"]
          PROVE  /\ SameUsers /\ DOMAIN pr' = Fields /\ pr'.step = pr.step
                 /\ pr'.alive = pr.alive /\ pr'.phase \in {pr.phase, "exited"}
      BY <3>2 DEF SameUsers
    <3>3. QED
      BY <2>1, <3>1, <3>2, Zenon DEF check_stdin_thread
  <2>2. CASE Signal \/ sigterm_handler
    BY ZenonT(40), <2>2 DEF Signal, sigterm_handler, ShutDown, SameUsers
  <2>3. CASE ParentMonitor
    BY <2>3 DEF ParentMonitor, SameUsers
  <2>4. QED
    BY Zenon, <2>1, <2>2, <2>3
<1>2. pr.shutdown => pr'.shutdown
  <2>1. pr'.shutdown = pr.shutdown \/ pr'.shutdown = TRUE
    BY Zenon DEF check_stdin_thread, Signal, sigterm_handler, ParentMonitor, ShutDown
  <2>2. QED
    BY ONLY <2>1, Zenon
<1>3. QED
  BY Zenon, <1>1, <1>2, RequestKeeps

-----------------------------------------------------------------------------
(* The main thread up to its event loop.                                   *)

LEMMA StartUpSteps ==
  /\ Len(StartUp) = 13
  /\ StartUp[3] = "enginemap" /\ StartUp[4] = "buckets" /\ StartUp[5] = "sasl"
  /\ StartUp[8] = "threads" /\ StartUp[9] = "executors" /\ StartUp[13] = "monitor"
BY Zenon DEF StartUp

LEMMA TearDownSteps ==
  /\ Len(TearDown) = 13
  /\ TearDown[1] = "ready buckets" /\ TearDown[2] = "monitor" /\ TearDown[3] = "audit"
  /\ TearDown[4] = "workers" /\ TearDown[5] = "sockets" /\ TearDown[6] = "buckets"
  /\ \A i \in 7 .. 13 :
       TearDown[i] \notin {"ready buckets", "workers", "sockets", "buckets"}
BY DEF TearDown

\* The step of a record that is like pr in all the other fields.
LEMMA SteppedFields ==
  ASSUME NEW r, DOMAIN r = Fields, r.step \in 1 .. 13, NEW steps, Len(steps) = 13, NEW phase,
         NEW q, q = Stepped(r, steps, phase)
  PROVE  /\ DOMAIN q = Fields
         /\ r.step = 13 => q.step = 1 /\ q.phase = phase
         /\ r.step # 13 => q.step = r.step + 1 /\ q.phase = r.phase
         /\ q.alive = r.alive /\ q.worker = r.worker /\ q.client = r.client
         /\ q.bucket = r.bucket /\ q.slot = r.slot /\ q.main = r.main
         /\ q.op = r.op /\ q.on = r.on /\ q.shutdown = r.shutdown
<1>1. CASE r.step = 13
  <2>1. q = [r EXCEPT !.step = 1, !.phase = phase]
    BY Zenon, <1>1 DEF Stepped
  <2>2. QED
    BY <1>1, <2>1 DEF Fields
<1>2. CASE r.step # 13
  <2>1. q = [r EXCEPT !.step = r.step + 1]
    BY Zenon, <1>2 DEF Stepped
  <2>2. QED
    BY Zenon, <1>2, <2>1 DEF Fields
<1>3. QED
  BY Zenon, <1>1, <1>2

LEMMA MakesFields ==
  ASSUME DOMAIN pr = Fields, NEW what, NEW q, q = Makes(pr, what)
  PROVE  /\ DOMAIN q = Fields /\ q.phase = pr.phase /\ q.step = pr.step
         /\ q.alive = pr.alive \cup {what} /\ q.worker \in {pr.worker, "running"}
         /\ q.client = pr.client /\ q.bucket = pr.bucket /\ q.slot = pr.slot
         /\ q.main = pr.main /\ q.op = pr.op /\ q.on = pr.on /\ q.shutdown = pr.shutdown
BY Zenon DEF Makes, Fields

LEMMA StartsKeeps ==
  ASSUME ProcessIInv, Starts
  PROVE  ProcessIInv'
<1> USE DEF ProcessIInv
<1>0. ProcessTypes /\ pr.phase = "start" /\ ClientInv /\ TaskInv /\ PhaseInv
  BY Zenon DEF Starts
<1> DEFINE what == StartUp[pr.step]
<1>1. CASE pr' = [pr EXCEPT !.phase = "exited"]
  <2>1. /\ SameUsers /\ DOMAIN pr' = Fields /\ pr'.step = pr.step /\ pr'.alive = pr.alive
        /\ pr'.phase \in {pr.phase, "exited"} /\ pr'.shutdown = pr.shutdown
    BY Zenon, <1>0, <1>1 DEF ProcessTypes, Fields, SameUsers
  <2>2. QED
    BY Zenon, <2>1, RequestKeeps
<1>2. ASSUME NEW r, DOMAIN r = Fields, r.phase = pr.phase, r.step = pr.step,
             pr.alive \subseteq r.alive, what # "monitor" => what \in r.alive,
             r.worker \in {pr.worker, "running"}, r.client = pr.client,
             r.bucket = pr.bucket, r.slot = pr.slot, r.main = pr.main,
             r.op = pr.op, r.on = pr.on, r.shutdown = pr.shutdown, pr' = Stepped(r, StartUp, "check")
      PROVE  ProcessIInv'
  <2>1. /\ DOMAIN pr' = Fields
        /\ pr.step = 13 => pr'.step = 1 /\ pr'.phase = "check"
        /\ pr.step # 13 => pr'.step = pr.step + 1 /\ pr'.phase = pr.phase
        /\ pr'.alive = r.alive /\ pr'.worker = r.worker /\ pr'.client = pr.client
        /\ pr'.bucket = pr.bucket /\ pr'.slot = pr.slot /\ pr'.main = pr.main
        /\ pr'.op = pr.op /\ pr'.on = pr.on /\ pr'.shutdown = pr.shutdown
    BY <1>0, <1>2, SteppedFields, StartUpSteps DEF ProcessTypes
  <2>2. ProcessTypes'
    BY <1>0, <2>1 DEF ProcessTypes
  <2>3. ClientInv'
    BY <1>0, <1>2, <2>1 DEF ClientInv
  <2>4. TaskInv'
    BY SMTT(30), <1>0, <2>1 DEF TaskInv
  <2>5. PhaseInv'
    BY <1>0, <1>2, <2>1, StartUpSteps DEF PhaseInv, ProcessTypes, Base
  <2>6. QED
    BY Zenon, <2>2, <2>3, <2>4, <2>5
<1>3. CASE what = "monitor" /\ pr' = Stepped(pr, StartUp, "check")
  BY Zenon, <1>0, <1>2, <1>3 DEF ProcessTypes
<1>4. CASE pr' = Stepped(Makes(pr, what), StartUp, "check")
  <2>1. DOMAIN pr = Fields
    BY Zenon, <1>0 DEF ProcessTypes
  <2>2. QED
    BY Zenon, <1>2, <1>4, <2>1, MakesFields
<1>5. QED
  BY Zenon, <1>1, <1>3, <1>4 DEF Starts

\* The tests around the event loop.
LEMMA LoopKeeps ==
  ASSUME ProcessIInv, ChecksShutdown \/ EntersLoop \/ LeavesLoop
  PROVE  ProcessIInv'
<1> USE DEF ProcessIInv
<1>1. /\ SameUsers /\ DOMAIN pr' = Fields /\ pr'.step = pr.step /\ pr'.alive = pr.alive
      /\ pr'.shutdown = pr.shutdown /\ pr'.phase \in {"enter", "loop", "down"}
      /\ pr.phase \in {"check", "enter", "loop"}
  <2>1. CASE ChecksShutdown
    BY Zenon, <2>1 DEF ChecksShutdown, GoesDown, ProcessTypes, Fields, SameUsers
  <2>2. CASE EntersLoop
    BY Zenon, <2>2 DEF EntersLoop, ProcessTypes, Fields, SameUsers
  <2>3. CASE LeavesLoop
    BY Zenon, <2>3 DEF LeavesLoop, GoesDown, ProcessTypes, Fields, SameUsers
  <2>4. QED
    BY Zenon, <2>1, <2>2, <2>3
<1>2. ProcessTypes'
  BY Zenon, <1>1 DEF ProcessTypes, SameUsers
<1>3. ClientInv'
  BY <1>1 DEF ClientInv, SameUsers
<1>4. TaskInv'
  BY SMTT(30), <1>1 DEF TaskInv, SameUsers
<1>5. PhaseInv'
  BY <1>1 DEF PhaseInv, SameUsers
<1>6. QED
  BY Zenon, <1>2, <1>3, <1>4, <1>5

-----------------------------------------------------------------------------
(* Clients and the worker thread.                                          *)

\* A step of the running worker: the main thread is not past waiting for it.
LEMMA ServedKeeps ==
  ASSUME ProcessIInv, pr.phase # "exited", pr.worker = "running", pr'.worker = "running",
         pr'.phase = pr.phase, pr'.step = pr.step, pr'.alive = pr.alive,
         ProcessTypes', ClientInv', TaskInv'
  PROVE  ProcessIInv'
<1>1. PhaseInv /\ pr.step \in 1 .. 13
  BY Zenon DEF ProcessIInv, ProcessTypes
<1>2. pr'.phase # "ended" /\ (pr'.phase = "down" => pr'.step <= 4)
  BY <1>1 DEF PhaseInv
<1>3. PhaseInv'
  BY <1>1, <1>2 DEF PhaseInv
<1>4. QED
  BY Zenon, <1>3 DEF ProcessIInv

LEMMA AcceptKeeps ==
  ASSUME ProcessIInv, NEW c \in ClientConns, listen_event_handler(c)
  PROVE  ProcessIInv'
<1> USE DEF ProcessIInv
<1>0. pr.phase = "loop" /\ pr.client[c] = "away" /\ ProcessTypes /\ ClientInv /\ TaskInv /\ PhaseInv
  BY Zenon DEF listen_event_handler
<1>1. CASE pr.shutdown
  <2>1. pr' = [pr EXCEPT !.brk = TRUE]
    BY Zenon, <1>1 DEF listen_event_handler
  <2>2. /\ SameUsers /\ DOMAIN pr' = Fields /\ pr'.step = pr.step /\ pr'.alive = pr.alive
        /\ pr'.phase = pr.phase /\ pr'.shutdown = pr.shutdown
    BY Zenon, <1>0, <2>1 DEF ProcessTypes, Fields, SameUsers
  <2>3. QED
    BY Zenon, <2>2, RequestKeeps
<1>2. CASE ~ pr.shutdown
  <2>1. pr' = [pr EXCEPT !.client[c] = "idle"]
    BY Zenon, <1>2 DEF listen_event_handler
  <2>2. /\ DOMAIN pr' = Fields /\ pr'.step = pr.step /\ pr'.alive = pr.alive
        /\ pr'.phase = pr.phase /\ pr'.shutdown = pr.shutdown /\ pr'.worker = pr.worker
        /\ pr'.bucket = pr.bucket /\ pr'.slot = pr.slot /\ pr'.main = pr.main
        /\ pr'.op = pr.op /\ pr'.on = pr.on /\ pr'.client = [pr.client EXCEPT ![c] = "idle"]
    BY Zenon, <1>0, <2>1 DEF ProcessTypes, Fields
  <2>3. ProcessTypes'
    BY Zenon, <1>0, <2>2 DEF ProcessTypes
  <2>4. ClientInv'
    BY SMTT(30), <1>0, <1>2, <2>2 DEF ProcessTypes, ClientInv
  <2>5. TaskInv' /\ PhaseInv'
    BY SMTT(30), <1>0, <2>2 DEF TaskInv, PhaseInv
  <2>6. QED
    BY Zenon, <2>3, <2>4, <2>5
<1>3. QED
  BY Zenon, <1>1, <1>2

\* A client is served, or closed: it is in the bucket only if it was, or if the
\* bucket is ready, and it leaves the bucket when it is closed.
LEMMA ClientKeeps ==
  ASSUME ProcessIInv, ProcessUp, pr.worker = "running", NEW c \in ClientConns, NEW state, NEW b,
         b # NoSlot => /\ state \notin {"away", "closed"} /\ b \in Slots
                       /\ pr.slot[b] \in {"Ready", "Stopping"},
         pr.client[c] # "blocked",
         DOMAIN pr' = Fields, pr'.step = pr.step, pr'.alive = pr.alive, pr'.phase = pr.phase,
         pr'.worker = pr.worker, pr'.slot = pr.slot, pr'.main = pr.main, pr'.op = pr.op, pr'.on = pr.on,
         pr'.client = [pr.client EXCEPT ![c] = state], DOMAIN pr'.bucket = ClientConns,
         pr'.bucket[c] = b, \A d \in ClientConns \ {c} : pr'.bucket[d] = pr.bucket[d]
  PROVE  ProcessIInv'
<1>0. ProcessTypes /\ ClientInv /\ TaskInv /\ pr.phase # "exited"
  BY Zenon DEF ProcessIInv, ProcessUp
<1>1. ProcessTypes'
  BY Zenon, <1>0 DEF ProcessTypes
<1>2. ClientInv'
  BY <1>0 DEF ProcessTypes, ClientInv
<1>3. TaskInv'
  BY SMTT(30), <1>0 DEF TaskInv
<1>4. QED
  BY Zenon, <1>0, <1>1, <1>2, <1>3, ServedKeeps

LEMMA ServeKeeps ==
  ASSUME ProcessIInv, NEW c \in ClientConns,
         is_bucket_dying(c) \/ Selects(c) \/ shutdown_executor(c)
  PROVE  ProcessIInv'
<1>0. /\ ProcessUp /\ pr.worker = "running" /\ ProcessTypes /\ ClientInv
      /\ pr.client[c] \in {"idle", "command"}
      /\ pr.bucket[c] # NoSlot => /\ pr.bucket[c] \in Slots
                                  /\ pr.slot[pr.bucket[c]] \in {"Ready", "Stopping"}
  BY Zenon DEF ProcessIInv, ClientInv, is_bucket_dying, Selects, shutdown_executor, Serving
<1> DEFINE Moves(state, b) ==
        /\ b # NoSlot => /\ state \notin {"away", "closed"} /\ b \in Slots
                         /\ pr.slot[b] \in {"Ready", "Stopping"}
        /\ DOMAIN pr' = Fields /\ pr'.step = pr.step /\ pr'.alive = pr.alive
        /\ pr'.phase = pr.phase /\ pr'.worker = pr.worker /\ pr'.slot = pr.slot
        /\ pr'.main = pr.main /\ pr'.op = pr.op /\ pr'.on = pr.on
        /\ pr'.client = [pr.client EXCEPT ![c] = state]
        /\ DOMAIN pr'.bucket = ClientConns /\ pr'.bucket[c] = b
        /\ \A d \in ClientConns \ {c} : pr'.bucket[d] = pr.bucket[d]
<1>1. \E state, b : Moves(state, b)
  <2>1. ASSUME pr' = [pr EXCEPT !.client[c] = "closed", !.bucket[c] = NoSlot]
        PROVE  Moves("closed", NoSlot)
    BY SMTT(30), <1>0, <2>1 DEF ProcessTypes, Fields
  <2>2. ASSUME pr' = [pr EXCEPT !.client[c] = "command"]
        PROVE  Moves("command", pr.bucket[c])
    BY Zenon, <1>0, <2>2 DEF ProcessTypes, Fields
  <2>3. ASSUME Selects(c)
        PROVE  \E b : Moves("idle", b)
    <3>1. PICK b \in {pr.bucket[c]} \cup {s \in Slots : pr.slot[s] = "Ready"} :
            pr' = [pr EXCEPT !.client[c] = "idle", !.bucket[c] = b]
      BY Zenon, <2>3 DEF Selects
    <3>2. Moves("idle", b)
      BY SMTT(30), <1>0, <3>1 DEF ProcessTypes, Fields
    <3> HIDE DEF Moves
    <3>3. QED
      BY Zenon, <3>2
  <2>4. ASSUME shutdown_executor(c)
        PROVE  Moves("idle", pr.bucket[c])
    BY Zenon, <1>0, <2>4 DEF ProcessTypes, Fields, shutdown_executor, ShutDown
  <2> HIDE DEF Moves
  <2>5. QED
    BY Zenon, <2>1, <2>2, <2>3, <2>4 DEF is_bucket_dying
<1>2. QED
  BY <1>0, <1>1, ClientKeeps

LEMMA SignalsIdleKeeps ==
  ASSUME ProcessIInv, SignalsIdle
  PROVE  ProcessIInv'
<1>1. PICK c \in ClientConns : /\ pr' = [pr EXCEPT !.client[c] = "closed", !.bucket[c] = NoSlot]
                               /\ pr.client[c] = "idle"
  <2>1. PICK c \in Leaves(pr) : pr' = [pr EXCEPT !.client[c] = "closed", !.bucket[c] = NoSlot]
    BY Zenon DEF SignalsIdle
  <2>2. c \in ClientConns /\ pr.client[c] = "idle"
    BY Zenon DEF Leaves
  <2>3. QED
    BY Zenon, <2>1, <2>2
<1>2. ProcessUp /\ pr.worker = "running" /\ ProcessTypes
  BY Zenon DEF SignalsIdle, ProcessIInv
<1>3. /\ DOMAIN pr' = Fields /\ pr'.step = pr.step /\ pr'.alive = pr.alive
      /\ pr'.phase = pr.phase /\ pr'.worker = pr.worker /\ pr'.slot = pr.slot
      /\ pr'.main = pr.main /\ pr'.op = pr.op /\ pr'.on = pr.on
      /\ pr'.client = [pr.client EXCEPT ![c] = "closed"]
      /\ DOMAIN pr'.bucket = ClientConns /\ pr'.bucket[c] = NoSlot
      /\ \A d \in ClientConns \ {c} : pr'.bucket[d] = pr.bucket[d]
  BY Zenon, <1>1, <1>2 DEF ProcessTypes, Fields
<1>4. QED
  BY <1>1, <1>2, <1>3, ClientKeeps

LEMMA BlocksKeeps ==
  ASSUME ProcessIInv, NEW c \in ClientConns, CreatesBucket(c) \/ DeletesBucket(c)
  PROVE  ProcessIInv'
<1>0. /\ pr.phase # "exited" /\ pr.worker = "running" /\ ProcessTypes /\ ClientInv /\ TaskInv
      /\ pr.client[c] = "command" /\ pr.op[c] = "none"
  BY Zenon DEF ProcessIInv, ClientInv, CreatesBucket, DeletesBucket, Serving, ProcessUp
<1>1. PICK s \in Slots, op \in {"create", "delete"}, state \in {"Creating", "Stopping"} :
        /\ BlockedOn(c, op, s, state)
        /\ \/ op = "create" /\ state = "Creating" /\ pr.slot[s] = "None"
           \/ op = "delete" /\ state = "Stopping" /\ pr.slot[s] = "Ready"
  <2>1. CASE CreatesBucket(c)
    <3>1. PICK s \in FirstOf(InState(pr, "None")) : BlockedOn(c, "create", s, "Creating")
      BY Zenon, <2>1 DEF CreatesBucket
    <3>2. s \in Slots /\ pr.slot[s] = "None"
      BY Zenon DEF InState, FirstOf
    <3>3. QED
      BY Zenon, <3>1, <3>2
  <2>2. CASE DeletesBucket(c)
    <3>1. PICK s \in InState(pr, "Ready") : BlockedOn(c, "delete", s, "Stopping")
      BY Zenon, <2>2 DEF DeletesBucket
    <3>2. s \in Slots /\ pr.slot[s] = "Ready"
      BY Zenon DEF InState
    <3>3. QED
      BY Zenon, <3>1, <3>2
  <2>3. QED
    BY Zenon, <2>1, <2>2
<1>2. /\ DOMAIN pr' = Fields /\ pr'.step = pr.step /\ pr'.alive = pr.alive
      /\ pr'.phase = pr.phase /\ pr'.worker = pr.worker /\ pr'.main = pr.main
      /\ pr'.slot = [pr.slot EXCEPT ![s] = state]
      /\ pr'.op = [pr.op EXCEPT ![c] = op] /\ pr'.on = [pr.on EXCEPT ![c] = s]
      /\ pr'.client = [pr.client EXCEPT ![c] = "blocked"]
      /\ pr'.bucket = [pr.bucket EXCEPT ![c] = IF @ = s THEN NoSlot ELSE @]
  BY Zenon, <1>0, <1>1 DEF BlockedOn, ProcessTypes, Fields
<1>3. ProcessTypes'
  BY <1>0, <1>1, <1>2 DEF ProcessTypes
<1>4. ClientInv'
  <2>1. ASSUME NEW d \in ClientConns, pr'.bucket[d] # NoSlot
        PROVE  /\ pr'.client[d] \notin {"away", "closed"} /\ pr'.bucket[d] \in Slots
               /\ pr'.slot[pr'.bucket[d]] \in {"Ready", "Stopping"}
    BY SMTT(30), <1>0, <1>1, <1>2, <2>1 DEF ProcessTypes, ClientInv
  <2>2. \A d \in ClientConns : pr'.op[d] # "none" => pr'.client[d] = "blocked"
    BY <1>0, <1>2 DEF ProcessTypes, ClientInv
  <2>3. pr'.worker = "running"
    BY Zenon, <1>0, <1>2
  <2>4. QED
    BY Zenon, <2>1, <2>2, <2>3 DEF ClientInv
<1>5. TaskInv'
  <2>1. op \in {"create", "delete"}
    BY Zenon, <1>1
  <2>2. \A d \in ClientConns : pr.op[d] # "none" => pr'.op[d] = pr.op[d] /\ pr'.on[d] = pr.on[d]
    BY Zenon, <1>0, <1>2 DEF ProcessTypes
  <2>3. pr'.op[c] \in {"create", "delete"} /\ pr'.on[c] = s
    BY Zenon, <1>0, <1>2, <2>1 DEF ProcessTypes
  <2>4. \A u \in Slots \ {s} : pr'.slot[u] = pr.slot[u]
    BY Zenon, <1>0, <1>2 DEF ProcessTypes
  <2>5. QED
    BY <1>0, <1>2, <2>2, <2>3, <2>4 DEF TaskInv
<1>6. QED
  BY Zenon, <1>0, <1>2, <1>3, <1>4, <1>5, ServedKeeps

LEMMA StopsWorkerKeeps ==
  ASSUME ProcessIInv, StopsWorker
  PROVE  ProcessIInv'
<1>0. /\ pr.phase # "exited" /\ ProcessTypes /\ ClientInv /\ TaskInv /\ PhaseInv
      /\ pr.shutdown /\ Connected(pr) = {} /\ pr' = [pr EXCEPT !.worker = "stopped"]
  BY Zenon DEF ProcessIInv, StopsWorker, ProcessUp
<1>1. /\ DOMAIN pr' = Fields /\ pr'.step = pr.step /\ pr'.alive = pr.alive
      /\ pr'.phase = pr.phase /\ pr'.shutdown = pr.shutdown /\ pr'.worker = "stopped"
      /\ pr'.bucket = pr.bucket /\ pr'.slot = pr.slot /\ pr'.main = pr.main
      /\ pr'.op = pr.op /\ pr'.on = pr.on /\ pr'.client = pr.client
  BY Zenon, <1>0 DEF ProcessTypes, Fields
<1>2. ProcessTypes'
  BY Zenon, <1>0, <1>1 DEF ProcessTypes
<1>3. ClientInv'
  BY <1>0, <1>1 DEF ClientInv, Connected
<1>4. TaskInv' /\ PhaseInv'
  BY <1>0, <1>1 DEF TaskInv, PhaseInv
<1>5. QED
  BY Zenon, <1>2, <1>3, <1>4 DEF ProcessIInv

-----------------------------------------------------------------------------
(* The bucket threads and the executor.                                    *)

\* The task of a slot that is settled is done, those of other slots go on.
LEMMA RunnableTasks ==
  ASSUME ProcessTypes, NEW s \in Slots, pr'.op = MadeRunnable(pr, s), pr'.on = pr.on
  PROVE  /\ DOMAIN pr'.op = ClientConns
         /\ \A c \in ClientConns : /\ pr'.op[c] # "none" <=> pr.op[c] # "none"
                                   /\ pr'.on[c] = pr.on[c]
                                   /\ pr.on[c] # s => pr'.op[c] = pr.op[c]
BY Zenon DEF MadeRunnable, ProcessTypes

LEMMA BucketThreadKeeps ==
  ASSUME ProcessIInv, NEW s \in Slots, BucketThread(s)
  PROVE  ProcessIInv'
<1>0. pr.phase # "exited" /\ ProcessTypes /\ ClientInv /\ TaskInv /\ PhaseInv
  BY Zenon DEF ProcessIInv, BucketThread, ProcessUp
<1>1. PICK state \in {"Ready", "None"} :
        /\ DOMAIN pr' = Fields /\ pr'.step = pr.step /\ pr'.alive = pr.alive
        /\ pr'.phase = pr.phase /\ pr'.shutdown = pr.shutdown /\ pr'.worker = pr.worker
        /\ pr'.bucket = pr.bucket /\ pr'.slot = [pr.slot EXCEPT ![s] = state]
        /\ pr'.client = pr.client /\ pr'.on = pr.on /\ pr'.op = MadeRunnable(pr, s)
        /\ pr'.main \in {pr.main, IF pr.main = s THEN NoSlot ELSE pr.main}
        /\ pr.slot[s] \in {"Creating", "Stopping"}
        /\ pr.slot[s] = "Stopping" => \A c \in Connected(pr) : pr.bucket[c] # s
  <2>1. ASSUME NEW state \in {"Ready", "None"},
               pr' = [pr EXCEPT !.slot[s] = state, !.op = MadeRunnable(pr, s)]
        PROVE  /\ DOMAIN pr' = Fields /\ pr'.step = pr.step /\ pr'.alive = pr.alive
               /\ pr'.phase = pr.phase /\ pr'.shutdown = pr.shutdown /\ pr'.worker = pr.worker
               /\ pr'.bucket = pr.bucket /\ pr'.slot = [pr.slot EXCEPT ![s] = state]
               /\ pr'.client = pr.client /\ pr'.on = pr.on /\ pr'.op = MadeRunnable(pr, s)
               /\ pr'.main = pr.main
    BY Zenon, <1>0, <2>1 DEF ProcessTypes, Fields
  <2>2. ASSUME pr' = [pr EXCEPT !.slot[s] = "None", !.op = MadeRunnable(pr, s),
                                !.main = IF @ = s THEN NoSlot ELSE @]
        PROVE  /\ DOMAIN pr' = Fields /\ pr'.step = pr.step /\ pr'.alive = pr.alive
               /\ pr'.phase = pr.phase /\ pr'.shutdown = pr.shutdown /\ pr'.worker = pr.worker
               /\ pr'.bucket = pr.bucket /\ pr'.slot = [pr.slot EXCEPT ![s] = "None"]
               /\ pr'.client = pr.client /\ pr'.on = pr.on /\ pr'.op = MadeRunnable(pr, s)
               /\ pr'.main = IF pr.main = s THEN NoSlot ELSE pr.main
    BY Zenon, <1>0, <2>2 DEF ProcessTypes, Fields
  <2>3. CASE /\ pr.slot[s] = "Creating"
             /\ \E state \in {"Ready", "None"} :
                  pr' = [pr EXCEPT !.slot[s] = state, !.op = MadeRunnable(pr, s)]
    BY Zenon, <2>1, <2>3
  <2>4. CASE /\ pr.slot[s] = "Stopping" /\ \A c \in Connected(pr) : pr.bucket[c] # s
             /\ pr' = [pr EXCEPT !.slot[s] = "None", !.op = MadeRunnable(pr, s),
                                 !.main = IF @ = s THEN NoSlot ELSE @]
    BY Zenon, <2>2, <2>4
  <2>5. QED
    BY Zenon, <2>3, <2>4 DEF BucketThread
<1>2. /\ DOMAIN pr'.op = ClientConns
      /\ \A c \in ClientConns : /\ pr'.op[c] # "none" <=> pr.op[c] # "none"
                                /\ pr'.on[c] = pr.on[c]
                                /\ pr.on[c] # s => pr'.op[c] = pr.op[c]
  BY Zenon, <1>0, <1>1, RunnableTasks
<1>3. /\ DOMAIN pr'.slot = Slots /\ pr'.slot[s] = state
      /\ \A u \in Slots \ {s} : pr'.slot[u] = pr.slot[u]
  BY Zenon, <1>0, <1>1 DEF ProcessTypes
<1>4. ProcessTypes'
  BY Zenon, <1>0, <1>1, <1>2, <1>3 DEF ProcessTypes
<1>5. ClientInv'
  <2>1. \A c \in ClientConns : pr.bucket[c] # s \/ pr.bucket[c] = NoSlot
    BY Zenon, <1>0, <1>1 DEF ClientInv, Connected
  <2>2. ASSUME NEW c \in ClientConns, pr'.bucket[c] # NoSlot
        PROVE  /\ pr'.client[c] \notin {"away", "closed"} /\ pr'.bucket[c] \in Slots
               /\ pr'.slot[pr'.bucket[c]] \in {"Ready", "Stopping"}
    <3>1. /\ pr.bucket[c] # NoSlot /\ pr.client[c] \notin {"away", "closed"}
          /\ pr.bucket[c] \in Slots \ {s} /\ pr.slot[pr.bucket[c]] \in {"Ready", "Stopping"}
      BY SMTT(30), <1>0, <1>1, <2>1, <2>2 DEF ClientInv
    <3>2. pr'.slot[pr.bucket[c]] = pr.slot[pr.bucket[c]]
      BY Zenon, <1>3, <3>1
    <3>3. QED
      BY Zenon, <1>1, <3>1, <3>2
  <2>3. \A c \in ClientConns : pr'.op[c] # "none" => pr'.client[c] = "blocked"
    BY SMTT(30), <1>0, <1>1, <1>2 DEF ClientInv
  <2>4. pr'.worker = "stopped" => /\ pr'.shutdown
                                  /\ \A c \in ClientConns : pr'.client[c] \in {"away", "closed"}
    BY Zenon, <1>0, <1>1 DEF ClientInv
  <2>5. QED
    BY Zenon, <2>2, <2>3, <2>4 DEF ClientInv
<1>6. TaskInv'
  <2>1. ASSUME NEW u \in Slots \ {s} PROVE pr'.main = u <=> pr.main = u
    BY <1>1, SlotsAssumption DEF NoSlot
  <2>2. ASSUME NEW u \in Slots \ {s}, NEW c \in ClientConns,
               pr.op[c] \in {"create", "delete"}, pr.on[c] = u
        PROVE  pr'.op[c] \in {"create", "delete"} /\ pr'.on[c] = u
    BY SMTT(30), <1>2, <2>2
  <2>3. pr'.slot[s] \notin {"Creating", "Stopping"}
    BY Zenon, <1>3
  <2>4. ASSUME NEW u \in Slots \ {s}
        PROVE  /\ pr'.slot[u] = "Creating" =>
                    \E c \in ClientConns : pr'.op[c] \in {"create", "delete"} /\ pr'.on[c] = u
               /\ pr'.slot[u] = "Stopping" =>
                    \/ \E c \in ClientConns : pr'.op[c] \in {"create", "delete"} /\ pr'.on[c] = u
                    \/ pr'.main = u /\ pr'.phase = "down" /\ pr'.step = 1
    BY SMTT(30), <1>0, <1>1, <1>3, <2>1, <2>2 DEF TaskInv
  <2>5. QED
    BY Zenon, <2>3, <2>4 DEF TaskInv
<1>7. pr.phase # "ended" /\ (pr.phase = "down" => pr.step <= 5)
  <2>1. pr.phase # "ended" /\ (pr.phase = "down" => ~ (pr.step > 6))
    BY Zenon, <1>0, <1>1 DEF PhaseInv
  <2>2. \/ \E c \in ClientConns : pr.op[c] # "none"
        \/ pr.phase = "down" /\ pr.step = 1
    BY Zenon, <1>0, <1>1 DEF TaskInv
  <2>3. pr.phase = "down" => ~ (pr.step > 5)
    BY <1>0, <2>2 DEF PhaseInv
  <2>4. QED
    BY <1>0, <2>1, <2>3 DEF ProcessTypes
<1>8. PhaseInv'
  BY <1>0, <1>1, <1>7 DEF PhaseInv, ProcessTypes
<1>9. QED
  BY Zenon, <1>4, <1>5, <1>6, <1>8 DEF ProcessIInv

LEMMA ExecutesKeeps ==
  ASSUME ProcessIInv, NEW c \in ClientConns, ExecutesTask(c)
  PROVE  ProcessIInv'
<1>0. /\ pr.phase # "exited" /\ ProcessTypes /\ ClientInv /\ TaskInv /\ PhaseInv
      /\ pr.op[c] = "done" /\ pr.client[c] = "blocked"
  BY Zenon DEF ProcessIInv, ExecutesTask, ProcessUp, ClientInv
<1>1. /\ DOMAIN pr' = Fields /\ pr'.step = pr.step /\ pr'.alive = pr.alive
      /\ pr'.phase = pr.phase /\ pr'.shutdown = pr.shutdown /\ pr'.worker = pr.worker
      /\ pr'.bucket = pr.bucket /\ pr'.slot = pr.slot /\ pr'.main = pr.main
      /\ pr'.op = [pr.op EXCEPT ![c] = "none"] /\ pr'.on = [pr.on EXCEPT ![c] = NoSlot]
      /\ pr'.client = [pr.client EXCEPT ![c] = "idle"]
  BY Zenon, <1>0 DEF ExecutesTask, ProcessTypes, Fields
<1>2. ProcessTypes'
  BY Zenon, <1>0, <1>1 DEF ProcessTypes
<1>3. ClientInv'
  BY <1>0, <1>1 DEF ProcessTypes, ClientInv
<1>4. TaskInv'
  BY <1>0, <1>1 DEF ProcessTypes, TaskInv
<1>5. PhaseInv'
  BY <1>0, <1>1 DEF PhaseInv, ProcessTypes
<1>6. QED
  BY <1>2, <1>3, <1>4, <1>5 DEF ProcessIInv

-----------------------------------------------------------------------------
(* The end of the main thread.                                             *)

\* A step that releases something, and nothing the others use while they run.
LEMMA DownKeeps ==
  ASSUME ProcessIInv, pr.phase = "down", NEW r, DOMAIN r = Fields, r.phase = pr.phase,
         r.step = pr.step, pr.step <= 5 => Base \subseteq r.alive,
         r.worker = pr.worker, r.client = pr.client, r.bucket = pr.bucket,
         r.slot = pr.slot \/ (r.slot = [s \in Slots |-> "None"] /\ pr.step = 6), r.main = pr.main,
         r.op = pr.op, r.on = pr.on, r.shutdown = pr.shutdown,
         pr.step = 1 => pr.main = NoSlot, pr.step = 4 => pr.worker = "stopped",
         pr.step = 5 => \A c \in ClientConns : pr.op[c] = "none",
         pr.step = 6 => r.slot = [s \in Slots |-> "None"],
         pr' = Stepped(r, TearDown, "ended")
  PROVE  ProcessIInv'
<1>0. ProcessTypes /\ ClientInv /\ TaskInv /\ PhaseInv
  BY Zenon DEF ProcessIInv
<1>1. /\ DOMAIN pr' = Fields
      /\ pr.step = 13 => pr'.step = 1 /\ pr'.phase = "ended"
      /\ pr.step # 13 => pr'.step = pr.step + 1 /\ pr'.phase = "down"
      /\ pr'.alive = r.alive /\ pr'.worker = pr.worker /\ pr'.client = pr.client
      /\ pr'.bucket = pr.bucket /\ pr'.slot = r.slot /\ pr'.main = pr.main
      /\ pr'.op = pr.op /\ pr'.on = pr.on /\ pr'.shutdown = pr.shutdown
  <2>1. r.step \in 1 .. 13 /\ Len(TearDown) = 13
    BY Zenon, <1>0, TearDownSteps DEF ProcessTypes
  <2>2. QED
    BY <2>1, SteppedFields
<1>2. ProcessTypes'
  BY <1>0, <1>1 DEF ProcessTypes
<1>3. ClientInv'
  <2>1. CASE r.slot = pr.slot
    BY <1>0, <1>1, <2>1 DEF ClientInv
  <2>2. CASE pr.step = 6
    <3>1. \A c \in ClientConns : pr.client[c] \in {"away", "closed"}
      BY <1>0, <2>2 DEF PhaseInv, ClientInv
    <3>2. QED
      BY <1>0, <1>1, <3>1 DEF ClientInv
  <2>3. QED
    BY Zenon, <2>1, <2>2
<1>4. TaskInv'
  <2>1. CASE r.slot = pr.slot
    <3>1. ASSUME NEW s \in Slots, pr.main = s, pr.step = 1 PROVE FALSE
      BY Zenon, <3>1, SlotsAssumption DEF NoSlot
    <3>2. QED
      BY SMTT(30), <1>0, <1>1, <2>1, <3>1 DEF TaskInv
  <2>2. CASE r.slot = [s \in Slots |-> "None"]
    BY Zenon, <1>1, <2>2 DEF TaskInv
  <2>3. QED
    BY Zenon, <2>1, <2>2
<1>5. PhaseInv'
  BY <1>0, <1>1 DEF PhaseInv, ProcessTypes
<1>6. QED
  BY Zenon, <1>2, <1>3, <1>4, <1>5 DEF ProcessIInv

LEMMA TakesDownKeeps ==
  ASSUME ProcessIInv, TakesDown
  PROVE  ProcessIInv'
<1>0. /\ pr.phase = "down" /\ ProcessTypes /\ ClientInv /\ TaskInv /\ PhaseInv
      /\ DOMAIN pr = Fields /\ pr.step \in 1 .. 13
  BY Zenon DEF TakesDown, ProcessIInv, ProcessTypes
<1>1. CASE pr.step = 1
  <2>1. delete_all_buckets
    BY Zenon, <1>1, TearDownSteps DEF TakesDown
  <2>2. ASSUME NEW s \in Slots, pr.slot[s] = "Ready",
               pr' = [pr EXCEPT !.slot[s] = "Stopping", !.main = s], pr.main = NoSlot
        PROVE  ProcessIInv'
    <3>1. /\ DOMAIN pr' = Fields /\ pr'.step = pr.step /\ pr'.alive = pr.alive
          /\ pr'.phase = pr.phase /\ pr'.shutdown = pr.shutdown /\ pr'.worker = pr.worker
          /\ pr'.bucket = pr.bucket /\ pr'.main = s /\ pr'.op = pr.op /\ pr'.on = pr.on
          /\ pr'.client = pr.client /\ pr'.slot = [pr.slot EXCEPT ![s] = "Stopping"]
      BY Zenon, <1>0, <2>2 DEF Fields
    <3>2. /\ DOMAIN pr'.slot = Slots /\ pr'.slot[s] = "Stopping"
          /\ \A u \in Slots \ {s} : pr'.slot[u] = pr.slot[u]
      BY Zenon, <1>0, <3>1 DEF ProcessTypes
    <3>3. ProcessTypes'
      BY Zenon, <1>0, <3>1, <3>2 DEF ProcessTypes
    <3>4. ClientInv'
      BY SMTT(30), <1>0, <3>1, <3>2 DEF ClientInv
    <3>5. TaskInv'
      <4>1. \A u \in Slots : pr.main # u
        BY Zenon, <2>2, SlotsAssumption DEF NoSlot
      <4>2. QED
        BY SMTT(30), <1>0, <1>1, <3>1, <3>2, <4>1 DEF TaskInv
    <3>6. PhaseInv'
      BY <1>0, <1>1, <3>1 DEF PhaseInv
    <3>7. QED
      BY Zenon, <3>3, <3>4, <3>5, <3>6 DEF ProcessIInv
  <2>3. ASSUME pr.main = NoSlot, pr' = Stepped(pr, TearDown, "ended")
        PROVE  ProcessIInv'
    <3>1. pr.step <= 5 => Base \subseteq pr.alive
      BY <1>0, <1>1 DEF PhaseInv
    <3>2. QED
      BY <1>0, <1>1, <2>3, <3>1, DownKeeps
  <2>4. QED
    BY Zenon, <2>1, <2>2, <2>3 DEF delete_all_buckets, FirstOf, InState
<1>2. CASE pr.step = 6
  <2>1. cleanup_buckets
    BY Zenon, <1>2, TearDownSteps DEF TakesDown
  <2>2. PICK r : /\ r = [pr EXCEPT !.alive = @ \ {"buckets"}, !.slot = [s \in Slots |-> "None"]]
                 /\ pr' = Stepped(r, TearDown, "ended")
    BY Zenon, <2>1 DEF cleanup_buckets
  <2>3. /\ DOMAIN r = Fields /\ r.phase = pr.phase /\ r.step = pr.step /\ r.worker = pr.worker
        /\ r.client = pr.client /\ r.bucket = pr.bucket /\ r.slot = [s \in Slots |-> "None"]
        /\ r.main = pr.main /\ r.op = pr.op /\ r.on = pr.on /\ r.shutdown = pr.shutdown
    BY Zenon, <1>0, <2>2 DEF Fields
  <2>4. /\ pr.step <= 5 => Base \subseteq r.alive
        /\ pr.step = 1 => pr.main = NoSlot
        /\ pr.step = 4 => pr.worker = "stopped"
        /\ pr.step = 5 => \A c \in ClientConns : pr.op[c] = "none"
    BY <1>2
  <2>5. pr.phase = "down" /\ pr' = Stepped(r, TearDown, "ended")
    BY Zenon, <1>0, <2>2
  <2>6. QED
    BY ONLY Zenon, ProcessIInv, <1>2, <2>3, <2>4, <2>5, DownKeeps
<1>3. CASE pr.step \notin {1, 6}
  <2> DEFINE what == TearDown[pr.step]
  <2>1. /\ Releases(what)
        /\ pr.step = 4 => pr.worker = "stopped"
        /\ pr.step = 5 => \A c \in ClientConns : pr.op[c] = "none"
        /\ pr.step <= 5 => what \notin Base
    <3>1. CASE pr.step = 2
      BY Zenon, <3>1, TearDownSteps DEF TakesDown, Base
    <3>2. CASE pr.step = 3
      BY Zenon, <3>2, TearDownSteps DEF TakesDown, Base
    <3>3. CASE pr.step = 4
      BY Zenon, <3>3, TearDownSteps DEF TakesDown, Base
    <3>4. CASE pr.step = 5
      BY Zenon, <3>4, TearDownSteps DEF TakesDown, Base
    <3>5. CASE pr.step \in 7 .. 13
      <4>1. what \notin {"ready buckets", "workers", "sockets", "buckets"}
        BY Zenon, <3>5, TearDownSteps
      <4>2. Releases(what)
        BY Zenon, <4>1 DEF TakesDown
      <4>3. QED
        BY <3>5, <4>2
    <3>6. QED
      BY <1>0, <1>3, <3>1, <3>2, <3>3, <3>4, <3>5
  <2>2. PICK r : r = [pr EXCEPT !.alive = @ \ {what}] /\ pr' = Stepped(r, TearDown, "ended")
    BY Zenon, <2>1 DEF Releases
  <2>3. /\ DOMAIN r = Fields /\ r.phase = pr.phase /\ r.step = pr.step /\ r.worker = pr.worker
        /\ r.client = pr.client /\ r.bucket = pr.bucket /\ r.slot = pr.slot
        /\ r.main = pr.main /\ r.op = pr.op /\ r.on = pr.on /\ r.shutdown = pr.shutdown
        /\ r.alive = pr.alive \ {what}
    BY Zenon, <1>0, <2>2 DEF Fields
  <2>4. pr.step <= 5 => Base \subseteq r.alive
    BY <1>0, <2>1, <2>3 DEF PhaseInv
  <2>5. QED
    BY Zenon, <1>0, <1>3, <2>1, <2>2, <2>3, <2>4, DownKeeps
<1>4. QED
  BY Zenon, <1>1, <1>2, <1>3

-----------------------------------------------------------------------------
(* The theorem.                                                            *)

LEMMA ProcessStarts == ProcessInit => ProcessIInv
<1> SUFFICES ASSUME ProcessInit PROVE ProcessIInv
  OBVIOUS
<1>1. ProcessTypes
  BY DEF ProcessInit, ProcessTypes, Fields
<1>2. ClientInv
  BY DEF ProcessInit, ClientInv
<1>3. TaskInv /\ PhaseInv
  BY DEF ProcessInit, TaskInv, PhaseInv
<1>4. QED
  BY Zenon, <1>1, <1>2, <1>3 DEF ProcessIInv

LEMMA ProcessStep == ProcessIInv /\ [ProcessNext]_pr => ProcessIInv'
<1> SUFFICES ASSUME ProcessIInv, [ProcessNext]_pr PROVE ProcessIInv'
  BY Zenon
<1>1. CASE memcached_main
  BY Zenon, <1>1, StartsKeeps, LoopKeeps, TakesDownKeeps DEF memcached_main
<1>2. CASE check_stdin_thread \/ Signal \/ sigterm_handler \/ ParentMonitor
  BY Zenon, <1>2, AskedKeeps
<1>3. CASE ProcessClients
  BY Zenon, <1>3, AcceptKeeps, ServeKeeps, BlocksKeeps DEF ProcessClients
<1>4. CASE WorkerSteps
  BY Zenon, <1>4, ServeKeeps, SignalsIdleKeeps, StopsWorkerKeeps DEF WorkerSteps
<1>5. CASE BucketThreads \/ ExecutorThread
  BY Zenon, <1>5, BucketThreadKeeps, ExecutesKeeps DEF BucketThreads, ExecutorThread
<1>6. CASE UNCHANGED pr
  BY <1>6 DEF ProcessIInv, ProcessTypes, ClientInv, TaskInv, PhaseInv
<1>7. QED
  BY Zenon, <1>1, <1>2, <1>3, <1>4, <1>5, <1>6 DEF ProcessNext

LEMMA ProcessIInvImplies == ProcessIInv => UsedIsAlive
<1> SUFFICES ASSUME ProcessIInv PROVE UsedIsAlive
  BY Zenon
<1>1. ASSUME pr.phase = "down" PROVE InUse \subseteq pr.alive
  <2>1. PhaseInv /\ pr.step \in 1 .. 13
    BY Zenon, <1>1 DEF ProcessIInv, ProcessTypes
  <2>2. InUse \subseteq Base
    BY Zenon DEF InUse, Base
  <2>3. pr.step > 6 => InUse = {}
    <3> SUFFICES ASSUME pr.step > 6 PROVE InUse = {}
      BY Zenon
    <3>1. pr.worker = "stopped" /\ \A c \in ClientConns : pr.op[c] = "none"
      BY <1>1, <2>1 DEF PhaseInv
    <3>2. InState(pr, "Creating") \cup InState(pr, "Stopping") = {}
      BY <1>1, <2>1 DEF PhaseInv, InState
    <3>3. QED
      BY Zenon, <3>1, <3>2 DEF InUse
  <2>4. QED
    BY <1>1, <2>1, <2>2, <2>3 DEF PhaseInv
<1>2. \A c \in Connected(pr) :
        pr.bucket[c] # NoSlot => pr.bucket[c] \in InState(pr, "Ready") \cup InState(pr, "Stopping")
  BY DEF ProcessIInv, ClientInv, Connected, InState
<1>3. ASSUME pr.phase = "ended" PROVE Connected(pr) = {} /\ InState(pr, "None") = Slots
  BY <1>3 DEF ProcessIInv, PhaseInv, ClientInv, Connected, InState
<1>4. QED
  BY Zenon, <1>1, <1>2, <1>3 DEF UsedIsAlive

(* For any number of clients and of slots, and of buckets created and     *)
(* deleted, memcached_main releases nothing that the worker, the bucket    *)
(* threads and their tasks still use, a client in a bucket keeps it, and   *)
(* none is connected when the process ends.                                *)
THEOREM UsedStaysAlive == ProcessSpec => []UsedIsAlive
<1>1. ProcessInit => ProcessIInv
  BY Zenon, ProcessStarts
<1>2. ProcessIInv /\ [ProcessNext]_pr => ProcessIInv'
  BY Zenon, ProcessStep
<1>3. ProcessIInv => UsedIsAlive
  BY Zenon, ProcessIInvImplies
<1>4. QED
  BY <1>1, <1>2, <1>3, PTL DEF ProcessSpec

=============================================================================
