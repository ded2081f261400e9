---------------------------- MODULE WorkerThread ----------------------------
(***************************************************************************)
(* A worker thread of the daemon (daemon/thread.cc) and the state machines *)
(* of the connections that are bound to it (statemachine_mcbp.cc): network *)
(* events, the notification pipe, the list of pending I/O, engines and     *)
(* tasks that complete in other threads, reserved cookies, TAP and DCP     *)
(* connections, and the shutdown.                                          *)
(*                                                                         *)
(* The worker holds its thread lock while it runs a connection; the other  *)
(* threads need that lock, so each of their critical sections is a step.   *)
(* One action stands for each function of the state machine.  What other   *)
(* worker threads do is independent; buckets are the subject of Buckets.   *)
(***************************************************************************)
EXTENDS Integers, FiniteSets

CONSTANTS
  Conn,        \* the connections bound to this worker
  Streaming,   \* those that may become TAP or DCP connections
  Tasks,       \* those that send commands which a task executes
  None,        \* no connection
  HeaderParts, \* parts that make up the header of a request
  MaxParts,    \* bound: parts of requests that a client sends
  MaxSends,    \* bound: threads that are about to call notify_thread
  MaxReqs,     \* max_reqs_per_event
  IdleTimeout,  \* BOOLEAN: settings.getConnectionIdleTime() is not 0
  EventFailures \* BOOLEAN: libevent may fail to change an event

ASSUME WorkerAssumption ==
  /\ Streaming \subseteq Conn
  /\ Tasks \subseteq Conn
  /\ None \notin Conn
  /\ HeaderParts \in Nat \ {0}
  /\ MaxParts \in Nat
  /\ MaxSends \in Nat \ {0}
  /\ MaxReqs \in Nat \ {0}
  /\ IdleTimeout \in BOOLEAN
  /\ EventFailures \in BOOLEAN

VARIABLES
  state,      \* [Conn -> State]: currentTask of the state machine
  go,         \* [Conn -> State]: write_and_go
  dcp,        \* [Conn -> BOOLEAN]: isDCP() or isTAP()
  ewb,        \* [Conn -> BOOLEAN]: ewouldblock
  need,       \* [Conn -> 0 .. 1]: rlbytes, in parts
  buf,        \* [Conn -> Nat]: parts in the read buffer
  inbox,      \* [Conn -> Nat]: parts in the socket
  sent,       \* [Conn -> Nat]: parts that the client has sent
  gone,       \* [Conn -> BOOLEAN]: the client has hung up
  registered, \* [Conn -> BOOLEAN]: registered_in_libevent
  mask,       \* [Conn -> SUBSET {"r", "w"}]: ev_flags
  active,     \* [Conn -> BOOLEAN]: a fake write event is active
  refcount,   \* [Conn -> Nat]
  held,       \* [Conn -> BOOLEAN]: the engine has reserved the cookie
  owed,       \* [Conn -> BOOLEAN]: a thread will call notify_io_complete
  paused,     \* [Conn -> BOOLEAN]: the engine has nothing to stream for now
  pendingIo,  \* connections on pending_io
  pipe,       \* BOOLEAN: there are bytes in the notification pipe
  sends,      \* number of threads that are about to call notify_thread
  wpc,        \* where the worker is
  todo,       \* rest of the list that thread_libevent_process works on
  cur,        \* the connection that is run, or None
  which,      \* its current event
  numEvents,
  shutdown    \* memcached_shutdown

cmdVars == <<go, dcp, need>>
clientVars == <<sent, gone>>
dataVars == <<buf, inbox>>
eventVars == <<registered, mask, active>>
engineVars == <<refcount, held, owed, paused>>
listVars == <<pendingIo, pipe, sends>>
loopVars == <<wpc, todo>>
runVars == <<cur, which, numEvents>>
vars == <<state, ewb, cmdVars, clientVars, dataVars, eventVars, engineVars,
          listVars, loopVars, runVars, shutdown>>

\* "queued" connections are on new_conn_queue; "task" stands for the states in
\* which a command waits for its task (conn_sasl_auth, conn_create_bucket, ...).
State == {"none", "queued", "new_cmd", "waiting", "read", "parse_cmd", "nread",
          "task", "mwrite", "ship_log", "closing", "pending_close",
          "immediate_close", "destroyed"}

Init ==
  /\ state = [c \in Conn |-> "none"]
  /\ go = [c \in Conn |-> "new_cmd"]
  /\ dcp = [c \in Conn |-> FALSE]
  /\ ewb = [c \in Conn |-> FALSE]
  /\ need = [c \in Conn |-> 0]
  /\ buf = [c \in Conn |-> 0]
  /\ inbox = [c \in Conn |-> 0]
  /\ sent = [c \in Conn |-> 0]
  /\ gone = [c \in Conn |-> FALSE]
  /\ registered = [c \in Conn |-> FALSE]
  /\ mask = [c \in Conn |-> {}]
  /\ active = [c \in Conn |-> FALSE]
  /\ refcount = [c \in Conn |-> 0]
  /\ held = [c \in Conn |-> FALSE]
  /\ owed = [c \in Conn |-> FALSE]
  /\ paused = [c \in Conn |-> FALSE]
  /\ pendingIo = {}
  /\ pipe = FALSE
  /\ sends = 0
  /\ wpc = "loop"
  /\ todo = {}
  /\ cur = None
  /\ which = {}
  /\ numEvents = 0
  /\ shutdown = FALSE

\* Connections that exist, and those whose socket is open.
Alive == {c \in Conn : state[c] \notin {"none", "queued", "destroyed"}}
Open == {c \in Alive : state[c] \notin {"pending_close", "immediate_close"}}

\* The thread lock is free.
Unlocked == wpc \in {"loop", "drained"}

-----------------------------------------------------------------------------
(* Clients, the dispatcher and the main thread.                            *)

\* dispatch_conn_new queues the connection; notify_thread follows.
dispatch_conn_new(c) ==
  /\ state[c] = "none" /\ ~shutdown /\ sends < MaxSends
  /\ state' = [state EXCEPT ![c] = "queued"]
  /\ sends' = sends + 1
  /\ UNCHANGED <<ewb, cmdVars, clientVars, dataVars, eventVars, engineVars,
                 pendingIo, pipe, loopVars, runVars, shutdown>>

\* A request is a header of HeaderParts parts and a body of one part.
ClientSends(c) ==
  /\ c \in Open /\ ~gone[c] /\ sent[c] < MaxParts
  /\ sent' = [sent EXCEPT ![c] = @ + 1]
  /\ inbox' = [inbox EXCEPT ![c] = @ + 1]
  /\ UNCHANGED <<state, ewb, cmdVars, gone, buf, eventVars, engineVars,
                 listVars, loopVars, runVars, shutdown>>

HangUp(c) ==
  /\ c \in Open /\ ~gone[c]
  /\ gone' = [gone EXCEPT ![c] = TRUE]
  /\ UNCHANGED <<state, ewb, cmdVars, sent, dataVars, eventVars, engineVars,
                 listVars, loopVars, runVars, shutdown>>

\* shutdown_server, and the notification by threads_shutdown that follows.
Shutdown ==
  /\ ~shutdown /\ sends < MaxSends
  /\ shutdown' = TRUE
  /\ sends' = sends + 1
  /\ UNCHANGED <<state, ewb, cmdVars, clientVars, dataVars, eventVars,
                 engineVars, pendingIo, pipe, loopVars, runVars>>

-----------------------------------------------------------------------------
(* Threads of the engine and the executor pool.                            *)

notify_thread ==
  /\ sends > 0
  /\ sends' = sends - 1
  /\ pipe' = TRUE
  /\ UNCHANGED <<state, ewb, cmdVars, clientVars, dataVars, eventVars,
                 engineVars, pendingIo, loopVars, runVars, shutdown>>

\* Mutant: the first connection on the list needs no notification.
EnlistSilently(c) == pendingIo' = pendingIo \cup {c} /\ UNCHANGED sends

\* Only the thread that finds the list empty goes on to notify_thread.
add_conn_to_pending_io_list(c) ==
  /\ pendingIo' = pendingIo \cup {c}
  /\ sends' = IF pendingIo = {} THEN sends + 1 ELSE sends

\* The engine or the task has completed what c waits for.
notify_io_complete(c) ==
  /\ Unlocked /\ owed[c] /\ sends < MaxSends
  /\ owed' = [owed EXCEPT ![c] = FALSE]
  /\ add_conn_to_pending_io_list(c)
  /\ UNCHANGED <<state, ewb, cmdVars, clientVars, dataVars, eventVars, refcount,
                 held, paused, pipe, loopVars, runVars, shutdown>>

\* The engine has something to stream to c again, or wants it to disconnect
\* because its bucket is being deleted.
NotifyPaused(c) ==
  /\ Unlocked /\ paused[c] /\ sends < MaxSends
  /\ paused' = [paused EXCEPT ![c] = FALSE]
  /\ add_conn_to_pending_io_list(c)
  /\ UNCHANGED <<state, ewb, cmdVars, clientVars, dataVars, eventVars, refcount,
                 held, owed, pipe, loopVars, runVars, shutdown>>

\* The engine gives the cookie back once it knows that c disconnects and has
\* nothing left to notify it of.
release_cookie(c) ==
  /\ Unlocked /\ held[c] /\ state[c] = "pending_close" /\ ~owed[c]
  /\ sends < MaxSends
  /\ held' = [held EXCEPT ![c] = FALSE]
  /\ paused' = [paused EXCEPT ![c] = FALSE]
  /\ refcount' = [refcount EXCEPT ![c] = @ - 1]
  /\ add_conn_to_pending_io_list(c)
  /\ UNCHANGED <<state, ewb, cmdVars, clientVars, dataVars, eventVars, owed,
                 pipe, loopVars, runVars, shutdown>>

-----------------------------------------------------------------------------
(* The event loop of the worker.                                           *)

\* The connections that signalIfIdle wakes up.
Idle(c) ==
  /\ ~ewb[c]
  /\ state[c] \in {"read", "nread", "waiting", "new_cmd", "ship_log"}

\* During a shutdown every idle connection gets a fake write event; act tells
\* which connections have one already.
signal_idle_clients(act) ==
  LET woken == {c \in Conn : shutdown /\ Idle(c)} IN
  /\ active' = [c \in Conn |-> act[c] \/ c \in woken]
  /\ mask' = [c \in Conn |-> IF c \in woken THEN {"r", "w"} ELSE mask[c]]
  /\ registered' = [c \in Conn |-> registered[c] \/ c \in woken]

\* Nothing is left to wait for: the worker leaves its event loop.
MayStop == shutdown /\ Alive = {}

\* thread_libevent_process starts by draining the pipe.
drain_notification_channel ==
  /\ wpc = "loop" /\ pipe
  /\ pipe' = FALSE
  /\ wpc' = IF MayStop THEN "stopped" ELSE "drained"
  /\ signal_idle_clients(active)
  /\ UNCHANGED <<state, ewb, cmdVars, clientVars, dataVars, engineVars,
                 pendingIo, sends, todo, runVars, shutdown>>

\* dispatch_new_connections accepts the queued connections, except for those in
\* failed, and the worker takes the whole list of pending I/O.
dispatch_new_connections(failed) ==
  LET queued == {c \in Conn : state[c] = "queued"}
      new == queued \ failed
  IN
  /\ wpc = "drained" /\ failed \subseteq queued
  /\ state' = [c \in Conn |-> IF c \in new THEN "new_cmd"
                              ELSE IF c \in failed THEN "destroyed"
                              ELSE state[c]]
  /\ registered' = [c \in Conn |-> registered[c] \/ c \in new]
  /\ mask' = [c \in Conn |-> IF c \in new THEN {"r"} ELSE mask[c]]
  /\ refcount' = [c \in Conn |-> IF c \in new THEN 1 ELSE refcount[c]]
  /\ todo' = pendingIo
  /\ pendingIo' = {}
  /\ wpc' = "process"
  /\ UNCHANGED <<ewb, cmdVars, clientVars, dataVars, active, held, owed, paused,
                 pipe, sends, runVars, shutdown>>

\* run_event_loop, which resets the number of events.
run_event_loop(c, events) ==
  /\ cur' = c
  /\ which' = events
  /\ numEvents' = MaxReqs

\* thread_libevent_process runs the next connection of the list.
RunPending(c) ==
  /\ wpc = "process" /\ cur = None /\ c \in todo
  /\ todo' = todo \ {c}
  /\ registered' = [registered EXCEPT ![c] = @ \/ c \in Open]
  /\ run_event_loop(c, {"r", "w"})
  /\ UNCHANGED <<state, ewb, cmdVars, clientVars, dataVars, mask, active,
                 engineVars, listVars, wpc, shutdown>>

\* What libevent has to report for c.
Ready(c) ==
  {e \in {"r", "w"} :
     \/ e = "r" /\ "r" \in mask[c] /\ (inbox[c] > 0 \/ gone[c])
     \/ e = "w" /\ ("w" \in mask[c] \/ active[c])}

\* event_handler for a network event; the socket may not be writable.
event_handler(c) ==
  /\ wpc = "loop" /\ registered[c]
  /\ \E events \in {Ready(c), Ready(c) \ {"w"}} :
        events # {} /\ run_event_loop(c, events)
  /\ pendingIo' = pendingIo \ {c}
  /\ signal_idle_clients([active EXCEPT ![c] = FALSE])
  /\ wpc' = "event"
  /\ UNCHANGED <<state, ewb, cmdVars, clientVars, dataVars, engineVars, pipe,
                 sends, todo, shutdown>>

\* event_handler for an EV_TIMEOUT: it closes the connection, but leaves TAP and
\* DCP connections and those of administrators (which any other may be) alone,
\* unless their event mask cannot be applied again.
TimeoutEvent(c) ==
  /\ IdleTimeout
  /\ wpc = "loop" /\ registered[c]
  /\ pendingIo' = pendingIo \ {c}
  /\ \/ UNCHANGED state
     \/ (dcp[c] => EventFailures) /\ state' = [state EXCEPT ![c] = "closing"]
  /\ run_event_loop(c, {})
  /\ signal_idle_clients(active)
  /\ wpc' = "event"
  /\ UNCHANGED <<ewb, cmdVars, clientVars, dataVars, engineVars, pipe, sends,
                 todo, shutdown>>

\* The end of thread_libevent_process and of event_handler.
ReturnToLoop ==
  /\ wpc \in {"process", "event"} /\ cur = None /\ todo = {}
  /\ wpc' = IF MayStop THEN "stopped" ELSE "loop"
  /\ which' = {} /\ numEvents' = 0
  /\ signal_idle_clients(active)
  /\ UNCHANGED <<state, ewb, cmdVars, clientVars, dataVars, engineVars,
                 listVars, todo, cur, shutdown>>

-----------------------------------------------------------------------------
(* The state machine.  A function that returns true leaves cur alone, one  *)
(* that returns false ends the run of the connection.                      *)

\* setCurrentTask: a TAP or DCP connection ships its log instead of waiting.
SetState(c, s) ==
  LET ships == dcp[c] /\ s = "waiting" IN
  /\ state' = [state EXCEPT ![c] = IF ships THEN "ship_log" ELSE s]
  /\ which' = IF ships THEN {"w"} ELSE which

\* The function sets state s and returns true.
Proceed(c, s) == SetState(c, s) /\ UNCHANGED cur

\* The function returns false in state s.
Yield(c, s) ==
  /\ state' = [state EXCEPT ![c] = s]
  /\ cur' = None
  /\ which' = {}

\* updateEvent: a new mask takes the event out of libevent and adds it again,
\* which also takes back a fake event.
updateEvent(c, m) ==
  /\ mask' = [mask EXCEPT ![c] = m]
  /\ active' = [active EXCEPT ![c] = @ /\ mask[c] = m]
  /\ registered' = [registered EXCEPT ![c] = TRUE]

\* unregisterEvent
unregisterEvent(c) ==
  /\ registered' = [registered EXCEPT ![c] = FALSE]
  /\ active' = [active EXCEPT ![c] = FALSE]
  /\ UNCHANGED mask

\* Return false in state s to wait for the events m; close if libevent fails.
WaitFor(c, m, s) ==
  \/ updateEvent(c, m) /\ Yield(c, s)
  \/ EventFailures /\ unregisterEvent(c) /\ Proceed(c, "closing")

\* is_bucket_dying: a shutdown closes the connection.
is_bucket_dying(c) ==
  /\ shutdown
  /\ Proceed(c, "closing")
  /\ UNCHANGED <<ewb, cmdVars, dataVars, eventVars, engineVars, pendingIo,
                 numEvents>>

\* What no function of the state machine changes.
RunFrame == UNCHANGED <<clientVars, pipe, sends, loopVars, shutdown>>

Running(c, s) == cur = c /\ state[c] = s

\* decrementNumEvents() >= 0
HasEvents == numEvents > 0

conn_new_cmd(c) ==
  /\ Running(c, "new_cmd")
  /\ \/ is_bucket_dying(c)
     \/ /\ ~shutdown /\ HasEvents
        /\ numEvents' = numEvents - 1
        /\ Proceed(c, IF buf[c] > 0 THEN "parse_cmd" ELSE "waiting")
        /\ UNCHANGED <<ewb, cmdVars, dataVars, eventVars, engineVars, pendingIo>>
     \/ /\ ~shutdown /\ numEvents = 0
        /\ IF buf[c] > 0 \/ dcp[c]
           THEN WaitFor(c, {"w"}, "new_cmd")
           ELSE Yield(c, "new_cmd") /\ UNCHANGED eventVars
        /\ UNCHANGED <<ewb, cmdVars, dataVars, engineVars, pendingIo, numEvents>>
  /\ RunFrame

conn_waiting(c) ==
  /\ Running(c, "waiting")
  /\ \/ is_bucket_dying(c)
     \/ /\ ~shutdown
        /\ WaitFor(c, {"r"}, "read")
        /\ UNCHANGED <<ewb, cmdVars, dataVars, engineVars, pendingIo, numEvents>>
  /\ RunFrame

\* tryReadNetwork takes all that the socket has; it may fail.
conn_read(c) ==
  /\ Running(c, "read")
  /\ \/ is_bucket_dying(c)
     \/ /\ ~shutdown
        /\ \/ /\ inbox[c] > 0
              /\ buf' = [buf EXCEPT ![c] = @ + inbox[c]]
              /\ inbox' = [inbox EXCEPT ![c] = 0]
              /\ Proceed(c, "parse_cmd")
           \/ /\ inbox[c] = 0 /\ ~gone[c]
              /\ Proceed(c, "waiting")
              /\ UNCHANGED dataVars
           \/ /\ gone[c]
              /\ Proceed(c, "closing")
              /\ UNCHANGED dataVars
        /\ UNCHANGED <<ewb, cmdVars, eventVars, engineVars, pendingIo, numEvents>>
  /\ RunFrame

\* try_read_mcbp_command with a complete header: read the body, answer with an
\* error and close, or close.
TakeHeader(c) ==
  /\ buf[c] >= HeaderParts
  /\ buf' = [buf EXCEPT ![c] = @ - HeaderParts]
  /\ \/ /\ state' = [state EXCEPT ![c] = "nread"]
        /\ need' = [need EXCEPT ![c] = 1]
        /\ UNCHANGED go
     \/ /\ state' = [state EXCEPT ![c] = "mwrite"]
        /\ go' = [go EXCEPT ![c] = "closing"]
        /\ UNCHANGED need
     \/ /\ state' = [state EXCEPT ![c] = "closing"]
        /\ UNCHANGED <<go, need>>

\* conn_parse_cmd goes on unless ewouldblock is set, which it is when the engine
\* of a TAP or DCP connection had nothing more to ship.
conn_parse_cmd(c) ==
  /\ Running(c, "parse_cmd")
  /\ \/ TakeHeader(c) /\ UNCHANGED which
     \/ /\ buf[c] < HeaderParts
        /\ SetState(c, "waiting")
        /\ UNCHANGED <<buf, go, need>>
  /\ cur' = IF ewb[c] THEN None ELSE cur
  /\ UNCHANGED <<ewb, dcp, inbox, eventVars, engineVars, pendingIo, numEvents>>
  /\ RunFrame

\* conn_nread while a part of the body is missing.
conn_nread(c) ==
  /\ Running(c, "nread")
  /\ \/ is_bucket_dying(c)
     \/ /\ ~shutdown /\ need[c] > 0
        /\ \/ /\ buf[c] > 0
              /\ buf' = [buf EXCEPT ![c] = @ - 1]
              /\ need' = [need EXCEPT ![c] = 0]
              /\ UNCHANGED <<state, inbox, eventVars, cur, which>>
           \/ /\ buf[c] = 0 /\ inbox[c] > 0
              /\ inbox' = [inbox EXCEPT ![c] = @ - 1]
              /\ need' = [need EXCEPT ![c] = 0]
              /\ UNCHANGED <<state, buf, eventVars, cur, which>>
           \/ /\ buf[c] = 0 /\ gone[c]
              /\ Proceed(c, "closing")
              /\ UNCHANGED <<need, dataVars, eventVars>>
           \/ /\ buf[c] = 0 /\ inbox[c] = 0 /\ ~gone[c]
              /\ WaitFor(c, {"r"}, "nread")
              /\ UNCHANGED <<need, dataVars>>
        /\ UNCHANGED <<ewb, go, dcp, engineVars, pendingIo, numEvents>>
  /\ RunFrame

\* A blocked connection is taken out of libevent.
BlockEvent(c) == unregisterEvent(c)

\* mcbp_complete_nread: the engine returns ENGINE_EWOULDBLOCK (again, when it
\* has not completed the operation yet), or a task is given the command.
ExecuteBlocks(c) ==
  /\ Running(c, "nread") /\ ~shutdown /\ need[c] = 0
  /\ ewb' = [ewb EXCEPT ![c] = TRUE]
  /\ owed' = [owed EXCEPT ![c] = TRUE]
  /\ BlockEvent(c)
  /\ \/ Yield(c, "nread")
     \/ c \in Tasks /\ ~owed[c] /\ Yield(c, "task")
  /\ UNCHANGED <<cmdVars, dataVars, refcount, held, paused, pendingIo, numEvents>>
  /\ RunFrame

\* mcbp_complete_nread: the command is complete.  Its response is sent, or there
\* is none, or the connection closes, perhaps after an error response.  A message
\* that answers the stream (process_bin_dcp_response, process_bin_tap_ack) lets
\* it go on.
ExecuteCompletes(c) ==
  /\ Running(c, "nread") /\ ~shutdown /\ need[c] = 0 /\ ~owed[c]
  /\ ewb' = [ewb EXCEPT ![c] = FALSE]
  /\ \/ \E next \in {"new_cmd", "closing"} :
           /\ go' = [go EXCEPT ![c] = next]
           /\ Proceed(c, "mwrite")
     \/ \E next \in {"new_cmd", "closing"} \cup (IF dcp[c] THEN {"ship_log"} ELSE {}) :
           Proceed(c, next) /\ UNCHANGED go
  /\ UNCHANGED <<dcp, need, dataVars, eventVars, engineVars, pendingIo, numEvents>>
  /\ RunFrame

\* The command makes c a TAP or DCP connection; the engine reserves its cookie.
StartStream(c) ==
  /\ Running(c, "nread") /\ ~shutdown /\ need[c] = 0 /\ ~owed[c]
  /\ c \in Streaming /\ ~held[c]
  /\ ewb' = [ewb EXCEPT ![c] = FALSE]
  /\ dcp' = [dcp EXCEPT ![c] = TRUE]
  /\ held' = [held EXCEPT ![c] = TRUE]
  /\ refcount' = [refcount EXCEPT ![c] = @ + 1]
  /\ Proceed(c, "ship_log")
  /\ UNCHANGED <<go, need, dataVars, eventVars, owed, paused, pendingIo, numEvents>>
  /\ RunFrame

\* What a TAP or DCP connection waits for unless the engine has paused it.
ShipMask == {"r", "w"}

\* Mutant: a read event is not looked at.
HasBuffered(c) == buf[c] > 0

\* isReadEvent() || read.bytes > 0
HasInput(c) == "r" \in which \/ buf[c] > 0

\* conn_ship_log with input to process: read it, or take a header.
ShipLogReads(c) ==
  /\ Running(c, "ship_log") /\ ~shutdown
  /\ HasInput(c)
  /\ numEvents' = MaxReqs
  /\ \/ updateEvent(c, ShipMask) /\ TakeHeader(c)
     \/ /\ buf[c] < HeaderParts
        /\ updateEvent(c, ShipMask)
        /\ state' = [state EXCEPT ![c] = "read"]
        /\ UNCHANGED <<buf, go, need>>
     \/ /\ EventFailures
        /\ unregisterEvent(c)
        /\ state' = [state EXCEPT ![c] = "closing"]
        /\ UNCHANGED <<buf, go, need>>
  /\ UNCHANGED <<ewb, dcp, inbox, engineVars, pendingIo, cur, which>>
  /\ RunFrame

\* The end of conn_ship_log when it returns false: libevent is told what to wait
\* for.  If that fails the connection is left in conn_closing.
StopShipping(c, m) ==
  \/ updateEvent(c, m) /\ Yield(c, "ship_log")
  \/ EventFailures /\ unregisterEvent(c) /\ Yield(c, "closing")

\* conn_ship_log asks the engine for a message.
Ships(c) ==
  /\ Running(c, "ship_log") /\ ~shutdown
  /\ ~HasInput(c) /\ "w" \in which /\ HasEvents
  /\ numEvents' = numEvents - 1
  /\ UNCHANGED <<dcp, need, dataVars, refcount, held, owed, pendingIo>>
  /\ RunFrame

\* ship_mcbp_dcp_log or ship_mcbp_tap_log, the engine has nothing for now.
ShipLogPauses(c) ==
  /\ Ships(c)
  /\ paused' = [paused EXCEPT ![c] = TRUE]
  /\ ewb' = [ewb EXCEPT ![c] = TRUE]
  /\ StopShipping(c, {"r"})
  /\ UNCHANGED go

\* ship_mcbp_dcp_log or ship_mcbp_tap_log, the engine has a message or fails.
ShipLogSends(c) ==
  /\ Ships(c)
  /\ ewb' = [ewb EXCEPT ![c] = FALSE]
  /\ updateEvent(c, ShipMask)
  /\ \/ /\ paused' = [paused EXCEPT ![c] = FALSE]
        /\ go' = [go EXCEPT ![c] = "ship_log"]
        /\ Proceed(c, "mwrite")
     \/ Proceed(c, "closing") /\ UNCHANGED <<go, paused>>

\* conn_ship_log otherwise: the bucket is dying, the connection has had its
\* share of events, or a timeout woke it up.
ShipLogStops(c) ==
  /\ Running(c, "ship_log")
  /\ \/ is_bucket_dying(c)
     \/ /\ ~shutdown /\ ~HasInput(c)
        /\ "w" \notin which \/ numEvents = 0
        /\ StopShipping(c, ShipMask)
        /\ UNCHANGED <<ewb, cmdVars, dataVars, engineVars, pendingIo, numEvents>>
  /\ RunFrame

\* conn_mwrite, all is sent.
TransmitCompletes(c) ==
  /\ Running(c, "mwrite") /\ ~shutdown
  /\ Proceed(c, go[c])
  /\ UNCHANGED <<ewb, cmdVars, dataVars, eventVars, engineVars, pendingIo,
                 numEvents>>
  /\ RunFrame

\* conn_mwrite, the socket is full, has failed, or the bucket is dying.
conn_mwrite(c) ==
  /\ Running(c, "mwrite")
  /\ \/ is_bucket_dying(c)
     \/ /\ ~shutdown
        /\ \/ WaitFor(c, {"w"}, "mwrite")
           \/ Proceed(c, "closing") /\ UNCHANGED eventVars
        /\ UNCHANGED <<ewb, cmdVars, dataVars, engineVars, pendingIo, numEvents>>
  /\ RunFrame

\* conn_sasl_auth, conn_flush, conn_create_bucket, ...: use what the task left.
conn_task(c) ==
  /\ Running(c, "task")
  /\ ewb' = [ewb EXCEPT ![c] = FALSE]
  /\ \/ go' = [go EXCEPT ![c] = "new_cmd"] /\ Proceed(c, "mwrite")
     \/ Proceed(c, "closing") /\ UNCHANGED go
  /\ UNCHANGED <<dcp, need, dataVars, eventVars, engineVars, pendingIo, numEvents>>
  /\ RunFrame

\* Mutant: conn_closing overlooks that the cookie is reserved.
ClosingIgnoresRefcount(c) == ewb[c]

\* conn_closing: somebody may still use the cookie.
MustWait(c) == refcount[c] > 1 \/ ewb[c]

conn_closing(c) ==
  /\ Running(c, "closing")
  /\ unregisterEvent(c)
  /\ buf' = [buf EXCEPT ![c] = 0]
  /\ inbox' = [inbox EXCEPT ![c] = 0]
  /\ Proceed(c, IF MustWait(c) THEN "pending_close" ELSE "immediate_close")
  /\ UNCHANGED <<ewb, cmdVars, engineVars, pendingIo, numEvents>>
  /\ RunFrame

\* conn_pending_close tells the engine, which may release the cookie from now on.
conn_pending_close(c) ==
  /\ Running(c, "pending_close")
  /\ IF refcount[c] > 1 THEN Yield(c, "pending_close")
                        ELSE Proceed(c, "immediate_close")
  /\ UNCHANGED <<ewb, cmdVars, dataVars, eventVars, engineVars, pendingIo,
                 numEvents>>
  /\ RunFrame

\* conn_immediate_close, conn_close, and the release of the connection by
\* run_event_loop.
conn_immediate_close(c) ==
  /\ Running(c, "immediate_close")
  /\ Yield(c, "destroyed")
  /\ pendingIo' = pendingIo \ {c}
  /\ refcount' = [refcount EXCEPT ![c] = 0]
  /\ UNCHANGED <<ewb, cmdVars, dataVars, eventVars, held, owed, paused, numEvents>>
  /\ RunFrame

RunConnection(c) ==
  \/ conn_new_cmd(c) \/ conn_waiting(c) \/ conn_read(c) \/ conn_parse_cmd(c)
  \/ conn_nread(c) \/ ExecuteBlocks(c) \/ ExecuteCompletes(c) \/ StartStream(c)
  \/ ShipLogReads(c) \/ ShipLogPauses(c) \/ ShipLogSends(c) \/ ShipLogStops(c)
  \/ TransmitCompletes(c) \/ conn_mwrite(c) \/ conn_task(c)
  \/ conn_closing(c) \/ conn_pending_close(c) \/ conn_immediate_close(c)

Worker ==
  \/ drain_notification_channel
  \/ \E failed \in SUBSET Conn : dispatch_new_connections(failed)
  \/ ReturnToLoop
  \/ \E c \in Conn : RunPending(c) \/ event_handler(c) \/ RunConnection(c)

Engine(c) == notify_io_complete(c) \/ NotifyPaused(c) \/ release_cookie(c)

Client(c) == dispatch_conn_new(c) \/ ClientSends(c) \/ HangUp(c)

Next ==
  \/ Worker
  \/ Shutdown \/ notify_thread
  \/ \E c \in Conn : Client(c) \/ Engine(c) \/ TimeoutEvent(c)

Spec == Init /\ [][Next]_vars

(***************************************************************************)
(* Fairness.  The worker runs, libevent reports every ready event in each  *)
(* iteration, and whoever waits for the thread lock gets it.  Clients read *)
(* their responses, and engines complete what they have promised to notify *)
(* and release the cookies of connections that disconnect.                 *)
(***************************************************************************)
Fairness ==
  /\ WF_vars(notify_thread)
  /\ SF_vars(drain_notification_channel)
  /\ WF_vars(\E failed \in SUBSET Conn : dispatch_new_connections(failed))
  /\ WF_vars(ReturnToLoop)
  /\ \A c \in Conn :
       /\ WF_vars(RunPending(c))
       /\ WF_vars(RunConnection(c))
       /\ SF_vars(event_handler(c))
       /\ SF_vars(TransmitCompletes(c))
       /\ SF_vars(ExecuteCompletes(c))
       /\ SF_vars(notify_io_complete(c))
       /\ SF_vars(release_cookie(c))

FairSpec == Spec /\ Fairness

\* In addition, no stream has messages without end: when it is asked again and
\* again, the engine now and then has nothing to ship.
CatchUpSpec == FairSpec /\ \A c \in Conn : SF_vars(ShipLogPauses(c))

-----------------------------------------------------------------------------
(* Properties.                                                             *)

\* The types of the variables.
TypeOK ==
  /\ state \in [Conn -> State]
  /\ go \in [Conn -> {"new_cmd", "closing", "ship_log"}]
  /\ dcp \in [Conn -> BOOLEAN]
  /\ ewb \in [Conn -> BOOLEAN]
  /\ need \in [Conn -> {0, 1}]
  /\ buf \in [Conn -> Nat]
  /\ inbox \in [Conn -> Nat]
  /\ sent \in [Conn -> Nat]
  /\ gone \in [Conn -> BOOLEAN]
  /\ registered \in [Conn -> BOOLEAN]
  /\ mask \in [Conn -> SUBSET {"r", "w"}]
  /\ active \in [Conn -> BOOLEAN]
  /\ refcount \in [Conn -> Nat]
  /\ held \in [Conn -> BOOLEAN]
  /\ owed \in [Conn -> BOOLEAN]
  /\ paused \in [Conn -> BOOLEAN]
  /\ pendingIo \in SUBSET Conn
  /\ pipe \in BOOLEAN
  /\ sends \in Nat
  /\ wpc \in {"loop", "drained", "process", "event", "stopped"}
  /\ todo \in SUBSET Conn
  /\ cur \in Conn \cup {None}
  /\ which \in SUBSET {"r", "w"}
  /\ numEvents \in Nat
  /\ shutdown \in BOOLEAN

\* No wakeup is lost: while a connection is on pending_io or new_conn_queue, the
\* notification pipe has data, a thread is about to write to it, or the worker
\* has drained it but has not taken the lists yet.  notify_io_complete writes to
\* the pipe only when it found the list empty.
WakeupOnItsWay ==
  (pendingIo # {} \/ \E c \in Conn : state[c] = "queued") =>
     pipe \/ sends > 0 \/ wpc \in {"drained", "stopped"}

\* A cookie outlives its users: what the engine has reserved, what it or a task
\* will notify, and what is on the lists of the worker, is not destroyed.
CookieValid ==
  \A c \in Conn : owed[c] \/ held[c] \/ c \in pendingIo \cup todo => c \in Alive

\* A request that has arrived in full but is not answered.
Unanswered(c) ==
  /\ c \in Open
  /\ \/ buf[c] + inbox[c] > HeaderParts
     \/ state[c] = "task"
     \/ state[c] = "nread" /\ buf[c] + inbox[c] >= need[c]

\* Every request is executed: no connection, ordinary, streaming or paused, sits
\* on a complete request for ever.
RequestsServed == \A c \in Conn : []<>(~Unanswered(c))

\* conn_new_cmd: "each connection will only process a certain number of
\* operations before they will back off", so the worker gets to the others.
BacksOff == \A c \in Conn : (cur = c) ~> (cur # c)

=============================================================================
