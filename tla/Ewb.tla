-------------------------------- MODULE Ewb --------------------------------
(***************************************************************************)
(* The ewouldblock engine (engines/ewouldblock_engine): it stands between  *)
(* the server and a real engine, returns the errors a connection asked for *)
(* instead of calling the real engine, and tells the server from a thread  *)
(* of its own when a call it blocked may be tried again.                   *)
(*                                                                         *)
(* A command of the server is the sequence of the engine functions it      *)
(* calls; after EWOULDBLOCK the function is called again once the          *)
(* connection was notified.  Whatever runs under one of the mutexes is one *)
(* step, and notify_one runs with the push before it.  A notification that *)
(* is queued before the thread waits for the first time is not lost, but   *)
(* stays in the queue until another one wakes the thread.                  *)
(*                                                                         *)
(* A connection is its socket descriptor, which keys connection_map, and   *)
(* its cookie, which is in suspended_map; the engine is not told when it   *)
(* closes.  The next connection has the same descriptor and the same       *)
(* cookie, and takes over the mode and the suspension; that it may have    *)
(* only one of them is left out, and so are the revision of the cluster    *)
(* map and the item of a DCP stream, on which nothing else depends.        *)
(***************************************************************************)
EXTENDS Integers, Sequences, FiniteSets

CONSTANTS EwbConns,       \* connections, strings
          EwbCommands,    \* sequences of engine functions
          EwbModes,       \* the fault injections a connection asks for: [kind, err, n]
          EwbIds,         \* ids of suspended connections
          SeqWidth,       \* bits of a sequence (32)
          RollMax,        \* sides of the die of ErrRandom (100)
          MaxEwbCalls,    \* bound: commands of the clients
          MaxControls     \* bound: control commands

NoEwbConn == "nobody"

\* A server has finitely many connections.
ASSUME EwbAssumption ==
  /\ IsFiniteSet(EwbConns) /\ NoEwbConn \notin EwbConns

NoFault == [kind |-> "none", err |-> "SUCCESS", n |-> 0, prev |-> "NONE", pos |-> 0]

VARIABLE ew

\* EWB_Engine::EWB_Engine: the engine of a new bucket and its thread.
EwbInit ==
  ew = [state |-> "created", mode |-> [c \in EwbConns |-> NoFault],
        suspended |-> [id \in EwbIds |-> NoEwbConn], queue |-> <<>>,
        thread |-> "start", signal |-> FALSE, stop |-> FALSE,
        cookie |-> NoEwbConn, monitors |-> [id \in EwbIds |-> 0],
        woken |-> [c \in EwbConns |-> 0], file |-> TRUE,
        conn |-> [c \in EwbConns |->
                   [pc |-> "idle", left |-> <<>>, of |-> NoEwbConn]],
        early |-> [c \in EwbConns |-> 0], made |-> 0, controls |-> 0]

Ready == ew.state = "ready"

\* The name of the real engine is loaded, created and initialized, or the
\* process ends; what the real engine answers is the result.
initialize ==
  /\ ew.state = "created"
  /\ \E state \in {"ready", "failed", "aborted"} : ew' = [ew EXCEPT !.state = state]

-----------------------------------------------------------------------------
(* The notification thread *)

\* The thread holds the mutex from its test of stop_notification_thread to
\* its wait.
EwbMutexFree(r) == r.thread # "locked"

\* The bottom of the loop: the next pending operation, or the test and wait.
Drain(r) ==
  IF r.queue # <<>>
  THEN [r EXCEPT !.thread = "notify", !.cookie = Head(r.queue), !.queue = Tail(r.queue)]
  ELSE IF r.stop THEN [r EXCEPT !.thread = "stopped"]
  ELSE [r EXCEPT !.thread = "locked"]

\* notify_io_complete: a connection that waits calls the engine again.
EwbNotified(r, c) ==
  IF r.conn[c].pc = "blocked" THEN [r EXCEPT !.conn[c].pc = "call"] ELSE r

process_notifications ==
  \/ /\ ew.thread = "start"
     /\ ew' = [ew EXCEPT !.thread = IF ew.stop THEN "stopped" ELSE "locked"]
  \/ /\ ew.thread = "locked"
     /\ ew' = [ew EXCEPT !.thread = "wait"]
  \/ /\ ew.thread = "wait" /\ ew.signal
     /\ ew' = Drain([ew EXCEPT !.signal = FALSE])
  \/ /\ ew.thread = "notify"
     /\ ew' = Drain([EwbNotified(ew, ew.cookie) EXCEPT !.cookie = NoEwbConn])

\* condvar: only a thread that waits is woken.
EwbSignalled(r) == [r EXCEPT !.signal = r.signal \/ r.thread = "wait"]

schedule_notification(r, c) == EwbSignalled([r EXCEPT !.queue = Append(@, c)])

-----------------------------------------------------------------------------
(* Suspended connections *)

Suspend(r, c, id) == [r EXCEPT !.suspended[id] = c]

is_connection_suspended(r, c) == \E id \in EwbIds : r.suspended[id] = c

WaitsOnlyFor(r, c, id) ==
  r.conn[c].pc = "blocked" /\ \A i \in EwbIds \ {id} : r.suspended[i] # c

\* The first half of resume, under suspended_map_mutex.  The second half calls
\* schedule_notification.  A resume that lets nobody go on, because the connection
\* is not blocked or is suspended under another id too, is counted in early.
Erased(r, id) ==
  [r EXCEPT !.suspended[id] = NoEwbConn,
            !.early[r.suspended[id]] = IF WaitsOnlyFor(r, r.suspended[id], id) THEN @ ELSE @ + 1]

\* The answer to the client, without which the command has no effect here.
Control(r) == [r EXCEPT !.controls = @ + 1]

handleSuspend(c, id) ==
  /\ ew.suspended[id] = NoEwbConn
  /\ ew' = Control(Suspend(ew, c, id))

handleResume(c, id) ==
  /\ ew.suspended[id] # NoEwbConn
  /\ ew' = Control([Erased(ew, id) EXCEPT !.conn[c].pc = "resume",
                                         !.conn[c].of = ew.suspended[id]])

ResumeEnds(c) ==
  /\ ew.conn[c].pc = "resume"
  /\ EwbMutexFree(ew)
  /\ ew' = [schedule_notification(ew, ew.conn[c].of) EXCEPT
              !.conn[c].pc = "idle", !.conn[c].of = NoEwbConn]

\* The thread that watches the file may fail to start; the connection stays
\* suspended all the same.
handleBlockMonitorFile(c, id) ==
  /\ ew.file
  /\ ew.suspended[id] = NoEwbConn
  /\ \E started \in BOOLEAN :
       ew' = Control([Suspend(ew, c, id) EXCEPT
                        !.monitors[id] = IF started THEN @ + 1 ELSE @])

\* BlockMonitorThread::run: the id may have been resumed by a client already.
\* woken counts the monitors between the two halves of resume.
BlockMonitor(id) ==
  /\ ew.monitors[id] > 0
  /\ ~ ew.file
  /\ LET r == [ew EXCEPT !.monitors[id] = @ - 1]
     IN ew' = IF r.suspended[id] = NoEwbConn THEN r
              ELSE [Erased(r, id) EXCEPT !.woken[r.suspended[id]] = @ + 1]

MonitorEnds(c) ==
  /\ ew.woken[c] > 0
  /\ EwbMutexFree(ew)
  /\ ew' = [schedule_notification(ew, c) EXCEPT !.woken[c] = @ - 1]

\* Whoever made the file removes it.
RemoveFile ==
  /\ ew.file
  /\ ew' = [ew EXCEPT !.file = FALSE]

-----------------------------------------------------------------------------
(* Fault injection: whether a call of function f is answered with the error *)
(* of the connection's mode, and the mode afterwards.                       *)

ErrOnFirst(mode, f) == [inject |-> mode.prev # f, mode |-> [mode EXCEPT !.prev = f]]

ErrOnNextN(mode, f) ==
  [inject |-> mode.n > 0, mode |-> IF mode.n > 0 THEN [mode EXCEPT !.n = @ - 1] ELSE mode]

\* The die shows less than the percentage.
ErrRandom(mode, roll) == [inject |-> roll < mode.n, mode |-> mode]

\* The bits of the sequence from the lowest.
ErrSequence(mode, f) ==
  IF mode.pos < SeqWidth
  THEN [inject |-> (mode.n \div 2 ^ mode.pos) % 2 = 1, mode |-> [mode EXCEPT !.pos = @ + 1]]
  ELSE [inject |-> FALSE, mode |-> mode]

\* pos tells that the error was issued.
ErrOnNoNotify(mode, f) == [inject |-> mode.pos = 0, mode |-> [mode EXCEPT !.pos = 1]]

CASMismatch(mode, f) ==
  IF f = "STORE" THEN ErrOnNextN(mode, f) ELSE [inject |-> FALSE, mode |-> mode]

Injections(mode, f) ==
  CASE mode.kind = "First" -> {ErrOnFirst(mode, f)}
    [] mode.kind = "Next_N" -> {ErrOnNextN(mode, f)}
    [] mode.kind = "Random" -> {ErrRandom(mode, roll) : roll \in 1 .. RollMax}
    [] mode.kind = "Sequence" -> {ErrSequence(mode, f)}
    [] mode.kind = "No_Notify" -> {ErrOnNoNotify(mode, f)}
    [] mode.kind = "CasMismatch" -> {CASMismatch(mode, f)}
    [] OTHER -> {[inject |-> FALSE, mode |-> mode]}

\* add_to_pending_io_ops
AddToPending(mode) == mode.kind # "No_Notify"

\* What becomes of a call: "real" passes it on to the real engine.
NotifiesAlways(r, c, f) ==
  IF is_connection_suspended(r, c) THEN {[r |-> r, outcome |-> "EWOULDBLOCK"]}
  ELSE {LET s == [r EXCEPT !.mode[c] = i.mode]
        IN IF ~ i.inject THEN [r |-> s, outcome |-> "real"]
           ELSE [r |-> schedule_notification(s, c), outcome |-> i.mode.err] :
          i \in Injections(r.mode[c], f)}

should_inject_error(r, c, f) ==
  IF is_connection_suspended(r, c) THEN {[r |-> r, outcome |-> "EWOULDBLOCK"]}
  ELSE {LET s == [r EXCEPT !.mode[c] = i.mode]
        IN IF ~ i.inject THEN [r |-> s, outcome |-> "real"]
           ELSE [r |-> IF i.mode.err = "EWOULDBLOCK" /\ AddToPending(i.mode)
                       THEN schedule_notification(s, c) ELSE s,
                 outcome |-> i.mode.err] :
          i \in Injections(r.mode[c], f)}

-----------------------------------------------------------------------------
(* The functions the server calls *)

\* allocate, remove, get, store, arithmetic, get_stats and unknown_command; an
\* error, of the real engine too, ends the command.  flush is passed straight on.
EngineCall(c) ==
  /\ Ready
  /\ ew.conn[c].pc = "call"
  /\ EwbMutexFree(ew)
  /\ \E o \in should_inject_error(ew, c, Head(ew.conn[c].left)), succeeds \in BOOLEAN :
       LET left == Tail(ew.conn[c].left)
           goesOn == o.outcome = "real" /\ succeeds /\ left # <<>>
           conn == [pc |-> CASE o.outcome = "EWOULDBLOCK" -> "blocked"
                             [] goesOn -> "call"
                             [] OTHER -> "idle",
                    left |-> CASE o.outcome = "EWOULDBLOCK" -> ew.conn[c].left
                               [] goesOn -> left
                               [] OTHER -> <<>>,
                    of |-> NoEwbConn]
       IN ew' = [o.r EXCEPT !.conn[c] = conn]

\* A client sends a command.
Begins(c) ==
  /\ Ready
  /\ ew.conn[c].pc = "idle"
  /\ ew.made < MaxEwbCalls
  /\ \E cmd \in EwbCommands :
       ew' = [ew EXCEPT !.conn[c].pc = "call", !.conn[c].left = cmd, !.made = @ + 1]

\* EWOULDBLOCK_CTL; an id or a file it refuses leaves everything as it is.
unknown_command(c) ==
  /\ Ready
  /\ ew.conn[c].pc = "idle"
  /\ ew.controls < MaxControls
  /\ \/ \E mode \in EwbModes[c] :
          ew' = Control([ew EXCEPT !.mode[c] = mode])
     \/ \E id \in EwbIds : handleSuspend(c, id)
     \/ \E id \in EwbIds : handleResume(c, id)
     \/ \E id \in EwbIds : handleBlockMonitorFile(c, id)

-----------------------------------------------------------------------------
(* The end *)

\* The server deletes a bucket no connection uses.
destroy ==
  /\ ew.state \in {"ready", "failed"}
  /\ \A c \in EwbConns : ew.conn[c].pc = "idle"
  /\ ew' = EwbSignalled([ew EXCEPT !.state = "destroying", !.stop = TRUE])

\* The destructors: the thread has ended, then each of the monitors.
Destroyed ==
  /\ ew.state = "destroying"
  /\ ew.thread = "stopped"
  /\ \A id \in EwbIds : ew.monitors[id] = 0
  /\ \A c \in EwbConns : ew.woken[c] = 0
  /\ ew' = [ew EXCEPT !.state = "gone"]

EwbNext ==
  \/ initialize \/ process_notifications \/ RemoveFile \/ destroy \/ Destroyed
  \/ \E id \in EwbIds : BlockMonitor(id)
  \/ \E c \in EwbConns :
       \/ Begins(c) \/ EngineCall(c)
       \/ unknown_command(c) \/ ResumeEnds(c) \/ MonitorEnds(c)

EwbSpec == EwbInit /\ [][EwbNext]_ew

-----------------------------------------------------------------------------
(* Properties *)

InQueue(c) == {i \in DOMAIN ew.queue : ew.queue[i] = c}

Resumers(c) == {d \in EwbConns : ew.conn[d].of = c}

\* The notifications of c that are on their way to the server.
PendingFor(c) ==
  Cardinality(InQueue(c)) + (IF ew.cookie = c THEN 1 ELSE 0)
    + ew.woken[c] + Cardinality(Resumers(c))

(* The server is notified once for every call that was blocked and not     *)
(* otherwise, except when somebody resumes a connection that does not wait *)
(* for this; and a call that was blocked has its notification on the way   *)
(* unless the connection is suspended or asked for none                    *)
(* (should_inject_error, resume).                                          *)
NotifiedOncePerBlock ==
  \A c \in EwbConns :
    /\ PendingFor(c) <= (IF ew.conn[c].pc = "blocked" THEN 1 ELSE 0) + ew.early[c]
    /\ ew.conn[c].pc = "blocked" /\ AddToPending(ew.mode[c]) =>
         is_connection_suspended(ew, c) \/ PendingFor(c) > 0

============================================================================
