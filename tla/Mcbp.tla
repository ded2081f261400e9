-------------------------------- MODULE Mcbp --------------------------------
(***************************************************************************)
(* One connection of the binary protocol, as the executors of its commands *)
(* see it: the fields of McbpConnection that live from one call of an      *)
(* executor to the next (connection_mcbp.h), the functions of mcbp.cc that *)
(* form a response, and the steps of the state machine between requests    *)
(* (statemachine_mcbp.cc).  Events, pipes and threads are in WorkerThread. *)
(*                                                                         *)
(* The connection is a record.  A function of the source that may take one *)
(* of several ways (an allocation may fail, an engine has no vBucket map)  *)
(* is an operator from a connection to the set of connections it may leave *)
(* behind.  The engine is external: each call returns any of its results.  *)
(***************************************************************************)
EXTENDS Integers, FiniteSets

CONSTANTS
  MaxAttempts,  \* MAXIMUM_ATTEMPTS of a sub-document command
  MaxBlocks,    \* bound: times the engine makes one request wait
  MaxReserved,  \* bound: items reserved for one message of a stream
  Notified      \* results that the engine reports with notify_io_complete

ASSUME McbpAssumption ==
  /\ MaxAttempts \in Nat \ {0}
  /\ MaxBlocks \in Nat \ {0}
  /\ MaxReserved \in Nat \ {0}

\* TMPFAIL stands for every result without a name of its own here.
Result == {"SUCCESS", "EWOULDBLOCK", "DISCONNECT", "KEY_ENOENT", "KEY_EEXISTS",
           "NOT_STORED", "NOT_MY_VBUCKET", "ROLLBACK", "FAILED", "TMPFAIL"}

VARIABLE
  c  \* the connection

(* Fields of c:                                                            *)
(*   state     the function the state machine runs next                    *)
(*   go        write_and_go, the state after a response has been sent      *)
(*   cmd, arg  the request: its command, and the variant of its fields     *)
(*   fresh     the executor has not been called for this request           *)
(*   noreply, aiostat, item, dcp, tap  as in the source                    *)
(*   waits     ewouldblock is set and nobody has notified the connection   *)
(*   blocks    how often this request has waited                           *)
(*   attempts  attempts of a sub-document command in one call              *)
(*   ctx       commandContext                                              *)
(*   reserved  number of reservedItems                                     *)
(*   dyn       what is in the dynamic buffer                               *)
(*   held      references to items that the connection owes the engine     *)
(*   leftover  aiostat was left behind by a message of TAP                 *)
(*   whose     whose status the request took: its own, or that of another  *)
(*   slip      the request took a path that loses or repeats a release     *)
(*   ret       the last result an executor acted upon                      *)
(*   answer    what was sent to the client for this request                *)
(* The features negotiated by HELLO (datatype, extended responses) are not *)
(* kept: an executor may find each of them on or off.                      *)

\* Fields of a context: kind, at (how far it got), old and new (it holds a
\* reference to the document it read and to the one it writes), ok and executed
\* (overall_status and executed of a sub-document command) and ops (how often
\* its operations were applied to the document).
NoCtx == [kind |-> "none", at |-> "none", old |-> FALSE, new |-> FALSE,
          ok |-> TRUE, executed |-> FALSE, ops |-> 0]

NewConnection ==
  [state |-> "new_cmd", go |-> "new_cmd", cmd |-> "none", arg |-> "none",
   fresh |-> FALSE, noreply |-> FALSE, aiostat |-> "SUCCESS", item |-> FALSE,
   dcp |-> FALSE, tap |-> FALSE, waits |-> FALSE, blocks |-> 0, attempts |-> 0,
   ctx |-> NoCtx, reserved |-> 0, dyn |-> "none", held |-> 0, leftover |-> FALSE,
   whose |-> "own", slip |-> FALSE, ret |-> "SUCCESS", answer |-> "none"]

One(b) == IF b THEN 1 ELSE 0

\* References the connection knows of.
Known(x) == One(x.item) + One(x.ctx.old) + One(x.ctx.new) + x.reserved

\* The request is over; what matters is what the connection still holds.
Closing(x) ==
  [x EXCEPT !.state = "closing", !.cmd = "none", !.arg = "none",
            !.fresh = FALSE, !.whose = "own", !.ret = "SUCCESS",
            !.answer = "none", !.blocks = 0, !.attempts = 0]
NewCmd(x) == [x EXCEPT !.state = "new_cmd"]

\* A response is ready to be sent; write_and_go is not set.
Transmit(x, answer) == [x EXCEPT !.state = "mwrite", !.answer = answer]
Reply(x, answer) == [Transmit(x, answer) EXCEPT !.go = "new_cmd"]

\* The engine or a task will notify the connection.
Blocked(x) == [x EXCEPT !.waits = TRUE, !.blocks = @ + 1, !.attempts = 0]

\* References: one is taken, given back, or given back and forgotten.
Taken(x) == [x EXCEPT !.held = @ + 1]
Released(x) == [x EXCEPT !.held = @ - 1]
ItemReleased(x) == [x EXCEPT !.held = @ - One(x.item), !.item = FALSE]
Slipped(x) == [x EXCEPT !.slip = TRUE]

-----------------------------------------------------------------------------
(* Responses (mcbp.cc).                                                    *)

\* Quiet commands are not answered when they succeed.  Adding the header may
\* fail, as memory for the message may.
mcbp_write_response(x) ==
  IF x.noreply /\ x.cmd \notin {"GET", "GETK"}
  THEN {NewCmd(x)}
  ELSE {Closing(x), Reply(x, "ok")}

\* The dynamic buffer becomes the response.
mcbp_write_and_free(x) ==
  IF x.dyn = "none"
  THEN {Closing(x)}
  ELSE {Closing(x),
        [x EXCEPT !.state = "write", !.go = "new_cmd", !.answer = x.dyn,
                  !.dyn = "none"]}

\* A packet is added to what is already in the dynamic buffer: behind packets of
\* statistics it is one more packet, behind a document it cannot be found.
Appended(x, packet) ==
  [x EXCEPT !.dyn = IF @ \in {"none", "stats"} THEN packet ELSE "garbled"]

\* mcbp_response_handler and get_vb_map_cb format a packet, or fail.
mcbp_response_handler(x, packet) == {Appended(x, packet), x}

\* An error is answered even if the command is quiet.  NOT_MY_VBUCKET carries
\* the map of the vBuckets when the engine provides one.  The code does not look
\* whether mcbp_add_header failed: the lists of messages and of iovecs always
\* have room for the first entry (MSG_LIST_INITIAL, IOV_LIST_INITIAL).
mcbp_write_packet(x, err) ==
  CASE err = "SUCCESS" -> mcbp_write_response(x)
    [] err = "NOT_MY_VBUCKET" ->
         {Closing(x), Reply(x, "error")}
           \cup mcbp_write_and_free(Appended(x, "error"))
    [] OTHER -> {Reply(x, "error")}

-----------------------------------------------------------------------------
(* The call of an executor (conn_nread, mcbp_complete_nread).              *)

Executing(commands) ==
  /\ c.state = "nread" /\ ~c.waits
  /\ c.cmd \in commands

\* What a call of the engine may return.
Engine(x) == {r \in Result : r = "EWOULDBLOCK" => x.blocks < MaxBlocks}

\* ret = c->getAiostat(); c->setAiostat(ENGINE_SUCCESS); and the call of the
\* engine, unless the result has been notified.
Ret(x) == IF x.aiostat # "SUCCESS" THEN {x.aiostat} ELSE Engine(x)

Begun(x) == [x EXCEPT !.fresh = FALSE]

\* A request that has not been executed before has no status of its own: what it
\* finds in aiostat was left by a message of TAP, or by some other request.
Whose(x) ==
  CASE ~x.fresh \/ x.aiostat = "SUCCESS" -> x.whose
    [] x.fresh /\ x.aiostat # "SUCCESS" /\ x.leftover -> "tap"
    [] OTHER -> "other"

ActedAndKept(x, r) == [Begun(x) EXCEPT !.ret = r, !.whose = Whose(x)]
Acted(x, r) == [Begun(x) EXCEPT !.aiostat = "SUCCESS", !.leftover = FALSE,
                                !.ret = r, !.whose = Whose(x)]

\* The switch that ends most executors.
Finish(x, r, success) ==
  CASE r = "SUCCESS" -> success
    [] r = "EWOULDBLOCK" -> {Blocked(x)}
    [] r = "DISCONNECT" -> {Closing(x)}
    [] OTHER -> mcbp_write_packet(x, r)

\* The functions of the state machine that answer a command whose work was done
\* elsewhere (conn_flush, conn_create_bucket, ...).
Resumed(state) == c.state = state /\ ~c.waits

-----------------------------------------------------------------------------
(* The state machine between requests (statemachine_mcbp.cc).              *)

\* conn_new_cmd with reset_cmd_handler and shrinkBuffers.  A stream is shipped
\* while there is nothing to read (setCurrentTask).  References that have been
\* lost are forgotten, to follow one request at a time.
ClearedBuffer(x) == "none"
ResetContext(x) == [x EXCEPT !.item = FALSE, !.ctx = NoCtx]

reset_cmd_handler ==
  /\ c.state = "new_cmd"
  /\ \E next \in IF c.dcp \/ c.tap THEN {"waiting", "ship_log"} ELSE {"waiting"} :
       LET x == ResetContext(c)
       IN  c' = [x EXCEPT !.state = next, !.cmd = "none", !.arg = "none",
                          !.dyn = ClearedBuffer(c), !.answer = "none",
                          !.ret = "SUCCESS", !.whose = "own", !.slip = FALSE,
                          !.held = IF c.slip THEN Known(x)
                                   ELSE @ - Known(c) + Known(x)]

\* conn_mwrite when everything has been sent; conn_write leaves the reserved
\* items alone.
conn_mwrite ==
  /\ c.state \in {"mwrite", "write"}
  /\ \/ c' = [c EXCEPT !.state = c.go,
                       !.held = IF c.state = "mwrite" THEN @ - c.reserved ELSE @,
                       !.reserved = IF c.state = "mwrite" THEN 0 ELSE @]
     \/ c' = Closing(c)

\* conn_closing: unregisters, closes the socket and releases the item and the
\* reserved items (conn_cleanup_engine_allocations); the command context stays.
conn_closing ==
  /\ c.state = "closing"
  /\ c' = [ItemReleased(c) EXCEPT !.state = "closed", !.held = @ - c.reserved,
                                  !.reserved = 0, !.waits = FALSE]

\* The bucket is being deleted (is_bucket_dying), the client hangs up, or
\* libevent fails.
Dies ==
  /\ c.state \in {"new_cmd", "waiting", "ship_log", "nread"}
  /\ ~c.waits /\ c.attempts = 0
  /\ c' = Closing(c)

\* notify_io_complete, by the engine or by a task, for a request that waits.
notify_io_complete ==
  /\ c.waits
  /\ \E status \in Notified : c' = [c EXCEPT !.aiostat = status, !.waits = FALSE]

=============================================================================
