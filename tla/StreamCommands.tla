--------------------------- MODULE StreamCommands ---------------------------
(***************************************************************************)
(* TAP and DCP (mcbp_executors.cc): the messages a client sends on a       *)
(* stream, the responses to our own messages, and the functions that send  *)
(* the stream.  A connection that ships a stream reads its next request    *)
(* straight from conn_ship_log.                                            *)
(***************************************************************************)
EXTENDS Mcbp

TapMessages == {"TAP_MUTATION", "TAP_DELETE", "TAP_FLUSH", "TAP_OPAQUE",
                "TAP_VBUCKET_SET", "TAP_CHECKPOINT_START", "TAP_CHECKPOINT_END"}

\* What the other end acknowledges or answers: a response, not a request.
StreamResponses == {"TAP_ACK", "DCP_RESPONSE", "NOOP_RESPONSE"}

DcpRequests ==
  {"DCP_OPEN", "DCP_ADD_STREAM", "DCP_CLOSE_STREAM", "DCP_GET_FAILOVER_LOG",
   "DCP_STREAM_REQ", "DCP_NOOP", "DCP_CONTROL"}

\* Messages of a stream that are answered only when they fail.
DcpMessages ==
  {"DCP_STREAM_END", "DCP_SNAPSHOT_MARKER", "DCP_MUTATION", "DCP_DELETION",
   "DCP_EXPIRATION", "DCP_FLUSH", "DCP_SET_VBUCKET_STATE",
   "DCP_BUFFER_ACKNOWLEDGEMENT"}

StreamCommands == {"TAP_CONNECT"} \cup TapMessages \cup StreamResponses
                    \cup DcpRequests \cup DcpMessages

ShipLog(x) == [x EXCEPT !.state = "ship_log"]

-----------------------------------------------------------------------------
(* TAP                                                                     *)

\* An engine without TAP answers NOT_SUPPORTED.
tap_connect_executor ==
  /\ Executing({"TAP_CONNECT"})
  /\ \/ c' \in mcbp_write_packet(Begun(c), "NOT_SUPPORTED")
     \/ c' = [Begun(c) EXCEPT !.state = "setup_tap_stream"]

\* conn_setup_tap_stream: the request may be invalid, and the engine may have
\* no iterator for it.
process_bin_tap_connect ==
  /\ c.state = "setup_tap_stream"
  /\ \/ c' = Closing(c)
     \/ c' \in {[x EXCEPT !.go = "closing"] :
                  x \in mcbp_write_packet(c, "NOT_SUPPORTED")}
     \/ c' = ShipLog([c EXCEPT !.tap = TRUE])

\* aiostat is read but not reset.  A message whose time to live is over is
\* refused whatever was notified.
process_bin_tap_packet ==
  \/ /\ c.cmd = "TAP_MUTATION" /\ c.arg # "expired"
     /\ c.aiostat = "SUCCESS"
     /\ c' = Closing(c)  \* no memory to validate the document
  \/ \E r \in IF c.arg = "expired" THEN {"EINVAL"} ELSE Ret(c) :
       LET x == [Begun(c) EXCEPT !.ret = r, !.whose = Whose(c),
                                 !.leftover = c.aiostat # "SUCCESS"]
       IN  c' \in Finish(x, r, IF c.arg = "ack" THEN mcbp_write_response(x)
                               ELSE {NewCmd(x)})

tap_mutation_executor ==
  /\ Executing(TapMessages)
  /\ \/ c.fresh /\ c' \in mcbp_write_packet(Begun(c), "NOT_SUPPORTED")
     \/ process_bin_tap_packet

\* The answer to a message that was shipped; the engine disconnects a
\* connection that is no TAP connection.
process_bin_tap_ack ==
  /\ Executing({"TAP_ACK"})
  /\ c' \in {Closing(c)} \cup (IF c.tap THEN {ShipLog(Begun(c))} ELSE {})

process_bin_noop_response ==
  /\ Executing({"NOOP_RESPONSE"})
  /\ c' = NewCmd(Begun(c))

\* Items are reserved until the messages have been sent.
Reserve(x) ==
  IF x.reserved < MaxReserved
  THEN {x, [Taken(x) EXCEPT !.reserved = @ + 1]} ELSE {x}

Shipping(x) ==
  [x EXCEPT !.cmd = "none", !.ret = "SUCCESS", !.whose = "own", !.answer = "none"]

\* Up to ten events; the model takes two that carry an item.  Nothing to send
\* means to wait, in conn_ship_log.
ship_mcbp_tap_log ==
  /\ c.state = "ship_log" /\ c.tap /\ ~c.dcp
  /\ \E x \in UNION {Reserve(y) : y \in Reserve(Shipping(c))} :
       \/ c' = Closing(x)
       \/ \E next \in {"ship_log", "closing"} :
            c' = [x EXCEPT !.state = "mwrite", !.go = next]

-----------------------------------------------------------------------------
(* DCP: messages that we send                                              *)

\* mutation, deletion and expiration: no room in the buffer, no item info and no
\* memory leave the connection without the item.
dcp_message_mutation(x) == Reserve(x)
dcp_message_deletion(x) == Reserve(x)
dcp_message_expiration(x) == Reserve(x)

\* The messages without an item only fill the buffer: those that ask for or
\* confirm a stream, those about it, and those about the connection.
dcp_message_stream_req(x) == {x}
dcp_message_marker(x) == {x}
dcp_message_control(x) == {x}

DcpMessage(x) ==
  dcp_message_mutation(x) \cup dcp_message_deletion(x)
    \cup dcp_message_expiration(x) \cup dcp_message_stream_req(x)
    \cup dcp_message_marker(x) \cup dcp_message_control(x)

\* The engine has nothing to send and waits, has more, or fails.
ship_mcbp_dcp_log ==
  /\ c.state = "ship_log" /\ c.dcp
  /\ \E x \in UNION {DcpMessage(y) : y \in DcpMessage(Shipping(c))} :
       \/ c' = Closing(x)
       \/ c' = [x EXCEPT !.state = "mwrite", !.go = "ship_log"]

-----------------------------------------------------------------------------
(* DCP: messages that we receive                                           *)

\* An engine without the function answers NOT_SUPPORTED.
DcpExecutor(command, Success(_)) ==
  /\ Executing({command})
  /\ \/ c.fresh /\ c' \in mcbp_write_packet(Begun(c), "NOT_SUPPORTED")
     \/ \E r \in Ret(c) :
          LET x == Acted(c, r) IN c' \in Finish(x, r, Success(x))

Confirmed(x) == mcbp_write_response(x)
Silent(x) == {NewCmd(x)}

\* The engine accepts the message only on a connection that has a stream.
OnStream(x) == IF x.dcp \/ x.tap THEN {ShipLog(x)} ELSE {}

\* The failover log was added to the dynamic buffer by add_failover_log, or not.
add_failover_log(x) == mcbp_response_handler(x, "ok")

WithFailoverLog(x) ==
  UNION {IF y.dyn # "none" THEN mcbp_write_and_free(y)
         ELSE mcbp_write_response(y) : y \in add_failover_log(x)}

dcp_open_executor == DcpExecutor("DCP_OPEN", Confirmed)

dcp_add_stream_executor ==
  DcpExecutor("DCP_ADD_STREAM", LAMBDA x : {ShipLog([x EXCEPT !.dcp = TRUE])})

dcp_close_stream_executor == DcpExecutor("DCP_CLOSE_STREAM", Confirmed)
dcp_get_failover_log_executor ==
  DcpExecutor("DCP_GET_FAILOVER_LOG", WithFailoverLog)

\* ROLLBACK carries a sequence number, so it cannot be notified.
dcp_stream_req_executor ==
  /\ Executing({"DCP_STREAM_REQ"})
  /\ IF c.aiostat = "ROLLBACK" THEN c' = Closing(Acted(c, "ROLLBACK"))
     ELSE \/ DcpExecutor("DCP_STREAM_REQ",
                         LAMBDA x : WithFailoverLog([x EXCEPT !.dcp = TRUE]))
          \/ /\ c.aiostat = "SUCCESS"
             /\ c' \in mcbp_write_and_free(
                         Appended(Acted(c, "ROLLBACK"), "error"))

dcp_stream_end_executor == DcpExecutor("DCP_STREAM_END", OnStream)
dcp_snapshot_marker_executor == DcpExecutor("DCP_SNAPSHOT_MARKER", OnStream)
dcp_mutation_executor == DcpExecutor("DCP_MUTATION", Silent)
dcp_deletion_executor == DcpExecutor("DCP_DELETION", Silent)
dcp_expiration_executor == DcpExecutor("DCP_EXPIRATION", Silent)
dcp_flush_executor == DcpExecutor("DCP_FLUSH", Silent)

\* The one that closes the connection on every error.
dcp_set_vbucket_state_executor ==
  /\ Executing({"DCP_SET_VBUCKET_STATE"})
  /\ \/ c.fresh /\ c' \in mcbp_write_packet(Begun(c), "NOT_SUPPORTED")
     \/ \E r \in Ret(c) :
          LET x == Acted(c, r)
          IN  c' \in (IF r \in {"SUCCESS", "EWOULDBLOCK"}
                      THEN Finish(x, r, OnStream(x)) ELSE {Closing(x)})

dcp_noop_executor == DcpExecutor("DCP_NOOP", Confirmed)
dcp_buffer_acknowledgement_executor ==
  DcpExecutor("DCP_BUFFER_ACKNOWLEDGEMENT", Silent)
dcp_control_executor == DcpExecutor("DCP_CONTROL", Confirmed)

process_bin_dcp_response ==
  /\ Executing({"DCP_RESPONSE"})
  /\ c' \in {Closing(c)} \cup OnStream(Begun(c))

=============================================================================
