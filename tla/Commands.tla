------------------------------ MODULE Commands ------------------------------
(***************************************************************************)
(* A connection of the binary protocol that serves every command: what is  *)
(* true of it from one request to the next.                                *)
(***************************************************************************)
EXTENDS Dispatch

DataStep ==
  \/ process_bin_get \/ add_set_replace_executor \/ append_prepend_executor
  \/ delete_executor \/ arithmetic_executor \/ flush_executor \/ conn_flush
  \/ subdoc_executor

StreamStep ==
  \/ tap_connect_executor \/ process_bin_tap_connect \/ tap_mutation_executor
  \/ process_bin_tap_ack \/ process_bin_noop_response
  \/ dcp_open_executor \/ dcp_add_stream_executor \/ dcp_close_stream_executor
  \/ dcp_get_failover_log_executor \/ dcp_stream_req_executor
  \/ dcp_stream_end_executor \/ dcp_snapshot_marker_executor
  \/ dcp_mutation_executor \/ dcp_deletion_executor \/ dcp_expiration_executor
  \/ dcp_flush_executor \/ dcp_set_vbucket_state_executor \/ dcp_noop_executor
  \/ dcp_buffer_acknowledgement_executor \/ dcp_control_executor
  \/ process_bin_dcp_response

AdminStep ==
  \/ noop_executor \/ version_executor \/ verbosity_executor
  \/ sasl_list_mech_executor \/ init_complete_executor \/ shutdown_executor
  \/ ioctl_set_executor \/ config_reload_executor \/ audit_put_executor
  \/ select_bucket_executor \/ quit_executor \/ quitq_executor
  \/ process_hello_packet_executor \/ get_cmd_timer_executor
  \/ set_ctrl_token_executor \/ get_ctrl_token_executor \/ ioctl_get_executor
  \/ config_validate_executor \/ list_bucket_executor \/ stat_executor
  \/ process_bin_unknown_packet \/ isasl_refresh_executor
  \/ ssl_certs_refresh_executor \/ create_bucket_executor
  \/ delete_bucket_executor \/ audit_config_reload_executor
  \/ sasl_auth_executor \/ conn_refresh_cbsasl \/ conn_refresh_ssl_certs
  \/ conn_create_bucket \/ conn_delete_bucket \/ conn_audit_configuring
  \/ conn_sasl_auth

\* What the worker thread does with a request that has been read.
WorkerStep ==
  \/ DataStep \/ StreamStep \/ AdminStep \/ process_bin_packet
  \/ reset_cmd_handler \/ conn_mwrite \/ conn_closing

\* A stream is shipped whenever the connection is writable.
ShipStep == ship_mcbp_tap_log \/ ship_mcbp_dcp_log

CommandsInit == c = NewConnection

CommandsNext ==
  WorkerStep \/ ShipStep \/ try_read_mcbp_command \/ Dies \/ notify_io_complete

\* The worker thread serves its connections and the client reads its responses;
\* an engine or a task that made a request wait notifies the connection.
CommandsFairness == WF_c(WorkerStep) /\ WF_c(notify_io_complete)

CommandsSpec == CommandsInit /\ [][CommandsNext]_c /\ CommandsFairness

-----------------------------------------------------------------------------
\* Through waits, retries, errors and a closing connection, the references to
\* items that the connection holds are exactly those it will release: c->item,
\* the items of its context and the reserved ones.  Paths that are known to lose
\* a reference or to release one twice are marked in the model.
ReferencesExact == ~c.slip => c.held = Known(c)

\* The document that a sub-document command stores has had its operations
\* applied once, however often the command waited and was called again.
OpsAppliedOnce == (c.ctx.kind = "subdoc" /\ c.ctx.new) => c.ctx.ops = 1

Silenced == {"DCP_ADD_STREAM", "UNKNOWN", "TAP_CONNECT"} \cup DcpMessages
              \cup TapMessages \cup StreamResponses

Promised ==
  CASE c.cmd \in {"GETQ", "GETKQ"} ->
         (c.answer = "none") <=> (c.ret = "KEY_ENOENT")
    [] c.cmd \in QuietCommands ->
         c.answer # "ok" /\ (c.answer = "none" => c.ret = "SUCCESS")
    [] c.cmd \in Silenced ->
         c.answer = "none" => c.ret = "SUCCESS"
    [] OTHER -> c.answer # "none"

\* When the connection is ready for the next request, the last one was answered
\* on a result of its own: no executor leaves the status of a request that waited
\* in aiostat for the next one, but for process_bin_tap_packet, which never
\* resets it.  With its own result every command has had the answer the protocol
\* promises: a loud one some answer, a quiet mutation and a message of a stream
\* an answer only if it failed, a quiet get an answer unless the engine said that
\* the key does not exist.  The answer is a packet, but for two paths that leave
\* an inflated document in front of it: NOT_MY_VBUCKET within a sub-document
\* command, and a request after one on a connection that ships a stream, which
\* does not come to conn_new_cmd, where the dynamic buffer is cleared.
AnsweredAsPromised ==
  (c.state \in {"new_cmd", "ship_log"} /\ c.cmd # "none")
     => /\ c.whose # "other"
        /\ c.whose = "own" => Promised
        /\ c.answer = "garbled" =>
             \/ c.dcp \/ c.tap
             \/ c.cmd \in SubdocCommands /\ c.ret = "NOT_MY_VBUCKET"

\* Every request that has been read ends: it is answered or passed over and the
\* connection waits for the next one, or the connection is closed.
RequestCompletes ==
  c.state = "nread" ~> c.state \in Reading \cup {"closed", "undefined"}

=============================================================================
