---------------------------- MODULE AdminCommands ----------------------------
(***************************************************************************)
(* The commands that do not touch documents (mcbp_executors.cc), and the   *)
(* states in which a connection waits for a task to finish its command     *)
(* (statemachine_mcbp.cc).  What the commands do to the buckets, to the    *)
(* session and to the settings is in the modules of those components; here *)
(* they are executors that answer.                                         *)
(***************************************************************************)
EXTENDS Mcbp

\* Answered at once.
SimpleCommands ==
  {"NOOP", "VERSION", "VERBOSITY", "SASL_LIST_MECHS", "INIT_COMPLETE",
   "IOCTL_SET", "CONFIG_RELOAD", "AUDIT_PUT", "SELECT_BUCKET", "SHUTDOWN"}

\* Answered at once, from the dynamic buffer.
FormattedCommands ==
  {"HELLO", "GET_CMD_TIMER", "SET_CTRL_TOKEN", "GET_CTRL_TOKEN", "IOCTL_GET",
   "CONFIG_VALIDATE", "LIST_BUCKETS"}

\* Handed to a task; the connection waits in a state of its own.
TaskCommands ==
  {"ISASL_REFRESH", "SSL_CERTS_REFRESH", "CREATE_BUCKET", "DELETE_BUCKET",
   "AUDIT_CONFIG_RELOAD", "SASL_AUTH"}

AdminCommands == SimpleCommands \cup FormattedCommands \cup TaskCommands
                   \cup {"QUIT", "QUITQ", "STAT", "UNKNOWN"}

Refused(x) == mcbp_write_packet(x, "EACCESS")

-----------------------------------------------------------------------------
(* Answered at once                                                        *)

noop_executor ==
  /\ Executing({"NOOP"})
  /\ c' \in mcbp_write_response(Begun(c))

version_executor ==
  /\ Executing({"VERSION"})
  /\ c' \in mcbp_write_response(Begun(c))

verbosity_executor ==
  /\ Executing({"VERBOSITY"})
  /\ c' \in mcbp_write_response(Begun(c))

sasl_list_mech_executor ==
  /\ Executing({"SASL_LIST_MECHS"})
  /\ c' \in mcbp_write_response(Begun(c))
             \cup mcbp_write_packet(Begun(c), "AUTH_ERROR")

\* init_complete and shutdown succeed if the session has not changed.
UnlessSessionChanged(x) ==
  mcbp_write_packet(x, "SUCCESS") \cup mcbp_write_packet(x, "KEY_EEXISTS")

init_complete_executor ==
  /\ Executing({"INIT_COMPLETE"})
  /\ c' \in UnlessSessionChanged(Begun(c))

shutdown_executor ==
  /\ Executing({"SHUTDOWN"})
  /\ c' \in UnlessSessionChanged(Begun(c))

ioctl_set_executor ==
  /\ Executing({"IOCTL_SET"})
  /\ c' \in UNION {mcbp_write_packet(Begun(c), r) : r \in {"SUCCESS", "EINVAL"}}

config_reload_executor ==
  /\ Executing({"CONFIG_RELOAD"})
  /\ c' \in mcbp_write_packet(Begun(c), "SUCCESS")

audit_put_executor ==
  /\ Executing({"AUDIT_PUT"})
  /\ c' \in mcbp_write_packet(Begun(c), "SUCCESS")
             \cup mcbp_write_packet(Begun(c), "EINTERNAL")

select_bucket_executor ==
  /\ Executing({"SELECT_BUCKET"})
  /\ c' \in Refused(Begun(c))
             \cup UNION {mcbp_write_packet(Begun(c), r) :
                           r \in {"SUCCESS", "KEY_ENOENT"}}

\* The response is sent and the connection closed.
quit_executor ==
  /\ Executing({"QUIT"})
  /\ c' \in {[x EXCEPT !.go = "closing"] : x \in mcbp_write_response(Begun(c))}

quitq_executor ==
  /\ Executing({"QUITQ"})
  /\ c' = Closing(Begun(c))

-----------------------------------------------------------------------------
(* Answered from the dynamic buffer                                        *)

\* A packet is formatted and sent; if it cannot be, ENOMEM is.
Formatted(x, packet) ==
  mcbp_write_and_free(Appended(x, packet)) \cup mcbp_write_packet(x, "ENOMEM")

\* The executors that do not look whether the packet could be formatted close
\* the connection if it was not.
Unchecked(x, packet) ==
  UNION {mcbp_write_and_free(y) : y \in mcbp_response_handler(x, packet)}

\* The answer lists the features that were turned on, if any.
process_hello_packet_executor ==
  /\ Executing({"HELLO"})
  /\ c' \in mcbp_write_packet(Begun(c), "EINTERNAL")
             \cup mcbp_write_packet(Begun(c), "SUCCESS")
             \cup Unchecked(Begun(c), "ok")

get_cmd_timer_executor ==
  /\ Executing({"GET_CMD_TIMER"})
  /\ c' \in Refused(Begun(c)) \cup Unchecked(Begun(c), "ok")
             \cup mcbp_write_packet(Begun(c), "KEY_ENOENT")

set_ctrl_token_executor ==
  /\ Executing({"SET_CTRL_TOKEN"})
  /\ c' \in Unchecked(Begun(c), "ok") \cup Unchecked(Begun(c), "error")

get_ctrl_token_executor ==
  /\ Executing({"GET_CTRL_TOKEN"})
  /\ c' \in Unchecked(Begun(c), "ok")

ioctl_get_executor ==
  /\ Executing({"IOCTL_GET"})
  /\ c' \in Formatted(Begun(c), "ok") \cup mcbp_write_packet(Begun(c), "EINVAL")

config_validate_executor ==
  /\ Executing({"CONFIG_VALIDATE"})
  /\ c' \in mcbp_write_packet(Begun(c), "SUCCESS")
             \cup mcbp_write_packet(Begun(c), "EINVAL")
             \cup Formatted(Begun(c), "error")
             \cup {Closing(Begun(c))}

list_bucket_executor ==
  /\ Executing({"LIST_BUCKETS"})
  /\ c' \in Refused(Begun(c)) \cup Formatted(Begun(c), "ok")

\* append_stats adds packets to the dynamic buffer, as long as there is memory.
append_stats(x) == {x, [x EXCEPT !.dyn = "stats"]}

\* The statistics of the server, and those of one group; some groups are for
\* administrators only.  Either adds packets and returns a result.
server_stats(x) == append_stats(x) \X {"SUCCESS", "TMPFAIL"}
stat_group(x) == (append_stats(x) \X {"SUCCESS", "TMPFAIL"}) \cup {<<x, "FAILED">>}

get_stats(x) ==
  (append_stats(x) \X Engine(x)) \cup server_stats(x) \cup stat_group(x)

\* The last packet ends the statistics; after an error those that were added
\* are left in the buffer.
stat_executor ==
  /\ Executing({"STAT"})
  /\ \E out \in IF c.aiostat = "SUCCESS" THEN get_stats(c)
                ELSE {<<c, c.aiostat>>} :
       LET x == Acted(out[1], out[2])
       IN  c' \in Finish(x, out[2], mcbp_write_and_free([x EXCEPT !.dyn = "ok"]))

\* The engine may have formatted a response or not; after an error the dynamic
\* buffer is cleared.
process_bin_unknown_packet ==
  /\ Executing({"UNKNOWN"})
  /\ \E r \in Ret(c) :
       LET x == Acted(c, r)
           cleared == [x EXCEPT !.dyn = "none"]
       IN  c' \in (IF r \in {"SUCCESS", "EWOULDBLOCK", "DISCONNECT"}
                   THEN Finish(x, r, mcbp_write_and_free(Appended(x, "ok"))
                                       \cup {NewCmd(x)})
                   ELSE mcbp_write_packet(cleared, r))

-----------------------------------------------------------------------------
(* Commands that a task finishes                                           *)

\* The task is started, and the connection waits in state; or it is not started:
\* there is no memory, or a status was left in aiostat.
Scheduled(command, state) ==
  /\ Executing({command})
  /\ LET x == Acted(c, "EWOULDBLOCK")
         started == {[Blocked(x) EXCEPT !.state = state]}
                      \cup mcbp_write_packet(x, "ENOMEM")
     IN  c' \in (IF c.aiostat = "SUCCESS" THEN started
                 ELSE Finish(Acted(c, c.aiostat), c.aiostat, {}))

isasl_refresh_executor == Scheduled("ISASL_REFRESH", "refresh_cbsasl")
ssl_certs_refresh_executor == Scheduled("SSL_CERTS_REFRESH", "refresh_ssl_certs")
create_bucket_executor == Scheduled("CREATE_BUCKET", "create_bucket")
delete_bucket_executor == Scheduled("DELETE_BUCKET", "delete_bucket")

\* Without an audit file there is nothing to do.
audit_config_reload_executor ==
  /\ Executing({"AUDIT_CONFIG_RELOAD"})
  /\ c' \in {[Blocked(Begun(c)) EXCEPT !.state = "audit_configuring"]}
             \cup UNION {mcbp_write_packet(Begun(c), r) :
                           r \in {"SUCCESS", "EINTERNAL"}}

\* The context is set, whatever was there.
sasl_auth_executor ==
  /\ Executing({"SASL_AUTH"})
  /\ c' = [Blocked(Begun(c)) EXCEPT
             !.state = "sasl_auth",
             !.ctx = [NoCtx EXCEPT !.kind = "sasl"],
             !.slip = @ \/ c.ctx.old \/ c.ctx.new]

\* What was notified is the answer.
TaskDone(state) ==
  /\ Resumed(state)
  /\ LET x == Acted(c, c.aiostat)
     IN  c' \in Finish(x, c.aiostat, mcbp_write_response(x))

conn_refresh_cbsasl == TaskDone("refresh_cbsasl")
conn_refresh_ssl_certs == TaskDone("refresh_ssl_certs")
conn_create_bucket == TaskDone("create_bucket")
conn_delete_bucket == TaskDone("delete_bucket")

conn_audit_configuring ==
  /\ Resumed("audit_configuring")
  /\ c' \in mcbp_write_packet(Acted(c, c.aiostat),
              IF c.aiostat = "SUCCESS" THEN "SUCCESS" ELSE "EINTERNAL")

\* The result is in the task, not in aiostat.  A client that fails before the
\* server is initialized is sent away.
conn_sasl_auth ==
  /\ Resumed("sasl_auth")
  /\ LET x == Acted(c, "SUCCESS")
     IN  c' \in mcbp_write_response(x)
                \cup {Closing(x), Reply(x, "continue")}
                \cup mcbp_write_packet(x, "AUTH_ERROR")
                \cup {[y EXCEPT !.go = "closing"] :
                        y \in mcbp_write_packet(x, "NOT_INITIALIZED")}

=============================================================================
