------------------------------ MODULE Dispatch ------------------------------
(***************************************************************************)
(* Reading a request and choosing its executor (mcbp_executors.cc, from    *)
(* try_read_mcbp_command to process_bin_packet), and the requests that are *)
(* refused on the way: by the state of the server, the authentication, the *)
(* privileges and the validators.                                          *)
(***************************************************************************)
EXTENDS DataCommands, StreamCommands, AdminCommands

CONSTANTS
  Requests,     \* the commands that the clients send
  Arg(_)        \* the variants of a command that its executor tells apart

ASSUME DispatchAssumption ==
  Requests \subseteq DataCommands \cup StreamCommands \cup AdminCommands

\* The connections that wait for a request: a stream is full duplex.
Reading == {"waiting", "ship_log"}

RefusedOnSight(x) ==
  {Closing(x)} \cup {[y EXCEPT !.go = "closing"] :
                       y \in mcbp_write_packet(x, "EINVAL")}

\* with dispatch_bin_command and bin_read_chunk
try_read_mcbp_command ==
  /\ c.state \in Reading
  /\ \E cmd \in Requests : \E arg \in Arg(cmd) :
       LET x == [c EXCEPT !.cmd = cmd, !.arg = arg, !.fresh = TRUE,
                          !.blocks = 0, !.answer = "none", !.ret = "SUCCESS",
                          !.whose = "own", !.slip = FALSE, !.held = Known(c)]
       IN  c' \in RefusedOnSight(x)
                  \cup {[x EXCEPT !.state = "nread", !.noreply = FALSE]}

\* process_bin_packet refuses a request: the privileges do not suffice, or it is
\* not valid.  Responses are not checked.
process_bin_packet ==
  /\ Executing(Requests \ StreamResponses)
  /\ c.fresh
  /\ c' \in mcbp_write_packet(Begun(c), "EACCESS")
             \cup {[x EXCEPT !.go = "closing"] :
                     x \in mcbp_write_packet(Begun(c), "EINVAL")}

=============================================================================
