------------------------------ MODULE Requests ------------------------------
(***************************************************************************)
(* The way of one request from its header to its executor: the checks of   *)
(* dispatch_bin_command when the header has been read, and those of        *)
(* process_bin_packet when the body has been read (mcbp_executors.cc),     *)
(* with the privileges of mcbp_privileges.cc and connection.cc.            *)
(***************************************************************************)
EXTENDS Validators, TLC

CONSTANTS
  Packets,        \* requests that clients send
  Sessions,       \* states of a connection that sends one
  MaxPacketSize   \* settings.getMaxPacketSize()

\* The lengths of a header are unsigned, the one of the body a uint32_t.
ASSUME RequestsAssumption ==
  \A p \in Packets :
    p.keylen \in Nat /\ p.extlen \in Nat /\ p.bodylen \in 0 .. LengthSpan - 1

VARIABLES
  packet,   \* the request, {} before there is one
  session,  \* what the server knows of the connection
  outcome   \* how far the request got, and the status of a refusal

RequestsVars == <<packet, session, outcome>>

Reached(stage) == [stage |-> stage, status |-> "SUCCESS"]
Refused(status) == [stage |-> "refused", status |-> status]

-----------------------------------------------------------------------------
(* Privileges (mcbp_privileges.cc): the privileges each command asks for.  *)

Rules(commands, value) == [cmd \in commands |-> value]

ReadCommands == {"GET", "GETQ", "GETK", "GETKQ"}

KeyRules ==
  Rules(ReadCommands, {"Read"})
  @@ Rules({"SET", "SETQ", "ADD", "ADDQ", "REPLACE", "REPLACEQ", "DELETE", "DELETEQ",
            "APPEND", "APPENDQ", "PREPEND", "PREPENDQ", "FLUSH", "FLUSHQ", "TOUCH"},
           {"Write"})
  @@ Rules({"INCREMENT", "INCREMENTQ", "DECREMENT", "DECREMENTQ", "GAT", "GATQ"},
           {"Read", "Write"})
  @@ Rules({"QUIT", "QUITQ", "NOOP", "VERSION", "HELLO", "SASL_LIST_MECHS",
            "SASL_AUTH", "SASL_STEP"}, {})
  @@ Rules({"STAT"}, {"SimpleStats"})
  @@ Rules({"VERBOSITY"}, {"NodeManagement"})

ControlRules ==
  Rules({"IOCTL_GET", "IOCTL_SET", "CONFIG_VALIDATE", "CONFIG_RELOAD",
         "AUDIT_CONFIG_RELOAD", "SHUTDOWN", "GET_VBUCKET"}, {"NodeManagement"})
  @@ Rules({"AUDIT_PUT"}, {"Audit"})
  @@ Rules({"SET_VBUCKET", "DEL_VBUCKET"}, {"BucketManagement"})

StreamRules ==
  Rules({"TAP_CONNECT"}, {"TapProducer"})
  @@ Rules(TapCommands \ {"TAP_OPAQUE"}, {"TapConsumer"})
  @@ Rules({"GET_ALL_VB_SEQNOS"}, {"MetaRead"})
  @@ Rules({"TAP_OPAQUE", "DCP_OPEN", "DCP_NOOP", "DCP_BUFFER_ACKNOWLEDGEMENT",
            "DCP_CONTROL"}, {})
  @@ Rules({"DCP_ADD_STREAM", "DCP_CLOSE_STREAM", "DCP_STREAM_REQ",
            "DCP_GET_FAILOVER_LOG"}, {"DcpProducer"})
  @@ Rules({"DCP_STREAM_END", "DCP_SNAPSHOT_MARKER", "DCP_MUTATION", "DCP_DELETION",
            "DCP_EXPIRATION", "DCP_FLUSH", "DCP_SET_VBUCKET_STATE"}, {"DcpConsumer"})

BucketRules ==
  Rules({"STOP_PERSISTENCE", "START_PERSISTENCE", "SET_PARAM", "EVICT_KEY",
         "RESET_REPLICATION_CHAIN"}, {"NodeManagement"})
  @@ Rules({"GET_REPLICA", "GET_LOCKED", "UNLOCK_KEY"}, {"Read"})
  @@ Rules({"CREATE_BUCKET", "DELETE_BUCKET"}, {"BucketManagement"})
  @@ Rules({"LIST_BUCKETS", "SELECT_BUCKET"}, {})
  @@ Rules({"OBSERVE_SEQNO", "OBSERVE", "LAST_CLOSED_CHECKPOINT"}, {"MetaRead"})
  @@ Rules({"DEREGISTER_TAP_CLIENT"}, {"TapProducer"})

MetaRules ==
  Rules({"GET_META", "GETQ_META"}, {"MetaRead"})
  @@ Rules({"SET_WITH_META", "SETQ_WITH_META", "ADD_WITH_META", "ADDQ_WITH_META",
            "SNAPSHOT_VB_STATES", "VBUCKET_BATCH_COUNT", "DEL_WITH_META",
            "DELQ_WITH_META", "NOTIFY_VBUCKET_UPDATE", "ENABLE_TRAFFIC",
            "DISABLE_TRAFFIC"}, {"MetaWrite"})
  @@ Rules({"CHANGE_VB_FILTER"}, {"TapProducer"})
  @@ Rules({"RETURN_META"}, {"MetaRead", "MetaWrite"})
  @@ Rules({"GET_RANDOM_KEY", "GET_KEYS"}, {"Read"})
  @@ Rules({"GET_CLUSTER_CONFIG"}, {})
  @@ Rules({"CREATE_CHECKPOINT", "CHECKPOINT_PERSISTENCE", "COMPACT_DB",
            "SET_CLUSTER_CONFIG", "SEQNO_PERSISTENCE", "SET_DRIFT_COUNTER_STATE",
            "GET_ADJUSTED_TIME"}, {"NodeManagement"})

SubdocRules ==
  Rules({"SUBDOC_GET", "SUBDOC_EXISTS", "SUBDOC_GET_COUNT", "SUBDOC_MULTI_LOOKUP"},
        {"Read"})
  @@ Rules({"SUBDOC_COUNTER", "SUBDOC_MULTI_MUTATION"}, {"Read", "Write"})
  @@ Rules(SinglePath, {"Write"})

ServiceRules ==
  Rules({"SCRUB", "ISASL_REFRESH", "SSL_CERTS_REFRESH", "GET_CMD_TIMER",
         "INIT_COMPLETE"}, {"NodeManagement"})
  @@ Rules({"SET_CTRL_TOKEN", "GET_CTRL_TOKEN"}, {"SessionManagement"})

McbpPrivilegeChains ==
  KeyRules @@ ControlRules @@ StreamRules @@ BucketRules @@ MetaRules @@ SubdocRules
    @@ ServiceRules

\* The privileges of a connection that is not an administrator's.
checkPrivilege(s, privilege) ==
  \/ s.admin
  \/ privilege \notin {"Stats", "BucketManagement", "SessionManagement", "Audit",
                       "AuditManagement", "XattrRead", "XattrWrite",
                       "CollectionManagement"}

Authorized(s, cmd) ==
  /\ cmd \in DOMAIN McbpPrivilegeChains
  /\ \A privilege \in McbpPrivilegeChains[cmd] : checkPrivilege(s, privilege)

\* Commands that have an executor (get_mcbp_executors).
Executors ==
  DcpCommands \cup TapCommands \cup SinglePath
    \cup (DOMAIN KeyRules \ {"TOUCH", "GAT", "GATQ"})
    \cup {"TAP_CONNECT", "ISASL_REFRESH", "SSL_CERTS_REFRESH", "GET_CMD_TIMER",
          "SET_CTRL_TOKEN", "GET_CTRL_TOKEN", "INIT_COMPLETE", "IOCTL_GET", "IOCTL_SET",
          "CONFIG_VALIDATE", "CONFIG_RELOAD", "AUDIT_PUT", "AUDIT_CONFIG_RELOAD",
          "SHUTDOWN", "SUBDOC_MULTI_LOOKUP", "SUBDOC_MULTI_MUTATION", "CREATE_BUCKET",
          "LIST_BUCKETS", "DELETE_BUCKET", "SELECT_BUCKET"}

-----------------------------------------------------------------------------
(* The header has been read.                                               *)

is_initialized(s, cmd) ==
  s.admin \/ s.initialized \/ cmd \in {"SASL_LIST_MECHS", "SASL_AUTH", "SASL_STEP"}

authenticated(s, cmd) ==
  \/ s.authenticated
  \/ cmd \in {"SASL_LIST_MECHS", "SASL_AUTH", "SASL_STEP", "VERSION", "HELLO"}

\* Additional bits may be set in the datatype of the packet.
invalid_datatype(s, p) == p.datatype = "UNKNOWN" \/ (~Raw(p) /\ ~s.datatype)

dispatch_bin_command(s, p) ==
  /\ outcome.stage = "none"
  /\ packet' = p /\ session' = s
  /\ outcome' =
       IF p.magic # "REQ" THEN Reached("closed")
       ELSE IF ~is_initialized(s, p.cmd) THEN Refused("NOT_INITIALIZED")
       ELSE IF s.require_sasl /\ ~authenticated(s, p.cmd) THEN Refused("AUTH_ERROR")
       ELSE IF \/ invalid_datatype(s, p)
               \/ p.keylen > KEY_MAX_LENGTH
               \/ p.bodylen > MaxPacketSize THEN Refused("EINVAL")
       ELSE Reached("body")

-----------------------------------------------------------------------------
(* The body has been read.                                                 *)

KeyFits(p) == p.bodylen >= p.keylen
validate_bin_header(p) == p.bodylen >= p.keylen + p.extlen

validateCommand(s, p) ==
  invoke(IF s.collections THEN enableCollections(p, commandChains(p))
         ELSE commandChains(p))

Verdict(s, p) ==
  IF ~Authorized(s, p.cmd) THEN Refused("EACCESS")
  ELSE IF ~validate_bin_header(p) THEN Refused("EINVAL")
  ELSE IF validateCommand(s, p) # "SUCCESS" THEN Refused(validateCommand(s, p))
  ELSE Reached(IF p.cmd \in Executors THEN "executor" ELSE "unknown")

process_bin_packet ==
  /\ outcome.stage = "body"
  /\ outcome' = Verdict(session, packet)
  /\ UNCHANGED <<packet, session>>

-----------------------------------------------------------------------------
RequestsInit == packet = {} /\ session = {} /\ outcome = Reached("none")

RequestsNext ==
  \/ \E s \in Sessions, p \in Packets : dispatch_bin_command(s, p)
  \/ process_bin_packet

RequestsSpec == RequestsInit /\ [][RequestsNext]_RequestsVars

\* The bytes after the header that an executor reads through the structure of
\* its request (protocol_binary.h); TAP messages are left to the engine.
DcpBytes(cmd) ==
  CASE cmd = "DCP_STREAM_REQ" -> 48
    [] cmd = "DCP_MUTATION" -> 31
    [] cmd = "DCP_SNAPSHOT_MARKER" -> 20
    [] cmd \in {"DCP_DELETION", "DCP_EXPIRATION"} -> 18
    [] cmd = "DCP_OPEN" -> 8
    [] cmd \in {"DCP_ADD_STREAM", "DCP_STREAM_END", "DCP_BUFFER_ACKNOWLEDGEMENT"} -> 4
    [] cmd = "DCP_SET_VBUCKET_STATE" -> 1
    [] OTHER -> 0

StoreBytes(cmd) ==
  CASE cmd \in {"SET", "SETQ", "ADD", "ADDQ", "REPLACE", "REPLACEQ"} -> 8
    [] cmd \in {"INCREMENT", "INCREMENTQ", "DECREMENT", "DECREMENTQ"} -> 20
    [] OTHER -> 0

StructBytes(cmd) ==
  CASE cmd \in DcpCommands -> DcpBytes(cmd)
    [] cmd \in SinglePath -> SUBDOC_BASIC_EXTRAS_LEN
    [] cmd = "SET_DRIFT_COUNTER_STATE" -> 9
    [] cmd \in {"SET_CTRL_TOKEN", "OBSERVE_SEQNO"} -> 8
    [] cmd \in {"VERBOSITY", "AUDIT_PUT"} -> 4
    [] cmd = "GET_CMD_TIMER" -> 1
    [] OTHER -> StoreBytes(cmd)

Accepted == outcome.stage \in {"executor", "unknown"}

\* Whatever an executor or the engine gets has a body that holds its key, its
\* extras and the structure it is read through, so that the length of the value,
\* an unsigned difference, is the number of bytes that are left.  It takes the
\* check of the header and that of the command together.
RequestCovered ==
  Accepted =>
    /\ packet.keylen + packet.extlen + ValueLen(packet) = packet.bodylen
    /\ packet.cmd \in Executors => StructBytes(packet.cmd) <= packet.bodylen

=============================================================================
