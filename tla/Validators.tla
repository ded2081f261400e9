----------------------------- MODULE Validators -----------------------------
(***************************************************************************)
(* The checks of a request before its executor runs: the validators of     *)
(* mcbp_validators.cc and subdocument_validators.cc, the chains that       *)
(* mcbp_privileges.cc sets up, and the function chains both are kept in.   *)
(* A packet is its header, with lengths in host order, and the fields of   *)
(* the body that a validator reads.                                        *)
(***************************************************************************)
EXTENDS Integers, Sequences

CONSTANT LengthSpan  \* number of values of a uint32_t length

ASSUME ValidatorsAssumption == LengthSpan \in Nat \ {0}

KEY_MAX_LENGTH == 250
MAX_BUCKET_NAME_LENGTH == 100
IOCTL_KEY_LENGTH == 128
IOCTL_VAL_LENGTH == 128
SUBDOC_PATH_MAX_LENGTH == 1024
SUBDOC_BASIC_EXTRAS_LEN == 3
SUBDOC_EXPIRY_EXTRAS_LEN == 7
MULTI_MAX_PATHS == 16

\* Lengths are subtracted as unsigned numbers.
Minus(a, b) == (a - b) % LengthSpan

(* Fields of a packet p: cmd, magic, datatype, cas, extlen, keylen and     *)
(* bodylen; number, what the extras hold (an expiry time, a state, a new   *)
(* token, the length of a path or of the engine's part); flags, those of a *)
(* sub-document command; specs, the operations in the body of a multi-path *)
(* command.                                                                *)

Valid(p, condition) ==
  IF p.magic = "REQ" /\ condition THEN "SUCCESS" ELSE "EINVAL"

Raw(p) == p.datatype = "RAW"
NoExtras(p) == p.extlen = 0
NoKey(p) == p.keylen = 0
NoCas(p) == p.cas = 0
HeaderOnly(p) == NoExtras(p) /\ NoKey(p) /\ p.bodylen = 0 /\ Raw(p)
ExtrasOnly(p, n) == p.extlen = n /\ NoKey(p) /\ p.bodylen = n /\ Raw(p)
KeyOnly(p) == NoExtras(p) /\ p.keylen = p.bodylen /\ Raw(p)
ValueLen(p) == Minus(Minus(p.bodylen, p.keylen), p.extlen)

-----------------------------------------------------------------------------
(* Validators of the streams.                                              *)

dcp_open_validator(p) == Valid(p, p.extlen = 8 /\ p.keylen # 0 /\ Raw(p))
dcp_add_stream_validator(p) == Valid(p, ExtrasOnly(p, 4))
dcp_close_stream_validator(p) == Valid(p, HeaderOnly(p))
dcp_get_failover_log_validator(p) == Valid(p, HeaderOnly(p))
dcp_stream_req_validator(p) == Valid(p, p.extlen = 48 /\ NoKey(p) /\ Raw(p))
dcp_stream_end_validator(p) == Valid(p, ExtrasOnly(p, 4))
dcp_snapshot_marker_validator(p) == Valid(p, ExtrasOnly(p, 20))
dcp_mutation_validator(p) ==
  Valid(p, p.extlen = 31 /\ p.keylen # 0 /\ p.bodylen # 0)
dcp_deletion_validator(p) == Valid(p, p.extlen = 18 /\ p.keylen # 0)
dcp_expiration_validator(p) ==
  Valid(p, p.extlen = 18 /\ p.keylen # 0 /\ ValueLen(p) = 0)
dcp_flush_validator(p) == Valid(p, HeaderOnly(p))
dcp_set_vbucket_state_validator(p) ==
  Valid(p, ExtrasOnly(p, 1) /\ p.number \in 1 .. 4)
dcp_noop_validator(p) == Valid(p, HeaderOnly(p))
dcp_buffer_acknowledgement_validator(p) == Valid(p, ExtrasOnly(p, 4))
dcp_control_validator(p) ==
  Valid(p, NoExtras(p) /\ p.keylen # 0 /\ Minus(p.bodylen, p.keylen) # 0 /\ Raw(p))

\* TAP messages are checked by the engine; only the lengths must fit the body.
tap_validator(p) ==
  IF 8 > p.bodylen \/ p.number > p.bodylen THEN "EINVAL" ELSE "SUCCESS"

-----------------------------------------------------------------------------
(* Validators of the commands on keys.                                     *)

add_validator(p) == Valid(p, p.extlen = 8 /\ p.keylen # 0 /\ NoCas(p))
set_replace_validator(p) == Valid(p, p.extlen = 8 /\ p.keylen # 0)
append_prepend_validator(p) == Valid(p, NoExtras(p) /\ p.keylen # 0)
get_validator(p) == Valid(p, KeyOnly(p) /\ p.keylen # 0 /\ NoCas(p))
get_collections_validator(p) == "SUCCESS"
delete_validator(p) == Valid(p, KeyOnly(p) /\ p.keylen # 0)
arithmetic_validator(p) ==
  Valid(p, p.extlen = 20 /\ p.keylen # 0 /\ p.keylen + 20 = p.bodylen /\ Raw(p))

\* A delayed flush is not supported any more.
flush_validator(p) ==
  CASE p.extlen \notin {0, 4} \/ p.bodylen # p.extlen -> "EINVAL"
    [] p.extlen = 4 /\ p.number # 0 -> "NOT_SUPPORTED"
    [] OTHER -> Valid(p, NoKey(p) /\ Raw(p) /\ NoCas(p))

-----------------------------------------------------------------------------
(* Validators of the administrative commands.                              *)

isasl_refresh_validator(p) == Valid(p, HeaderOnly(p) /\ NoCas(p))
ssl_certs_refresh_validator(p) == Valid(p, HeaderOnly(p) /\ NoCas(p))
verbosity_validator(p) == Valid(p, ExtrasOnly(p, 4) /\ NoCas(p))
hello_validator(p) ==
  Valid(p, NoExtras(p) /\ Minus(p.bodylen, p.keylen) % 2 = 0 /\ NoCas(p) /\ Raw(p))
version_validator(p) == Valid(p, HeaderOnly(p) /\ NoCas(p))
quit_validator(p) == Valid(p, HeaderOnly(p) /\ NoCas(p))
sasl_list_mech_validator(p) == Valid(p, HeaderOnly(p) /\ NoCas(p))
sasl_auth_validator(p) ==
  Valid(p, NoExtras(p) /\ p.keylen # 0 /\ NoCas(p) /\ Raw(p))
noop_validator(p) == Valid(p, HeaderOnly(p) /\ NoCas(p))
stat_validator(p) == Valid(p, KeyOnly(p) /\ NoCas(p))
get_cmd_timer_validator(p) ==
  Valid(p, p.extlen = 1 /\ p.keylen + 1 = p.bodylen /\ NoCas(p) /\ Raw(p))
set_ctrl_token_validator(p) == Valid(p, ExtrasOnly(p, 8) /\ p.number # 0)
get_ctrl_token_validator(p) == Valid(p, HeaderOnly(p) /\ NoCas(p))
init_complete_validator(p) == Valid(p, HeaderOnly(p))
ioctl_get_validator(p) ==
  Valid(p, KeyOnly(p) /\ p.keylen \in 1 .. IOCTL_KEY_LENGTH /\ NoCas(p))
ioctl_set_validator(p) ==
  Valid(p, /\ NoExtras(p) /\ NoCas(p) /\ Raw(p)
           /\ p.keylen \in 1 .. IOCTL_KEY_LENGTH
           /\ Minus(p.bodylen, p.keylen) <= IOCTL_VAL_LENGTH)
audit_put_validator(p) ==
  Valid(p, p.extlen = 4 /\ NoKey(p) /\ NoCas(p) /\ p.bodylen > 4 /\ Raw(p))
audit_config_reload_validator(p) == Valid(p, HeaderOnly(p) /\ NoCas(p))
observe_seqno_validator(p) ==
  Valid(p, NoExtras(p) /\ NoKey(p) /\ p.bodylen = 8 /\ Raw(p))
get_adjusted_time_validator(p) == Valid(p, HeaderOnly(p) /\ NoCas(p))
set_drift_counter_state_validator(p) == Valid(p, ExtrasOnly(p, 9))
create_bucket_validator(p) ==
  Valid(p, /\ NoExtras(p) /\ p.keylen \in 1 .. MAX_BUCKET_NAME_LENGTH
           /\ Minus(p.bodylen, p.keylen) # 0 /\ Raw(p))
list_bucket_validator(p) == Valid(p, HeaderOnly(p))
delete_bucket_validator(p) ==
  Valid(p, p.keylen # 0 /\ NoExtras(p) /\ p.bodylen # 0 /\ Raw(p))
select_bucket_validator(p) == Valid(p, KeyOnly(p) /\ p.keylen <= 1023)
get_all_vb_seqnos_validator(p) ==
  Valid(p, /\ NoKey(p) /\ p.extlen = p.bodylen /\ NoCas(p) /\ Raw(p)
           /\ p.extlen # 0 => p.extlen = 4 /\ p.number \in 1 .. 4)
shutdown_validator(p) == Valid(p, HeaderOnly(p) /\ ~NoCas(p))

-----------------------------------------------------------------------------
(* Sub-document commands: their traits and validators.                     *)

Traits(flags, value, emptyPath, mutator) ==
  [flags |-> flags, request_has_value |-> value, allow_empty_path |-> emptyPath,
   is_mutator |-> mutator]

\* The flags are MKDIR_P and MKDOC; commands allow both or none of them.
get_traits(cmd) ==
  CASE cmd \in {"SUBDOC_GET", "SUBDOC_EXISTS"} -> Traits(FALSE, FALSE, FALSE, FALSE)
    [] cmd = "SUBDOC_GET_COUNT" -> Traits(FALSE, FALSE, TRUE, FALSE)
    [] cmd \in {"SUBDOC_DICT_ADD", "SUBDOC_DICT_UPSERT", "SUBDOC_COUNTER"} ->
         Traits(TRUE, TRUE, FALSE, TRUE)
    [] cmd = "SUBDOC_DELETE" -> Traits(FALSE, FALSE, FALSE, TRUE)
    [] cmd \in {"SUBDOC_REPLACE", "SUBDOC_ARRAY_INSERT"} -> Traits(FALSE, TRUE, FALSE, TRUE)
    [] OTHER -> Traits(TRUE, TRUE, TRUE, TRUE)

SinglePath ==
  {"SUBDOC_GET", "SUBDOC_EXISTS", "SUBDOC_GET_COUNT", "SUBDOC_DICT_ADD",
   "SUBDOC_DICT_UPSERT", "SUBDOC_COUNTER", "SUBDOC_DELETE", "SUBDOC_REPLACE",
   "SUBDOC_ARRAY_INSERT", "SUBDOC_ARRAY_PUSH_LAST", "SUBDOC_ARRAY_PUSH_FIRST",
   "SUBDOC_ARRAY_ADD_UNIQUE"}

FlagsAllowed(flags, traits) == flags \subseteq (IF traits.flags THEN {"MKDIR_P", "MKDOC"} ELSE {})
PathAllowed(len, traits) == len <= SUBDOC_PATH_MAX_LENGTH /\ (len = 0 => traits.allow_empty_path)

subdoc_validator(p) ==
  LET traits == get_traits(p.cmd)
  IN  Valid(p, /\ p.keylen # 0 /\ Raw(p)
               /\ (Minus(ValueLen(p), p.number) # 0) = traits.request_has_value
               /\ FlagsAllowed(p.flags, traits)
               /\ PathAllowed(p.number, traits)
               /\ \/ p.extlen = SUBDOC_BASIC_EXTRAS_LEN
                  \/ traits.is_mutator /\ p.extlen = SUBDOC_EXPIRY_EXTRAS_LEN)

SpecHeader(mutator) == IF mutator THEN 8 ELSE 4

\* The value of a lookup has no length in its specification.
SpecValue(spec, mutator) == IF mutator THEN spec.valuelen ELSE 0
SpecLen(spec, mutator) == SpecHeader(mutator) + spec.pathlen + SpecValue(spec, mutator)

is_valid_multipath_spec(spec, mutator) ==
  LET traits == get_traits(spec.cmd)
  IN  CASE spec.cmd \notin SinglePath \/ traits.is_mutator # mutator -> "INVALID_COMBO"
        [] /\ FlagsAllowed(spec.flags, traits)
           /\ PathAllowed(spec.pathlen, traits)
           /\ (SpecValue(spec, mutator) # 0) = traits.request_has_value -> "SUCCESS"
        [] OTHER -> "EINVAL"

\* req->request.bodylen < minimum_body_len: the length in the packet is in
\* network order, which the comparison reads as a host order number.
SwappedBelow(bodylen, minimum) ==
  /\ bodylen % 65536 = 0
  /\ ((bodylen \div 65536) % 256) * 256 + (bodylen \div 16777216) < minimum

\* The loop over the specifications in the body; it stops at the first bad one.
ScanStops(scan, bodylen) ==
  \/ scan.status # "SUCCESS"
  \/ scan.paths >= MULTI_MAX_PATHS
  \/ scan.at >= bodylen

subdoc_multi_validator(p) ==
  LET mutator == p.cmd = "SUBDOC_MULTI_MUTATION"
      minimum == p.keylen + p.extlen + SpecHeader(mutator) + 1
      Scan[i \in 0 .. Len(p.specs)] ==
        IF i = 0
        THEN [status |-> "SUCCESS", at |-> p.keylen + p.extlen, paths |-> 0]
        ELSE LET scan == Scan[i - 1]
                 status == is_valid_multipath_spec(p.specs[i], mutator)
             IN  IF ScanStops(scan, p.bodylen)
                 THEN scan
                 ELSE [status |-> status, paths |-> scan.paths + 1,
                       at |-> scan.at + IF status = "SUCCESS"
                                        THEN SpecLen(p.specs[i], mutator) ELSE 0]
      end == Scan[Len(p.specs)]
  IN  CASE \/ p.magic # "REQ" \/ p.keylen = 0 \/ ~Raw(p)
           \/ SwappedBelow(p.bodylen, minimum)
           \/ p.extlen \notin (IF mutator THEN {0, 4} ELSE {0}) -> "EINVAL"
        [] end.status # "SUCCESS" -> end.status
        [] end.paths = 0 \/ end.at # p.bodylen -> "INVALID_COMBO"
        [] OTHER -> "SUCCESS"

-----------------------------------------------------------------------------
(* The chains (function_chain.h): the functions of a chain are called in   *)
(* turn until one of them objects.                                         *)

invoke(chain) ==
  LET failed == {i \in DOMAIN chain : chain[i] # "SUCCESS"}
  IN  IF failed = {} THEN "SUCCESS"
      ELSE chain[CHOOSE i \in failed : \A j \in failed : i <= j]

DcpChain(p) ==
  CASE p.cmd = "DCP_OPEN" -> <<dcp_open_validator(p)>>
    [] p.cmd = "DCP_ADD_STREAM" -> <<dcp_add_stream_validator(p)>>
    [] p.cmd = "DCP_CLOSE_STREAM" -> <<dcp_close_stream_validator(p)>>
    [] p.cmd = "DCP_SNAPSHOT_MARKER" -> <<dcp_snapshot_marker_validator(p)>>
    [] p.cmd = "DCP_DELETION" -> <<dcp_deletion_validator(p)>>
    [] p.cmd = "DCP_EXPIRATION" -> <<dcp_expiration_validator(p)>>
    [] p.cmd = "DCP_FLUSH" -> <<dcp_flush_validator(p)>>
    [] p.cmd = "DCP_GET_FAILOVER_LOG" -> <<dcp_get_failover_log_validator(p)>>
    [] p.cmd = "DCP_MUTATION" -> <<dcp_mutation_validator(p)>>
    [] p.cmd = "DCP_SET_VBUCKET_STATE" -> <<dcp_set_vbucket_state_validator(p)>>
    [] p.cmd = "DCP_NOOP" -> <<dcp_noop_validator(p)>>
    [] p.cmd = "DCP_BUFFER_ACKNOWLEDGEMENT" -> <<dcp_buffer_acknowledgement_validator(p)>>
    [] p.cmd = "DCP_CONTROL" -> <<dcp_control_validator(p)>>
    [] p.cmd = "DCP_STREAM_END" -> <<dcp_stream_end_validator(p)>>
    [] p.cmd = "DCP_STREAM_REQ" -> <<dcp_stream_req_validator(p)>>

DcpCommands ==
  {"DCP_OPEN", "DCP_ADD_STREAM", "DCP_CLOSE_STREAM", "DCP_SNAPSHOT_MARKER",
   "DCP_DELETION", "DCP_EXPIRATION", "DCP_FLUSH", "DCP_GET_FAILOVER_LOG",
   "DCP_MUTATION", "DCP_SET_VBUCKET_STATE", "DCP_NOOP",
   "DCP_BUFFER_ACKNOWLEDGEMENT", "DCP_CONTROL", "DCP_STREAM_END", "DCP_STREAM_REQ"}

TapCommands ==
  {"TAP_MUTATION", "TAP_CHECKPOINT_END", "TAP_CHECKPOINT_START", "TAP_DELETE",
   "TAP_FLUSH", "TAP_OPAQUE", "TAP_VBUCKET_SET"}

\* initializeMcbpValidatorChains, for a bucket without collections.  Commands
\* without a validator have an empty chain.
commandChains(p) ==
  CASE p.cmd \in DcpCommands -> DcpChain(p)
    [] p.cmd \in TapCommands -> <<tap_validator(p)>>
    [] p.cmd \in SinglePath -> <<subdoc_validator(p)>>
    [] p.cmd \in {"SUBDOC_MULTI_LOOKUP", "SUBDOC_MULTI_MUTATION"} ->
         <<subdoc_multi_validator(p)>>
    [] p.cmd = "ISASL_REFRESH" -> <<isasl_refresh_validator(p)>>
    [] p.cmd = "SSL_CERTS_REFRESH" -> <<ssl_certs_refresh_validator(p)>>
    [] p.cmd = "VERBOSITY" -> <<verbosity_validator(p)>>
    [] p.cmd = "HELLO" -> <<hello_validator(p)>>
    [] p.cmd = "VERSION" -> <<version_validator(p)>>
    [] p.cmd \in {"QUIT", "QUITQ"} -> <<quit_validator(p)>>
    [] p.cmd = "SASL_LIST_MECHS" -> <<sasl_list_mech_validator(p)>>
    [] p.cmd \in {"SASL_AUTH", "SASL_STEP"} -> <<sasl_auth_validator(p)>>
    [] p.cmd = "NOOP" -> <<noop_validator(p)>>
    [] p.cmd \in {"FLUSH", "FLUSHQ"} -> <<flush_validator(p)>>
    [] p.cmd \in {"GET", "GETQ", "GETK", "GETKQ"} -> <<get_validator(p)>>
    [] p.cmd \in {"DELETE", "DELETEQ"} -> <<delete_validator(p)>>
    [] p.cmd = "STAT" -> <<stat_validator(p)>>
    [] p.cmd \in {"INCREMENT", "INCREMENTQ", "DECREMENT", "DECREMENTQ"} ->
         <<arithmetic_validator(p)>>
    [] p.cmd = "GET_CMD_TIMER" -> <<get_cmd_timer_validator(p)>>
    [] p.cmd = "SET_CTRL_TOKEN" -> <<set_ctrl_token_validator(p)>>
    [] p.cmd = "GET_CTRL_TOKEN" -> <<get_ctrl_token_validator(p)>>
    [] p.cmd = "INIT_COMPLETE" -> <<init_complete_validator(p)>>
    [] p.cmd = "IOCTL_GET" -> <<ioctl_get_validator(p)>>
    [] p.cmd = "IOCTL_SET" -> <<ioctl_set_validator(p)>>
    [] p.cmd = "AUDIT_PUT" -> <<audit_put_validator(p)>>
    [] p.cmd = "AUDIT_CONFIG_RELOAD" -> <<audit_config_reload_validator(p)>>
    [] p.cmd = "SHUTDOWN" -> <<shutdown_validator(p)>>
    [] p.cmd = "OBSERVE_SEQNO" -> <<observe_seqno_validator(p)>>
    [] p.cmd = "GET_ADJUSTED_TIME" -> <<get_adjusted_time_validator(p)>>
    [] p.cmd = "SET_DRIFT_COUNTER_STATE" -> <<set_drift_counter_state_validator(p)>>
    [] p.cmd \in {"SETQ", "SET", "REPLACEQ", "REPLACE"} -> <<set_replace_validator(p)>>
    [] p.cmd \in {"ADDQ", "ADD"} -> <<add_validator(p)>>
    [] p.cmd \in {"APPENDQ", "APPEND", "PREPENDQ", "PREPEND"} ->
         <<append_prepend_validator(p)>>
    [] p.cmd = "CREATE_BUCKET" -> <<create_bucket_validator(p)>>
    [] p.cmd = "LIST_BUCKETS" -> <<list_bucket_validator(p)>>
    [] p.cmd = "DELETE_BUCKET" -> <<delete_bucket_validator(p)>>
    [] p.cmd = "SELECT_BUCKET" -> <<select_bucket_validator(p)>>
    [] p.cmd = "GET_ALL_VB_SEQNOS" -> <<get_all_vb_seqnos_validator(p)>>
    [] OTHER -> <<>>

\* Bucket::enableCollections adds to the chains of a bucket.
enableCollections(p, chain) ==
  IF p.cmd \in {"GET", "GETQ", "GETK", "GETKQ"}
  THEN Append(chain, get_collections_validator(p)) ELSE chain

=============================================================================
