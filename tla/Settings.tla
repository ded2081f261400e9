------------------------------ MODULE Settings ------------------------------
(***************************************************************************)
(* The settings of the server (settings.cc, config_parse.cc, cmdline.cc    *)
(* and their listeners in memcached.cc): the defaults, the configuration   *)
(* file and the command line at the start; then the file is edited, a      *)
(* proposed configuration is validated, the file is loaded again and the   *)
(* verbosity is set by a command.  Other parts of the server keep copies   *)
(* of settings: the log level, the TLS options, breakpad and the limits of *)
(* the listening ports.                                                    *)
(*                                                                         *)
(* A value in a configuration is a JSON value [kind, v]: its kind is all a *)
(* handler looks at.  "file" and "directory" are strings that name one,    *)
(* "tls" a string decode_ssl_protocol knows, "ssl" and "breakpad" objects  *)
(* their constructors accept.  One thread at a time changes the settings.  *)
(***************************************************************************)
EXTENDS Integers, Sequences, FiniteSets, TLC, SequencesExt, FiniteSetsExt, Functions

CONSTANTS StartConfigs,  \* configuration files at the start
          EditedConfigs, \* what the file is changed to, or a client proposes
          CmdLines,      \* sequences of options, <<letter, number>>
          MaxEdits       \* bound: changes of the file or the verbosity

VARIABLE st

Strings == {"string", "file", "directory", "tls"}

\* handle_admin .. handle_reqs_event: the kinds each accepts
FirstHandlers ==
  ("admin" :> Strings) @@ ("audit_file" :> {"file"}) @@ ("threads" :> {"number"})
    @@ ("require_init" :> {"boolean"}) @@ ("require_sasl" :> {"boolean"})
    @@ [k \in {"default_reqs_per_event", "reqs_per_event_high_priority",
               "reqs_per_event_med_priority", "reqs_per_event_low_priority"} |-> {"number"}]

\* handle_verbosity .. handle_ssl_minimum_protocol
MoreHandlers ==
  [k \in {"verbosity", "connection_idle_time", "bio_drain_buffer_sz"} |-> {"number"}]
    @@ ("datatype_support" :> {"boolean"}) @@ ("root" :> {"directory"})
    @@ ("ssl_cipher_list" :> Strings) @@ ("ssl_minimum_protocol" :> {"tls"})

\* handle_max_packet_size .. handle_dedupe_nmvb_maps, handle_breakpad
LastHandlers ==
  ("max_packet_size" :> {"number"}) @@ ("sasl_mechanisms" :> Strings)
    @@ [k \in {"stdin_listen", "exit_on_connection_close", "dedupe_nmvb_maps"} |-> {"boolean"}]
    @@ ("breakpad" :> {"breakpad"})

Handlers == FirstHandlers @@ MoreHandlers @@ LastHandlers

\* handle_interface_*
InterfaceHandlers ==
  [k \in {"maxconn", "port", "backlog"} |-> {"number"}] @@ ("host" :> Strings)
    @@ [k \in {"ipv4", "ipv6", "tcp_nodelay", "management"} |-> {"boolean"}]
    @@ ("ssl" :> {"ssl"}) @@ ("protocol" :> {"string"})

Fits(obj, handlers) ==
  \A k \in DOMAIN obj : k \in DOMAIN handlers => obj[k].kind \in handlers[k]

\* handle_max_packet_size: megabytes, as bytes in 32 bits
MegaBytes(v) == v % 4096

\* handle_interface_port: in_port_t has 16 bits
in_port_t(v) == v % 65536

Value(k, v) ==
  IF k = "max_packet_size" THEN MegaBytes(v) ELSE IF k = "port" THEN in_port_t(v) ELSE v

\* The constructor of interface
DefaultInterface ==
  [maxconn |-> 1000, port |-> 11211, backlog |-> 1024, host |-> 0, ipv4 |-> 1, ipv6 |-> 1,
   tcp_nodelay |-> 1, management |-> 0, ssl |-> 0, protocol |-> 0]

Interface(obj) ==
  [k \in DOMAIN DefaultInterface |->
     IF k \in DOMAIN obj THEN Value(k, obj[k].v) ELSE DefaultInterface[k]]

\* Settings::Settings(json), reconfigure on an empty object; ok says that
\* nothing was thrown.  A key no handler is for is ignored.
FromJson(config) ==
  [ok |-> /\ Fits(config.keys, Handlers)
          /\ \A i \in DOMAIN config.interfaces : Fits(config.interfaces[i], InterfaceHandlers),
   keys |-> [k \in DOMAIN config.keys \cap DOMAIN Handlers |-> Value(k, config.keys[k].v)],
   interfaces |-> [i \in DOMAIN config.interfaces |-> Interface(config.interfaces[i])],
   extensions |-> config.extensions]

-----------------------------------------------------------------------------
(* Listeners *)

\* decode_ssl_protocol: 0 is "tlsv1", 1 and 2 the spellings of 1.1, 3 and 4 of 1.2
decode_ssl_protocol(v) == (v + 1) \div 2

\* get_log_level
get_log_level(verbose) == IF verbose \in 0 .. 2 THEN verbose ELSE 3

Copied(key, v) ==
  CASE key = "ssl_minimum_protocol" -> decode_ssl_protocol(v)
    [] key = "verbosity" -> get_log_level(v)
    [] OTHER -> v

Listened == {"breakpad", "ssl_minimum_protocol", "ssl_cipher_list", "verbosity"}

\* notify_changed, for the keys with a listener
notify_changed(s, key) ==
  IF key \in Listened THEN [s EXCEPT !.copy[key] = Copied(key, s.keys[key])] ELSE s

\* calculateMaxconns
calculateMaxconns(s) ==
  [s EXCEPT !.maxconns = MapThenSumSet(LAMBDA i : s.interfaces[i].maxconn, DOMAIN s.interfaces)]

PortLimits(ifc) == [maxconn |-> ifc.maxconn, backlog |-> ifc.backlog, tcp_nodelay |-> ifc.tcp_nodelay]

\* interfaces_changed_listener: the limits of the listening ports; their
\* certificates stay.
interfaces_changed_listener(s) ==
  LET byPort == [p \in {s.interfaces[i].port : i \in DOMAIN s.interfaces} |->
                   s.interfaces[Max({i \in DOMAIN s.interfaces : s.interfaces[i].port = p})]]
  IN calculateMaxconns(
       [s EXCEPT !.ports = [p \in DOMAIN @ |->
          IF p \in DOMAIN byPort THEN PortLimits(byPort[p]) @@ @[p] ELSE @[p]]])

\* The setters: the value, and whoever listens
Set(s, key, v) == notify_changed([s EXCEPT !.keys[key] = v], key)

-----------------------------------------------------------------------------
(* The start *)

\* settings_init
settings_init ==
  [keys |-> [k \in DOMAIN Handlers |->
               CASE k = "threads" -> 4 [] k = "max_packet_size" -> 30
                 [] k = "default_reqs_per_event" -> 20 [] k = "connection_idle_time" -> 0
                 [] k = "admin" -> 9 [] OTHER -> 0],
   interfaces |-> <<DefaultInterface>>, extensions |-> <<>>, maxconns |-> 1000,
   copy |-> [k \in Listened |-> 0], ports |-> <<>>]

SetAll(s, new) == FoldSet(LAMBDA k, acc : Set(acc, k, new.keys[k]), s, DOMAIN new.keys)

\* reconfigure of the global settings: the default interface goes.
Reconfigured(s, new) ==
  LET t == [SetAll(s, new) EXCEPT !.interfaces = new.interfaces, !.extensions = @ \o new.extensions]
  IN IF new.interfaces = <<>> THEN t ELSE interfaces_changed_listener(t)

\* apply_compat_arguments: R, t and v; the other letters change nothing.
Option(s, o) ==
  CASE o[1] = "R" -> Set(s, "default_reqs_per_event", o[2])
    [] o[1] = "t" -> Set(s, "threads", o[2])
    [] o[1] = "v" -> Set(s, "verbosity", s.keys["verbosity"] + 1)
    [] OTHER -> s

apply_compat_arguments(s, options) == FoldLeft(Option, s, options)

\* server_sockets and add_listening_port: the ports of one kind of interface.
\* The port of an interface that leaves the choice to the system is not 0.
server_sockets(s, management) ==
  LET mine == SelectSeq(s.interfaces, LAMBDA ifc : (ifc.management = 1) = management)
      Listen(ports, ifc) ==
        LET p == IF ifc.port = 0 THEN 1 ELSE ifc.port
        IN IF p \in DOMAIN ports THEN ports
           ELSE (p :> (PortLimits(ifc) @@ [ssl |-> ifc.ssl])) @@ ports
  IN [s EXCEPT !.ports = FoldLeft(Listen, @, mine)]

\* create_listen_sockets
create_listen_sockets(s) ==
  LET t == server_sockets(s, TRUE)
  IN IF s.keys["require_init"] = 0 THEN server_sockets(t, FALSE) ELSE t

\* The server is started without -C.
NoConfig == [keys |-> <<>>, interfaces |-> <<>>, extensions |-> <<>>]

SettingsInit ==
  st = [phase |-> "starting", file |-> NoConfig, first |-> NoConfig, options |-> <<>>,
        s |-> settings_init, online |-> FALSE, edits |-> 0, answer |-> "none"]

\* config_load_file: there is no file, it cannot be read, or it is JSON.
config_load_file(config) == IF config = NoConfig THEN {FALSE} ELSE BOOLEAN

\* Options that are not supported any more, or ask for help
EndsProcess == {"E", "e", "I", "m", "M", "f", "n", "D", "k", "L", "P", "d", "u", "a", "s", "r",
                "U", "l", "p", "i", "h"}

\* parse_arguments: the options are looked through, the file is loaded, and then
\* the options take effect.
parse_arguments(s, config, readable, options) ==
  LET new == FromJson(config)
  IN [ok |-> /\ \A i \in DOMAIN options : options[i][1] \notin EndsProcess
             /\ config # NoConfig => readable /\ new.ok,
      s |-> apply_compat_arguments(IF config = NoConfig THEN s ELSE Reconfigured(s, new), options)]

\* memcached_main, as far as it is about settings: a configuration that cannot
\* be loaded ends the process.
MainStarts(config, options) ==
  /\ st.phase = "starting"
  /\ \E readable \in config_load_file(config) :
       LET r == parse_arguments(st.s, config, readable, options)
       IN st' = IF r.ok
                THEN [st EXCEPT !.phase = "running", !.file = config, !.first = config,
                                !.options = options, !.online = r.s.keys["require_init"] = 0,
                                !.s = create_listen_sockets(calculateMaxconns(r.s))]
                ELSE [st EXCEPT !.phase = "exited"]

-----------------------------------------------------------------------------
(* Changes while the server runs *)

FrozenKeys == {"admin", "threads", "audit_file", "require_sasl", "bio_drain_buffer_sz",
               "datatype_support", "root", "require_init", "stdin_listen",
               "exit_on_connection_close", "sasl_mechanisms"}

\* The order in which updateSettings changes the others
LiveKeys == <<"verbosity", "reqs_per_event_high_priority", "reqs_per_event_med_priority",
              "reqs_per_event_low_priority", "default_reqs_per_event", "connection_idle_time",
              "max_packet_size", "ssl_cipher_list", "ssl_minimum_protocol", "dedupe_nmvb_maps">>

FrozenFields == {"host", "port", "ipv4", "ipv6", "protocol", "management"}

LiveLimits == {"maxconn", "backlog", "tcp_nodelay"}

LiveFields == {"maxconn", "backlog", "tcp_nodelay", "ssl"}

\* An interface with a port the system chose is not looked at.
Dynamic(i1, i2) == i1.port = 0 \/ i2.port = 0

SameInterfaces(s, other) ==
  other.interfaces # <<>> =>
    /\ Len(other.interfaces) = Len(s.interfaces)
    /\ \A i \in DOMAIN s.interfaces :
         ~Dynamic(s.interfaces[i], other.interfaces[i]) =>
           \A f \in FrozenFields : s.interfaces[i][f] = other.interfaces[i][f]

SameExtensions(s, other) == other.extensions # <<>> => other.extensions = s.extensions

\* The first part of updateSettings: what cannot be changed dynamically
CanUpdate(s, other) ==
  /\ \A k \in FrozenKeys \cap DOMAIN other.keys : other.keys[k] = s.keys[k]
  /\ SameInterfaces(s, other)
  /\ SameExtensions(s, other)

UpdateKey(s, key, other) ==
  IF key \in DOMAIN other.keys /\ other.keys[key] # s.keys[key]
  THEN Set(s, key, other.keys[key]) ELSE s

UpdateKeys(s, other) ==
  FoldLeft(LAMBDA acc, key : UpdateKey(acc, key, other), s, LiveKeys)

LiveInterface(i1, i2) ==
  IF Dynamic(i1, i2) THEN i1 ELSE [f \in DOMAIN i1 |-> IF f \in LiveFields THEN i2[f] ELSE i1[f]]

\* Some live field of some interface is different.
Noticed(before, after) == before # after

UpdateInterfaces(s, other) ==
  IF other.interfaces = <<>> THEN s
  ELSE LET after == [i \in DOMAIN s.interfaces |-> LiveInterface(s.interfaces[i], other.interfaces[i])]
           t == [s EXCEPT !.interfaces = after]
       IN IF Noticed(s.interfaces, after) THEN interfaces_changed_listener(t) ELSE t

\* The second part of updateSettings
Update(s, other) ==
  UpdateKey(UpdateInterfaces(UpdateKeys(s, other), other), "breakpad", other)

updateSettings(s, other, apply) ==
  IF ~CanUpdate(s, other) THEN [ok |-> FALSE, s |-> s]
  ELSE [ok |-> TRUE, s |-> IF apply THEN Update(s, other) ELSE s]

Proposed(config, apply) ==
  LET new == FromJson(config)
  IN IF new.ok THEN updateSettings(st.s, new, apply) ELSE [ok |-> FALSE, s |-> st.s]

\* validate_proposed_config_changes
Validate(config) ==
  /\ st.phase = "running"
  /\ LET r == Proposed(config, FALSE)
     IN st' = [st EXCEPT !.s = r.s, !.answer = IF r.ok THEN "valid" ELSE "refused"]

\* reload_config_file
Reload ==
  /\ st.phase = "running"
  /\ \E readable \in config_load_file(st.file) :
       LET r == IF readable THEN Proposed(st.file, TRUE) ELSE [ok |-> FALSE, s |-> st.s]
       IN st' = [st EXCEPT !.s = r.s, !.answer = IF r.ok THEN "loaded" ELSE "refused"]

EditFile(config) ==
  /\ st.phase = "running" /\ st.file # NoConfig /\ st.edits < MaxEdits
  /\ st' = [st EXCEPT !.file = config, !.edits = @ + 1, !.answer = "none"]

\* verbosity_executor
SetVerbosity(level) ==
  /\ st.phase = "running" /\ st.edits < MaxEdits
  /\ st' = [st EXCEPT !.s = Set(@, "verbosity", IF level > 2 THEN 2 ELSE level),
                      !.edits = @ + 1, !.answer = "none"]

\* init_complete_executor, for a server that had to be initialised: the user
\* ports are opened.
InitComplete ==
  /\ st.phase = "running" /\ ~st.online
  /\ st' = [st EXCEPT !.online = TRUE, !.s = server_sockets(@, FALSE), !.answer = "none"]

SettingsNext ==
  \/ \E config \in StartConfigs, options \in CmdLines : MainStarts(config, options)
  \/ \E config \in EditedConfigs : EditFile(config) \/ Validate(config)
  \/ \E level \in {1, 3} : SetVerbosity(level)
  \/ Reload \/ InitComplete

-----------------------------------------------------------------------------
(* Properties *)

\* After a load that was accepted, every value of the file that may change is in
\* use, and nothing the file does not name has changed.  A configuration that is
\* refused, or only validated, changes nothing: no value, and no copy that the
\* log, TLS, breakpad or a listening port keeps (updateSettings).
LoadedExactly ==
  [][/\ st.phase = "running" /\ st'.answer \in {"refused", "valid"} => st'.s = st.s
     /\ st.phase = "running" /\ st'.answer = "loaded" =>
       LET new == FromJson(st.file)
       IN /\ \A k \in DOMAIN Handlers :
               st'.s.keys[k] = IF k \in DOMAIN new.keys THEN new.keys[k] ELSE st.s.keys[k]
          /\ new.interfaces # <<>> =>
               \A i \in DOMAIN new.interfaces :
                 ~Dynamic(st.s.interfaces[i], new.interfaces[i]) =>
                   st'.s.interfaces[i] = new.interfaces[i]]_st

=============================================================================
