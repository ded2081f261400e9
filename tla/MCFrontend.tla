---------------------------- MODULE MCFrontend ----------------------------
(***************************************************************************)
(* What stands between a client and the command it sends: network input    *)
(* and output, the buffers of a worker, the checks of a request, SASL,     *)
(* the control token, and the settings, time and statistics these use.     *)
(* They share no state and are checked side by side: one of them is chosen *)
(* at the start and runs, the others keep their initial state.             *)
(***************************************************************************)
EXTENDS NetInput, NetOutput, NetBuffers, Requests, Sasl, SessionCas, Settings, Clock, TopKeys

VARIABLE part  \* the component that runs

Parts == {"input", "output", "buffers", "requests", "sasl", "session", "settings", "clock", "topkeys"}

FrontendVars == <<part, ni, no, nb, RequestsVars, SaslVars, SessionVars, st, ck, tk>>

Others(p) ==
  /\ IF p = "input" THEN TRUE ELSE UNCHANGED ni
  /\ IF p = "output" THEN TRUE ELSE UNCHANGED no
  /\ IF p = "buffers" THEN TRUE ELSE UNCHANGED nb
  /\ IF p = "requests" THEN TRUE ELSE UNCHANGED RequestsVars
  /\ IF p = "sasl" THEN TRUE ELSE UNCHANGED SaslVars
  /\ IF p = "session" THEN TRUE ELSE UNCHANGED SessionVars
  /\ IF p = "settings" THEN TRUE ELSE UNCHANGED st
  /\ IF p = "clock" THEN TRUE ELSE UNCHANGED ck
  /\ IF p = "topkeys" THEN TRUE ELSE UNCHANGED tk

FrontendInit ==
  /\ part \in Parts
  /\ NetInputInit /\ NetOutputInit /\ NetBuffersInit /\ RequestsInit /\ SaslInit
  /\ SessionInit /\ SettingsInit /\ ClockInit /\ TopKeysInit

Runs(p) == part = p /\ UNCHANGED part /\ Others(p)

FrontendNext ==
  \/ Runs("input") /\ NetInputNext
  \/ Runs("output") /\ NetOutputNext
  \/ Runs("buffers") /\ NetBuffersNext
  \/ Runs("requests") /\ RequestsNext
  \/ Runs("sasl") /\ SaslNext
  \/ Runs("session") /\ SessionNext
  \/ Runs("settings") /\ SettingsNext
  \/ Runs("clock") /\ ClockNext
  \/ Runs("topkeys") /\ TopKeysNext

\* The worker runs a connection whose event comes, and the client reads what is
\* sent to it.
FrontendFairness ==
  /\ WF_ni(part = "input" /\ NetInputThread)
  /\ WF_no(part = "output" /\ NetOutputThread)
  /\ WF_no(part = "output" /\ PeerReads)

FrontendSpec == FrontendInit /\ [][FrontendNext]_FrontendVars /\ FrontendFairness

-----------------------------------------------------------------------------
(* Instances *)

MCNetBodies == <<1, 7, 3>>

MCResponses == {<<2>>, <<2, 5>>, <<3, 1, 4, 1, 1>>}

\* Packets: every command with its extras or without, with and without a key,
\* and with a body that is too short, exact or longer.
ReqFields(cmd) ==
  {<<extlen, keylen, value, number, cas, datatype>> \in
     {0, StructBytes(cmd)} \X {0, 2} \X {-2, 0, 1, 8} \X {0, 1} \X {0, 1} \X {"RAW", "JSON"} :
       /\ extlen + keylen + value >= 0
       /\ (cas = 1 \/ datatype = "JSON") => value = 0 /\ number = 1}

ReqMultiCommands == {"SUBDOC_MULTI_LOOKUP", "SUBDOC_MULTI_MUTATION"}

ReqPlain ==
  UNION {{[cmd |-> cmd, magic |-> "REQ", datatype |-> f[6], cas |-> f[5],
           extlen |-> f[1], keylen |-> f[2], bodylen |-> f[1] + f[2] + f[3],
           number |-> f[4], flags |-> {}, specs |-> <<>>] : f \in ReqFields(cmd)} :
         cmd \in Executors \ ReqMultiCommands}

ReqSession(admin, initialized) ==
  [initialized |-> initialized, require_sasl |-> ~admin, authenticated |-> initialized,
   admin |-> admin, datatype |-> admin, collections |-> admin]

MCSessions == {ReqSession(TRUE, FALSE), ReqSession(FALSE, FALSE), ReqSession(FALSE, TRUE)}

ReqSpec(cmd, path, value) == [cmd |-> cmd, flags |-> {}, pathlen |-> path, valuelen |-> value]

ReqSpecs ==
  {ReqSpec("SUBDOC_GET", 1, 0), ReqSpec("SUBDOC_DICT_ADD", 1, 1),
   ReqSpec("SUBDOC_DELETE", 2, 0), ReqSpec("SUBDOC_GET_COUNT", 0, 1), ReqSpec("SET", 1, 1)}

ReqRepeated(spec, n) == [i \in 1 .. n |-> spec]

ReqBodies ==
  UNION {[1 .. n -> ReqSpecs] : n \in 0 .. 2}
    \cup {ReqRepeated(ReqSpec("SUBDOC_GET", 1, 0), n) : n \in 15 .. 17}
    \cup {ReqRepeated(ReqSpec("SUBDOC_DELETE", 2, 0), n) : n \in 15 .. 17}

ReqEnd(cmd, specs) ==
  MapThenSumSet(LAMBDA i : SpecLen(specs[i], cmd = "SUBDOC_MULTI_MUTATION"), DOMAIN specs)

ReqMulti ==
  {[cmd |-> cmd, magic |-> "REQ", datatype |-> "RAW", cas |-> 0, extlen |-> extlen,
    keylen |-> keylen, bodylen |-> keylen + extlen + ReqEnd(cmd, specs) - cut,
    number |-> 0, flags |-> {}, specs |-> specs] :
     cmd \in ReqMultiCommands, extlen \in {0, 4},
     keylen \in {0, 2}, cut \in {0, 1}, specs \in ReqBodies}

MCPackets == {p \in ReqPlain \cup ReqMulti : p.bodylen >= 0}

MCMechLists == {{"SCRAM_SHA512", "PLAIN"}, {"PLAIN"}}
MCPwFiles == {[u \in SaslUser |-> IF u = "ann" THEN pw ELSE NoPassword] : pw \in Passwords}

\* Values of a configuration, and configurations: keys with a value of the right
\* type or of another, and interfaces.
Conf(kind, v) == [kind |-> kind, v |-> v]
ConfKind(k) ==
  CHOOSE x \in Handlers[k] :
    \/ x \in {"number", "boolean", "tls", "file", "directory", "breakpad"}
    \/ Handlers[k] = Strings
ConfOf(keys, ifcs) == [keys |-> keys, interfaces |-> ifcs, extensions |-> <<>>]
ConfGood(k, v) == k :> Conf(ConfKind(k), v)
ConfBad(k) == k :> Conf("other", 0)
ConfIfc(port, mgmt, maxconn, ssl) ==
  [port |-> Conf("number", port), management |-> Conf("boolean", mgmt),
   maxconn |-> Conf("number", maxconn), ssl |-> Conf("ssl", ssl)]
ConfTwo(m1, m2, ssl) == <<ConfIfc(11209, 1, m1, 0), ConfIfc(11210, 0, m2, ssl)>>

MCStartConfigs ==
  {NoConfig,
   ConfOf(ConfGood("require_init", 1) @@ ConfGood("threads", 4), ConfTwo(5, 7, 1)),
   ConfOf(ConfGood("verbosity", 1) @@ ("unknown_key" :> Conf("number", 1)),
          <<ConfIfc(65536, 0, 3, 0), ConfIfc(11210, 1, 9, 0)>>),
   [ConfOf(ConfGood("max_packet_size", 20), ConfTwo(5, 7, 1)) EXCEPT !.extensions = <<"log">>],
   ConfOf(ConfBad("threads"), <<>>)}

MCEditedConfigs ==
  {ConfOf(ConfGood(k, 3), <<>>) : k \in DOMAIN Handlers}
   \cup {ConfOf(ConfBad(k) @@ ConfGood("verbosity", 3), <<>>) : k \in {"admin", "root", "breakpad"}}
   \cup {ConfOf(ConfGood(k, 3) @@ ConfGood("verbosity", 3), ConfTwo(5, 8, 1)) :
           k \in {"threads", "ssl_minimum_protocol"}}
   \cup {ConfOf(<<>>, ConfTwo(6, 7, 1)), ConfOf(<<>>, ConfTwo(5, 7, 2)),
         ConfOf(<<>>, <<ConfIfc(0, 0, 3, 0), ConfIfc(11210, 1, 8, 0)>>),
         ConfOf(<<>>, <<[ConfIfc(11209, 1, 5, 0) EXCEPT !.port.kind = "string"]>>),
         ConfOf(<<>>, [ConfTwo(5, 7, 1) EXCEPT ![1] = ("backlog" :> Conf("number", 2)) @@ @]),
         ConfOf(ConfGood("max_packet_size", 4100), <<>>)}

MCCmdLines == {<<>>, <<<<"v", 0>>, <<"R", 7>>>>, <<<<"t", 8>>, <<"b", 1>>>>, <<<<"E", 0>>>>}

MCJumps == {-16, 5}

MCKeyHash == [k \in 1 .. 4 |-> IF k = 4 THEN 1 ELSE k]

=============================================================================
