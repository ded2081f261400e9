-------------------------------- MODULE Sasl --------------------------------
(***************************************************************************)
(* Authentication (cbsasl): the exchange of messages between a client and  *)
(* the server on one connection, with the mechanisms SCRAM and PLAIN,      *)
(* while the password file changes and the database is loaded again.       *)
(*                                                                         *)
(* The functions of the cryptography are free: two digests, proofs or      *)
(* signatures are equal exactly if they were computed from the same values,*)
(* and otherwise they differ in more than the lowest bits of the digits.   *)
(* A random password, nonce or salt is new.  An entry of the database has  *)
(* the secrets for every mechanism.                                        *)
(***************************************************************************)
EXTENDS Integers, Sequences

CONSTANTS
  SaslUser,    \* names
  Passwords,   \* passwords
  PwFiles,     \* what password files say: functions from names to passwords
  MechLists,   \* settings of "sasl mechanisms"
  MaxLoads,    \* bound: loads of the database
  MaxRounds    \* bound: exchanges a client starts

ASSUME SaslAssumption == MaxLoads \in Nat /\ MaxRounds \in Nat

VARIABLES
  setup,    \* enabled mechanisms (none before init), and whether saslauthd is used
  pwFile,   \* the password file: whether it can be parsed, and passwords
  pwdb,     \* pwmgr.db: users, their passwords and the salt of the secrets
  loads,    \* loads of the database
  peer,     \* the client: its cbsasl_conn_t and how far it got
  backend,  \* server->mech, the state of the mechanism
  saslConn, \* what the server says of the connection
  wire,     \* the message that is on its way
  stored,   \* history: the password of the user when the exchange started
  round     \* exchanges started

SaslVars == <<setup, pwFile, pwdb, loads, peer, backend, saslConn, wire, stored, round>>

NoPassword == "none"

\* availableMechs, best first.
availableMechs == <<"SCRAM_SHA512", "SCRAM_SHA256", "SCRAM_SHA1", "PLAIN">>

Corrupt == [ok |-> FALSE, pw |-> [u \in SaslUser |-> NoPassword]]

FileOf(pw) == [ok |-> TRUE, pw |-> pw]

NoBackend == [mech |-> "none"]
Silence == [to |-> "nobody"]
NotAuthenticated == [authenticated |-> FALSE, username |-> ""]

SaslInit ==
  /\ setup = [enabled |-> {}, ldap |-> FALSE] /\ loads = 0 /\ round = 0 /\ stored = NoPassword
  /\ pwFile = Corrupt
  /\ pwdb = [pw |-> [u \in SaslUser |-> NoPassword], salt |-> 0]
  /\ peer = [at |-> "idle"]
  /\ backend = NoBackend /\ saslConn = NotAuthenticated /\ wire = Silence

-----------------------------------------------------------------------------
(* The database (pwfile.cc, password_database.cc, pwconv.cc, user.cc).     *)

\* The constructor parses the file; secrets made from the old format (pwconv) have
\* a new salt, those of the new format have the salt of the file.
PasswordDatabase(pw, salt) == [pw |-> pw, salt |-> salt]
Salts == {pwdb.salt, loads + 1}

\* A file that cannot be read or parsed leaves the database alone.
load_user_db ==
  /\ loads < MaxLoads
  /\ loads' = loads + 1
  /\ IF pwFile.ok THEN \E salt \in Salts : pwdb' = PasswordDatabase(pwFile.pw, salt)
     ELSE UNCHANGED pwdb

cbsasl_set_available_mechanisms(mechs) ==
  {availableMechs[i] : i \in DOMAIN availableMechs} \cap mechs

cbsasl_server_init(mechs, ldap) ==
  /\ setup.enabled = {}
  /\ setup' = [enabled |-> cbsasl_set_available_mechanisms(mechs), ldap |-> ldap]
  /\ load_user_db
  /\ UNCHANGED <<pwFile, peer, backend, saslConn, wire, stored, round>>

cbsasl_server_refresh ==
  /\ setup.enabled # {}
  /\ load_user_db
  /\ UNCHANGED <<setup, pwFile, peer, backend, saslConn, wire, stored, round>>

\* The administrator writes the file.
WriteFile(content) ==
  /\ loads < MaxLoads
  /\ pwFile' = content
  /\ UNCHANGED <<setup, pwdb, loads, peer, backend, saslConn, wire, stored, round>>

UserOf(name, pw, dummy) == [name |-> name, pw |-> pw, dummy |-> dummy, salt |-> pwdb.salt]

\* A dummy has a random password.
createDummy(name) == UserOf(name, "random", TRUE)

\* A copy of the entry.
find_user(name) ==
  IF pwdb.pw[name] = NoPassword THEN createDummy(name)
  ELSE UserOf(name, pwdb.pw[name], FALSE)

-----------------------------------------------------------------------------
(* SCRAM (scram-sha.cc).                                                   *)

SaltedPassword(mech, pw, salt) == <<mech, pw, salt>>
getAuthMessage(user, cnonce, nonce, salt, echo) == <<user, cnonce, nonce, salt, echo>>
getClientProof(salted, auth) == <<"Client Key", salted, auth>>
getServerSignature(salted, auth) == <<"Server Key", salted, auth>>

\* The client takes the best mechanism of a list.
selectMechanism(mechs) ==
  availableMechs[CHOOSE i \in DOMAIN availableMechs :
    /\ availableMechs[i] \in mechs
    /\ \A j \in 1 .. i - 1 : availableMechs[j] \notin mechs]

cbsasl_listmech == setup.enabled

cbsasl_client_new(mech, name, pass) ==
  [at |-> "started", mech |-> mech, user |-> name, pass |-> pass, cnonce |-> round + 1]

\* The first message of a mechanism: PLAIN sends the password.
cbsasl_client_start(mech, name, pass) ==
  [to |-> "server", op |-> "AUTH", mech |-> mech, user |-> name, cnonce |-> round + 1,
   pass |-> IF mech = "PLAIN" THEN pass ELSE NoPassword]

\* The client program; it has asked for the list of mechanisms, or its user names
\* some, and it may have given up the previous exchange.
authenticate(name, pass, mechs) ==
  /\ setup.enabled # {}
  /\ \/ peer.at \in {"idle", "done"}
     \/ wire.to = "client" /\ wire.status = "CONTINUE"
  /\ round < MaxRounds
  /\ round' = round + 1
  /\ LET mech == selectMechanism(mechs)
     IN  /\ peer' = cbsasl_client_new(mech, name, pass)
         /\ wire' = cbsasl_client_start(mech, name, pass)
  /\ UNCHANGED <<setup, pwFile, pwdb, loads, backend, saslConn, stored>>

\* The first step: the proof.
cbsasl_client_step ==
  /\ peer.at = "started" /\ wire.to = "client" /\ wire.status = "CONTINUE"
  /\ LET salted == SaltedPassword(peer.mech, peer.pass, wire.salt)
         auth == getAuthMessage(peer.user, peer.cnonce, wire.nonce, wire.salt, wire.nonce)
     IN  /\ wire' = [to |-> "server", op |-> "STEP", echo |-> wire.nonce,
                     proof |-> getClientProof(salted, auth)]
         /\ peer' = [at |-> "proved", mech |-> peer.mech, user |-> peer.user,
                     pass |-> peer.pass, signature |-> getServerSignature(salted, auth)]
  /\ UNCHANGED <<setup, pwFile, pwdb, loads, backend, saslConn, stored, round>>

\* The exchange is over; the second step checks the signature of the server.
ClientDone ==
  /\ wire.to = "client" /\ wire.status # "CONTINUE"
  /\ peer' = [at |-> "done", user |-> peer.user, pass |-> peer.pass,
              result |-> IF wire.status = "OK" /\ peer.at = "proved"
                         THEN IF wire.signature = peer.signature THEN "OK" ELSE "FAIL"
                         ELSE wire.status]
  /\ wire' = Silence
  /\ UNCHANGED <<setup, pwFile, pwdb, loads, backend, saslConn, stored, round>>

-----------------------------------------------------------------------------
(* The server (server.cc, plain.cc, scram-sha.cc, sasl_tasks.cc).          *)

\* What saslauthd may answer, an exception included.
SaslauthdAnswers == {"OK", "PWERR", "FAIL"}

PlainStart(request) ==
  LET user == find_user(request.user)
  IN  IF user.dummy THEN IF setup.ldap THEN SaslauthdAnswers ELSE {"NOUSER"}
      ELSE IF user.pw = request.pass THEN {"OK"} ELSE {"PWERR"}

SaslAccepted(error) == error = "OK"

\* notifyExecutionComplete, and the response.
Complete(error, username, fields) ==
  /\ saslConn' = [authenticated |-> SaslAccepted(error), username |-> username]
  /\ wire' = fields

\* ScramShaServerBackend::start.
ScramStart(request) ==
  [mech |-> request.mech, user |-> find_user(request.user), cnonce |-> request.cnonce,
   nonce |-> <<request.cnonce, round>>]

\* A mechanism that is not enabled has no backend.
createServerBackend(mech) == mech \in setup.enabled

cbsasl_server_start(request) ==
  \/ /\ ~createServerBackend(request.mech)
     /\ backend' = NoBackend
     /\ Complete("NOMEM", "", [to |-> "client", status |-> "NOMEM"])
  \/ /\ createServerBackend(request.mech) /\ request.mech = "PLAIN"
     /\ backend' = [mech |-> "PLAIN"]
     /\ \E error \in PlainStart(request) :
          Complete(error, request.user, [to |-> "client", status |-> error])
  \/ /\ createServerBackend(request.mech) /\ request.mech # "PLAIN"
     /\ backend' = ScramStart(request)
     /\ Complete("CONTINUE", request.user,
                 [to |-> "client", status |-> "CONTINUE", nonce |-> ScramStart(request).nonce,
                  salt |-> ScramStart(request).user.salt])

StartSaslAuthTask ==
  /\ wire.to = "server" /\ wire.op = "AUTH"
  /\ stored' = pwdb.pw[wire.user]
  /\ cbsasl_server_start(wire)
  /\ UNCHANGED <<setup, pwFile, pwdb, loads, peer, round>>

\* The user of a step is the one found at the start.
StepUserAgain(b) == find_user(b.user.name)
StepUser(b) == b.user

\* The bits in which two digits differ.
cbsasl_secure_compare(a, b) == IF a = b THEN 0 ELSE 2

\* The result of the comparison XOR user.isDummy().
StepSaslAuthTask ==
  /\ wire.to = "server" /\ wire.op = "STEP"
  /\ LET user == StepUser(backend)
         salted == SaltedPassword(backend.mech, user.pw, user.salt)
         auth == getAuthMessage(user.name, backend.cnonce, backend.nonce, user.salt, wire.echo)
         fail == cbsasl_secure_compare(wire.proof, getClientProof(salted, auth))
                   # (IF user.dummy THEN 1 ELSE 0)
         error == IF ~fail THEN "OK" ELSE IF user.dummy THEN "NOUSER" ELSE "PWERR"
     IN  Complete(error, user.name,
                  [to |-> "client", status |-> error,
                   signature |-> IF user.dummy /\ setup.ldap
                                 THEN "scram-not-supported-for-ldap-users"
                                 ELSE getServerSignature(salted, auth)])
  /\ UNCHANGED <<setup, pwFile, pwdb, loads, peer, backend, stored, round>>

\* A step that nobody asked for: there is no backend, the mechanism has no steps,
\* or the message has no proof.
cbsasl_server_step ==
  /\ setup.enabled # {} /\ peer.at \in {"idle", "done"}
  /\ saslConn' = [authenticated |-> FALSE, username |-> saslConn.username]
  /\ UNCHANGED <<setup, pwFile, pwdb, loads, peer, backend, wire, stored, round>>

SaslNext ==
  \/ \E mechs \in MechLists, ldap \in BOOLEAN : cbsasl_server_init(mechs, ldap)
  \/ cbsasl_server_refresh
  \/ \E content \in {Corrupt} \cup {FileOf(pw) : pw \in PwFiles} : WriteFile(content)
  \/ \E name \in SaslUser, pass \in Passwords, mechs \in MechLists \cup {cbsasl_listmech} :
       authenticate(name, pass, mechs)
  \/ cbsasl_client_step \/ ClientDone
  \/ StartSaslAuthTask \/ StepSaslAuthTask \/ cbsasl_server_step

SaslSpec == SaslInit /\ [][SaslNext]_SaslVars

-----------------------------------------------------------------------------
(* Properties *)

\* An exchange succeeds for the client exactly if its password was the user's
\* when the server started it and its mechanism is enabled, whatever is written
\* and loaded until the exchange ends; a name that is not in the database may be
\* known to saslauthd.  The connection is that user's only by an exchange that
\* ended well: not by one the client has abandoned, nor, once another one has
\* started, by the previous one (restartAuthentication, notifyExecutionComplete).
SaslVerdict ==
  /\ peer.at = "done" =>
       IF stored # NoPassword
       THEN (peer.result = "OK") <=> (peer.pass = stored /\ backend.mech \in setup.enabled)
       ELSE peer.result = "OK" => setup.ldap /\ backend.mech = "PLAIN"
  /\ saslConn.authenticated /\ stored # NoPassword
     /\ ~(wire.to = "server" /\ wire.op = "AUTH")
       => peer.pass = stored /\ saslConn.username = peer.user

=============================================================================
