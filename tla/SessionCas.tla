------------------------------ MODULE SessionCas ------------------------------
(***************************************************************************)
(* The control token of the cluster manager (daemon/session_cas.cc): it is *)
(* exchanged by compare and swap, and a command that names the token it    *)
(* expects keeps it from changing until the command is done.               *)
(*                                                                         *)
(* A session is held by init_complete_executor and shutdown_executor while *)
(* they call on, and by a command of an engine (validate_session_cas) for  *)
(* as long as the engine likes, while other threads serve other commands.  *)
(***************************************************************************)
EXTENDS Integers, FiniteSets

CONSTANTS SessionConns,  \* connections, strings
          Tokens,        \* values of the token, 0 excluded (set_ctrl_token_validator)
          FirstToken,    \* the one at the start (0xdeadbeef)
          MaxSessionOps  \* bound: commands

ASSUME SessionAssumption ==
  /\ IsFiniteSet(SessionConns)
  /\ Tokens \subseteq Nat \ {0}
  /\ FirstToken \in Tokens

VARIABLES
  token,     \* SessionCas::value
  sessions,  \* SessionCas::counter
  holds,     \* what each connection holds: [cmd, cas], and the token it started under
  reply,     \* the last answer to each connection: [status, cas]
  effects,   \* what was brought about: is_server_initialized, memcached_shutdown
  sessionOps \* commands so far

SessionVars == <<token, sessions, holds, reply, effects, sessionOps>>

SessionCmd == {"init_complete", "shutdown", "engine"}
NoSession == [cmd |-> "none", cas |-> 0, under |-> 0]
Status == {"none", "SUCCESS", "EBUSY", "KEY_EEXISTS"}

SessionInit ==
  /\ token = FirstToken /\ sessions = 0
  /\ holds = [c \in SessionConns |-> NoSession]
  /\ reply = [c \in SessionConns |-> [status |-> "none", cas |-> 0]]
  /\ effects = {}
  /\ sessionOps = 0

\* A connection sends its next command.
SessionRequest(c) ==
  /\ holds[c] = NoSession
  /\ sessionOps < MaxSessionOps
  /\ sessionOps' = sessionOps + 1

Answered(c, status, cas) == reply' = [reply EXCEPT ![c] = [status |-> status, cas |-> cas]]

ChangesAlways(casval) == IF casval = 0 \/ casval = token THEN "SUCCESS" ELSE "KEY_EEXISTS"

\* SessionCas::cas: what it returns.
Cas(casval) ==
  IF sessions > 0 THEN "EBUSY" ELSE IF casval = 0 \/ casval = token THEN "SUCCESS" ELSE "KEY_EEXISTS"

\* The answer carries the token as it is afterwards.
set_ctrl_token_executor(c) ==
  /\ SessionRequest(c)
  /\ \E newToken \in Tokens, casval \in Tokens \cup {0} :
       /\ token' = IF Cas(casval) = "SUCCESS" THEN newToken ELSE token
       /\ Answered(c, Cas(casval), token')
  /\ UNCHANGED <<sessions, holds, effects>>

get_ctrl_token_executor(c) ==
  /\ SessionRequest(c)
  /\ Answered(c, "SUCCESS", token)
  /\ UNCHANGED <<token, sessions, holds, effects>>

\* A command that needs the session; it is refused if the token is another.
increment_session_counter(c, cmd) ==
  /\ SessionRequest(c)
  /\ \E cas \in Tokens \cup {0} :
       IF cas = 0 \/ token = cas
       THEN /\ sessions' = sessions + 1
            /\ holds' = [holds EXCEPT ![c] = [cmd |-> cmd, cas |-> cas, under |-> token]]
            /\ UNCHANGED reply
       ELSE Answered(c, "KEY_EEXISTS", 0) /\ UNCHANGED <<sessions, holds>>
  /\ UNCHANGED <<token, effects>>

\* set_server_initialized, shutdown_server
SessionEffect(c) ==
  /\ holds[c].cmd \in {"init_complete", "shutdown"} \ effects
  /\ effects' = effects \cup {holds[c].cmd}
  /\ UNCHANGED <<token, sessions, holds, reply, sessionOps>>

\* The session ends, with an answer; at a counter of 0 this throws.
decrement_session_counter(c) ==
  /\ holds[c] # NoSession
  /\ holds[c].cmd \in effects \cup {"engine"}
  /\ sessions > 0
  /\ sessions' = sessions - 1
  /\ holds' = [holds EXCEPT ![c] = NoSession]
  /\ Answered(c, "SUCCESS", 0)
  /\ UNCHANGED <<token, effects, sessionOps>>

SessionNext ==
  \E c \in SessionConns :
    \/ set_ctrl_token_executor(c) \/ get_ctrl_token_executor(c)
    \/ \E cmd \in SessionCmd : increment_session_counter(c, cmd)
    \/ SessionEffect(c) \/ decrement_session_counter(c)

SessionSpec == SessionInit /\ [][SessionNext]_SessionVars

-----------------------------------------------------------------------------
(* Properties *)

(* The types of the state.                                                 *)
SessionTypeOK ==
  /\ token \in Nat /\ sessions \in Nat /\ sessionOps \in Nat
  /\ holds \in [SessionConns -> [cmd : SessionCmd \cup {"none"}, cas : Nat, under : Nat]]
  /\ reply \in [SessionConns -> [status : Status, cas : Nat]]
  /\ effects \subseteq SessionCmd

SessionHolders == {c \in SessionConns : holds[c] # NoSession}

(* A command that was let in runs to its end under the token it found,     *)
(* which is the one it named, and the counter is exactly the number of     *)
(* such commands, so that nothing throws and the token can be changed as   *)
(* soon as there is none (SessionCas::cas, increment_session_counter,      *)
(* decrement_session_counter).                                             *)
SessionStable ==
  /\ \A c \in SessionHolders : holds[c].under = token /\ holds[c].cas \in {0, token}
  /\ sessions = Cardinality(SessionHolders)

=============================================================================
