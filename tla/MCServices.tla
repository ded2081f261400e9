---------------------------- MODULE MCServices ----------------------------
(***************************************************************************)
(* Components with threads of their own that share no state, checked side  *)
(* by side: one of them is chosen at the start and runs, the others keep   *)
(* their initial state.                                                    *)
(***************************************************************************)
EXTENDS Assoc, EngineManager, Audit, Logger, Ewb, TapMock

VARIABLE part  \* the component that runs

Parts == {"assoc", "manager", "audit", "logger", "ewouldblock", "tap"}

ServicesVars == <<part, AssocVars, ManagerVars, au, lg, ew, tm>>

Others(p) ==
  /\ IF p = "assoc" THEN TRUE ELSE UNCHANGED AssocVars
  /\ IF p = "manager" THEN TRUE ELSE UNCHANGED ManagerVars
  /\ IF p = "audit" THEN TRUE ELSE UNCHANGED au
  /\ IF p = "logger" THEN TRUE ELSE UNCHANGED lg
  /\ IF p = "ewouldblock" THEN TRUE ELSE UNCHANGED ew
  /\ IF p = "tap" THEN TRUE ELSE UNCHANGED tm

ServicesInit ==
  /\ part \in Parts
  /\ AssocInit /\ ManagerInit /\ AuditInit /\ LoggerInit /\ EwbInit /\ TapInit

Runs(p) == part = p /\ UNCHANGED part /\ Others(p)

ServicesNext ==
  \/ Runs("assoc") /\ AssocNext
  \/ Runs("manager") /\ ManagerNext
  \/ Runs("audit") /\ AuditNext
  \/ Runs("logger") /\ LoggerNext
  \/ Runs("ewouldblock") /\ EwbNext
  \/ Runs("tap") /\ TapNext

\* A thread of a component that runs keeps running.
ServicesFairness ==
  /\ WF_AssocVars(part = "assoc" /\ assoc_maintenance_thread)
  /\ WF_ManagerVars(part = "manager" /\ ScrubberThread)
  /\ WF_ManagerVars(part = "manager" /\ PlacingThread)
  /\ WF_ManagerVars(part = "manager" /\ ShutdownThread)
  /\ WF_au(part = "audit" /\ consume_events)
  /\ WF_au(part = "audit" /\ AuditShutdown)
  /\ WF_lg(part = "logger" /\ logger_thread_main)
  /\ WF_lg(part = "logger" /\ LogWaiters)
  /\ WF_lg(part = "logger" /\ Join)
  /\ WF_tm(part = "tap" /\ IoThread)
  /\ \A c \in TapCookies :
       /\ WF_tm(part = "tap" /\ TapWorker(c))
       /\ WF_tm(part = "tap" /\ dispatch_notification(c))

ServicesSpec == ServicesInit /\ [][ServicesNext]_ServicesVars /\ ServicesFairness

-----------------------------------------------------------------------------
(* Instances *)

MCHashKey == 0 .. 4
MCHashOf == [k \in MCHashKey |-> k]

MCAuditConfigs ==
  {[enabled |-> TRUE, dir |-> "d1", buffered |-> TRUE],
   [enabled |-> FALSE, dir |-> "d2", buffered |-> FALSE]}

MCLineSize ==
  [t \in {"a", "b", Repeated} |-> CASE t = "a" -> 2 [] t = "b" -> 4 [] OTHER -> 3]

MCFault(kind, err, n) == [NoFault EXCEPT !.kind = kind, !.err = err, !.n = n]

MCEwbModes ==
  [c \in EwbConns |->
     IF c = "c1"
     THEN {MCFault("Next_N", "EWOULDBLOCK", 1), MCFault("Sequence", "TMPFAIL", 2),
           MCFault("No_Notify", "EWOULDBLOCK", 0)}
     ELSE {MCFault("First", "EWOULDBLOCK", 0), MCFault("CasMismatch", "KEY_EEXISTS", 1),
           MCFault("Random", "EWOULDBLOCK", 2)}]

MCEwbCommands == {<<"GET">>, <<"ALLOCATE", "STORE">>}

=============================================================================
