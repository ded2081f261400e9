----------------------------- MODULE MCServer -----------------------------
(***************************************************************************)
(* Parts of the daemon that share no state, checked side by side: one of   *)
(* them is chosen at the start and runs, the others keep their initial     *)
(* state.                                                                  *)
(***************************************************************************)
EXTENDS Executor, Listen, Process

CONSTANTS s1, s2, s3, p1, p2

VARIABLE part  \* the part that runs

Parts == {"executor", "listen", "process"}

ServerVars == <<part, vars, allListenVars, pr>>

Others(p) ==
  /\ IF p = "executor" THEN TRUE ELSE UNCHANGED vars
  /\ IF p = "listen" THEN TRUE ELSE UNCHANGED allListenVars
  /\ IF p = "process" THEN TRUE ELSE UNCHANGED pr

ServerInit ==
  /\ part \in Parts
  /\ Init /\ ListenInit /\ ProcessInit
  /\ part = "listen" \/ port = CHOOSE f \in [Sock -> Port] : TRUE

Runs(p) == part = p /\ UNCHANGED part /\ Others(p)

ServerNext ==
  \/ Runs("executor") /\ Next
  \/ Runs("listen") /\ ListenNext
  \/ Runs("process") /\ ProcessNext

\* The threads of the part that runs keep running. Two compete for something that
\* others take and give back: an executor for the lock of a worker (Notify) and
\* the dispatcher for its events (dispatch_event_handler).
ServerFairness ==
  /\ \A e \in Pool : /\ WF_vars(part = "executor" /\ ExecutorStep(e))
                     /\ SF_vars(part = "executor" /\ Notify(e))
  /\ \A t \in Task : WF_vars(part = "executor" /\ MakeRunnable(t))
  /\ \A w \in Worker : /\ WF_vars(part = "executor" /\ Schedule(w))
                       /\ WF_vars(part = "executor" /\ LeaveEvent(w))
  /\ WF_allListenVars(part = "listen" /\ Dispatcher)
  /\ SF_allListenVars(part = "listen" /\ dispatch_event_handler)
  /\ WF_allListenVars(part = "listen" /\ is_listen_disabled)
  /\ WF_allListenVars(part = "listen" /\ notify_dispatcher)
  /\ \A s \in Sock : WF_allListenVars(part = "listen" /\ ClosingThread(s))
  /\ WF_pr(part = "process" /\ memcached_main)
  /\ WF_pr(part = "process" /\ WorkerSteps)
  /\ WF_pr(part = "process" /\ BucketThreads)
  /\ WF_pr(part = "process" /\ ExecutorThread)

ServerSpec == ServerInit /\ [][ServerNext]_ServerVars /\ ServerFairness

-----------------------------------------------------------------------------
(* Instances *)

\* maxconn of each port; the total is the sum.
MCMaxConns == [p \in Port |-> 4]

=============================================================================
