------------------------------ MODULE Process ------------------------------
(***************************************************************************)
(* The life of the process (memcached_main): what it starts and in which   *)
(* order, the requests to shut down, which reach it from the standard      *)
(* input, from a signal and from a client, and the order in which it takes *)
(* everything down again while clients and the threads that create and     *)
(* delete buckets still use it.                                            *)
(*                                                                         *)
(* One worker thread serves all clients; the slots hold the buckets        *)
(* besides "no bucket", slot 0.  What the bucket threads do in detail is   *)
(* in Buckets; that the parent process dies may happen at any time.        *)
(***************************************************************************)
EXTENDS Integers, Sequences, FiniteSets

CONSTANTS ClientConns,   \* connections
          Slots,         \* slots of all_buckets, from 1
          MaxBucketOps   \* bound: buckets created or deleted by clients

ASSUME SlotsAssumption == Slots \subseteq Nat \ {0}

NoSlot == 0

VARIABLE pr

\* memcached_main up to the event loop; each step makes what it names.
StartUp ==
  <<"extensions", "audit", "enginemap", "buckets", "sasl", "base", "signals", "threads",
    "executors", "can_shutdown", "clock", "listen", "monitor">>

\* The steps that may end the process with FATAL_ERROR.
MayFail == {"extensions", "audit", "enginemap", "buckets", "sasl", "signals", "threads",
            "listen", "monitor"}

ExecutorsFirst ==
  <<"ready buckets", "monitor", "audit", "executors", "workers", "sockets", "buckets", "threads",
    "signals", "sasl", "connections", "enginemap", "base">>

\* memcached_main after the event loop; "ready buckets", "workers" and
\* "sockets" wait for others, the other steps release what they name.
TearDown ==
  <<"ready buckets", "monitor", "audit", "workers", "sockets", "buckets", "threads",
    "executors", "signals", "sasl", "connections", "enginemap", "base">>

ProcessInit ==
  pr = [phase |-> "start", step |-> 1, alive |-> {"connections"},
        stdin |-> "none", brk |-> FALSE, shutdown |-> FALSE, term |-> FALSE,
        worker |-> "none", client |-> [c \in ClientConns |-> "away"],
        bucket |-> [c \in ClientConns |-> NoSlot], slot |-> [s \in Slots |-> "None"],
        main |-> NoSlot, op |-> [c \in ClientConns |-> "none"],
        on |-> [c \in ClientConns |-> NoSlot], ops |-> 0]

ProcessUp == pr.phase \notin {"exited", "ended"}

\* The next step, or the next phase.
Stepped(r, steps, phase) ==
  IF r.step = Len(steps) THEN [r EXCEPT !.step = 1, !.phase = phase] ELSE [r EXCEPT !.step = @ + 1]

-----------------------------------------------------------------------------
(* Start and event loop of the main thread *)

Makes(r, what) ==
  [r EXCEPT !.alive = @ \cup {what},
            !.stdin = IF what = "extensions" THEN "reads" ELSE @,
            !.worker = IF what = "threads" THEN "running" ELSE @]

\* A parent monitor is started if the environment asks for it.
Starts ==
  /\ pr.phase = "start"
  /\ LET what == StartUp[pr.step]
     IN \/ what \in MayFail /\ pr' = [pr EXCEPT !.phase = "exited"]
        \/ what = "monitor" /\ pr' = Stepped(pr, StartUp, "check")
        \/ pr' = Stepped(Makes(pr, what), StartUp, "check")

\* A signal that is not handled by now is not handled any more.
GoesDown == [pr EXCEPT !.phase = "down", !.term = FALSE]

\* if (!memcached_shutdown)
ChecksShutdown ==
  /\ pr.phase = "check"
  /\ pr' = IF pr.shutdown THEN GoesDown ELSE [pr EXCEPT !.phase = "enter"]

\* event_base_loop of libevent forgets an earlier event_base_loopbreak.
EntersLoop ==
  /\ pr.phase = "enter"
  /\ pr' = [pr EXCEPT !.phase = "loop", !.brk = FALSE]

LeavesLoop ==
  /\ pr.phase = "loop" /\ pr.brk
  /\ pr' = GoesDown

-----------------------------------------------------------------------------
(* Requests to shut down *)

\* shutdown_server waits until shutdown is enabled.
CanShutdown(r) == "can_shutdown" \in r.alive

ShutDown(r) == [r EXCEPT !.shutdown = TRUE, !.brk = TRUE]

\* "shutdown" or the end of the input, and "die!" as long as there is input;
\* exit_function is called once.
check_stdin_thread ==
  /\ ProcessUp
  /\ \/ pr.stdin = "reads" /\ pr' = [pr EXCEPT !.stdin = "waits"]
     \/ /\ pr.stdin = "waits" /\ CanShutdown(pr)
        /\ pr' = [ShutDown(pr) EXCEPT !.stdin = "asked"]
     \/ pr.stdin \in {"reads", "asked"} /\ pr' = [pr EXCEPT !.phase = "exited"]

Signal ==
  /\ ProcessUp /\ pr.phase # "down" /\ "signals" \in pr.alive /\ ~ pr.term
  /\ pr' = [pr EXCEPT !.term = TRUE]

sigterm_handler ==
  /\ pr.phase = "loop" /\ pr.term /\ CanShutdown(pr)
  /\ pr' = [ShutDown(pr) EXCEPT !.term = FALSE]

\* ParentMonitor::thread_main finds that the parent has died.
ParentMonitor ==
  /\ ProcessUp /\ "monitor" \in pr.alive
  /\ pr' = [pr EXCEPT !.phase = "exited"]

-----------------------------------------------------------------------------
(* Clients and the worker thread *)

listen_event_handler(c) ==
  /\ pr.phase = "loop" /\ pr.client[c] = "away"
  /\ pr' = IF pr.shutdown THEN [pr EXCEPT !.brk = TRUE] ELSE [pr EXCEPT !.client[c] = "idle"]

Serving(c) == ProcessUp /\ pr.worker = "running" /\ pr.client[c] = "command"

\* is_bucket_dying is asked before a command, which may run much later.
is_bucket_dying(c) ==
  /\ ProcessUp /\ pr.worker = "running" /\ pr.client[c] = "idle"
  /\ pr' = IF pr.shutdown \/ (pr.bucket[c] \in Slots /\ pr.slot[pr.bucket[c]] # "Ready")
           THEN [pr EXCEPT !.client[c] = "closed", !.bucket[c] = NoSlot]
           ELSE [pr EXCEPT !.client[c] = "command"]

\* The command selects a bucket, or needs nothing that ends.
Selects(c) ==
  /\ Serving(c)
  /\ \E s \in {pr.bucket[c]} \cup {s \in Slots : pr.slot[s] = "Ready"} :
       pr' = [pr EXCEPT !.client[c] = "idle", !.bucket[c] = s]

shutdown_executor(c) ==
  /\ Serving(c) /\ CanShutdown(pr)
  /\ pr' = [ShutDown(pr) EXCEPT !.client[c] = "idle"]

\* Slots are searched from the first one.
FirstOf(S) == {s \in S : \A t \in S : s <= t}
InState(r, state) == {s \in Slots : r.slot[s] = state}

\* A client that deletes the bucket it is in leaves it.
BlockedOn(c, op, s, state) ==
  pr' = [pr EXCEPT !.client[c] = "blocked", !.op[c] = op, !.on[c] = s, !.slot[s] = state,
                   !.bucket[c] = IF @ = s THEN NoSlot ELSE @, !.ops = @ + 1]

CreatesBucket(c) ==
  /\ Serving(c) /\ pr.ops < MaxBucketOps
  /\ \E s \in FirstOf(InState(pr, "None")) : BlockedOn(c, "create", s, "Creating")

DeletesBucket(c) ==
  /\ Serving(c) /\ pr.ops < MaxBucketOps
  /\ \E s \in InState(pr, "Ready") : BlockedOn(c, "delete", s, "Stopping")

LeavesBucket(r) ==
  {c \in ClientConns : r.client[c] = "idle" /\ r.bucket[c] \in InState(r, "Stopping")}

Leaves(r) ==
  {c \in ClientConns :
     r.client[c] = "idle" /\ (r.shutdown \/ r.bucket[c] \in InState(r, "Stopping"))}

\* signal_idle_clients: whoever is idle is closed.
SignalsIdle ==
  /\ ProcessUp /\ pr.worker = "running"
  /\ \E c \in Leaves(pr) : pr' = [pr EXCEPT !.client[c] = "closed", !.bucket[c] = NoSlot]

Connected(r) == {c \in ClientConns : r.client[c] \notin {"away", "closed"}}

\* A worker waits for all its clients, those that are blocked included.
StopsWorker ==
  /\ ProcessUp /\ pr.worker = "running" /\ pr.shutdown
  /\ Connected(pr) = {}
  /\ pr' = [pr EXCEPT !.worker = "stopped"]

\* The task of the client that asked for the slot is made runnable.
MadeRunnable(r, s) ==
  [c \in ClientConns |-> IF r.on[c] = s /\ r.op[c] # "none" THEN "done" ELSE r.op[c]]

\* The threads that create and delete a bucket.
BucketThread(s) ==
  /\ ProcessUp
  /\ \/ /\ pr.slot[s] = "Creating"
        /\ \E state \in {"Ready", "None"} :
             pr' = [pr EXCEPT !.slot[s] = state, !.op = MadeRunnable(pr, s)]
     \/ /\ pr.slot[s] = "Stopping"
        /\ \A c \in Connected(pr) : pr.bucket[c] # s
        /\ pr' = [pr EXCEPT !.slot[s] = "None", !.op = MadeRunnable(pr, s),
                            !.main = IF @ = s THEN NoSlot ELSE @]

\* The executor runs the task, which notifies the client.
ExecutesTask(c) ==
  /\ ProcessUp /\ pr.op[c] = "done"
  /\ pr' = [pr EXCEPT !.op[c] = "none", !.on[c] = NoSlot, !.client[c] = "idle"]

-----------------------------------------------------------------------------
(* Taking down *)

\* The main thread deletes one bucket after the other.
delete_all_buckets ==
  /\ pr.main = NoSlot
  /\ \/ \E s \in FirstOf(InState(pr, "Ready")) :
          pr' = [pr EXCEPT !.slot[s] = "Stopping", !.main = s]
     \/ InState(pr, "Ready") = {} /\ pr' = Stepped(pr, TearDown, "ended")

Releases(what) == pr' = Stepped([pr EXCEPT !.alive = @ \ {what}], TearDown, "ended")

\* A bucket that became ready meanwhile is destroyed.
cleanup_buckets ==
  /\ InState(pr, "Creating") \cup InState(pr, "Stopping") = {}
  /\ pr' = Stepped([pr EXCEPT !.alive = @ \ {"buckets"}, !.slot = [s \in Slots |-> "None"]],
                   TearDown, "ended")

TakesDown ==
  /\ pr.phase = "down"
  /\ LET what == TearDown[pr.step]
     IN CASE what = "ready buckets" -> delete_all_buckets
          [] what = "workers" -> pr.worker = "stopped" /\ Releases(what)
          [] what = "sockets" -> (\A c \in ClientConns : pr.op[c] = "none") /\ Releases(what)
          [] what = "buckets" -> cleanup_buckets
          [] OTHER -> Releases(what)

ProcessClients ==
  \E c \in ClientConns : listen_event_handler(c) \/ is_bucket_dying(c) \/ shutdown_executor(c)
                       \/ CreatesBucket(c) \/ DeletesBucket(c)

WorkerSteps == (\E c \in ClientConns : Selects(c)) \/ SignalsIdle \/ StopsWorker

BucketThreads == \E s \in Slots : BucketThread(s)

ExecutorThread == \E c \in ClientConns : ExecutesTask(c)

memcached_main == Starts \/ ChecksShutdown \/ EntersLoop \/ LeavesLoop \/ TakesDown

ProcessNext ==
  \/ memcached_main \/ check_stdin_thread \/ Signal \/ sigterm_handler \/ ParentMonitor
  \/ ProcessClients \/ WorkerSteps \/ BucketThreads \/ ExecutorThread

ProcessSpec == ProcessInit /\ [][ProcessNext]_pr

-----------------------------------------------------------------------------
(* Properties *)

InUse ==
  (IF pr.worker = "running"
   THEN {"threads", "buckets", "sasl", "enginemap", "executors", "connections"} ELSE {})
    \cup (IF \E c \in ClientConns : pr.op[c] # "none"
          THEN {"executors", "threads", "connections", "enginemap"} ELSE {})
    \cup (IF InState(pr, "Creating") \cup InState(pr, "Stopping") # {}
          THEN {"executors", "enginemap"} ELSE {})

(* Nothing the workers, the bucket threads and their tasks use is released *)
(* while they use it (the order of memcached_main and what its steps wait  *)
(* for); a client that is in a bucket keeps it from being destroyed, and   *)
(* none is left when the process ends (delete_all_buckets,                 *)
(* is_bucket_dying, close_all_connections).                                *)
UsedIsAlive ==
  /\ pr.phase = "down" => InUse \subseteq pr.alive
  /\ \A c \in Connected(pr) :
       pr.bucket[c] # NoSlot => pr.bucket[c] \in InState(pr, "Ready") \cup InState(pr, "Stopping")
  /\ pr.phase = "ended" => Connected(pr) = {} /\ InState(pr, "None") = Slots

\* Clients wait for each other: each deletes a bucket that one of them is in,
\* and none is idle and can be signalled.
CrossDeletion ==
  \E D \in SUBSET ClientConns \ {{}} :
    \A c \in D : pr.op[c] = "delete" /\ \E d \in D : pr.bucket[d] = pr.on[c]

(* A process that was told to shut down ends (delete_all_buckets,          *)
(* threads_shutdown, cleanup_buckets), with two exceptions: the request    *)
(* came between the test of memcached_shutdown and the event loop, which   *)
(* forgets it; or clients delete each other's buckets, which signalIfIdle  *)
(* and delete_all_buckets both pass over, so that the workers never stop.  *)
ShutdownEnds ==
  pr.shutdown ~> (~ ProcessUp \/ (pr.phase = "loop" /\ ~ pr.brk) \/ CrossDeletion)

============================================================================
