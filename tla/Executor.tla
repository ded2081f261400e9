------------------------------ MODULE Executor ------------------------------
(***************************************************************************)
(* The executor pool of the daemon (daemon/executor.cc, executorpool.cc,   *)
(* task.h): tasks that a worker thread hands over while a client waits.    *)
(*                                                                         *)
(* A worker creates a task inside its event handler, i.e. with its thread  *)
(* lock held, takes the task mutex, for a bucket task starts the backend   *)
(* thread that does the job, and schedules the task on the next executor:  *)
(* on the run queue, or on the wait queue until the backend thread makes   *)
(* it runnable.  The executor runs the task with the task mutex held and   *)
(* reports its completion, which needs the worker's thread lock, without.  *)
(*                                                                         *)
(* The executor's own mutex guards runq, waitq and shutdown.  Nothing is   *)
(* acquired while it is held, so each of its critical sections is one step.*)
(***************************************************************************)
EXTENDS Naturals, Sequences

CONSTANTS
  Task,       \* the Task objects
  Worker,     \* the worker threads that create them
  PoolSize,   \* number of executors in the pool
  CounterRange, \* number of values of the round robin counter (2^32)
  None,       \* no holder, no task, no executor (nullptr)
  MaxBlocks   \* bound: how often execute() of one task may return false

Pool == 0 .. PoolSize - 1

ASSUME ExecutorAssumption ==
  /\ PoolSize \in Nat \ {0}
  /\ CounterRange \in Nat \ {0}
  /\ MaxBlocks \in Nat
  /\ None \notin Task \cup Worker \cup Pool
  /\ Worker \cap Pool = {}

VARIABLES
  roundRobin, \* 0 .. CounterRange - 1: ExecutorPool::roundRobin
  runq,       \* [Pool -> Seq(Task)]: tasks ready to run, FIFO
  waitq,      \* [Pool -> SUBSET Task]: tasks served by a backend thread
  shutdown,   \* [Pool -> BOOLEAN]: the destructor asked the thread to stop
  epc,        \* [Pool -> ...]: where the executor thread is in run()
  cur,        \* [Pool -> Task or None]: the task it works on
  mutex,      \* [Task -> holder or None]: Task::mutex
  executor,   \* [Task -> Pool or None]: Task::executor
  backend,    \* [Task -> {"none", "running", "done"}]: the backend thread
  blocks,     \* [Task -> 0..MaxBlocks]: how often execute() returned false
  owner,      \* [Task -> Worker or None]: the worker whose client waits
  completed,  \* [Task -> Nat]: calls of notifyExecutionComplete
  threadLock, \* [Worker -> holder or None]: LIBEVENT_THREAD::mutex
  wpc,        \* [Worker -> "idle", "schedule", "event", "joined"]
  wtask,      \* [Worker -> Task or None]: the task it is about to schedule
  wrunnable,  \* [Worker -> BOOLEAN]: the second argument of schedule
  failed      \* TRUE once makeRunnable threw

execVars == <<runq, waitq, shutdown, epc, cur>>
taskVars == <<mutex, executor, backend, blocks, owner, completed>>
workVars == <<roundRobin, threadLock, wpc, wtask, wrunnable>>
vars == <<execVars, taskVars, workVars, failed>>

ExecutorPC == {"loop", "idle", "popped", "executed", "blocked", "notify",
               "drain", "drainIdle", "stopped"}

Init ==
  /\ roundRobin = 0
  /\ runq = [e \in Pool |-> <<>>]
  /\ waitq = [e \in Pool |-> {}]
  /\ shutdown = [e \in Pool |-> FALSE]
  /\ epc = [e \in Pool |-> "loop"]
  /\ cur = [e \in Pool |-> None]
  /\ mutex = [t \in Task |-> None]
  /\ executor = [t \in Task |-> None]
  /\ backend = [t \in Task |-> "none"]
  /\ blocks = [t \in Task |-> 0]
  /\ owner = [t \in Task |-> None]
  /\ completed = [t \in Task |-> 0]
  /\ threadLock = [w \in Worker |-> None]
  /\ wpc = [w \in Worker |-> "idle"]
  /\ wtask = [w \in Worker |-> None]
  /\ wrunnable = [w \in Worker |-> FALSE]
  /\ failed = FALSE

\* Mutant: no wakeup at all.
NotifyNobody(e) == epc[e]

\* idlecond.notify_all(): the executor leaves either of its waits.
NotifyIdle(e) ==
  CASE epc[e] = "idle" -> "loop"
    [] epc[e] = "drainIdle" -> "drain"
    [] OTHER -> epc[e]

\* ++roundRobin: std::atomic_int wraps around.
NextRoundRobin == (roundRobin + 1) % CounterRange

\* Mutant: the map entry is not erased.
KeepWaiting(e, t) == waitq[e]

\* waitq.erase(iter)
EraseWaiting(e, t) == waitq[e] \ {t}

\* Mutant: the task mutex is released before the task is on the wait queue.
HolderNobody(e) == None

\* Who holds the task mutex when execute() has returned false.
HolderWhenBlocked(e) == e

-----------------------------------------------------------------------------
(* The worker thread: sasl_auth_executor (runnable), create_bucket_executor *)
(* and delete_bucket_executor (not runnable, backend thread started).       *)

\* The event handler runs with the thread lock; it creates the task, locks it
\* and, for a task that is not runnable yet, starts the backend thread.
CreateTask(w, t, runnable) ==
  /\ wpc[w] = "idle"
  /\ threadLock[w] = None
  /\ owner[t] = None
  /\ threadLock' = [threadLock EXCEPT ![w] = w]
  /\ owner' = [owner EXCEPT ![t] = w]
  /\ mutex' = [mutex EXCEPT ![t] = w]
  /\ backend' = [backend EXCEPT ![t] = IF runnable THEN "none" ELSE "running"]
  /\ wpc' = [wpc EXCEPT ![w] = "schedule"]
  /\ wtask' = [wtask EXCEPT ![w] = t]
  /\ wrunnable' = [wrunnable EXCEPT ![w] = runnable]
  /\ UNCHANGED <<execVars, executor, blocks, completed, roundRobin, failed>>

\* ExecutorPool::schedule and Executor::schedule, then the end of the scope of
\* the lock_guard on the task.
Schedule(w) ==
  LET t == wtask[w]
      e == roundRobin' % PoolSize
  IN
  /\ wpc[w] = "schedule"
  /\ roundRobin' = NextRoundRobin
  /\ executor' = [executor EXCEPT ![t] = e]
  /\ IF wrunnable[w]
       THEN /\ runq' = [runq EXCEPT ![e] = Append(@, t)]
            /\ epc' = [epc EXCEPT ![e] = NotifyIdle(e)]
            /\ UNCHANGED waitq
       ELSE /\ waitq' = [waitq EXCEPT ![e] = @ \cup {t}]
            /\ UNCHANGED <<runq, epc>>
  /\ mutex' = [mutex EXCEPT ![t] = None]
  /\ wpc' = [wpc EXCEPT ![w] = "event"]
  /\ wtask' = [wtask EXCEPT ![w] = None]
  /\ UNCHANGED <<shutdown, cur, backend, blocks, owner, completed, threadLock,
                 wrunnable, failed>>

\* The event handler returns and releases the thread lock.
LeaveEvent(w) ==
  /\ wpc[w] = "event"
  /\ threadLock' = [threadLock EXCEPT ![w] = None]
  /\ wpc' = [wpc EXCEPT ![w] = "idle"]
  /\ UNCHANGED <<execVars, taskVars, roundRobin, wtask, wrunnable, failed>>

-----------------------------------------------------------------------------
(* The backend thread of a task: CreateBucketThread, DestroyBucketThread.  *)

\* The end of run(): lock the task, Task::makeRunnable, unlock it.  The
\* executor throws when the task is not on its wait queue.
MakeRunnable(t) ==
  LET e == executor[t] IN
  /\ backend[t] = "running"
  /\ mutex[t] = None
  /\ backend' = [backend EXCEPT ![t] = "done"]
  /\ IF e # None /\ t \in waitq[e]
       THEN /\ waitq' = [waitq EXCEPT ![e] = EraseWaiting(e, t)]
            /\ runq' = [runq EXCEPT ![e] = Append(@, t)]
            /\ epc' = [epc EXCEPT ![e] = NotifyIdle(e)]
            /\ UNCHANGED failed
       ELSE /\ failed' = TRUE
            /\ UNCHANGED <<waitq, runq, epc>>
  /\ UNCHANGED <<shutdown, cur, mutex, executor, blocks, owner, completed,
                 workVars>>

-----------------------------------------------------------------------------
(* The executor thread: Executor::run.                                     *)

\* The run queue is empty: wait on idlecond.
Idle(e) ==
  /\ epc[e] = "loop" /\ ~shutdown[e] /\ runq[e] = <<>>
  /\ epc' = [epc EXCEPT ![e] = "idle"]
  /\ UNCHANGED <<runq, waitq, shutdown, cur, taskVars, workVars, failed>>

\* Take the first task off the run queue and release the executor's mutex.
Pop(e) ==
  /\ epc[e] = "loop" /\ ~shutdown[e] /\ runq[e] # <<>>
  /\ cur' = [cur EXCEPT ![e] = Head(runq[e])]
  /\ runq' = [runq EXCEPT ![e] = Tail(@)]
  /\ epc' = [epc EXCEPT ![e] = "popped"]
  /\ UNCHANGED <<waitq, shutdown, taskVars, workVars, failed>>

\* Lock the task and execute it: it is done.
ExecuteDone(e) ==
  /\ epc[e] = "popped"
  /\ mutex[cur[e]] = None
  /\ mutex' = [mutex EXCEPT ![cur[e]] = e]
  /\ epc' = [epc EXCEPT ![e] = "executed"]
  /\ UNCHANGED <<runq, waitq, shutdown, cur, executor, backend, blocks, owner,
                 completed, workVars, failed>>

\* Lock the task and execute it: it gave its job to a backend thread that makes
\* it runnable again later.
ExecuteBlocks(e) ==
  LET t == cur[e] IN
  /\ epc[e] = "popped"
  /\ mutex[t] = None
  /\ blocks[t] < MaxBlocks
  /\ mutex' = [mutex EXCEPT ![t] = HolderWhenBlocked(e)]
  /\ epc' = [epc EXCEPT ![e] = "blocked"]
  /\ backend' = [backend EXCEPT ![t] = "running"]
  /\ blocks' = [blocks EXCEPT ![t] = @ + 1]
  /\ UNCHANGED <<runq, waitq, shutdown, cur, executor, owner, completed,
                 workVars, failed>>

\* execute() returned true: unlock the task before it is notified.
Unlock(e) ==
  /\ epc[e] = "executed"
  /\ mutex' = [mutex EXCEPT ![cur[e]] = None]
  /\ epc' = [epc EXCEPT ![e] = "notify"]
  /\ UNCHANGED <<runq, waitq, shutdown, cur, executor, backend, blocks, owner,
                 completed, workVars, failed>>

\* notifyExecutionComplete: notify_io_complete locks the worker's thread.
Notify(e) ==
  LET t == cur[e] IN
  /\ epc[e] = "notify"
  /\ threadLock[owner[t]] = None
  /\ completed' = [completed EXCEPT ![t] = @ + 1]
  /\ cur' = [cur EXCEPT ![e] = None]
  /\ epc' = [epc EXCEPT ![e] = "loop"]
  /\ UNCHANGED <<runq, waitq, shutdown, mutex, executor, backend, blocks,
                 owner, workVars, failed>>

\* execute() returned false: enter the wait queue, and only then unlock.
Park(e) ==
  LET t == cur[e] IN
  /\ epc[e] = "blocked"
  /\ waitq' = [waitq EXCEPT ![e] = @ \cup {t}]
  /\ mutex' = [mutex EXCEPT ![t] = None]
  /\ cur' = [cur EXCEPT ![e] = None]
  /\ epc' = [epc EXCEPT ![e] = "loop"]
  /\ UNCHANGED <<runq, shutdown, executor, backend, blocks, owner, completed,
                 workVars, failed>>

\* shutdown ends the loop; tasks on the run queue are left there.
LeaveLoop(e) ==
  /\ epc[e] = "loop" /\ shutdown[e]
  /\ epc' = [epc EXCEPT ![e] = "drain"]
  /\ UNCHANGED <<runq, waitq, shutdown, cur, taskVars, workVars, failed>>

\* Wait until the wait queue is empty, then stop running.
Drain(e) ==
  /\ epc[e] = "drain"
  /\ epc' = [epc EXCEPT ![e] = IF waitq[e] = {} THEN "stopped" ELSE "drainIdle"]
  /\ UNCHANGED <<runq, waitq, shutdown, cur, taskVars, workVars, failed>>

-----------------------------------------------------------------------------
(* The main thread at shutdown: threads_shutdown joins the workers, later  *)
(* the pool is deleted, one executor after the other.                      *)

JoinWorker(w) ==
  /\ wpc[w] = "idle"
  /\ wpc' = [wpc EXCEPT ![w] = "joined"]
  /\ UNCHANGED <<execVars, taskVars, roundRobin, threadLock, wtask, wrunnable,
                 failed>>

\* ~Executor sets shutdown and waits until the thread stopped, so the next
\* executor is only asked once this one has stopped.
DestroyExecutor(e) ==
  /\ \A w \in Worker : wpc[w] = "joined"
  /\ ~shutdown[e]
  /\ \A x \in Pool : shutdown[x] => epc[x] = "stopped"
  /\ shutdown' = [shutdown EXCEPT ![e] = TRUE]
  /\ epc' = [epc EXCEPT ![e] = NotifyIdle(e)]
  /\ UNCHANGED <<runq, waitq, cur, taskVars, workVars, failed>>

ExecutorStep(e) ==
  Idle(e) \/ Pop(e) \/ ExecuteDone(e) \/ ExecuteBlocks(e) \/ Unlock(e)
    \/ Notify(e) \/ Park(e) \/ LeaveLoop(e) \/ Drain(e)

Next ==
  \/ \E w \in Worker :
       \/ \E t \in Task, r \in BOOLEAN : CreateTask(w, t, r)
       \/ Schedule(w)
       \/ LeaveEvent(w)
       \/ JoinWorker(w)
  \/ \E t \in Task : MakeRunnable(t)
  \/ \E e \in Pool : ExecutorStep(e) \/ DestroyExecutor(e)

\* Threads that can run do run: executors, backend threads and a worker that
\* is inside its event handler.  Clients need not create tasks.
Fairness ==
  /\ \A e \in Pool : WF_vars(ExecutorStep(e)) /\ SF_vars(Notify(e))
  /\ \A t \in Task : WF_vars(MakeRunnable(t))
  /\ \A w \in Worker : WF_vars(Schedule(w)) /\ WF_vars(LeaveEvent(w))

Spec == Init /\ [][Next]_vars
FairSpec == Spec /\ Fairness

-----------------------------------------------------------------------------
(* Properties.                                                             *)

\* Every variable stays in its set.
TypeOK ==
  /\ roundRobin \in 0 .. CounterRange - 1
  /\ runq \in [Pool -> Seq(Task)]
  /\ waitq \in [Pool -> SUBSET Task]
  /\ shutdown \in [Pool -> BOOLEAN]
  /\ epc \in [Pool -> ExecutorPC]
  /\ cur \in [Pool -> Task \cup {None}]
  /\ mutex \in [Task -> Worker \cup Pool \cup {None}]
  /\ executor \in [Task -> Pool \cup {None}]
  /\ backend \in [Task -> {"none", "running", "done"}]
  /\ blocks \in [Task -> 0 .. MaxBlocks]
  /\ owner \in [Task -> Worker \cup {None}]
  /\ completed \in [Task -> Nat]
  /\ threadLock \in [Worker -> Worker \cup {None}]
  /\ wpc \in [Worker -> {"idle", "schedule", "event", "joined"}]
  /\ wtask \in [Worker -> Task \cup {None}]
  /\ wrunnable \in [Worker -> BOOLEAN]
  /\ failed \in BOOLEAN

\* Executor::makeRunnable never throws "object is not in the waitq": a backend
\* thread that finishes, however early, finds its task on the wait queue of the
\* executor the task is pinned to.
NeverThrows == ~failed

\* Where a task is: positions on run queues, wait queues, executors at work.
RunPlaces(t) ==
  UNION {{<<"run", e, i>> : i \in {j \in DOMAIN runq[e] : runq[e][j] = t}} :
         e \in Pool}
Places(t) ==
  RunPlaces(t) \cup {<<"wait", e>> : e \in {x \in Pool : t \in waitq[x]}}
               \cup {<<"cur", e>> : e \in {x \in Pool : cur[x] = t}}

\* A scheduled task is in exactly one place (once on one run queue, on one wait
\* queue, or in the hands of one executor) until its completion is reported,
\* which happens at most once; before and after that nobody holds it.  So the
\* client that waits for the task is notified exactly once.
TaskInOnePlace ==
  \A t \in Task :
    /\ completed[t] <= 1
    /\ IF executor[t] = None \/ completed[t] = 1
         THEN Places(t) = {}
         ELSE \E p \in Places(t) : Places(t) = {p}

\* ~Executor returns, and the executor is freed, only when no task waits on it,
\* no backend thread will call its makeRunnable and no worker can schedule on
\* it.  Tasks left on its run queue are dropped.
StoppedIsUntouched ==
  \A e \in Pool : epc[e] = "stopped" =>
    /\ cur[e] = None
    /\ \A t \in Task : executor[t] = e => backend[t] # "running"
    /\ \A w \in Worker : wpc[w] = "joined"

\* A task a worker created is eventually reported complete, unless the pool is
\* being shut down: no wakeup of the executor is lost, and neither the order of
\* thread lock and task mutex nor a backend thread blocks it for ever.
TaskCompletes ==
  \A t \in Task :
    (owner[t] # None) ~> (completed[t] = 1 \/ \E e \in Pool : shutdown[e])

=============================================================================
