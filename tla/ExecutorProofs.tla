--------------------------- MODULE ExecutorProofs ---------------------------
(***************************************************************************)
(* Proofs about the executor pool, for any number of tasks, workers and    *)
(* executors: the inductive invariant, facts about its queues, the steps of *)
(* workers, backend threads and executors, and the theorems.  And about    *)
(* the keys used last, which the workers update shard by shard (TopKeys),  *)
(* for any keys and any number of shards.                                  *)
(***************************************************************************)
EXTENDS Executor, TopKeys, FiniteSetTheorems, TLAPS

\* Every element of s is on s once.
Once(s) == \A i, j \in DOMAIN s : s[i] = s[j] => i = j
On(s, x) == \E i \in DOMAIN s : s[i] = x

\* t is somewhere on the run queue of e.
OnRunq(e, t) == On(runq[e], t)

\* The worker side: the task a worker is about to schedule is locked by it, not
\* pinned to an executor yet, and nobody else knows it.
WorkerInv ==
  \A w \in Worker :
    /\ (wpc[w] = "schedule") <=> (wtask[w] # None)
    /\ wtask[w] # None =>
         /\ owner[wtask[w]] = w
         /\ executor[wtask[w]] = None
         /\ mutex[wtask[w]] = w
         /\ (backend[wtask[w]] = "running") <=> ~wrunnable[w]

\* The task side: what its fields say when it is new, about to be scheduled,
\* on a queue, at work, complete.
TaskInv ==
  \A t \in Task :
    /\ owner[t] = None => executor[t] = None /\ backend[t] = "none"
    /\ (owner[t] # None /\ executor[t] = None) => wtask[owner[t]] = t
    /\ executor[t] = None => completed[t] = 0
    /\ completed[t] <= 1
    /\ (executor[t] # None /\ completed[t] = 0) =>
         \/ OnRunq(executor[t], t)
         \/ t \in waitq[executor[t]]
         \/ cur[executor[t]] = t
    /\ (executor[t] # None /\ backend[t] = "running") =>
         \/ t \in waitq[executor[t]]
         \/ cur[executor[t]] = t /\ epc[executor[t]] = "blocked"

\* The executor side: every task on a queue or at work is pinned to this
\* executor and not complete, is there once, and its backend thread runs
\* exactly when it waits.
PoolInv ==
  \A e \in Pool :
    /\ Once(runq[e])
    /\ \A t \in Task :
         /\ OnRunq(e, t) => /\ executor[t] = e /\ completed[t] = 0
                            /\ backend[t] # "running"
                            /\ cur[e] # t
         /\ t \in waitq[e] => /\ executor[t] = e /\ completed[t] = 0
                              /\ backend[t] = "running"
                              /\ cur[e] # t
         /\ cur[e] = t => /\ executor[t] = e /\ completed[t] = 0
                          /\ (backend[t] = "running") <=> (epc[e] = "blocked")
                          /\ epc[e] \in {"executed", "blocked"} => mutex[t] = e
    /\ (cur[e] # None) <=> (epc[e] \in {"popped", "executed", "blocked", "notify"})
    /\ epc[e] \in {"drain", "drainIdle", "stopped"} => shutdown[e]
    /\ epc[e] = "stopped" => waitq[e] = {}
    /\ shutdown[e] => \A w \in Worker : wpc[w] = "joined"

\* The inductive invariant.
IInv == TypeOK /\ WorkerInv /\ TaskInv /\ PoolInv /\ NeverThrows

-----------------------------------------------------------------------------
(* Facts about sequences. *)

\* What is on a queue after a push of a new element at its end.
LEMMA Push ==
  ASSUME NEW S, NEW s \in Seq(S), NEW x \in S, Once(s), ~On(s, x)
  PROVE  /\ Append(s, x) \in Seq(S)
         /\ Once(Append(s, x))
         /\ \A y : On(Append(s, x), y) <=> On(s, y) \/ y = x
<1>1. /\ Append(s, x) \in Seq(S)
      /\ DOMAIN Append(s, x) = DOMAIN s \cup {Len(s) + 1}
      /\ \A i \in DOMAIN s : Append(s, x)[i] = s[i]
      /\ Append(s, x)[Len(s) + 1] = x
  OBVIOUS
<1>2. QED
  BY Zenon, <1>1 DEF Once, On

\* What is on a queue after a pop at its front.
LEMMA Pull ==
  ASSUME NEW S, NEW s \in Seq(S), s # <<>>, Once(s)
  PROVE  /\ Tail(s) \in Seq(S)
         /\ Head(s) \in S /\ On(s, Head(s))
         /\ Once(Tail(s))
         /\ \A y : On(Tail(s), y) <=> On(s, y) /\ y # Head(s)
<1>1. /\ Tail(s) \in Seq(S)
      /\ Head(s) \in S
      /\ 1 \in DOMAIN s /\ s[1] = Head(s)
      /\ \A i \in DOMAIN Tail(s) : /\ i \in Nat /\ i + 1 \in DOMAIN s
                                   /\ i + 1 # 1
                                   /\ Tail(s)[i] = s[i + 1]
      /\ \A i \in DOMAIN s : i # 1 => /\ i - 1 \in DOMAIN Tail(s)
                                      /\ Tail(s)[i - 1] = s[i]
  OBVIOUS
<1>2. On(s, Head(s))
  BY Zenon, <1>1 DEF On
<1>3. Once(Tail(s))
  BY <1>1 DEF Once
<1>4. ASSUME NEW y PROVE On(Tail(s), y) <=> On(s, y) /\ y # Head(s)
  <2>1. ASSUME On(Tail(s), y) PROVE On(s, y) /\ y # Head(s)
    <3>1. PICK i \in DOMAIN Tail(s) : Tail(s)[i] = y
      BY Zenon, <2>1 DEF On
    <3>2. i + 1 \in DOMAIN s /\ i + 1 # 1 /\ s[i + 1] = y
      BY Zenon, <1>1, <3>1
    <3>3. QED
      BY Zenon, <1>1, <3>2 DEF On, Once
  <2>2. ASSUME On(s, y), y # Head(s) PROVE On(Tail(s), y)
    <3>1. PICK i \in DOMAIN s : s[i] = y
      BY Zenon, <2>2 DEF On
    <3>2. i # 1
      BY Zenon, <1>1, <2>2, <3>1
    <3>3. QED
      BY Zenon, <1>1, <3>1, <3>2 DEF On
  <2>3. QED
    BY Zenon, <2>1, <2>2
<1>5. QED
  BY Zenon, <1>1, <1>2, <1>3, <1>4

\* The round robin picks an executor of the pool.
LEMMA RemainderInRange ==
  ASSUME NEW n \in Nat, NEW k \in Nat \ {0}
  PROVE  n % k \in 0 .. k - 1
OBVIOUS

-----------------------------------------------------------------------------
(* Initial states, and steps of workers. *)

\* A wakeup leaves the executor in the phase it is in.
LEMMA NotifyIdleKeepsPhase ==
  ASSUME TypeOK, NEW e \in Pool
  PROVE  /\ NotifyIdle(e) \in ExecutorPC
         /\ \A p \in {"popped", "executed", "blocked", "notify", "stopped"} :
              NotifyIdle(e) = p <=> epc[e] = p
         /\ NotifyIdle(e) \in {"drain", "drainIdle"} <=> epc[e] \in {"drain", "drainIdle"}
BY Zenon DEF TypeOK, NotifyIdle, ExecutorPC

\* IInv holds initially.
LEMMA InitIInv == Init => IInv
<1> SUFFICES ASSUME Init PROVE IInv
  BY Zenon
<1> USE ExecutorAssumption DEF Init, Pool
<1>1. TypeOK
  <2>1. runq \in [Pool -> Seq(Task)]
    OBVIOUS
  <2>2. roundRobin \in 0 .. CounterRange - 1 /\ blocks \in [Task -> 0 .. MaxBlocks]
    OBVIOUS
  <2>3. QED
    BY Zenon, <2>1, <2>2 DEF TypeOK, ExecutorPC
<1>2. WorkerInv /\ TaskInv /\ NeverThrows
  BY DEF WorkerInv, TaskInv, NeverThrows
<1>3. PoolInv
  BY DEF PoolInv, OnRunq, On, Once
<1>4. QED
  BY Zenon, <1>1, <1>2, <1>3 DEF IInv

\* A worker that makes a task in an event handler keeps IInv.
LEMMA CreateTaskIInv ==
  ASSUME IInv, NEW w \in Worker, NEW t \in Task, NEW r \in BOOLEAN, CreateTask(w, t, r)
  PROVE  IInv'
<1> USE ExecutorAssumption DEF CreateTask, IInv, NeverThrows, execVars, taskVars, workVars
<1>1. TypeOK'
  BY Zenon DEF TypeOK, ExecutorPC
<1>2. WorkerInv'
  BY DEF TypeOK, WorkerInv, TaskInv, PoolInv
<1>3. TaskInv'
  <2>1. wtask[w] = None /\ executor[t] = None /\ completed[t] = 0
    BY Zenon DEF WorkerInv, TaskInv
  <2>2. \A x \in Task : owner[x] # None /\ executor[x] = None => owner[x] # w
    BY <2>1 DEF TypeOK, TaskInv
  <2>3. QED
    BY <2>1, <2>2 DEF TypeOK, TaskInv, OnRunq
<1>4. PoolInv'
  BY DEF TypeOK, WorkerInv, TaskInv, PoolInv, OnRunq
<1>5. NeverThrows'
  BY Zenon
<1>6. QED
  BY Zenon, <1>1, <1>2, <1>3, <1>4, <1>5

\* Executor::schedule, which pins the task and queues it, keeps IInv.
LEMMA ScheduleIInv ==
  ASSUME IInv, NEW w \in Worker, Schedule(w)
  PROVE  IInv'
<1> USE ExecutorAssumption DEF IInv
<1>1. roundRobin' \in 0 .. CounterRange - 1
  BY RemainderInRange DEF TypeOK, Schedule, NextRoundRobin
<1>2. roundRobin' % PoolSize \in Pool
  <2>1. roundRobin' \in Nat
    BY <1>1
  <2>2. QED
    BY Zenon, <2>1, RemainderInRange DEF Pool
<1>3. PICK e \in Pool, t \in Task :
        /\ wpc[w] = "schedule" /\ wtask[w] = t
        /\ executor' = [executor EXCEPT ![t] = e]
        /\ \/ /\ wrunnable[w]
              /\ runq' = [runq EXCEPT ![e] = Append(@, t)]
              /\ epc' = [epc EXCEPT ![e] = NotifyIdle(e)]
              /\ UNCHANGED waitq
           \/ /\ ~wrunnable[w]
              /\ waitq' = [waitq EXCEPT ![e] = @ \cup {t}]
              /\ UNCHANGED <<runq, epc>>
        /\ mutex' = [mutex EXCEPT ![t] = None]
        /\ wpc' = [wpc EXCEPT ![w] = "event"]
        /\ wtask' = [wtask EXCEPT ![w] = None]
        /\ UNCHANGED <<shutdown, cur, backend, blocks, owner, completed,
                       threadLock, wrunnable, failed>>
  <2>1. wtask[w] \in Task
    BY DEF Schedule, TypeOK, WorkerInv
  <2>2. QED
    BY Zenon, <1>2, <2>1 DEF Schedule, TypeOK
<1>4. /\ executor[t] = None /\ owner[t] = w /\ completed[t] = 0
      /\ (backend[t] = "running") <=> ~wrunnable[w]
      /\ \A x \in Worker : wtask[x] = t => x = w
      /\ \A x \in Pool : ~shutdown[x]
  BY <1>3 DEF TypeOK, WorkerInv, TaskInv, PoolInv
<1>5. \A x \in Pool : ~OnRunq(x, t) /\ t \notin waitq[x] /\ cur[x] # t
  BY SMTT(60), <1>4 DEF PoolInv
<1>6. WorkerInv' /\ NeverThrows'
  BY <1>3, <1>4 DEF TypeOK, WorkerInv, NeverThrows
<1>7. ASSUME wrunnable[w] PROVE TypeOK' /\ TaskInv' /\ PoolInv'
  <2>1. /\ runq' = [runq EXCEPT ![e] = Append(@, t)]
        /\ epc' = [epc EXCEPT ![e] = NotifyIdle(e)]
        /\ waitq' = waitq
    BY Zenon, <1>3, <1>7
  <2>2. /\ Append(runq[e], t) \in Seq(Task)
        /\ \A x \in Task : OnRunq(e, x)' <=> OnRunq(e, x) \/ x = t
        /\ Once(runq'[e])
    <3>1. runq'[e] = Append(runq[e], t) /\ runq[e] \in Seq(Task)
      BY Zenon, <2>1 DEF TypeOK
    <3>2. Once(runq[e]) /\ ~On(runq[e], t)
      BY Zenon, <1>5 DEF PoolInv, OnRunq
    <3>3. QED
      BY <3>1, <3>2, Push DEF OnRunq
  <2>3. \A x \in Pool, y \in Task : x # e => (OnRunq(x, y)' <=> OnRunq(x, y))
    BY Zenon, <2>1 DEF TypeOK, OnRunq
  <2>4. TypeOK'
    BY Zenon, <1>1, <1>3, <2>1, <2>2, NotifyIdleKeepsPhase DEF TypeOK
  <2>5. TaskInv'
    BY SMTT(60), <1>3, <1>4, <1>5, <1>7, <2>1, <2>2, <2>3, NotifyIdleKeepsPhase
       DEF TypeOK, TaskInv, PoolInv, WorkerInv
  <2>6. PoolInv'
    BY SMTT(60), <1>3, <1>4, <1>5, <1>7, <2>1, <2>2, <2>3, NotifyIdleKeepsPhase
       DEF TypeOK, PoolInv
  <2>7. QED
    BY Zenon, <2>4, <2>5, <2>6
<1>8. ASSUME ~wrunnable[w] PROVE TypeOK' /\ TaskInv' /\ PoolInv'
  <2>1. /\ waitq' = [waitq EXCEPT ![e] = @ \cup {t}]
        /\ runq' = runq /\ epc' = epc
    BY Zenon, <1>3, <1>8
  <2>2. TypeOK'
    BY <1>1, <1>3, <2>1 DEF TypeOK
  <2>3. TaskInv'
    BY SMTT(60), <1>3, <1>4, <1>5, <1>8, <2>1 DEF TypeOK, TaskInv, PoolInv, WorkerInv, OnRunq
  <2>4. PoolInv'
    BY <1>3, <1>4, <1>5, <1>8, <2>1 DEF TypeOK, PoolInv, OnRunq
  <2>5. QED
    BY <2>2, <2>3, <2>4
<1>9. QED
  BY Zenon, <1>6, <1>7, <1>8

\* The end of an event handler keeps IInv.
LEMMA LeaveEventIInv ==
  ASSUME IInv, NEW w \in Worker, LeaveEvent(w)
  PROVE  IInv'
<1> USE ExecutorAssumption DEF LeaveEvent, IInv, NeverThrows, execVars, taskVars, workVars
<1>1. TypeOK'
  BY Zenon DEF TypeOK, ExecutorPC
<1>2. WorkerInv'
  BY DEF TypeOK, WorkerInv, TaskInv, PoolInv
<1>3. TaskInv'
  BY Zenon DEF TypeOK, WorkerInv, TaskInv, PoolInv, OnRunq
<1>4. PoolInv'
  BY DEF TypeOK, WorkerInv, TaskInv, PoolInv, OnRunq
<1>5. NeverThrows'
  BY Zenon
<1>6. QED
  BY Zenon, <1>1, <1>2, <1>3, <1>4, <1>5

\* The end of a worker thread keeps IInv.
LEMMA JoinWorkerIInv ==
  ASSUME IInv, NEW w \in Worker, JoinWorker(w)
  PROVE  IInv'
<1> USE ExecutorAssumption DEF JoinWorker, IInv, NeverThrows, execVars, taskVars, workVars
<1>1. TypeOK'
  BY Zenon DEF TypeOK, ExecutorPC
<1>2. WorkerInv'
  BY DEF TypeOK, WorkerInv, TaskInv, PoolInv
<1>3. TaskInv'
  BY Zenon DEF TypeOK, WorkerInv, TaskInv, PoolInv, OnRunq
<1>4. PoolInv'
  BY DEF TypeOK, WorkerInv, TaskInv, PoolInv, OnRunq
<1>5. NeverThrows'
  BY Zenon
<1>6. QED
  BY Zenon, <1>1, <1>2, <1>3, <1>4, <1>5

\* A step that changes nothing keeps IInv.
LEMMA StutterIInv ==
  ASSUME IInv, UNCHANGED vars
  PROVE  IInv'
<1> USE DEF vars, execVars, taskVars, workVars
<1>1. TypeOK' BY Zenon DEF IInv, TypeOK
<1>2. WorkerInv' BY Zenon DEF IInv, WorkerInv
<1>3. TaskInv' BY Zenon DEF IInv, TaskInv, OnRunq
<1>4. PoolInv' BY DEF IInv, PoolInv, OnRunq
<1>5. NeverThrows' BY Zenon DEF IInv, NeverThrows
<1> QED BY Zenon, <1>1, <1>2, <1>3, <1>4, <1>5 DEF IInv

-----------------------------------------------------------------------------
(* Steps of the backend and the executor threads.                          *)

\* Executor::makeRunnable, called by a backend thread, keeps IInv.
LEMMA MakeRunnableIInv ==
  ASSUME IInv, NEW t \in Task, MakeRunnable(t)
  PROVE  IInv'
<1> USE ExecutorAssumption DEF MakeRunnable, IInv, NeverThrows, execVars, taskVars, workVars
<1> DEFINE e == executor[t]
<1>0. /\ TypeOK /\ e \in Pool /\ t \in waitq[e]
      /\ \A x \in Pool : t \in waitq[x] => x = e
  BY SMTT(60) DEF TypeOK, WorkerInv, TaskInv, PoolInv
<1>a. /\ runq' = [runq EXCEPT ![e] = Append(@, t)]
      /\ waitq' = [waitq EXCEPT ![e] = @ \ {t}]
      /\ epc' = [epc EXCEPT ![e] = NotifyIdle(e)]
      /\ failed' = failed
  BY Zenon, <1>0 DEF EraseWaiting
<1>b. /\ \A x \in Task : OnRunq(e, x)' <=> OnRunq(e, x) \/ x = t
      /\ Once(runq'[e])
  <2>1. runq'[e] = Append(runq[e], t) /\ runq[e] \in Seq(Task)
    BY Zenon, <1>0, <1>a DEF TypeOK
  <2>2. ~OnRunq(e, t)
    BY Zenon, <1>0 DEF PoolInv
  <2>3. QED
    BY <1>0, <2>1, <2>2, Push DEF PoolInv, OnRunq
<1>d. \A x \in Pool, y \in Task : x # e => (OnRunq(x, y)' <=> OnRunq(x, y))
  BY Zenon, <1>0, <1>a DEF TypeOK, OnRunq
<1>1. TypeOK'
  BY SMTT(60), <1>0, <1>a, NotifyIdleKeepsPhase DEF TypeOK
<1>2. WorkerInv'
  BY SMTT(20) DEF TypeOK, WorkerInv, TaskInv, PoolInv
<1>3. TaskInv'
  BY SMTT(60), <1>0, <1>a, <1>b, <1>d, NotifyIdleKeepsPhase DEF TypeOK, TaskInv, PoolInv
<1>4. PoolInv'
  BY SMTT(60), <1>0, <1>a, <1>b, <1>d, NotifyIdleKeepsPhase DEF TypeOK, PoolInv
<1>5. NeverThrows'
  BY Zenon, <1>a
<1>6. QED
  BY Zenon, <1>1, <1>2, <1>3, <1>4, <1>5

\* A step that only moves an executor, from one point where it holds no task to
\* another, keeps IInv.
LEMMA ExecutorWaits ==
  ASSUME IInv, NEW e \in Pool, NEW p \in {"idle", "drain", "drainIdle", "stopped"},
         epc[e] \in {"loop", "drain"},
         p # "idle" => shutdown[e],
         p = "stopped" => waitq[e] = {},
         epc' = [epc EXCEPT ![e] = p],
         UNCHANGED <<runq, waitq, shutdown, cur, taskVars, workVars, failed>>
  PROVE  IInv'
<1> USE DEF taskVars, workVars
<1>0. TypeOK /\ WorkerInv /\ TaskInv /\ PoolInv /\ NeverThrows
  BY Zenon DEF IInv
<1>1. TypeOK'
  BY Zenon, <1>0 DEF TypeOK, ExecutorPC
<1>2. WorkerInv'
  BY Zenon, <1>0 DEF WorkerInv
<1>3. TaskInv'
  BY <1>0 DEF TypeOK, TaskInv, OnRunq
<1>4. PoolInv'
  BY <1>0 DEF TypeOK, PoolInv, OnRunq
<1>5. NeverThrows'
  BY Zenon, <1>0 DEF NeverThrows
<1>6. QED
  BY Zenon, <1>1, <1>2, <1>3, <1>4, <1>5 DEF IInv

\* An executor that finds nothing to run and waits keeps IInv.
LEMMA IdleIInv ==
  ASSUME IInv, NEW e \in Pool, Idle(e)
  PROVE  IInv'
BY Zenon, ExecutorWaits DEF Idle

\* Taking a task off the run queue keeps IInv.
LEMMA PopIInv ==
  ASSUME IInv, NEW e \in Pool, Pop(e)
  PROVE  IInv'
<1> USE ExecutorAssumption DEF Pop, IInv, NeverThrows, execVars, taskVars, workVars
<1>1. TypeOK'
  BY SMTT(60) DEF TypeOK, ExecutorPC
<1>2. WorkerInv'
  BY Zenon DEF TypeOK, WorkerInv, PoolInv
<1> DEFINE h == Head(runq[e])
<1>a. /\ runq[e] \in Seq(Task) /\ runq[e] # <<>> /\ h \in Task
      /\ cur[e] = None /\ epc[e] = "loop"
  BY Zenon, Pull DEF TypeOK, PoolInv
<1>b. \A x \in Task : OnRunq(e, x)' <=> OnRunq(e, x) /\ x # h
  <2>1. runq'[e] = Tail(runq[e])
    BY Zenon DEF TypeOK
  <2>2. Once(runq[e])
    BY Zenon DEF PoolInv
  <2> HIDE DEF Pop, IInv, NeverThrows, execVars, taskVars, workVars, h
  <2>3. \A y : On(Tail(runq[e]), y) <=> On(runq[e], y) /\ y # Head(runq[e])
    BY Zenon, <1>a, <2>2, Pull
  <2>4. QED
    BY Zenon, <2>1, <2>3 DEF OnRunq, h
<1>c. OnRunq(e, h)
  BY Zenon, <1>a, Pull DEF PoolInv, OnRunq
<1>d. \A x \in Pool, y \in Task : x # e => (OnRunq(x, y)' <=> OnRunq(x, y))
  BY Zenon DEF TypeOK, OnRunq
<1>e. Once(runq'[e])
  <2>1. runq'[e] = Tail(runq[e])
    BY DEF TypeOK
  <2>2. QED
    BY <1>a, <2>1, Pull DEF PoolInv
<1>3. TaskInv'
  BY SMTT(60), <1>a, <1>b, <1>c, <1>d DEF TypeOK, TaskInv, PoolInv
<1>4. PoolInv'
  BY SMTT(60), <1>a, <1>b, <1>c, <1>d, <1>e, ExecutorAssumption DEF TypeOK, PoolInv
<1>5. NeverThrows'
  BY Zenon
<1>6. QED
  BY Zenon, <1>1, <1>2, <1>3, <1>4, <1>5

\* A task that finishes keeps IInv.
LEMMA ExecuteDoneIInv ==
  ASSUME IInv, NEW e \in Pool, ExecuteDone(e)
  PROVE  IInv'
<1> USE ExecutorAssumption DEF ExecuteDone, IInv, NeverThrows, workVars
<1>0. cur[e] \in Task
  BY DEF TypeOK, PoolInv
<1>1. TypeOK'
  BY Zenon, <1>0 DEF TypeOK, ExecutorPC
<1>2. WorkerInv'
  BY <1>0 DEF TypeOK, WorkerInv, PoolInv
<1>3. TaskInv'
  BY SMTT(60), <1>0 DEF TypeOK, TaskInv, PoolInv, OnRunq
<1>4. PoolInv'
  BY SMTT(60), <1>0 DEF TypeOK, PoolInv, OnRunq
<1>5. QED
  BY Zenon, <1>1, <1>2, <1>3, <1>4

\* A task that hands over to a backend thread keeps IInv.
LEMMA ExecuteBlocksIInv ==
  ASSUME IInv, NEW e \in Pool, ExecuteBlocks(e)
  PROVE  IInv'
<1> USE ExecutorAssumption DEF ExecuteBlocks, IInv, NeverThrows, workVars, HolderWhenBlocked
<1>0. cur[e] \in Task
  BY SMTT(60) DEF TypeOK, PoolInv
<1>1. TypeOK'
  BY <1>0 DEF TypeOK, ExecutorPC
<1>2. WorkerInv'
  BY SMTT(60), <1>0 DEF TypeOK, WorkerInv, PoolInv
<1>3. TaskInv'
  BY SMTT(60), <1>0 DEF TypeOK, TaskInv, PoolInv, OnRunq
<1>4. PoolInv'
  BY SMTT(60), <1>0 DEF TypeOK, PoolInv, OnRunq
<1>5. QED
  BY Zenon, <1>1, <1>2, <1>3, <1>4

\* Releasing the mutex of a finished task keeps IInv.
LEMMA UnlockIInv ==
  ASSUME IInv, NEW e \in Pool, Unlock(e)
  PROVE  IInv'
<1> USE ExecutorAssumption DEF Unlock, IInv, NeverThrows, execVars, taskVars, workVars
<1>1. TypeOK'
  BY Zenon DEF TypeOK, ExecutorPC
<1>2. WorkerInv'
  BY SMTT(60) DEF TypeOK, WorkerInv, PoolInv
<1>3. TaskInv'
  BY SMTT(60) DEF TypeOK, TaskInv, PoolInv, OnRunq
<1>4. PoolInv'
  BY SMTT(60) DEF TypeOK, PoolInv, OnRunq
<1>5. NeverThrows'
  BY Zenon
<1>6. QED
  BY Zenon, <1>1, <1>2, <1>3, <1>4, <1>5

\* Notifying the connection of a finished task keeps IInv.
LEMMA NotifyIInv ==
  ASSUME IInv, NEW e \in Pool, Notify(e)
  PROVE  IInv'
<1> USE ExecutorAssumption DEF Notify, IInv, NeverThrows, execVars, taskVars, workVars
<1>1. TypeOK'
  BY SMTT(60) DEF TypeOK, PoolInv, ExecutorPC, HolderWhenBlocked
<1>2. WorkerInv'
  BY SMTT(60) DEF TypeOK, WorkerInv, PoolInv
<1>3. TaskInv'
  BY SMTT(60) DEF TypeOK, TaskInv, PoolInv, OnRunq
<1>4. PoolInv'
  BY SMTT(60) DEF TypeOK, PoolInv, OnRunq
<1>5. NeverThrows'
  BY Zenon
<1>6. QED
  BY Zenon, <1>1, <1>2, <1>3, <1>4, <1>5

\* Putting a blocked task on the wait queue keeps IInv.
LEMMA ParkIInv ==
  ASSUME IInv, NEW e \in Pool, Park(e)
  PROVE  IInv'
<1> USE ExecutorAssumption DEF Park, IInv, NeverThrows, execVars, taskVars, workVars
<1>1. TypeOK'
  BY SMTT(60) DEF TypeOK, PoolInv, ExecutorPC, HolderWhenBlocked
<1>2. WorkerInv'
  BY SMTT(60) DEF TypeOK, WorkerInv, PoolInv
<1>3. TaskInv'
  BY SMTT(60) DEF TypeOK, TaskInv, PoolInv, OnRunq
<1>4. PoolInv'
  BY SMTT(60) DEF TypeOK, PoolInv, OnRunq
<1>5. NeverThrows'
  BY Zenon
<1>6. QED
  BY Zenon, <1>1, <1>2, <1>3, <1>4, <1>5

\* An executor that sees the shutdown keeps IInv.
LEMMA LeaveLoopIInv ==
  ASSUME IInv, NEW e \in Pool, LeaveLoop(e)
  PROVE  IInv'
BY Zenon, ExecutorWaits DEF LeaveLoop

\* An executor that waits for its blocked tasks keeps IInv.
LEMMA DrainIInv ==
  ASSUME IInv, NEW e \in Pool, Drain(e)
  PROVE  IInv'
<1>1. shutdown[e]
  BY Zenon DEF Drain, IInv, PoolInv
<1>2. QED
  BY Zenon, <1>1, ExecutorWaits DEF Drain

\* ~Executor keeps IInv.
LEMMA DestroyExecutorIInv ==
  ASSUME IInv, NEW e \in Pool, DestroyExecutor(e)
  PROVE  IInv'
<1> USE ExecutorAssumption DEF DestroyExecutor, IInv, NeverThrows, execVars, taskVars, workVars
<1>0. TypeOK /\ WorkerInv /\ TaskInv /\ PoolInv
  BY Zenon
<1>1. TypeOK'
  BY Zenon, NotifyIdleKeepsPhase DEF TypeOK
<1>2. WorkerInv'
  BY Zenon DEF TypeOK, WorkerInv, PoolInv
<1>3. TaskInv'
  BY SMTT(60), NotifyIdleKeepsPhase DEF TypeOK, TaskInv, PoolInv, OnRunq
<1>4. PoolInv'
  BY SMTT(60), NotifyIdleKeepsPhase DEF ExecutorPC, TypeOK, PoolInv, OnRunq
<1>5. NeverThrows'
  BY Zenon
<1>6. QED
  BY Zenon, <1>1, <1>2, <1>3, <1>4, <1>5

\* Every step keeps IInv.
LEMMA NextIInv == IInv /\ [Next]_vars => IInv'
<1> SUFFICES ASSUME IInv, [Next]_vars PROVE IInv'
  BY Zenon
<1>1. ASSUME UNCHANGED vars PROVE IInv'
  BY Zenon, <1>1, StutterIInv
<1>2. ASSUME NEW w \in Worker,
             \/ \E t \in Task, r \in BOOLEAN : CreateTask(w, t, r)
             \/ Schedule(w) \/ LeaveEvent(w) \/ JoinWorker(w)
      PROVE  IInv'
  BY Zenon, <1>2, CreateTaskIInv, ScheduleIInv, LeaveEventIInv, JoinWorkerIInv
<1>3. ASSUME NEW t \in Task, MakeRunnable(t) PROVE IInv'
  BY Zenon, <1>3, MakeRunnableIInv
<1>4. ASSUME NEW e \in Pool, ExecutorStep(e) \/ DestroyExecutor(e) PROVE IInv'
  BY Zenon, <1>4, IdleIInv, PopIInv, ExecuteDoneIInv, ExecuteBlocksIInv, UnlockIInv,
     NotifyIInv, ParkIInv, LeaveLoopIInv, DrainIInv, DestroyExecutorIInv DEF ExecutorStep
<1>5. QED
  BY Zenon, <1>1, <1>2, <1>3, <1>4 DEF Next

\* The inductive invariant holds in every reachable state.
THEOREM Invariance == Spec => []IInv
BY InitIInv, NextIInv, PTL DEF Spec

-----------------------------------------------------------------------------
(* What follows from it. *)

\* The variables of the pool keep their types whatever the threads do.
THEOREM TypeCorrect == Spec => []TypeOK
<1>1. IInv => TypeOK
  BY Zenon DEF IInv
<1>2. QED
  BY <1>1, Invariance, PTL

\* For any number of tasks, workers and executors, makeRunnable finds the task
\* on the wait queue: holding the task mutex from the start of the backend
\* thread to the end of schedule is enough.
THEOREM MakeRunnableNeverThrows == Spec => []NeverThrows
<1>1. IInv => NeverThrows
  BY Zenon DEF IInv
<1>2. QED
  BY <1>1, Invariance, PTL

\* A task is in one place from schedule to completion, and completed once.
THEOREM OnePlace == Spec => []TaskInOnePlace
<1>1. ASSUME IInv, NEW t \in Task
      PROVE  /\ completed[t] <= 1
             /\ IF executor[t] = None \/ completed[t] = 1
                  THEN Places(t) = {}
                  ELSE \E p \in Places(t) : Places(t) = {p}
  <2> USE <1>1, ExecutorAssumption DEF IInv
  <2>1. \A e \in Pool : \A i \in DOMAIN runq[e] :
           <<"run", e, i>> \in Places(t) <=> runq[e][i] = t
    BY DEF Places, RunPlaces
  <2>2. \A p \in Places(t) :
          \/ \E e \in Pool : \E i \in DOMAIN runq[e] : p = <<"run", e, i>> /\ runq[e][i] = t
          \/ \E e \in Pool : p = <<"wait", e>> /\ t \in waitq[e]
          \/ \E e \in Pool : p = <<"cur", e>> /\ cur[e] = t
    BY DEF Places, RunPlaces
  <2>3. \A e \in Pool : OnRunq(e, t) \/ t \in waitq[e] \/ cur[e] = t =>
                        executor[t] = e /\ completed[t] = 0
    BY DEF PoolInv
  <2>4. completed[t] <= 1
    BY Zenon DEF TaskInv
  <2>5. ASSUME executor[t] = None \/ completed[t] = 1 PROVE Places(t) = {}
    BY SMTT(60), <2>2, <2>3, <2>5 DEF OnRunq, On
  <2>6. ASSUME executor[t] # None, completed[t] # 1
        PROVE  \E p \in Places(t) : Places(t) = {p}
    <3>1. completed[t] = 0 /\ executor[t] \in Pool
      BY <2>4, <2>6 DEF TypeOK
    <3> DEFINE e == executor[t]
    <3>2. OnRunq(e, t) \/ t \in waitq[e] \/ cur[e] = t
      BY Zenon, <2>6, <3>1 DEF TaskInv
    <3>3. ASSUME OnRunq(e, t) PROVE \E p \in Places(t) : Places(t) = {p}
      <4>1. PICK i \in DOMAIN runq[e] : runq[e][i] = t
        BY Zenon, <3>3 DEF OnRunq, On
      <4>2. <<"run", e, i>> \in Places(t)
        BY Zenon, <2>1, <3>1, <4>1
      <4>3. cur[e] # t /\ t \notin waitq[e] /\ Once(runq[e])
        BY <3>1, <3>3 DEF PoolInv
      <4>4. \A p \in Places(t) : p = <<"run", e, i>>
        BY Zenon, <2>2, <2>3, <4>1, <4>3 DEF Once, OnRunq, On
      <4>5. QED
        BY Zenon, <4>2, <4>4
    <3>4. ASSUME t \in waitq[e] PROVE \E p \in Places(t) : Places(t) = {p}
      <4>1. <<"wait", e>> \in Places(t)
        BY Zenon, <3>1, <3>4 DEF Places
      <4>2. cur[e] # t /\ ~OnRunq(e, t)
        BY Zenon, <3>1, <3>4 DEF PoolInv
      <4>3. \A p \in Places(t) : p = <<"wait", e>>
        BY Zenon, <2>2, <2>3, <4>2 DEF OnRunq, On
      <4>4. QED
        BY Zenon, <4>1, <4>3
    <3>5. ASSUME cur[e] = t PROVE \E p \in Places(t) : Places(t) = {p}
      <4>1. <<"cur", e>> \in Places(t)
        BY Zenon, <3>1, <3>5 DEF Places
      <4>2. t \notin waitq[e] /\ ~OnRunq(e, t)
        BY <3>1, <3>5 DEF PoolInv
      <4>3. \A p \in Places(t) : p = <<"cur", e>>
        BY Zenon, <2>2, <2>3, <4>2 DEF OnRunq, On
      <4>4. QED
        BY Zenon, <4>1, <4>3
    <3>6. QED
      BY Zenon, <3>2, <3>3, <3>4, <3>5
  <2>7. QED
    BY Zenon, <2>4, <2>5, <2>6
<1>2. IInv => TaskInOnePlace
  BY Zenon, <1>1 DEF TaskInOnePlace
<1>3. QED
  BY <1>2, Invariance, PTL

\* An executor that stopped is not used any more: freeing it is safe.
THEOREM StoppedExecutorIsFree == Spec => []StoppedIsUntouched
<1>1. ASSUME IInv, NEW e \in Pool, epc[e] = "stopped"
      PROVE  /\ cur[e] = None
             /\ \A t \in Task : executor[t] = e => backend[t] # "running"
             /\ \A w \in Worker : wpc[w] = "joined"
  <2> USE <1>1, ExecutorAssumption DEF IInv
  <2>1. cur[e] = None /\ waitq[e] = {} /\ shutdown[e]
    BY Zenon DEF PoolInv
  <2>2. \A t \in Task : executor[t] = e => backend[t] # "running"
    BY Zenon, <2>1 DEF TaskInv
  <2>3. \A w \in Worker : wpc[w] = "joined"
    BY Zenon, <2>1 DEF PoolInv
  <2>4. QED
    BY Zenon, <2>1, <2>2, <2>3
<1>2. IInv => StoppedIsUntouched
  BY Zenon, <1>1 DEF StoppedIsUntouched
<1>3. QED
  BY <1>2, Invariance, PTL

-----------------------------------------------------------------------------
(* The keys a bucket used last.                                            *)

TopKeysShards == 0 .. NumShards - 1

TopKeyElements == [key : TopKeysKeys, count : Nat, ctime : Nat]

\* The uses of a key.
UsesIn(h, k) == {n \in DOMAIN h : h[n] = k}

\* How often each key has been used.
UseCounts(h) == [k \in TopKeysKeys |-> Cardinality(UsesIn(h, k))]

\* A key is in one element only.
KeysDiffer(els) == \A m, n \in DOMAIN els : m # n => els[m].key # els[n].key

\* No use is counted that did not happen.
NotOvercounted(els, u) == \A n \in DOMAIN els : els[n].count <= u[els[n].key]

\* The list holds every element of the storage, once.
ListsAll(li, st) ==
  /\ li \in Seq(Nat)
  /\ \A n \in DOMAIN li : li[n] \in DOMAIN st
  /\ \A m, n \in DOMAIN li : m # n => li[m] # li[n]
  /\ \A i \in DOMAIN st : \E n \in DOMAIN li : li[n] = i

\* What a shard holds between two updates.
ShardHolds(st, li, s, u) ==
  /\ st \in Seq(TopKeyElements) /\ ListsAll(li, st)
  /\ \A i \in DOMAIN st : getShard(st[i].key) = s
  /\ KeysDiffer(st) /\ NotOvercounted(st, u)

TopKeysTypes ==
  /\ DOMAIN tk = {"storage", "list", "history", "at", "now", "report", "reports"}
  /\ DOMAIN tk.storage = TopKeysShards /\ DOMAIN tk.list = TopKeysShards
  /\ tk.history \in Seq(TopKeysKeys) /\ tk.at \in 0 .. NumShards

\* What a report holds that has come to shard at.
ReportHolds(report, at, u) ==
  /\ report \in Seq(TopKeyElements)
  /\ \A n \in DOMAIN report : getShard(report[n].key) < at
  /\ KeysDiffer(report) /\ NotOvercounted(report, u)

TopKeysIInv ==
  /\ TopKeysTypes
  /\ \A s \in TopKeysShards : ShardHolds(tk.storage[s], tk.list[s], s, UseCounts(tk.history))
  /\ ReportHolds(tk.report, tk.at, UseCounts(tk.history))

-----------------------------------------------------------------------------

\* The uses of a key are finitely many.
LEMMA UsesFinite ==
  ASSUME NEW h \in Seq(TopKeysKeys), NEW k
  PROVE  IsFiniteSet(UsesIn(h, k)) /\ Cardinality(UsesIn(h, k)) \in Nat
<1>1. IsFiniteSet(1 .. Len(h))
  BY FS_Interval
<1>2. UsesIn(h, k) \subseteq 1 .. Len(h)
  BY DEF UsesIn
<1>3. QED
  BY Zenon, <1>1, <1>2, FS_Subset, FS_CardinalityType

\* A use counts for its key.
LEMMA UsesAppended ==
  ASSUME NEW h \in Seq(TopKeysKeys), NEW key \in TopKeysKeys
  PROVE  /\ UseCounts(h) \in [TopKeysKeys -> Nat]
         /\ UseCounts(Append(h, key)) \in [TopKeysKeys -> Nat]
         /\ \A k \in TopKeysKeys :
              UseCounts(Append(h, key))[k] = UseCounts(h)[k] + IF k = key THEN 1 ELSE 0
<1>1. Append(h, key) \in Seq(TopKeysKeys)
  OBVIOUS
<1>2. ASSUME NEW k \in TopKeysKeys
      PROVE  Cardinality(UsesIn(Append(h, key), k)) =
               Cardinality(UsesIn(h, k)) + IF k = key THEN 1 ELSE 0
  <2>1. CASE k = key
    <3>1. UsesIn(Append(h, key), k) = UsesIn(h, k) \cup {Len(h) + 1}
      BY <2>1 DEF UsesIn
    <3>2. Len(h) + 1 \notin UsesIn(h, k)
      BY DEF UsesIn
    <3>3. Cardinality(UsesIn(h, k) \cup {Len(h) + 1}) = Cardinality(UsesIn(h, k)) + 1
      BY Zenon, <3>2, UsesFinite, FS_AddElement
    <3>4. QED
      BY Zenon, <2>1, <3>1, <3>3
  <2>2. CASE k # key
    <3>1. UsesIn(Append(h, key), k) = UsesIn(h, k)
      BY <2>2 DEF UsesIn
    <3>2. QED
      BY <2>2, <3>1, UsesFinite
  <2>3. QED
    BY Zenon, <2>1, <2>2
<1>3. QED
  BY Zenon, <1>1, <1>2, UsesFinite DEF UseCounts

\* The list F is li with i at the front.
FrontOf(F, li, i) ==
  /\ F \in Seq(Nat)
  /\ \A n \in DOMAIN F : F[n] = i \/ \E m \in DOMAIN li : F[n] = li[m]
  /\ \A m, n \in DOMAIN F : m # n => F[m] # F[n]
  /\ \E n \in DOMAIN F : F[n] = i
  /\ \A m \in DOMAIN li : \E n \in DOMAIN F : F[n] = li[m]

\* The list after a use.
LEMMA MovedToFront ==
  ASSUME NEW li \in Seq(Nat), NEW i \in Nat,
         \A m, n \in DOMAIN li : m # n => li[m] # li[n],
         NEW F, F = ToFront(li, i)
  PROVE  FrontOf(F, li, i)
<1> DEFINE at == {n \in DOMAIN li : li[n] = i}
           gap == IF at = {} THEN Len(li) + 1 ELSE CHOOSE n \in at : TRUE
           len == IF at = {} THEN gap ELSE Len(li)
<1>1. F = [n \in 1 .. len |->
             CASE n = 1 -> i [] n \in 2 .. gap -> li[n - 1] [] OTHER -> li[n]]
  BY Zenon DEF ToFront
<1>2. /\ gap \in 1 .. len /\ len \in Nat \ {0} /\ Len(li) <= len
      /\ \A n \in 1 .. Len(li) : n # gap => li[n] # i
      /\ gap <= Len(li) => li[gap] = i
      /\ gap > Len(li) => gap = Len(li) + 1 /\ len = gap
      /\ gap <= Len(li) => len = Len(li)
  <2>1. CASE at = {}
    BY <2>1
  <2>2. CASE at # {}
    <3>1. gap \in at
      BY Zenon, <2>2
    <3>2. QED
      BY <2>2, <3>1
  <2>3. QED
    BY Zenon, <2>1, <2>2
<1> HIDE DEF gap, len, at
<1>3. /\ DOMAIN F = 1 .. len /\ F[1] = i
      /\ \A n \in 2 .. gap : F[n] = li[n - 1]
      /\ \A n \in gap + 1 .. len : F[n] = li[n]
  BY SMTT(30), <1>1, <1>2
<1>a. F = [n \in 1 .. len |-> F[n]]
  BY Zenon, <1>1
<1>4. \A n \in 1 .. len : n = 1 \/ n \in 2 .. gap \/ n \in gap + 1 .. len
  BY <1>2
<1>5. \A n \in 2 .. gap : n - 1 \in DOMAIN li /\ n - 1 # gap
  BY <1>2
<1>6. \A n \in gap + 1 .. len : n \in DOMAIN li /\ n # gap
  BY <1>2
<1>7. \A n \in 1 .. len : F[n] \in Nat
  BY <1>3, <1>4, <1>5, <1>6
<1>8. F \in Seq(Nat)
  <2>1. F \in [1 .. len -> Nat]
    BY Zenon, <1>a, <1>7
  <2>2. QED
    BY <1>2, <2>1
<1>9. \A n \in DOMAIN F : F[n] = i \/ \E m \in DOMAIN li : F[n] = li[m]
  BY Zenon, <1>3, <1>4, <1>5, <1>6
<1>10. \A m, n \in DOMAIN F : m # n => F[m] # F[n]
  <2> SUFFICES ASSUME NEW m \in DOMAIN F, NEW n \in DOMAIN F, m < n PROVE F[m] # F[n]
    BY <1>2, <1>3
  <2>1. n # 1 /\ n \in 1 .. len /\ m \in 1 .. len
    BY <1>2, <1>3
  <2>2. PICK b \in DOMAIN li : b # gap /\ F[n] = li[b] /\ b = IF n \in 2 .. gap THEN n - 1 ELSE n
    BY Zenon, <1>2, <1>3, <1>4, <1>5, <1>6, <2>1
  <2>3. CASE m = 1
    BY <1>2, <1>3, <2>2, <2>3
  <2>4. CASE m # 1
    <3>1. PICK a \in DOMAIN li : a # gap /\ F[m] = li[a] /\ a = IF m \in 2 .. gap THEN m - 1 ELSE m
      BY Zenon, <1>2, <1>3, <1>4, <1>5, <1>6, <2>1, <2>4
    <3>2. a # b
      <4>1. gap \in Nat /\ m \in Nat /\ n \in Nat /\ m # 1
        BY <1>2, <2>1, <2>4
      <4>2. QED
        BY <2>1, <2>2, <3>1, <4>1
    <3>3. QED
      BY Zenon, <2>2, <3>1, <3>2
  <2>5. QED
    BY Zenon, <2>3, <2>4
<1>11. 1 \in DOMAIN F
  BY <1>2, <1>3
<1>12. ASSUME NEW m \in DOMAIN li PROVE \E n \in DOMAIN F : F[n] = li[m]
  <2>1. CASE m = gap
    BY <1>2, <1>3, <1>11, <2>1
  <2>2. CASE m < gap
    <3>1. m + 1 \in 2 .. gap /\ m + 1 \in DOMAIN F
      <4>1. m \in Nat \ {0} /\ m + 1 <= gap
        BY <1>2, <2>2
      <4>2. gap \in Nat /\ len \in Nat /\ gap <= len
        BY <1>2
      <4>3. m + 1 \in 2 .. gap /\ m + 1 \in 1 .. len
        BY <4>1, <4>2
      <4>4. QED
        BY Zenon, <1>3, <4>3
    <3>2. F[m + 1] = li[m]
      BY <1>3, <3>1
    <3>3. QED
      BY Zenon, <3>1, <3>2
  <2>3. CASE m > gap
    <3>1. m \in gap + 1 .. len /\ m \in DOMAIN F
      BY <1>2, <1>3, <2>3
    <3>2. QED
      BY Zenon, <1>3, <3>1
  <2>4. QED
    BY <1>2, <2>1, <2>2, <2>3
<1>13. QED
  BY Zenon, <1>3, <1>8, <1>9, <1>10, <1>11, <1>12 DEF FrontOf

\* The element of a key that is used.
LEMMA SlotFacts ==
  ASSUME NEW st, NEW li, NEW s, NEW u, ShardHolds(st, li, s, u), NEW key \in TopKeysKeys
  PROVE  /\ Slot(st, li, key) \in 1 .. Len(st) + 1
         /\ searchForKey(st, key) = {} => \A j \in DOMAIN st : st[j].key # key
         /\ searchForKey(st, key) # {} =>
              Slot(st, li, key) \in DOMAIN st /\ st[Slot(st, li, key)].key = key
<1> DEFINE found == searchForKey(st, key)
<1>1. st \in Seq(TopKeyElements) /\ ListsAll(li, st)
  BY Zenon DEF ShardHolds
<1>2. \A j \in found : j \in DOMAIN st /\ st[j].key = key
  BY Zenon DEF searchForKey
<1>3. \A j \in DOMAIN st : st[j].key = key => j \in found
  BY Zenon DEF searchForKey
<1>4. \A a, b \in found : a = b
  BY Zenon, <1>2 DEF ShardHolds, KeysDiffer
<1>5. CASE found # {}
  <2>1. PICK a \in found : TRUE
    BY Zenon, <1>5
  <2>2. a \in DOMAIN st /\ a \in Nat /\ st[a].key = key
    BY <1>1, <1>2, <2>1
  <2>3. \A j \in found : a <= j
    BY <1>4, <2>1, <2>2
  <2>4. Slot(st, li, key) \in found
    BY Zenon, <1>5, <2>1, <2>3 DEF Slot
  <2>5. Slot(st, li, key) = a
    BY Zenon, <1>4, <2>1, <2>4
  <2>6. QED
    BY <1>1, <1>5, <2>2, <2>5
<1>6. CASE found = {} /\ Len(st) = MaxKeys
  <2>1. Slot(st, li, key) = li[Len(li)]
    BY Zenon, <1>6 DEF Slot
  <2>2. 1 \in DOMAIN st
    BY <1>1, <1>6, TopKeysAssumption
  <2>3. Len(li) \in DOMAIN li
    BY <1>1, <2>2 DEF ListsAll
  <2>4. QED
    BY <1>1, <1>3, <1>6, <2>1, <2>3 DEF ListsAll
<1>7. CASE found = {} /\ Len(st) # MaxKeys
  <2>1. Slot(st, li, key) = Len(st) + 1
    BY Zenon, <1>7 DEF Slot
  <2>2. QED
    BY <1>1, <1>3, <1>7, <2>1
<1>8. QED
  BY Zenon, <1>5, <1>6, <1>7

\* One use more.
OneMore(q, i) == [q EXCEPT ![i].count = @ + 1]

Counted(st, i, key, now) == OneMore(Placed(st, i, key, now), i)

\* One use more of an element changes its count only.
LEMMA ElementCounted ==
  ASSUME NEW e \in TopKeyElements
  PROVE  /\ [e EXCEPT !.count = @ + 1] \in TopKeyElements
         /\ [e EXCEPT !.count = @ + 1].key = e.key
         /\ [e EXCEPT !.count = @ + 1].count = e.count + 1
BY DEF TopKeyElements

\* And no other element.
LEMMA OneMoreFacts ==
  ASSUME NEW q \in Seq(TopKeyElements), NEW i \in DOMAIN q
  PROVE  /\ OneMore(q, i) \in Seq(TopKeyElements) /\ DOMAIN OneMore(q, i) = DOMAIN q
         /\ \A j \in DOMAIN q : j # i => OneMore(q, i)[j] = q[j]
         /\ OneMore(q, i)[i].key = q[i].key /\ OneMore(q, i)[i].count = q[i].count + 1
<1>1. q[i] \in TopKeyElements
  OBVIOUS
<1>2. PICK e : e = [q[i] EXCEPT !.count = @ + 1]
  BY Zenon
<1>3. e \in TopKeyElements /\ e.key = q[i].key /\ e.count = q[i].count + 1
  BY Zenon, <1>1, <1>2, ElementCounted
<1>4. OneMore(q, i) = [q EXCEPT ![i] = e]
  BY Zenon, <1>2 DEF OneMore
<1>5. QED
  BY <1>3, <1>4

\* The storage c is st with one use more in element i, which is for the key.
CountedIn(c, st, i, key) ==
  /\ c \in Seq(TopKeyElements) /\ DOMAIN c = DOMAIN st \cup {i}
  /\ \A j \in DOMAIN st : j # i => c[j] = st[j]
  /\ c[i].key = key
  /\ c[i].count = 1 \/ (i \in DOMAIN st /\ st[i].key = key /\ c[i].count = st[i].count + 1)

\* The storage after a use.
LEMMA StorageUpdated ==
  ASSUME NEW st, NEW li, NEW s, NEW u, ShardHolds(st, li, s, u), NEW key \in TopKeysKeys,
         NEW now \in Nat, NEW i, i = Slot(st, li, key), NEW c, c = Counted(st, i, key, now)
  PROVE  CountedIn(c, st, i, key)
<1>1. st \in Seq(TopKeyElements) /\ i \in 1 .. Len(st) + 1
  BY Zenon, SlotFacts DEF ShardHolds
<1>2. Element(key, now) \in TopKeyElements /\ Element(key, now).key = key /\ Element(key, now).count = 0
  BY Zenon DEF Element, TopKeyElements
<1>4. CASE searchForKey(st, key) # {}
  <2>1. Placed(st, i, key, now) = st
    BY Zenon, <1>4 DEF Placed
  <2>2. i \in DOMAIN st /\ st[i].key = key
    BY Zenon, <1>4, SlotFacts
  <2>3. c = OneMore(st, i)
    BY Zenon, <2>1 DEF Counted
  <2>4. DOMAIN st \cup {i} = DOMAIN st
    BY Zenon, <2>2
  <2>5. QED
    BY <1>1, <2>2, <2>3, <2>4, OneMoreFacts DEF CountedIn
<1>5. CASE searchForKey(st, key) = {} /\ i \in DOMAIN st
  <2> DEFINE q == [st EXCEPT ![i] = Element(key, now)]
  <2>1. Placed(st, i, key, now) = q
    BY Zenon, <1>5 DEF Placed
  <2>2. /\ q \in Seq(TopKeyElements) /\ DOMAIN q = DOMAIN st /\ q[i] = Element(key, now)
        /\ \A j \in DOMAIN st : j # i => q[j] = st[j]
    BY <1>1, <1>2, <1>5
  <2> HIDE DEF q
  <2>3. c = OneMore(q, i)
    BY Zenon, <2>1 DEF Counted
  <2>4. DOMAIN st \cup {i} = DOMAIN st
    BY Zenon, <1>5
  <2>5. c[i].count = 1
    <3>1. c[i].count = q[i].count + 1
      <4>1. q \in Seq(TopKeyElements) /\ i \in DOMAIN q
        BY Zenon, <1>5, <2>2
      <4>2. QED
        BY Zenon, <4>1, <2>3, OneMoreFacts
    <3>2. q[i].count = 0
      BY Zenon, <1>2, <2>2
    <3>3. QED
      BY ONLY <3>1, <3>2
  <2>6. QED
    BY <1>2, <1>5, <2>2, <2>3, <2>4, <2>5, OneMoreFacts DEF CountedIn
<1>6. CASE searchForKey(st, key) = {} /\ i \notin DOMAIN st
  <2> DEFINE q == Append(st, Element(key, now))
  <2>1. Placed(st, i, key, now) = q
    BY Zenon, <1>6 DEF Placed
  <2>2. i = Len(st) + 1
    BY SMTT(30), <1>1, <1>6
  <2>3. /\ q \in Seq(TopKeyElements) /\ DOMAIN q = DOMAIN st \cup {i} /\ q[i] = Element(key, now)
        /\ \A j \in DOMAIN st : j # i => q[j] = st[j]
    BY <1>1, <1>2, <2>2
  <2> HIDE DEF q
  <2>4. QED
    BY <1>2, <2>1, <2>3, OneMoreFacts DEF Counted, CountedIn
<1>7. QED
  BY Zenon, <1>4, <1>5, <1>6

\* A shard after a use.
LEMMA ShardUpdated ==
  ASSUME NEW st, NEW li, NEW s, NEW u \in [TopKeysKeys -> Nat], ShardHolds(st, li, s, u),
         NEW key \in TopKeysKeys, getShard(key) = s, NEW now \in Nat,
         NEW v \in [TopKeysKeys -> Nat],
         \A k \in TopKeysKeys : v[k] = u[k] + IF k = key THEN 1 ELSE 0
  PROVE  ShardHolds(Counted(st, Slot(st, li, key), key, now), ToFront(li, Slot(st, li, key)), s, v)
<1>a. PICK i : i = Slot(st, li, key)
  BY Zenon
<1>b. PICK st2 : st2 = Counted(st, i, key, now)
  BY Zenon
<1>c. PICK li2 : li2 = ToFront(li, i)
  BY Zenon
<1>1. /\ st \in Seq(TopKeyElements) /\ ListsAll(li, st) /\ KeysDiffer(st) /\ NotOvercounted(st, u)
      /\ \A j \in DOMAIN st : getShard(st[j].key) = s
  BY Zenon DEF ShardHolds
<1>2. CountedIn(st2, st, i, key)
  BY Zenon, <1>a, <1>b, StorageUpdated
<1>3. i \in Nat
  BY <1>1, <1>a, SlotFacts
<1>4. \A j \in DOMAIN st : j # i => st[j].key # key
  <2>1. CASE searchForKey(st, key) = {}
    BY Zenon, <2>1, SlotFacts
  <2>2. CASE searchForKey(st, key) # {}
    <3>1. i \in DOMAIN st /\ st[i].key = key
      BY Zenon, <1>a, <2>2, SlotFacts
    <3>2. QED
      BY Zenon, <1>1, <3>1 DEF KeysDiffer
  <2>3. QED
    BY Zenon, <2>1, <2>2
<1>5. \A j \in DOMAIN st : st[j].key \in TopKeysKeys /\ st[j].count \in Nat
  <2>1. \A j \in DOMAIN st : st[j] \in TopKeyElements
    BY <1>1
  <2>2. QED
    BY Zenon, <2>1 DEF TopKeyElements
<1>6. ListsAll(li2, st2)
  <2>1. li \in Seq(Nat) /\ \A m, n \in DOMAIN li : m # n => li[m] # li[n]
    BY Zenon, <1>1 DEF ListsAll
  <2>2. FrontOf(li2, li, i)
    BY Zenon, <1>3, <1>c, <2>1, MovedToFront
  <2>3. \A n \in DOMAIN li2 : li2[n] \in DOMAIN st2
    BY Zenon, <1>1, <1>2, <2>2 DEF ListsAll, CountedIn, FrontOf
  <2>4. \A j \in DOMAIN st2 : \E n \in DOMAIN li2 : li2[n] = j
    <3> SUFFICES ASSUME NEW j \in DOMAIN st2 PROVE \E n \in DOMAIN li2 : li2[n] = j
      BY Zenon
    <3>1. CASE j = i
      BY Zenon, <2>2, <3>1 DEF FrontOf
    <3>2. CASE j \in DOMAIN st
      <4>1. PICK m \in DOMAIN li : li[m] = j
        BY Zenon, <1>1, <3>2 DEF ListsAll
      <4>2. QED
        BY Zenon, <2>2, <4>1 DEF FrontOf
    <3>3. QED
      BY Zenon, <1>2, <3>1, <3>2 DEF CountedIn
  <2>5. QED
    BY Zenon, <2>2, <2>3, <2>4 DEF ListsAll, FrontOf
<1>7. \A j \in DOMAIN st2 : getShard(st2[j].key) = s
  BY Zenon, <1>1, <1>2 DEF CountedIn
<1>8. KeysDiffer(st2)
  <2>1. /\ \A m, n \in DOMAIN st : m # n => st[m].key # st[n].key
        /\ DOMAIN st2 = DOMAIN st \cup {i} /\ st2[i].key = key
        /\ \A j \in DOMAIN st : j # i => st2[j] = st[j]
    BY Zenon, <1>1, <1>2 DEF KeysDiffer, CountedIn
  <2>2. ASSUME NEW m \in DOMAIN st2, NEW n \in DOMAIN st2, m # n
        PROVE  st2[m].key # st2[n].key
    <3>1. CASE m = i
      BY Zenon, <1>4, <2>1, <2>2, <3>1
    <3>2. CASE n = i
      BY Zenon, <1>4, <2>1, <2>2, <3>2
    <3>3. CASE m # i /\ n # i
      BY Zenon, <2>1, <2>2, <3>3
    <3>4. QED
      BY Zenon, <3>1, <3>2, <3>3
  <2>3. QED
    BY Zenon, <2>2 DEF KeysDiffer
<1>9. NotOvercounted(st2, v)
  <2>1. ASSUME NEW j \in DOMAIN st, j # i PROVE st2[j].count <= v[st2[j].key]
    BY <1>1, <1>2, <1>4, <1>5, <2>1 DEF NotOvercounted, CountedIn
  <2>2. st2[i].count <= v[st2[i].key]
    BY <1>1, <1>2, <1>5 DEF NotOvercounted, CountedIn
  <2>3. QED
    BY Zenon, <1>2, <2>1, <2>2 DEF NotOvercounted, CountedIn
<1>10. QED
  BY Zenon, <1>a, <1>b, <1>c, <1>2, <1>6, <1>7, <1>8, <1>9 DEF ShardHolds, CountedIn

\* Uses that come later do not make a count too high.
LEMMA MoreUses ==
  ASSUME NEW u \in [TopKeysKeys -> Nat], NEW v \in [TopKeysKeys -> Nat],
         \A k \in TopKeysKeys : u[k] <= v[k], NEW els \in Seq(TopKeyElements), NotOvercounted(els, u)
  PROVE  NotOvercounted(els, v)
<1>1. \A n \in DOMAIN els : els[n] \in TopKeyElements
  OBVIOUS
<1>2. \A n \in DOMAIN els : els[n].key \in TopKeysKeys /\ els[n].count \in Nat
  BY Zenon, <1>1 DEF TopKeyElements
<1>3. QED
  BY <1>2 DEF NotOvercounted

\* TopKeysInit establishes the invariant.
LEMMA TopKeysInitially == TopKeysInit => TopKeysIInv
<1> SUFFICES ASSUME TopKeysInit PROVE TopKeysIInv
  BY Zenon
<1>1. /\ tk.history = <<>> /\ tk.report = <<>> /\ tk.at = NumShards
      /\ tk.storage = [s \in TopKeysShards |-> <<>>] /\ tk.list = [s \in TopKeysShards |-> <<>>]
      /\ DOMAIN tk = {"storage", "list", "history", "at", "now", "report", "reports"}
  BY Zenon DEF TopKeysInit, TopKeysShards
<1>2. TopKeysTypes
  BY <1>1, TopKeysAssumption DEF TopKeysTypes
<1>3. \A u : \A s : ShardHolds(<<>>, <<>>, s, u)
  BY DEF ShardHolds, ListsAll, KeysDiffer, NotOvercounted
<1>4. \A u : ReportHolds(<<>>, NumShards, u)
  BY DEF ReportHolds, KeysDiffer, NotOvercounted
<1>5. QED
  BY Zenon, <1>1, <1>2, <1>3, <1>4 DEF TopKeysIInv

\* TopKeys::getShard names a shard.
LEMMA ShardOfKey == \A key \in TopKeysKeys : getShard(key) \in TopKeysShards
BY TopKeysAssumption DEF getShard, TopKeysShards

\* TopKeys::updateKey: one shard changes, a report under way does not.
LEMMA UpdateKeeps ==
  ASSUME TopKeysIInv, NEW key \in TopKeysKeys,
         tk' = [UpdateTopKey(tk, key, Len(tk.history)) EXCEPT !.history = Append(@, key)]
  PROVE  TopKeysIInv'
<1> DEFINE s == getShard(key)
           st == tk.storage[s]
           li == tk.list[s]
           i == Slot(st, li, key)
           u == UseCounts(tk.history)
           v == UseCounts(Append(tk.history, key))
<1>1. s \in TopKeysShards /\ TopKeysTypes
  BY Zenon, ShardOfKey DEF TopKeysIInv
<1>2. /\ tk'.storage = [tk.storage EXCEPT ![s] = Counted(st, i, key, Len(tk.history))]
      /\ tk'.list = [tk.list EXCEPT ![s] = ToFront(li, i)]
      /\ tk'.history = Append(tk.history, key)
      /\ tk'.at = tk.at /\ tk'.report = tk.report /\ DOMAIN tk' = DOMAIN tk
  BY Zenon, <1>1 DEF UpdateTopKey, Counted, OneMore, TopKeysTypes
<1>3. /\ u \in [TopKeysKeys -> Nat] /\ v \in [TopKeysKeys -> Nat]
      /\ \A k \in TopKeysKeys : v[k] = u[k] + IF k = key THEN 1 ELSE 0
  BY Zenon, <1>1, UsesAppended DEF TopKeysTypes
<1>4. \A k \in TopKeysKeys : u[k] <= v[k]
  BY <1>3
<1>5. Len(tk.history) \in Nat /\ Append(tk.history, key) \in Seq(TopKeysKeys)
  BY <1>1 DEF TopKeysTypes
<1>6. ShardHolds(st, li, s, u)
  BY Zenon, <1>1 DEF TopKeysIInv
<1>7. ShardHolds(Counted(st, i, key, Len(tk.history)), ToFront(li, i), s, v)
  BY Zenon, <1>3, <1>5, <1>6, ShardUpdated
<1> HIDE DEF s, u, v
<1>8. ASSUME NEW t \in TopKeysShards, t # s PROVE ShardHolds(tk.storage[t], tk.list[t], t, v)
  <2>1. ShardHolds(tk.storage[t], tk.list[t], t, u)
    BY Zenon DEF TopKeysIInv, u
  <2>2. QED
    BY Zenon, <1>3, <1>4, <2>1, MoreUses DEF ShardHolds
<1>9. ASSUME NEW t \in TopKeysShards PROVE ShardHolds(tk'.storage[t], tk'.list[t], t, v)
  <2>1. CASE t = s
    BY Zenon, <1>1, <1>2, <1>7, <2>1 DEF TopKeysTypes
  <2>2. CASE t # s
    BY Zenon, <1>1, <1>2, <1>8, <2>2 DEF TopKeysTypes
  <2>3. QED
    BY Zenon, <2>1, <2>2
<1>10. ReportHolds(tk.report, tk.at, v)
  <2>1. ReportHolds(tk.report, tk.at, u)
    BY Zenon DEF TopKeysIInv, u
  <2>2. QED
    BY Zenon, <1>3, <1>4, <2>1, MoreUses DEF ReportHolds
<1>11. TopKeysTypes'
  BY Zenon, <1>1, <1>2, <1>5 DEF TopKeysTypes
<1>12. QED
  BY Zenon, <1>2, <1>9, <1>10, <1>11 DEF TopKeysIInv, v

\* A report begins.
LEMMA BeginKeeps == ASSUME TopKeysIInv, StatsBegin PROVE TopKeysIInv'
<1>1. /\ tk'.storage = tk.storage /\ tk'.list = tk.list /\ tk'.history = tk.history
      /\ tk'.at = 0 /\ tk'.report = <<>> /\ DOMAIN tk' = DOMAIN tk
  BY Zenon DEF StatsBegin, TopKeysIInv, TopKeysTypes
<1>2. TopKeysTypes'
  BY <1>1, TopKeysAssumption DEF TopKeysIInv, TopKeysTypes
<1>3. \A u : ReportHolds(<<>>, 0, u)
  BY DEF ReportHolds, KeysDiffer, NotOvercounted
<1>4. QED
  BY Zenon, <1>1, <1>2, <1>3 DEF TopKeysIInv

\* A report takes what the next shard holds now: keys of no shard it has visited.
LEMMA VisitKeeps == ASSUME TopKeysIInv, accept_visitor PROVE TopKeysIInv'
<1> DEFINE at == tk.at
           st == tk.storage[at]
           li == tk.list[at]
           u == UseCounts(tk.history)
           part == [n \in DOMAIN li |-> st[li[n]]]
           report == tk.report \o part
<1>1. TopKeysTypes /\ at \in TopKeysShards
  BY TopKeysAssumption DEF TopKeysIInv, TopKeysTypes, accept_visitor, TopKeysShards
<1>2. /\ tk'.storage = tk.storage /\ tk'.list = tk.list /\ tk'.history = tk.history
      /\ tk'.at = at + 1 /\ tk'.report = report /\ DOMAIN tk' = DOMAIN tk
  BY Zenon, <1>1 DEF accept_visitor, TopKeysTypes
<1>3. ShardHolds(st, li, at, u)
  BY Zenon, <1>1 DEF TopKeysIInv
<1>4. ReportHolds(tk.report, at, u)
  BY Zenon DEF TopKeysIInv
<1>5. at \in Nat
  BY <1>1 DEF TopKeysShards
<1> HIDE DEF at, st, li, u
<1>6. /\ part \in Seq(TopKeyElements) /\ DOMAIN part = DOMAIN li
      /\ \A n \in DOMAIN part : li[n] \in DOMAIN st /\ part[n] = st[li[n]]
  <2>1. li \in Seq(Nat) /\ st \in Seq(TopKeyElements) /\ \A n \in DOMAIN li : li[n] \in DOMAIN st
    BY Zenon, <1>3 DEF ShardHolds, ListsAll
  <2>2. \A n \in DOMAIN li : st[li[n]] \in TopKeyElements
    BY <2>1
  <2>3. DOMAIN li = 1 .. Len(li) /\ Len(li) \in Nat
    BY <2>1
  <2>4. part \in [1 .. Len(li) -> TopKeyElements]
    BY Zenon, <2>2, <2>3
  <2>5. part \in Seq(TopKeyElements)
    BY <2>3, <2>4
  <2>6. QED
    BY Zenon, <2>1, <2>5
<1>7. KeysDiffer(part)
  <2>1. \A m, n \in DOMAIN li : m # n => li[m] # li[n]
    BY Zenon, <1>3 DEF ShardHolds, ListsAll
  <2>2. \A m, n \in DOMAIN st : m # n => st[m].key # st[n].key
    BY Zenon, <1>3 DEF ShardHolds, KeysDiffer
  <2>3. QED
    BY Zenon, <1>6, <2>1, <2>2 DEF KeysDiffer
<1>8. NotOvercounted(part, u)
  BY Zenon, <1>3, <1>6 DEF NotOvercounted, ShardHolds
<1>9. \A n \in DOMAIN part : getShard(part[n].key) = at
  BY Zenon, <1>3, <1>6 DEF ShardHolds
<1> HIDE DEF part
<1>10. ReportHolds(report, at + 1, u)
  <2>1. tk.report \in Seq(TopKeyElements)
    BY Zenon, <1>4 DEF ReportHolds
  <2>2. report \in Seq(TopKeyElements)
    BY <1>6, <2>1
  <2>3. ASSUME NEW n \in DOMAIN report
        PROVE  \/ n \in DOMAIN tk.report /\ report[n] = tk.report[n]
               \/ /\ n \notin DOMAIN tk.report /\ n - Len(tk.report) \in DOMAIN part
                  /\ report[n] = part[n - Len(tk.report)]
    BY <1>6, <2>1, <2>3
  <2>4. \A n \in DOMAIN report : n \in Nat
    BY <2>2
  <2> HIDE DEF report
  <2>5. \A n \in DOMAIN tk.report : getShard(tk.report[n].key) \in Nat
                                      /\ getShard(tk.report[n].key) < at
    <3>1. \A n \in DOMAIN tk.report : tk.report[n] \in TopKeyElements
      BY <2>1
    <3>2. \A n \in DOMAIN tk.report : tk.report[n].key \in TopKeysKeys
      BY Zenon, <3>1 DEF TopKeyElements
    <3>3. \A key \in TopKeysKeys : getShard(key) \in Nat
      BY ShardOfKey DEF TopKeysShards
    <3>4. QED
      BY Zenon, <1>4, <3>2, <3>3 DEF ReportHolds
  <2>6. \A n \in DOMAIN report : getShard(report[n].key) < at + 1
    <3> SUFFICES ASSUME NEW n \in DOMAIN report PROVE getShard(report[n].key) < at + 1
      BY Zenon
    <3>1. getShard(report[n].key) = at \/ (getShard(report[n].key) \in Nat
                                             /\ getShard(report[n].key) < at)
      BY Zenon, <1>9, <2>3, <2>5
    <3>2. QED
      BY <1>5, <3>1
  <2>7. NotOvercounted(report, u)
    BY Zenon, <1>4, <1>8, <2>3 DEF NotOvercounted, ReportHolds
  <2>8. KeysDiffer(report)
    <3> SUFFICES ASSUME NEW m \in DOMAIN report, NEW n \in DOMAIN report, m # n
                 PROVE  report[m].key # report[n].key
      BY Zenon DEF KeysDiffer
    <3>1. CASE m \in DOMAIN tk.report /\ n \in DOMAIN tk.report
      BY Zenon, <1>4, <2>3, <3>1 DEF ReportHolds, KeysDiffer
    <3>2. CASE m \notin DOMAIN tk.report /\ n \notin DOMAIN tk.report
      <4>1. m - Len(tk.report) # n - Len(tk.report)
        BY <2>1, <2>4
      <4>2. /\ m - Len(tk.report) \in DOMAIN part /\ report[m] = part[m - Len(tk.report)]
            /\ n - Len(tk.report) \in DOMAIN part /\ report[n] = part[n - Len(tk.report)]
        BY Zenon, <2>3, <3>2
      <4>3. part[m - Len(tk.report)].key # part[n - Len(tk.report)].key
        BY Zenon, <1>7, <4>1, <4>2 DEF KeysDiffer
      <4>4. QED
        BY Zenon, <4>2, <4>3
    <3>3. \A k, j \in DOMAIN report :
             k \in DOMAIN tk.report /\ j \notin DOMAIN tk.report =>
               report[k].key # report[j].key
      <4> SUFFICES ASSUME NEW k \in DOMAIN report, NEW j \in DOMAIN report,
                          k \in DOMAIN tk.report, j \notin DOMAIN tk.report
                   PROVE  getShard(report[k].key) # getShard(report[j].key)
        BY Zenon
      <4>1. getShard(report[j].key) = at
        BY Zenon, <1>9, <2>3
      <4>2. getShard(report[k].key) \in Nat /\ getShard(report[k].key) < at
        BY Zenon, <2>3, <2>5
      <4>3. QED
        BY <1>5, <4>1, <4>2
    <3>4. QED
      BY Zenon, <3>1, <3>2, <3>3
  <2>9. QED
    BY Zenon, <2>2, <2>6, <2>7, <2>8 DEF ReportHolds
<1>11. TopKeysTypes'
  <2>1. at + 1 \in 0 .. NumShards
    BY <1>1, TopKeysAssumption DEF TopKeysShards
  <2>2. QED
    BY Zenon, <1>1, <1>2, <2>1 DEF TopKeysTypes
<1>12. QED
  BY Zenon, <1>2, <1>10, <1>11 DEF TopKeysIInv, u

\* Every step keeps the invariant.
LEMMA TopKeysStep == TopKeysIInv /\ [TopKeysNext]_tk => TopKeysIInv'
<1> SUFFICES ASSUME TopKeysIInv, [TopKeysNext]_tk PROVE TopKeysIInv'
  BY Zenon
<1>1. CASE update_topkeys
  <2>1. CASE tk' = tk
    BY Zenon, <2>1 DEF TopKeysIInv, TopKeysTypes
  <2>2. CASE tk' # tk
    <3>1. PICK key \in TopKeysKeys :
            tk' = [UpdateTopKey(tk, key, Len(tk.history)) EXCEPT !.history = Append(@, key)]
      BY Zenon, <1>1, <2>2 DEF update_topkeys
    <3>2. QED
      BY Zenon, <3>1, UpdateKeeps
  <2>3. QED
    BY Zenon, <2>1, <2>2
<1>2. CASE StatsBegin
  BY Zenon, <1>2, BeginKeeps
<1>3. CASE accept_visitor
  BY Zenon, <1>3, VisitKeeps
<1>4. CASE UNCHANGED tk
  BY Zenon, <1>4 DEF TopKeysIInv, TopKeysTypes
<1>5. QED
  BY Zenon, <1>1, <1>2, <1>3, <1>4 DEF TopKeysNext

\* The invariant says what the property asks.
LEMMA ReportFollows == TopKeysIInv => ReportConsistent
<1> SUFFICES ASSUME TopKeysIInv PROVE ReportConsistent
  BY Zenon
<1>1. KeysDiffer(tk.report) /\ NotOvercounted(tk.report, UseCounts(tk.history))
  BY Zenon DEF TopKeysIInv, ReportHolds
<1>2. \A n \in DOMAIN tk.report : tk.report[n] \in TopKeyElements
  BY DEF TopKeysIInv, ReportHolds
<1>3. \A n \in DOMAIN tk.report : tk.report[n].key \in TopKeysKeys
  BY Zenon, <1>2 DEF TopKeyElements
<1>4. \A n \in DOMAIN tk.report :
        UseCounts(tk.history)[tk.report[n].key] = Cardinality(UsesOf(tk.report[n].key))
  BY Zenon, <1>3 DEF UseCounts, UsesIn, UsesOf
<1>5. \A n \in DOMAIN tk.report : tk.report[n].count <= Cardinality(UsesOf(tk.report[n].key))
  BY Zenon, <1>1, <1>4 DEF NotOvercounted
<1>6. QED
  BY Zenon, <1>1, <1>5 DEF KeysDiffer, ReportConsistent

\* A report names a key at most once and counts no use that had not happened,
\* although each shard is locked on its own and keys are used between the visits
\* (TopKeys::stats, Shard::updateKey): for any keys, hashes, shards and sizes.
THEOREM ReportsStayConsistent == TopKeysSpec => []ReportConsistent
<1>1. TopKeysInit => TopKeysIInv
  BY Zenon, TopKeysInitially
<1>2. TopKeysIInv /\ [TopKeysNext]_tk => TopKeysIInv'
  BY Zenon, TopKeysStep
<1>3. TopKeysIInv => ReportConsistent
  BY Zenon, ReportFollows
<1>4. QED
  BY <1>1, <1>2, <1>3, PTL DEF TopKeysSpec

=============================================================================
