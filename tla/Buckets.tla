------------------------------ MODULE Buckets ------------------------------
(***************************************************************************)
(* The bucket table of the daemon (daemon/memcached.cc, buckets.h): bucket *)
(* creation and deletion by their own threads, connections that associate  *)
(* with buckets, and the worker threads that make idle connections leave a *)
(* bucket that is being deleted.                                           *)
(*                                                                         *)
(* A connection is served by its worker thread, with the thread lock held  *)
(* (busy), or by an executor or bucket thread while it waits for a task:   *)
(* pc[c] is where the one that acts for c is, pos[c] where its loop is.    *)
(*                                                                         *)
(* A bucket's own mutex is only held for the accesses of one step, so each *)
(* step is one critical section; buckets_lock is held over several.        *)
(***************************************************************************)
EXTENDS Integers, FiniteSets

CONSTANTS
  Conn,         \* the client connections
  Admin,        \* those that authenticated as an administrator
  Name,         \* bucket names, which are also the user names
  Default,      \* the name "default"
  NoName,       \* the empty name
  None,         \* no connection
  MaxBuckets,   \* settings.getMaxBuckets(), the size of all_buckets
  NumWorkers,   \* settings.getNumWorkerThreads()
  ClientsRange, \* number of values of Bucket::clients (2^32)
  ThreadOf      \* [Conn -> Worker]: the thread a connection is bound to

Slot == 0 .. MaxBuckets - 1
Worker == 0 .. NumWorkers - 1
NoEngine == -1

ASSUME BucketsAssumption ==
  /\ Admin \subseteq Conn
  /\ Default \in Name
  /\ NoName \notin Name
  /\ None \notin Conn
  /\ MaxBuckets \in Nat \ {0}
  /\ NumWorkers \in Nat \ {0}
  /\ IsFiniteSet(Conn)
  /\ ClientsRange \in Nat
  /\ Cardinality(Conn) < ClientsRange
  /\ ThreadOf \in [Conn -> Worker]

VARIABLES
  state,       \* [Slot -> BucketState]
  name,        \* [Slot -> Name or NoName]
  clients,     \* [Slot -> 0 .. ClientsRange - 1]
  engine,      \* [Slot -> "none", "alive", "destroyed"]: what engine points to
  bucketsLock, \* None, or the connection whose bucket thread holds buckets_lock
  pc,          \* [Conn -> ...]
  idx,         \* [Conn -> Slot]: Connection::bucketIndex
  eng,         \* [Conn -> Slot or NoEngine]: the bucket whose engine it points to
  target,      \* [Conn -> Name or NoName]: the name that is looked for
  pos,         \* [Conn -> Nat]: position of the loop over buckets or threads
  slot,        \* [Conn -> Slot or -1]: first_free, later the bucket worked on
  event,       \* [Conn -> BOOLEAN]: a fake write event is active
  busy,        \* [Worker -> Conn or None]: the connection it runs
  notified,    \* [Worker -> BOOLEAN]: bytes in the notification pipe
  deleting     \* [Worker -> Nat]: LIBEVENT_THREAD::deleting_buckets

bucketVars == <<state, name, clients, engine>>
assocVars == <<idx, eng>>
loopVars == <<target, pos, slot>>
workerVars == <<busy, notified, deleting>>
vars == <<bucketVars, bucketsLock, pc, assocVars, loopVars, event, workerVars>>

BucketState == {"None", "Creating", "Initializing", "Ready", "Destroying"}

\* Served by the worker, or waiting for an event, a client or the engine.
ConnPC == {"closed", "idle", "engine", "blocked", "pending", "sending", "ready",
           "respond", "closing"}
\* associate_bucket, run by the worker or by an executor.
AssocPC == {"auth", "leave", "join"}
CreatePC == {"create", "createScan", "newEngine", "initialize"}
\* A creation that fails ends with the last two of these as well.
DeletePC == {"delete", "deleteScan", "release", "initiate", "wait", "notify",
             "timedwait", "complete", "destroy", "clear"}

Init ==
  /\ state = [i \in Slot |-> IF i = 0 THEN "Ready" ELSE "None"]
  /\ name = [i \in Slot |-> NoName]
  /\ clients = [i \in Slot |-> 0]
  /\ engine = [i \in Slot |-> IF i = 0 THEN "alive" ELSE "none"]
  /\ bucketsLock = None
  /\ pc = [c \in Conn |-> "closed"]
  /\ idx = [c \in Conn |-> 0]
  /\ eng = [c \in Conn |-> NoEngine]
  /\ target = [c \in Conn |-> NoName]
  /\ pos = [c \in Conn |-> 0]
  /\ slot = [c \in Conn |-> -1]
  /\ event = [c \in Conn |-> FALSE]
  /\ busy = [w \in Worker |-> None]
  /\ notified = [w \in Worker |-> FALSE]
  /\ deleting = [w \in Worker |-> 0]

Goto(c, p) == pc' = [pc EXCEPT ![c] = p]

\* A function that uses the loop variables returns: they are gone.
Return(c, p) ==
  /\ Goto(c, p)
  /\ target' = [target EXCEPT ![c] = NoName]
  /\ pos' = [pos EXCEPT ![c] = 0]
  /\ slot' = [slot EXCEPT ![c] = -1]

\* The thread lock of c's worker: free, taken to run c, released.
Free(c) == busy[ThreadOf[c]] = None
Take(c) == busy' = [busy EXCEPT ![ThreadOf[c]] = c]
Leave(c) == busy' = [busy EXCEPT ![ThreadOf[c]] = None]
OnWorker(c) == busy[ThreadOf[c]] = c

\* clients is a uint32_t.
Plus(n) == IF n = ClientsRange - 1 THEN 0 ELSE n + 1
Minus(n) == IF n = 0 THEN ClientsRange - 1 ELSE n - 1

\* Mutant: the bucket keeps counting the client.
disassociate_uncounted(c) ==
  /\ idx' = [idx EXCEPT ![c] = 0]
  /\ eng' = [eng EXCEPT ![c] = NoEngine]
  /\ UNCHANGED clients

\* The caller's bucket loses a client.  The condition variable it may signal is
\* only waited on with a timeout: see Timedwait.
disassociate_bucket(c) ==
  /\ clients' = [clients EXCEPT ![idx[c]] = Minus(@)]
  /\ idx' = [idx EXCEPT ![c] = 0]
  /\ eng' = [eng EXCEPT ![c] = NoEngine]

\* Mutant: a bucket that is being deleted still takes clients.
AcceptsDying(i, n) == state[i] \in {"Ready", "Destroying"} /\ name[i] = n

\* associate_bucket takes a bucket that is Ready and has the name.
Accepts(i, n) == state[i] = "Ready" /\ name[i] = n

is_bucket_dying(c) == state[idx[c]] # "Ready"

-----------------------------------------------------------------------------
(* associate_bucket(c, target[c]).                                         *)

AssocLeave(c) ==
  /\ pc[c] = "leave"
  /\ disassociate_bucket(c)
  /\ pos' = [pos EXCEPT ![c] = 1]
  /\ Goto(c, "join")
  /\ UNCHANGED <<state, name, engine, bucketsLock, target, slot, event,
                 workerVars>>

\* The last step: bucket i gets a new client.  A worker goes on with c, an
\* executor reports that the task is complete.
Join(c, i) ==
  /\ clients' = [clients EXCEPT ![i] = Plus(@)]
  /\ idx' = [idx EXCEPT ![c] = i]
  /\ eng' = [eng EXCEPT ![c] = i]
  /\ Return(c, IF OnWorker(c) THEN "respond" ELSE "ready")
  /\ UNCHANGED <<state, name, engine, bucketsLock, event, workerVars>>

AssocSkip(c) ==
  /\ pc[c] = "join" /\ pos[c] < MaxBuckets /\ ~Accepts(pos[c], target[c])
  /\ pos' = [pos EXCEPT ![c] = @ + 1]
  /\ UNCHANGED <<bucketVars, bucketsLock, pc, assocVars, target, slot, event,
                 workerVars>>

AssocJoin(c) ==
  /\ pc[c] = "join" /\ pos[c] < MaxBuckets /\ Accepts(pos[c], target[c])
  /\ Join(c, pos[c])

\* No such bucket: the connection ends up in the "no bucket".
AssocNoBucket(c) ==
  /\ pc[c] = "join" /\ pos[c] = MaxBuckets
  /\ Join(c, 0)

-----------------------------------------------------------------------------
(* The worker thread of a connection.                                      *)

\* conn_new: associate_initial_bucket.
Accept(c) ==
  /\ pc[c] = "closed" /\ Free(c)
  /\ clients' = [clients EXCEPT ![0] = Plus(@)]
  /\ idx' = [idx EXCEPT ![c] = 0]
  /\ eng' = [eng EXCEPT ![c] = 0]
  /\ target' = [target EXCEPT ![c] = Default]
  /\ Take(c)
  /\ Goto(c, "leave")
  /\ UNCHANGED <<state, name, engine, bucketsLock, pos, slot, event, notified,
                 deleting>>

\* A command arrives and the bucket is not dying.  An engine command and a
\* select bucket run at once; for the others the worker schedules a task for
\* which c waits, with EWOULDBLOCK set and no event registered.
Request(c, p, n) ==
  /\ pc[c] = "idle" /\ Free(c) /\ ~is_bucket_dying(c)
  /\ p \in {"leave", "create", "delete"} => c \in Admin
  /\ eng' = [eng EXCEPT ![c] = IF @ = NoEngine THEN idx[c] ELSE @]
  /\ target' = [target EXCEPT ![c] = IF p = "engine" THEN NoName ELSE n]
  /\ IF p \in {"engine", "leave"} THEN Take(c) ELSE UNCHANGED busy
  /\ Goto(c, p)
  /\ UNCHANGED <<bucketVars, bucketsLock, idx, pos, slot, event, notified,
                 deleting>>

\* The client hung up or sent something while its bucket is dying.
Disconnect(c) ==
  /\ pc[c] = "idle" /\ Free(c)
  /\ Take(c)
  /\ Goto(c, "closing")
  /\ event' = [event EXCEPT ![c] = FALSE]
  /\ UNCHANGED <<bucketVars, bucketsLock, assocVars, loopVars, notified,
                 deleting>>

\* The fake event of signalIfIdle is delivered.
Wake(c) ==
  /\ pc[c] = "idle" /\ event[c] /\ Free(c)
  /\ event' = [event EXCEPT ![c] = FALSE]
  /\ IF is_bucket_dying(c) THEN Take(c) /\ Goto(c, "closing")
                           ELSE UNCHANGED <<busy, pc>>
  /\ UNCHANGED <<bucketVars, bucketsLock, assocVars, loopVars, notified,
                 deleting>>

\* The engine answers, or returns EWOULDBLOCK.
EngineReturns(c) ==
  /\ pc[c] = "engine"
  /\ \/ Goto(c, "respond") /\ UNCHANGED busy
     \/ Goto(c, "blocked") /\ Leave(c)
  /\ UNCHANGED <<bucketVars, bucketsLock, assocVars, loopVars, event, notified,
                 deleting>>

\* notify_io_complete from the engine: c is put on pending_io.
IoComplete(c) ==
  /\ pc[c] = "blocked" /\ Free(c)
  /\ Goto(c, "pending")
  /\ UNCHANGED <<bucketVars, bucketsLock, assocVars, loopVars, event,
                 workerVars>>

\* conn_nread runs again for the command that was blocked.
RunPending(c) ==
  /\ pc[c] = "pending" /\ Free(c)
  /\ Take(c)
  /\ Goto(c, IF is_bucket_dying(c) THEN "closing" ELSE "engine")
  /\ UNCHANGED <<bucketVars, bucketsLock, assocVars, loopVars, event, notified,
                 deleting>>

\* The task c waited for is complete, or its socket is writable again.
Resume(c) ==
  /\ pc[c] \in {"ready", "sending"} /\ Free(c)
  /\ Take(c)
  /\ Goto(c, "respond")
  /\ UNCHANGED <<bucketVars, bucketsLock, assocVars, loopVars, event, notified,
                 deleting>>

\* conn_write and conn_mwrite: all, or not all of the response can be sent.
Respond(c) ==
  /\ pc[c] = "respond"
  /\ IF is_bucket_dying(c) THEN Goto(c, "closing") /\ UNCHANGED busy
                           ELSE /\ \E p \in {"idle", "sending"} : Goto(c, p)
                                /\ Leave(c)
  /\ UNCHANGED <<bucketVars, bucketsLock, assocVars, loopVars, event, notified,
                 deleting>>

\* conn_closing to conn_immediate_close.
Close(c) ==
  /\ pc[c] = "closing"
  /\ disassociate_bucket(c)
  /\ Leave(c)
  /\ Goto(c, "closed")
  /\ UNCHANGED <<state, name, engine, bucketsLock, loopVars, event, notified,
                 deleting>>

\* signal_idle_clients for the buckets that are being destroyed: connections
\* that are not waiting for the engine, a task or their socket.
IdleClients(w) ==
  {c \in Conn : ThreadOf[c] = w /\ pc[c] = "idle" /\ state[idx[c]] = "Destroying"}

\* thread_libevent_process: drain the pipe, and look for idle clients if some
\* bucket is being deleted.
ProcessNotification(w) ==
  /\ notified[w] /\ busy[w] = None
  /\ notified' = [notified EXCEPT ![w] = FALSE]
  /\ event' = [c \in Conn |->
                 event[c] \/ (deleting[w] # 0 /\ c \in IdleClients(w))]
  /\ UNCHANGED <<bucketVars, bucketsLock, pc, assocVars, loopVars, busy,
                 deleting>>

\* An executor runs the SASL task and, when it succeeded, associates c with the
\* bucket that has the name of the user.
Authenticate(c) ==
  /\ pc[c] = "auth"
  /\ \/ Goto(c, "leave") /\ UNCHANGED loopVars
     \/ Return(c, "ready")
  /\ UNCHANGED <<bucketVars, bucketsLock, assocVars, event, workerVars>>

-----------------------------------------------------------------------------
(* The bucket thread of c: CreateBucketThread::create.                     *)

\* Both bucket threads start with buckets_lock and a loop over the buckets.
LockBuckets(c) ==
  /\ pc[c] \in {"create", "delete"} /\ bucketsLock = None
  /\ bucketsLock' = c
  /\ Goto(c, IF pc[c] = "create" THEN "createScan" ELSE "deleteScan")
  /\ UNCHANGED <<bucketVars, assocVars, loopVars, event, workerVars>>

\* Mutant: a name is only taken once its bucket is ready.
TakenByReady(i, n) == state[i] = "Ready" /\ name[i] = n

Taken(i, n) == name[i] = n

CreateScan(c) ==
  LET i == pos[c] IN
  /\ pc[c] = "createScan" /\ i < MaxBuckets /\ ~Taken(i, target[c])
  /\ slot' = [slot EXCEPT ![c] =
                IF @ = -1 /\ state[i] = "None" THEN i ELSE @]
  /\ pos' = [pos EXCEPT ![c] = i + 1]
  /\ UNCHANGED <<bucketVars, bucketsLock, pc, assocVars, target, event,
                 workerVars>>

\* The name is in use, or all buckets are.
CreateRefused(c) ==
  LET i == pos[c] IN
  /\ pc[c] = "createScan"
  /\ \/ i < MaxBuckets /\ Taken(i, target[c])
     \/ i = MaxBuckets /\ slot[c] = -1
  /\ bucketsLock' = None
  /\ Return(c, "ready")
  /\ UNCHANGED <<bucketVars, assocVars, event, workerVars>>

\* Reserve the free bucket.  When its TopKeys cannot be allocated the request
\* fails and the bucket stays as it is.
CreateReserve(c) ==
  /\ pc[c] = "createScan" /\ pos[c] = MaxBuckets /\ slot[c] # -1
  /\ state' = [state EXCEPT ![slot[c]] = "Creating"]
  /\ name' = [name EXCEPT ![slot[c]] = target[c]]
  /\ bucketsLock' = None
  /\ \/ Goto(c, "newEngine") /\ UNCHANGED loopVars
     \/ Return(c, "ready")
  /\ UNCHANGED <<clients, engine, assocVars, event, workerVars>>

\* The bucket's entry becomes free again.
Clear(i) ==
  /\ state' = [state EXCEPT ![i] = "None"]
  /\ name' = [name EXCEPT ![i] = NoName]
  /\ engine' = [engine EXCEPT ![i] = "none"]

NewEngine(c) ==
  /\ pc[c] = "newEngine"
  /\ state' = [state EXCEPT ![slot[c]] = "Initializing"]
  /\ engine' = [engine EXCEPT ![slot[c]] = "alive"]
  /\ Goto(c, "initialize")
  /\ UNCHANGED <<name, clients, bucketsLock, assocVars, loopVars, event,
                 workerVars>>

NewEngineFails(c) ==
  /\ pc[c] = "newEngine"
  /\ Clear(slot[c])
  /\ Return(c, "ready")
  /\ UNCHANGED <<clients, bucketsLock, assocVars, event, workerVars>>

\* The bucket is ready, or its engine is destroyed again.
Initialize(c) ==
  /\ pc[c] = "initialize"
  /\ \/ /\ state' = [state EXCEPT ![slot[c]] = "Ready"]
        /\ Return(c, "ready")
     \/ /\ state' = [state EXCEPT ![slot[c]] = "Destroying"]
        /\ Goto(c, "destroy")
        /\ UNCHANGED loopVars
  /\ UNCHANGED <<name, clients, engine, bucketsLock, assocVars, event,
                 workerVars>>

-----------------------------------------------------------------------------
(* The bucket thread of c: DestroyBucketThread::destroy.                   *)

\* Mutant: a bucket in any state can be deleted.
DeletableByName(i, n) == name[i] = n

Deletable(i, n) == state[i] = "Ready" /\ name[i] = n

DeleteScan(c) ==
  LET i == pos[c] IN
  /\ pc[c] = "deleteScan"
  /\ i < MaxBuckets
  /\ name[i] # target[c]
  /\ pos' = [pos EXCEPT ![c] = i + 1]
  /\ UNCHANGED <<bucketVars, bucketsLock, pc, assocVars, target, slot, event,
                 workerVars>>

\* The bucket has been found and is marked; this thread alone deletes it.
DeleteMark(c) ==
  LET i == pos[c] IN
  /\ pc[c] = "deleteScan"
  /\ i < MaxBuckets /\ Deletable(i, target[c])
  /\ slot' = [slot EXCEPT ![c] = i]
  /\ state' = [state EXCEPT ![i] = "Destroying"]
  /\ bucketsLock' = None
  /\ Goto(c, "release")
  /\ UNCHANGED <<name, clients, engine, assocVars, target, pos, event,
                 workerVars>>

\* No such bucket, or one that is not ready.
DeleteRefused(c) ==
  LET i == pos[c] IN
  /\ pc[c] = "deleteScan"
  /\ \/ i = MaxBuckets
     \/ i < MaxBuckets /\ name[i] = target[c] /\ ~Deletable(i, target[c])
  /\ bucketsLock' = None
  /\ Return(c, "ready")
  /\ UNCHANGED <<bucketVars, assocVars, event, workerVars>>

\* The connection that asked for the deletion does not wait for itself.
DeleteRelease(c) ==
  /\ pc[c] = "release"
  /\ IF idx[c] = slot[c] THEN disassociate_bucket(c)
                         ELSE UNCHANGED <<clients, assocVars>>
  /\ pos' = [pos EXCEPT ![c] = 0]
  /\ Goto(c, "initiate")
  /\ UNCHANGED <<state, name, engine, bucketsLock, target, slot, event,
                 workerVars>>

\* One round of a loop over the worker threads that ends with pc[c] = p.
ForWorker(c, p) ==
  /\ busy[pos[c]] = None
  /\ IF pos[c] + 1 = NumWorkers
       THEN pos' = [pos EXCEPT ![c] = 0] /\ Goto(c, p)
       ELSE pos' = [pos EXCEPT ![c] = @ + 1] /\ UNCHANGED pc

DeleteInitiate(c) ==
  /\ pc[c] = "initiate"
  /\ ForWorker(c, "wait")
  /\ deleting' = [deleting EXCEPT ![pos[c]] = @ + 1]
  /\ UNCHANGED <<bucketVars, bucketsLock, assocVars, target, slot, event, busy,
                 notified>>

\* Mutant: the deletion does not wait.
NoWait(i) == TRUE

\* All users of the bucket disconnected.
Unused(i) == clients[i] = 0

DeleteWait(c) ==
  /\ pc[c] = "wait"
  /\ Goto(c, IF Unused(slot[c]) THEN "complete" ELSE "notify")
  /\ UNCHANGED <<bucketVars, bucketsLock, assocVars, loopVars, event,
                 workerVars>>

DeleteNotify(c) ==
  /\ pc[c] = "notify"
  /\ notified' = [w \in Worker |-> TRUE]
  /\ Goto(c, "timedwait")
  /\ UNCHANGED <<bucketVars, bucketsLock, assocVars, loopVars, event, busy,
                 deleting>>

\* The wait ends with a signal or after a second.
Timedwait(c) ==
  /\ pc[c] = "timedwait"
  /\ Goto(c, "wait")
  /\ UNCHANGED <<bucketVars, bucketsLock, assocVars, loopVars, event,
                 workerVars>>

\* Mutant: the deletions share a flag, which the first to end takes back.
NoDeletionLeft(w) == 0

\* threads_complete_bucket_deletion: the counter of the worker after a deletion.
OneDeletionLess(w) == deleting[w] - 1

DeleteComplete(c) ==
  /\ pc[c] = "complete"
  /\ ForWorker(c, "destroy")
  /\ deleting' = [deleting EXCEPT ![pos[c]] = OneDeletionLess(pos[c])]
  /\ UNCHANGED <<bucketVars, bucketsLock, assocVars, target, slot, event, busy,
                 notified>>

DestroyEngine(c) ==
  /\ pc[c] = "destroy"
  /\ engine' = [engine EXCEPT ![slot[c]] = "destroyed"]
  /\ Goto(c, "clear")
  /\ UNCHANGED <<state, name, clients, bucketsLock, assocVars, loopVars, event,
                 workerVars>>

DeleteClear(c) ==
  /\ pc[c] = "clear"
  /\ Clear(slot[c])
  /\ Return(c, "ready")
  /\ UNCHANGED <<clients, bucketsLock, assocVars, event, workerVars>>

-----------------------------------------------------------------------------
WorkerStep(c) ==
  \/ Wake(c) \/ EngineReturns(c) \/ RunPending(c) \/ Resume(c) \/ Respond(c)
  \/ Close(c)

AssocStep(c) ==
  Authenticate(c) \/ AssocLeave(c) \/ AssocSkip(c) \/ AssocJoin(c)
    \/ AssocNoBucket(c)

CreateStep(c) ==
  \/ LockBuckets(c) \/ CreateScan(c) \/ CreateRefused(c) \/ CreateReserve(c)
  \/ NewEngine(c) \/ NewEngineFails(c) \/ Initialize(c)

DeleteStep(c) ==
  \/ DeleteScan(c) \/ DeleteMark(c) \/ DeleteRefused(c) \/ DeleteRelease(c)
  \/ DeleteInitiate(c) \/ DeleteWait(c) \/ DeleteNotify(c) \/ Timedwait(c)
  \/ DeleteComplete(c) \/ DestroyEngine(c) \/ DeleteClear(c)

ClientStep(c) ==
  \/ Accept(c)
  \/ Disconnect(c)
  \/ \E p \in {"engine", "leave", "auth", "create", "delete"}, n \in Name :
       Request(c, p, n)

Next ==
  \/ \E c \in Conn : \/ ClientStep(c) \/ IoComplete(c) \/ WorkerStep(c)
                     \/ AssocStep(c) \/ CreateStep(c) \/ DeleteStep(c)
  \/ \E w \in Worker : ProcessNotification(w)

\* What the threads and the engine do for c, one step at a time.
Serve(c) ==
  IoComplete(c) \/ WorkerStep(c) \/ AssocStep(c) \/ CreateStep(c) \/ DeleteStep(c)

\* Every thread that can run does run.  A thread that needs a lock again and
\* again while others use it gets it in the end, and libevent delivers every
\* active event: strong fairness.  The engine keeps its promise to notify, and
\* clients read their responses.  Clients need not send anything.
Fairness ==
  /\ \A c \in Conn : SF_vars(Serve(c))
  /\ \A w \in Worker : SF_vars(ProcessNotification(w))

Spec == Init /\ [][Next]_vars
FairSpec == Spec /\ Fairness

-----------------------------------------------------------------------------
(* Properties.                                                             *)

\* Every variable stays in its set.
TypeOK ==
  /\ state \in [Slot -> BucketState]
  /\ name \in [Slot -> Name \cup {NoName}]
  /\ clients \in [Slot -> 0 .. ClientsRange - 1]
  /\ engine \in [Slot -> {"none", "alive", "destroyed"}]
  /\ bucketsLock \in Conn \cup {None}
  /\ pc \in [Conn -> ConnPC \cup AssocPC \cup CreatePC \cup DeletePC]
  /\ idx \in [Conn -> Slot]
  /\ eng \in [Conn -> Slot \cup {NoEngine}]
  /\ target \in [Conn -> Name \cup {NoName}]
  /\ pos \in [Conn -> Nat]
  /\ slot \in [Conn -> Slot \cup {-1}]
  /\ event \in [Conn -> BOOLEAN]
  /\ busy \in [Worker -> Conn \cup {None}]
  /\ notified \in [Worker -> BOOLEAN]
  /\ deleting \in [Worker -> Int]

\* A connection never holds a pointer to an engine that has been destroyed, nor
\* to the engine of another bucket than the one it is counted in, whatever the
\* order of the steps of the deletion, of the worker threads and of an executor
\* that associates a connection after SASL authentication.
EngineUsable ==
  \A c \in Conn : eng[c] # NoEngine => eng[c] = idx[c] /\ engine[eng[c]] = "alive"

\* Connections associated with bucket i.
Associated(i) == {c \in Conn : idx[c] = i}

\* clients, which the deletion of a bucket waits to drop to zero, is the number
\* of connections associated with the bucket.
ClientsCounted ==
  \A i \in Slot \ {0} : clients[i] = Cardinality(Associated(i))

\* Two buckets never have the same name, although the threads that create and
\* delete them look at the buckets one by one.
UniqueNames ==
  \A i, j \in Slot : name[i] = name[j] /\ name[i] # NoName => i = j

\* The bucket thread of c works on the bucket it reserved or marked.
OwnsBucket(c) ==
  pc[c] \in {"newEngine", "initialize", "release", "initiate", "wait", "notify",
             "timedwait", "complete", "destroy", "clear"}

\* A bucket that is neither free nor ready is worked on by one thread only; a
\* bucket that is ready has a live engine and one that is free has none.
OneBucketThread ==
  /\ \A c, d \in Conn :
       OwnsBucket(c) /\ OwnsBucket(d) /\ slot[c] = slot[d] => c = d
  /\ \A c \in Conn : OwnsBucket(c) => state[slot[c]] \notin {"None", "Ready"}
  /\ \A i \in Slot : /\ state[i] = "Ready" => engine[i] = "alive"
                     /\ state[i] = "None" => engine[i] = "none"

\* The deletion of a bucket ends, whatever its clients are doing and although
\* other deletions that end in the meantime share deleting_buckets with it.
DeletionEnds ==
  \A c \in Conn : (pc[c] = "release") ~> (pc[c] = "ready")

\* "If the bucket is dying (being deleted) the connection object will be
\* disconnected": a connection does not stay in a bucket that is being deleted.
DyingBucketIsLeft ==
  \A c \in Conn, i \in Slot \ {0} :
    (idx[c] = i /\ state[i] = "Destroying") ~> (idx[c] # i)

-----------------------------------------------------------------------------
(* The abstract registry that the bucket table implements.                 *)

\* The status of the bucket with name n.
StatusOf(st) ==
  CASE st \in {"Creating", "Initializing"} -> "creating"
    [] st = "Ready" -> "ready"
    [] st = "Destroying" -> "dying"
    [] OTHER -> "absent"
Status(n) ==
  IF \E i \in Slot : name[i] = n
    THEN StatusOf(state[CHOOSE i \in Slot : name[i] = n])
    ELSE "absent"

Registry == INSTANCE BucketRegistry
              WITH status <- [n \in Name |-> Status(n)],
                   bucketOf <- [c \in Conn |-> name[idx[c]]]

\* The bucket table behaves like a map from names to buckets: a name is created
\* once, connections enter it only while it is ready, and it disappears only
\* when the last connection has left.
ImplementsRegistry == Registry!Spec
=============================================================================
