# Verification of memcached

TLA+ models of this memcached (the Couchbase fork), model-checked with TLC on small
instances and, for the parts where several threads share state, proved with TLAPS for
instances of any size.

## The system

A *dispatcher* thread (`main`, `daemon/memcached.cc`) accepts clients and hands each
socket to one of several *worker* threads (`daemon/thread.cc`). A worker runs a libevent
loop and, for each connection, a state machine (`daemon/statemachine_mcbp.cc`). A command
calls the *engine* of the connection's *bucket*; an engine that cannot answer returns
`EWOULDBLOCK` and calls `notify_io_complete` later, from a thread of its own. Slow work of
the server itself runs as *tasks* on an *executor pool* (`daemon/executor.cc`), and buckets
are created and deleted by threads of their own. Threads meet in a few places:

| shared state | threads | code |
|---|---|---|
| run and wait queues of an executor, mutex of a task | workers, executors, backend threads | `executor.cc`, `executorpool.cc` |
| table of buckets, `clients`, `deleting_buckets` | workers, executors, bucket threads | `memcached.cc`, `buckets.h`, `thread.cc` |
| `pending_io`, notification pipe, cookie reference counts | worker, engine, executors | `thread.cc`, `connection_mcbp.cc` |
| counts of connections, `listen_state` | dispatcher, workers | `memcached.cc` |
| session token | workers | `session_cas.cc` |
| items, hash table, engines to scrub | workers, maintenance thread, scrubber | `engines/default_engine` |
| TAP connections and their reservations | workers, I/O thread of the engine | `engines/tap_mock_engine` |
| audit events, log buffers | all, one consumer each | `auditd`, `extensions/loggers` |
| everything, at shutdown | main, workers, bucket threads, executors | `memcached.cc` |

What is hard to get right, and hard to test: wakeups that get lost between two locks,
connections that are destroyed while another thread is about to notify them, buckets whose
engine goes away under a connection, counters that two threads keep in several steps,
commands that are called again after they blocked, and waits that depend on somebody else.
`PROJECT.json` lists these hazards by line, and says which lines each definition translates.

## Modules

Actions carry the names of the functions they translate where one action is one function.
A section of the code under one lock, from one wait to the next, is one step. A definition
that a plausible bug would change has a wrong variant before it, named for the mistake
(`TakenByReady`, `NoWait`, `NotCleared`); no specification uses the variants. They show that
a property notices the mistake: with the variant in place TLC finds it violated.

### Threads of the daemon

| module | models | state and actions |
|---|---|---|
| `Executor` | executor pool | queues, task mutexes, thread locks; one action per locked section of `run`, `schedule`, `makeRunnable`, `~Executor` |
| `Buckets` | bucket table | table, association of connections, and a program counter for the thread that acts for each connection; one action per section under `buckets_lock` or a bucket mutex |
| `BucketRegistry` | what `Buckets` promises | a map from names to buckets that connections enter and leave |
| `WorkerThread` | one worker and its connections | the states of `statemachine_mcbp.cc`, libevent registrations, pipe, `pending_io`, references; engine, tasks and clients are its environment |
| `Listen` | dispatcher | sockets by stage, `stats.curr_conns`, `curr_conns` per port, `listen_state`; `conn_listening` in the steps between which workers may run |
| `Process` | `memcached_main` | what has been started and not released, the three ways to ask for a shutdown, clients and bucket threads that are still at work |

### Between network and engine

| module | models |
|---|---|
| `NetInput`, `NetOutput` | read buffer, framing of requests, iovecs and `transmit`, the buffers in front of OpenSSL |
| `NetBuffers` | loan of the buffers of a worker to the connection that runs |
| `Validators`, `Requests` | every validator, the privilege chains, and the way of a request to its executor |
| `Mcbp`, `DataCommands`, `StreamCommands`, `AdminCommands`, `Dispatch`, `Commands` | one connection that serves every command: what an executor holds from one call to the next, and how it answers |
| `Sasl` | the exchange of a client and the server while the password database is loaded again |
| `SessionCas` | the control token and the commands that keep it from changing |
| `Settings` | start, validation and reload of the configuration, and the copies other parts keep |
| `Clock`, `TopKeys` | expiry times; the most recently used keys, reported shard by shard |

### Engines and services

| module | models |
|---|---|
| `Items`, `DefaultEngine` | items, slabs and LRU of the default engine as operators on its state, and the threads that call them, with the scrubber |
| `KVStore` | what `DefaultEngine` promises: a cache with CAS |
| `Assoc` | the hash table and the thread that expands it |
| `EngineManager` | instances of the default engine and the queue of their scrubber |
| `Ewb`, `TapMock` | the ewouldblock engine and the TAP mock engine, each with a thread that notifies the server |
| `Audit`, `Logger` | audit daemon and file logger: two buffers, one consumer, rotation of files |

### Abstractions

* Keys, values and the contents of requests are left out unless a property is about them. In
  `WorkerThread` a request is a number of header and body parts; in `NetInput` and `NetOutput`
  a byte is its position in the stream; in `Validators` a packet is its lengths and the fields
  a validator reads.
* A function that may fail is an operator to the set of states it may leave behind. `rand()`
  and the results of an engine are choices.
* Undefined behaviour ends the statement of a property instead of being given a meaning:
  `e.broken` in `Items` (the stack frame of the scrubber used as an item) and the state
  `undefined` of a connection.
* Paths that are known to lose a reference or release one twice are modelled and marked
  (`slip` in `Mcbp`, `leaked` in `DefaultEngine`), so that `ReferencesExact` and
  `RefcountExact` say that there are no others.
* `WorkerThread`: `MaxSends` bounds the threads that notify at the same time, `MaxParts` what a
  client sends. Engines follow the contract of the server API: a cookie is released after
  `ON_DISCONNECT`, and not while a notification is outstanding. Any connection may be an
  administrator's when an idle timeout looks at it; a response arrives only on a connection that
  ships a stream. Left out: pipe connections, and failures of libevent inside `signalIfIdle`. `setNumEvents(1)` has no effect in the code and none in the model.
* `Listen`: closing a descriptor and decrementing `stats.curr_conns` are one step, testing
  `is_listen_disabled` and writing to the pipe are two more. Reading the pipe takes all of it
  (the code reads up to 80 bytes, more than the bounds allow). `Backoff` stands for the 10 of
  `disable_listen`, `ConnRange` for 2^32. A change of `maxconn`, and ports that open after
  initialization (`enable_common_ports`), are left out.
* `Process`: one worker, and any number of clients and of buckets besides "no bucket"; what bucket
  threads do in detail is in `Buckets`, which in turn leaves out the deletion of all buckets at
  shutdown.
* `StreamCommands`: an engine accepts a message of a stream only on a connection that has one
  (`OnStream`), as the contract of the engine API asks.
* `Sasl`: digests, proofs and signatures are free functions of what they are computed from, and two
  that differ do so in more than the lowest bit of their digits; the result of comparing them is
  combined by an exclusive or with the mark of an unknown user (`scram-sha.cc:496`). A `STEP` that no exchange asked for
  is refused and ends the authentication.
* `Ewb`: a connection is its socket descriptor and its cookie, which the next connection takes over
  both; the cluster map revision and the item of a DCP stream are left out. A notification that is
  queued before the thread waits for the first time stays in the queue until another one wakes the
  thread (`ewouldblock_engine.cc`, `process_notifications`).
* `TapMock`: the documents are left out. A second `TAP_CONNECT` on a connection fails an assertion, and
  a notification that comes when its socket has been closed throws; both end the process in the model
  too (`aborted`).
* Integers keep their width where they can overflow (`ConnRange`, `ClientsRange`,
  `CounterRange`, `IdRange`, `TimeRange`, `RelWidth`, `UIntRange`).

## Runs

Components that share no state are checked side by side in one run: the MC module chooses
one of them in its initial state, and the others keep theirs. The states of such a run are
the sum, not the product, of its parts.

| run | shows | bounds, and what they let happen |
|---|---|---|
| `buckets` | `EngineUsable`, `ClientsCounted`, `UniqueNames`, `OneBucketThread`; `Buckets` implements `BucketRegistry` | 2 administrators on 2 workers, 2 names, 3 slots: two creations and two deletions race, for one name or for one slot, with a selection and an authentication |
| `buckets_live` | `DeletionEnds` | 1 administrator and 1 client on 2 workers: the client is idle, blocked, sending or about to enter the bucket when it is deleted. 2 administrators, in no bucket, who delete 2 buckets at the same time, and a client in one of them |
| `worker` | `WakeupOnItsWay`, `CookieValid`, also when libevent fails | a streaming connection and one that uses tasks, headers in 2 parts, 2 notifying threads, idle timeouts, shutdown |
| `worker_live` | `RequestsServed` | 1 streaming connection that uses tasks, 4 parts of requests |
| `commands` | `ReferencesExact`, `OpsAppliedOnce`, `AnsweredAsPromised`, `RequestCompletes` | one command of each kind that an executor distinguishes, any result of the engine, 2 waits for the engine in one request and 2 attempts after a CAS mismatch, so that a command is called again at each of its phases; a second request on the connection, and on one that ships a stream |
| `engine` | `RefcountExact`, `LinksAgree`, `FlushedGone`; `DefaultEngine` implements `KVStore` | 2 threads, 2 keys, 2 values of which clients store one and arithmetic makes the other, 2 chunks in one class, 3 seconds: eviction, expiry, flush and scrubbing meet items that are held |
| `server` | `NeverThrows`, `TaskInOnePlace`, `TaskCompletes` of `Executor` | 2 tasks, 2 workers, 2 executors: two tasks meet on one queue while one blocks |
| | `PortConnsCounted`, `ListenResumes` of `Listen` | 2 ports with 2 addresses, 3 clients, 2 descriptors, a failing bind, failing allocations: limits and lack of descriptors both happen |
| | `UsedIsAlive`, `ShutdownEnds` of `Process` | 2 clients, 2 slots, 4 creations or deletions of a bucket, every request to shut down at every point: both clients may delete the bucket the other is in |
| `services` | `TableComplete` (`Assoc`), `QueuedExist` (`EngineManager`), `TrailKept` (`Audit`), `LogExact` (`Logger`), `NotifiedOncePerBlock` (`Ewb`), `CookieHeld` and `PausedNotified` (`TapMock`) | 5 keys and two expansions; 3 instances with 2 ids, so that ids repeat; 3 events and 1 mishap of the file system; 4 lines of 2 threads; 2 connections each of the engines, with 2 ids and 3 control commands, so that a connection is suspended twice and resumed, and 1 thread that notifies late |
| `frontend` | `InputFramed`, `OutputInOrder`, `BufferOwnedOnce`, `RequestCovered`, `SaslVerdict`, `SessionStable`, `LoadedExactly`, `ExpiryAsMeant`, `ReportConsistent` | requests that need the buffer to grow, responses that need several messages and a full socket, plain and with SSL; packets whose bodies are too short, exact or longer; 2 users, 3 loads of the password file; 2 edits of the configuration; clocks that jump over the start of the server; 4 keys in 2 shards of 2 |

Deadlock is checked in the runs of `Buckets`. In the others the system may really stop: the pool,
the worker and the process end at shutdown, and all clients may be gone or have sent all that the
bounds allow. What must not get stuck is stated by the liveness properties. `engine` uses symmetry
of its threads and of its keys, which is sound because it checks no liveness and neither the threads
nor the keys differ in anything. Its clock starts at 0, as the uptime does: three values of it are
enough for items older than a flush, of its last second and of the second before, and for the
unsigned subtraction in `do_item_update` to wrap.

### Where code and documentation disagree

Three runs expect a violation. Each checks one statement of a comment.

| run | what happens |
|---|---|
| `buckets_cross_delete` | two connections that delete each other's bucket wait for ever: neither is closed |
| `net_buffers` | a response header that could not be sent stays in a write buffer which counts as clean and is lent to the next connection |
| `worker_backoff` | a TAP or DCP connection with a part of a header keeps the worker until the rest arrives |

Reading the code for the models showed more of the kind, which no run states:

* `runEventLoop` undoes the `setNumEvents(1)` of `thread_libevent_process`
  (`connection_mcbp.cc:1307`, comment at `thread.cc:330`).
* `signalIfIdle` skips a DCP connection that waits for the body of a request while
  `ewouldblock` is left from its last pause (`connection_mcbp.cc:1340`).
* A DCP connection whose socket is full in every run does not read (`connection_mcbp.cc:428`).
* `conn_listening` compares a count that includes the listening sockets and the new client with
  `>=`: with one listening socket a port takes `maxconn - 2` clients (`memcached.cc:844`).
* An address in use at startup makes `stats.curr_conns` too small by one (`memcached.cc:1267`).
* A flush that meets the cursor of the scrubber ends its walk of the LRU there (`items.c:886`);
  `FlushedGone` excludes this case.
* A request to shut down between the test of `memcached_shutdown` and the event loop is not
  noticed before the next event (`memcached.cc:2724`); `ShutdownEnds` excludes this case.
* Clients that delete each other's buckets keep the workers, and with them the shutdown, waiting for
  ever (`memcached.cc:2748`); `ShutdownEnds` excludes this case too.
* `process_bin_tap_packet` never resets `aiostat`: the status of a TAP message that waited for the
  engine is taken for the result of the next request (`AnsweredAsPromised` excludes that request).
* A sub-document command inflates the document into the dynamic buffer. `NOT_MY_VBUCKET` then sends
  the buffer in front of its header (`subdocument.cc:453`, `mcbp.cc:84`), and on a connection that
  ships a stream the next response does, since only `conn_new_cmd` clears the buffer.
* While a file is open, auditing that moves to another directory truncates the `audit.log` a crashed
  process left there (`audit.cc:358`), and `cleanup_old_logfile` renames over an archive of the same
  second (`auditfile.cc:231`); `TrailKept` excludes the events of these files.

### Fairness

Threads that can run do run (weak fairness). In `Process` the main thread, the worker, the threads of
buckets and the executor are four of them; nothing is assumed of the clients, and none of the ways to
ask for a shutdown is. Strong fairness is assumed where a thread
competes for a lock that others release again and again, and for libevent, which handles
every ready event in each iteration of its loop. Engines complete what they promised to
notify. Clients need not send anything; they read their responses, and in `Listen` they
disconnect in the end. `worker_live` also assumes that a stream now and then has nothing to
ship (`CatchUpSpec`): without it a stream that fills its socket each time never reads.
`PausedNotified` assumes that the I/O thread makes both kinds of pass again and again
(`BothPasses`), since connections that come and go may keep it in one of them.

### What the properties do not say

* `PortConnsCounted` counts a client whose `conn_new` failed as one of its port for ever, as
  the code does.
* `ListenResumes` assumes as many open connections as `listen_state.count` asks for. With
  fewer, or when they close between the failure of `accept` and `disable_listen`, nothing
  enables listening again.
* `DeletionEnds` is checked with one administrator in a bucket; `buckets_cross_delete` shows why.
* `TrailKept` excepts the events of a file that another one has replaced, and promises their order
  only until the process is killed; `LogExact` speaks of lines that were not dropped because no file could be opened.
* `NotifiedOncePerBlock` allows for a resume of a connection that is not blocked, or is suspended
  under another id too.

## Proofs

Every theorem has the form `Spec => []P`, or says that one specification implements another, for
every value of the constants that satisfies the assumptions of the module. None of the properties is inductive as it
stands; each proof finds a stronger invariant, shows that it holds at the start and that each action
keeps it (one lemma per action or kind of action), and derives the property. Leaves that need no
arithmetic name Zenon: each call of the SMT translation makes the later ones of a module slower.

| module | theorem | property |
|---|---|---|
| `BucketsProofs` | `EngineStaysUsable` | `EngineUsable`: no connection uses the engine of a bucket it is not counted in, or one that was destroyed |
| | `ClientsAreCounted` | `ClientsCounted`: `Bucket::clients`, on which a deletion waits, is exact |
| | `NamesAreUnique`, `OneThreadPerBucket`, `TypeCorrect` | `UniqueNames`, `OneBucketThread`, `TypeOK` |
| | `TableImplementsRegistry` | `ImplementsRegistry`: every step of the table is a step of `BucketRegistry` or changes nothing there |
| `WorkerThreadProofs` | `NoWakeupLost` | `WakeupOnItsWay` |
| | `CookiesStayValid` | `CookieValid`: nobody's cookie is destroyed while somebody will use it |
| | `SaslVerdictAlways` | `SaslVerdict`: an exchange ends as the credentials deserve, whatever is loaded meanwhile |
| `ExecutorProofs` | `MakeRunnableNeverThrows`, `OnePlace` | `NeverThrows`, `TaskInOnePlace` |
| | `StoppedExecutorIsFree`, `TypeCorrect` | `StoppedIsUntouched`, `TypeOK` |
| | `ReportsStayConsistent` | `ReportConsistent` of `TopKeys`: a report names a key once and counts no use that had not happened |
| `ServerProofs` | `PortConnsAreCounted`, `PortLimitKept` | `PortConnsCounted`, `PortLimit`: connections of a port are counted exactly and stay below its limit |
| | `ClosesAreNoticed` | `ClosesNoticed`: no close is missed while listening is disabled |
| | `UsedStaysAlive` | `UsedIsAlive`: nothing is released at shutdown that a thread still uses |
| `ServicesProofs` | `QueuedAlwaysExist`, `IdsStayApart` | `QueuedExist`, `IdsApart` of `EngineManager` |
| | `CookiesStayHeld` | `CookieHeld` of `TapMock` |
| | `TableAlwaysComplete` | `TableComplete` of `Assoc`: lookups find every key while the table is moved |
| `FrontendProofs` | `SessionStableAlways` | `SessionStable`: the token does not change under a command that named it |
| | `BuffersStayOwned` | `BufferOwnedOnce`: a buffer of a worker has one owner |
| | `ExpiryStaysAsMeant` | `ExpiryAsMeant`, and the same for every expiry time that fits a `rel_time_t` |
| | `RequestsAlwaysCovered` | `RequestCovered`: a request that is let through holds its key, its extras and its structure |
| `PluginsProofs` | `LogAlwaysExact` | `LogExact` of `Logger`: no line of the log is lost, written twice or out of order |
| | `NotifiedOnceAlways` | `NotifiedOncePerBlock` of `Ewb`: a blocked call is notified, and once |

What the inductive invariants add:

* `Buckets` (`IInv` in `BucketsSteps`): what a scan of the table under `buckets_lock` has established
  so far (`ScanInv`), that a bucket thread owns its bucket and that nobody is in it once a deletion
  stops waiting (`OwnerInv`), and that a connection is in a bucket that is ready or waits for it
  (`AssocInv`). Counting rests on lemmas about cardinalities; steps that change one bucket share the
  lemma `BucketStep`. `BucketsSteps` has the invariant, the counting and the steps that leave the table
  alone or change an association or a bucket, `BucketsProofs` the rest, the theorems and the
  refinement. The refinement mapping gives a name the state of the bucket that has
  it; it needs `UniqueNames` for a step to change one name only, and `OwnerInv` for `Remove`, which
  the registry allows only when nobody is left.
* `WorkerThread` (`WorkerIInv`): who runs while the worker holds its lock (`LoopInv`), and for each
  connection what a reservation of its cookie implies (`HeldInv`), that one which somebody will
  notify is either reserved or out of libevent and of every list, so that nothing else can run and
  destroy it (`OwedInv`), and what events and lists refer to (`ListInv`). The functions of the state
  machine share lemmas about what a function may change.
* `Executor` (`IInv`): what a worker knows of the task it is about to schedule (`WorkerInv`), the
  fields of a task in each phase (`TaskInv`), and that an executor's tasks are its own, are there once,
  and have a running backend exactly while they wait (`PoolInv`).
* `Listen` (`ListenIInv`): the state of the socket in the dispatcher's hands (`DispatcherInv`), that a
  connection about to be dispatched was counted below the limit (`DispatchInv`), and that the clients
  of a port are a finite set.
* `Process` (`ProcessIInv`): what is alive, and who has stopped, in each phase of the start and of
  the shutdown (`PhaseInv`), that a client in a bucket is connected and that a worker which stopped
  has no clients (`ClientInv`), and that a bucket which is neither ready nor gone has a client's task or
  the main thread working on it (`TaskInv`), for any number of clients and of slots. The order in which `memcached_main` releases things is a sequence; a released thing has
  no user because an earlier element of the sequence has waited for them.
* `EngineManager` (`ManagerIInv`): a job is for an instance that exists, the destruction of an
  instance is its last job, and nobody places a job once the shutdown has begun.
* `TapMock` (`TapIInv`): the reference count of a connection is what its state, the map and the reaper
  say (`CookieInv`).
* `NetBuffers` (`NetIInv`): the buffers that are allocated are those of the thread and of the
  connections, without repetition; that one is left to allocate follows by counting (`BufferLeft`).
* `Clock` (`ClockInv`): the uptime stays within the time the process runs, the epoch may be anything.
* `Ewb` (`EwbIInv`): the notification thread has a cookie only while it notifies, and a connection
  that is suspended has no notification on the way that it waits for. Notifications are counted over
  the queue, the thread and those between the two halves of `resume`.
* `Logger` (`LoggerIInv`): the lines on the disk, those of the pending buffer that are yet to be
  written and those of the current buffer rise and follow each other, and with the dropped ones they
  are all lines so far (`LogOrdered`); the pending buffer is empty unless the thread is about to
  write it (`LogHolds`); nobody adds a line once the logger was stopped (`LogEnds`), without which
  the last lines could stay in a buffer. All of it holds until a forced shutdown, of which `LogExact`
  says nothing.
* `Assoc` (`AssocIInv`): a key is counted once in the chain that a lookup of it takes and in no other
  chain, of either table; a bucket of the new table that has not been filled is empty. A key's bucket
  in the new table is its old bucket or that plus the old size, which is what makes moving one bucket
  at a time safe.
* `Sasl` (`SaslIInv`): for each phase of the exchange what is on the wire, what the server's backend
  and the client have computed, and from which password (`SaslExchange`).
* `TopKeys` (`TopKeysIInv`): the list of a shard is a permutation of its elements, an element's key
  belongs to the shard and is in no other element, its count is at most the number of its uses
  (`ShardHolds`); a report has keys of the shards it has visited only (`ReportHolds`).
* `Requests` (`RequestsIInv`): a request that was let through passed the check of its header and that
  of its command. The rest is a lemma per family of validators: what a validator accepts has the
  extras its structure needs.
* `SessionCas`: the type invariant with `SessionStable` is inductive.

Assumptions, all on constants and checked by TLC in the runs: the sets of connections of `Buckets`,
`SessionCas`, `NetBuffers` and `Ewb` are finite, and `Buckets` has fewer than the range of the counter
`clients`, which has 32 bits; values that stand for "none" are not members of the sets they are
added to; workers are not executors, and the thread that stops the logger is none of those that log; a line
fits the buffer of the logger; sizes and limits are natural numbers, positive where the code
needs them (the first size of the hash table, the number of shards); hashes are natural numbers;
the lengths in a header are natural numbers, that of the body below the range of a `uint32_t`; tokens are not 0; there are at least as many names for buffers as connections; the longest relative
time and the time the process runs together fit a `rel_time_t`, which holds 136 years.

Only model-checked:

* Liveness (`DeletionEnds`, `RequestsServed`, `RequestCompletes`, `TaskCompletes`, `ListenResumes`,
  `ShutdownEnds`, `PausedNotified`): the prover has neither fairness nor `ENABLED`.
* What folds, sums or recursive definitions over sequences compute: `TrailKept`, `InputFramed`, `OutputInOrder`,
  `LoadedExactly`. Their proofs are inductions over data, which the prover cannot do.
* `ImplementsStore`, `RefcountExact`, `LinksAgree` and `FlushedGone`, whose operators on the LRU are
  folds, and the properties of `Commands`, whose steps are sets of outcomes of nested operators.

## Not modelled

Statistics that nothing decides on, the logger that discards, the engines that reject every call or
end the process, OpenSSL and certificates (external; what the code in front of them does is in
`NetInput` and `NetOutput`), Greenstack (its connections are compiled out), client programs, and
utilities for strings and libraries. `PROJECT.json` lists every part with its reason.
