---------------------------- MODULE EngineManager ----------------------------
(***************************************************************************)
(* Creation, scrubbing and destruction of the instances of the default     *)
(* engine (engines/default_engine/engine_manager.cc): threads that create  *)
(* and delete buckets ask for instances, one scrubber thread works on a    *)
(* queue, and the shared object is unloaded at shutdown.                   *)
(***************************************************************************)
EXTENDS Integers, Sequences, FiniteSets

CONSTANTS
  Inst,      \* instances that are ever created
  IdRange,   \* 2^16, the range of bucket_id_t
  NoInst     \* no instance

ASSUME EngineManagerAssumption == IdRange \in Nat \ {0} /\ NoInst \notin Inst

VARIABLES
  inst,     \* [Inst -> state of the instance and its bucket id]
  nextId,   \* bucket_id of createEngine
  created,  \* number of instances that were created
  work,     \* workQueue: instances, and whether to destroy them
  placing,  \* requests between the test of shuttingdown and the queue
  scrubber, \* program counter of the scrubber thread and its current job
  lockedBy, \* holder of the lock of the task
  stopping, \* shutdown: progress of EngineManager::shutdown
  taskStops \* shuttingdown of the task

ManagerVars == <<inst, nextId, created, work, placing, scrubber, lockedBy, stopping, taskStops>>

Nobody == "nobody"

NoJob == <<NoInst, FALSE>>

ManagerInit ==
  /\ inst = [i \in Inst |-> [st |-> "none", id |-> 0]]
  /\ nextId = 0 /\ created = 0
  /\ work = <<>> /\ placing = {}
  /\ scrubber = [pc |-> "test", job |-> NoJob] /\ lockedBy = Nobody
  /\ stopping = "no" /\ taskStops = FALSE

NextId == (nextId + 1) % IdRange

\* The test for ids that are used up compares an int that is never zero.
createEngine(i) ==
  /\ inst[i].st = "none" /\ stopping = "no"
  /\ inst' = [inst EXCEPT ![i] = [st |-> "live", id |-> nextId]]
  /\ nextId' = NextId
  /\ created' = created + 1
  /\ UNCHANGED <<work, placing, scrubber, lockedBy, stopping, taskStops>>

\* scrubEngine and requestDestroyEngine; the bucket of the instance is used by
\* nobody once it is to be destroyed.
Request(i, destroy) ==
  /\ inst[i].st = "live" /\ stopping = "no" /\ ~taskStops
  /\ \A job \in placing : job[1] # i
  /\ ~destroy => \A n \in DOMAIN work : work[n][1] # i
  /\ ~destroy => scrubber.job[1] # i
  /\ placing' = placing \cup {<<i, destroy>>}
  /\ inst' = [inst EXCEPT ![i].st = IF destroy THEN "dying" ELSE @]
  /\ UNCHANGED <<nextId, created, work, scrubber, lockedBy, stopping, taskStops>>

Wake == scrubber' = IF scrubber.pc = "wait" THEN [scrubber EXCEPT !.pc = "test"] ELSE scrubber

QueuedFirst(job) == <<job>> \o work
Queued(job) == Append(work, job)

placeOnQueue(job) ==
  /\ job \in placing /\ lockedBy = Nobody
  /\ work' = Queued(job)
  /\ placing' = placing \ {job}
  /\ Wake
  /\ UNCHANGED <<inst, nextId, created, lockedBy, stopping, taskStops>>

-----------------------------------------------------------------------------
(* ScrubberTask::run *)

ScrubberTests ==
  /\ scrubber.pc = "test" /\ lockedBy = Nobody
  /\ IF work # <<>>
     THEN /\ scrubber' = [pc |-> "scrub", job |-> Head(work)]
          /\ work' = Tail(work) /\ UNCHANGED lockedBy
     ELSE /\ scrubber' = [scrubber EXCEPT !.pc = IF taskStops THEN "exit" ELSE "enter"]
          /\ lockedBy' = IF taskStops THEN Nobody ELSE "scrubber"
          /\ UNCHANGED work
  /\ UNCHANGED <<inst, nextId, created, placing, stopping, taskStops>>

\* cvar.wait releases the lock.
ScrubberWaits ==
  /\ scrubber.pc = "enter"
  /\ scrubber' = [scrubber EXCEPT !.pc = "wait"]
  /\ lockedBy' = Nobody
  /\ UNCHANGED <<inst, nextId, created, work, placing, stopping, taskStops>>

\* item_scrubber_main, then destroy_engine_instance and deleteEngine.
ScrubberWorks ==
  /\ scrubber.pc = "scrub"
  /\ inst' = IF scrubber.job[2] THEN [inst EXCEPT ![scrubber.job[1]].st = "gone"] ELSE inst
  /\ scrubber' = [pc |-> "test", job |-> NoJob]
  /\ UNCHANGED <<nextId, created, work, placing, lockedBy, stopping, taskStops>>

-----------------------------------------------------------------------------
(* EngineManager::shutdown, called when the last bucket has been destroyed *)

\* Every bucket was deleted, which requests the destruction of its instance.
ShutdownBegins ==
  /\ stopping = "no"
  /\ placing = {} /\ \A i \in Inst : inst[i].st # "live"
  /\ stopping' = "flag"
  /\ UNCHANGED <<inst, nextId, created, work, placing, scrubber, lockedBy, taskStops>>

ShutdownTask ==
  /\ stopping = "flag"
  /\ taskStops' = TRUE /\ stopping' = "notify"
  /\ UNCHANGED <<inst, nextId, created, work, placing, scrubber, lockedBy>>

\* "Serialize with ::run": the lock makes sure that the scrubber is waiting, or
\* has yet to test the flag.
Serialized == lockedBy = Nobody

ShutdownNotifies ==
  /\ stopping = "notify" /\ Serialized
  /\ Wake
  /\ stopping' = "join"
  /\ UNCHANGED <<inst, nextId, created, work, placing, lockedBy, taskStops>>

ShutdownJoins ==
  /\ stopping = "join" /\ scrubber.pc = "exit"
  /\ stopping' = "done"
  /\ inst' = [i \in Inst |-> IF inst[i].st \in {"live", "dying"}
                             THEN [inst[i] EXCEPT !.st = "dropped"] ELSE inst[i]]
  /\ UNCHANGED <<nextId, created, work, placing, scrubber, lockedBy, taskStops>>

\* The threads that, once they have something to do, do it.
ScrubberThread == ScrubberTests \/ ScrubberWaits \/ ScrubberWorks
PlacingThread == \E job \in placing : placeOnQueue(job)
ShutdownThread == ShutdownTask \/ ShutdownNotifies \/ ShutdownJoins

ManagerNext ==
  \/ \E i \in Inst : createEngine(i) \/ \E destroy \in BOOLEAN : Request(i, destroy)
  \/ PlacingThread \/ ScrubberThread
  \/ ShutdownBegins \/ ShutdownThread

ManagerSpec == ManagerInit /\ [][ManagerNext]_ManagerVars

-----------------------------------------------------------------------------
(* Properties *)

Exists(i) == inst[i].st \in {"live", "dying"}

\* The scrubber and its queue refer only to instances that exist: an instance is
\* not deleted while a scrub of it is queued or running (ScrubberTask::run).
QueuedExist ==
  /\ \A n \in DOMAIN work : Exists(work[n][1])
  /\ scrubber.pc = "scrub" => Exists(scrubber.job[1])

\* Two instances never share a bucket id, which is what keeps their documents
\* apart in the shared hash table (items.c, hash_key_create), as long as no
\* more than 2^16 were created: the test for used up ids (createEngine) does not
\* work.
IdsApart ==
  created <= IdRange =>
    \A i, j \in Inst : i # j /\ Exists(i) /\ Exists(j) => inst[i].id # inst[j].id

=============================================================================
