--------------------------- MODULE ServicesProofs ---------------------------
(***************************************************************************)
(* Proofs about services of the engines: the instances of the default      *)
(* engine and the queue of their scrubber (EngineManager), for any number  *)
(* of instances, the reservations of the TAP mock engine (TapMock), for    *)
(* any number of connections, and the hash table (Assoc), for any keys.    *)
(***************************************************************************)
EXTENDS EngineManager, TapMock, Assoc, WellFoundedInduction, TLAPS

-----------------------------------------------------------------------------
(* The instances of the default engine and their scrubber.                 *)

Job == Inst \X BOOLEAN

\* The types of what the threads share.
ManagerTypes ==
  /\ inst \in [Inst -> [st : {"none", "live", "dying", "gone", "dropped"}, id : Nat]]
  /\ work \in Seq(Job)
  /\ placing \subseteq Job
  /\ scrubber \in [pc : {"test", "enter", "wait", "scrub", "exit"}, job : Job \cup {NoJob}]
  /\ scrubber.pc = "scrub" => scrubber.job \in Job

\* Whoever wants to place a job has not seen the shutdown, which begins when
\* nobody does; the scrubber leaves when its queue is empty.
StopInv ==
  /\ stopping # "no" => placing = {}
  /\ taskStops => stopping # "no"
  /\ scrubber.pc = "exit" => taskStops /\ work = <<>>

\* A job is for an instance that exists, and one that destroys it for an instance
\* that is dying.
JobFits(job) ==
  /\ inst[job[1]].st \in {"live", "dying"}
  /\ job[2] => inst[job[1]].st = "dying"

JobsFit ==
  /\ \A job \in placing : JobFits(job)
  /\ \A n \in 1 .. Len(work) : JobFits(work[n])
  /\ scrubber.pc = "scrub" => JobFits(scrubber.job)

\* The destruction of an instance is its last job: nothing is placed or queued
\* behind it.
DestroyedLast ==
  /\ \A n \in 1 .. Len(work) : work[n][2] =>
       /\ \A m \in 1 .. Len(work) : work[m][1] = work[n][1] => m <= n
       /\ \A job \in placing : job[1] # work[n][1]
  /\ scrubber.pc = "scrub" /\ scrubber.job[2] =>
       /\ \A m \in 1 .. Len(work) : work[m][1] # scrubber.job[1]
       /\ \A job \in placing : job[1] # scrubber.job[1]
  /\ \A j, k \in placing : j[1] = k[1] => j = k

ManagerIInv == ManagerTypes /\ StopInv /\ JobsFit /\ DestroyedLast

\* The first IdRange instances have the ids 0, 1, 2, ...
IdInv ==
  /\ created \in Nat /\ nextId \in Nat
  /\ created < IdRange => nextId = created
  /\ created <= IdRange =>
       /\ \A i \in Inst : inst[i].st # "none" => inst[i].id < created
       /\ \A i, j \in Inst : /\ i # j /\ inst[i].st # "none" /\ inst[j].st # "none"
                             => inst[i].id # inst[j].id

-----------------------------------------------------------------------------
(* The queue.                                                              *)

\* A job at the end of the queue.
LEMMA QueueAppend ==
  ASSUME NEW q \in Seq(Job), NEW job \in Job
  PROVE  /\ Append(q, job) \in Seq(Job)
         /\ Len(Append(q, job)) = Len(q) + 1 /\ Len(q) \in Nat
         /\ \A n \in 1 .. Len(q) : Append(q, job)[n] = q[n]
         /\ Append(q, job)[Len(q) + 1] = job
OBVIOUS

\* The queue without its first job.
LEMMA QueueTail ==
  ASSUME NEW q \in Seq(Job), q # <<>>
  PROVE  /\ Tail(q) \in Seq(Job) /\ Head(q) = q[1] /\ q[1] \in Job
         /\ Len(Tail(q)) = Len(q) - 1 /\ Len(q) \in Nat \ {0}
         /\ \A n \in 1 .. Len(q) - 1 : Tail(q)[n] = q[n + 1]
OBVIOUS

-----------------------------------------------------------------------------
(* Steps.                                                                  *)

\* createEngine makes an instance that nobody refers to yet.
LEMMA CreateIInv ==
  ASSUME ManagerIInv, NEW i \in Inst, createEngine(i), nextId \in Nat
  PROVE  ManagerIInv'
<1> USE DEF ManagerIInv, createEngine
<1>1. ManagerTypes'
  BY Zenon DEF ManagerTypes
<1>2. StopInv' /\ DestroyedLast'
  BY Zenon DEF StopInv, DestroyedLast
<1>3. \A job \in Job : JobFits(job) => JobFits(job)'
  BY Zenon DEF ManagerTypes, JobFits, Job
<1>4. JobsFit'
  BY <1>3 DEF JobsFit, ManagerTypes
<1>5. QED
  BY Zenon, <1>1, <1>2, <1>4

\* requestDestroyEngine and scrubEngine: an instance that is to be destroyed was
\* not before, so that this job is its last.
LEMMA RequestIInv ==
  ASSUME ManagerIInv, NEW i \in Inst, NEW destroy \in BOOLEAN, Request(i, destroy)
  PROVE  ManagerIInv'
<1> USE DEF ManagerIInv, Request
<1>0. <<i, destroy>> \in Job
  BY Zenon DEF Job
<1>a. inst' \in [Inst -> [st : {"none", "live", "dying", "gone", "dropped"}, id : Nat]]
  <2>1. CASE destroy
    BY Zenon, <2>1 DEF ManagerTypes
  <2>2. CASE ~destroy
    BY Zenon, <2>2 DEF ManagerTypes
  <2>3. QED
    BY Zenon, <2>1, <2>2
<1>1. ManagerTypes'
  BY Zenon, <1>0, <1>a DEF ManagerTypes
<1>2. StopInv'
  BY Zenon DEF StopInv
<1>3. \A job \in Job : JobFits(job) => JobFits(job)'
  BY Zenon DEF ManagerTypes, JobFits, Job
<1>4. JobFits(<<i, destroy>>)'
  BY Zenon DEF ManagerTypes, JobFits
<1>5. JobsFit'
  <2>1. \A job \in placing' : JobFits(job)'
    BY Zenon, <1>3, <1>4 DEF JobsFit, ManagerTypes
  <2>2. \A n \in 1 .. Len(work) : work[n] \in Job /\ JobFits(work[n])
    BY DEF JobsFit, ManagerTypes
  <2>3. \A n \in 1 .. Len(work) : JobFits(work[n])'
    BY Zenon, <1>3, <2>2
  <2>4. scrubber.pc = "scrub" => JobFits(scrubber.job)'
    BY Zenon, <1>3 DEF JobsFit, ManagerTypes
  <2>5. QED
    BY Zenon, <2>1, <2>3, <2>4 DEF JobsFit, JobFits
<1>6. DestroyedLast'
  BY SMTT(30) DEF DestroyedLast, JobsFit, JobFits, ManagerTypes
<1>7. QED
  BY Zenon, <1>1, <1>2, <1>5, <1>6

\* placeOnWorkQueue puts the job behind all others.
LEMMA PlaceIInv ==
  ASSUME ManagerIInv, NEW job \in placing, placeOnQueue(job)
  PROVE  ManagerIInv'
<1> USE DEF ManagerIInv, placeOnQueue
<1>0. job \in Job /\ work \in Seq(Job) /\ work' = Append(work, job)
  BY Zenon DEF ManagerTypes, Queued
<1>a. /\ work' \in Seq(Job) /\ Len(work') = Len(work) + 1 /\ Len(work) \in Nat
      /\ \A n \in 1 .. Len(work) : work'[n] = work[n]
      /\ work'[Len(work) + 1] = job
  BY <1>0, QueueAppend
<1>b. /\ scrubber'.job = scrubber.job
      /\ (scrubber'.pc = "scrub") <=> (scrubber.pc = "scrub")
      /\ scrubber'.pc # "exit" \/ scrubber.pc = "exit"
  BY Zenon DEF Wake, ManagerTypes
<1>1. ManagerTypes'
  BY Zenon, <1>a DEF ManagerTypes, Wake
<1>2. StopInv'
  BY Zenon, <1>b DEF StopInv
<1>3. JobsFit'
  BY <1>a, <1>b DEF JobsFit, JobFits
<1>4. DestroyedLast'
  BY <1>0, <1>a, <1>b DEF DestroyedLast
<1>5. QED
  BY Zenon, <1>1, <1>2, <1>3, <1>4

\* The scrubber takes the first job, waits or leaves.
LEMMA TestsIInv ==
  ASSUME ManagerIInv, ScrubberTests
  PROVE  ManagerIInv'
<1> USE DEF ManagerIInv, ScrubberTests
<1>1. CASE work # <<>>
  <2>0. /\ work' = Tail(work) /\ scrubber' = [pc |-> "scrub", job |-> work[1]]
        /\ work \in Seq(Job)
    BY Zenon, <1>1, QueueTail DEF ManagerTypes
  <2>a. /\ work' \in Seq(Job) /\ work[1] \in Job
        /\ Len(work') = Len(work) - 1 /\ Len(work) \in Nat \ {0}
        /\ \A n \in 1 .. Len(work') : work'[n] = work[n + 1]
    BY Zenon, <1>1, <2>0, QueueTail
  <2>1. ManagerTypes'
    BY Zenon, <2>0, <2>a DEF ManagerTypes
  <2>2. StopInv'
    BY Zenon, <2>0 DEF StopInv
  <2>3. JobsFit'
    BY <2>0, <2>a DEF JobsFit, JobFits
  <2>4. DestroyedLast'
    BY <2>0, <2>a DEF DestroyedLast
  <2>5. QED
    BY Zenon, <2>1, <2>2, <2>3, <2>4
<1>2. CASE work = <<>>
  <2>1. ManagerTypes'
    BY Zenon, <1>2 DEF ManagerTypes
  <2>2. StopInv'
    BY Zenon, <1>2 DEF StopInv, ManagerTypes
  <2>3. scrubber'.pc # "scrub" /\ work' = work
    BY Zenon, <1>2 DEF ManagerTypes
  <2>4. JobsFit' /\ DestroyedLast'
    BY Zenon, <2>3 DEF JobsFit, JobFits, DestroyedLast
  <2>5. QED
    BY Zenon, <2>1, <2>2, <2>4
<1>3. QED
  BY Zenon, <1>1, <1>2

\* The scrubber goes to sleep.
LEMMA WaitsIInv ==
  ASSUME ManagerIInv, ScrubberWaits
  PROVE  ManagerIInv'
<1> USE DEF ManagerIInv, ScrubberWaits
<1>1. ManagerTypes'
  BY Zenon DEF ManagerTypes
<1>2. scrubber'.pc = "wait"
  BY Zenon DEF ManagerTypes
<1>3. StopInv' /\ JobsFit' /\ DestroyedLast'
  BY Zenon, <1>2 DEF StopInv, JobsFit, JobFits, DestroyedLast
<1>4. QED
  BY Zenon, <1>1, <1>3

\* The scrubber destroys an instance that no other job is for.
LEMMA WorksIInv ==
  ASSUME ManagerIInv, ScrubberWorks
  PROVE  ManagerIInv'
<1> USE DEF ManagerIInv, ScrubberWorks
<1>0. scrubber.job \in Job /\ scrubber.job[1] \in Inst
  BY Zenon DEF ManagerTypes, Job
<1>1. ManagerTypes'
  BY Zenon, <1>0 DEF ManagerTypes, NoJob
<1>2. StopInv' /\ DestroyedLast'
  BY Zenon DEF StopInv, DestroyedLast
<1>3. \A job \in Job :
        (scrubber.job[2] /\ job[1] = scrubber.job[1]) \/ ~JobFits(job) \/ JobFits(job)'
  BY Zenon, <1>0 DEF JobFits, Job, ManagerTypes
<1>4. JobsFit'
  BY <1>3 DEF JobsFit, DestroyedLast, ManagerTypes
<1>5. QED
  BY Zenon, <1>1, <1>2, <1>4

\* The shutdown drops instances only when the scrubber has left.
LEMMA ShutdownIInv ==
  ASSUME ManagerIInv, ShutdownBegins \/ ShutdownThread
  PROVE  ManagerIInv'
<1> USE DEF ManagerIInv
<1>1. CASE ShutdownBegins \/ ShutdownTask
  <2> USE <1>1 DEF ShutdownBegins, ShutdownTask
  <2>1. ManagerTypes' /\ JobsFit' /\ DestroyedLast'
    BY DEF ManagerTypes, JobsFit, JobFits, DestroyedLast
  <2>2. StopInv'
    <3>1. placing' = {} /\ stopping' # "no"
      BY Zenon DEF StopInv
    <3>2. scrubber' = scrubber /\ work' = work
      BY Zenon
    <3>3. taskStops => taskStops'
      <4>1. taskStops' = taskStops \/ taskStops' = TRUE
        BY Zenon
      <4>2. QED
        BY ONLY <4>1, Zenon
    <3>4. QED
      BY <3>1, <3>2, <3>3, Zenon DEF StopInv
  <2>3. QED
    BY Zenon, <2>1, <2>2
<1>2. CASE ShutdownNotifies
  <2>1. /\ scrubber'.job = scrubber.job
        /\ (scrubber'.pc = "scrub") <=> (scrubber.pc = "scrub")
        /\ (scrubber'.pc = "exit") <=> (scrubber.pc = "exit")
    BY Zenon, <1>2 DEF ShutdownNotifies, Wake, ManagerTypes
  <2>2. ManagerTypes'
    BY Zenon, <1>2 DEF ShutdownNotifies, Wake, ManagerTypes
  <2>3. StopInv' /\ JobsFit' /\ DestroyedLast'
    BY Zenon, <1>2, <2>1 DEF ShutdownNotifies, StopInv, JobsFit, JobFits, DestroyedLast
  <2>4. QED
    BY Zenon, <2>2, <2>3
<1>3. CASE ShutdownJoins
  <2>1. work = <<>> /\ placing = {} /\ scrubber.pc = "exit"
    BY Zenon, <1>3 DEF ShutdownJoins, StopInv
  <2>2. ManagerTypes'
    BY Zenon, <1>3 DEF ShutdownJoins, ManagerTypes
  <2>3. StopInv' /\ JobsFit' /\ DestroyedLast'
    BY <1>3, <2>1 DEF ShutdownJoins, StopInv, JobsFit, JobFits, DestroyedLast
  <2>4. QED
    BY <2>2, <2>3
<1>4. QED
  BY Zenon, <1>1, <1>2, <1>3 DEF ShutdownThread

-----------------------------------------------------------------------------
(* Bucket ids.                                                             *)

\* createEngine takes an id that is greater than all before it.
LEMMA CreateIdInv ==
  ASSUME ManagerTypes, IdInv, NEW i \in Inst, createEngine(i)
  PROVE  IdInv'
<1> USE EngineManagerAssumption DEF createEngine
<1>1. created' = created + 1 /\ created \in Nat /\ nextId \in Nat /\ nextId' \in Nat
  BY DEF IdInv, NextId
<1>2. created' < IdRange => nextId' = created'
  <2>1. created' < IdRange => nextId + 1 = created' /\ nextId + 1 \in 0 .. IdRange - 1
    BY <1>1 DEF IdInv
  <2>2. nextId + 1 \in 0 .. IdRange - 1 => (nextId + 1) % IdRange = nextId + 1
    BY <1>1
  <2>3. QED
    BY Zenon, <2>1, <2>2 DEF NextId
<1>3. created' <= IdRange => created <= IdRange /\ nextId = created
  BY <1>1 DEF IdInv
<1>4. /\ inst'[i].st = "live" /\ inst'[i].id = nextId
      /\ \A j \in Inst : j # i => inst'[j] = inst[j]
      /\ \A j \in Inst : inst[j].id \in Nat
  BY Zenon DEF ManagerTypes
<1>5. ASSUME created' <= IdRange
      PROVE  /\ \A k \in Inst : inst'[k].st # "none" => inst'[k].id < created'
             /\ \A j, k \in Inst : /\ j # k /\ inst'[j].st # "none" /\ inst'[k].st # "none"
                                   => inst'[j].id # inst'[k].id
  <2>1. \A k \in Inst : inst[k].st # "none" => inst[k].id < created
    BY Zenon, <1>3, <1>5 DEF IdInv
  <2>2. \A j, k \in Inst : /\ j # k /\ inst[j].st # "none" /\ inst[k].st # "none"
                           => inst[j].id # inst[k].id
    BY Zenon, <1>3, <1>5 DEF IdInv
  <2>3. QED
    BY <1>1, <1>3, <1>4, <1>5, <2>1, <2>2
<1>6. QED
  BY <1>1, <1>2, <1>5 DEF IdInv

\* Every other step keeps the ids, and creates no instance.
LEMMA OtherIdInv ==
  ASSUME ManagerTypes, ManagerTypes', IdInv, created' = created, nextId' = nextId,
         \A i \in Inst : /\ inst'[i].id = inst[i].id
                         /\ (inst'[i].st = "none") <=> (inst[i].st = "none")
  PROVE  IdInv'
BY Zenon DEF IdInv

-----------------------------------------------------------------------------
(* The theorems.                                                           *)

ManagerInv == ManagerIInv /\ IdInv

\* At the start there is no instance and no job.
LEMMA ManagerInitInv ==
  ASSUME ManagerInit
  PROVE  ManagerInv
<1> USE EngineManagerAssumption DEF ManagerInit
<1>1. ManagerTypes
  BY DEF ManagerTypes, Job
<1>2. StopInv /\ JobsFit /\ DestroyedLast
  BY DEF StopInv, JobsFit, DestroyedLast
<1>3. IdInv
  BY Zenon DEF IdInv
<1>4. QED
  BY Zenon, <1>1, <1>2, <1>3 DEF ManagerInv, ManagerIInv

\* Every step of the threads keeps the invariant.
LEMMA ManagerStepInv ==
  ASSUME ManagerInv, [ManagerNext]_ManagerVars
  PROVE  ManagerInv'
<1> USE DEF ManagerInv
<1>0. ManagerTypes /\ nextId \in Nat
  BY Zenon DEF ManagerIInv, IdInv
<1>1. ASSUME NEW i \in Inst, createEngine(i) PROVE ManagerInv'
  BY Zenon, <1>0, <1>1, CreateIInv, CreateIdInv
<1>2. ASSUME NEW i \in Inst, NEW destroy \in BOOLEAN, Request(i, destroy)
      PROVE  ManagerInv'
  <2>1. ManagerIInv'
    BY Zenon, <1>2, RequestIInv
  <2>2. /\ created' = created /\ nextId' = nextId
        /\ \A j \in Inst : /\ inst'[j].id = inst[j].id
                           /\ (inst'[j].st = "none") <=> (inst[j].st = "none")
    BY Zenon, <1>0, <1>2 DEF Request, ManagerTypes
  <2>3. QED
    BY Zenon, <1>0, <2>1, <2>2, OtherIdInv DEF ManagerIInv
<1>3. ASSUME PlacingThread \/ ScrubberTests \/ ScrubberWaits \/ ShutdownBegins
               \/ ShutdownTask \/ ShutdownNotifies
      PROVE  ManagerInv'
  <2>1. ManagerIInv'
    BY Zenon, <1>3, PlaceIInv, TestsIInv, WaitsIInv, ShutdownIInv DEF PlacingThread, ShutdownThread
  <2>2. created' = created /\ nextId' = nextId /\ inst' = inst
    BY Zenon, <1>3 DEF PlacingThread, placeOnQueue, ScrubberTests, ScrubberWaits, ShutdownBegins,
       ShutdownTask, ShutdownNotifies
  <2>3. QED
    BY Zenon, <2>1, <2>2 DEF IdInv
<1>4. CASE ScrubberWorks
  <2>1. ManagerIInv'
    BY Zenon, <1>4, WorksIInv
  <2>2. scrubber.job[1] \in Inst /\ JobFits(scrubber.job)
    BY Zenon, <1>0, <1>4 DEF ScrubberWorks, ManagerTypes, Job, ManagerIInv, JobsFit
  <2>3. /\ created' = created /\ nextId' = nextId
        /\ \A j \in Inst : /\ inst'[j].id = inst[j].id
                           /\ (inst'[j].st = "none") <=> (inst[j].st = "none")
    BY Zenon, <1>0, <1>4, <2>2 DEF ScrubberWorks, ManagerTypes, JobFits
  <2>4. QED
    BY Zenon, <1>0, <2>1, <2>3, OtherIdInv DEF ManagerIInv
<1>5. CASE ShutdownJoins
  <2>1. ManagerIInv'
    BY Zenon, <1>5, ShutdownIInv DEF ShutdownThread
  <2>2. /\ created' = created /\ nextId' = nextId
        /\ \A j \in Inst : /\ inst'[j].id = inst[j].id
                           /\ (inst'[j].st = "none") <=> (inst[j].st = "none")
    BY Zenon, <1>0, <1>5 DEF ShutdownJoins, ManagerTypes
  <2>3. QED
    BY <1>0, <2>1, <2>2, OtherIdInv DEF ManagerIInv
<1>6. CASE UNCHANGED ManagerVars
  BY <1>6 DEF ManagerVars, ManagerIInv, ManagerTypes, StopInv, JobsFit, JobFits,
     DestroyedLast, IdInv
<1>7. QED
  BY Zenon, <1>1, <1>2, <1>3, <1>4, <1>5, <1>6 DEF ManagerNext, ScrubberThread, ShutdownThread

\* The invariant of the instances and their jobs always holds.
LEMMA ManagerInvariant == ManagerSpec => []ManagerInv
<1>1. ManagerInit => ManagerInv
  BY Zenon, ManagerInitInv
<1>2. ManagerInv /\ [ManagerNext]_ManagerVars => ManagerInv'
  BY Zenon, ManagerStepInv
<1>3. QED
  BY <1>1, <1>2, PTL DEF ManagerSpec

\* The work queue of the scrubber, and the job it is doing, refer to instances
\* that exist, whatever threads create, scrub and destroy (ScrubberTask::run,
\* placeOnWorkQueue), for any number of instances.
THEOREM QueuedAlwaysExist == ManagerSpec => []QueuedExist
<1>1. ManagerInv => QueuedExist
  BY DEF ManagerInv, ManagerIInv, ManagerTypes, JobsFit, JobFits, QueuedExist, Exists
<1>2. QED
  BY <1>1, ManagerInvariant, PTL

\* Instances that exist at the same time have different bucket ids, until more of
\* them were created than a bucket_id_t can tell apart (createEngine).
THEOREM IdsStayApart == ManagerSpec => []IdsApart
<1>1. ManagerInv => IdsApart
  BY Zenon DEF ManagerInv, IdInv, IdsApart, Exists
<1>2. QED
  BY <1>1, ManagerInvariant, PTL

-----------------------------------------------------------------------------
(* The reservations of the TAP mock engine.                                *)

TapFields == {"tap", "sock", "io", "of", "told", "nds", "running", "aborted"}

Shaped(r) ==
  /\ DOMAIN r = TapFields /\ DOMAIN r.tap = TapCookies /\ DOMAIN r.sock = TapCookies
  /\ \A c \in TapCookies : /\ DOMAIN r.tap[c] = {"mapped", "disconnect", "blocked", "reserved"}
                           /\ DOMAIN r.sock[c] = {"st", "ref", "pending", "sent"}

Streaming == {"ship", "more", "walking", "NOOP", "PAUSE", "DISCONNECT", "paused"}

\* The reaper has taken c out of the map and not given up its cookie yet.
Reaping(r, c) == r.io = "reaping" /\ r.of = c

\* A connection is in the map while it streams and, once it is closing, until it
\* is reaped, also while it waits for a request; it is marked for the reaper
\* only when it is closing.
CookieInv(r, c) ==
  /\ r.sock[c].st \in Streaming \cup {"free", "idle", "waiting", "closing"}
  /\ r.sock[c].st \in Streaming => r.tap[c].mapped
  /\ r.tap[c].mapped => r.sock[c].st \notin {"free", "idle"}
  /\ r.tap[c].disconnect => r.tap[c].mapped /\ r.sock[c].st = "closing"
  /\ Reaping(r, c) => ~ r.tap[c].mapped /\ r.sock[c].st = "closing"
  /\ r.sock[c].ref = (IF r.sock[c].st = "free" THEN 0 ELSE 1)
                       + (IF r.tap[c].mapped \/ Reaping(r, c) THEN 1 ELSE 0)

TapIInv ==
  /\ Shaped(tm) /\ (tm.io = "reaping" => tm.of \in TapCookies)
  /\ \A c \in TapCookies : CookieInv(tm, c)

\* From r to q only c is touched, and not by the reaper.
Moved(r, q, c) ==
  /\ Shaped(q) /\ q.io = r.io /\ q.of = r.of
  /\ \A d \in TapCookies \ {c} : q.tap[d] = r.tap[d] /\ q.sock[d] = r.sock[d]

LEMMA MovedKeeps ==
  ASSUME TapIInv, NEW c \in TapCookies, Moved(tm, tm', c), CookieInv(tm', c)
  PROVE  TapIInv'
BY DEF TapIInv, Moved, CookieInv, Reaping

\* What a closed connection looks like to the engine.
LEMMA DisconnectFields ==
  ASSUME NEW r, Shaped(r), NEW c \in TapCookies, NEW q, q = handleDisconnect(r, c)
  PROVE  /\ Moved(r, q, c)
         /\ q.sock[c].st = "closing" /\ q.sock[c].ref = r.sock[c].ref
         /\ q.tap[c].mapped = r.tap[c].mapped
         /\ q.tap[c].disconnect => (r.tap[c].disconnect \/ r.tap[c].mapped)
BY ZenonT(60) DEF handleDisconnect, Shaped, Moved, TapFields

\* What a request does to the connection that makes it.
LEMMA EngineAnswersFields ==
  ASSUME NEW r, Shaped(r), NEW c \in TapCookies, NEW q \in EngineAnswers(r, c)
  PROVE  /\ Moved(r, q, c)
         /\ \/ q.sock[c].st \in {"waiting", "closing"}
            \/ q.sock[c].st = (IF r.tap[c].mapped THEN "ship" ELSE "idle")
         /\ q.sock[c].ref = r.sock[c].ref /\ q.tap[c].mapped = r.tap[c].mapped
         /\ q.tap[c].disconnect =>
              (r.tap[c].disconnect \/ (q.sock[c].st = "closing" /\ r.tap[c].mapped))
<1>1. \/ q = handleDisconnect(r, c)
      \/ \E n : q = [r EXCEPT !.sock[c].st = "waiting", !.nds = n]
      \/ q = [r EXCEPT !.sock[c].st = IF r.tap[c].mapped THEN "ship" ELSE "idle"]
  BY Zenon DEF EngineAnswers, Answered, dispatchNotification
<1>2. CASE q = handleDisconnect(r, c)
  BY Zenon, <1>2, DisconnectFields
<1>3. ASSUME NEW n, q = [r EXCEPT !.sock[c].st = "waiting", !.nds = n]
      PROVE  /\ Moved(r, q, c) /\ q.sock[c].st = "waiting"
             /\ q.sock[c].ref = r.sock[c].ref /\ q.tap[c] = r.tap[c]
  BY Zenon, <1>3 DEF Shaped, Moved, TapFields
<1>4. ASSUME NEW st, q = [r EXCEPT !.sock[c].st = st]
      PROVE  /\ Moved(r, q, c) /\ q.sock[c].st = st
             /\ q.sock[c].ref = r.sock[c].ref /\ q.tap[c] = r.tap[c]
  BY Zenon, <1>4 DEF Shaped, Moved, TapFields
<1>5. QED
  BY Zenon, <1>1, <1>2, <1>3, <1>4

-----------------------------------------------------------------------------
(* The steps of a worker, which touch one connection.                      *)

\* What is known of the connection a step is about.
LEMMA CookieFacts ==
  ASSUME TapIInv, NEW c \in TapCookies
  PROVE  Shaped(tm) /\ CookieInv(tm, c)
BY Zenon DEF TapIInv

\* A client comes, or goes when nobody else refers to the connection.
LEMMA ConnectsKeeps ==
  ASSUME TapIInv, NEW c \in TapCookies, TapConnects(c) \/ TapCloses(c)
  PROVE  TapIInv'
<1>0. Shaped(tm) /\ CookieInv(tm, c)
  BY Zenon, CookieFacts
<1>1. /\ Moved(tm, tm', c) /\ tm'.tap[c] = tm.tap[c]
      /\ \/ tm.sock[c].st = "free" /\ tm'.sock[c].st = "idle" /\ tm'.sock[c].ref = 1
         \/ tm.sock[c].st = "closing" /\ tm.sock[c].ref = 1
              /\ tm'.sock[c].st = "free" /\ tm'.sock[c].ref = 0
  <2>1. CASE TapConnects(c)
    BY Zenon, <1>0, <2>1 DEF TapConnects, FreeSocket, Shaped, Moved, TapFields
  <2>2. CASE TapCloses(c)
    BY Zenon, <1>0, <2>2 DEF TapCloses, FreeSocket, Shaped, Moved, TapFields
  <2>3. QED
    BY Zenon, <2>1, <2>2
<1>2. CookieInv(tm', c)
  BY <1>0, <1>1 DEF CookieInv, Reaping, Moved, Streaming
<1>3. QED
  BY Zenon, <1>1, <1>2, MovedKeeps

LEMMA HangsUpKeeps ==
  ASSUME TapIInv, NEW c \in TapCookies, TapHangsUp(c)
  PROVE  TapIInv'
<1>0. Shaped(tm) /\ CookieInv(tm, c) /\ tm.sock[c].st \in {"idle", "ship", "paused"}
  BY Zenon, CookieFacts DEF TapHangsUp
<1>1. /\ Moved(tm, tm', c)
      /\ tm'.sock[c].st = "closing" /\ tm'.sock[c].ref = tm.sock[c].ref
      /\ tm'.tap[c].mapped = tm.tap[c].mapped
      /\ tm'.tap[c].disconnect => (tm.tap[c].disconnect \/ tm.tap[c].mapped)
  BY Zenon, <1>0, DisconnectFields DEF TapHangsUp
<1>2. CookieInv(tm', c)
  BY Zenon, <1>0, <1>1 DEF CookieInv, Reaping, Moved, Streaming
<1>3. QED
  BY Zenon, <1>1, <1>2, MovedKeeps

\* A request, made for the first time or again.
LEMMA RequestedKeeps ==
  ASSUME TapIInv, NEW c \in TapCookies, tm.sock[c].st \in {"idle", "waiting", "ship", "paused"},
         NEW r, Moved(tm, r, c), r.sock[c].ref = tm.sock[c].ref, r.tap[c] = tm.tap[c],
         tm' \in EngineAnswers(r, c)
  PROVE  TapIInv'
<1>0. Shaped(tm) /\ CookieInv(tm, c) /\ Shaped(r)
  BY Zenon, CookieFacts DEF Moved
<1>1. /\ Moved(r, tm', c)
      /\ \/ tm'.sock[c].st \in {"waiting", "closing"}
         \/ tm'.sock[c].st = (IF r.tap[c].mapped THEN "ship" ELSE "idle")
      /\ tm'.sock[c].ref = r.sock[c].ref /\ tm'.tap[c].mapped = r.tap[c].mapped
      /\ tm'.tap[c].disconnect =>
           (r.tap[c].disconnect \/ (tm'.sock[c].st = "closing" /\ r.tap[c].mapped))
  BY Zenon, <1>0, EngineAnswersFields
<1>2. Moved(tm, tm', c)
  BY Zenon, <1>1 DEF Moved
<1>3. CookieInv(tm', c)
  BY Zenon, <1>0, <1>1, <1>2 DEF CookieInv, Reaping, Moved, Streaming
<1>4. QED
  BY Zenon, <1>2, <1>3, MovedKeeps

LEMMA MockRequestKeeps ==
  ASSUME TapIInv, NEW c \in TapCookies, MockRequest(c)
  PROVE  TapIInv'
<1>1. tm.sock[c].st \in {"idle", "waiting", "ship", "paused"} /\ tm' \in EngineAnswers(tm, c)
  BY Zenon DEF MockRequest, Reading
<1>2. Moved(tm, tm, c)
  BY Zenon, CookieFacts DEF Moved
<1>3. QED
  BY Zenon, <1>1, <1>2, RequestedKeeps

LEMMA PendingKeeps ==
  ASSUME TapIInv, NEW c \in TapCookies, TapPending(c)
  PROVE  TapIInv'
<1>0. Shaped(tm) /\ CookieInv(tm, c)
  BY Zenon, CookieFacts
<1>1. PICK r : r = [tm EXCEPT !.sock[c].pending = FALSE]
  BY Zenon
<1>2. /\ Moved(tm, r, c) /\ r.sock[c].ref = tm.sock[c].ref /\ r.tap[c] = tm.tap[c]
      /\ r.sock[c].st = tm.sock[c].st
  BY Zenon, <1>0, <1>1 DEF Shaped, Moved, TapFields
<1>3. CASE tm.sock[c].st = "waiting"
  <2>1. tm' \in EngineAnswers(r, c)
    BY Zenon, <1>1, <1>2, <1>3 DEF TapPending
  <2>2. QED
    BY Zenon, <1>2, <1>3, <2>1, RequestedKeeps
<1>4. CASE tm.sock[c].st # "waiting"
  <2>1. \/ tm' = r
        \/ tm.sock[c].st = "paused" /\ tm' = [r EXCEPT !.sock[c].st = "ship"]
    BY Zenon, <1>1, <1>2, <1>4 DEF TapPending
  <2>2. /\ Moved(tm, tm', c) /\ tm'.sock[c].ref = tm.sock[c].ref /\ tm'.tap[c] = tm.tap[c]
        /\ \/ tm'.sock[c].st = tm.sock[c].st
           \/ tm.sock[c].st = "paused" /\ tm'.sock[c].st = "ship"
    BY <1>2, <2>1 DEF Shaped, Moved, TapFields
  <2>3. CookieInv(tm', c)
    BY Zenon, <1>0, <2>2 DEF CookieInv, Reaping, Moved, Streaming
  <2>4. QED
    BY Zenon, <2>2, <2>3, MovedKeeps
<1>5. QED
  BY Zenon, <1>3, <1>4

\* The process ends.
LEMMA AbortedKeeps ==
  ASSUME TapIInv, tm' = Aborted(tm)
  PROVE  TapIInv'
<1>1. /\ Shaped(tm') /\ tm'.io = tm.io /\ tm'.of = tm.of
      /\ tm'.sock = tm.sock /\ tm'.tap = tm.tap
  BY Zenon DEF Aborted, TapIInv, Shaped, TapFields
<1>2. QED
  BY <1>1 DEF TapIInv, CookieInv, Reaping

\* The TAP connection is made, or found in the map already, and walked.
LEMMA IteratorKeeps ==
  ASSUME TapIInv, NEW c \in TapCookies, getTapIterator(c)
  PROVE  TapIInv'
<1>0. Shaped(tm) /\ CookieInv(tm, c) /\ tm.sock[c].st \in {"idle", "ship", "paused"}
  BY Zenon, CookieFacts DEF getTapIterator, Reading
<1>1. CASE tm.tap[c].mapped
  BY Zenon, <1>1, AbortedKeeps DEF getTapIterator
<1>2. CASE ~ tm.tap[c].mapped
  <2>1. /\ Moved(tm, tm', c) /\ tm'.sock[c].st = "ship" /\ tm'.sock[c].ref = tm.sock[c].ref + 1
        /\ tm'.tap[c].mapped = TRUE /\ tm'.tap[c].disconnect = FALSE
    BY <1>0, <1>2 DEF getTapIterator, NoTap, Shaped, Moved, TapFields
  <2>2. CookieInv(tm', c)
    BY <1>0, <1>2, <2>1 DEF CookieInv, Reaping, Moved, Streaming
  <2>3. QED
    BY Zenon, <2>1, <2>2, MovedKeeps
<1>3. QED
  BY Zenon, <1>1, <1>2

LEMMA WalkKeeps ==
  ASSUME TapIInv, NEW c \in TapCookies,
         TapReads(c) \/ TapWalks(c) \/ TapEvents(c) \/ dispatch_notification(c)
  PROVE  TapIInv'
<1>0. Shaped(tm) /\ CookieInv(tm, c)
  BY Zenon, CookieFacts
<1>1. /\ Moved(tm, tm', c) /\ tm'.sock[c].ref = tm.sock[c].ref
      /\ tm'.tap[c].mapped = tm.tap[c].mapped /\ tm'.tap[c].disconnect = tm.tap[c].disconnect
      /\ \/ tm'.sock[c].st = tm.sock[c].st
         \/ tm.sock[c].st \in Streaming /\ tm'.sock[c].st \in Streaming
  <2>1. CASE TapReads(c)
    BY Zenon, <1>0, <2>1 DEF TapReads, Shaped, Moved, TapFields, Streaming
  <2>2. CASE TapWalks(c)
    BY Zenon, <1>0, <2>2 DEF TapWalks, Shaped, Moved, TapFields, Streaming
  <2>3. ASSUME NEW ev \in {"NOOP", "PAUSE", "DISCONNECT"}, TapEvent(c, ev)
        PROVE  /\ Moved(tm, tm', c) /\ tm'.sock[c].ref = tm.sock[c].ref
               /\ tm'.tap[c].mapped = tm.tap[c].mapped
               /\ tm'.tap[c].disconnect = tm.tap[c].disconnect
               /\ tm.sock[c].st \in Streaming /\ tm'.sock[c].st \in Streaming
    BY Zenon, <1>0, <2>3 DEF TapEvent, Shaped, Moved, TapFields, Streaming
  <2>4. CASE dispatch_notification(c)
    <3>1. PICK r : r = [tm EXCEPT !.nds[c] = @ - 1] /\ tm' \in {Aborted(r), NotifyIo(r, c)}
      BY Zenon, <2>4 DEF dispatch_notification
    <3>2. /\ Shaped(r) /\ r.io = tm.io /\ r.of = tm.of /\ r.tap = tm.tap /\ r.sock = tm.sock
      BY Zenon, <1>0, <3>1 DEF Shaped, TapFields
    <3>3. CASE tm' = Aborted(r)
      BY Zenon, <3>2, <3>3 DEF Aborted, Shaped, Moved, TapFields
    <3>4. CASE tm' = NotifyIo(r, c)
      BY Zenon, <3>2, <3>4 DEF NotifyIo, Shaped, Moved, TapFields
    <3>5. QED
      BY Zenon, <3>1, <3>3, <3>4
  <2>5. QED
    BY Zenon, <2>1, <2>2, <2>3, <2>4 DEF TapEvents
<1>2. CookieInv(tm', c)
  BY Zenon, <1>0, <1>1 DEF CookieInv, Reaping, Moved, Streaming
<1>3. QED
  BY Zenon, <1>1, <1>2, MovedKeeps

LEMMA WalkedKeeps ==
  ASSUME TapIInv, NEW c \in TapCookies, TapWalked(c)
  PROVE  TapIInv'
<1>0. Shaped(tm) /\ CookieInv(tm, c)
  BY CookieFacts
<1>1. PICK r : r = Released(tm, c)
  BY Zenon
<1>2. /\ Moved(tm, r, c) /\ r.sock = tm.sock
      /\ r.tap[c].mapped = tm.tap[c].mapped /\ r.tap[c].disconnect = tm.tap[c].disconnect
  BY Zenon, <1>0, <1>1 DEF Released, Shaped, Moved, TapFields
<1>3. ASSUME NEW st \in {"ship", "more", "paused"}, tm.sock[c].st \in Streaming,
             NEW sent, tm' = [r EXCEPT !.sock[c].st = st, !.sock[c].sent = sent]
      PROVE  TapIInv'
  <2>1. /\ Moved(tm, tm', c) /\ tm'.sock[c].ref = tm.sock[c].ref /\ tm'.sock[c].st = st
        /\ tm'.tap[c].mapped = tm.tap[c].mapped /\ tm'.tap[c].disconnect = tm.tap[c].disconnect
    BY Zenon, <1>2, <1>3 DEF Shaped, Moved, TapFields
  <2>2. CookieInv(tm', c)
    BY Zenon, <1>0, <1>3, <2>1 DEF CookieInv, Reaping, Moved, Streaming
  <2>3. QED
    BY Zenon, <2>1, <2>2, MovedKeeps
<1>4. ASSUME tm.sock[c].st = "DISCONNECT", tm' = handleDisconnect(r, c)
      PROVE  TapIInv'
  <2>1. /\ Moved(r, tm', c)
        /\ tm'.sock[c].st = "closing" /\ tm'.sock[c].ref = r.sock[c].ref
        /\ tm'.tap[c].mapped = r.tap[c].mapped
        /\ tm'.tap[c].disconnect => (r.tap[c].disconnect \/ r.tap[c].mapped)
    BY SMTT(30), <1>2, <1>4, DisconnectFields DEF Moved
  <2>2. Moved(tm, tm', c)
    BY Zenon, <1>2, <2>1 DEF Moved
  <2>3. CookieInv(tm', c)
    BY <1>0, <1>2, <1>4, <2>1, <2>2 DEF CookieInv, Reaping, Moved, Streaming
  <2>4. QED
    BY Zenon, <2>2, <2>3, MovedKeeps
<1>5. QED
  BY Zenon, <1>1, <1>3, <1>4 DEF TapWalked, Streaming

-----------------------------------------------------------------------------
(* The I/O thread.                                                         *)

\* A non-empty set of natural numbers has a least element.
LEMMA MinIsIn ==
  ASSUME NEW S, S \subseteq Nat, S # {}
  PROVE  Min(S) \in S
<1> DEFINE R == {p \in Nat \X Nat : p[1] < p[2]}
<1>1. OpToRel(<, Nat) = R
  BY Zenon DEF OpToRel
<1>2. IsWellFoundedOn(R, Nat)
  BY <1>1, NatLessThanWellFounded, Zenon
<1> HIDE DEF R
<1>3. PICK x \in S : \A y \in S : ~ (<<y, x>> \in R)
  BY Zenon, <1>2, WFMin
<1>4. \A y \in S : x <= y
  <2> SUFFICES ASSUME NEW y \in S PROVE x <= y
    BY Zenon
  <2>1. x \in Nat /\ y \in Nat /\ <<y, x>> \notin R
    BY Zenon, <1>3
  <2>2. ~ (y < x)
    BY ONLY Zenon, <2>1 DEF R
  <2>3. QED
    BY ONLY <2>1, <2>2
<1>5. QED
  BY Zenon, <1>4 DEF Min

LEMMA FoundIsIn ==
  ASSUME NEW S, S \subseteq TapCookies, Found(S) # NoCookie
  PROVE  Found(S) \in S
BY Zenon, TapAssumption, MinIsIn DEF Found

\* A pass that starts or ends, and the notifying of paused connections.
LEMMA PassKeeps ==
  ASSUME TapIInv, Shaped(tm'), tm.io # "reaping", tm'.io # "reaping", tm'.sock = tm.sock,
         tm'.tap = tm.tap
  PROVE  TapIInv'
BY DEF TapIInv, CookieInv, Reaping

LEMMA PassesKeep ==
  ASSUME TapIInv, IoReaps \/ IoNotifies \/ IoEnds \/ DestroyMock
  PROVE  TapIInv'
<1>0. Shaped(tm)
  BY Zenon DEF TapIInv
<1>1. CASE IoReaps \/ IoNotifies \/ IoEnds
  <2>1. /\ Shaped(tm') /\ tm.io # "reaping" /\ tm'.io # "reaping"
        /\ tm'.sock = tm.sock /\ tm'.tap = tm.tap
    BY Zenon, <1>0, <1>1 DEF IoReaps, IoNotifies, IoEnds, Shaped, TapFields
  <2>2. QED
    BY Zenon, <2>1, PassKeeps
<1>2. CASE DestroyMock
  <2>1. /\ Shaped(tm') /\ tm'.io = tm.io /\ tm'.of = tm.of
        /\ tm'.sock = tm.sock /\ tm'.tap = tm.tap
    BY Zenon, <1>0, <1>2 DEF DestroyMock, Shaped, TapFields
  <2>2. QED
    BY <2>1 DEF TapIInv, CookieInv, Reaping
<1>3. QED
  BY Zenon, <1>1, <1>2

LEMMA ReapKeeps ==
  ASSUME TapIInv, reapDisconnected
  PROVE  TapIInv'
<1>0. Shaped(tm) /\ \A d \in TapCookies : CookieInv(tm, d)
  BY Zenon DEF TapIInv
<1>1. ASSUME tm.io = "reap", Found(Reapable(tm)) = NoCookie, tm' = [tm EXCEPT !.io = "top"]
      PROVE  TapIInv'
  <2>1. Shaped(tm') /\ tm'.io # "reaping" /\ tm'.sock = tm.sock /\ tm'.tap = tm.tap
    BY Zenon, <1>0, <1>1 DEF Shaped, TapFields
  <2>2. QED
    BY Zenon, <1>1, <2>1, PassKeeps
<1>2. ASSUME tm.io = "reap", Found(Reapable(tm)) # NoCookie,
             tm' = [ReapStep(tm, Found(Reapable(tm)), 1) EXCEPT
                      !.io = "reaping", !.of = Found(Reapable(tm))]
      PROVE  TapIInv'
  <2>1. PICK c \in TapCookies : /\ c = Found(Reapable(tm))
                                /\ tm.tap[c].mapped /\ tm.tap[c].disconnect
    <3>1. Reapable(tm) \subseteq TapCookies
      BY Zenon DEF Reapable
    <3>2. Found(Reapable(tm)) \in Reapable(tm)
      BY Zenon, <1>2, <3>1, FoundIsIn
    <3>3. QED
      BY Zenon, <3>2 DEF Reapable
  <2>2. /\ Shaped(tm') /\ tm'.io = "reaping" /\ tm'.of = c /\ tm'.sock = tm.sock
        /\ tm'.tap[c].mapped = FALSE /\ tm'.tap[c].disconnect = FALSE
        /\ \A d \in TapCookies \ {c} : tm'.tap[d] = tm.tap[d]
    BY Zenon, <1>0, <1>2, <2>1 DEF ReapStep, NoTap, Shaped, TapFields
  <2>3. CookieInv(tm', c)
    BY <1>0, <1>2, <2>1, <2>2 DEF CookieInv, Reaping, Streaming
  <2>4. ASSUME NEW d \in TapCookies \ {c} PROVE CookieInv(tm', d)
    BY <1>0, <1>2, <2>2, <2>4 DEF CookieInv, Reaping
  <2>5. QED
    BY Zenon, <2>2, <2>3, <2>4 DEF TapIInv
<1>3. ASSUME tm.io = "reaping",
             tm' = [ReapStep(tm, tm.of, 2) EXCEPT !.io = "reap", !.of = NoCookie]
      PROVE  TapIInv'
  <2>1. PICK c \in TapCookies : c = tm.of
    BY Zenon, <1>3 DEF TapIInv
  <2>2. /\ Shaped(tm') /\ tm'.io = "reap" /\ tm'.tap = tm.tap
        /\ tm'.sock[c].st = tm.sock[c].st /\ tm'.sock[c].ref = tm.sock[c].ref - 1
        /\ \A d \in TapCookies \ {c} : tm'.sock[d] = tm.sock[d]
    BY SMTT(30), <1>0, <1>3, <2>1 DEF ReapStep, ReleaseCookie, NotifyIo, Shaped, TapFields
  <2>3. CookieInv(tm', c)
    BY SMTT(30), <1>0, <1>3, <2>1, <2>2 DEF CookieInv, Reaping, Streaming
  <2>4. ASSUME NEW d \in TapCookies \ {c} PROVE CookieInv(tm', d)
    BY <1>0, <1>3, <2>1, <2>2, <2>4 DEF CookieInv, Reaping
  <2>5. QED
    BY Zenon, <2>2, <2>3, <2>4 DEF TapIInv
<1>4. QED
  BY Zenon, <1>1, <1>2, <1>3 DEF reapDisconnected

LEMMA NotifyKeeps ==
  ASSUME TapIInv, notifySome
  PROVE  TapIInv'
<1>0. Shaped(tm) /\ \A d \in TapCookies : CookieInv(tm, d)
  BY DEF TapIInv
<1>1. ASSUME tm.io = "notify", \/ tm' = [tm EXCEPT !.io = "top"]
                               \/ \E c : tm' = [tm EXCEPT !.io = "notifying", !.of = c, !.told = 1]
      PROVE  TapIInv'
  <2>1. ASSUME NEW c, tm' = [tm EXCEPT !.io = "notifying", !.of = c, !.told = 1]
        PROVE  Shaped(tm') /\ tm'.io # "reaping" /\ tm'.sock = tm.sock /\ tm'.tap = tm.tap
    BY Zenon, <1>0, <2>1 DEF Shaped, TapFields
  <2>2. CASE tm' = [tm EXCEPT !.io = "top"]
    BY Zenon, <1>0, <1>1, <2>2, PassKeeps DEF Shaped, TapFields
  <2>3. CASE \E c : tm' = [tm EXCEPT !.io = "notifying", !.of = c, !.told = 1]
    <3>1. Shaped(tm') /\ tm'.io # "reaping" /\ tm'.sock = tm.sock /\ tm'.tap = tm.tap
      BY <2>1, <2>3, Zenon
    <3>2. QED
      BY Zenon, <1>1, <3>1, PassKeeps
  <2>4. QED
    BY Zenon, <1>1, <2>2, <2>3
<1>2. ASSUME tm.io = "notifying",
             \/ tm' = [NotifyStep(tm, tm.of, tm.told) EXCEPT !.told = 2]
             \/ tm' = [NotifyStep(tm, tm.of, tm.told) EXCEPT
                         !.io = "notify", !.of = NoCookie, !.told = 0]
      PROVE  TapIInv'
  <2>1. PICK c, r : c = tm.of /\ r = NotifyStep(tm, c, tm.told)
    BY Zenon
  <2>2. /\ Shaped(r) /\ r.io = tm.io
        /\ \A d \in TapCookies : /\ r.tap[d].mapped = tm.tap[d].mapped
                                 /\ r.tap[d].disconnect = tm.tap[d].disconnect
                                 /\ r.sock[d].st = tm.sock[d].st
                                 /\ r.sock[d].ref = tm.sock[d].ref
    <3>1. CASE r = [tm EXCEPT !.tap[c].blocked = FALSE]
      BY Zenon, <1>0, <3>1 DEF Shaped, TapFields
    <3>2. CASE r = [tm EXCEPT !.sock[c].pending = TRUE]
      BY Zenon, <1>0, <3>2 DEF Shaped, TapFields
    <3>3. QED
      BY Zenon, <2>1, <3>1, <3>2 DEF NotifyStep, NotifyIo
  <2>3. Shaped(tm') /\ tm'.io # "reaping" /\ tm'.tap = r.tap /\ tm'.sock = r.sock
    BY Zenon, <1>2, <2>1, <2>2 DEF Shaped, TapFields
  <2>4. ASSUME NEW d \in TapCookies PROVE CookieInv(tm', d)
    BY <1>0, <1>2, <2>2, <2>3, <2>4 DEF CookieInv, Reaping
  <2>5. QED
    BY Zenon, <2>3, <2>4 DEF TapIInv
<1>3. QED
  BY Zenon, <1>1, <1>2 DEF notifySome

-----------------------------------------------------------------------------
(* The theorem on the reservations.                                        *)

LEMMA TapStarts == TapInit => TapIInv
<1> SUFFICES ASSUME TapInit PROVE TapIInv
  OBVIOUS
<1>1. Shaped(tm) /\ tm.io = "top"
  BY Zenon DEF TapInit, Shaped, TapFields, NoTap, FreeSocket
<1>2. ASSUME NEW c \in TapCookies PROVE CookieInv(tm, c)
  BY <1>1, <1>2 DEF TapInit, CookieInv, Reaping, Streaming, NoTap, FreeSocket
<1>3. QED
  BY Zenon, <1>1, <1>2 DEF TapIInv

LEMMA TapStep == TapIInv /\ [TapNext]_tm => TapIInv'
<1> SUFFICES ASSUME TapIInv, [TapNext]_tm PROVE TapIInv'
  BY Zenon
<1>1. CASE IoThread \/ DestroyMock
  BY Zenon, <1>1, ReapKeeps, NotifyKeeps, PassesKeep DEF IoThread
<1>2. ASSUME NEW c \in TapCookies, TapConnects(c) \/ TapHangsUp(c) \/ TapReads(c) \/ TapCloses(c)
      PROVE  TapIInv'
  BY Zenon, <1>2, ConnectsKeeps, HangsUpKeeps, WalkKeeps
<1>3. ASSUME NEW c \in TapCookies, MockRequest(c) \/ dispatch_notification(c) \/ TapPending(c)
      PROVE  TapIInv'
  BY Zenon, <1>3, MockRequestKeeps, WalkKeeps, PendingKeeps
<1>4. ASSUME NEW c \in TapCookies,
             getTapIterator(c) \/ TapWalks(c) \/ TapEvents(c) \/ TapWalked(c)
      PROVE  TapIInv'
  BY Zenon, <1>4, IteratorKeeps, WalkKeeps, WalkedKeeps
<1>5. CASE UNCHANGED tm
  BY Zenon, <1>5 DEF TapIInv, Shaped, CookieInv, Reaping
<1>6. QED
  BY Zenon, <1>1, <1>2, <1>3, <1>4, <1>5 DEF TapNext, TapWorker, TapClient

(* With any number of TAP connections, the engine holds a reservation of a *)
(* connection exactly while it is in the map or in the hands of the        *)
(* reaper, so that no connection is reused while the engine knows it       *)
(* (getTapIterator, reapDisconnected).                                     *)
THEOREM CookiesStayHeld == TapSpec => []CookieHeld
<1>1. TapInit => TapIInv
  BY Zenon, TapStarts
<1>2. TapIInv /\ [TapNext]_tm => TapIInv'
  BY Zenon, TapStep
<1>3. TapIInv => CookieHeld
  BY Zenon DEF TapIInv, CookieInv, CookieHeld, Reaping, Streaming
<1>4. QED
  BY <1>1, <1>2, <1>3, PTL DEF TapSpec

-----------------------------------------------------------------------------
(* The hash table the instances share.                                     *)

AssocChains == [HashKey -> Nat]

\* While the table is moved there is an old one, of half the size, and the thread
\* is at one of its buckets.
AssocTypes ==
  /\ size \in Nat \ {0} /\ moving \in BOOLEAN /\ moved \in Nat /\ inserted \subseteq HashKey
  /\ table \in [Buckets(size) -> AssocChains]
  /\ moving => /\ OldSize \in Nat \ {0} /\ moved \in Buckets(OldSize)
               /\ oldTable \in [Buckets(OldSize) -> AssocChains]
  /\ ~moving => oldTable = NoTable

\* How often the key should be in a chain of the new and of the old table.
InTable(k, b) == IF k \in inserted /\ ~InOld(k) /\ b = Bucket(k, size) THEN 1 ELSE 0
InOldTable(k, b) == IF k \in inserted /\ InOld(k) /\ b = Bucket(k, OldSize) THEN 1 ELSE 0

\* Every key is where assoc_find looks for it, and nowhere else.
AssocPlaced ==
  /\ \A k \in HashKey, b \in Buckets(size) : table[b][k] = InTable(k, b)
  /\ moving => \A k \in HashKey, b \in Buckets(OldSize) : oldTable[b][k] = InOldTable(k, b)

AssocIInv == AssocTypes /\ AssocPlaced

-----------------------------------------------------------------------------

\* A hash under the mask of a table is a bucket of it.
LEMMA BucketInTable == \A k \in HashKey, n \in Nat \ {0} : Bucket(k, n) \in Buckets(n)
BY AssocAssumption DEF Bucket, Buckets

\* The chain that is searched for a key holds it exactly if it was inserted.
LEMMA ChainHolds ==
  ASSUME AssocIInv, NEW k \in HashKey
  PROVE  Chain(k) \in AssocChains /\ Chain(k)[k] = IF k \in inserted THEN 1 ELSE 0
<1>1. size \in Nat \ {0} /\ Bucket(k, size) \in Buckets(size)
  BY Zenon, BucketInTable DEF AssocIInv, AssocTypes
<1>2. CASE InOld(k)
  <2>1. moving /\ OldSize \in Nat \ {0}
    BY Zenon, <1>2 DEF InOld, AssocIInv, AssocTypes
  <2>2. Bucket(k, OldSize) \in Buckets(OldSize)
    BY Zenon, <2>1, BucketInTable
  <2>3. oldTable[Bucket(k, OldSize)] \in AssocChains
    BY Zenon, <2>1, <2>2 DEF AssocIInv, AssocTypes
  <2>4. oldTable[Bucket(k, OldSize)][k] = IF k \in inserted THEN 1 ELSE 0
    BY Zenon, <1>2, <2>1, <2>2 DEF AssocIInv, AssocPlaced, InOldTable
  <2>5. QED
    BY Zenon, <1>2, <2>3, <2>4 DEF Chain
<1>3. CASE ~InOld(k)
  <2>1. table[Bucket(k, size)] \in AssocChains
    BY Zenon, <1>1 DEF AssocIInv, AssocTypes
  <2>2. table[Bucket(k, size)][k] = IF k \in inserted THEN 1 ELSE 0
    BY Zenon, <1>1, <1>3 DEF AssocIInv, AssocPlaced, InTable
  <2>3. QED
    BY Zenon, <1>3, <2>1, <2>2 DEF Chain
<1>4. QED
  BY Zenon, <1>2, <1>3

\* So assoc_find finds it exactly if it was inserted.
LEMMA FoundIfInserted ==
  ASSUME AssocIInv, NEW k \in HashKey PROVE assoc_contains(k) <=> k \in inserted
BY ChainHolds DEF assoc_contains

\* The invariant says what the property asks.
LEMMA TableCompleteFollows == AssocIInv => TableComplete
<1> SUFFICES ASSUME AssocIInv, NEW k \in HashKey
      PROVE /\ assoc_contains(k) <=> k \in inserted
            /\ \A b \in DOMAIN table : table[b][k] = InTable(k, b)
            /\ \A b \in DOMAIN oldTable : oldTable[b][k] = InOldTable(k, b)
  BY Zenon DEF TableComplete, InTable, InOldTable
<1>2. \A b \in DOMAIN table : table[b][k] = InTable(k, b)
  BY Zenon DEF AssocIInv, AssocTypes, AssocPlaced
<1>3. CASE moving
  BY Zenon, <1>2, <1>3, FoundIfInserted DEF AssocIInv, AssocTypes, AssocPlaced
<1>4. CASE ~moving
  <2>1. DOMAIN oldTable = {}
    BY Zenon, <1>4 DEF AssocIInv, AssocTypes, NoTable
  <2>2. QED
    BY Zenon, <1>2, <2>1, FoundIfInserted
<1>5. QED
  BY Zenon, <1>3, <1>4 DEF AssocIInv, AssocTypes

\* A new table has a chain for each bucket, with nothing in it.
LEMMA EmptyPlaced ==
  ASSUME NEW p \in Nat \ {0}
  PROVE  /\ EmptyTable(p) \in [Buckets(p) -> AssocChains]
         /\ \A b \in Buckets(p), k \in HashKey : EmptyTable(p)[b][k] = 0
BY Zenon DEF EmptyTable, EmptyChain, AssocChains

\* AssocInit establishes the invariant.
LEMMA AssocInitially == AssocInit => AssocIInv
<1> SUFFICES ASSUME AssocInit PROVE AssocIInv
  BY Zenon
<1>1. AssocTypes
  BY Zenon, EmptyPlaced, AssocAssumption DEF AssocInit, AssocTypes
<1>2. AssocPlaced
  BY Zenon, EmptyPlaced, AssocAssumption DEF AssocInit, AssocPlaced, InTable
<1>3. QED
  BY Zenon, <1>1, <1>2 DEF AssocIInv

\* A key is linked into, or unlinked from, its chain.
LEMMA ChainChanges ==
  ASSUME AssocIInv, NEW k \in HashKey, NEW chain \in AssocChains, NEW keys,
         \/ k \notin inserted /\ keys = inserted \cup {k}
         \/ k \in inserted /\ keys = inserted \ {k},
         \A j \in HashKey : j # k => chain[j] = Chain(k)[j],
         chain[k] = IF k \in keys THEN 1 ELSE 0,
         SetChain(k, chain), inserted' = keys, UNCHANGED <<size, moving, moved>>
  PROVE  AssocIInv'
<1>0. OldSize' = OldSize
  BY Zenon DEF OldSize
<1>1. \A j \in HashKey : InOld(j)' <=> InOld(j)
  BY Zenon, <1>0 DEF InOld, Bucket
<1>2. keys \subseteq HashKey /\ \A j \in HashKey : j # k => (j \in keys <=> j \in inserted)
  BY Zenon DEF AssocIInv, AssocTypes
<1>3. size \in Nat \ {0}
  BY Zenon DEF AssocIInv, AssocTypes
<1>4. CASE InOld(k)
  <2> DEFINE b0 == Bucket(k, OldSize)
  <2>1. moving /\ OldSize \in Nat \ {0} /\ b0 \in Buckets(OldSize)
    BY Zenon, <1>4, BucketInTable DEF InOld, AssocIInv, AssocTypes
  <2>2. /\ oldTable' = [oldTable EXCEPT ![b0] = chain] /\ table' = table
        /\ Chain(k) = oldTable[b0]
    BY Zenon, <1>4 DEF SetChain, Chain
  <2>3. oldTable \in [Buckets(OldSize) -> AssocChains]
    BY Zenon, <2>1 DEF AssocIInv, AssocTypes
  <2> HIDE DEF b0
  <2>4. /\ oldTable' \in [Buckets(OldSize) -> AssocChains] /\ oldTable'[b0] = chain
        /\ \A b \in Buckets(OldSize) : b # b0 => oldTable'[b] = oldTable[b]
    BY Zenon, <2>1, <2>2, <2>3
  <2>5. AssocTypes'
    BY Zenon, <1>0, <1>2, <2>1, <2>2, <2>4 DEF AssocIInv, AssocTypes
  <2>6. ASSUME NEW j \in HashKey, NEW b \in Buckets(size) PROVE table'[b][j] = InTable(j, b)'
    BY Zenon, <1>0, <1>1, <1>2, <1>4, <2>2 DEF AssocIInv, AssocPlaced, InTable, Bucket
  <2>7. ASSUME NEW j \in HashKey, NEW b \in Buckets(OldSize)
        PROVE  oldTable'[b][j] = InOldTable(j, b)'
    <3>1. oldTable[b][j] = InOldTable(j, b)
      BY Zenon, <2>1 DEF AssocIInv, AssocPlaced
    <3>2. InOldTable(j, b)' = IF j \in keys /\ InOld(j) /\ b = Bucket(j, OldSize) THEN 1 ELSE 0
      BY Zenon, <1>0, <1>1 DEF InOldTable, Bucket
    <3>3. CASE j = k /\ b = b0
      BY Zenon, <3>2, <3>3, <1>4, <2>4 DEF b0
    <3>4. CASE j = k /\ b # b0
      BY Zenon, <3>1, <3>2, <3>4, <2>4 DEF b0, InOldTable
    <3>5. CASE j # k
      <4>1. oldTable'[b][j] = oldTable[b][j]
        BY Zenon, <3>5, <2>2, <2>4
      <4>2. QED
        BY Zenon, <3>1, <3>2, <3>5, <4>1, <1>2 DEF InOldTable
    <3>6. QED
      BY Zenon, <3>3, <3>4, <3>5
  <2>8. QED
    BY Zenon, <1>0, <2>5, <2>6, <2>7 DEF AssocIInv, AssocPlaced
<1>5. CASE ~InOld(k)
  <2> DEFINE b0 == Bucket(k, size)
  <2>1. b0 \in Buckets(size)
    BY Zenon, <1>3, BucketInTable
  <2>2. /\ table' = [table EXCEPT ![b0] = chain] /\ oldTable' = oldTable
        /\ Chain(k) = table[b0]
    BY Zenon, <1>5 DEF SetChain, Chain
  <2>3. table \in [Buckets(size) -> AssocChains]
    BY Zenon DEF AssocIInv, AssocTypes
  <2> HIDE DEF b0
  <2>4. /\ table' \in [Buckets(size) -> AssocChains] /\ table'[b0] = chain
        /\ \A b \in Buckets(size) : b # b0 => table'[b] = table[b]
    BY Zenon, <2>1, <2>2, <2>3
  <2>5. AssocTypes'
    BY Zenon, <1>0, <1>2, <2>2, <2>4 DEF AssocIInv, AssocTypes, NoTable
  <2>6. ASSUME NEW j \in HashKey, NEW b \in Buckets(OldSize), moving
        PROVE  oldTable'[b][j] = InOldTable(j, b)'
    BY Zenon, <1>0, <1>1, <1>2, <1>5, <2>2, <2>6 DEF AssocIInv, AssocPlaced, InOldTable, Bucket
  <2>7. ASSUME NEW j \in HashKey, NEW b \in Buckets(size)
        PROVE  table'[b][j] = InTable(j, b)'
    <3>1. table[b][j] = InTable(j, b)
      BY Zenon DEF AssocIInv, AssocPlaced
    <3>2. InTable(j, b)' = IF j \in keys /\ ~InOld(j) /\ b = Bucket(j, size) THEN 1 ELSE 0
      BY Zenon, <1>1 DEF InTable, Bucket
    <3>3. CASE j = k /\ b = b0
      BY Zenon, <3>2, <3>3, <1>5, <2>4 DEF b0
    <3>4. CASE j = k /\ b # b0
      BY Zenon, <3>1, <3>2, <3>4, <2>4 DEF b0, InTable
    <3>5. CASE j # k
      <4>1. table'[b][j] = table[b][j]
        BY Zenon, <3>5, <2>2, <2>4
      <4>2. QED
        BY Zenon, <3>1, <3>2, <3>5, <4>1, <1>2 DEF InTable
    <3>6. QED
      BY Zenon, <3>3, <3>4, <3>5
  <2>8. QED
    BY Zenon, <1>0, <2>5, <2>6, <2>7 DEF AssocIInv, AssocPlaced
<1>6. QED
  BY Zenon, <1>4, <1>5

\* Linking and unlinking change how often the key is in its chain, and no other.
LEMMA LinkedChain ==
  ASSUME NEW chain \in AssocChains, NEW k \in HashKey
  PROVE  /\ Linked(chain, k) \in AssocChains /\ Linked(chain, k)[k] = chain[k] + 1
         /\ \A j \in HashKey : j # k => Linked(chain, k)[j] = chain[j]
         /\ Unlinked(chain, k)[k] = chain[k] - 1
         /\ chain[k] > 0 => Unlinked(chain, k) \in AssocChains
         /\ \A j \in HashKey : j # k => Unlinked(chain, k)[j] = chain[j]
BY DEF Linked, Unlinked, AssocChains

\* The table is full: it becomes the old one.
LEMMA Expands ==
  ASSUME AssocIInv, NEW k \in HashKey, k \notin inserted, ~moving,
         inserted' = inserted \cup {k},
         oldTable' = [table EXCEPT ![Bucket(k, size)] = Linked(@, k)],
         table' = EmptyTable(2 * size), size' = 2 * size, moving' = TRUE, moved' = 0
  PROVE  AssocIInv'
<1> DEFINE b0 == Bucket(k, size)
<1>1. /\ size \in Nat \ {0} /\ 2 * size \in Nat \ {0} /\ OldSize' = size /\ b0 \in Buckets(size)
      /\ 0 \in Buckets(size)
  BY BucketInTable DEF AssocIInv, AssocTypes, Buckets, OldSize
<1>2. table \in [Buckets(size) -> AssocChains] /\ table[b0] \in AssocChains
  BY Zenon, <1>1 DEF AssocIInv, AssocTypes
<1>3. oldTable' = [table EXCEPT ![b0] = Linked(table[b0], k)]
  BY Zenon, <1>2
<1>4. Linked(table[b0], k) \in AssocChains
  BY Zenon, <1>2, LinkedChain
<1>5. \A j \in HashKey : Bucket(j, size) \in Nat /\ ~InOld(j) /\ InOld(j)'
  BY <1>1, BucketInTable DEF InOld, Bucket, Buckets
<1> HIDE DEF b0
<1>6. /\ oldTable' \in [Buckets(size) -> AssocChains] /\ oldTable'[b0] = Linked(table[b0], k)
      /\ \A b \in Buckets(size) : b # b0 => oldTable'[b] = table[b]
  BY Zenon, <1>1, <1>2, <1>3, <1>4
<1>7. AssocTypes'
  BY Zenon, <1>1, <1>6, EmptyPlaced DEF AssocIInv, AssocTypes
<1>8. ASSUME NEW j \in HashKey, NEW b \in Buckets(2 * size) PROVE table'[b][j] = InTable(j, b)'
  BY Zenon, <1>1, <1>5, EmptyPlaced DEF InTable
<1>9. ASSUME NEW j \in HashKey, NEW b \in Buckets(size) PROVE oldTable'[b][j] = InOldTable(j, b)'
  <2>1. table[b][j] = IF j \in inserted /\ b = Bucket(j, size) THEN 1 ELSE 0
    BY Zenon, <1>5 DEF AssocIInv, AssocPlaced, InTable
  <2>2. InOldTable(j, b)' = IF j \in inserted \cup {k} /\ b = Bucket(j, size) THEN 1 ELSE 0
    BY Zenon, <1>1, <1>5 DEF InOldTable, Bucket
  <2>3. CASE j = k /\ b = b0
    BY <2>1, <2>2, <2>3, <1>2, <1>6, LinkedChain DEF b0
  <2>4. CASE j = k /\ b # b0
    BY Zenon, <2>1, <2>2, <2>4, <1>6 DEF b0
  <2>5. CASE j # k
    <3>1. oldTable'[b][j] = table[b][j]
      BY <2>5, <1>2, <1>6, LinkedChain
    <3>2. QED
      BY Zenon, <2>1, <2>2, <2>5, <3>1
  <2>6. QED
    BY Zenon, <2>3, <2>4, <2>5
<1>10. AssocPlaced'
  BY Zenon, <1>1, <1>8, <1>9 DEF AssocPlaced
<1>11. QED
  BY Zenon, <1>7, <1>10 DEF AssocIInv

\* An insertion, with or without an expansion.
LEMMA AssocInserts ==
  ASSUME AssocIInv, NEW k \in HashKey, NEW expands, assoc_insert(k, expands)
  PROVE  AssocIInv'
<1>1. k \notin inserted /\ inserted' = inserted \cup {k}
  BY Zenon, FoundIfInserted DEF assoc_insert
<1>2. CASE ~moving /\ TooFull(Cardinality(inserted) + 1) /\ expands /\ size < MaxSize
  <2>1. /\ oldTable' = [table EXCEPT ![Bucket(k, size)] = Linked(@, k)]
        /\ table' = EmptyTable(2 * size) /\ size' = 2 * size /\ moving' = TRUE /\ moved' = 0
    BY Zenon, <1>2 DEF assoc_insert
  <2>2. QED
    BY Zenon, <1>1, <1>2, <2>1, Expands
<1>3. CASE ~(~moving /\ TooFull(Cardinality(inserted) + 1) /\ expands /\ size < MaxSize)
  <2>1. SetChain(k, Linked(Chain(k), k)) /\ UNCHANGED <<size, moving, moved>>
    BY Zenon, <1>3 DEF assoc_insert
  <2>2. PICK chain \in AssocChains :
          /\ chain = Linked(Chain(k), k) /\ chain[k] = 1
          /\ \A j \in HashKey : j # k => chain[j] = Chain(k)[j]
    BY <1>1, ChainHolds, LinkedChain
  <2>3. SetChain(k, chain)
    BY Zenon, <2>1, <2>2
  <2>4. QED
    BY Zenon, <1>1, <2>1, <2>2, <2>3, ChainChanges
<1>4. QED
  BY Zenon, <1>2, <1>3

\* A deletion.
LEMMA AssocDeletes ==
  ASSUME AssocIInv, NEW k \in HashKey, assoc_delete(k) PROVE AssocIInv'
<1>1. k \in inserted /\ inserted' = inserted \ {k}
  BY Zenon, FoundIfInserted DEF assoc_delete
<1>2. SetChain(k, Unlinked(Chain(k), k)) /\ UNCHANGED <<size, moving, moved>>
  BY Zenon DEF assoc_delete
<1>3. PICK chain \in AssocChains :
        /\ chain = Unlinked(Chain(k), k) /\ chain[k] = 0
        /\ \A j \in HashKey : j # k => chain[j] = Chain(k)[j]
  BY <1>1, ChainHolds, LinkedChain
<1>4. SetChain(k, chain)
  BY Zenon, <1>2, <1>3
<1>5. QED
  BY <1>1, <1>2, <1>3, <1>4, ChainChanges

\* One bucket of the old table is moved.
LEMMA AssocMoves == ASSUME AssocIInv, assoc_maintenance_thread PROVE AssocIInv'
<1>1. /\ moving /\ size \in Nat \ {0} /\ OldSize \in Nat \ {0} /\ moved \in Buckets(OldSize)
      /\ table \in [Buckets(size) -> AssocChains]
      /\ oldTable \in [Buckets(OldSize) -> AssocChains]
  BY Zenon DEF AssocIInv, AssocTypes, assoc_maintenance_thread, Expanding
<1>2. UNCHANGED <<size, inserted>> /\ table' = Move(oldTable[moved]) /\ OldSize' = OldSize
  BY Zenon DEF assoc_maintenance_thread, OldSize
<1>3. oldTable[moved] \in AssocChains
  BY Zenon, <1>1
<1>4. \A b \in Buckets(size), k \in HashKey :
        table'[b][k] = table[b][k] + IF Bucket(k, size) = b THEN oldTable[moved][k] ELSE 0
  BY Zenon, <1>2 DEF Move
<1>5. table' \in [Buckets(size) -> AssocChains]
  BY <1>1, <1>2, <1>3 DEF Move, AssocChains
<1>6. \A k \in HashKey : Bucket(k, OldSize) \in Buckets(OldSize)
  BY Zenon, <1>1, BucketInTable
<1>7. ASSUME NEW k \in HashKey PROVE InOld(k)' <=> InOld(k) /\ Bucket(k, OldSize) # moved
  <2>1. PICK n \in Nat : n = OldSize
    BY Zenon, <1>1
  <2>2. PICK b \in 0 .. n - 1 : b = Bucket(k, OldSize)
    BY Zenon, <1>6, <2>1 DEF Buckets
  <2>3. moved \in 0 .. n - 1
    BY Zenon, <1>1, <2>1 DEF Buckets
  <2>4. InOld(k) <=> b >= moved
    BY Zenon, <1>1, <2>2 DEF InOld
  <2>5. CASE LastBucket
    <3>1. moving' = FALSE /\ moved + 1 = n
      BY Zenon, <2>1, <2>5 DEF assoc_maintenance_thread, LastBucket
    <3>2. ~InOld(k)'
      BY Zenon, <3>1 DEF InOld
    <3>3. QED
      BY <3>1, <3>2, <2>2, <2>3, <2>4
  <2>6. CASE ~LastBucket
    <3>1. moving' = TRUE /\ moved' = moved + 1
      BY Zenon, <2>6, <1>1 DEF assoc_maintenance_thread
    <3>2. InOld(k)' <=> b >= moved + 1
      BY Zenon, <3>1, <2>2, <1>2 DEF InOld, Bucket
    <3>3. QED
      BY <3>2, <2>2, <2>3, <2>4
  <2>7. QED
    BY Zenon, <2>5, <2>6
<1>8. ASSUME NEW k \in HashKey, NEW b \in Buckets(size) PROVE table'[b][k] = InTable(k, b)'
  <2>1. table[b][k] = InTable(k, b) /\ oldTable[moved][k] = InOldTable(k, moved)
    BY Zenon, <1>1 DEF AssocIInv, AssocPlaced
  <2>2. InTable(k, b)' = IF /\ k \in inserted /\ ~(InOld(k) /\ Bucket(k, OldSize) # moved)
                            /\ b = Bucket(k, size) THEN 1 ELSE 0
    BY Zenon, <1>2, <1>7 DEF InTable, Bucket
  <2>3. Bucket(k, OldSize) = moved => InOld(k)
    <3>1. moved \in Nat
      BY Zenon DEF AssocIInv, AssocTypes
    <3>2. QED
      BY <1>1, <3>1 DEF InOld
  <2>4. QED
    BY <1>4, <2>1, <2>2, <2>3 DEF InTable, InOldTable
<1>9. AssocTypes' /\ (moving' => \A k \in HashKey, b \in Buckets(OldSize) :
                                   oldTable'[b][k] = InOldTable(k, b)')
  <2>1. CASE LastBucket
    <3>1. moving' = FALSE /\ oldTable' = NoTable /\ moved' = 0
      BY Zenon, <2>1 DEF assoc_maintenance_thread
    <3>2. AssocTypes'
      BY Zenon, <1>1, <1>2, <1>5, <3>1 DEF AssocIInv, AssocTypes
    <3>3. QED
      BY Zenon, <3>1, <3>2
  <2>2. CASE ~LastBucket
    <3>1. /\ moving' = TRUE /\ moved' = moved + 1
          /\ oldTable' = [oldTable EXCEPT ![moved] = EmptyChain]
      BY Zenon, <2>2, <1>1 DEF assoc_maintenance_thread
    <3>2. moved + 1 \in Buckets(OldSize) /\ moved + 1 \in Nat
      <4>1. PICK n \in Nat : n = OldSize
        BY Zenon, <1>1
      <4>2. moved \in 0 .. n - 1 /\ moved + 1 # n
        BY Zenon, <1>1, <2>2, <4>1 DEF Buckets, LastBucket
      <4>3. moved + 1 \in 0 .. n - 1
        BY <4>2
      <4>4. QED
        BY <4>1, <4>3 DEF Buckets
    <3>3. EmptyChain \in AssocChains /\ \A k \in HashKey : EmptyChain[k] = 0
      BY Zenon DEF EmptyChain, AssocChains
    <3>4. /\ oldTable' \in [Buckets(OldSize) -> AssocChains] /\ oldTable'[moved] = EmptyChain
          /\ \A b \in Buckets(OldSize) : b # moved => oldTable'[b] = oldTable[b]
      BY Zenon, <1>1, <3>1, <3>3
    <3>5. AssocTypes'
      BY Zenon, <1>1, <1>2, <1>5, <3>1, <3>2, <3>4 DEF AssocIInv, AssocTypes
    <3>6. ASSUME NEW k \in HashKey, NEW b \in Buckets(OldSize)
          PROVE  oldTable'[b][k] = InOldTable(k, b)'
      <4>1. oldTable[b][k] = InOldTable(k, b)
        BY Zenon, <1>1 DEF AssocIInv, AssocPlaced
      <4>2. InOldTable(k, b)' = IF /\ k \in inserted /\ InOld(k) /\ Bucket(k, OldSize) # moved
                                   /\ b = Bucket(k, OldSize) THEN 1 ELSE 0
        BY Zenon, <1>2, <1>7 DEF InOldTable, Bucket
      <4>3. CASE b = moved
        BY Zenon, <3>3, <3>4, <4>2, <4>3
      <4>4. CASE b # moved
        BY Zenon, <3>4, <4>1, <4>2, <4>4 DEF InOldTable
      <4>5. QED
        BY Zenon, <4>3, <4>4
    <3>7. QED
      BY Zenon, <3>5, <3>6
  <2>3. QED
    BY Zenon, <2>1, <2>2
<1>10. AssocPlaced'
  BY Zenon, <1>2, <1>8, <1>9 DEF AssocPlaced
<1>11. QED
  BY Zenon, <1>9, <1>10 DEF AssocIInv

\* Every step keeps the invariant.
LEMMA AssocStep == AssocIInv /\ [AssocNext]_AssocVars => AssocIInv'
<1> SUFFICES ASSUME AssocIInv, [AssocNext]_AssocVars PROVE AssocIInv'
  BY Zenon
<1>1. ASSUME NEW k \in HashKey, NEW expands \in BOOLEAN, assoc_insert(k, expands)
      PROVE  AssocIInv'
  BY Zenon, <1>1, AssocInserts
<1>2. ASSUME NEW k \in HashKey, assoc_delete(k) PROVE AssocIInv'
  BY Zenon, <1>2, AssocDeletes
<1>3. CASE assoc_maintenance_thread
  BY Zenon, <1>3, AssocMoves
<1>4. CASE UNCHANGED AssocVars
  BY Zenon, <1>4 DEF AssocVars, AssocIInv, AssocTypes, AssocPlaced, InTable, InOldTable, InOld,
              Bucket, OldSize
<1>5. QED
  BY Zenon, <1>1, <1>2, <1>3, <1>4 DEF AssocNext

\* However far an expansion has come, a key is found exactly if it is inserted, and
\* it is in one chain of one table, once (assoc_insert, assoc_maintenance_thread):
\* for any keys, hashes and sizes, and so any number of expansions.
THEOREM TableAlwaysComplete == AssocSpec => []TableComplete
<1>1. AssocInit => AssocIInv
  BY Zenon, AssocInitially
<1>2. AssocIInv /\ [AssocNext]_AssocVars => AssocIInv'
  BY Zenon, AssocStep
<1>3. AssocIInv => TableComplete
  BY Zenon, TableCompleteFollows
<1>4. QED
  BY <1>1, <1>2, <1>3, PTL DEF AssocSpec

=============================================================================
