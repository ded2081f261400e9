---------------------------- MODULE BucketsSteps ----------------------------
(***************************************************************************)
(* The inductive invariant of Buckets, which says what each thread that    *)
(* acts for a connection knows about the bucket it works on, lemmas on the *)
(* counting of clients, and the steps that keep the invariant: those that  *)
(* leave the table alone, that move a connection from a bucket to another  *)
(* one, that look at the table, and that create or destroy an engine.      *)
(***************************************************************************)
EXTENDS Buckets, FiniteSetTheorems, TLAPS

\* Bucket 0 is the "no bucket"; a free bucket has neither name nor engine.
TableInv ==
  /\ 0 \in Slot /\ state[0] = "Ready" /\ name[0] = NoName /\ engine[0] = "alive"
  /\ \A i \in Slot :
       /\ state[i] = "Ready" => engine[i] = "alive"
       /\ state[i] = "Initializing" => engine[i] = "alive"
       /\ state[i] = "None" => engine[i] = "none"

\* A connection is in the bucket whose engine it uses, and that bucket is ready
\* or is being deleted and waits for it.
AssocInv ==
  \A c \in Conn :
    /\ eng[c] # NoEngine => eng[c] = idx[c]
    /\ state[idx[c]] \in {"Ready", "Destroying"} /\ engine[idx[c]] = "alive"
    /\ pc[c] \in {"closed", "join"} => idx[c] = 0 /\ eng[c] = NoEngine
    /\ pc[c] = "join" => pos[c] \in 1 .. MaxBuckets

\* States in which the one that acts for a connection knows nothing of
\* a bucket.
Quiet == {"idle", "engine", "blocked", "pending", "sending", "ready", "respond",
          "closing", "auth", "leave"}

\* The thread that holds buckets_lock knows what it has seen so far.
Scanning(c) ==
  /\ pc[c] \in {"create", "delete", "createScan", "deleteScan"} =>
       target[c] \in Name
  /\ pc[c] \in Quiet \cup {"closed", "create", "delete"} =>
       pos[c] = 0 /\ slot[c] = -1
  /\ pc[c] \in {"createScan", "deleteScan"} =>
       bucketsLock = c /\ pos[c] \in 0 .. MaxBuckets
  /\ pc[c] = "createScan" =>
       /\ \A i \in Slot : i < pos[c] => name[i] # target[c]
       /\ slot[c] # -1 => state[slot[c]] = "None"

ScanInv == \A c \in Conn : Scanning(c)

\* A bucket thread works on a bucket of its own, whose state tells how far it
\* is; from the moment a deletion stops waiting nobody is in the bucket.
OwnerInv ==
  /\ \A c \in Conn :
       /\ OwnsBucket(c) => slot[c] \in Slot \ {0}
       /\ pc[c] = "newEngine" => state[slot[c]] = "Creating"
       /\ pc[c] = "initialize" => state[slot[c]] = "Initializing"
       /\ OwnsBucket(c) /\ pc[c] \notin {"newEngine", "initialize"} =>
            state[slot[c]] = "Destroying"
       /\ pc[c] \in {"complete", "destroy", "clear"} =>
            \A d \in Conn : idx[d] # slot[c]
  /\ \A c, d \in Conn :
       OwnsBucket(c) /\ OwnsBucket(d) /\ slot[c] = slot[d] => c = d

IInv ==
  /\ TypeOK /\ TableInv /\ AssocInv /\ ScanInv /\ OwnerInv
  /\ UniqueNames /\ ClientsCounted

\* A connection keeps what it has seen while its variables, the buckets and the
\* lock stay as they are.
LEMMA ScanKept ==
  ASSUME NEW d \in Conn, Scanning(d), pc'[d] = pc[d], target'[d] = target[d],
         pos'[d] = pos[d], slot'[d] = slot[d], bucketsLock' = bucketsLock,
         name' = name, state' = state
  PROVE  Scanning(d)'
BY Zenon DEF Scanning

-----------------------------------------------------------------------------
(* Counting clients.                                                       *)

\* The connections in a bucket are a finite set.
LEMMA AssociatedFinite ==
  ASSUME NEW i
  PROVE  /\ IsFiniteSet(Associated(i))
         /\ Cardinality(Associated(i)) \in Nat
         /\ Cardinality(Associated(i)) <= Cardinality(Conn)
         /\ Cardinality(Conn) \in Nat
BY Zenon, BucketsAssumption, FS_Subset, FS_CardinalityType DEF Associated

\* A connection of the "no bucket" enters bucket i.
LEMMA ClientEnters ==
  ASSUME TypeOK, ClientsCounted, NEW c \in Conn, NEW i \in Slot, idx[c] = 0,
         clients' = [clients EXCEPT ![i] = Plus(@)],
         idx' = [idx EXCEPT ![c] = i]
  PROVE  ClientsCounted'
<1> SUFFICES ASSUME NEW j \in Slot \ {0}
             PROVE  clients'[j] = Cardinality(Associated(j)')
  BY Zenon DEF ClientsCounted
<1>1. CASE j # i
  <2>1. Associated(j)' = Associated(j) BY Zenon, <1>1 DEF Associated, TypeOK
  <2> QED BY Zenon, <1>1, <2>1 DEF ClientsCounted, TypeOK
<1>2. CASE j = i
  <2>1. Associated(j)' = Associated(j) \cup {c} /\ c \notin Associated(j)
    BY <1>2 DEF Associated, TypeOK
  <2>2. Cardinality(Associated(j)') = Cardinality(Associated(j)) + 1
    BY ZenonT(60), <2>1, AssociatedFinite, FS_AddElement
  <2>3. IsFiniteSet(Associated(j)')
    BY <2>1, AssociatedFinite, FS_AddElement
  <2>4. Associated(j)' \subseteq Conn BY Zenon DEF Associated
  <2>5. Cardinality(Associated(j)') <= Cardinality(Conn)
    BY Zenon, <2>4, BucketsAssumption, FS_Subset
  <2>6. clients[j] = Cardinality(Associated(j)) BY Zenon DEF ClientsCounted
  <2>7. clients[j] + 1 < ClientsRange
    BY <2>2, <2>5, <2>6, AssociatedFinite, BucketsAssumption
  <2>8. clients'[j] = clients[j] + 1
    BY <1>2, <2>6, <2>7, AssociatedFinite, BucketsAssumption DEF Plus, TypeOK
  <2> QED BY Zenon, <2>2, <2>6, <2>8
<1> QED BY Zenon, <1>1, <1>2

\* A connection leaves its bucket.
LEMMA ClientLeaves ==
  ASSUME TypeOK, ClientsCounted, NEW c \in Conn, disassociate_bucket(c)
  PROVE  ClientsCounted'
<1> SUFFICES ASSUME NEW j \in Slot \ {0}
             PROVE  clients'[j] = Cardinality(Associated(j)')
  BY Zenon DEF ClientsCounted
<1>1. CASE j # idx[c]
  <2>1. Associated(j)' = Associated(j)
    BY Zenon, <1>1 DEF Associated, TypeOK, disassociate_bucket
  <2> QED BY Zenon, <1>1, <2>1 DEF ClientsCounted, TypeOK, disassociate_bucket
<1>2. CASE j = idx[c]
  <2>1. Associated(j)' = Associated(j) \ {c} /\ c \in Associated(j)
    BY Zenon, <1>2 DEF Associated, TypeOK, disassociate_bucket
  <2>2. Cardinality(Associated(j)') = Cardinality(Associated(j)) - 1
    <3>1. IsFiniteSet(Associated(j)) BY Zenon, AssociatedFinite
    <3>2. Cardinality(Associated(j) \ {c}) = Cardinality(Associated(j)) - 1
      BY Zenon, <2>1, <3>1, FS_RemoveElement
    <3> QED BY Zenon, <2>1, <3>2
  <2>3. Cardinality(Associated(j)) # 0
    BY Zenon, <2>1, AssociatedFinite, FS_EmptySet
  <2>4. clients[j] = Cardinality(Associated(j)) BY Zenon DEF ClientsCounted
  <2>5. clients'[j] = clients[j] - 1
    BY Zenon, <1>2, <2>3, <2>4 DEF Minus, TypeOK, disassociate_bucket
  <2> QED BY Zenon, <2>2, <2>4, <2>5
<1> QED BY Zenon, <1>1, <1>2

\* A bucket without clients is empty.
LEMMA NoClients ==
  ASSUME ClientsCounted, NEW i \in Slot \ {0}, clients[i] = 0
  PROVE  Associated(i) = {}
BY Zenon, AssociatedFinite, FS_EmptySet DEF ClientsCounted

-----------------------------------------------------------------------------
(* Steps that change neither a bucket nor where a connection is.           *)

\* A step of c that ends in such a state, and may release buckets_lock.
LEMMA QuietStep ==
  ASSUME IInv, TypeOK', NEW c \in Conn, NEW p \in Quiet,
         pc' = [pc EXCEPT ![c] = p],
         bucketsLock' = bucketsLock \/ bucketsLock = c,
         \A d \in Conn : d # c => /\ target'[d] = target[d]
                                  /\ pos'[d] = pos[d]
                                  /\ slot'[d] = slot[d],
         pos'[c] = 0, slot'[c] = -1,
         \A d \in Conn : eng'[d] = eng[d] \/ (d = c /\ eng'[d] = idx[d]),
         UNCHANGED <<bucketVars, idx>>
  PROVE  IInv'
<1>0. UNCHANGED state /\ UNCHANGED name /\ UNCHANGED clients /\ UNCHANGED engine
  BY Zenon DEF bucketVars
<1>1. pc'[c] \in Quiet /\ \A d \in Conn : d # c => pc'[d] = pc[d]
  BY Zenon DEF IInv, TypeOK
<1>2. TableInv' BY Zenon, <1>0 DEF IInv, TableInv
<1>3. AssocInv' BY <1>0, <1>1 DEF IInv, AssocInv, Quiet
<1>4. ScanInv' BY <1>0, <1>1 DEF IInv, ScanInv, Scanning, Quiet
<1>5. OwnerInv' BY <1>0, <1>1 DEF IInv, OwnerInv, OwnsBucket, Quiet
<1>6. UniqueNames' BY Zenon, <1>0 DEF IInv, UniqueNames
<1>7. ClientsCounted' BY Zenon, <1>0 DEF IInv, ClientsCounted, Associated
<1> QED BY Zenon, <1>2, <1>3, <1>4, <1>5, <1>6, <1>7 DEF IInv

\* A step of the deletion by c that ends in state p.
LEMMA DeletionStep ==
  ASSUME IInv, TypeOK', NEW c \in Conn, NEW p,
         pc' = [pc EXCEPT ![c] = p],
         pc[c] \in {"initiate", "wait", "notify", "timedwait", "complete"},
         p \in {"initiate", "wait", "notify", "timedwait", "complete", "destroy"},
         p \in {"complete", "destroy"} => \A d \in Conn : idx[d] # slot[c],
         \A d \in Conn : d # c => pos'[d] = pos[d],
         UNCHANGED <<bucketVars, bucketsLock, assocVars, target, slot>>
  PROVE  IInv'
<1>0. /\ UNCHANGED state /\ UNCHANGED name /\ UNCHANGED clients
      /\ UNCHANGED engine /\ UNCHANGED idx /\ UNCHANGED eng
  BY Zenon DEF bucketVars, assocVars
<1>1. pc'[c] = p /\ \A d \in Conn : d # c => pc'[d] = pc[d]
  BY Zenon DEF IInv, TypeOK
<1>2. TableInv' BY Zenon, <1>0 DEF IInv, TableInv
<1>3. AssocInv' BY <1>0, <1>1 DEF IInv, AssocInv
<1>4. ScanInv' BY <1>0, <1>1 DEF IInv, ScanInv, Scanning, Quiet
<1>5. OwnerInv' BY <1>0, <1>1 DEF IInv, OwnerInv, OwnsBucket
<1>6. UniqueNames' BY Zenon, <1>0 DEF IInv, UniqueNames
<1>7. ClientsCounted' BY Zenon, <1>0 DEF IInv, ClientsCounted, Associated
<1> QED BY Zenon, <1>2, <1>3, <1>4, <1>5, <1>6, <1>7 DEF IInv

\* thread_libevent_process only activates events: it keeps IInv.
LEMMA ProcessNotificationKeeps ==
  ASSUME IInv, NEW w \in Worker, ProcessNotification(w)
  PROVE  IInv'
<1> USE DEF ProcessNotification, bucketVars, assocVars, loopVars
<1>1. TypeOK' BY Zenon DEF IInv, TypeOK
<1>2. TableInv' BY Zenon DEF IInv, TableInv
<1>3. AssocInv' BY Zenon DEF IInv, AssocInv
<1>4. ScanInv' BY Zenon DEF IInv, ScanInv, Scanning
<1>5. OwnerInv' BY Zenon DEF IInv, OwnerInv, OwnsBucket
<1>6. UniqueNames' BY Zenon DEF IInv, UniqueNames
<1>7. ClientsCounted' BY Zenon DEF IInv, ClientsCounted, Associated
<1> QED BY Zenon, <1>1, <1>2, <1>3, <1>4, <1>5, <1>6, <1>7 DEF IInv

\* A client that hangs up keeps IInv.
LEMMA DisconnectKeeps ==
  ASSUME IInv, NEW c \in Conn, Disconnect(c)
  PROVE  IInv'
<1> USE
  DEF Disconnect, Goto, Take, Leave, Return, bucketVars, assocVars, loopVars
<1>1. PICK p \in Quiet : pc' = [pc EXCEPT ![c] = p] BY Zenon DEF Quiet, IInv, TypeOK
<1>2. TypeOK'
  <2>1. busy' \in [Worker -> Conn \cup {None}] BY Zenon, BucketsAssumption
    DEF IInv, TypeOK, workerVars
  <2>2. pc' \in [Conn -> ConnPC \cup AssocPC \cup CreatePC \cup DeletePC]
    BY Zenon, <1>1 DEF IInv, TypeOK, Quiet, ConnPC, AssocPC
  <2> QED BY Zenon, <2>1, <2>2 DEF IInv, TypeOK, workerVars
<1>3. pos'[c] = 0 /\ slot'[c] = -1 BY Zenon DEF IInv, TypeOK, ScanInv, Scanning, Quiet
<1> QED BY Zenon, <1>1, <1>2, <1>3, QuietStep DEF IInv, TypeOK

\* A fake event of signalIfIdle keeps IInv.
LEMMA WakeKeeps ==
  ASSUME IInv, NEW c \in Conn, Wake(c)
  PROVE  IInv'
<1> USE DEF Wake, Goto, Take, Leave, Return, bucketVars, assocVars, loopVars
<1>1. PICK p \in Quiet : pc' = [pc EXCEPT ![c] = p] BY Zenon DEF Quiet, IInv, TypeOK
<1>2. TypeOK'
  <2>1. busy' \in [Worker -> Conn \cup {None}] BY Zenon, BucketsAssumption
    DEF IInv, TypeOK, workerVars
  <2>2. pc' \in [Conn -> ConnPC \cup AssocPC \cup CreatePC \cup DeletePC]
    BY Zenon, <1>1 DEF IInv, TypeOK, Quiet, ConnPC, AssocPC
  <2> QED BY Zenon, <2>1, <2>2 DEF IInv, TypeOK, workerVars
<1>3. pos'[c] = 0 /\ slot'[c] = -1 BY Zenon DEF IInv, TypeOK, ScanInv, Scanning, Quiet
<1> QED BY Zenon, <1>1, <1>2, <1>3, QuietStep DEF IInv, TypeOK

\* The return of an engine call keeps IInv.
LEMMA EngineReturnsKeeps ==
  ASSUME IInv, NEW c \in Conn, EngineReturns(c)
  PROVE  IInv'
<1> USE
  DEF EngineReturns, Goto, Take, Leave, Return, bucketVars, assocVars, loopVars
<1>1. PICK p \in Quiet : pc' = [pc EXCEPT ![c] = p] BY Zenon DEF Quiet, IInv, TypeOK
<1>2. TypeOK'
  <2>1. busy' \in [Worker -> Conn \cup {None}] BY Zenon, BucketsAssumption
    DEF IInv, TypeOK, workerVars
  <2>2. pc' \in [Conn -> ConnPC \cup AssocPC \cup CreatePC \cup DeletePC]
    BY Zenon, <1>1 DEF IInv, TypeOK, Quiet, ConnPC, AssocPC
  <2> QED BY Zenon, <2>1, <2>2 DEF IInv, TypeOK, workerVars
<1>3. pos'[c] = 0 /\ slot'[c] = -1 BY Zenon DEF IInv, TypeOK, ScanInv, Scanning, Quiet
<1> QED BY Zenon, <1>1, <1>2, <1>3, QuietStep DEF IInv, TypeOK

\* notify_io_complete keeps IInv.
LEMMA IoCompleteKeeps ==
  ASSUME IInv, NEW c \in Conn, IoComplete(c)
  PROVE  IInv'
<1> USE
  DEF IoComplete, Goto, Take, Leave, Return, bucketVars, assocVars, loopVars
<1>1. PICK p \in Quiet : pc' = [pc EXCEPT ![c] = p] BY Zenon DEF Quiet, IInv, TypeOK
<1>2. TypeOK'
  <2>1. busy' \in [Worker -> Conn \cup {None}] BY Zenon, BucketsAssumption
    DEF IInv, TypeOK, workerVars
  <2>2. pc' \in [Conn -> ConnPC \cup AssocPC \cup CreatePC \cup DeletePC]
    BY Zenon, <1>1 DEF IInv, TypeOK, Quiet, ConnPC, AssocPC
  <2> QED BY Zenon, <2>1, <2>2 DEF IInv, TypeOK, workerVars
<1>3. pos'[c] = 0 /\ slot'[c] = -1 BY Zenon DEF IInv, TypeOK, ScanInv, Scanning, Quiet
<1> QED BY Zenon, <1>1, <1>2, <1>3, QuietStep DEF IInv, TypeOK

\* The retry of a blocked command keeps IInv.
LEMMA RunPendingKeeps ==
  ASSUME IInv, NEW c \in Conn, RunPending(c)
  PROVE  IInv'
<1> USE
  DEF RunPending, Goto, Take, Leave, Return, bucketVars, assocVars, loopVars
<1>1. PICK p \in Quiet : pc' = [pc EXCEPT ![c] = p] BY Zenon DEF Quiet, IInv, TypeOK
<1>2. TypeOK'
  <2>1. busy' \in [Worker -> Conn \cup {None}] BY Zenon, BucketsAssumption
    DEF IInv, TypeOK, workerVars
  <2>2. pc' \in [Conn -> ConnPC \cup AssocPC \cup CreatePC \cup DeletePC]
    BY Zenon, <1>1 DEF IInv, TypeOK, Quiet, ConnPC, AssocPC
  <2> QED BY Zenon, <2>1, <2>2 DEF IInv, TypeOK, workerVars
<1>3. pos'[c] = 0 /\ slot'[c] = -1 BY Zenon DEF IInv, TypeOK, ScanInv, Scanning, Quiet
<1> QED BY Zenon, <1>1, <1>2, <1>3, QuietStep DEF IInv, TypeOK

\* The end of a task or of a blocked send keeps IInv.
LEMMA ResumeKeeps ==
  ASSUME IInv, NEW c \in Conn, Resume(c)
  PROVE  IInv'
<1> USE DEF Resume, Goto, Take, Leave, Return, bucketVars, assocVars, loopVars
<1>1. PICK p \in Quiet : pc' = [pc EXCEPT ![c] = p] BY Zenon DEF Quiet, IInv, TypeOK
<1>2. TypeOK'
  <2>1. busy' \in [Worker -> Conn \cup {None}] BY Zenon, BucketsAssumption
    DEF IInv, TypeOK, workerVars
  <2>2. pc' \in [Conn -> ConnPC \cup AssocPC \cup CreatePC \cup DeletePC]
    BY Zenon, <1>1 DEF IInv, TypeOK, Quiet, ConnPC, AssocPC
  <2> QED BY Zenon, <2>1, <2>2 DEF IInv, TypeOK, workerVars
<1>3. pos'[c] = 0 /\ slot'[c] = -1 BY Zenon DEF IInv, TypeOK, ScanInv, Scanning, Quiet
<1> QED BY Zenon, <1>1, <1>2, <1>3, QuietStep DEF IInv, TypeOK

\* Sending the response keeps IInv.
LEMMA RespondKeeps ==
  ASSUME IInv, NEW c \in Conn, Respond(c)
  PROVE  IInv'
<1> USE DEF Respond, Goto, Take, Leave, Return, bucketVars, assocVars, loopVars
<1>1. PICK p \in Quiet : pc' = [pc EXCEPT ![c] = p] BY Zenon DEF Quiet, IInv, TypeOK
<1>2. TypeOK'
  <2>1. busy' \in [Worker -> Conn \cup {None}] BY Zenon, BucketsAssumption
    DEF IInv, TypeOK, workerVars
  <2>2. pc' \in [Conn -> ConnPC \cup AssocPC \cup CreatePC \cup DeletePC]
    BY Zenon, <1>1 DEF IInv, TypeOK, Quiet, ConnPC, AssocPC
  <2> QED BY Zenon, <2>1, <2>2 DEF IInv, TypeOK, workerVars
<1>3. pos'[c] = 0 /\ slot'[c] = -1 BY Zenon DEF IInv, TypeOK, ScanInv, Scanning, Quiet
<1> QED BY Zenon, <1>1, <1>2, <1>3, QuietStep DEF IInv, TypeOK

\* The SASL task keeps IInv.
LEMMA AuthenticateKeeps ==
  ASSUME IInv, NEW c \in Conn, Authenticate(c)
  PROVE  IInv'
<1> USE
  DEF Authenticate, Goto, Take, Leave, Return, bucketVars, assocVars, loopVars
<1>1. PICK p \in Quiet : pc' = [pc EXCEPT ![c] = p] BY Zenon DEF Quiet, IInv, TypeOK
<1>2. TypeOK'
  <2>1. busy' \in [Worker -> Conn \cup {None}] BY Zenon, BucketsAssumption
    DEF IInv, TypeOK, workerVars
  <2>2. pc' \in [Conn -> ConnPC \cup AssocPC \cup CreatePC \cup DeletePC]
    BY Zenon, <1>1 DEF IInv, TypeOK, Quiet, ConnPC, AssocPC
  <2> QED BY <2>1, <2>2 DEF IInv, TypeOK, workerVars
<1>3. pos'[c] = 0 /\ slot'[c] = -1 BY Zenon DEF IInv, TypeOK, ScanInv, Scanning, Quiet
<1> QED BY Zenon, <1>1, <1>2, <1>3, QuietStep DEF IInv, TypeOK

\* A creation that is refused keeps IInv.
LEMMA CreateRefusedKeeps ==
  ASSUME IInv, NEW c \in Conn, CreateRefused(c)
  PROVE  IInv'
<1> USE DEF CreateRefused, Goto, Return, bucketVars, assocVars
<1>1. "ready" \in Quiet BY Zenon DEF Quiet
<1>2. TypeOK'
  <2>1. pc' \in [Conn -> ConnPC \cup AssocPC \cup CreatePC \cup DeletePC]
    BY Zenon DEF IInv, TypeOK, ConnPC
  <2> QED BY Zenon, <2>1 DEF IInv, TypeOK, workerVars
<1>3. bucketsLock = c BY Zenon DEF IInv, ScanInv, Scanning
<1> QED BY <1>1, <1>2, <1>3, QuietStep DEF IInv, TypeOK

\* A deletion that is refused keeps IInv.
LEMMA DeleteRefusedKeeps ==
  ASSUME IInv, NEW c \in Conn, DeleteRefused(c)
  PROVE  IInv'
<1> USE DEF DeleteRefused, Goto, Return, bucketVars, assocVars
<1>1. "ready" \in Quiet BY Zenon DEF Quiet
<1>2. TypeOK'
  <2>1. pc' \in [Conn -> ConnPC \cup AssocPC \cup CreatePC \cup DeletePC]
    BY Zenon DEF IInv, TypeOK, ConnPC
  <2> QED BY Zenon, <2>1 DEF IInv, TypeOK, workerVars
<1>3. bucketsLock = c BY Zenon DEF IInv, ScanInv, Scanning
<1> QED BY <1>1, <1>2, <1>3, QuietStep DEF IInv, TypeOK

\* threads_initiate_bucket_deletion, worker by worker, keeps IInv.
LEMMA DeleteInitiateKeeps ==
  ASSUME IInv, NEW c \in Conn, DeleteInitiate(c)
  PROVE  IInv'
<1> USE DEF DeleteInitiate, Goto, ForWorker
<1>1. PICK p \in {"initiate", "wait", "complete", "destroy"} :
        /\ pc' = [pc EXCEPT ![c] = p]
        /\ p \in {"complete", "destroy"} => pc[c] = "complete"
  BY Zenon DEF IInv, TypeOK
<1>2. pc[c] = "complete" => \A d \in Conn : idx[d] # slot[c]
  BY Zenon DEF IInv, OwnerInv
<1>3. TypeOK'
  <2>1. pc' \in [Conn -> ConnPC \cup AssocPC \cup CreatePC \cup DeletePC]
    BY DEF IInv, TypeOK, DeletePC
  <2>2. pos' \in [Conn -> Nat] BY DEF IInv, TypeOK
  <2>3. deleting' \in [Worker -> Int]
    <3>1. deleting \in [Worker -> Int] BY Zenon DEF IInv, TypeOK
    <3>2. \A w \in Worker : deleting[w] + 1 \in Int /\ deleting[w] - 1 \in Int BY <3>1
    <3>3. deleting' = [w \in Worker |-> IF w = pos[c] THEN deleting[w] + 1 ELSE deleting[w]]
      BY Zenon, <3>1 DEF OneDeletionLess
    <3> QED BY Zenon, <3>1, <3>2, <3>3
  <2> QED BY Zenon, <2>1, <2>2, <2>3 DEF IInv, TypeOK, bucketVars, assocVars
<1> QED BY Zenon, <1>1, <1>2, <1>3, DeletionStep DEF IInv, TypeOK

\* The test of the number of clients keeps IInv.
LEMMA DeleteWaitKeeps ==
  ASSUME IInv, NEW c \in Conn, DeleteWait(c)
  PROVE  IInv'
<1> USE DEF DeleteWait, Goto, loopVars
<1>1. PICK p \in {"wait", "notify", "timedwait", "complete"} :
        /\ pc' = [pc EXCEPT ![c] = p]
        /\ p = "complete" => clients[slot[c]] = 0
  BY Zenon DEF Unused
<1>2. clients[slot[c]] = 0 => \A d \in Conn : idx[d] # slot[c]
  BY Zenon, NoClients DEF IInv, OwnerInv, OwnsBucket, Associated
<1>3. TypeOK'
  <2>1. pc' \in [Conn -> ConnPC \cup AssocPC \cup CreatePC \cup DeletePC]
    BY Zenon DEF IInv, TypeOK, DeletePC
  <2> QED BY Zenon, <2>1 DEF IInv, TypeOK, bucketVars, assocVars, loopVars, workerVars
<1> QED BY Zenon, <1>1, <1>2, <1>3, DeletionStep DEF IInv, TypeOK

\* threads_notify_bucket_deletion keeps IInv.
LEMMA DeleteNotifyKeeps ==
  ASSUME IInv, NEW c \in Conn, DeleteNotify(c)
  PROVE  IInv'
<1> USE DEF DeleteNotify, Goto, loopVars
<1>1. TypeOK'
  <2>1. pc' \in [Conn -> ConnPC \cup AssocPC \cup CreatePC \cup DeletePC]
    BY Zenon DEF IInv, TypeOK, DeletePC
  <2> QED BY Zenon, <2>1 DEF IInv, TypeOK, bucketVars, assocVars, loopVars, workerVars
<1> QED BY Zenon, <1>1, DeletionStep

\* The timed wait for clients to leave keeps IInv.
LEMMA TimedwaitKeeps ==
  ASSUME IInv, NEW c \in Conn, Timedwait(c)
  PROVE  IInv'
<1> USE DEF Timedwait, Goto, loopVars
<1>1. TypeOK'
  <2>1. pc' \in [Conn -> ConnPC \cup AssocPC \cup CreatePC \cup DeletePC]
    BY Zenon DEF IInv, TypeOK, DeletePC
  <2> QED BY Zenon, <2>1 DEF IInv, TypeOK, bucketVars, assocVars, loopVars, workerVars
<1> QED BY Zenon, <1>1, DeletionStep

\* threads_complete_bucket_deletion, worker by worker, keeps IInv.
LEMMA DeleteCompleteKeeps ==
  ASSUME IInv, NEW c \in Conn, DeleteComplete(c)
  PROVE  IInv'
<1> USE DEF DeleteComplete, Goto, ForWorker
<1>1. PICK p \in {"initiate", "wait", "complete", "destroy"} :
        /\ pc' = [pc EXCEPT ![c] = p]
        /\ p \in {"complete", "destroy"} => pc[c] = "complete"
  BY Zenon DEF IInv, TypeOK
<1>2. pc[c] = "complete" => \A d \in Conn : idx[d] # slot[c]
  BY Zenon DEF IInv, OwnerInv
<1>3. TypeOK'
  <2>1. pc' \in [Conn -> ConnPC \cup AssocPC \cup CreatePC \cup DeletePC]
    BY DEF IInv, TypeOK, DeletePC
  <2>2. pos' \in [Conn -> Nat] BY DEF IInv, TypeOK
  <2>3. deleting' \in [Worker -> Int]
    <3>1. deleting \in [Worker -> Int] BY Zenon DEF IInv, TypeOK
    <3>2. \A w \in Worker : deleting[w] + 1 \in Int /\ deleting[w] - 1 \in Int BY <3>1
    <3>3. deleting' = [w \in Worker |-> IF w = pos[c] THEN deleting[w] - 1 ELSE deleting[w]]
      BY Zenon, <3>1 DEF OneDeletionLess
    <3> QED BY Zenon, <3>1, <3>2, <3>3
  <2> QED BY Zenon, <2>1, <2>2, <2>3 DEF IInv, TypeOK, bucketVars, assocVars
<1> QED BY <1>1, <1>2, <1>3, DeletionStep DEF IInv, TypeOK

-----------------------------------------------------------------------------
(* Steps that move a connection from a bucket to another one.              *)

\* disassociate_bucket in associate_bucket keeps IInv.
LEMMA AssocLeaveKeeps ==
  ASSUME IInv, NEW c \in Conn, AssocLeave(c)
  PROVE  IInv'
<1> USE DEF AssocLeave, Goto
<1>0. /\ clients' = [clients EXCEPT ![idx[c]] = Minus(@)]
      /\ idx' = [idx EXCEPT ![c] = 0] /\ eng' = [eng EXCEPT ![c] = NoEngine]
  BY Zenon DEF disassociate_bucket
<1>1. TypeOK'
  <2>1. clients' \in [Slot -> 0 .. ClientsRange - 1]
    BY SMTT(60), <1>0, BucketsAssumption DEF IInv, TypeOK, Plus, Minus
  <2>2. idx' \in [Conn -> Slot]
    BY Zenon, <1>0 DEF IInv, TypeOK, TableInv
  <2>3. eng' \in [Conn -> Slot \cup {NoEngine}]
    BY Zenon, <1>0 DEF IInv, TypeOK
  <2>4. pc' \in [Conn -> ConnPC \cup AssocPC \cup CreatePC \cup DeletePC]
    BY Zenon DEF IInv, TypeOK, ConnPC, AssocPC, CreatePC, DeletePC
  <2>5. pos' \in [Conn -> Nat]
    BY Zenon DEF IInv, TypeOK
  <2> QED BY Zenon, <2>1, <2>2, <2>3, <2>4, <2>5
    DEF IInv, TypeOK, bucketVars, assocVars, loopVars, workerVars
<1>2. TableInv' BY Zenon DEF IInv, TableInv
<1>3. AssocInv' BY SMTT(60), <1>0, BucketsAssumption
  DEF IInv, TypeOK, TableInv, AssocInv, Slot, NoEngine
<1>4. ScanInv' BY <1>0, BucketsAssumption
  DEF IInv, TypeOK, ScanInv, Scanning, Quiet
<1>5. OwnerInv' 
  <2>1. ~OwnsBucket(c)'
        /\ \A d \in Conn : d # c => pc'[d] = pc[d] /\ slot'[d] = slot[d]
    BY Zenon DEF IInv, TypeOK, OwnsBucket
  <2>2. \A d \in Conn : idx'[d] = idx[d] \/ idx'[d] = 0
    BY Zenon, <1>0 DEF IInv, TypeOK
  <2> QED BY SMTT(60), <2>1, <2>2, <1>0 DEF IInv, OwnerInv, OwnsBucket
<1>6. UniqueNames' BY Zenon, <1>0 DEF IInv, UniqueNames
<1>7. ClientsCounted' BY Zenon, ClientLeaves DEF IInv
<1> QED BY Zenon, <1>1, <1>2, <1>3, <1>4, <1>5, <1>6, <1>7 DEF IInv

\* Closing a connection keeps IInv.
LEMMA CloseKeeps ==
  ASSUME IInv, NEW c \in Conn, Close(c)
  PROVE  IInv'
<1> USE DEF Close, Goto, Leave, loopVars
<1>0. /\ clients' = [clients EXCEPT ![idx[c]] = Minus(@)]
      /\ idx' = [idx EXCEPT ![c] = 0] /\ eng' = [eng EXCEPT ![c] = NoEngine]
  BY Zenon DEF disassociate_bucket
<1>1. TypeOK'
  <2>1. clients' \in [Slot -> 0 .. ClientsRange - 1]
    BY SMTT(60), <1>0, BucketsAssumption DEF IInv, TypeOK, Plus, Minus
  <2>2. idx' \in [Conn -> Slot]
    BY Zenon, <1>0 DEF IInv, TypeOK, TableInv
  <2>3. eng' \in [Conn -> Slot \cup {NoEngine}]
    BY Zenon, <1>0 DEF IInv, TypeOK
  <2>4. pc' \in [Conn -> ConnPC \cup AssocPC \cup CreatePC \cup DeletePC]
    BY Zenon DEF IInv, TypeOK, ConnPC, AssocPC, CreatePC, DeletePC
  <2>5. busy' \in [Worker -> Conn \cup {None}]
    BY Zenon, BucketsAssumption DEF IInv, TypeOK
  <2> QED BY Zenon, <2>1, <2>2, <2>3, <2>4, <2>5
    DEF IInv, TypeOK, bucketVars, assocVars, loopVars, workerVars
<1>2. TableInv' BY Zenon DEF IInv, TableInv
<1>3. AssocInv' BY SMTT(60), <1>0, BucketsAssumption
  DEF IInv, TypeOK, TableInv, AssocInv, Slot, NoEngine
<1>4. ScanInv' BY <1>0, BucketsAssumption
  DEF IInv, TypeOK, ScanInv, Scanning, Quiet
<1>5. OwnerInv' BY SMTT(60), <1>0, BucketsAssumption
  DEF IInv, TypeOK, OwnerInv, OwnsBucket, Slot
<1>6. UniqueNames' BY Zenon, <1>0 DEF IInv, UniqueNames
<1>7. ClientsCounted' BY Zenon, ClientLeaves DEF IInv
<1> QED BY Zenon, <1>1, <1>2, <1>3, <1>4, <1>5, <1>6, <1>7 DEF IInv

\* The step that ends associate_bucket: c enters a bucket that is ready.
LEMMA JoinKeeps ==
  ASSUME IInv, NEW c \in Conn, pc[c] = "join", NEW i \in Slot,
         state[i] = "Ready", Join(c, i)
  PROVE  IInv'
<1> USE DEF Join, Return, Goto
<1>0. idx[c] = 0 BY Zenon DEF IInv, AssocInv
<1>1. TypeOK'
  <2>1. clients' \in [Slot -> 0 .. ClientsRange - 1]
    BY SMTT(60), <1>0, BucketsAssumption DEF IInv, TypeOK, Plus, Minus
  <2>2. idx' \in [Conn -> Slot]
    BY Zenon, <1>0 DEF IInv, TypeOK
  <2>3. eng' \in [Conn -> Slot \cup {NoEngine}]
    BY Zenon, <1>0 DEF IInv, TypeOK
  <2>4. pc' \in [Conn -> ConnPC \cup AssocPC \cup CreatePC \cup DeletePC]
    BY Zenon DEF IInv, TypeOK, ConnPC, AssocPC, CreatePC, DeletePC
  <2>5. target' \in [Conn -> Name \cup {NoName}]
    BY Zenon, BucketsAssumption DEF IInv, TypeOK
  <2>6. pos' \in [Conn -> Nat]
    BY Zenon DEF IInv, TypeOK
  <2>7. slot' \in [Conn -> Slot \cup {-1}]
    BY Zenon DEF IInv, TypeOK
  <2> QED BY Zenon, <2>1, <2>2, <2>3, <2>4, <2>5, <2>6, <2>7
    DEF IInv, TypeOK, bucketVars, assocVars, loopVars, workerVars
<1>2. TableInv' BY Zenon DEF IInv, TableInv
<1>3. AssocInv' BY SMTT(60), <1>0, BucketsAssumption
  DEF IInv, TypeOK, TableInv, AssocInv, Slot, NoEngine
<1>4. ScanInv' BY SMTT(60), <1>0, BucketsAssumption
  DEF IInv, TypeOK, ScanInv, Scanning, Quiet
<1>5. OwnerInv' 
  <2>1. ~OwnsBucket(c)'
        /\ \A d \in Conn : d # c => pc'[d] = pc[d] /\ slot'[d] = slot[d]
    BY Zenon DEF IInv, TypeOK, OwnsBucket
  <2>2. \A d \in Conn : idx'[d] = idx[d] \/ idx'[d] = i
    BY Zenon, <1>0 DEF IInv, TypeOK
  <2> QED BY SMTT(60), <2>1, <2>2, <1>0 DEF IInv, OwnerInv, OwnsBucket
<1>6. UniqueNames' BY Zenon, <1>0 DEF IInv, UniqueNames
<1>7. ClientsCounted' BY Zenon, <1>0, ClientEnters DEF IInv
<1> QED BY Zenon, <1>1, <1>2, <1>3, <1>4, <1>5, <1>6, <1>7 DEF IInv

\* Entering the bucket that was looked for keeps IInv.
LEMMA AssocJoinKeeps ==
  ASSUME IInv, NEW c \in Conn, AssocJoin(c)
  PROVE  IInv'
<1>1. pos[c] \in Slot BY SMTT(60), BucketsAssumption
  DEF IInv, TypeOK, AssocInv, AssocJoin, Slot
<1> QED BY Zenon, <1>1, JoinKeeps DEF AssocJoin, Accepts

\* Falling back to the "no bucket" keeps IInv.
LEMMA AssocNoBucketKeeps ==
  ASSUME IInv, NEW c \in Conn, AssocNoBucket(c)
  PROVE  IInv'
BY Zenon, JoinKeeps DEF AssocNoBucket, IInv, TableInv

\* A bucket that associate_bucket skips keeps IInv.
LEMMA AssocSkipKeeps ==
  ASSUME IInv, NEW c \in Conn, AssocSkip(c)
  PROVE  IInv'
<1> USE DEF AssocSkip, bucketVars, assocVars
<1>0. UNCHANGED state /\ UNCHANGED idx BY Zenon DEF bucketVars, assocVars
<1>1. TypeOK'
  <2>1. pos' \in [Conn -> Nat]
    BY DEF IInv, TypeOK
  <2> QED BY Zenon, <2>1 DEF IInv, TypeOK, bucketVars, assocVars, loopVars, workerVars
<1>2. TableInv' BY Zenon, <1>0 DEF IInv, TypeOK, TableInv
<1>3. AssocInv' BY SMTT(60), <1>0, BucketsAssumption
  DEF IInv, TypeOK, TableInv, AssocInv, Slot, NoEngine
<1>4. ScanInv' BY <1>0, BucketsAssumption
  DEF IInv, TypeOK, ScanInv, Scanning, Quiet
<1>5. OwnerInv'
  <2>1. UNCHANGED <<pc, slot>> BY Zenon DEF loopVars, workerVars
  <2>2. OwnerInv BY Zenon DEF IInv
  <2> HIDE DEF AssocSkip, bucketVars, assocVars
  <2> QED BY <1>0, <2>1, <2>2 DEF OwnerInv, OwnsBucket
<1>6. UniqueNames' BY Zenon, <1>0 DEF IInv, UniqueNames
<1>7. ClientsCounted' BY Zenon, <1>0 DEF IInv, ClientsCounted, Associated
<1> QED BY Zenon, <1>1, <1>2, <1>3, <1>4, <1>5, <1>6, <1>7 DEF IInv

\* A new connection keeps IInv.
LEMMA AcceptKeeps ==
  ASSUME IInv, NEW c \in Conn, Accept(c)
  PROVE  IInv'
<1> USE DEF Accept, Goto, Take
<1>0. idx' = idx /\ idx[c] = 0 /\ 0 \in Slot BY SMTT(60)
  DEF IInv, TypeOK, TableInv, AssocInv
<1>1. TypeOK'
  <2>1. clients' \in [Slot -> 0 .. ClientsRange - 1]
    BY <1>0, BucketsAssumption DEF IInv, TypeOK, Plus, Minus
  <2>2. eng' \in [Conn -> Slot \cup {NoEngine}]
    BY Zenon, <1>0 DEF IInv, TypeOK
  <2>3. pc' \in [Conn -> ConnPC \cup AssocPC \cup CreatePC \cup DeletePC]
    BY Zenon DEF IInv, TypeOK, ConnPC, AssocPC, CreatePC, DeletePC
  <2>4. target' \in [Conn -> Name \cup {NoName}]
    BY Zenon, BucketsAssumption DEF IInv, TypeOK
  <2>5. busy' \in [Worker -> Conn \cup {None}]
    BY Zenon, BucketsAssumption DEF IInv, TypeOK
  <2> QED BY SMTT(60), <2>1, <2>2, <2>3, <2>4, <2>5
    DEF IInv, TypeOK, bucketVars, assocVars, loopVars, workerVars
<1>2. TableInv' BY Zenon, <1>0 DEF IInv, TypeOK, TableInv
<1>3. AssocInv' BY SMTT(60), <1>0, BucketsAssumption
  DEF IInv, TypeOK, TableInv, AssocInv, Slot, NoEngine
<1>4. ScanInv' BY SMTT(60), <1>0, BucketsAssumption
  DEF IInv, TypeOK, ScanInv, Scanning, Quiet
<1>5. OwnerInv' BY SMTT(60), <1>0, BucketsAssumption
  DEF IInv, TypeOK, OwnerInv, OwnsBucket, Slot
<1>6. UniqueNames' BY Zenon, <1>0 DEF IInv, UniqueNames
<1>7. ClientsCounted' BY <1>0 DEF IInv, TypeOK, ClientsCounted, Associated
<1> QED BY Zenon, <1>1, <1>2, <1>3, <1>4, <1>5, <1>6, <1>7 DEF IInv

\* A new command keeps IInv.
LEMMA RequestKeeps ==
  ASSUME IInv, NEW c \in Conn, NEW n \in Name,
         NEW p \in {"engine", "leave", "auth", "create", "delete"}, Request(c, p, n)
  PROVE  IInv'
<1> USE DEF Request, Goto, Take, bucketVars
<1>0. pos'[c] = 0 /\ slot'[c] = -1 BY Zenon DEF IInv, TypeOK, ScanInv, Scanning, Quiet
<1>1. TypeOK'
  <2>1. pc' \in [Conn -> ConnPC \cup AssocPC \cup CreatePC \cup DeletePC]
    BY Zenon DEF IInv, TypeOK, ConnPC, AssocPC, CreatePC, DeletePC
  <2>2. eng' \in [Conn -> Slot \cup {NoEngine}] BY Zenon DEF IInv, TypeOK
  <2>3. target' \in [Conn -> Name \cup {NoName}] BY Zenon DEF IInv, TypeOK
  <2>4. busy' \in [Worker -> Conn \cup {None}] BY Zenon DEF IInv, TypeOK
  <2> QED BY Zenon, <2>1, <2>2, <2>3, <2>4 DEF IInv, TypeOK
<1>2. \A d \in Conn : eng'[d] = eng[d] \/ (d = c /\ eng'[d] = idx[d])
  BY Zenon DEF IInv, TypeOK
<1>3. CASE p \in Quiet BY Zenon, <1>0, <1>1, <1>2, <1>3, QuietStep DEF IInv, TypeOK
<1>4. CASE p \in {"create", "delete"}
  <2>1. pc'[c] = p /\ target'[c] = n
        /\ \A d \in Conn : d # c => pc'[d] = pc[d] /\ target'[d] = target[d]
    BY Zenon, <1>4 DEF IInv, TypeOK
  <2>2. TableInv' BY Zenon DEF IInv, TableInv
  <2>3. AssocInv' BY SMTT(60), <1>2, <1>4, <2>1 DEF IInv, AssocInv
  <2>4. ScanInv'
    <3>1. /\ bucketsLock' = bucketsLock /\ name' = name /\ state' = state
          /\ pos' = pos /\ slot' = slot
      BY Zenon
    <3>2. \A d \in Conn : Scanning(d) BY Zenon DEF IInv, ScanInv
    <3> HIDE DEF Request, Goto, Take
    <3>3. Scanning(c)' BY Zenon, <1>0, <1>4, <2>1 DEF Scanning
    <3>4. \A d \in Conn : d # c => Scanning(d)' BY Zenon, <2>1, <3>1, <3>2, ScanKept
    <3> QED BY Zenon, <3>3, <3>4 DEF ScanInv
  <2>5. OwnerInv'
    <3>1. state' = state /\ idx' = idx /\ slot' = slot BY Zenon
    <3>2. OwnerInv BY Zenon DEF IInv
    <3> HIDE DEF Request, Goto, Take, bucketVars
    <3> QED BY <1>4, <2>1, <3>1, <3>2 DEF OwnerInv, OwnsBucket
  <2>6. UniqueNames' BY Zenon DEF IInv, UniqueNames
  <2>7. ClientsCounted' BY Zenon DEF IInv, ClientsCounted, Associated
  <2> QED BY Zenon, <1>1, <2>2, <2>3, <2>4, <2>5, <2>6, <2>7 DEF IInv
<1> QED BY Zenon, <1>3, <1>4 DEF Quiet

-----------------------------------------------------------------------------
(* Steps of the bucket threads that look at the buckets or change them.    *)

\* Taking buckets_lock keeps IInv.
LEMMA LockBucketsKeeps ==
  ASSUME IInv, NEW c \in Conn, LockBuckets(c)
  PROVE  IInv'
<1> USE DEF LockBuckets, Goto, bucketVars, assocVars, loopVars
<1>0. /\ UNCHANGED idx /\ UNCHANGED eng /\ UNCHANGED clients
      /\ \A d \in Conn : d # c => /\ pc'[d] = pc[d] /\ target'[d] = target[d]
                               /\ pos'[d] = pos[d] /\ slot'[d] = slot[d]
      /\ pc'[c] \in {"createScan", "deleteScan"}
  BY Zenon DEF IInv, TypeOK, assocVars, bucketVars, loopVars
<1>1. TypeOK'
  <2>1. bucketsLock' \in Conn \cup {None}
    BY Zenon DEF IInv, TypeOK
  <2>2. pc' \in [Conn -> ConnPC \cup AssocPC \cup CreatePC \cup DeletePC]
    BY Zenon DEF IInv, TypeOK, ConnPC, AssocPC, CreatePC, DeletePC
  <2> QED BY Zenon, <2>1, <2>2
    DEF IInv, TypeOK, bucketVars, assocVars, loopVars, workerVars
<1>2. TableInv' BY Zenon, <1>0 DEF IInv, TypeOK, TableInv
<1>3. AssocInv' BY SMTT(60), <1>0, BucketsAssumption
  DEF IInv, TypeOK, TableInv, AssocInv, Slot, NoEngine
<1>4. ScanInv' 
  <2>1. \A d \in Conn : d # c => Scanning(d)'
    BY SMTT(60), <1>0, BucketsAssumption DEF IInv, ScanInv, Scanning
  <2>2. Scanning(c)'
    BY SMTT(60), <1>0, BucketsAssumption DEF IInv, TypeOK, ScanInv, Scanning, Slot, Quiet
  <2> QED BY Zenon, <2>1, <2>2 DEF ScanInv
<1>5. OwnerInv' BY SMTT(60), <1>0, BucketsAssumption
  DEF IInv, TypeOK, OwnerInv, OwnsBucket, Slot
<1>6. UniqueNames' BY Zenon, <1>0 DEF IInv, UniqueNames
<1>7. ClientsCounted' BY <1>0 DEF IInv, ClientsCounted, Associated
<1> QED BY Zenon, <1>1, <1>2, <1>3, <1>4, <1>5, <1>6, <1>7 DEF IInv

\* A bucket that the creation looks at keeps IInv.
LEMMA CreateScanKeeps ==
  ASSUME IInv, NEW c \in Conn, CreateScan(c)
  PROVE  IInv'
<1> USE DEF CreateScan, Taken, bucketVars, assocVars
<1>0. /\ UNCHANGED idx /\ UNCHANGED eng /\ UNCHANGED clients
      /\ \A d \in Conn : d # c => /\ pc'[d] = pc[d] /\ target'[d] = target[d]
                               /\ pos'[d] = pos[d] /\ slot'[d] = slot[d]
      /\ UNCHANGED pc
  BY Zenon DEF IInv, TypeOK, assocVars, bucketVars, loopVars
<1>1. TypeOK'
  <2>1. slot' \in [Conn -> Slot \cup {-1}]
    BY SMTT(60), BucketsAssumption DEF IInv, TypeOK, ScanInv, Scanning, Slot
  <2>2. pos' \in [Conn -> Nat]
    BY DEF IInv, TypeOK
  <2> QED BY Zenon, <2>1, <2>2
    DEF IInv, TypeOK, bucketVars, assocVars, loopVars, workerVars
<1>2. TableInv' BY Zenon, <1>0 DEF IInv, TypeOK, TableInv
<1>3. AssocInv' BY SMTT(60), <1>0, BucketsAssumption
  DEF IInv, TypeOK, TableInv, AssocInv, Slot, NoEngine
<1>4. ScanInv' 
  <2>1. \A d \in Conn : d # c => Scanning(d)'
    <3>1. bucketsLock' = bucketsLock /\ name' = name /\ state' = state
      BY Zenon
    <3>2. \A d \in Conn : Scanning(d) BY Zenon DEF IInv, ScanInv
    <3> QED BY Zenon, <1>0, <3>1, <3>2, ScanKept
  <2>2. Scanning(c)'
    BY SMTT(60), <1>0, BucketsAssumption DEF IInv, TypeOK, ScanInv, Scanning, Slot, Quiet
  <2> QED BY Zenon, <2>1, <2>2 DEF ScanInv
<1>5. OwnerInv' 
  <2>1. ~OwnsBucket(c) /\ ~OwnsBucket(c)' BY Zenon, <1>0 DEF OwnsBucket
  <2> QED BY SMTT(60), <1>0, <2>1 DEF IInv, OwnerInv, OwnsBucket
<1>6. UniqueNames' BY Zenon, <1>0 DEF IInv, UniqueNames
<1>7. ClientsCounted' BY SMTT(60), <1>0 DEF IInv, ClientsCounted, Associated
<1> QED BY Zenon, <1>1, <1>2, <1>3, <1>4, <1>5, <1>6, <1>7 DEF IInv

\* A bucket that the deletion looks at keeps IInv.
LEMMA DeleteScanKeeps ==
  ASSUME IInv, NEW c \in Conn, DeleteScan(c)
  PROVE  IInv'
<1> USE DEF DeleteScan, bucketVars, assocVars
<1>0. /\ UNCHANGED idx /\ UNCHANGED eng /\ UNCHANGED clients
      /\ \A d \in Conn : d # c => /\ pc'[d] = pc[d] /\ target'[d] = target[d]
                               /\ pos'[d] = pos[d] /\ slot'[d] = slot[d]
      /\ UNCHANGED pc
  BY Zenon DEF IInv, TypeOK, assocVars, bucketVars, loopVars
<1>1. TypeOK'
  <2>1. pos' \in [Conn -> Nat]
    BY DEF IInv, TypeOK
  <2> QED BY Zenon, <2>1 DEF IInv, TypeOK, bucketVars, assocVars, loopVars, workerVars
<1>2. TableInv' BY Zenon, <1>0 DEF IInv, TypeOK, TableInv
<1>3. AssocInv' BY SMTT(60), <1>0, BucketsAssumption
  DEF IInv, TypeOK, TableInv, AssocInv, Slot, NoEngine
<1>4. ScanInv' 
  <2>1. \A d \in Conn : d # c => Scanning(d)'
    <3>1. bucketsLock' = bucketsLock /\ name' = name /\ state' = state
      BY Zenon
    <3>2. \A d \in Conn : Scanning(d) BY Zenon DEF IInv, ScanInv
    <3> QED BY Zenon, <1>0, <3>1, <3>2, ScanKept
  <2>2. Scanning(c)'
    BY SMTT(60), <1>0, BucketsAssumption DEF IInv, TypeOK, ScanInv, Scanning, Slot, Quiet
  <2> QED BY Zenon, <2>1, <2>2 DEF ScanInv
<1>5. OwnerInv' 
  <2>1. OwnerInv BY Zenon DEF IInv
  <2>2. pc' = pc /\ slot' = slot /\ state' = state /\ idx' = idx BY Zenon, <1>0
  <2> HIDE DEF DeleteScan
  <2> QED BY ZenonT(60), <2>1, <2>2 DEF OwnerInv, OwnsBucket
<1>6. UniqueNames' BY Zenon, <1>0 DEF IInv, UniqueNames
<1>7. ClientsCounted' BY <1>0 DEF IInv, ClientsCounted, Associated
<1> QED BY Zenon, <1>1, <1>2, <1>3, <1>4, <1>5, <1>6, <1>7 DEF IInv

\* The threads other than that of c stay where they are.
OthersStay(c) ==
  \A d \in Conn : d # c => /\ pc'[d] = pc[d] /\ target'[d] = target[d]
                           /\ pos'[d] = pos[d] /\ slot'[d] = slot[d]

\* What the step of c may do to bucket k, which is its own, or which it has
\* found under buckets_lock.
MayChange(c, k) ==
  /\ bucketsLock' = bucketsLock \/ bucketsLock = c
  /\ state[k] # "None" \/ bucketsLock = c
  /\ \A d \in Conn : d # c /\ OwnsBucket(d) => slot[d] # k
  /\ \/ \A d \in Conn : idx[d] # k
     \/ state'[k] \in {"Ready", "Destroying"} /\ engine'[k] = "alive"
  /\ \/ name'[k] \in {name[k], NoName}
     \/ bucketsLock = c /\ \A i \in Slot : name[i] # name'[k]
  /\ state'[k] \in {"Ready", "Initializing"} => engine'[k] = "alive"
  /\ state'[k] = "None" => engine'[k] = "none"

\* What c knows afterwards of bucket k, if it keeps it.
Knows(c, k) ==
  /\ pc[c] \notin {"closed", "join"}
  /\ OwnsBucket(c) => slot[c] = k
  /\ pc[c] = "newEngine" => state[k] = "Creating"
  /\ pc[c] = "initialize" => state[k] = "Initializing"
  /\ OwnsBucket(c) /\ pc[c] \notin {"newEngine", "initialize"} =>
       state[k] = "Destroying"
  /\ pc[c] \in {"complete", "destroy", "clear"} => \A d \in Conn : idx[d] # k

\* A bucket thread changes one bucket.
LEMMA BucketStep ==
  ASSUME IInv, TypeOK', NEW c \in Conn, NEW k \in Slot \ {0},
         OthersStay(c), MayChange(c, k), Knows(c, k)', Scanning(c)',
         \A i \in Slot : i # k => /\ state'[i] = state[i] /\ name'[i] = name[i]
                                  /\ engine'[i] = engine[i],
         UNCHANGED clients, UNCHANGED idx, UNCHANGED eng
  PROVE  IInv'
<1>1. TableInv' BY Zenon DEF IInv, TableInv, MayChange
<1>2. AssocInv'
  <2>1. \A d \in Conn : idx[d] \in Slot BY Zenon DEF IInv, TypeOK
  <2> QED BY ZenonT(60), <2>1 DEF IInv, AssocInv, MayChange, Knows, OthersStay
<1>3. ScanInv'
  <2> SUFFICES ASSUME NEW d \in Conn, d # c PROVE Scanning(d)'
    BY Zenon DEF ScanInv
  <2>1. Scanning(d) BY Zenon DEF IInv, ScanInv
  <2>2. slot[d] \in Slot \cup {-1} BY Zenon DEF IInv, TypeOK
  <2>3. NoName \notin Name BY Zenon, BucketsAssumption
  <2> QED BY SMTT(60), <2>1, <2>2, <2>3 DEF Scanning, OthersStay, MayChange
<1>4. OwnerInv'
  <2>1. \A d \in Conn : d # c => (OwnsBucket(d)' <=> OwnsBucket(d))
    BY Zenon DEF OthersStay, OwnsBucket
  <2>2. \A d \in Conn : d # c /\ OwnsBucket(d) => slot[d] # k /\ slot[d] \in Slot
    BY Zenon DEF IInv, OwnerInv, MayChange
  <2>3. \A d \in Conn : d # c =>
          /\ OwnsBucket(d)' => slot'[d] \in Slot \ {0}
          /\ pc'[d] = "newEngine" => state'[slot'[d]] = "Creating"
          /\ pc'[d] = "initialize" => state'[slot'[d]] = "Initializing"
          /\ OwnsBucket(d)' /\ pc'[d] \notin {"newEngine", "initialize"} =>
               state'[slot'[d]] = "Destroying"
          /\ pc'[d] \in {"complete", "destroy", "clear"} =>
               \A e \in Conn : idx'[e] # slot'[d]
    <3> SUFFICES ASSUME NEW d \in Conn, d # c
                 PROVE  /\ OwnsBucket(d)' => slot'[d] \in Slot \ {0}
                        /\ pc'[d] = "newEngine" => state'[slot'[d]] = "Creating"
                        /\ pc'[d] = "initialize" =>
                             state'[slot'[d]] = "Initializing"
                        /\ OwnsBucket(d)' /\ pc'[d] \notin {"newEngine", "initialize"}
                             => state'[slot'[d]] = "Destroying"
                        /\ pc'[d] \in {"complete", "destroy", "clear"} =>
                             \A e \in Conn : idx'[e] # slot'[d]
      BY Zenon
    <3>1. pc'[d] = pc[d] /\ slot'[d] = slot[d] /\ idx' = idx BY Zenon DEF OthersStay
    <3>2. OwnsBucket(d) => state'[slot[d]] = state[slot[d]] BY Zenon, <2>2
    <3>3. pc[d] \in {"newEngine", "initialize"} => OwnsBucket(d) BY Zenon DEF OwnsBucket
    <3>4. /\ OwnsBucket(d) => slot[d] \in Slot \ {0}
          /\ pc[d] = "newEngine" => state[slot[d]] = "Creating"
          /\ pc[d] = "initialize" => state[slot[d]] = "Initializing"
          /\ OwnsBucket(d) /\ pc[d] \notin {"newEngine", "initialize"} =>
               state[slot[d]] = "Destroying"
          /\ pc[d] \in {"complete", "destroy", "clear"} =>
               \A e \in Conn : idx[e] # slot[d]
      BY Zenon DEF IInv, OwnerInv
    <3> QED BY Zenon, <2>1, <3>1, <3>2, <3>3, <3>4
  <2>4. \A d, e \in Conn :
          OwnsBucket(d)' /\ OwnsBucket(e)' /\ slot'[d] = slot'[e] => d = e
    <3>1. \A d \in Conn : d # c => slot'[d] = slot[d] BY Zenon DEF OthersStay
    <3>2. OwnsBucket(c)' => slot'[c] = k BY Zenon DEF Knows
    <3>3. \A d, e \in Conn :
            OwnsBucket(d) /\ OwnsBucket(e) /\ slot[d] = slot[e] => d = e
      BY Zenon DEF IInv, OwnerInv
    <3> QED BY SMTT(60), <2>1, <2>2, <3>1, <3>2, <3>3
  <2>5. /\ OwnsBucket(c)' => slot'[c] \in Slot \ {0}
        /\ pc'[c] = "newEngine" => state'[slot'[c]] = "Creating"
        /\ pc'[c] = "initialize" => state'[slot'[c]] = "Initializing"
        /\ OwnsBucket(c)' /\ pc'[c] \notin {"newEngine", "initialize"} =>
             state'[slot'[c]] = "Destroying"
        /\ pc'[c] \in {"complete", "destroy", "clear"} =>
             \A e \in Conn : idx'[e] # slot'[c]
    BY Zenon DEF Knows, OwnsBucket
  <2> QED BY Zenon, <2>3, <2>4, <2>5 DEF OwnerInv
<1>5. UniqueNames' BY SMTT(60) DEF IInv, UniqueNames, MayChange
<1>6. ClientsCounted' BY Zenon DEF IInv, ClientsCounted, Associated
<1> QED BY Zenon, <1>1, <1>2, <1>3, <1>4, <1>5, <1>6 DEF IInv

\* A new engine for a reserved bucket keeps IInv.
LEMMA NewEngineKeeps ==
  ASSUME IInv, NEW c \in Conn, NewEngine(c)
  PROVE  IInv'
<1> USE DEF NewEngine, Goto
<1>1. PICK k \in Slot \ {0} : slot[c] = k /\ state[k] = "Creating" /\ OwnsBucket(c)
  BY Zenon DEF IInv, OwnerInv, OwnsBucket
<1>0. /\ UNCHANGED clients /\ UNCHANGED idx /\ UNCHANGED eng
      /\ \A i \in Slot : i # k => /\ state'[i] = state[i] /\ name'[i] = name[i]
                                  /\ engine'[i] = engine[i]
  BY Zenon, <1>1 DEF IInv, TypeOK, assocVars
<1>2. TypeOK'
  <2>1. pc' \in [Conn -> ConnPC \cup AssocPC \cup CreatePC \cup DeletePC]
    BY Zenon DEF IInv, TypeOK, ConnPC, AssocPC, CreatePC, DeletePC
  <2>2. state' \in [Slot -> BucketState]
    BY Zenon DEF IInv, TypeOK, BucketState
  <2>3. engine' \in [Slot -> {"none", "alive", "destroyed"}]
    BY Zenon DEF IInv, TypeOK
  <2> QED BY Zenon, <2>1, <2>2, <2>3
    DEF IInv, TypeOK, bucketVars, assocVars, loopVars, workerVars
<1>3. OthersStay(c) BY Zenon DEF IInv, TypeOK, OthersStay, loopVars
<1>4. MayChange(c, k)
  BY SMTT(60), <1>0, <1>1, BucketsAssumption
    DEF IInv, TypeOK, AssocInv, TableInv, OwnerInv, OwnsBucket, MayChange
<1>5. Knows(c, k)'
  BY SMTT(60), <1>0, <1>1
    DEF IInv, TypeOK, AssocInv, Knows, OwnsBucket, OwnerInv, loopVars
<1>6. Scanning(c)' BY Zenon, <1>1 DEF IInv, TypeOK, Scanning, Quiet, loopVars
<1> QED BY Zenon, <1>0, <1>1, <1>2, <1>3, <1>4, <1>5, <1>6, BucketStep

\* A reserved bucket that gets no engine keeps IInv.
LEMMA NewEngineFailsKeeps ==
  ASSUME IInv, NEW c \in Conn, NewEngineFails(c)
  PROVE  IInv'
<1> USE DEF NewEngineFails, Return, Goto, Clear
<1>1. PICK k \in Slot \ {0} : slot[c] = k /\ state[k] = "Creating" /\ OwnsBucket(c)
  BY Zenon DEF IInv, OwnerInv, OwnsBucket
<1>0. /\ UNCHANGED clients /\ UNCHANGED idx /\ UNCHANGED eng
      /\ \A i \in Slot : i # k => /\ state'[i] = state[i] /\ name'[i] = name[i]
                                  /\ engine'[i] = engine[i]
  BY Zenon, <1>1 DEF IInv, TypeOK, assocVars
<1>2. TypeOK'
  <2>1. pc' \in [Conn -> ConnPC \cup AssocPC \cup CreatePC \cup DeletePC]
    BY Zenon DEF IInv, TypeOK, ConnPC, AssocPC, CreatePC, DeletePC
  <2>2. state' \in [Slot -> BucketState]
    BY Zenon DEF IInv, TypeOK, BucketState
  <2>3. engine' \in [Slot -> {"none", "alive", "destroyed"}]
    BY Zenon DEF IInv, TypeOK
  <2>4. name' \in [Slot -> Name \cup {NoName}]
    BY Zenon DEF IInv, TypeOK
  <2>5. target' \in [Conn -> Name \cup {NoName}]
    BY Zenon DEF IInv, TypeOK, loopVars
  <2>6. pos' \in [Conn -> Nat]
    BY Zenon DEF IInv, TypeOK, loopVars
  <2>7. slot' \in [Conn -> Slot \cup {-1}]
    BY Zenon DEF IInv, TypeOK, loopVars
  <2> QED BY Zenon, <2>1, <2>2, <2>3, <2>4, <2>5, <2>6, <2>7
    DEF IInv, TypeOK, bucketVars, assocVars, loopVars, workerVars
<1>3. OthersStay(c) BY Zenon DEF IInv, TypeOK, OthersStay, loopVars
<1>4. MayChange(c, k)
  <2>1. \A d \in Conn : d # c /\ OwnsBucket(d) => slot[d] # k
    BY Zenon, <1>1 DEF IInv, OwnerInv
  <2>2. \A d \in Conn : idx[d] # k BY Zenon, <1>1 DEF IInv, AssocInv
  <2>3. /\ name'[k] = NoName /\ state'[k] = "None" /\ engine'[k] = "none"
        /\ bucketsLock' = bucketsLock
    BY Zenon, <1>1 DEF IInv, TypeOK
  <2> HIDE DEF NewEngineFails, Return, Goto, Clear
  <2> QED BY Zenon, <1>1, <2>1, <2>2, <2>3 DEF MayChange
<1>5. Knows(c, k)'
  BY SMTT(60), <1>0, <1>1
    DEF IInv, TypeOK, AssocInv, Knows, OwnsBucket, OwnerInv, loopVars
<1>6. Scanning(c)' BY Zenon, <1>1 DEF IInv, TypeOK, Scanning, Quiet, loopVars
<1> QED BY Zenon, <1>0, <1>1, <1>2, <1>3, <1>4, <1>5, <1>6, BucketStep

\* The result of engine->initialize keeps IInv.
LEMMA InitializeKeeps ==
  ASSUME IInv, NEW c \in Conn, Initialize(c)
  PROVE  IInv'
<1> USE DEF Initialize, Return, Goto
<1>1. PICK k \in Slot \ {0} : slot[c] = k /\ state[k] = "Initializing" /\ OwnsBucket(c)
  BY Zenon DEF IInv, OwnerInv, OwnsBucket
<1>0. /\ UNCHANGED clients /\ UNCHANGED idx /\ UNCHANGED eng
      /\ \A i \in Slot : i # k => /\ state'[i] = state[i] /\ name'[i] = name[i]
                                  /\ engine'[i] = engine[i]
  BY Zenon, <1>1 DEF IInv, TypeOK, assocVars
<1>2. TypeOK'
  <2>1. pc' \in [Conn -> ConnPC \cup AssocPC \cup CreatePC \cup DeletePC]
    BY SMTT(60) DEF IInv, TypeOK, ConnPC, AssocPC, CreatePC, DeletePC
  <2>2. state' \in [Slot -> BucketState]
    BY Zenon DEF IInv, TypeOK, BucketState
  <2>3. target' \in [Conn -> Name \cup {NoName}]
    BY Zenon DEF IInv, TypeOK, loopVars
  <2>4. pos' \in [Conn -> Nat]
    BY SMTT(60) DEF IInv, TypeOK, loopVars
  <2>5. slot' \in [Conn -> Slot \cup {-1}]
    BY Zenon DEF IInv, TypeOK, loopVars
  <2> QED BY Zenon, <2>1, <2>2, <2>3, <2>4, <2>5
    DEF IInv, TypeOK, bucketVars, assocVars, loopVars, workerVars
<1>3. OthersStay(c) BY Zenon DEF IInv, TypeOK, OthersStay, loopVars
<1>4. MayChange(c, k)
  <2>1. \A d \in Conn : d # c /\ OwnsBucket(d) => slot[d] # k
    BY Zenon, <1>1 DEF IInv, OwnerInv
  <2>2. \A d \in Conn : idx[d] # k BY Zenon, <1>1 DEF IInv, AssocInv
  <2>3. engine[k] = "alive" BY Zenon, <1>1 DEF IInv, TableInv
  <2>4. /\ name' = name /\ state'[k] \in {"Ready", "Destroying"} /\ engine' = engine
        /\ bucketsLock' = bucketsLock
    BY Zenon, <1>1 DEF IInv, TypeOK
  <2> HIDE DEF Initialize, Return, Goto
  <2> QED BY Zenon, <1>1, <2>1, <2>2, <2>3, <2>4 DEF MayChange
<1>5. Knows(c, k)'
  BY SMTT(60), <1>0, <1>1
    DEF IInv, TypeOK, AssocInv, Knows, OwnsBucket, OwnerInv, loopVars
<1>6. Scanning(c)' BY SMTT(60), <1>1 DEF IInv, TypeOK, Scanning, Quiet, loopVars
<1> QED BY Zenon, <1>0, <1>1, <1>2, <1>3, <1>4, <1>5, <1>6, BucketStep

\* engine->destroy keeps IInv.
LEMMA DestroyEngineKeeps ==
  ASSUME IInv, NEW c \in Conn, DestroyEngine(c)
  PROVE  IInv'
<1> USE DEF DestroyEngine, Goto
<1>1. PICK k \in Slot \ {0} : slot[c] = k /\ state[k] = "Destroying" /\ OwnsBucket(c)
  BY Zenon DEF IInv, OwnerInv, OwnsBucket
<1>0. /\ UNCHANGED clients /\ UNCHANGED idx /\ UNCHANGED eng
      /\ \A i \in Slot : i # k => /\ state'[i] = state[i] /\ name'[i] = name[i]
                                  /\ engine'[i] = engine[i]
  BY Zenon, <1>1 DEF IInv, TypeOK, assocVars
<1>2. TypeOK'
  <2>1. pc' \in [Conn -> ConnPC \cup AssocPC \cup CreatePC \cup DeletePC]
    BY Zenon DEF IInv, TypeOK, ConnPC, AssocPC, CreatePC, DeletePC
  <2>2. engine' \in [Slot -> {"none", "alive", "destroyed"}]
    BY Zenon DEF IInv, TypeOK
  <2> QED BY Zenon, <2>1, <2>2
    DEF IInv, TypeOK, bucketVars, assocVars, loopVars, workerVars
<1>3. OthersStay(c) BY Zenon DEF IInv, TypeOK, OthersStay, loopVars
<1>4. MayChange(c, k)
  BY SMTT(60), <1>0, <1>1, BucketsAssumption
    DEF IInv, TypeOK, AssocInv, TableInv, OwnerInv, OwnsBucket, MayChange
<1>5. Knows(c, k)'
  BY SMTT(60), <1>0, <1>1
    DEF IInv, TypeOK, AssocInv, Knows, OwnsBucket, OwnerInv, loopVars
<1>6. Scanning(c)' BY Zenon, <1>1 DEF IInv, TypeOK, Scanning, Quiet, loopVars
<1> QED BY Zenon, <1>0, <1>1, <1>2, <1>3, <1>4, <1>5, <1>6, BucketStep
=============================================================================
