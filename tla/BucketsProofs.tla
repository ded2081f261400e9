---------------------------- MODULE BucketsProofs ----------------------------
(***************************************************************************)
(* Proofs about Buckets, for any number of connections, workers, names and *)
(* slots: the steps that take and give back a place in the table, the      *)
(* inductive invariant and the theorems that follow from it, and that the  *)
(* table implements the abstract registry.                                 *)
(***************************************************************************)
EXTENDS BucketsSteps

-----------------------------------------------------------------------------
(* Steps that take and give back a place in the table.                     *)

\* Releasing the entry of a deleted bucket keeps IInv.
LEMMA DeleteClearKeeps ==
  ASSUME IInv, NEW c \in Conn, DeleteClear(c)
  PROVE  IInv'
<1> USE DEF DeleteClear, Return, Goto, Clear
<1>1. PICK k \in Slot \ {0} : slot[c] = k /\ state[k] = "Destroying" /\ OwnsBucket(c)
  BY Zenon DEF IInv, OwnerInv, OwnsBucket
<1>0. /\ UNCHANGED clients /\ UNCHANGED idx /\ UNCHANGED eng
      /\ \A i \in Slot : i # k => /\ state'[i] = state[i] /\ name'[i] = name[i]
                                  /\ engine'[i] = engine[i]
  BY Zenon, <1>1 DEF IInv, TypeOK, assocVars
<1>2. TypeOK'
  <2>1. pc' \in [Conn -> ConnPC \cup AssocPC \cup CreatePC \cup DeletePC]
    BY Zenon DEF IInv, TypeOK, ConnPC, AssocPC, CreatePC, DeletePC
  <2>2. state' \in [Slot -> BucketState]
    BY Zenon DEF IInv, TypeOK, BucketState
  <2>3. engine' \in [Slot -> {"none", "alive", "destroyed"}]
    BY Zenon DEF IInv, TypeOK
  <2>4. name' \in [Slot -> Name \cup {NoName}]
    BY Zenon DEF IInv, TypeOK
  <2>5. target' \in [Conn -> Name \cup {NoName}]
    BY Zenon DEF IInv, TypeOK, loopVars
  <2>6. pos' \in [Conn -> Nat]
    BY Zenon DEF IInv, TypeOK, loopVars
  <2>7. slot' \in [Conn -> Slot \cup {-1}]
    BY Zenon DEF IInv, TypeOK, loopVars
  <2> QED BY Zenon, <2>1, <2>2, <2>3, <2>4, <2>5, <2>6, <2>7
    DEF IInv, TypeOK, bucketVars, assocVars, loopVars, workerVars
<1>3. OthersStay(c) BY Zenon DEF IInv, TypeOK, OthersStay, loopVars
<1>4. MayChange(c, k)
  BY SMTT(60), <1>0, <1>1, BucketsAssumption
    DEF IInv, TypeOK, AssocInv, TableInv, OwnerInv, OwnsBucket, MayChange
<1>5. Knows(c, k)'
  <2>1. pc'[c] = "ready" BY Zenon DEF IInv, TypeOK
  <2> HIDE DEF DeleteClear, Return, Goto, Clear
  <2> QED BY Zenon, <2>1 DEF Knows, OwnsBucket
<1>6. Scanning(c)' BY Zenon, <1>1 DEF IInv, TypeOK, Scanning, Quiet, loopVars
<1> QED BY Zenon, <1>0, <1>1, <1>2, <1>3, <1>4, <1>5, <1>6, BucketStep

\* Reserving a free bucket under buckets_lock keeps IInv.
LEMMA CreateReserveKeeps ==
  ASSUME IInv, NEW c \in Conn, CreateReserve(c)
  PROVE  IInv'
<1> USE DEF CreateReserve, Return, Goto
<1>1. PICK k \in Slot \ {0} : slot[c] = k /\ state[k] = "None" /\ engine[k] = "none"
  <2>1. slot[c] \in Slot /\ state[slot[c]] = "None"
    BY Zenon DEF IInv, TypeOK, ScanInv, Scanning
  <2> QED BY Zenon, <2>1 DEF IInv, TableInv
<1>2. /\ bucketsLock = c /\ target[c] \in Name
      /\ \A i \in Slot : name[i] # target[c]
  <2>1. Scanning(c) BY Zenon DEF IInv, ScanInv
  <2>2. pc[c] = "createScan" /\ pos[c] = MaxBuckets BY Zenon
  <2> HIDE DEF CreateReserve, Return, Goto
  <2> QED BY <2>1, <2>2, BucketsAssumption DEF Scanning, Slot
<1>0. /\ UNCHANGED clients /\ UNCHANGED idx /\ UNCHANGED eng
      /\ \A i \in Slot : i # k => /\ state'[i] = state[i] /\ name'[i] = name[i]
                                  /\ engine'[i] = engine[i]
  BY Zenon, <1>1 DEF IInv, TypeOK, assocVars
<1>3. TypeOK'
  <2>1. pc' \in [Conn -> ConnPC \cup AssocPC \cup CreatePC \cup DeletePC]
    BY SMTT(60) DEF IInv, TypeOK, ConnPC, CreatePC
  <2>2. state' \in [Slot -> BucketState] BY Zenon DEF IInv, TypeOK, BucketState
  <2>3. name' \in [Slot -> Name \cup {NoName}] BY Zenon DEF IInv, TypeOK
  <2>4. target' \in [Conn -> Name \cup {NoName}] BY Zenon DEF IInv, TypeOK, loopVars
  <2>5. pos' \in [Conn -> Nat] BY SMTT(60) DEF IInv, TypeOK, loopVars
  <2>6. slot' \in [Conn -> Slot \cup {-1}] BY Zenon DEF IInv, TypeOK, loopVars
  <2> QED BY Zenon, <2>1, <2>2, <2>3, <2>4, <2>5, <2>6
    DEF IInv, TypeOK, assocVars, workerVars
<1>4. OthersStay(c) BY Zenon DEF IInv, TypeOK, OthersStay, loopVars
<1>5. MayChange(c, k)
  <2>1. \A d \in Conn : d # c /\ OwnsBucket(d) => slot[d] # k
    BY Zenon, <1>1 DEF IInv, OwnerInv, OwnsBucket
  <2>2. \A d \in Conn : idx[d] # k BY Zenon, <1>1 DEF IInv, AssocInv
  <2>3. name'[k] = target[c] /\ state'[k] = "Creating" BY Zenon, <1>1 DEF IInv, TypeOK
  <2> QED BY Zenon, <1>2, <2>1, <2>2, <2>3 DEF MayChange
<1>6. Knows(c, k)'
  BY SMTT(60), <1>0, <1>1 DEF IInv, TypeOK, Knows, OwnsBucket, loopVars
<1>7. Scanning(c)' BY Zenon, <1>1 DEF IInv, TypeOK, Scanning, Quiet, loopVars
<1> QED BY Zenon, <1>0, <1>3, <1>4, <1>5, <1>6, <1>7, BucketStep

\* Marking the bucket under buckets_lock keeps IInv.
LEMMA DeleteMarkKeeps ==
  ASSUME IInv, NEW c \in Conn, DeleteMark(c)
  PROVE  IInv'
<1> USE DEF DeleteMark, Goto, Deletable
<1>1. PICK k \in Slot \ {0} : pos[c] = k /\ state[k] = "Ready" /\ engine[k] = "alive"
  <2>1. pos[c] \in Slot /\ target[c] \in Name /\ bucketsLock = c
    BY SMTT(60), BucketsAssumption DEF IInv, TypeOK, ScanInv, Scanning, Slot
  <2> QED BY Zenon, <2>1, BucketsAssumption DEF IInv, TableInv
<1>2. bucketsLock = c BY Zenon DEF IInv, ScanInv, Scanning
<1>0. /\ UNCHANGED clients /\ UNCHANGED idx /\ UNCHANGED eng
      /\ \A i \in Slot : i # k => /\ state'[i] = state[i] /\ name'[i] = name[i]
                                  /\ engine'[i] = engine[i]
  BY Zenon, <1>1 DEF IInv, TypeOK, assocVars
<1>3. TypeOK'
  <2>1. pc' \in [Conn -> ConnPC \cup AssocPC \cup CreatePC \cup DeletePC]
    BY Zenon DEF IInv, TypeOK, DeletePC
  <2>2. state' \in [Slot -> BucketState] BY Zenon DEF IInv, TypeOK, BucketState
  <2>3. slot' \in [Conn -> Slot \cup {-1}] BY Zenon, <1>1 DEF IInv, TypeOK
  <2> QED BY Zenon, <2>1, <2>2, <2>3 DEF IInv, TypeOK, assocVars, workerVars
<1>4. OthersStay(c) BY Zenon DEF IInv, TypeOK, OthersStay
<1>5. MayChange(c, k)
  <2>1. \A d \in Conn : d # c /\ OwnsBucket(d) => slot[d] # k
    BY Zenon, <1>1 DEF IInv, OwnerInv, OwnsBucket
  <2>2. state'[k] = "Destroying" BY Zenon, <1>1 DEF IInv, TypeOK
  <2> QED BY Zenon, <1>1, <1>2, <2>1, <2>2 DEF MayChange
<1>6. Knows(c, k)' BY Zenon, <1>0, <1>1 DEF IInv, TypeOK, Knows, OwnsBucket
<1>7. Scanning(c)' BY Zenon, <1>1 DEF IInv, TypeOK, Scanning, Quiet
<1> QED BY Zenon, <1>0, <1>3, <1>4, <1>5, <1>6, <1>7, BucketStep

\* The release of the connection that asked for the deletion keeps IInv.
LEMMA DeleteReleaseKeeps ==
  ASSUME IInv, NEW c \in Conn, DeleteRelease(c)
  PROVE  IInv'
<1> USE DEF DeleteRelease, Goto
<1>1. CASE idx[c] = slot[c]
  <2>0. /\ clients' = [clients EXCEPT ![idx[c]] = Minus(@)]
        /\ idx' = [idx EXCEPT ![c] = 0] /\ eng' = [eng EXCEPT ![c] = NoEngine]
    BY Zenon, <1>1 DEF disassociate_bucket
  <2>1. TypeOK'
    <3>1. clients' \in [Slot -> 0 .. ClientsRange - 1]
      <4>1. idx[c] \in Slot /\ clients[idx[c]] \in 0 .. ClientsRange - 1
        BY Zenon DEF IInv, TypeOK
      <4>2. Minus(clients[idx[c]]) \in 0 .. ClientsRange - 1
        BY <4>1, BucketsAssumption DEF Minus
      <4> QED BY Zenon, <2>0, <4>1, <4>2 DEF IInv, TypeOK
    <3>2. idx' \in [Conn -> Slot] BY Zenon, <2>0 DEF IInv, TypeOK, TableInv
    <3>3. eng' \in [Conn -> Slot \cup {NoEngine}] BY Zenon, <2>0 DEF IInv, TypeOK
    <3>4. pos' \in [Conn -> Nat] BY Zenon DEF IInv, TypeOK
    <3>5. pc' \in [Conn -> ConnPC \cup AssocPC \cup CreatePC \cup DeletePC]
      BY Zenon DEF IInv, TypeOK, DeletePC
    <3> QED BY Zenon, <3>1, <3>2, <3>3, <3>4, <3>5 DEF IInv, TypeOK, workerVars
  <2>2. pc'[c] = "initiate"
        /\ \A d \in Conn : d # c => pc'[d] = pc[d] /\ pos'[d] = pos[d]
    BY Zenon DEF IInv, TypeOK
  <2>3. idx'[c] = 0 /\ eng'[c] = NoEngine
        /\ \A d \in Conn : d # c => idx'[d] = idx[d] /\ eng'[d] = eng[d]
    BY Zenon, <2>0 DEF IInv, TypeOK
  <2>4. TableInv' BY Zenon DEF IInv, TableInv
  <2>5. AssocInv' BY SMTT(60), <2>2, <2>3 DEF IInv, AssocInv, TableInv
  <2>6. ScanInv' BY ZenonT(60), <2>2 DEF IInv, ScanInv, Scanning, Quiet
  <2>7. OwnerInv'
    <3>1. pc[c] = "release" /\ state' = state /\ slot' = slot
      BY Zenon DEF bucketVars
    <3>2. \A d \in Conn : OwnsBucket(d)' <=> OwnsBucket(d)
      BY Zenon, <2>2, <3>1 DEF OwnsBucket
    <3>3. \A d \in Conn :
            pc'[d] \in {"newEngine", "initialize", "complete", "destroy", "clear"} =>
              d # c /\ pc'[d] = pc[d]
      BY Zenon, <2>2
    <3>4. \A d \in Conn : OwnsBucket(d) /\ pc'[d] \notin {"newEngine", "initialize"} =>
            pc[d] \notin {"newEngine", "initialize"}
      BY Zenon, <2>2, <3>1
    <3>5. \A d \in Conn : idx'[d] = idx[d] \/ idx'[d] = 0
      BY Zenon, <2>3
    <3> HIDE DEF DeleteRelease, Goto
    <3>6. OwnerInv BY Zenon DEF IInv
    <3>7. \A d \in Conn : OwnsBucket(d) => slot[d] \in Slot \ {0}
      BY Zenon, <3>6 DEF OwnerInv
    <3>8. \A d \in Conn : pc[d] \in {"complete", "destroy", "clear"} => OwnsBucket(d)
      BY Zenon DEF OwnsBucket
    <3>9. \A d \in Conn : pc'[d] \in {"complete", "destroy", "clear"} =>
            \A e \in Conn : idx'[e] # slot'[d]
      BY SMTT(60), <3>1, <3>3, <3>5, <3>6, <3>7, <3>8 DEF OwnerInv
    <3>10. \A d \in Conn :
             /\ OwnsBucket(d)' => slot'[d] \in Slot \ {0}
             /\ pc'[d] = "newEngine" => state'[slot'[d]] = "Creating"
             /\ pc'[d] = "initialize" => state'[slot'[d]] = "Initializing"
             /\ OwnsBucket(d)' /\ pc'[d] \notin {"newEngine", "initialize"} =>
                  state'[slot'[d]] = "Destroying"
      BY SMTT(60), <3>1, <3>2, <3>3, <3>4, <3>6 DEF OwnerInv
    <3>11. \A d, e \in Conn :
             OwnsBucket(d)' /\ OwnsBucket(e)' /\ slot'[d] = slot'[e] => d = e
      BY Zenon, <3>1, <3>2, <3>6 DEF OwnerInv
    <3> QED BY Zenon, <3>9, <3>10, <3>11 DEF OwnerInv
  <2>8. UniqueNames' BY Zenon DEF IInv, UniqueNames
  <2>9. ClientsCounted' BY Zenon, <1>1, ClientLeaves DEF IInv
  <2> QED BY Zenon, <2>1, <2>4, <2>5, <2>6, <2>7, <2>8, <2>9 DEF IInv
<1>2. CASE idx[c] # slot[c]
  <2>1. TypeOK'
    <3>1. pos' \in [Conn -> Nat] BY DEF IInv, TypeOK
    <3>2. pc' \in [Conn -> ConnPC \cup AssocPC \cup CreatePC \cup DeletePC]
      BY DEF IInv, TypeOK, DeletePC
    <3> QED BY Zenon, <1>2, <3>1, <3>2 DEF IInv, TypeOK, assocVars, workerVars
  <2>2. pc'[c] = "initiate"
        /\ \A d \in Conn : d # c => pc'[d] = pc[d] /\ pos'[d] = pos[d]
    BY DEF IInv, TypeOK
  <2>3. UNCHANGED clients /\ UNCHANGED idx /\ UNCHANGED eng BY Zenon, <1>2
    DEF assocVars
  <2>4. TableInv' BY DEF IInv, TableInv
  <2>5. AssocInv' BY <2>2, <2>3 DEF IInv, AssocInv
  <2>6. ScanInv' BY ZenonT(60), <2>2 DEF IInv, ScanInv, Scanning, Quiet
  <2>7. OwnerInv'
    <3>1. pc[c] = "release" /\ state' = state /\ slot' = slot
      BY DEF bucketVars
    <3>2. \A d \in Conn : OwnsBucket(d)' <=> OwnsBucket(d)
      BY <2>2, <3>1 DEF OwnsBucket
    <3>3. \A d \in Conn :
            pc'[d] \in {"newEngine", "initialize", "complete", "destroy", "clear"} =>
              d # c /\ pc'[d] = pc[d]
      BY <2>2
    <3>4. \A d \in Conn : OwnsBucket(d) /\ pc'[d] \notin {"newEngine", "initialize"} =>
            pc[d] \notin {"newEngine", "initialize"}
      BY <2>2, <3>1
    <3>5. \A d \in Conn : idx'[d] = idx[d] \/ idx'[d] = 0
      BY Zenon, <2>3
    <3> HIDE DEF DeleteRelease, Goto
    <3> QED BY SMTT(60), <3>1, <3>2, <3>3, <3>4, <3>5 DEF IInv, OwnerInv, OwnsBucket
  <2>8. UniqueNames' BY DEF IInv, UniqueNames
  <2>9. ClientsCounted' BY Zenon, <2>3 DEF IInv, ClientsCounted, Associated
  <2> QED BY <2>1, <2>4, <2>5, <2>6, <2>7, <2>8, <2>9 DEF IInv
<1> QED BY Zenon, <1>1, <1>2

-----------------------------------------------------------------------------
(* The theorems.                                                           *)

\* initialize_buckets establishes IInv.
LEMMA InitKeeps == Init => IInv
<1> SUFFICES ASSUME Init PROVE IInv BY Zenon
<1> USE DEF Init
<1>0. 0 \in Slot BY SMTT(60), BucketsAssumption DEF Slot
<1>1. TypeOK
  <2>1. 0 \in 0 .. ClientsRange - 1 BY SMTT(60), AssociatedFinite, BucketsAssumption
  <2>2. clients \in [Slot -> 0 .. ClientsRange - 1] BY Zenon, <2>1
  <2>3. state \in [Slot -> BucketState] BY Zenon DEF BucketState
  <2>4. pc \in [Conn -> ConnPC \cup AssocPC \cup CreatePC \cup DeletePC]
    BY Zenon DEF ConnPC
  <2>5. slot \in [Conn -> Slot \cup {-1}] /\ pos \in [Conn -> Nat] BY Zenon
  <2> QED BY SMTT(60), <1>0, <2>2, <2>3, <2>4, <2>5 DEF TypeOK
<1>2. TableInv BY Zenon, <1>0 DEF TableInv
<1>3. AssocInv BY Zenon, <1>0 DEF AssocInv
<1>4. ScanInv BY Zenon DEF ScanInv, Scanning
<1>5. OwnerInv BY Zenon DEF OwnerInv, OwnsBucket
<1>6. UniqueNames BY Zenon DEF UniqueNames
<1>7. ClientsCounted
  <2>1. \A i \in Slot \ {0} : Associated(i) = {} BY Zenon DEF Associated
  <2> QED BY Zenon, <2>1, FS_EmptySet DEF ClientsCounted
<1> QED BY Zenon, <1>1, <1>2, <1>3, <1>4, <1>5, <1>6, <1>7 DEF IInv

\* A stuttering step keeps IInv.
LEMMA StutterKeeps == IInv /\ UNCHANGED vars => IInv'
<1> SUFFICES ASSUME IInv, UNCHANGED vars PROVE IInv' BY Zenon
<1> USE DEF vars, bucketVars, assocVars, loopVars, workerVars
<1>1. TypeOK' BY Zenon DEF IInv, TypeOK
<1>2. TableInv' BY Zenon DEF IInv, TableInv
<1>3. AssocInv' BY Zenon DEF IInv, AssocInv
<1>4. ScanInv' BY Zenon DEF IInv, ScanInv, Scanning
<1>5. OwnerInv' BY DEF IInv, OwnerInv, OwnsBucket
<1>6. UniqueNames' BY Zenon DEF IInv, UniqueNames
<1>7. ClientsCounted' BY Zenon DEF IInv, ClientsCounted, Associated
<1> QED BY Zenon, <1>1, <1>2, <1>3, <1>4, <1>5, <1>6, <1>7 DEF IInv

\* Every step keeps IInv.
LEMMA NextKeeps == IInv /\ [Next]_vars => IInv'
<1> SUFFICES ASSUME IInv, [Next]_vars PROVE IInv' BY Zenon
<1>1. CASE UNCHANGED vars BY Zenon, <1>1, StutterKeeps
<1>2. ASSUME NEW c \in Conn, ClientStep(c) PROVE IInv'
  BY Zenon, <1>2, AcceptKeeps, DisconnectKeeps, RequestKeeps DEF ClientStep
<1>3. ASSUME NEW c \in Conn, WorkerStep(c) PROVE IInv'
  BY Zenon, <1>3, WakeKeeps, EngineReturnsKeeps, RunPendingKeeps, ResumeKeeps,
     RespondKeeps, CloseKeeps DEF WorkerStep
<1>4. ASSUME NEW c \in Conn, AssocStep(c) PROVE IInv'
  BY Zenon, <1>4, AuthenticateKeeps, AssocLeaveKeeps, AssocSkipKeeps, AssocJoinKeeps,
     AssocNoBucketKeeps DEF AssocStep
<1>5. ASSUME NEW c \in Conn, CreateStep(c) PROVE IInv'
  BY Zenon, <1>5, LockBucketsKeeps, CreateScanKeeps, CreateRefusedKeeps,
     CreateReserveKeeps, NewEngineKeeps, NewEngineFailsKeeps, InitializeKeeps
     DEF CreateStep
<1>6. ASSUME NEW c \in Conn, DeleteStep(c) PROVE IInv'
  BY Zenon, <1>6, DeleteScanKeeps, DeleteMarkKeeps, DeleteRefusedKeeps,
     DeleteReleaseKeeps, DeleteInitiateKeeps, DeleteWaitKeeps,
     DeleteNotifyKeeps, TimedwaitKeeps, DeleteCompleteKeeps, DestroyEngineKeeps,
     DeleteClearKeeps DEF DeleteStep
<1>7. ASSUME NEW c \in Conn, IoComplete(c) PROVE IInv' BY Zenon, <1>7, IoCompleteKeeps
<1>8. ASSUME NEW w \in Worker, ProcessNotification(w) PROVE IInv'
  BY Zenon, <1>8, ProcessNotificationKeeps
<1> QED BY Zenon, <1>1, <1>2, <1>3, <1>4, <1>5, <1>6, <1>7, <1>8 DEF Next

\* IInv holds in every state that the bucket table, its threads and the
\* connections can reach.
THEOREM Invariance == Spec => []IInv
BY InitKeeps, NextKeeps, PTL DEF Spec

\* Every variable stays in its set; in particular a bucket's client counter
\* never wraps.
THEOREM TypeCorrect == Spec => []TypeOK
<1>1. IInv => TypeOK BY Zenon DEF IInv
<1> QED BY <1>1, Invariance, PTL

\* A connection never points to an engine that DestroyBucketThread has
\* destroyed, nor to that of a bucket in which it is not counted.
THEOREM EngineStaysUsable == Spec => []EngineUsable
<1>1. IInv => EngineUsable BY Zenon DEF IInv, AssocInv, EngineUsable
<1> QED BY <1>1, Invariance, PTL

\* Bucket::clients is the number of connections in the bucket.
THEOREM ClientsAreCounted == Spec => []ClientsCounted
<1>1. IInv => ClientsCounted BY Zenon DEF IInv
<1> QED BY <1>1, Invariance, PTL

\* CreateBucketThread never gives two buckets the same name.
THEOREM NamesAreUnique == Spec => []UniqueNames
<1>1. IInv => UniqueNames BY Zenon DEF IInv
<1> QED BY <1>1, Invariance, PTL

\* At most one bucket thread works on a bucket.
THEOREM OneThreadPerBucket == Spec => []OneBucketThread
<1>1. IInv => OneBucketThread
  BY Zenon DEF IInv, OwnerInv, TableInv, OneBucketThread, OwnsBucket
<1> QED BY <1>1, Invariance, PTL

-----------------------------------------------------------------------------
(* The refinement mapping.                                                 *)

StatusMap == [n \in Name |-> Status(n)]
BucketMap == [c \in Conn |-> name[idx[c]]]

\* Names are unique, so the status of a name is that of the bucket that has it.
LEMMA StatusAt ==
  ASSUME UniqueNames, NEW i \in Slot, name[i] # NoName
  PROVE  Status(name[i]) = StatusOf(state[i])
<1>1. \A j \in Slot : name[j] = name[i] => j = i
  BY Zenon DEF UniqueNames
<1>2. (CHOOSE j \in Slot : name[j] = name[i]) = i
  BY Zenon, <1>1
<1> QED BY Zenon, <1>2 DEF Status

\* A name that no bucket has is absent.
LEMMA StatusAbsent ==
  ASSUME NEW n, \A i \in Slot : name[i] # n
  PROVE  Status(n) = "absent"
BY Zenon DEF Status

\* The status of a bucket's state.
LEMMA StatusValues ==
  /\ StatusOf("None") = "absent" /\ StatusOf("Creating") = "creating"
  /\ StatusOf("Initializing") = "creating" /\ StatusOf("Ready") = "ready"
  /\ StatusOf("Destroying") = "dying"
BY Zenon DEF StatusOf

\* When names and states stay, so does every status.
LEMMA StatusKept ==
  ASSUME name' = name, state' = state
  PROVE  StatusMap' = StatusMap
BY Zenon DEF StatusMap, Status

\* One bucket changes its state: at most the status of its name changes.
LEMMA StatusMoves ==
  ASSUME TypeOK, UniqueNames, UniqueNames', NEW i \in Slot, NEW s, name' = name,
         state' = [state EXCEPT ![i] = s]
  PROVE  /\ name[i] = NoName => StatusMap' = StatusMap
         /\ name[i] # NoName =>
              /\ StatusMap[name[i]] = StatusOf(state[i])
              /\ StatusMap' = [StatusMap EXCEPT ![name[i]] = StatusOf(s)]
<1>1. ASSUME NEW n \in Name, n # name[i] PROVE Status(n)' = Status(n)
  <2>1. CASE \E j \in Slot : name[j] = n
    <3>1. PICK j \in Slot : name[j] = n BY Zenon, <2>1
    <3>2. j # i /\ state'[j] = state[j] /\ name[j] # NoName
      BY Zenon, <1>1, <3>1, BucketsAssumption DEF TypeOK
    <3>3. Status(n) = StatusOf(state[j])
      BY Zenon, <3>1, <3>2, StatusAt
    <3>4. Status(n)' = StatusOf(state'[j])
      <4>1. \A k \in Slot : name'[k] = n => k = j
        BY Zenon, <3>1, <3>2 DEF UniqueNames
      <4>2. (CHOOSE k \in Slot : name'[k] = n) = j
        BY Zenon, <3>1, <4>1
      <4> QED BY Zenon, <3>1, <4>2 DEF Status
    <3> QED BY Zenon, <3>2, <3>3, <3>4
  <2>2. CASE ~ \E j \in Slot : name[j] = n
    BY Zenon, <2>2 DEF Status
  <2> QED BY Zenon, <2>1, <2>2
<1>2. CASE name[i] = NoName
  BY Zenon, <1>1, <1>2, BucketsAssumption DEF StatusMap
<1>3. CASE name[i] # NoName
  <2>1. name[i] \in Name BY Zenon, <1>3 DEF TypeOK
  <2>2. Status(name[i]) = StatusOf(state[i]) BY Zenon, <1>3, StatusAt
  <2>3. Status(name[i])' = StatusOf(s)
    <3>1. \A k \in Slot : name'[k] = name'[i] => k = i
      BY Zenon, <1>3 DEF UniqueNames
    <3>2. (CHOOSE k \in Slot : name'[k] = name'[i]) = i
      BY Zenon, <3>1
    <3>3. state'[i] = s BY Zenon DEF TypeOK
    <3> QED BY Zenon, <3>2, <3>3 DEF Status
  <2>4. \A n \in Name : StatusMap'[n] = IF n = name[i] THEN StatusOf(s) ELSE StatusMap[n]
    BY Zenon, <1>1, <2>3 DEF StatusMap
  <2> QED BY Zenon, <1>3, <2>1, <2>2, <2>4 DEF StatusMap
<1> QED BY Zenon, <1>2, <1>3

\* Bucket i, which nobody is in, gets another name: one that no bucket had, or
\* none.
LEMMA StatusRenamed ==
  ASSUME TypeOK, UniqueNames, NEW i \in Slot, NEW s, NEW m \in Name \cup {NoName},
         name' = [name EXCEPT ![i] = m], state' = [state EXCEPT ![i] = s],
         \A j \in Slot : m # NoName => name[j] # m,
         NEW n \in Name
  PROVE  /\ n # m /\ n # name[i] => Status(n)' = Status(n)
         /\ n = m => Status(n)' = StatusOf(s)
         /\ n = name[i] /\ n # m => Status(n)' = "absent"
<1>0. n # NoName BY Zenon, BucketsAssumption
<1>1. CASE n # m /\ n # name[i]
  <2>1. CASE \E j \in Slot : name[j] = n
    <3>1. PICK j \in Slot : name[j] = n BY Zenon, <2>1
    <3>2. j # i /\ state'[j] = state[j] /\ name'[j] = n
      BY Zenon, <1>1, <3>1 DEF TypeOK
    <3>3. Status(n) = StatusOf(state[j])
      BY Zenon, <1>0, <3>1, StatusAt
    <3>4. Status(n)' = StatusOf(state'[j])
      <4>1. \A k \in Slot : name'[k] = n => k = j
        BY Zenon, <1>0, <1>1, <3>1 DEF UniqueNames, TypeOK
      <4>2. (CHOOSE k \in Slot : name'[k] = n) = j
        BY Zenon, <3>2, <4>1
      <4> QED BY Zenon, <3>2, <4>2 DEF Status
    <3> QED BY Zenon, <1>1, <3>2, <3>3, <3>4
  <2>2. CASE ~ \E j \in Slot : name[j] = n
    <3>1. ~ \E j \in Slot : name'[j] = n BY Zenon, <1>1, <2>2 DEF TypeOK
    <3> QED BY Zenon, <1>1, <2>2, <3>1 DEF Status
  <2> QED BY Zenon, <2>1, <2>2
<1>2. CASE n = m
  <2>1. \A k \in Slot : name'[k] = n => k = i
    BY Zenon, <1>0, <1>2 DEF TypeOK
  <2>2. name'[i] = n /\ state'[i] = s BY Zenon, <1>2 DEF TypeOK
  <2>3. (CHOOSE k \in Slot : name'[k] = n) = i
    BY Zenon, <2>1, <2>2
  <2> QED BY Zenon, <1>2, <2>2, <2>3 DEF Status
<1>3. CASE n = name[i] /\ n # m
  <2>1. \A k \in Slot : name'[k] # n
    BY Zenon, <1>0, <1>3 DEF UniqueNames, TypeOK
  <2> QED BY Zenon, <1>3, <2>1 DEF Status
<1> QED BY Zenon, <1>1, <1>2, <1>3

\* The connections stay where they are when names and associations do.
LEMMA BucketsKept ==
  ASSUME name' = name, idx' = idx
  PROVE  BucketMap' = BucketMap
BY Zenon DEF BucketMap

-----------------------------------------------------------------------------
(* The steps of the registry, in terms of the mapping.                     *)

RegistryVars == <<StatusMap, BucketMap>>

\* The status of a name changes, and no connection moves.
LEMMA RegistryMoves ==
  ASSUME NEW n \in Name, NEW from, NEW to, StatusMap[n] = from,
         StatusMap' = [StatusMap EXCEPT ![n] = to], BucketMap' = BucketMap
  PROVE  Registry!Move(n, from, to)
BY Zenon DEF Registry!Move, StatusMap, BucketMap

\* A connection leaves.
LEMMA RegistryLeaves ==
  ASSUME NEW c \in Conn, StatusMap' = StatusMap,
         BucketMap' = [BucketMap EXCEPT ![c] = NoName]
  PROVE  Registry!Next
BY Zenon DEF Registry!Next, Registry!Leave, StatusMap, BucketMap

\* A connection enters.
LEMMA RegistryEnters ==
  ASSUME NEW c \in Conn, NEW n \in Name, StatusMap' = StatusMap, BucketMap[c] = NoName,
         StatusMap[n] = "ready", BucketMap' = [BucketMap EXCEPT ![c] = n]
  PROVE  Registry!Next
BY Zenon DEF Registry!Next, Registry!Enter, StatusMap, BucketMap

-----------------------------------------------------------------------------
(* The steps of the bucket table.                                          *)

\* disassociate_bucket puts the connection into the "no bucket".
LEMMA DisassociateLeaves ==
  ASSUME IInv, NEW c \in Conn, idx' = [idx EXCEPT ![c] = 0], name' = name, state' = state
  PROVE  Registry!Next
<1>1. BucketMap' = [BucketMap EXCEPT ![c] = NoName]
  <2>1. name[0] = NoName /\ 0 \in Slot BY Zenon DEF IInv, TableInv
  <2> QED BY Zenon, <2>1 DEF BucketMap, IInv, TypeOK
<1> QED BY Zenon, <1>1, StatusKept, RegistryLeaves

\* associate_bucket enters a bucket that is ready, or none at all.
LEMMA JoinEnters ==
  ASSUME IInv, NEW c \in Conn, NEW i \in Slot, Join(c, i), pc[c] = "join",
         i = 0 \/ state[i] = "Ready"
  PROVE  Registry!Next \/ UNCHANGED RegistryVars
<1>1. idx[c] = 0 /\ name[0] = NoName /\ 0 \in Slot
  BY Zenon DEF IInv, AssocInv, TableInv
<1>2. BucketMap[c] = NoName /\ BucketMap' = [BucketMap EXCEPT ![c] = name[i]]
  BY Zenon, <1>1 DEF Join, BucketMap, IInv, TypeOK
<1>3. StatusMap' = StatusMap BY Zenon, StatusKept DEF Join
<1>4. CASE name[i] = NoName
  <2>1. BucketMap' = BucketMap BY Zenon, <1>2, <1>4 DEF BucketMap
  <2> QED BY Zenon, <1>3, <2>1 DEF RegistryVars
<1>5. CASE name[i] # NoName
  <2>1. name[i] \in Name BY Zenon, <1>5 DEF IInv, TypeOK
  <2>2. state[i] = "Ready" BY Zenon, <1>1, <1>5
  <2>3. StatusMap[name[i]] = "ready"
    BY Zenon, <1>5, <2>1, <2>2, StatusAt, StatusValues DEF StatusMap, IInv
  <2> QED BY Zenon, <1>2, <1>3, <2>1, <2>3, RegistryEnters
<1> QED BY Zenon, <1>4, <1>5

\* The state of a bucket changes, and its name and connections do not.
LEMMA StateMoves ==
  ASSUME IInv, UniqueNames', NEW i \in Slot, NEW s, state' = [state EXCEPT ![i] = s],
         name' = name, idx' = idx,
         <<StatusOf(state[i]), StatusOf(s)>> \in
            {<<"creating", "ready">>, <<"creating", "dying">>, <<"ready", "dying">>}
           \/ StatusOf(state[i]) = StatusOf(s)
  PROVE  Registry!Next \/ UNCHANGED RegistryVars
<1>0. BucketMap' = BucketMap BY Zenon, BucketsKept
<1>1. CASE name[i] = NoName
  BY Zenon, <1>0, <1>1, StatusMoves DEF RegistryVars, IInv
<1>2. CASE name[i] # NoName
  <2>1. name[i] \in Name BY Zenon, <1>2 DEF IInv, TypeOK
  <2>2. /\ StatusMap[name[i]] = StatusOf(state[i])
        /\ StatusMap' = [StatusMap EXCEPT ![name[i]] = StatusOf(s)]
    BY Zenon, <1>2, StatusMoves DEF IInv
  <2>3. Registry!Move(name[i], StatusOf(state[i]), StatusOf(s))
    BY Zenon, <1>0, <2>1, <2>2, RegistryMoves
  <2>4. CASE StatusOf(state[i]) = StatusOf(s)
    BY Zenon, <1>0, <2>1, <2>2, <2>4 DEF RegistryVars, StatusMap
  <2>5. CASE <<StatusOf(state[i]), StatusOf(s)>> \in
            {<<"creating", "ready">>, <<"creating", "dying">>, <<"ready", "dying">>}
    BY Zenon, <2>1, <2>3, <2>5 DEF Registry!Next, Registry!Open, Registry!Fail, Registry!Delete
  <2> QED BY Zenon, <2>4, <2>5
<1> QED BY Zenon, <1>1, <1>2

\* A free bucket is reserved for a name that no bucket has.
LEMMA ReserveCreates ==
  ASSUME IInv, NEW c \in Conn, CreateReserve(c)
  PROVE  Registry!Next
<1>0. /\ slot[c] \in Slot /\ target[c] \in Name /\ state[slot[c]] = "None"
      /\ \A j \in Slot : name[j] # target[c]
  BY BucketsAssumption DEF CreateReserve, IInv, ScanInv, Scanning, TypeOK, Slot
<1>i. PICK i \in Slot : i = slot[c] BY Zenon, <1>0
<1>n. PICK n \in Name : n = target[c] BY Zenon, <1>0
<1>1. state[i] = "None" /\ \A j \in Slot : name[j] # n
  BY Zenon, <1>0, <1>i, <1>n
<1>2. /\ name' = [name EXCEPT ![i] = n] /\ state' = [state EXCEPT ![i] = "Creating"]
      /\ idx' = idx
  BY Zenon, <1>i, <1>n DEF CreateReserve, assocVars
<1>3. BucketMap' = BucketMap
  <2>1. \A d \in Conn : idx[d] \in Slot /\ idx[d] # i BY Zenon, <1>1 DEF IInv, AssocInv, TypeOK
  <2> QED BY Zenon, <1>2, <2>1 DEF BucketMap, IInv, TypeOK
<1>4. \A m \in Name : m # n => Status(m)' = Status(m)
  <2> SUFFICES ASSUME NEW m \in Name, m # n PROVE Status(m)' = Status(m) BY Zenon
  <2>1. CASE m # name[i]
    BY Zenon, <1>1, <1>2, <2>1, StatusRenamed DEF IInv
  <2>2. CASE m = name[i]
    <3>1. Status(m)' = "absent" BY <1>1, <1>2, <2>2, StatusRenamed DEF IInv
    <3>2. m # NoName BY Zenon, BucketsAssumption
    <3>3. Status(m) = "absent" BY Zenon, <1>1, <2>2, <3>2, StatusAt, StatusValues DEF IInv
    <3> QED BY Zenon, <3>1, <3>3
  <2> QED BY Zenon, <2>1, <2>2
<1>5. Status(n)' = "creating" BY Zenon, <1>1, <1>2, StatusRenamed, StatusValues DEF IInv
<1>6. Status(n) = "absent" BY Zenon, <1>1, StatusAbsent
<1>7. StatusMap[n] = "absent" /\ StatusMap' = [StatusMap EXCEPT ![n] = "creating"]
  BY Zenon, <1>1, <1>4, <1>5, <1>6 DEF StatusMap
<1>8. Registry!Create(n) BY Zenon, <1>1, <1>3, <1>7, RegistryMoves DEF Registry!Create
<1> QED BY Zenon, <1>1, <1>8 DEF Registry!Next

\* The entry of a bucket that nobody is in becomes free: its creation failed, or
\* its deletion is done.
LEMMA ClearRemoves ==
  ASSUME IInv, NEW i \in Slot, Clear(i), idx' = idx, \A d \in Conn : idx[d] # i,
         state[i] \in {"Creating", "Destroying"}
  PROVE  Registry!Next \/ UNCHANGED RegistryVars
<1>1. name' = [name EXCEPT ![i] = NoName] /\ state' = [state EXCEPT ![i] = "None"]
  BY Zenon DEF Clear
<1>2. BucketMap' = BucketMap BY Zenon, <1>1 DEF BucketMap, IInv, TypeOK
<1>3. \A m \in Name : m # name[i] => Status(m)' = Status(m)
  <2> SUFFICES ASSUME NEW m \in Name, m # name[i] PROVE Status(m)' = Status(m) BY Zenon
  <2>1. m # NoName BY Zenon, BucketsAssumption
  <2> QED BY Zenon, <1>1, <2>1, StatusRenamed DEF IInv
<1>4. CASE name[i] = NoName
  <2>1. StatusMap' = StatusMap BY Zenon, <1>3, <1>4, BucketsAssumption DEF StatusMap
  <2> QED BY Zenon, <1>2, <2>1 DEF RegistryVars
<1>5. CASE name[i] # NoName
  <2> DEFINE n == name[i]
  <2>1. n \in Name BY Zenon, <1>5 DEF IInv, TypeOK
  <2>2. Status(n) = StatusOf(state[i]) BY Zenon, <1>5, StatusAt DEF IInv
  <2>3. ASSUME NEW m \in Name, m = name[i] PROVE Status(m)' = "absent"
    BY <1>1, <1>5, <2>3, StatusRenamed DEF IInv
  <2> HIDE DEF n
  <2>4. StatusMap' = [StatusMap EXCEPT ![n] = "absent"]
    BY Zenon, <1>3, <2>1, <2>3 DEF StatusMap, n
  <2>5. StatusMap[n] = StatusOf(state[i]) BY Zenon, <2>1, <2>2 DEF StatusMap
  <2>6. \A d \in Conn : BucketMap[d] # n
    BY Zenon, <1>5 DEF BucketMap, IInv, TypeOK, UniqueNames, n
  <2>7. CASE state[i] = "Creating"
    <3>1. Registry!Move(n, "creating", "absent")
      BY Zenon, <1>2, <2>1, <2>4, <2>5, <2>7, StatusValues, RegistryMoves
    <3> QED BY Zenon, <2>1, <3>1 DEF Registry!Next, Registry!Fail
  <2>8. CASE state[i] = "Destroying"
    <3>1. Registry!Move(n, "dying", "absent")
      BY Zenon, <1>2, <2>1, <2>4, <2>5, <2>8, StatusValues, RegistryMoves
    <3>2. Registry!Remove(n) BY Zenon, <2>6, <3>1 DEF Registry!Remove, BucketMap
    <3> QED BY Zenon, <2>1, <3>2 DEF Registry!Next
  <2> QED BY Zenon, <2>7, <2>8
<1> QED BY Zenon, <1>4, <1>5

-----------------------------------------------------------------------------
(* The refinement.                                                         *)

\* A step that leaves names, states and associations alone is no step of the
\* registry.
LEMMA RegistryStutters ==
  ASSUME name' = name, state' = state, idx' = idx
  PROVE  UNCHANGED RegistryVars
BY Zenon, StatusKept, BucketsKept DEF RegistryVars

\* Every step of the bucket table is a step of the registry, or none.
LEMMA RegistryStep ==
  ASSUME IInv, IInv', [Next]_vars
  PROVE  Registry!Next \/ UNCHANGED RegistryVars
<1> DEFINE Goal == Registry!Next \/ UNCHANGED RegistryVars
<1> SUFFICES Goal BY Zenon
<1>0. UniqueNames' BY Zenon DEF IInv
<1> HIDE DEF Goal
<1>1. ASSUME name' = name, state' = state, idx' = idx PROVE Goal
  BY Zenon, <1>1, RegistryStutters DEF Goal
<1>2. CASE UNCHANGED vars
  BY Zenon, <1>1, <1>2 DEF vars, bucketVars, assocVars
<1>3. ASSUME NEW c \in Conn, ClientStep(c) PROVE Goal
  <2>1. CASE Accept(c)
    <3>1. idx' = idx BY <2>1 DEF Accept, IInv, AssocInv, TypeOK
    <3> QED BY Zenon, <1>1, <2>1, <3>1 DEF Accept
  <2>2. CASE ~Accept(c)
    BY Zenon, <1>1, <1>3, <2>2 DEF ClientStep, Disconnect, Request, bucketVars, assocVars
  <2> QED BY Zenon, <2>1, <2>2
<1>4. ASSUME NEW c \in Conn, IoComplete(c) PROVE Goal
  BY Zenon, <1>1, <1>4 DEF IoComplete, bucketVars, assocVars
<1>5. ASSUME NEW c \in Conn, WorkerStep(c) PROVE Goal
  <2>1. CASE Close(c)
    BY Zenon, <2>1, DisassociateLeaves DEF Close, disassociate_bucket, Goal
  <2>2. CASE ~Close(c)
    BY Zenon, <1>1, <1>5, <2>2 DEF WorkerStep, Wake, EngineReturns, RunPending, Resume, Respond,
       bucketVars, assocVars
  <2> QED BY <2>1, <2>2
<1>6. ASSUME NEW c \in Conn, AssocStep(c) PROVE Goal
  <2>1. CASE Authenticate(c) \/ AssocSkip(c)
    BY Zenon, <1>1, <2>1 DEF Authenticate, AssocSkip, bucketVars, assocVars
  <2>2. CASE AssocLeave(c)
    BY Zenon, <2>2, DisassociateLeaves DEF AssocLeave, disassociate_bucket, Goal
  <2>3. CASE AssocJoin(c)
    <3>1. pos[c] \in Slot BY <2>3, BucketsAssumption DEF AssocJoin, IInv, TypeOK, Slot
    <3> QED BY Zenon, <2>3, <3>1, JoinEnters DEF AssocJoin, Accepts, Goal
  <2>4. CASE AssocNoBucket(c)
    <3>1. 0 \in Slot BY Zenon DEF IInv, TableInv
    <3> QED BY Zenon, <2>4, <3>1, JoinEnters DEF AssocNoBucket, Goal
  <2> QED BY Zenon, <1>6, <2>1, <2>2, <2>3, <2>4 DEF AssocStep
<1>7. ASSUME NEW c \in Conn, CreateStep(c) PROVE Goal
  <2>1. CASE LockBuckets(c) \/ CreateScan(c) \/ CreateRefused(c)
    BY Zenon, <1>1, <2>1 DEF LockBuckets, CreateScan, CreateRefused, bucketVars, assocVars
  <2>2. CASE CreateReserve(c)
    BY Zenon, <2>2, ReserveCreates DEF Goal
  <2>3. CASE NewEngine(c)
    <3>1. slot[c] \in Slot /\ state[slot[c]] = "Creating"
      BY Zenon, <2>3 DEF NewEngine, IInv, OwnerInv, OwnsBucket
    <3> QED BY Zenon, <1>0, <2>3, <3>1, StateMoves, StatusValues DEF NewEngine, assocVars, Goal
  <2>4. CASE NewEngineFails(c)
    <3>1. slot[c] \in Slot /\ state[slot[c]] = "Creating"
      BY Zenon, <2>4 DEF NewEngineFails, IInv, OwnerInv, OwnsBucket
    <3>2. \A d \in Conn : idx[d] # slot[c] BY Zenon, <3>1 DEF IInv, AssocInv
    <3> QED BY Zenon, <2>4, <3>1, <3>2, ClearRemoves DEF NewEngineFails, assocVars, Goal
  <2>5. CASE Initialize(c)
    <3>1. slot[c] \in Slot /\ state[slot[c]] = "Initializing"
      BY Zenon, <2>5 DEF Initialize, IInv, OwnerInv, OwnsBucket
    <3>2. /\ name' = name /\ idx' = idx
          /\ \/ state' = [state EXCEPT ![slot[c]] = "Ready"]
             \/ state' = [state EXCEPT ![slot[c]] = "Destroying"]
      BY Zenon, <2>5 DEF Initialize, assocVars
    <3> QED BY <1>0, <3>1, <3>2, StateMoves, StatusValues DEF Goal
  <2> QED BY Zenon, <1>7, <2>1, <2>2, <2>3, <2>4, <2>5 DEF CreateStep
<1>8. ASSUME NEW c \in Conn, DeleteStep(c) PROVE Goal
  <2>1. CASE DeleteMark(c)
    <3>1. pos[c] \in Slot /\ state[pos[c]] = "Ready"
      <4>1. pos[c] \in Nat
        BY Zenon DEF IInv, TypeOK
      <4>2. pos[c] \in Slot
        BY <2>1, <4>1, BucketsAssumption DEF DeleteMark, Slot
      <4> QED BY Zenon, <2>1, <4>2 DEF DeleteMark, Deletable
    <3> QED BY Zenon, <1>0, <2>1, <3>1, StateMoves, StatusValues DEF DeleteMark, assocVars, Goal
  <2>2. CASE DeleteRelease(c)
    <3>1. CASE idx[c] = slot[c]
      BY Zenon, <2>2, <3>1, DisassociateLeaves DEF DeleteRelease, disassociate_bucket, Goal
    <3>2. CASE idx[c] # slot[c]
      BY Zenon, <1>1, <2>2, <3>2 DEF DeleteRelease, assocVars
    <3> QED BY Zenon, <3>1, <3>2
  <2>3. CASE DeleteClear(c)
    <3>1. slot[c] \in Slot /\ state[slot[c]] = "Destroying"
          /\ \A d \in Conn : idx[d] # slot[c]
      BY Zenon, <2>3 DEF DeleteClear, IInv, OwnerInv, OwnsBucket
    <3> QED BY Zenon, <2>3, <3>1, ClearRemoves DEF DeleteClear, assocVars, Goal
  <2>4. CASE DeleteScan(c) \/ DeleteRefused(c) \/ DeleteInitiate(c) \/ DeleteWait(c)
    BY Zenon, <1>1, <2>4 DEF DeleteScan, DeleteRefused, DeleteInitiate, DeleteWait, bucketVars,
       assocVars
  <2>5. CASE DeleteNotify(c) \/ Timedwait(c) \/ DeleteComplete(c) \/ DestroyEngine(c)
    BY Zenon, <1>1, <2>5 DEF DeleteNotify, Timedwait, DeleteComplete, DestroyEngine, bucketVars,
       assocVars
  <2> QED BY Zenon, <1>8, <2>1, <2>2, <2>3, <2>4, <2>5 DEF DeleteStep
<1>9. ASSUME NEW w \in Worker, ProcessNotification(w) PROVE Goal
  BY Zenon, <1>1, <1>9 DEF ProcessNotification, bucketVars, assocVars
<1> QED BY Zenon, <1>2, <1>3, <1>4, <1>5, <1>6, <1>7, <1>8, <1>9 DEF Next

\* The table that initialize_buckets sets up is an empty registry.
LEMMA RegistryInit ==
  ASSUME Init
  PROVE  Registry!Init
<1>1. IInv BY Zenon, InitKeeps
<1>2. \A n \in Name : Status(n) = "absent"
  BY Zenon, BucketsAssumption, StatusAbsent DEF Init
<1>3. \A c \in Conn : name[idx[c]] = NoName
  BY Zenon, <1>1 DEF Init, IInv, TableInv
<1> QED BY Zenon, <1>2, <1>3 DEF Registry!Init

\* The bucket table implements the registry: whatever CreateBucketThread,
\* DestroyBucketThread, associate_bucket and the worker threads do, a name is
\* created once, entered only while its bucket is ready, and removed only when
\* no connection is left in it.
THEOREM TableImplementsRegistry == Spec => ImplementsRegistry
<1>1. Init => Registry!Init BY RegistryInit
<1>2. IInv /\ IInv' /\ [Next]_vars => [Registry!Next]_(<<StatusMap, BucketMap>>)
  BY Zenon, RegistryStep DEF RegistryVars
<1>3. QED
  BY <1>1, <1>2, Invariance, PTL DEF Spec, ImplementsRegistry, Registry!Spec, StatusMap,
     BucketMap

=============================================================================
