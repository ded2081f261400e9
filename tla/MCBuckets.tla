----------------------------- MODULE MCBuckets -----------------------------
(* Instances of Buckets for TLC. *)
EXTENDS Buckets, TLC

\* All connections on one worker.
OneThread == [c \in Conn |-> 0]

\* One connection on worker 0, the others on worker 1.
First == CHOOSE c \in Admin : TRUE
TwoThreads == [c \in Conn |-> IF c = First THEN 0 ELSE 1]

\* All buckets are ready, and every connection c is idle in f[c].
Settled(f) ==
  /\ \E g \in [Slot \ {0} -> Name] :
       /\ \A i, j \in Slot \ {0} : g[i] = g[j] => i = j
       /\ name = [i \in Slot |-> IF i = 0 THEN NoName ELSE g[i]]
  /\ idx = f /\ eng = f
  /\ state = [i \in Slot |-> "Ready"]
  /\ clients = [i \in Slot |-> Cardinality({c \in Conn : f[c] = i})]
  /\ engine = [i \in Slot |-> "alive"]
  /\ bucketsLock = None
  /\ pc = [c \in Conn |-> "idle"]
  /\ target = [c \in Conn |-> NoName]
  /\ pos = [c \in Conn |-> 0]
  /\ slot = [c \in Conn |-> -1]
  /\ event = [c \in Conn |-> FALSE]
  /\ busy = [w \in Worker |-> None]
  /\ notified = [w \in Worker |-> FALSE]
  /\ deleting = [w \in Worker |-> 0]

\* Each administrator is idle in a bucket of its own, as after creating and
\* selecting it.
TwoBucketsInit ==
  \E f \in [Conn -> Slot \ {0}] : (\A b, c \in Conn : f[b] = f[c] => b = c) /\ Settled(f)

\* Clients send nothing but requests to delete a bucket.
DeleteOnly ==
  \/ \E c \in Conn, n \in Name : Request(c, "delete", n)
  \/ \E c \in Conn : WorkerStep(c) \/ LockBuckets(c) \/ DeleteStep(c)
  \/ \E w \in Worker : ProcessNotification(w)

TwoBucketsSpec == TwoBucketsInit /\ [][DeleteOnly]_vars /\ Fairness

\* The administrators are in no bucket, and the others in one.
OverlapInit ==
  \E f \in [Conn -> Slot] : (\A c \in Conn : c \in Admin <=> f[c] = 0) /\ Settled(f)

\* With one administrator, who is in a bucket or not, the clients do anything.
\* With more, who stay in no bucket, the buckets are deleted together.
LiveClients ==
  IF \A c \in Admin \ {First} : pc[c] = "closed"
    THEN \E c \in (Conn \ Admin) \cup {First} :
           \/ Accept(c) \/ Disconnect(c)
           \/ \E p \in {"engine", "leave", "auth", "create", "delete"} : Request(c, p, Default)
    ELSE \/ \E c \in Admin, n \in Name : Request(c, "delete", n)
         \/ \E c \in Conn \ Admin : Disconnect(c) \/ Request(c, "engine", Default)

LiveNext ==
  \/ LiveClients
  \/ \E c \in Conn : Serve(c)
  \/ \E w \in Worker : ProcessNotification(w)

LiveSpec == (Init \/ OverlapInit) /\ [][LiveNext]_vars /\ Fairness
=============================================================================
