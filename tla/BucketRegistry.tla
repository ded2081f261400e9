--------------------------- MODULE BucketRegistry ---------------------------
(***************************************************************************)
(* What the bucket table promises: a map from bucket names to buckets in   *)
(* which connections are placed.  A connection enters a bucket that is     *)
(* ready, and a bucket only goes away when no connection is left in it.    *)
(***************************************************************************)
CONSTANTS Name, Conn, NoName

VARIABLES
  status,   \* [Name -> "absent", "creating", "ready", "dying"]
  bucketOf  \* [Conn -> Name or NoName]: NoName is the "no bucket"

Init ==
  /\ status = [n \in Name |-> "absent"]
  /\ bucketOf = [c \in Conn |-> NoName]

Move(n, from, to) ==
  /\ status[n] = from
  /\ status' = [status EXCEPT ![n] = to]
  /\ UNCHANGED bucketOf

Create(n) == Move(n, "absent", "creating")
Open(n) == Move(n, "creating", "ready")
Fail(n) == Move(n, "creating", "absent") \/ Move(n, "creating", "dying")
Delete(n) == Move(n, "ready", "dying")

Remove(n) ==
  /\ \A c \in Conn : bucketOf[c] # n
  /\ Move(n, "dying", "absent")

Enter(c, n) ==
  /\ bucketOf[c] = NoName
  /\ status[n] = "ready"
  /\ bucketOf' = [bucketOf EXCEPT ![c] = n]
  /\ UNCHANGED status

Leave(c) ==
  /\ bucketOf' = [bucketOf EXCEPT ![c] = NoName]
  /\ UNCHANGED status

Next ==
  \/ \E c \in Conn : Leave(c)
  \/ \E c \in Conn, n \in Name : Enter(c, n)
  \/ \E n \in Name : Create(n) \/ Open(n) \/ Fail(n) \/ Delete(n) \/ Remove(n)

Spec == Init /\ [][Next]_<<status, bucketOf>>
=============================================================================
