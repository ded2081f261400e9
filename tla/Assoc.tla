------------------------------- MODULE Assoc -------------------------------
(***************************************************************************)
(* The hash table that all instances of the default engine share           *)
(* (engines/default_engine/assoc.c).  When it is too full a thread moves   *)
(* it, one bucket at a time, to a table of twice the size; until it is     *)
(* done, the buckets it has yet to move are looked up in the old table.    *)
(* Every step runs with assoc->lock held.                                  *)
(*                                                                         *)
(* A chain is a bag: how often each key is in it.  Its order is left out,  *)
(* a search goes through the whole chain.                                  *)
(***************************************************************************)
EXTENDS Integers, FiniteSets

CONSTANTS
  HashKey,    \* keys with the id of their engine
  HashOf,     \* [HashKey -> Nat]: crc32c
  FirstSize,  \* buckets of the first table: 2^16
  MaxSize     \* bound: buckets of the largest table

ASSUME AssocAssumption ==
  /\ HashOf \in [HashKey -> Nat] /\ FirstSize \in Nat \ {0} /\ MaxSize \in Nat

VARIABLES
  table,    \* [bucket -> chain]: primary_hashtable
  oldTable, \* old_hashtable
  size,     \* hashsize(hashpower), a power of 2
  moving,   \* expanding
  moved,    \* expand_bucket
  inserted  \* history: the keys that are in the table

AssocVars == <<table, oldTable, size, moving, moved, inserted>>

Buckets(n) == 0 .. n - 1

EmptyChain == [k \in HashKey |-> 0]

EmptyTable(n) == [b \in Buckets(n) |-> EmptyChain]

\* The old table has been freed.
NoTable == [b \in {} |-> EmptyChain]

AssocInit ==
  /\ table = EmptyTable(FirstSize) /\ oldTable = NoTable
  /\ size = FirstSize /\ moving = FALSE /\ moved = 0 /\ inserted = {}

\* hashsize(hashpower - 1), the buckets of the old table.
OldSize == size \div 2

\* The bits of the hash under hashmask.
Bucket(k, n) == HashOf[k] % n

InOldAlways(k) == moving

\* The bucket of the key has yet to be moved.
InOld(k) == moving /\ Bucket(k, OldSize) >= moved

\* _hashitem_before and the start of assoc_find.
Chain(k) == IF InOld(k) THEN oldTable[Bucket(k, OldSize)] ELSE table[Bucket(k, size)]

assoc_contains(k) == Chain(k)[k] > 0

SetChain(k, chain) ==
  IF InOld(k)
  THEN oldTable' = [oldTable EXCEPT ![Bucket(k, OldSize)] = chain] /\ UNCHANGED table
  ELSE table' = [table EXCEPT ![Bucket(k, size)] = chain] /\ UNCHANGED oldTable

Linked(chain, k) == [chain EXCEPT ![k] = @ + 1]
Unlinked(chain, k) == [chain EXCEPT ![k] = @ - 1]

TooFull(n) == n > (size * 3) \div 2

\* The caller has looked the key up: it is not in the table.  When there is no
\* memory for a larger table, or no thread to fill it, the old one is kept.
assoc_insert(k, expands) ==
  LET full == ~moving /\ TooFull(Cardinality(inserted) + 1)
  IN /\ ~assoc_contains(k)
     /\ inserted' = inserted \cup {k}
     /\ IF full /\ expands /\ size < MaxSize
        THEN /\ oldTable' = [table EXCEPT ![Bucket(k, size)] = Linked(@, k)]
             /\ table' = EmptyTable(2 * size)
             /\ size' = 2 * size /\ moving' = TRUE /\ moved' = 0
        ELSE SetChain(k, Linked(Chain(k), k)) /\ UNCHANGED <<size, moving, moved>>

assoc_delete(k) ==
  /\ assoc_contains(k)
  /\ SetChain(k, Unlinked(Chain(k), k))
  /\ inserted' = inserted \ {k}
  /\ UNCHANGED <<size, moving, moved>>

\* The chain is moved item by item to the new chains.
Move(chain) ==
  [b \in Buckets(size) |->
    [k \in HashKey |-> table[b][k] + IF Bucket(k, size) = b THEN chain[k] ELSE 0]]

Expanding == moving

LastBucket == moved + 1 = OldSize

assoc_maintenance_thread ==
  /\ Expanding
  /\ table' = Move(oldTable[moved])
  /\ IF LastBucket THEN moving' = FALSE /\ oldTable' = NoTable /\ moved' = 0
     ELSE /\ oldTable' = [oldTable EXCEPT ![moved] = EmptyChain]
          /\ moved' = moved + 1 /\ UNCHANGED moving
  /\ UNCHANGED <<size, inserted>>

AssocNext ==
  \/ \E k \in HashKey, expands \in BOOLEAN : assoc_insert(k, expands)
  \/ \E k \in HashKey : assoc_delete(k)
  \/ assoc_maintenance_thread

AssocSpec == AssocInit /\ [][AssocNext]_AssocVars

-----------------------------------------------------------------------------
(* Properties *)

\* However far the expansion has come, a key is found exactly if it was inserted
\* and not deleted since, and it is in one chain only, once: that of the old table
\* if it has yet to be moved, else that of the new one (assoc_find, assoc_insert).
TableComplete ==
  \A k \in HashKey :
    /\ assoc_contains(k) <=> k \in inserted
    /\ \A b \in DOMAIN table :
         table[b][k] = IF k \in inserted /\ ~InOld(k) /\ b = Bucket(k, size) THEN 1 ELSE 0
    /\ \A b \in DOMAIN oldTable :
         oldTable[b][k] = IF k \in inserted /\ InOld(k) /\ b = Bucket(k, OldSize) THEN 1 ELSE 0

=============================================================================
