------------------------------ MODULE KVStore ------------------------------
(***************************************************************************)
(* What a cache with CAS promises (include/memcached/engine.h): every      *)
(* change of a document makes a version with a CAS that was never used     *)
(* before, a version never changes, and a version that is gone, whether it *)
(* was deleted, flushed, expired or evicted, never comes back.             *)
(***************************************************************************)
EXTENDS Integers

CONSTANTS Key, Absent

VARIABLES
  kv,     \* [Key -> version, a record with a CAS, or Absent]
  lastCas \* the newest CAS that was handed out

KVInit == kv = [k \in Key |-> Absent] /\ lastCas = 0

Unchanged(k) == kv'[k] = kv[k]

Dropped(k) == kv'[k] = Absent

NewVersion(k) == kv'[k] # Absent /\ kv'[k].cas \in (lastCas + 1) .. lastCas'

\* One step may drop documents to make room for the one that it writes.
KVNext ==
  /\ lastCas' >= lastCas
  /\ \A k \in Key : Unchanged(k) \/ Dropped(k) \/ NewVersion(k)

KVSpec == KVInit /\ [][KVNext]_<<kv, lastCas>>
=============================================================================
