------------------------------- MODULE TopKeys -------------------------------
(***************************************************************************)
(* The keys a bucket used last (daemon/topkeys.cc): shards by the hash of  *)
(* the key, each with its mutex, a fixed number of elements and a list of  *)
(* the elements from the most to the least recently used one.  Threads     *)
(* update keys while others report them shard by shard.                    *)
(***************************************************************************)
EXTENDS Integers, Sequences, FiniteSets

CONSTANTS TopKeysKeys,   \* keys
          KeyHash,       \* hash of each key
          NumShards,     \* NUM_SHARDS (8)
          MaxKeys,       \* max_keys of a shard
          TopKeysCmds,   \* commands of the clients
          MaxUpdates,    \* bound: updates
          MaxReports     \* bound: reports

ASSUME TopKeysAssumption ==
  /\ MaxKeys \in Nat \ {0} /\ NumShards \in Nat \ {0}
  /\ KeyHash \in [TopKeysKeys -> Nat]

VARIABLE tk

\* The commands whose keys are tracked.
get_mcbp_topkeys ==
  {"SETQ", "SET", "ADDQ", "ADD", "REPLACEQ", "REPLACE", "APPENDQ", "APPEND", "PREPENDQ",
   "PREPEND", "GET", "GETQ", "GETK", "GETKQ", "DELETE", "DELETEQ", "INCREMENT", "INCREMENTQ",
   "DECREMENT", "DECREMENTQ", "SUBDOC_GET", "SUBDOC_EXISTS", "SUBDOC_DICT_ADD",
   "SUBDOC_DICT_UPSERT", "SUBDOC_DELETE", "SUBDOC_REPLACE", "SUBDOC_ARRAY_PUSH_LAST",
   "SUBDOC_ARRAY_PUSH_FIRST", "SUBDOC_ARRAY_INSERT", "SUBDOC_ARRAY_ADD_UNIQUE", "GET_REPLICA",
   "EVICT_KEY", "GET_LOCKED", "UNLOCK_KEY", "GET_META", "GETQ_META", "SET_WITH_META",
   "SETQ_WITH_META", "DEL_WITH_META", "DELQ_WITH_META"}

\* TopKeys::getShard: the lowest bits of the hash.
getShard(key) == KeyHash[key] % NumShards

\* TopKeys::TopKeys, setMaxKeys
TopKeysInit ==
  tk = [storage |-> [s \in 0 .. NumShards - 1 |-> <<>>],
        list |-> [s \in 0 .. NumShards - 1 |-> <<>>],
        history |-> <<>>, at |-> NumShards, now |-> 0, report |-> <<>>, reports |-> 0]

\* The elements with the hash and the key.
searchForKey(storage, key) ==
  {i \in DOMAIN storage : KeyHash[storage[i].key] = KeyHash[key] /\ storage[i].key = key}

\* The element i moves to the front, or is put there; the elements that were
\* before it move down.
ToFront(list, i) ==
  LET at == {n \in DOMAIN list : list[n] = i}
      gap == IF at = {} THEN Len(list) + 1 ELSE CHOOSE n \in at : TRUE
  IN [n \in 1 .. IF at = {} THEN gap ELSE Len(list) |->
        CASE n = 1 -> i [] n \in 2 .. gap -> list[n - 1] [] OTHER -> list[n]]

Element(key, now) == [key |-> key, count |-> 0, ctime |-> now]

\* The element a key is counted in: its own, the one used least recently, or a
\* new one.
Slot(storage, list, key) ==
  LET found == searchForKey(storage, key)
  IN CASE found # {} -> CHOOSE i \in found : \A j \in found : i <= j
       [] found = {} /\ Len(storage) = MaxKeys -> list[Len(list)]
       [] OTHER -> Len(storage) + 1

Placed(storage, i, key, now) ==
  CASE searchForKey(storage, key) # {} -> storage
    [] searchForKey(storage, key) = {} /\ i \in DOMAIN storage ->
         [storage EXCEPT ![i] = Element(key, now)]
    [] OTHER -> Append(storage, Element(key, now))

\* TopKeys::Shard::updateKey
UpdateTopKey(r, key, now) ==
  LET s == getShard(key)
      i == Slot(r.storage[s], r.list[s], key)
  IN [r EXCEPT !.storage[s] = [Placed(r.storage[s], i, key, now) EXCEPT ![i].count = @ + 1],
               !.list[s] = ToFront(r.list[s], i)]

\* update_topkeys: the key of a command that is tracked.
update_topkeys ==
  /\ Len(tk.history) < MaxUpdates
  /\ \E key \in TopKeysKeys, cmd \in TopKeysCmds :
       tk' = IF cmd \in get_mcbp_topkeys
             THEN [UpdateTopKey(tk, key, Len(tk.history)) EXCEPT !.history = Append(@, key)]
             ELSE tk

\* stat_topkeys_executor: TopKeys::stats and json_stats visit the shards.
StatsBegin ==
  /\ tk.at = NumShards /\ tk.reports < MaxReports
  /\ tk' = [tk EXCEPT !.at = 0, !.report = <<>>, !.now = Len(tk.history), !.reports = @ + 1]

VisitsFirst ==
  /\ tk.at < NumShards
  /\ tk' = [tk EXCEPT !.at = @ + 1,
              !.report = @ \o [n \in DOMAIN tk.list[0] |-> tk.storage[0][tk.list[0][n]]]]

\* TopKeys::Shard::accept_visitor
accept_visitor ==
  /\ tk.at < NumShards
  /\ tk' = [tk EXCEPT !.at = @ + 1,
              !.report = @ \o [n \in DOMAIN tk.list[tk.at] |->
                                 tk.storage[tk.at][tk.list[tk.at][n]]]]

TopKeysNext == update_topkeys \/ StatsBegin \/ accept_visitor

TopKeysSpec == TopKeysInit /\ [][TopKeysNext]_tk

-----------------------------------------------------------------------------
(* Properties *)

\* What a shard should hold, from the history alone: its keys by last use.
UsesOf(key) == {n \in DOMAIN tk.history : tk.history[n] = key}

(* A report names a key at most once and counts no use that had not        *)
(* happened, although keys are used between its shards (accept_visitor).   *)
ReportConsistent ==
  /\ \A m, n \in DOMAIN tk.report : m # n => tk.report[m].key # tk.report[n].key
  /\ \A n \in DOMAIN tk.report : tk.report[n].count <= Cardinality(UsesOf(tk.report[n].key))

=============================================================================
