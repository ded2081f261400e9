------------------------------- MODULE Items -------------------------------
(***************************************************************************)
(* The items of the default engine (engines/default_engine/items.c and     *)
(* slabs.c) as operators on the state of one engine.  Every function of    *)
(* the code named do_xxx runs with items.lock held, so each of them is an  *)
(* operator that takes the state before and returns the state after; the   *)
(* modules that use them turn a locked section into one action.            *)
(*                                                                         *)
(* A state is a record                                                     *)
(*   item   [Chunk -> item record], NoItem's record for a chunk not in use *)
(*   lru    [Class -> Seq(Chunk or Cursor)], from head to tail             *)
(*   pages  [Class -> Nat], pages that slabs.c gave to the class           *)
(*   oldest config.oldest_live        now   current time                   *)
(*   cas    the last CAS identifier   force scrubber.force_delete          *)
(*   cref   reference count of the cursor of the scrubber                  *)
(*   broken the stack frame of the scrubber is used as an item, from where *)
(*          on the behaviour of the code is undefined                      *)
(* The hash table is the set of items with ITEM_LINKED set; how it is kept *)
(* in memory and expanded is the subject of module Assoc.                  *)
(***************************************************************************)
EXTENDS Integers, Sequences, FiniteSets, FiniteSetsExt, SequencesExt

CONSTANTS
  Keys,            \* keys of documents
  Class,           \* slab classes, numbers from 1
  PerSlab,         \* [Class -> Nat]: chunks in a page of the class
  PageLimit,       \* pages that mem_limit allows for
  NoItem,          \* a null pointer
  Cursor,          \* the cursor of the scrubber in an LRU
  SizeClass(_),    \* the class for a value, 0 when it is too large
  SearchItems,     \* search_items: entries of the LRU that are looked at
  UpdateInterval,  \* ITEM_UPDATE_INTERVAL
  TailRepairTime,  \* TAIL_REPAIR_TIME
  TimeRange,       \* 2^32, the range of rel_time_t
  EvictToFree      \* config.evict_to_free

ASSUME ItemsAssumption ==
  /\ Class \subseteq Nat \ {0} /\ IsFiniteSet(Class) /\ Class # {}
  /\ PerSlab \in [Class -> Nat \ {0}] /\ PageLimit \in Nat
  /\ SearchItems \in Nat \ {0} /\ UpdateInterval \in Nat
  /\ TailRepairTime \in Nat /\ TimeRange \in Nat \ {0}
  /\ EvictToFree \in BOOLEAN

\* do_slabs_newslab hands out a page beyond the limit to a class without one.
Chunk == UNION {{<<c, i>> : i \in 1 .. PerSlab[c] * (PageLimit + 1)} : c \in Class}

Blank == [key |-> NoItem, val |-> NoItem, cas |-> 0, ref |-> 0, linked |-> FALSE,
          time |-> 0, exp |-> 0]

EmptyEngine(now) ==
  [item |-> [x \in Chunk |-> Blank], lru |-> [c \in Class |-> <<>>],
   pages |-> [c \in Class |-> 0], oldest |-> 0, now |-> now, cas |-> 0,
   force |-> FALSE, cref |-> 1, broken |-> FALSE]

InUse(e, x) == e.item[x].key # NoItem

\* Rest at the state or the result a call has left behind.
After(called, Rest(_)) == CHOOSE y \in {Rest(x) : x \in {called}} : TRUE

-----------------------------------------------------------------------------
(* slabs.c *)

FreeChunks(e, c) == {x \in Chunk : x[1] = c /\ x[2] <= e.pages[c] * PerSlab[c] /\ ~InUse(e, x)}

MayHavePage(e, c) ==
  MapThenSumSet(LAMBDA d : e.pages[d], Class) < PageLimit \/ e.pages[c] = 0

\* A free chunk of the class, from a new page if there is none.
slabs_alloc(e, c) ==
  IF FreeChunks(e, c) # {}
  THEN [e |-> e, it |-> CHOOSE x \in FreeChunks(e, c) : TRUE]
  ELSE IF MayHavePage(e, c)
       THEN [e  |-> [e EXCEPT !.pages[c] = @ + 1],
             it |-> <<c, e.pages[c] * PerSlab[c] + 1>>]
       ELSE [e |-> e, it |-> NoItem]

-----------------------------------------------------------------------------
(* Linking and reference counts *)

item_free(e, x) == [e EXCEPT !.item[x] = Blank]

item_link_q(e, x) == [e EXCEPT !.lru[x[1]] = <<x>> \o @]

item_unlink_q(e, x) == [e EXCEPT !.lru[x[1]] = Remove(@, x)]

get_cas_id(e) == e.cas + 1

do_item_link(e, x) ==
  item_link_q([e EXCEPT !.item[x].linked = TRUE, !.item[x].time = e.now,
                        !.item[x].cas = get_cas_id(e), !.cas = get_cas_id(e)], x)

FreedAlways(e, x) == TRUE

FreedOnUnlink(e, x) == e.item[x].ref = 0 \/ e.force

do_item_unlink(e, x) ==
  IF ~e.item[x].linked THEN e
  ELSE LET u == item_unlink_q([e EXCEPT !.item[x].linked = FALSE], x)
       IN IF FreedOnUnlink(e, x) THEN item_free(u, x) ELSE u

Unreferenced(e, x) == e.item[x].ref = 0

FreedOnRelease(e, x) == e.item[x].ref = 0 /\ ~e.item[x].linked

do_item_release(e, x) ==
  LET r == [e EXCEPT !.item[x].ref = IF @ # 0 THEN @ - 1 ELSE 0]
  IN IF FreedOnRelease(r, x) THEN item_free(r, x) ELSE r

\* current_time - ITEM_UPDATE_INTERVAL is unsigned: in the first minute every
\* access moves the item to the head.
do_item_update(e, x) ==
  IF e.item[x].time < (e.now - UpdateInterval) % TimeRange /\ e.item[x].linked
  THEN item_link_q([item_unlink_q(e, x) EXCEPT !.item[x].time = e.now], x)
  ELSE e

do_item_replace(e, old, new) == do_item_link(do_item_unlink(e, old), new)

-----------------------------------------------------------------------------
(* Allocation *)

\* What the code reads from an entry of the LRU: the cursor is a zeroed item.
Entry(e, x) == IF x = Cursor THEN [Blank EXCEPT !.ref = e.cref] ELSE e.item[x]

\* The entry nearest to the tail that is wanted, among SearchItems ones.
TailSearch(e, c, wanted) ==
  LET n == Len(e.lru[c])
      found == {i \in 1 .. n : n - i < SearchItems /\ e.lru[c][i] \in wanted}
  IN IF found = {} THEN NoItem ELSE e.lru[c][Max(found)]

DeadAtTail(e) ==
  {x \in Chunk \cup {Cursor} :
     LET i == Entry(e, x)
     IN i.ref = 0 /\ (i.time < e.oldest \/ (i.exp # 0 /\ i.exp < e.now))}

\* Takes a dead item out of the LRU and keeps its chunk.
Steal(e, x) ==
  IF x = Cursor THEN [e EXCEPT !.broken = TRUE] ELSE do_item_unlink(e, x)

Evictable(e) == {x \in Chunk \cup {Cursor} : Entry(e, x).ref = 0}

Evict(e, x) == IF x \in Chunk THEN do_item_unlink(e, x) ELSE e

Leaked(e) ==
  {x \in Chunk \cup {Cursor} :
     Entry(e, x).ref # 0 /\ Entry(e, x).time + TailRepairTime < e.now}

TailRepair(e, x) ==
  CASE x = NoItem -> e
    [] x = Cursor -> [e EXCEPT !.cref = 0]
    [] OTHER      -> do_item_unlink([e EXCEPT !.item[x].ref = 0], x)

\* Eviction of one item, then the last ditch effort.
EvictAndAlloc(e, c) ==
  IF ~EvictToFree \/ e.lru[c] = <<>> THEN [e |-> e, it |-> NoItem]
  ELSE After(Evict(e, TailSearch(e, c, Evictable(e))), LAMBDA f :
         After(slabs_alloc(f, c), LAMBDA a :
           IF a.it # NoItem THEN a
           ELSE After(TailRepair(f, TailSearch(f, c, Leaked(f))),
                      LAMBDA g : slabs_alloc(g, c))))

\* The new item holds the reference of the caller.
do_item_alloc(e, k, v, exp) ==
  LET c     == SizeClass(v)
      dead  == TailSearch(e, c, DeadAtTail(e))
      first == IF dead # NoItem THEN [e |-> Steal(e, dead), it |-> dead]
               ELSE slabs_alloc(e, c)
      Fill(got) == IF got.it \in {NoItem, Cursor} THEN got
                   ELSE [got EXCEPT !.e.item[got.it] =
                          [Blank EXCEPT !.key = k, !.val = v, !.exp = exp, !.ref = 1]]
  IN IF c = 0 THEN [e |-> e, it |-> NoItem]
     ELSE After(IF first.it # NoItem THEN first ELSE EvictAndAlloc(e, c), Fill)

-----------------------------------------------------------------------------
(* Lookup and storage *)

assoc_find(e, k) ==
  LET s == {x \in Chunk : e.item[x].linked /\ e.item[x].key = k}
  IN IF s = {} THEN NoItem ELSE CHOOSE x \in s : TRUE

Flushed(e, x) == e.oldest # 0 /\ e.oldest <= e.now /\ e.item[x].time <= e.oldest

Expired(e, x) == e.item[x].exp # 0 /\ e.item[x].exp <= e.now

do_item_get(e, k) ==
  LET x == assoc_find(e, k)
  IN IF x = NoItem THEN [e |-> e, it |-> NoItem]
     ELSE IF Flushed(e, x) \/ Expired(e, x)
          THEN [e |-> do_item_unlink(e, x), it |-> NoItem]
          ELSE [e |-> do_item_update([e EXCEPT !.item[x].ref = @ + 1], x), it |-> x]

StoreOps == {"ADD", "SET", "REPLACE", "CAS"}

CasMatches(e, x, old) == e.item[x].cas = e.item[old].cas

StoreStatus(e, x, old, op) ==
  CASE op = "ADD"     -> IF old # NoItem THEN "NOT_STORED" ELSE "SUCCESS"
    [] op = "REPLACE" -> IF old = NoItem THEN "NOT_STORED" ELSE "SUCCESS"
    [] op = "CAS"     -> IF old = NoItem THEN "KEY_ENOENT"
                         ELSE IF CasMatches(e, x, old) THEN "SUCCESS" ELSE "KEY_EEXISTS"
    [] OTHER          -> "SUCCESS"

\* The old item, if there is one, has been looked up.
StoreOver(f, x, old, op) ==
  LET st == StoreStatus(f, x, old, op)
  IN [st |-> st,
      e  |-> CASE old = NoItem -> IF st = "SUCCESS" THEN do_item_link(f, x) ELSE f
               [] op = "ADD"   -> do_item_release(do_item_update(f, old), old)
               [] OTHER        -> do_item_release(
                                    IF st = "SUCCESS" THEN do_item_replace(f, old, x) ELSE f, old)]

do_store_item(e, x, op) ==
  After(do_item_get(e, e.item[x].key), LAMBDA g : StoreOver(g.e, x, g.it, op))

InlineAllowed(e, x) == e.item[x].ref = 1

ChangedWithItsCas(e, x, new) == [e EXCEPT !.item[x].val = new]

ChangedInPlace(e, x, new) ==
  [e EXCEPT !.item[x].val = new, !.item[x].cas = get_cas_id(e), !.cas = get_cas_id(e)]

\* The counter is changed in place when nobody else holds the item and the new
\* value is not longer; otherwise a new item replaces it.  `lost' is the item
\* whose reference, taken by do_arithmetic, nobody gives back.
do_add_delta(e, x, new, fits) ==
  IF new = NoItem THEN [e |-> e, st |-> "EINVAL", it |-> NoItem, lost |-> x]
  ELSE IF InlineAllowed(e, x) /\ fits
  THEN [e |-> ChangedInPlace(e, x, new), st |-> "SUCCESS", it |-> x, lost |-> NoItem]
  ELSE After(do_item_alloc(e, e.item[x].key, new, e.item[x].exp), LAMBDA a :
         CASE a.it = NoItem ->
                [e |-> do_item_unlink(a.e, x), st |-> "ENOMEM", it |-> NoItem, lost |-> x]
           [] a.it = Cursor -> [e |-> a.e, st |-> "ENOMEM", it |-> NoItem, lost |-> x]
           [] OTHER ->
                [e |-> do_item_replace(a.e, x, a.it), st |-> "SUCCESS", it |-> a.it, lost |-> x])

\* result[v] is the value after the operation, NoItem when v is not a number.
do_arithmetic(e, k, create, initial, exp, fits, result) ==
  LET Stored(x, s) ==
        IF s.st = "SUCCESS" THEN [e |-> s.e, st |-> s.st, it |-> x, lost |-> NoItem]
        ELSE [e |-> do_item_release(s.e, x), st |-> s.st, it |-> NoItem, lost |-> NoItem]
      Created(a) ==
        IF a.it \in {NoItem, Cursor}
        THEN [e |-> a.e, st |-> "ENOMEM", it |-> NoItem, lost |-> NoItem]
        ELSE After(do_store_item(a.e, a.it, "ADD"), LAMBDA s : Stored(a.it, s))
  IN After(do_item_get(e, k), LAMBDA g :
       CASE g.it # NoItem -> do_add_delta(g.e, g.it, result[g.e.item[g.it].val], fits)
         [] g.it = NoItem /\ create -> After(do_item_alloc(g.e, k, initial, exp), Created)
         [] OTHER -> [e |-> g.e, st |-> "KEY_ENOENT", it |-> NoItem, lost |-> NoItem])

do_touch_item(e, k, exp) ==
  After(do_item_get(e, k),
        LAMBDA g : IF g.it = NoItem THEN g ELSE [g EXCEPT !.e.item[g.it].exp = exp])

-----------------------------------------------------------------------------
(* Flush, statistics and the scrubber walk the LRU *)

RecentFromTail(e, c) ==
  LET old == {i \in DOMAIN e.lru[c] : Entry(e, e.lru[c][i]).time < e.oldest}
  IN SubSeq(e.lru[c], IF old = {} THEN 1 ELSE Max(old) + 1, Len(e.lru[c]))

\* From the head, the entries up to the first one that is older.
Recent(e, c) ==
  LET old == {i \in DOMAIN e.lru[c] : Entry(e, e.lru[c][i]).time < e.oldest}
  IN SubSeq(e.lru[c], 1, IF old = {} THEN Len(e.lru[c]) ELSE Min(old) - 1)

OldestAfterFlush(e) == IF e.now > e.oldest THEN e.now - 1 ELSE e.oldest

\* do_item_unlink for every item of an LRU in xs; the cursor stays.
UnlinkAll(e, xs) ==
  [e EXCEPT !.item = [x \in Chunk |-> IF x \in xs THEN do_item_unlink(e, x).item[x] ELSE @[x]],
            !.lru  = [c \in Class |-> SelectSeq(@[c], LAMBDA x : x \notin xs \/ x = Cursor)]]

item_flush_expired(e) ==
  LET f == [e EXCEPT !.oldest = OldestAfterFlush(e)]
  IN UnlinkAll(f, UNION {ToSet(Recent(f, c)) : c \in Class})

ReapedByStats(e, x) ==
  LET i == Entry(e, x)
  IN /\ \/ e.oldest # 0 /\ e.oldest <= e.now /\ i.time <= e.oldest
        \/ i.exp # 0 /\ i.exp < e.now
     /\ i.ref = 0

\* The dead items at the very tail, as many as are looked at.  The cursor ends
\* the walk: do_item_unlink does not take it out, so it stays the tail.
do_item_stats(e) ==
  LET Reaped(c) ==
        LET n == Len(e.lru[c])
            alive == {i \in 1 .. n : e.lru[c][i] = Cursor
                                       \/ ~ReapedByStats(e, e.lru[c][i])}
            from == Max({0, n - SearchItems} \cup alive) + 1
        IN SubSeq(e.lru[c], from, n)
  IN UnlinkAll(e, UNION {ToSet(Reaped(c)) : c \in Class})

do_item_link_cursor(e, c) == [e EXCEPT !.lru[c] = Append(@, Cursor)]

Scrubbed(e, x) ==
  e.force \/ (e.item[x].ref = 0 /\ e.item[x].exp # 0 /\ e.item[x].exp < e.now)

item_scrub(e, x) == IF Scrubbed(e, x) THEN do_item_unlink(e, x) ELSE e

CursorAt(e, c) == CHOOSE i \in DOMAIN e.lru[c] : e.lru[c][i] = Cursor

\* One step of the cursor towards the head; it leaves the LRU with the head.
StepCursor(e, c) ==
  LET i == CursorAt(e, c)
      x == e.lru[c][i - 1]
      s == Remove(e.lru[c], Cursor)
      q == IF i = 2 THEN s ELSE InsertAt(s, i - 1, Cursor)
  IN item_scrub([e EXCEPT !.lru[c] = q], x)

WalkFurther(e, c) == Contains(e.lru[c], Cursor) /\ CursorAt(e, c) > 1

\* At most `steps' items while items.lock is held.
do_item_walk_cursor(e, c, steps) ==
  FoldSeq(LAMBDA n, f : IF WalkFurther(f, c) THEN StepCursor(f, c) ELSE f,
          e, [n \in 1 .. steps |-> n])
=============================================================================
