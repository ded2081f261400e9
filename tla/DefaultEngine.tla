---------------------------- MODULE DefaultEngine ----------------------------
(***************************************************************************)
(* One instance of the default engine (engines/default_engine): worker     *)
(* threads call its interface, each section under items.lock is one step,  *)
(* while the scrubber thread walks the LRU with a cursor and finally       *)
(* destroys the instance.                                                  *)
(***************************************************************************)
EXTENDS Items

CONSTANTS
  Thread,     \* worker threads
  Values,     \* values of documents
  Initial,    \* those that clients store; arithmetic makes the others
  Delta(_),   \* value after an arithmetic operation
  Exptimes,   \* expiry times of new documents, 0: never
  TouchTimes, \* expiry times of TOUCH
  ScrubStep,  \* items the scrubber visits while it holds items.lock
  MaxTime,    \* bound: last value of the clock
  MaxCas,     \* bound: number of versions
  MaxScrubs,  \* bound: scrub commands
  MaxLeaks    \* bound: references that are lost

ASSUME InitialAssumption == Initial \subseteq Values

VARIABLES
  e,      \* state of the items
  th,     \* [Thread -> what the thread does and the item it holds]
  queue,  \* work of the scrubber: TRUE stands for destroy
  scrub,  \* the scrubber: running flag, program counter, class, destroy
  life,   \* live, dying: destruction is requested, gone
  scrubs, \* scrub commands so far
  leaked  \* history: [Chunk -> references that nobody will give back]

vars == <<e, th, queue, scrub, life, scrubs, leaked>>

\* A thread is idle, has a new item, is about to unlink an item for a delete, or
\* has an item that it gives back next, at the end of the call or of the request.
Idle == [pc |-> "idle", it |-> NoItem]

ScrubIdle == [running |-> FALSE, pc |-> "wait", class |-> 0, destroy |-> FALSE]

\* The uptime, which is the time of the items, counts from 0.
Init ==
  /\ e = EmptyEngine(0)
  /\ th = [t \in Thread |-> Idle]
  /\ queue = <<>> /\ scrub = ScrubIdle /\ life = "live" /\ scrubs = 0
  /\ leaked = [x \in Chunk |-> 0]

\* The engine after a step that hands a new item to somebody and loses the
\* reference to another one.
EngineBecomes(f, fresh, lost) ==
  /\ e' = f
  /\ leaked' = [x \in Chunk |->
                 IF ~InUse(e', x) \/ x = fresh THEN 0
                 ELSE leaked[x] + IF x = lost THEN 1 ELSE 0]

Changes(f) == EngineBecomes(f, NoItem, NoItem)

Becomes(t, pc, x) == th' = [th EXCEPT ![t] = [pc |-> pc, it |-> x]]

\* The thread is about to call an engine whose memory is intact.
Calls(t) == th[t].pc = "idle" /\ life = "live" /\ ~e.broken

Holds(t, pc) == th[t].pc = pc /\ ~e.broken

Rest == UNCHANGED <<queue, scrub, life, scrubs>>

-----------------------------------------------------------------------------
(* The interface *)

default_item_allocate(t, k, v, exp) ==
  /\ Calls(t)
  /\ \E a \in {do_item_alloc(e, k, v, exp)} :
       /\ EngineBecomes(a.e, a.it, NoItem)
       /\ IF a.it \in Chunk THEN Becomes(t, "new", a.it) ELSE UNCHANGED th
  /\ Rest

\* The CAS of the request is written to the item first; nobody reads it from an
\* item that was not stored.
default_store(t, op, cas) ==
  LET x == th[t].it
  IN /\ Holds(t, "new")
     /\ \E s \in {do_store_item([e EXCEPT !.item[x].cas = cas], x, op)} :
          /\ s.e.cas <= MaxCas
          /\ Changes(IF s.st = "SUCCESS" THEN s.e ELSE [s.e EXCEPT !.item[x].cas = 0])
     /\ Becomes(t, "have", x)
     /\ Rest

\* The vbucket is not active; the other calls then return without any effect.
StoreRefused(t) ==
  /\ Holds(t, "new")
  /\ Becomes(t, "have", th[t].it)
  /\ UNCHANGED <<e, leaked>> /\ Rest

Released(t) == Idle

default_item_release(t) ==
  /\ th[t].pc \in {"new", "have"} /\ ~e.broken
  /\ Changes(do_item_release(e, th[t].it))
  /\ th' = [th EXCEPT ![t] = Released(t)]
  /\ Rest

default_get(t, k) ==
  /\ Calls(t)
  /\ \E g \in {do_item_get(e, k)} :
       /\ Changes(g.e)
       /\ IF g.it # NoItem THEN Becomes(t, "have", g.it) ELSE UNCHANGED th
  /\ Rest

\* The CAS of the item is compared after items.lock is released.
DeleteLookup(t, k, cas) ==
  /\ Calls(t)
  /\ \E g \in {do_item_get(e, k)} :
       /\ Changes(g.e)
       /\ IF g.it = NoItem THEN UNCHANGED th
          ELSE Becomes(t, IF cas = 0 \/ cas = e.item[g.it].cas THEN "delete" ELSE "have", g.it)
  /\ Rest

Unlinked(f, x) == do_item_unlink(f, x)

DeleteUnlink(t) ==
  /\ Holds(t, "delete")
  /\ Changes(Unlinked(e, th[t].it))
  /\ Becomes(t, "have", th[t].it)
  /\ Rest

\* Without an initial value no document is created.  Whether the text of a
\* document is a number, and whether the new number is as long as the old one,
\* are inputs.
default_arithmetic(t, k, initial, exp, number, fits) ==
  LET create == initial # NoItem
      result == [v \in Values |-> IF number THEN Delta(v) ELSE NoItem]
  IN /\ Calls(t)
     /\ \E a \in {do_arithmetic(e, k, create, initial, exp, fits, result)} :
          /\ a.e.cas <= MaxCas
          /\ a.lost # NoItem => MapThenSumSet(LAMBDA x : leaked[x], Chunk) < MaxLeaks
          /\ EngineBecomes(a.e, a.it, a.lost)
          /\ IF a.it # NoItem THEN Becomes(t, "have", a.it) ELSE UNCHANGED th
     /\ Rest

\* TOUCH, GAT and GATQ.
touch(t, k, exp) ==
  /\ Calls(t)
  /\ \E g \in {do_touch_item(e, k, exp)} :
       /\ Changes(g.e)
       /\ IF g.it # NoItem THEN Becomes(t, "have", g.it) ELSE UNCHANGED th
  /\ Rest

default_flush(t) ==
  /\ Calls(t)
  /\ UNCHANGED th /\ Rest
  /\ Changes(item_flush_expired(e))

default_get_stats(t) ==
  /\ Calls(t)
  /\ Changes(do_item_stats(e))
  /\ UNCHANGED th /\ Rest

-----------------------------------------------------------------------------
(* The scrubber *)

placeOnWorkQueue(destroy) ==
  /\ queue' = Append(queue, destroy)
  /\ e' = [e EXCEPT !.force = destroy]

\* EBUSY while a scrub runs.
scrub_cmd(t) ==
  /\ Calls(t) /\ ~scrub.running /\ scrubs < MaxScrubs
  /\ placeOnWorkQueue(FALSE)
  /\ scrub' = [scrub EXCEPT !.running = TRUE]
  /\ scrubs' = scrubs + 1
  /\ UNCHANGED <<th, life, leaked>>

\* The bucket is deleted when no thread is in the engine any more.
default_destroy ==
  /\ life = "live" /\ ~e.broken
  /\ \A t \in Thread : th[t].pc = "idle"
  /\ placeOnWorkQueue(TRUE)
  /\ life' = "dying"
  /\ UNCHANGED <<th, scrub, scrubs, leaked>>

ScrubberTakes ==
  /\ scrub.pc = "wait" /\ queue # <<>> /\ ~e.broken
  /\ queue' = Tail(queue)
  /\ scrub' = [scrub EXCEPT !.pc = "class", !.class = 1, !.destroy = Head(queue)]
  /\ UNCHANGED <<e, th, life, scrubs, leaked>>

\* Classes without items are skipped.
ScrubberLinks ==
  /\ scrub.pc = "class" /\ scrub.class \in Class /\ ~e.broken
  /\ IF e.lru[scrub.class] = <<>>
     THEN /\ scrub' = [scrub EXCEPT !.class = @ + 1]
          /\ UNCHANGED e
     ELSE /\ e' = do_item_link_cursor(e, scrub.class)
          /\ scrub' = [scrub EXCEPT !.pc = "walk"]
  /\ UNCHANGED <<th, queue, life, scrubs, leaked>>

\* The walk is over when the cursor has no predecessor.  It has left the LRU,
\* unless it became the head because others removed what was in front of it:
\* then the LRU keeps a pointer into the stack of the scrubber.
item_scrub_class ==
  /\ scrub.pc = "walk" /\ ~e.broken
  /\ \E f \in {do_item_walk_cursor(e, scrub.class, ScrubStep)} :
       LET more == WalkFurther(f, scrub.class)
       IN /\ Changes(IF ~more /\ Contains(f.lru[scrub.class], Cursor)
                     THEN [f EXCEPT !.broken = TRUE] ELSE f)
          /\ scrub' = IF more THEN scrub ELSE [scrub EXCEPT !.pc = "class", !.class = @ + 1]
  /\ UNCHANGED <<th, queue, life, scrubs>>

ScrubberDone ==
  /\ scrub.pc = "class" /\ scrub.class \notin Class /\ ~e.broken
  /\ scrub' = ScrubIdle
  /\ life' = IF scrub.destroy THEN "gone" ELSE life
  /\ UNCHANGED <<e, th, queue, scrubs, leaked>>

Tick ==
  /\ e.now < MaxTime /\ ~e.broken
  /\ e' = [e EXCEPT !.now = @ + 1]
  /\ UNCHANGED <<th, queue, scrub, life, scrubs, leaked>>

-----------------------------------------------------------------------------

Scrubber == ScrubberTakes \/ ScrubberLinks \/ item_scrub_class \/ ScrubberDone

Worker(t) ==
  \/ \E k \in Keys, v \in Initial, exp \in Exptimes : default_item_allocate(t, k, v, exp)
  \/ \E op \in StoreOps :
       \E cas \in IF op = "CAS" THEN 1 .. MaxCas ELSE {0} : default_store(t, op, cas)
  \/ StoreRefused(t)
  \/ default_item_release(t)
  \/ \E k \in Keys : default_get(t, k)
  \/ \E k \in Keys, cas \in 0 .. MaxCas : DeleteLookup(t, k, cas)
  \/ DeleteUnlink(t)
  \/ \E k \in Keys, v \in Initial \cup {NoItem}, exp \in Exptimes, number \in BOOLEAN :
       \E fits \in {FALSE, number} : default_arithmetic(t, k, v, exp, number, fits)
  \/ \E k \in Keys, exp \in TouchTimes : touch(t, k, exp)
  \/ default_flush(t)
  \/ default_get_stats(t)
  \/ scrub_cmd(t)

Next == (\E t \in Thread : Worker(t)) \/ Scrubber \/ default_destroy \/ Tick

Spec == Init /\ [][Next]_vars

-----------------------------------------------------------------------------
(* Properties *)

TypeOK ==
  /\ \A x \in Chunk :
       /\ e.item[x].key \in Keys \cup {NoItem} /\ e.item[x].ref \in Nat
       /\ e.item[x].linked \in BOOLEAN /\ e.item[x].time <= e.now
  /\ \A c \in Class : e.lru[c] \in Seq(Chunk \cup {Cursor}) /\ e.pages[c] \in Nat
  /\ \A t \in Thread :
       /\ th[t].pc \in {"idle", "new", "have", "delete"}
       /\ th[t].it \in Chunk \cup {NoItem} /\ (th[t].it = NoItem) = (th[t].pc = "idle")
  /\ queue \in Seq(BOOLEAN) /\ life \in {"live", "dying", "gone"}
  /\ scrub.pc \in {"wait", "class", "walk"} /\ scrub.class \in 0 .. Cardinality(Class) + 1

Holders(x) == Cardinality({t \in Thread : th[t].it = x})

\* The reference count of an item (items.c) is the number of threads that hold
\* it, plus the references that arithmetic operations have lost: no item is
\* freed while a thread uses it and no other operation leaks one.
RefcountExact ==
  ~e.broken => \A x \in Chunk :
    IF InUse(e, x) THEN e.item[x].ref = Holders(x) + leaked[x] ELSE Holders(x) = 0

\* Hash table, LRU and flags agree (the asserts of item_link_q, item_unlink_q
\* and assoc_insert): an item is linked exactly if it is once in the LRU of its
\* class, no key is linked twice, and an item that is neither linked nor
\* referenced has been freed.
LinksAgree ==
  ~e.broken =>
  /\ \A x \in Chunk :
       /\ e.item[x].linked <=> Contains(e.lru[x[1]], x)
       /\ InUse(e, x) => e.item[x].linked \/ e.item[x].ref > 0
  /\ \A c \in Class : \A i, j \in DOMAIN e.lru[c] :
       /\ e.lru[c][i] = e.lru[c][j] => i = j
       /\ e.lru[c][i] \in Chunk => e.lru[c][i][1] = c
  /\ \A x, y \in Chunk :
       e.item[x].linked /\ e.item[y].linked /\ e.item[x].key = e.item[y].key => x = y

Visible(k) ==
  After(assoc_find(e, k), LAMBDA x :
    IF x = NoItem \/ Flushed(e, x) \/ Expired(e, x) THEN NoItem
    ELSE [val |-> e.item[x].val, cas |-> e.item[x].cas])

Store == INSTANCE KVStore WITH Key <- Keys, Absent <- NoItem,
                               kv <- [k \in Keys |-> Visible(k)], lastCas <- e.cas

\* The engine implements a cache with CAS: versions are immutable, have fresh
\* CAS values, and do not come back once they were deleted, flushed or expired.
ImplementsStore == Store!KVSpec

\* items.c:886, item_flush_expired: "The LRU is sorted in decreasing time order
\* [...] The oldest_live checking will auto-expire the remaining items": when a
\* flush returns no document is visible, unless the flush met the cursor of the
\* scrubber, a zeroed item that ends its walk too early.
FlushedGone ==
  [][(\E t \in Thread : default_flush(t)) =>
       \/ \A k \in Keys : Visible(k)' = NoItem
       \/ \E c \in Class : Contains(e.lru[c], Cursor)]_vars
=============================================================================
