------------------------------ MODULE TapMock ------------------------------
(***************************************************************************)
(* The TAP mock engine (engines/tap_mock_engine): calls that are blocked   *)
(* at random and notified from a thread started for each of them, and the  *)
(* TAP connections, which workers walk and an I/O thread notifies and      *)
(* reaps.  A TAP connection is full duplex: it takes requests while it     *)
(* streams.  The documents, a map behind a mutex, are left out.            *)
(*                                                                         *)
(* Whatever runs under one mutex is one step; setBlocked runs outside of   *)
(* the mutex and is a step of its own.  A socket is the server's side of a *)
(* cookie: its reference count, whether it is on the pending list of its   *)
(* worker, what it is doing, and whether the batch it walks has data to    *)
(* send.  rand() is a choice.  An assertion that fails, or an exception on *)
(* a thread of the engine, ends the process.                               *)
(***************************************************************************)
EXTENDS Integers, FiniteSets, FiniteSetsExt

CONSTANTS TapCookies,       \* connections by address, natural numbers
          MaxNotifyThreads  \* bound: threads that notify one connection

ASSUME TapAssumption == TapCookies \subseteq Nat

NoCookie == -1

VARIABLE tm

NoTap == [mapped |-> FALSE, disconnect |-> FALSE, blocked |-> FALSE, reserved |-> FALSE]
FreeSocket == [st |-> "free", ref |-> 0, pending |-> FALSE, sent |-> FALSE]

\* MockEngine::initialize: the callback is registered and the thread runs.
TapInit ==
  tm = [tap |-> [c \in TapCookies |-> NoTap], sock |-> [c \in TapCookies |-> FreeSocket],
        io |-> "top", of |-> NoCookie, told |-> 0, nds |-> [c \in TapCookies |-> 0],
        running |-> TRUE, aborted |-> FALSE]

Aborted(r) == [r EXCEPT !.aborted = TRUE]

-----------------------------------------------------------------------------
(* The server's side *)

\* A client connects, to a bucket that is not being deleted.
TapConnects(c) ==
  /\ tm.running /\ tm.sock[c].st = "free"
  /\ tm' = [tm EXCEPT !.sock[c] = [FreeSocket EXCEPT !.st = "idle", !.ref = 1]]

\* handle_disconnect, from ON_DISCONNECT: only a TAP connection is marked.
handleDisconnect(r, c) ==
  [r EXCEPT !.sock[c].st = "closing", !.sock[c].sent = FALSE,
            !.tap[c].disconnect = @ \/ r.tap[c].mapped]

TapHangsUp(c) ==
  /\ tm.sock[c].st \in {"idle", "ship", "paused"}
  /\ tm' = handleDisconnect(tm, c)

\* notify_io_complete and release put the connection on the pending list.
NotifyIo(r, c) == [r EXCEPT !.sock[c].pending = TRUE]
ReleaseCookie(r, c) == NotifyIo([r EXCEPT !.sock[c].ref = @ - 1], c)

\* conn_pending_close: nobody but the worker refers to the connection.
TapCloses(c) ==
  /\ tm.sock[c].st = "closing" /\ tm.sock[c].ref = 1
  /\ tm' = [tm EXCEPT !.sock[c] = FreeSocket]

\* A message that needs no engine arrives on a paused stream; the log is
\* walked after it.
TapReads(c) ==
  /\ tm.sock[c].st = "paused"
  /\ tm' = [tm EXCEPT !.sock[c].st = "ship"]

-----------------------------------------------------------------------------
(* Requests *)

\* ENGINE_DISCONNECT when the thread cannot be started.
dispatchNotification(r, c) ==
  {handleDisconnect(r, c)} \cup
  (IF r.nds[c] < MaxNotifyThreads
   THEN {[r EXCEPT !.sock[c].st = "waiting", !.nds[c] = @ + 1]} ELSE {})

\* conn_waiting of a connection that streams is conn_ship_log.
Answered(r, c) == [r EXCEPT !.sock[c].st = IF r.tap[c].mapped THEN "ship" ELSE "idle"]

\* One get in five and one store in ten are blocked, before the documents are
\* touched; itemDelete and flush never are.
EngineAnswers(r, c) == dispatchNotification(r, c) \cup {Answered(r, c)}

\* A connection that streams reads when it is about to walk its log, or
\* after a pause.
Reading(r, c) == r.sock[c].st \in {"idle", "ship", "paused"}

MockRequest(c) == Reading(tm, c) /\ tm' \in EngineAnswers(tm, c)

\* The thread of dispatchNotification.  notify_io_complete throws for a
\* connection that is not bound to a worker.
dispatch_notification(c) ==
  /\ ~ tm.aborted /\ tm.nds[c] > 0
  /\ LET r == [tm EXCEPT !.nds[c] = @ - 1]
     IN tm' = IF r.sock[c].st = "free" THEN Aborted(r) ELSE NotifyIo(r, c)

\* The worker takes the connection from its pending list: the request that
\* waited is made again from the start, a paused stream is walked.
TapPending(c) ==
  /\ tm.sock[c].pending /\ tm.sock[c].st \in {"idle", "waiting", "ship", "paused", "closing"}
  /\ LET r == [tm EXCEPT !.sock[c].pending = FALSE]
     IN CASE r.sock[c].st = "waiting" -> tm' \in EngineAnswers(r, c)
          [] r.sock[c].st = "paused" -> tm' = [r EXCEPT !.sock[c].st = "ship"]
          [] OTHER -> tm' = r

-----------------------------------------------------------------------------
(* TAP connections *)

\* The cookie is reserved before the connection is added to the map.  The
\* server takes a TAP_CONNECT from any connection; add_locked asserts that
\* the engine does not know it.
getTapIterator(c) ==
  /\ Reading(tm, c)
  /\ tm' = IF tm.tap[c].mapped THEN Aborted(tm)
           ELSE [tm EXCEPT !.sock[c].ref = @ + 1, !.sock[c].st = "ship",
                           !.tap[c] = [NoTap EXCEPT !.mapped = TRUE]]

\* TapConnMap::get: the connection is reserved for the walker.
TapWalks(c) ==
  /\ tm.sock[c].st \in {"ship", "more"}
  /\ tm' = [tm EXCEPT !.tap[c].reserved = TRUE, !.sock[c].st = "walking"]

\* The event of the walker, with setBlocked for TAP_PAUSE.
TapEvent(c, ev) ==
  /\ tm.sock[c].st = "walking"
  /\ tm' = [tm EXCEPT !.sock[c].st = ev, !.tap[c].blocked = @ \/ ev = "PAUSE"]

\* TapConnMap::release.
Released(r, c) == [r EXCEPT !.tap[c].reserved = FALSE]

\* ship_mcbp_tap_log: a NOOP is put in the batch, which goes on or, after ten
\* events, is sent; a PAUSE sends what is in the batch, and only an empty
\* batch suspends the stream.
TapWalked(c) ==
  LET r == Released(tm, c)
  IN \/ /\ tm.sock[c].st = "NOOP"
        /\ \/ tm' = [r EXCEPT !.sock[c].st = "more", !.sock[c].sent = TRUE]
           \/ tm' = [r EXCEPT !.sock[c].st = "ship", !.sock[c].sent = FALSE]
     \/ /\ tm.sock[c].st = "PAUSE"
        /\ tm' = [r EXCEPT !.sock[c].st = IF tm.sock[c].sent THEN "ship" ELSE "paused",
                           !.sock[c].sent = FALSE]
     \/ tm.sock[c].st = "DISCONNECT" /\ tm' = handleDisconnect(r, c)

-----------------------------------------------------------------------------
(* The I/O thread *)

\* getDisconnected_locked and getBlocked_locked: the first in map order.
Found(set) == IF set = {} THEN NoCookie ELSE Min(set)

Reapable(r) ==
  {c \in TapCookies : r.tap[c].mapped /\ ~ r.tap[c].reserved /\ r.tap[c].disconnect}

Blocked(r) ==
  {c \in TapCookies : r.tap[c].mapped /\ ~ r.tap[c].reserved /\ r.tap[c].blocked}

\* asyncIOThreadMain: three passes in ten reap, the others notify.
IoReaps == tm.io = "top" /\ tm.running /\ tm' = [tm EXCEPT !.io = "reap"]
IoNotifies == tm.io = "top" /\ tm.running /\ tm' = [tm EXCEPT !.io = "notify"]
IoEnds == tm.io = "top" /\ ~ tm.running /\ tm' = [tm EXCEPT !.io = "ended"]

\* reapDisconnected: the connection leaves the map, then the reservation of
\* its cookie is given up.
ReapSwapped(r, c, n) ==
  IF n = 2 THEN [r EXCEPT !.tap[c] = NoTap] ELSE ReleaseCookie(r, c)

ReapStep(r, c, n) ==
  IF n = 1 THEN [r EXCEPT !.tap[c] = NoTap] ELSE ReleaseCookie(r, c)

reapDisconnected ==
  \/ /\ tm.io = "reap"
     /\ LET c == Found(Reapable(tm))
        IN tm' = IF c = NoCookie THEN [tm EXCEPT !.io = "top"]
                 ELSE [ReapStep(tm, c, 1) EXCEPT !.io = "reaping", !.of = c]
  \/ /\ tm.io = "reaping"
     /\ tm' = [ReapStep(tm, tm.of, 2) EXCEPT !.io = "reap", !.of = NoCookie]

\* notifySome: the mark is cleared, then the worker is told.
NotifySwapped(r, c, n) ==
  IF n = 2 THEN [r EXCEPT !.tap[c].blocked = FALSE] ELSE NotifyIo(r, c)

NotifyStep(r, c, n) ==
  IF n = 1 THEN [r EXCEPT !.tap[c].blocked = FALSE] ELSE NotifyIo(r, c)

notifySome ==
  \/ /\ tm.io = "notify"
     /\ LET c == Found(Blocked(tm))
        IN tm' = IF c = NoCookie THEN [tm EXCEPT !.io = "top"]
                 ELSE [tm EXCEPT !.io = "notifying", !.of = c, !.told = 1]
  \/ /\ tm.io = "notifying"
     /\ LET r == NotifyStep(tm, tm.of, tm.told)
        IN tm' = IF tm.told = 1 THEN [r EXCEPT !.told = 2]
                 ELSE [r EXCEPT !.io = "notify", !.of = NoCookie, !.told = 0]

\* ~MockEngine, called when the bucket has no clients left: the thread is
\* joined, and what is left in the map is deleted with it.
DestroyMock ==
  /\ tm.running /\ ~ tm.aborted /\ \A c \in TapCookies : tm.sock[c].st = "free"
  /\ tm' = [tm EXCEPT !.running = FALSE]

-----------------------------------------------------------------------------
IoThread ==
  ~ tm.aborted /\ (reapDisconnected \/ notifySome \/ IoReaps \/ IoNotifies \/ IoEnds)

TapEvents(c) == \E ev \in {"NOOP", "PAUSE", "DISCONNECT"} : TapEvent(c, ev)

TapWorker(c) ==
  /\ ~ tm.aborted
  /\ TapPending(c) \/ TapCloses(c) \/ TapWalks(c) \/ TapEvents(c) \/ TapWalked(c)

TapClient(c) ==
  /\ ~ tm.aborted
  /\ TapConnects(c) \/ TapHangsUp(c) \/ TapReads(c) \/ MockRequest(c) \/ getTapIterator(c)

TapNext ==
  \/ IoThread \/ DestroyMock
  \/ \E c \in TapCookies : TapWorker(c) \/ TapClient(c) \/ dispatch_notification(c)

TapSpec == TapInit /\ [][TapNext]_tm

-----------------------------------------------------------------------------
(* Properties *)

\* A reservation of a cookie is held exactly as long as the engine knows the
\* connection: from getTapIterator until the reaper, which took it out of the
\* map, gives it up.  So no connection is reused while it is in the map, the
\* walker finds its connection there, as get_locked asserts, and the engine is
\* destroyed with an empty map (reapDisconnected, getTapIterator,
\* ~MockEngine).  What add_locked asserts does not follow: a connection that
\* streams may ask for another stream, and the process ends.
CookieHeld ==
  \A c \in TapCookies :
    LET known == tm.tap[c].mapped \/ (tm.io = "reaping" /\ tm.of = c)
    IN /\ tm.sock[c].ref = (IF tm.sock[c].st = "free" THEN 0 ELSE 1) + (IF known THEN 1 ELSE 0)
       /\ tm.sock[c].st \in {"ship", "more", "walking", "NOOP", "PAUSE", "DISCONNECT", "paused"}
            => tm.tap[c].mapped

\* The loops of the I/O thread go on while there is work: connections that
\* pause, or close, again and again keep it from the other kind of pass.  It
\* makes both kinds again and again if its passes end and both outcomes of
\* rand() recur, and the process goes on (asyncIOThreadMain).
BothPasses ==
  /\ []<>(tm.io \in {"reap", "ended"})
  /\ []<>(tm.io \in {"notify", "ended"})

\* A paused stream is not forgotten: while the I/O thread makes both kinds of
\* pass it is notified, however setBlocked of that thread and of the walker
\* interleave (notifySome, tapWalker).
PausedNotified ==
  BothPasses => \A c \in TapCookies : (tm.sock[c].st = "paused") ~> (tm.sock[c].st # "paused")

=============================================================================
