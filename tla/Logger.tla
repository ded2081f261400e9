------------------------------- MODULE Logger -------------------------------
(***************************************************************************)
(* The file logger (extensions/loggers/file_logger.cc).  Threads add lines *)
(* to one of two buffers and wait when it is full; the logger thread swaps *)
(* the buffers, writes the other one to the log file without the lock and  *)
(* starts a new file when the current one has grown.  A message that is    *)
(* repeated is counted instead of added.                                   *)
(*                                                                         *)
(* A line is the number of its arrival in the buffers; how many bytes it   *)
(* takes depends on its text.  Whatever runs with the mutex from one wait  *)
(* to the next is one step.                                                *)
(***************************************************************************)
EXTENDS Integers, Sequences, FiniteSets, Functions, FiniteSetsExt

CONSTANTS LogThreads,   \* the threads that log, strings
          LogTexts,     \* the texts they log, strings
          LineSize,     \* bytes of the line of a text, and of Repeated
          LogBufferSz,  \* buffersz
          CycleSz,      \* cyclesz
          OldFiles,     \* numbers of the log files of earlier processes
          MaxLogs,      \* bound: messages logged
          MaxOpenFails  \* bound: fopen that fails

Repeated == "repeated"  \* the text "Message repeated .. times"

Stopper == "main"   \* the thread that stops the logger

ASSUME LoggerAssumption ==
  /\ \A text \in LogTexts \cup {Repeated} : LineSize[text] \in 1 .. LogBufferSz - 1
  /\ Stopper \notin LogThreads

VARIABLE lg

NoText == "none"

\* find_first_logfile_id: the files are visited in some order; here, the order
\* of their numbers.
find_first_logfile_id(values) ==
  LET after[visited \in SUBSET values] ==
        IF visited = {} THEN 0
        ELSE LET value == Max(visited)
                 id == after[visited \ {value}]
             IN IF value > id THEN value + 1 ELSE id
  IN after[values]

\* memcached_extensions_initialize, up to the start of the logger thread.
LoggerInit ==
  lg = [buf |-> <<<<>>, <<>>>>, offset |-> <<0, 0>>, curr |-> 1, run |-> TRUE, fp |-> -1,
        last |-> [text |-> NoText, count |-> 0],
        nextid |-> find_first_logfile_id(OldFiles), files |-> OldFiles,
        pc |-> "top", due |-> TRUE, signal |-> FALSE, left |-> <<>>, currsize |-> 0,
        call |-> [t \in LogThreads \cup {Stopper} |-> [stage |-> "idle", text |-> NoText, n |-> 0]],
        logs |-> 0, fails |-> 0, ended |-> FALSE, crashed |-> FALSE,
        lines |-> 0, disk |-> <<>>, gone |-> {}]

-----------------------------------------------------------------------------
(* Adding lines *)

Room(r, text) == r.offset[r.curr] + LineSize[text] < LogBufferSz

GettingFull(r) == 4 * r.offset[r.curr] > 3 * LogBufferSz

\* do_add_log_entry, once there is room
do_add_log_entry(r, text) ==
  LET s == [r EXCEPT !.lines = @ + 1, !.buf[r.curr] = Append(@, r.lines + 1),
                     !.offset[r.curr] = @ + LineSize[text]]
  IN [s EXCEPT !.signal = @ \/ (GettingFull(s) /\ s.pc = "wait")]

\* flush_last_log, after its line
LastLogFlushed(r) == [r EXCEPT !.last = [text |-> NoText, count |-> 0]]

Call(stage, text, n) == [stage |-> stage, text |-> text, n |-> n]

\* The thread waits for space_cond before the line of its stage.
WaitForSpace(r, t, stage, text, n) == [r EXCEPT !.call[t] = Call(stage, text, n)]

\* The last message becomes the one just added; the count stays.
LastLog(r, text) == [text |-> text, count |-> r.last.count]

\* The line of the message itself
AddEntry(r, t, text) ==
  IF Room(r, text)
  THEN LET s == do_add_log_entry(r, text)
       IN [s EXCEPT !.last = LastLog(r, text), !.call[t] = Call("idle", NoText, 0)]
  ELSE WaitForSpace(r, t, "entry", text, 0)

\* Stop: logger_shutdown(false) and exit_handler once the count is reported
Stop(r) ==
  [r EXCEPT !.run = FALSE, !.signal = @ \/ r.pc = "wait",
            !.call[Stopper] = Call("join", NoText, 0)]

Proceed(r, t, text) == IF t = Stopper THEN Stop(r) ELSE AddEntry(r, t, text)

\* flush_last_log(false): the line with the count that was formatted before
\* the thread waited
AddRepeated(r, t, text, n) ==
  IF Room(r, Repeated) THEN Proceed(LastLogFlushed(do_add_log_entry(r, Repeated)), t, text)
  ELSE WaitForSpace(r, t, "repeated", text, n)

flush_last_log(r, t, text) ==
  IF r.last.count > 1 THEN AddRepeated(r, t, text, r.last.count) ELSE Proceed(r, t, text)

add_log_entry(r, t, text) ==
  IF r.last.text = text
  THEN [r EXCEPT !.last.count = @ + 1]
  ELSE flush_last_log(r, t, text)

\* logger_log_wrapper and syslog_event_receiver, for a message at or above the
\* current log level (one below it changes nothing).  The log threads have
\* stopped when the logger is stopped.
Log(t, text) ==
  /\ lg.call[t].stage = "idle" /\ ~lg.ended /\ ~lg.crashed
  /\ lg.logs < MaxLogs
  /\ lg' = [add_log_entry(lg, t, text) EXCEPT !.logs = @ + 1]

\* A thread woken by the broadcast looks for room again.
Retry(t) ==
  /\ ~lg.crashed
  /\ LET c == lg.call[t]
     IN \/ c.stage = "repeated!" /\ lg' = AddRepeated(lg, t, c.text, c.n)
        \/ c.stage = "entry!" /\ lg' = AddEntry(lg, t, c.text)

-----------------------------------------------------------------------------
(* Files *)

\* open_logfile: the first number, from next_file_id on, no file has
try_id(r) == Min({i \in r.nextid .. r.nextid + Cardinality(r.files) : i \notin r.files})

\* After a successful open the search goes on behind the file.
Opened(r, id) == [r EXCEPT !.fp = id, !.nextid = id + 1]

\* With no descriptor left access() fails as well, and the search ends at once;
\* a descriptor that is closed before fopen lets that succeed.
open_logfile(r) ==
  {LET s == Opened(r, id) IN [s EXCEPT !.files = @ \cup {id}] :
     id \in {try_id(r)} \cup (IF r.fails < MaxOpenFails THEN {r.nextid} ELSE {})}
  \cup (IF r.fails < MaxOpenFails THEN {[r EXCEPT !.fails = @ + 1, !.fp = -1]} ELSE {})

\* rotate_logfile: when the next file cannot be opened there is no file any more.
rotate_logfile(r) == open_logfile([r EXCEPT !.currsize = 0])

-----------------------------------------------------------------------------
(* The logger thread *)

Other(i) == 3 - i

Woken(c) ==
  IF c.stage = "repeated" THEN [c EXCEPT !.stage = "repeated!"]
  ELSE IF c.stage = "entry" THEN [c EXCEPT !.stage = "entry!"] ELSE c

BroadcastSpace(r) == [r EXCEPT !.call = [t \in DOMAIN @ |-> Woken(@[t])]]

\* Swaps the buffers and lets the lock go.
Flip(r) == [BroadcastSpace(r) EXCEPT !.curr = Other(@), !.due = FALSE, !.pc = "open"]

\* flush_last_log(true) gives up when its line does not fit.
GivesUp(r) == ~Room(r, Repeated)

Timebased(r) ==
  IF r.last.count <= 1 \/ GivesUp(r) THEN [r EXCEPT !.pc = "wait"]
  ELSE IF Room(r, Repeated)
  THEN [LastLogFlushed(do_add_log_entry(r, Repeated)) EXCEPT !.pc = "wait"]
  ELSE [r EXCEPT !.pc = "blocked"]

\* The inner loop, and the way from it into cond_timedwait.
Inner(r) ==
  IF r.due \/ GettingFull(r) THEN {Flip(r)}
  ELSE {Timebased(r)} \cup {[r EXCEPT !.pc = "wait"]}

FlushedCurrent(r) ==
  LET b == r.buf[r.curr]
  IN [r EXCEPT !.disk = @ \o b, !.buf[r.curr] = <<>>, !.offset[r.curr] = 0, !.curr = Other(@)]

FlushedOnce(r) == IF r.buf[r.curr] = <<>> THEN r ELSE FlushedCurrent(r)

\* flush_all_buffers_to_file
flush_all_buffers_to_file(r) == FlushedOnce(FlushedOnce(r))

Discarded(r) == [r EXCEPT !.gone = @ \cup Range(r.buf[1]) \cup Range(r.buf[2]),
                          !.buf = <<<<>>, <<>>>>, !.offset = <<0, 0>>]

\* After the loop: the file is opened when there is something to write.
Ended(r) ==
  {[(IF s.fp # -1 THEN flush_all_buffers_to_file(s) ELSE Discarded(s)) EXCEPT !.pc = "stopped"] :
     s \in IF r.buf[r.curr] # <<>> /\ r.fp = -1 THEN open_logfile(r) ELSE {r}}

LoggerTop ==
  /\ lg.pc = "top"
  /\ lg' \in IF lg.run THEN Inner(lg) ELSE Ended(lg)

\* cond_timedwait returns, by its signal or because sleeptime has passed.
LoggerWakes ==
  /\ lg.pc = "wait"
  /\ \/ lg.signal /\ lg' = [lg EXCEPT !.pc = "top", !.signal = FALSE]
     \/ lg' = [lg EXCEPT !.pc = "top", !.signal = FALSE, !.due = TRUE]

PendingCurrent(r) == r.curr

\* The buffer the logger thread took over.
PendingBuffer(r) == Other(r.curr)

\* Without the lock: a file that could not be opened is tried again.
LoggerOpens ==
  /\ lg.pc = "open"
  /\ \E s \in IF lg.fp = -1 THEN open_logfile(lg) ELSE {lg} :
       lg' = [s EXCEPT !.pc = "write", !.left = s.buf[PendingBuffer(s)]]

\* flush_pending_io: fwrite may write less than it was given; without a file
\* the lines are dropped.
LoggerWrites ==
  /\ lg.pc = "write" /\ lg.left # <<>> /\ lg.fp # -1
  /\ lg' = [lg EXCEPT !.disk = Append(@, Head(lg.left)), !.left = Tail(@)]

\* The buffer is empty, the file is rotated if it has grown beyond CycleSz, and
\* the lock is taken again.
LoggerFlushed ==
  /\ lg.pc = "write" /\ (lg.left = <<>> \/ lg.fp = -1)
  /\ LET b == lg.buf[PendingBuffer(lg)]
         r == [lg EXCEPT !.buf[PendingBuffer(lg)] = <<>>, !.offset[PendingBuffer(lg)] = 0, !.left = <<>>,
                         !.gone = IF lg.fp = -1 THEN @ \cup Range(b) ELSE @,
                         !.currsize = IF lg.fp = -1 THEN @ ELSE @ + lg.offset[PendingBuffer(lg)]]
     IN \E s \in IF r.currsize > CycleSz THEN rotate_logfile(r) ELSE {r} :
          lg' = [s EXCEPT !.pc = "inner"]

LoggerAgain ==
  /\ lg.pc = "inner"
  /\ lg' \in Inner(lg)

logger_thread_main ==
  /\ ~lg.crashed
  /\ \/ LoggerTop \/ LoggerWakes \/ LoggerOpens \/ LoggerWrites \/ LoggerFlushed \/ LoggerAgain

-----------------------------------------------------------------------------
(* The end *)

StopperIdle == lg.call[Stopper].stage = "idle" /\ ~lg.ended /\ ~lg.crashed

LogThreadsIdle == \A t \in LogThreads : lg.call[t].stage = "idle"

\* logger_shutdown(false) reports repetitions first, which may wait.
logger_shutdown ==
  /\ StopperIdle /\ LogThreadsIdle
  /\ lg' = flush_last_log([lg EXCEPT !.ended = TRUE], Stopper, NoText)

exit_handler ==
  /\ StopperIdle /\ LogThreadsIdle
  /\ lg' = Stop([lg EXCEPT !.ended = TRUE])

\* cb_join_thread
Join ==
  /\ lg.call[Stopper].stage = "join" /\ lg.pc = "stopped"
  /\ lg' = [lg EXCEPT !.call[Stopper] = Call("done", NoText, 0)]

\* logger_shutdown(true) in the handler of a fatal signal: no other thread runs
\* any more, whatever it was doing.
ForcedFlush(r) == flush_all_buffers_to_file(r)

LoggerCrash ==
  /\ ~lg.crashed /\ ~lg.ended
  /\ lg' = [(IF lg.fp # -1 THEN ForcedFlush(lg) ELSE lg) EXCEPT !.crashed = TRUE]

LogWaiters == \E t \in LogThreads \cup {Stopper} : Retry(t)

LoggerNext ==
  \/ \E t \in LogThreads, text \in LogTexts : Log(t, text)
  \/ LogWaiters \/ logger_thread_main
  \/ logger_shutdown \/ exit_handler \/ Join \/ LoggerCrash

LoggerSpec == LoggerInit /\ [][LoggerNext]_lg

-----------------------------------------------------------------------------
(* Properties *)

Buffered == Range(lg.buf[1]) \cup Range(lg.buf[2])

\* Every line added to a buffer is in the log exactly once and in the order of
\* the additions, unless it is still in a buffer or was dropped because no file
\* could be opened, although the logger thread writes a buffer without the lock
\* while others add to the other one.
LogExact ==
  ~lg.crashed =>
    /\ \A i \in 1 .. Len(lg.disk) - 1 : lg.disk[i] < lg.disk[i + 1]
    /\ Range(lg.disk) \cup Buffered \cup lg.gone = 1 .. lg.lines
    /\ Range(lg.disk) \cap lg.gone = {}
    /\ lg.pc = "stopped" => Buffered = {}

=============================================================================
