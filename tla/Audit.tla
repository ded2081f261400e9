------------------------------- MODULE Audit -------------------------------
(***************************************************************************)
(* The audit daemon (auditd.cc, audit.cc, event.cc) and its file           *)
(* (auditfile.cc): threads of the server put events into a queue, a thread *)
(* swaps it with a second one, processes the events in it and writes them  *)
(* to audit.log, which it renames when it is full or old, when the         *)
(* configuration names another directory, and when auditing is disabled.   *)
(*                                                                         *)
(* An event is known by the number of the call that put it.  A file is a   *)
(* sequence of events, its name is <<directory, time, count>>, and         *)
(* <<directory, 0, 0>> is the audit.log.  A function that may fail is an   *)
(* operator from a state to the set of states it may leave behind.         *)
(***************************************************************************)
EXTENDS Integers, Sequences, FiniteSets, SequencesExt

CONSTANTS
  AuditConfigs,    \* files of configuration: [enabled, dir, buffered]
  MaxAuditQueue,   \* max_audit_queue
  RotateInterval,  \* rotate_interval
  RotateSize,      \* rotate_size, in events
  UIntRange,       \* 2^32, the range of the time to wait
  MaxNow,          \* bound: the last second
  MaxPuts,         \* bound: calls that put an event
  MaxMishaps       \* bound: failures of files, memory and configurations, and kills

VARIABLE au  \* the daemon, its disk and the clock

(* Fields of au:                                                           *)
(*   at, main      where the consumer thread and the shutdown are          *)
(*   fill, proc    filleventqueue, processeventqueue                       *)
(*   signal        the waiting consumer has been signalled                 *)
(*   terminate     terminate_audit_daemon                                  *)
(*   deadline      when the consumer stops waiting                         *)
(*   enabled, known  auditing is enabled; the descriptors are loaded       *)
(*   open, dir, time, size, buffered   fields of AuditFile                 *)
(*   buffer        events in the buffer of the open file                   *)
(*   files         the files on disk, a function of their names            *)
(*   stamp         when each event was put                                 *)
(*   kept          events that reached the disk                            *)
(*   lost          events in files whose place another one has taken       *)
(*   answered      configurations whose connection has been notified       *)
(*   ok            the result of the last function                         *)
(*   now, mishaps, killed                                                  *)

AuditInit ==
  au = [at |-> "off", main |-> "up", fill |-> <<>>, proc |-> <<>>, signal |-> FALSE,
        terminate |-> FALSE, deadline |-> 0, enabled |-> FALSE, known |-> FALSE,
        open |-> FALSE, dir |-> "none", time |-> 0, size |-> 0, buffered |-> TRUE,
        buffer |-> <<>>, files |-> <<>>, stamp |-> <<>>, kept |-> {},
        lost |-> {}, answered |-> {}, now |-> 1, mishaps |-> 0, killed |-> FALSE, ok |-> TRUE]

AuditRunning == au.at \notin {"off", "gone"}

\* The process is gone, and started again later: what is left is the disk.
Crash(x) ==
  [x EXCEPT !.at = "off", !.main = "up", !.fill = <<>>, !.proc = <<>>, !.signal = FALSE,
            !.terminate = FALSE, !.deadline = 0, !.enabled = FALSE, !.known = FALSE,
            !.open = FALSE, !.dir = "none", !.time = 0, !.size = 0, !.buffered = TRUE,
            !.buffer = <<>>, !.ok = TRUE]

\* Functions that may fail leave ok FALSE; Then runs the rest if all is well.
Failed(x) == IF x.mishaps < MaxMishaps THEN {[x EXCEPT !.mishaps = @ + 1, !.ok = FALSE]} ELSE {}
Unreported(x) == [x EXCEPT !.ok = TRUE]
Then(states, Rest(_)) == UNION {IF x.ok THEN Rest(x) ELSE {x} : x \in states}

-----------------------------------------------------------------------------
(* AuditFile *)

Live(d) == <<d, 0, 0>>
FileExists(x, name) == name \in DOMAIN x.files
Content(x, name) == IF FileExists(x, name) THEN ToSet(x.files[name]) ELSE {}
Without(files, name) == [f \in DOMAIN files \ {name} |-> files[f]]
With(files, name, content) ==
  [f \in DOMAIN files \cup {name} |-> IF f = name THEN content ELSE files[f]]

\* The buffer reaches the disk.
Synced(x) ==
  [x EXCEPT !.files = With(@, Live(x.dir), x.files[Live(x.dir)] \o x.buffer),
            !.kept = @ \cup ToSet(x.buffer), !.buffer = <<>>]

PlainArchiveName(x) == <<x.dir, x.time, 0>>

\* The first name for the second the file was opened in that is not in use.
ArchiveName(x) ==
  LET free == {n \in 0 .. MaxPuts : ~FileExists(x, <<x.dir, x.time, n>>)}
  IN <<x.dir, x.time, CHOOSE n \in free : \A k \in free : n <= k>>

\* An empty file is removed, and open_time stays.
close_and_rotate_log(x) ==
  LET y == [Synced(x) EXCEPT !.open = FALSE]
      live == Live(x.dir)
      done == [y EXCEPT !.size = 0, !.time = 0]
  IN  IF x.size = 0
      THEN {[y EXCEPT !.files = Without(@, live)]}
      ELSE {[done EXCEPT !.files = With(Without(@, live), ArchiveName(x), y.files[live])]}
             \cup {[z EXCEPT !.ok = x.ok] : z \in Failed(done)}

close(x) == IF x.open THEN close_and_rotate_log(x) ELSE {x}

time_to_rotate_log(x) == x.now - x.time > RotateInterval \/ x.size > RotateSize

maybe_rotate_files(x) ==
  IF x.open /\ time_to_rotate_log(x) THEN close_and_rotate_log(x) ELSE {x}

\* Asserts that open_time is 0.  An audit.log that exists is truncated.
open(x) ==
  IF x.time # 0 THEN {Crash(x)}
  ELSE {[x EXCEPT !.open = TRUE, !.size = 0, !.time = x.now,
                  !.files = With(@, Live(x.dir), <<>>),
                  !.lost = @ \cup Content(x, Live(x.dir))]}
         \cup Failed(x)

ensure_open(x) == UNION {IF y.open THEN {y} ELSE open(y) : y \in maybe_rotate_files(x)}

flush(x) ==
  IF ~x.open THEN {x}
  ELSE {Synced(x)}
         \cup UNION {close_and_rotate_log(y) : y \in Failed([x EXCEPT !.buffer = <<>>])}

\* Without memory for its text an event is not written, and nothing is reported.
write_event_to_disk(x, n) ==
  LET y == [x EXCEPT !.size = @ + 1]
      written == [y EXCEPT !.buffer = Append(@, n)]
  IN  (IF x.buffered THEN {written} ELSE flush(written))
        \cup {Unreported(z) : z \in Failed(x)}
        \cup UNION {close_and_rotate_log(z) : z \in Failed(y)}

set_log_directory(x, d) ==
  IF x.dir = d THEN {x} ELSE {[y EXCEPT !.dir = d] : y \in close(x)}

reconfigure(x, config) ==
  {[y EXCEPT !.buffered = config.buffered] : y \in set_log_directory(x, config.dir)}

\* What an earlier process left behind is named after its first event, even if a
\* file of this name exists.
cleanup_old_logfile(x, d) ==
  LET old == x.files[Live(d)]
      name == <<d, x.stamp[old[1]], 0>>
  IN  IF ~FileExists(x, Live(d)) THEN {x}
      ELSE {IF old = <<>> THEN [x EXCEPT !.files = Without(@, Live(d))]
            ELSE [x EXCEPT !.files = With(Without(@, Live(d)), name, old),
                           !.lost = @ \cup Content(x, name)]}
             \cup Failed(x)

-----------------------------------------------------------------------------
(* Configuration *)

\* A bad configuration changes nothing.
initialize_config(x, config) == {[x EXCEPT !.enabled = config.enabled]} \cup Failed(x)

\* Failing on the way leaves none of the descriptors.
process_module_descriptor(x) ==
  {[x EXCEPT !.known = TRUE]} \cup Failed(x) \cup Failed([x EXCEPT !.known = FALSE])

\* The trail tells that auditing has been configured.  A failure is counted only.
Configured(x, n) ==
  {IF y.at = "off" THEN y ELSE Unreported(y) :
     y \in Then(ensure_open(x), LAMBDA y : write_event_to_disk(y, n))}

configure(x, n, config) ==
  LET loaded == initialize_config(x, config)
      cleaned == Then(loaded, LAMBDA y : IF y.open THEN {y} ELSE cleanup_old_logfile(y, config.dir))
      described == Then(cleaned, process_module_descriptor)
      moved == Then(described, LAMBDA y : reconfigure(y, config))
      told == Then(moved, LAMBDA y : IF x.enabled \/ config.enabled THEN Configured(y, n) ELSE {y})
  IN  Then(told, LAMBDA y : IF config.enabled THEN {y} ELSE close(y))

\* The number of the next event.
Stamped(x) == [x EXCEPT !.stamp = Append(@, x.now)]

\* Without a configuration the server does not start.
start_auditdaemon(config) ==
  /\ au.at = "off" /\ Len(au.stamp) < MaxPuts
  /\ au' \in {IF x.ok THEN [x EXCEPT !.at = "loop"] ELSE Crash(x) :
               x \in configure([Stamped(au) EXCEPT !.at = "starting"], Len(au.stamp) + 1, config)}

-----------------------------------------------------------------------------
(* Producers *)

Broadcast(x) == [x EXCEPT !.signal = (x.at = "waiting")]

Push(x, event) == [x EXCEPT !.fill = Append(@, event)]

add_to_filleventqueue(x, event) ==
  IF Len(x.fill) < MaxAuditQueue THEN Broadcast(Push(Stamped(x), event))
  ELSE Stamped(x)

Put(kind, config) ==
  /\ AuditRunning /\ Len(au.stamp) < MaxPuts
  /\ au' = add_to_filleventqueue(au, [n |-> Len(au.stamp) + 1, kind |-> kind, config |-> config])

put_audit_event == au.enabled /\ Put("event", {})
configure_auditdaemon == \E config \in AuditConfigs : Put("configure", {config})

-----------------------------------------------------------------------------
(* The consumer *)

FrontEvent(x) == Head(x.proc)

\* A failure to open or to write is reported with a null pointer for the text,
\* from which std::string cannot be made: the thread does not survive it.
ProcessEvent(x, event) ==
  IF ~x.enabled \/ ~x.known THEN {x}
  ELSE {IF y.ok THEN y ELSE Crash(y) :
          y \in Then(ensure_open(x), LAMBDA y : write_event_to_disk(y, event.n))}

\* The connection is told the result.
ProcessConfigure(x, event) ==
  {IF y.at = "off" THEN y ELSE [Unreported(y) EXCEPT !.answered = @ \cup {event.n}] :
     y \in UNION {configure(x, event.n, config) : config \in event.config}}

Popped(x) == IF x.at = "process" THEN [x EXCEPT !.proc = Tail(@)] ELSE x

\* uint32_t arithmetic.
get_seconds_to_rotation(x) ==
  IF x.open THEN (RotateInterval - (x.now - x.time)) % UIntRange ELSE RotateInterval

Swap(x) == [x EXCEPT !.proc = x.fill, !.fill = <<>>, !.at = "process", !.signal = FALSE]

\* The lock is held from the test of terminate_audit_daemon to the wait.
ConsumerLoops ==
  /\ au.at = "loop"
  /\ IF au.terminate
     THEN au' \in {[x EXCEPT !.at = "stopped"] : x \in close(au)}
     ELSE IF au.fill = <<>>
     THEN au' = [au EXCEPT !.at = "waiting", !.deadline = au.now + get_seconds_to_rotation(au)]
     ELSE au' = Swap(au)

ConsumerWakes ==
  /\ au.at = "waiting"
  /\ au.signal \/ au.now >= au.deadline
  /\ au' \in {[Swap(x) EXCEPT !.deadline = 0] :
               x \in IF au.fill = <<>> THEN maybe_rotate_files(au) ELSE {au}}

ConsumerProcesses ==
  /\ au.at = "process"
  /\ IF au.proc = <<>>
     THEN au' \in {[Unreported(x) EXCEPT !.at = "loop"] : x \in flush(au)}
     ELSE LET event == FrontEvent(au)
          IN au' \in {Popped(x) : x \in IF event.kind = "configure" THEN ProcessConfigure(au, event)
                                        ELSE ProcessEvent(au, event)}

consume_events == ConsumerLoops \/ ConsumerWakes \/ ConsumerProcesses

-----------------------------------------------------------------------------
(* Shutdown *)

\* The last event; when the queue is full the daemon is stopped all the same.
shutdown_auditdaemon ==
  /\ AuditRunning /\ au.main = "up" /\ Len(au.stamp) < MaxPuts
  /\ LET x == [au EXCEPT !.main = "clean_up"]
     IN au' = IF au.enabled
              THEN add_to_filleventqueue(x, [n |-> Len(au.stamp) + 1, kind |-> "shutdown", config |-> {}])
              ELSE x

TerminateSignalled(x) == [Broadcast(x) EXCEPT !.main = "join"]

terminate_consumer_thread ==
  \/ au.main = "clean_up" /\ au' = [au EXCEPT !.terminate = TRUE, !.main = "signal"]
  \/ au.main = "signal" /\ au' = TerminateSignalled(au)

\* After the thread has been joined the queues are cleared and the daemon is
\* deleted.
clean_up ==
  /\ au.main = "join" /\ au.at = "stopped"
  /\ au' = [au EXCEPT !.at = "gone", !.main = "done", !.fill = <<>>, !.proc = <<>>, !.enabled = FALSE]

AuditShutdown == terminate_consumer_thread \/ clean_up

\* A second passes; a batch of events is processed within a second.
AuditTime == au.at \in {"loop", "waiting"} /\ au.now < MaxNow /\ au' = [au EXCEPT !.now = @ + 1]

Killed ==
  /\ AuditRunning /\ au.mishaps < MaxMishaps
  /\ au' = [Crash(au) EXCEPT !.killed = TRUE, !.mishaps = @ + 1]

AuditNext ==
  \/ \E config \in AuditConfigs : start_auditdaemon(config)
  \/ put_audit_event \/ configure_auditdaemon \/ consume_events
  \/ shutdown_auditdaemon \/ AuditShutdown
  \/ AuditTime \/ Killed

-----------------------------------------------------------------------------
(* Properties *)

Events(name) == ToSet(au.files[name])

\* The order that the names of the files give.
Before(a, b) ==
  /\ a[1] = b[1] /\ a[2] # 0
  /\ \/ b[2] = 0
     \/ a[2] < b[2]
     \/ a[2] = b[2] /\ a[3] < b[3]

\* What has been written to disk stays on disk, through rotations in the same
\* second, changes of the directory, failures and crashes, unless a file takes
\* the place of the one it is in: an audit.log that could not be renamed, or that
\* a crashed process left in a directory auditing moves to, is truncated, and
\* what a crashed process left behind is renamed to the name of another file
\* (close_and_rotate_log, open, cleanup_old_logfile).  The names of the files, and
\* the order within them, give the order in which the events were put, as long
\* as the process has not been killed (consume_events, close_and_rotate_log).
TrailKept ==
  /\ \A n \in au.kept \ au.lost : \E name \in DOMAIN au.files : n \in Events(name)
  /\ \A name \in DOMAIN au.files : \A i, j \in DOMAIN au.files[name] :
       i < j => au.files[name][i] < au.files[name][j]
  /\ \A a, b \in DOMAIN au.files :
       Before(a, b) /\ ~au.killed =>
         \A m \in Events(a), n \in Events(b) : m < n

=============================================================================
