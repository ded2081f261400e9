------------------------- MODULE WorkerThreadProofs -------------------------
(***************************************************************************)
(* Proofs about a worker thread with any number of connections: no wakeup  *)
(* is lost, and no connection is destroyed while an engine, a task or one  *)
(* of the worker's lists refers to it.  And about the authentication of    *)
(* one connection (Sasl), for any users and passwords.                     *)
(***************************************************************************)
EXTENDS WorkerThread, Sasl, TLAPS

\* What the proofs need of the types.
WorkerTypes ==
  /\ state \in [Conn -> State]
  /\ go \in [Conn -> {"new_cmd", "closing", "ship_log"}]
  /\ refcount \in [Conn -> Nat]
  /\ DOMAIN dcp = Conn /\ DOMAIN ewb = Conn /\ DOMAIN registered = Conn
  /\ DOMAIN held = Conn /\ DOMAIN owed = Conn /\ DOMAIN paused = Conn
  /\ pendingIo \subseteq Conn /\ todo \subseteq Conn
  /\ cur \in Conn \cup {None}
  /\ sends \in Nat
  /\ wpc \in {"loop", "drained", "process", "event", "stopped"}

\* A connection is run, and the worker's own list is not empty, only while the
\* worker holds its lock; nobody adds to pending_io meanwhile.
LoopInv ==
  /\ cur # None => wpc \in {"process", "event"}
  /\ todo # {} => wpc = "process"
  /\ wpc = "process" => pendingIo = {}

\* The cookie of c is reserved: c is not about to be destroyed, and counts one
\* reference more.  A connection that streams is reserved until it is closed.
HeldInv(c) ==
  /\ held[c] => c \in Alive /\ state[c] # "immediate_close"
  /\ paused[c] => held[c]
  /\ dcp[c] /\ c \in Open => held[c]
  /\ dcp[c] => state[c] \notin {"none", "queued"}
  /\ state[c] = "ship_log" => dcp[c]
  /\ go[c] = "ship_log" => dcp[c]
  /\ c \in Alive /\ held[c] => refcount[c] = 2
  /\ c \in Alive /\ ~held[c] => refcount[c] = 1

\* Somebody will notify c.  Unless its cookie is reserved, nothing else can run
\* it: it is out of libevent and on no list, and no shutdown wakes it up.
OwedInv(c) ==
  owed[c] /\ ~held[c] =>
    /\ state[c] \in {"nread", "task"} /\ ewb[c] /\ ~registered[c]
    /\ cur # c /\ c \notin pendingIo \cup todo

\* Events are for open sockets; what is on a list is not being run; who is about
\* to be destroyed is.
ListInv(c) ==
  /\ registered[c] => c \in Open
  /\ c \in pendingIo \cup todo => c \in Alive /\ cur # c
  /\ state[c] = "immediate_close" => cur = c

ConnInv(c) == HeldInv(c) /\ OwedInv(c) /\ ListInv(c)

WorkerIInv ==
  /\ WorkerTypes /\ LoopInv /\ WakeupOnItsWay
  /\ \A c \in Conn : ConnInv(c)

-----------------------------------------------------------------------------
(* What a function of the state machine changes.                           *)

OpenState == State \ {"none", "queued", "destroyed", "pending_close", "immediate_close"}

\* g is f except, perhaps, for c.
SameBut(f, g, c) == DOMAIN g = DOMAIN f /\ \A d \in Conn : d # c => g[d] = f[d]

\* The open connection c is put into another state, and its event may change.
Moves(c) ==
  /\ SameBut(state, state', c) /\ SameBut(registered, registered', c)
  /\ state' \in [Conn -> State] /\ state'[c] \in OpenState
  /\ state'[c] = "ship_log" => dcp[c]
  /\ cur' \in {cur, None}

\* Only what concerns c changes, apart from the end of its run.
Frame(c) ==
  /\ SameBut(state, state', c) /\ SameBut(go, go', c) /\ SameBut(dcp, dcp', c)
  /\ SameBut(ewb, ewb', c) /\ SameBut(registered, registered', c)
  /\ SameBut(refcount, refcount', c) /\ SameBut(held, held', c)
  /\ SameBut(owed, owed', c) /\ SameBut(paused, paused', c)
  /\ cur' \in {cur, None} /\ todo' = todo /\ pendingIo' \subseteq pendingIo
  /\ wpc' = wpc /\ pipe' = pipe /\ sends' = sends

\* setCurrentTask.
LEMMA SetStateMoves ==
  ASSUME WorkerTypes, NEW c \in Conn, NEW s \in OpenState, s = "ship_log" => dcp[c],
         SetState(c, s)
  PROVE  /\ SameBut(state, state', c)
         /\ state' \in [Conn -> State] /\ state'[c] \in OpenState
         /\ state'[c] = "ship_log" => dcp[c]
<1>1. CASE dcp[c] /\ s = "waiting"
  BY Zenon, <1>1 DEF SetState, WorkerTypes, OpenState, State, SameBut
<1>2. CASE ~(dcp[c] /\ s = "waiting")
  BY Zenon, <1>2 DEF SetState, WorkerTypes, OpenState, State, SameBut
<1>3. QED
  BY Zenon, <1>1, <1>2

\* A function that returns false.
LEMMA YieldMoves ==
  ASSUME WorkerTypes, NEW c \in Conn, NEW s \in State, Yield(c, s)
  PROVE  /\ SameBut(state, state', c) /\ state' \in [Conn -> State] /\ state'[c] = s
         /\ cur' = None
BY Zenon DEF Yield, WorkerTypes, SameBut

\* updateEvent and unregisterEvent change the event of one connection.
LEMMA EventMoves ==
  ASSUME WorkerTypes, NEW c \in Conn, NEW m, updateEvent(c, m) \/ unregisterEvent(c)
  PROVE  SameBut(registered, registered', c)
BY Zenon DEF updateEvent, unregisterEvent, WorkerTypes, SameBut

\* A function that returns true.
LEMMA ProceedMoves ==
  ASSUME WorkerTypes, NEW c \in Conn, NEW s \in OpenState, s = "ship_log" => dcp[c],
         Proceed(c, s), SameBut(registered, registered', c)
  PROVE  Moves(c)
BY Zenon, SetStateMoves DEF Proceed, Moves

\* A function that waits for events.
LEMMA WaitMoves ==
  ASSUME WorkerTypes, NEW c \in Conn, NEW m, NEW s \in OpenState, s = "ship_log" => dcp[c],
         WaitFor(c, m, s)
  PROVE  Moves(c)
<1>1. CASE updateEvent(c, m) /\ Yield(c, s)
  BY Zenon, <1>1, EventMoves, YieldMoves DEF Moves, OpenState
<1>2. CASE unregisterEvent(c) /\ Proceed(c, "closing")
  <2>1. "closing" \in OpenState
    BY Zenon DEF OpenState, State
  <2>2. QED
    BY Zenon, <1>2, <2>1, EventMoves, ProceedMoves
<1>3. QED
  BY Zenon, <1>1, <1>2 DEF WaitFor

\* The run of c keeps the invariant of the other connections and the worker.
LEMMA RunKeeps ==
  ASSUME WorkerIInv, NEW c \in Conn, cur = c, Frame(c),
         state' \in [Conn -> State], state'[c] # "queued", go' \in [Conn -> {"new_cmd", "closing", "ship_log"}],
         refcount' \in [Conn -> Nat], ConnInv(c)'
  PROVE  WorkerIInv'
<1> USE DEF WorkerIInv
<1>1. WorkerTypes'
  BY Zenon, WorkerAssumption DEF WorkerTypes, Frame, SameBut
<1>2. LoopInv'
  BY Zenon, WorkerAssumption DEF LoopInv, Frame
<1>3. WakeupOnItsWay'
  <2>1. wpc \in {"process", "event"} /\ wpc' = wpc /\ pipe' = pipe /\ sends' = sends
    BY Zenon, WorkerAssumption DEF LoopInv, Frame
  <2>2. pendingIo' # {} => pendingIo # {}
    BY Zenon DEF Frame
  <2>3. \A d \in Conn : state'[d] = "queued" => state[d] = "queued"
    BY Zenon DEF Frame, SameBut
  <2>4. QED
    BY Zenon, <2>1, <2>2, <2>3 DEF WakeupOnItsWay
<1>4. ASSUME NEW d \in Conn, d # c PROVE ConnInv(d)'
  <2>1. /\ state'[d] = state[d] /\ go'[d] = go[d] /\ dcp'[d] = dcp[d] /\ ewb'[d] = ewb[d]
        /\ registered'[d] = registered[d] /\ refcount'[d] = refcount[d]
        /\ held'[d] = held[d] /\ owed'[d] = owed[d] /\ paused'[d] = paused[d]
    BY Zenon, <1>4 DEF Frame, SameBut
  <2>2. /\ cur # d /\ cur' # d /\ todo' = todo /\ pendingIo' \subseteq pendingIo
        /\ d \in Alive' <=> d \in Alive
        /\ d \in Open' <=> d \in Open
    BY Zenon, <1>4, <2>1, WorkerAssumption DEF Frame, Alive, Open
  <2>3. HeldInv(d)'
    BY Zenon, <2>1, <2>2 DEF ConnInv, HeldInv
  <2>4. OwedInv(d)'
    BY Zenon, <2>1, <2>2 DEF ConnInv, OwedInv
  <2>5. ListInv(d)'
    BY Zenon, <2>1, <2>2 DEF ConnInv, ListInv
  <2>6. QED
    BY Zenon, <2>3, <2>4, <2>5 DEF ConnInv
<1>5. QED
  BY Zenon, <1>1, <1>2, <1>3, <1>4

\* A function that leaves the references to c alone keeps the invariant.
LEMMA MoveKeeps ==
  ASSUME WorkerIInv, NEW c \in Conn, cur = c, c \in Open, Moves(c),
         SameBut(go, go', c), go' \in [Conn -> {"new_cmd", "closing", "ship_log"}],
         go'[c] = "ship_log" => dcp[c], SameBut(ewb, ewb', c), SameBut(paused, paused', c),
         paused'[c] => held[c], UNCHANGED <<dcp, refcount, held, owed, pendingIo>>, RunFrame
  PROVE  WorkerIInv'
<1>1. Frame(c)
  BY Zenon DEF Moves, Frame, RunFrame, loopVars, SameBut
<1>2. c \in Open' /\ c \in Alive' /\ c \in Alive /\ state'[c] # "immediate_close"
      /\ state'[c] \notin {"none", "queued"}
  BY Zenon DEF Moves, OpenState, Alive, Open
<1>3. ConnInv(c) /\ WorkerTypes
  BY Zenon DEF WorkerIInv
<1>4. HeldInv(c)'
  BY Zenon, <1>2, <1>3 DEF ConnInv, HeldInv, Moves
<1>5. OwedInv(c)'
  BY Zenon, <1>3 DEF ConnInv, OwedInv
<1>6. ListInv(c)'
  BY Zenon, <1>2, <1>3 DEF ConnInv, ListInv, RunFrame, loopVars
<1>7. QED
  BY Zenon, <1>1, <1>2, <1>3, <1>4, <1>5, <1>6, RunKeeps DEF ConnInv, Moves, WorkerTypes

-----------------------------------------------------------------------------
(* The functions of the state machine.                                     *)

\* A shutdown closes the connection.
LEMMA DyingKeeps ==
  ASSUME WorkerIInv, NEW c \in Conn, cur = c, c \in Open, is_bucket_dying(c), RunFrame
  PROVE  WorkerIInv'
<1>1. WorkerTypes /\ ConnInv(c) /\ "closing" \in OpenState
  BY Zenon DEF WorkerIInv, OpenState, State
<1>2. Moves(c)
  BY Zenon, <1>1, ProceedMoves DEF is_bucket_dying, eventVars, SameBut
<1>3. QED
  BY Zenon, <1>1, <1>2, MoveKeeps DEF is_bucket_dying, cmdVars, engineVars, SameBut, WorkerTypes,
     ConnInv, HeldInv

\* What MoveKeeps asks for, when only the state, the event and the data change.
LEMMA StateKeeps ==
  ASSUME WorkerIInv, NEW c \in Conn, cur = c, c \in Open, Moves(c),
         UNCHANGED <<go, dcp, ewb, engineVars, pendingIo>>, RunFrame
  PROVE  WorkerIInv'
BY Zenon, MoveKeeps DEF engineVars, SameBut, WorkerIInv, WorkerTypes, ConnInv, HeldInv

\* An open connection that is run.
LEMMA RunningOpen ==
  ASSUME WorkerIInv, NEW c \in Conn, NEW s \in OpenState, Running(c, s)
  PROVE  /\ cur = c /\ c \in Open /\ c \in Alive /\ state[c] = s /\ WorkerTypes /\ ConnInv(c)
         /\ "closing" \in OpenState /\ "new_cmd" \in OpenState /\ "waiting" \in OpenState
         /\ "read" \in OpenState /\ "parse_cmd" \in OpenState /\ "nread" \in OpenState
         /\ "mwrite" \in OpenState /\ "ship_log" \in OpenState /\ "task" \in OpenState
BY Zenon DEF Running, Open, Alive, OpenState, State, WorkerIInv

LEMMA NewCmdKeeps ==
  ASSUME WorkerIInv, NEW c \in Conn, conn_new_cmd(c)
  PROVE  WorkerIInv'
<1>0. "new_cmd" \in OpenState /\ Running(c, "new_cmd") /\ RunFrame
  BY Zenon DEF OpenState, State, conn_new_cmd
<1>1. cur = c /\ c \in Open /\ WorkerTypes /\ "waiting" \in OpenState /\ "parse_cmd" \in OpenState
  BY Zenon, <1>0, RunningOpen
<1>2. CASE is_bucket_dying(c)
  BY Zenon, <1>0, <1>1, <1>2, DyingKeeps
<1>3. CASE ~is_bucket_dying(c)
  <2>1. UNCHANGED <<go, dcp, ewb, engineVars, pendingIo>>
    BY Zenon, <1>3 DEF conn_new_cmd, cmdVars
  <2>2. \/ UNCHANGED eventVars /\ (Proceed(c, "parse_cmd") \/ Proceed(c, "waiting"))
        \/ WaitFor(c, {"w"}, "new_cmd")
        \/ UNCHANGED eventVars /\ Yield(c, "new_cmd")
    BY Zenon, <1>3 DEF conn_new_cmd
  <2>3. Moves(c)
    BY <1>0, <1>1, <2>2, ProceedMoves, WaitMoves, YieldMoves
       DEF eventVars, SameBut, Moves, OpenState
  <2>4. QED
    BY Zenon, <1>0, <1>1, <2>1, <2>3, StateKeeps
<1>4. QED
  BY Zenon, <1>2, <1>3

LEMMA WaitingKeeps ==
  ASSUME WorkerIInv, NEW c \in Conn, conn_waiting(c)
  PROVE  WorkerIInv'
<1>0. "waiting" \in OpenState /\ Running(c, "waiting") /\ RunFrame
  BY Zenon DEF OpenState, State, conn_waiting
<1>1. cur = c /\ c \in Open /\ WorkerTypes /\ "read" \in OpenState
  BY Zenon, <1>0, RunningOpen
<1>2. CASE is_bucket_dying(c)
  BY Zenon, <1>0, <1>1, <1>2, DyingKeeps
<1>3. CASE ~is_bucket_dying(c)
  <2>1. UNCHANGED <<go, dcp, ewb, engineVars, pendingIo>> /\ WaitFor(c, {"r"}, "read")
    BY Zenon, <1>3 DEF conn_waiting, cmdVars
  <2>2. QED
    BY Zenon, <1>0, <1>1, <2>1, WaitMoves, StateKeeps
<1>4. QED
  BY <1>2, <1>3

LEMMA ReadKeeps ==
  ASSUME WorkerIInv, NEW c \in Conn, conn_read(c)
  PROVE  WorkerIInv'
<1>0. "read" \in OpenState /\ Running(c, "read") /\ RunFrame
  BY Zenon DEF OpenState, State, conn_read
<1>1. /\ cur = c /\ c \in Open /\ WorkerTypes
      /\ "parse_cmd" \in OpenState /\ "waiting" \in OpenState /\ "closing" \in OpenState
  BY Zenon, <1>0, RunningOpen
<1>2. CASE is_bucket_dying(c)
  BY Zenon, <1>0, <1>1, <1>2, DyingKeeps
<1>3. CASE ~is_bucket_dying(c)
  <2>1. /\ UNCHANGED <<go, dcp, ewb, engineVars, pendingIo>> /\ UNCHANGED eventVars
        /\ Proceed(c, "parse_cmd") \/ Proceed(c, "waiting") \/ Proceed(c, "closing")
    BY Zenon, <1>3 DEF conn_read, cmdVars
  <2>2. Moves(c)
    BY Zenon, <1>1, <2>1, ProceedMoves DEF eventVars, SameBut
  <2>3. QED
    BY Zenon, <1>0, <1>1, <2>1, <2>2, StateKeeps
<1>4. QED
  BY <1>2, <1>3

\* try_read_mcbp_command with a complete header.
LEMMA TakeHeaderMoves ==
  ASSUME WorkerTypes, NEW c \in Conn, TakeHeader(c), SameBut(registered, registered', c),
         cur' \in {cur, None}
  PROVE  /\ Moves(c) /\ SameBut(go, go', c)
         /\ go' \in [Conn -> {"new_cmd", "closing", "ship_log"}]
         /\ go'[c] \in {go[c], "closing"}
<1>1. \/ state' = [state EXCEPT ![c] = "nread"] \/ state' = [state EXCEPT ![c] = "mwrite"]
      \/ state' = [state EXCEPT ![c] = "closing"]
  BY Zenon DEF TakeHeader
<1>2. go' = go \/ go' = [go EXCEPT ![c] = "closing"]
  BY Zenon DEF TakeHeader
<1>3. QED
  BY <1>1, <1>2 DEF Moves, SameBut, WorkerTypes, OpenState, State

LEMMA ParseCmdKeeps ==
  ASSUME WorkerIInv, NEW c \in Conn, conn_parse_cmd(c)
  PROVE  WorkerIInv'
<1>0. /\ "parse_cmd" \in OpenState /\ Running(c, "parse_cmd") /\ RunFrame
      /\ cur' \in {cur, None} /\ UNCHANGED <<ewb, dcp, eventVars, engineVars, pendingIo>>
  BY Zenon DEF OpenState, State, conn_parse_cmd
<1>1. cur = c /\ c \in Open /\ WorkerTypes /\ "waiting" \in OpenState /\ ConnInv(c)
  BY Zenon, <1>0, RunningOpen
<1>2. SameBut(registered, registered', c)
  BY Zenon, <1>0 DEF eventVars, SameBut
<1>3. CASE TakeHeader(c)
  BY Zenon, <1>0, <1>1, <1>2, <1>3, TakeHeaderMoves, MoveKeeps
     DEF engineVars, SameBut, ConnInv, HeldInv
<1>4. CASE SetState(c, "waiting") /\ UNCHANGED go
  <2>1. Moves(c)
    BY Zenon, <1>0, <1>1, <1>2, <1>4, SetStateMoves DEF Moves
  <2>2. QED
    BY Zenon, <1>0, <1>1, <1>4, <2>1, StateKeeps
<1>5. QED
  BY Zenon, <1>3, <1>4 DEF conn_parse_cmd

LEMMA NreadKeeps ==
  ASSUME WorkerIInv, NEW c \in Conn, conn_nread(c)
  PROVE  WorkerIInv'
<1>0. "nread" \in OpenState /\ Running(c, "nread") /\ RunFrame
  BY Zenon DEF OpenState, State, conn_nread
<1>1. cur = c /\ c \in Open /\ state[c] = "nread" /\ WorkerTypes /\ "closing" \in OpenState
  BY Zenon, <1>0, RunningOpen
<1>2. CASE is_bucket_dying(c)
  BY Zenon, <1>0, <1>1, <1>2, DyingKeeps
<1>3. CASE ~is_bucket_dying(c)
  <2>1. UNCHANGED <<go, dcp, ewb, engineVars, pendingIo>>
    BY Zenon, <1>3 DEF conn_nread
  <2>2. \/ UNCHANGED <<state, eventVars, cur>>
        \/ UNCHANGED eventVars /\ Proceed(c, "closing")
        \/ WaitFor(c, {"r"}, "nread")
    BY Zenon, <1>3 DEF conn_nread
  <2>3. CASE UNCHANGED <<state, eventVars, cur>>
    <3>1. Moves(c)
      BY Zenon, <1>0, <1>1, <2>3 DEF Moves, eventVars, SameBut, WorkerTypes
    <3>2. QED
      BY Zenon, <1>0, <1>1, <2>1, <3>1, StateKeeps
  <2>4. CASE ~UNCHANGED <<state, eventVars, cur>>
    <3>1. Moves(c)
      BY Zenon, <1>0, <1>1, <2>2, <2>4, ProceedMoves, WaitMoves DEF eventVars, SameBut
    <3>2. QED
      BY <1>0, <1>1, <2>1, <3>1, StateKeeps
  <2>5. QED
    BY Zenon, <2>3, <2>4
<1>4. QED
  BY <1>2, <1>3

\* The command is given away: c is run again only when it is notified.
LEMMA BlocksKeeps ==
  ASSUME WorkerIInv, NEW c \in Conn, ExecuteBlocks(c)
  PROVE  WorkerIInv'
<1>0. "nread" \in OpenState /\ Running(c, "nread") /\ RunFrame
  BY Zenon DEF OpenState, State, ExecuteBlocks
<1>1. /\ cur = c /\ c \in Open /\ c \in Alive /\ WorkerTypes /\ ConnInv(c)
      /\ "nread" \in State /\ "task" \in State
  BY Zenon, <1>0, RunningOpen DEF State
<1>2. /\ SameBut(state, state', c) /\ state' \in [Conn -> State]
      /\ state'[c] \in {"nread", "task"} /\ cur' = None
  BY Zenon, <1>1, YieldMoves DEF ExecuteBlocks
<1>3. registered' = [registered EXCEPT ![c] = FALSE] /\ SameBut(registered, registered', c)
  BY Zenon, <1>1, EventMoves DEF ExecuteBlocks, BlockEvent, unregisterEvent
<1>4. /\ ewb' = [ewb EXCEPT ![c] = TRUE] /\ owed' = [owed EXCEPT ![c] = TRUE]
      /\ UNCHANGED <<go, dcp, refcount, held, paused, pendingIo, todo, wpc, pipe, sends>>
  BY Zenon, <1>0 DEF ExecuteBlocks, cmdVars, RunFrame, loopVars
<1>5. Frame(c)
  BY Zenon, <1>1, <1>2, <1>3, <1>4 DEF Frame, SameBut, WorkerTypes
<1>6. /\ ewb'[c] /\ owed'[c] /\ ~registered'[c]
      /\ c \notin pendingIo \cup todo /\ None # c
      /\ c \in Open' /\ c \in Alive' /\ state'[c] # "immediate_close"
  BY Zenon, <1>1, <1>2, <1>3, <1>4, WorkerAssumption DEF WorkerTypes, ConnInv, ListInv, Open, Alive
<1>7. HeldInv(c)'
  BY Zenon, <1>1, <1>2, <1>4, <1>6 DEF ConnInv, HeldInv
<1>8. OwedInv(c)'
  BY Zenon, <1>2, <1>4, <1>6 DEF OwedInv
<1>9. ListInv(c)'
  BY Zenon, <1>4, <1>6 DEF ListInv
<1>10. QED
  BY Zenon, <1>1, <1>2, <1>4, <1>5, <1>6, <1>7, <1>8, <1>9, RunKeeps DEF ConnInv, WorkerTypes

\* The state and write_and_go change, and ewouldblock is reset.
LEMMA AnswerKeeps ==
  ASSUME WorkerIInv, NEW c \in Conn, cur = c, c \in Open, UNCHANGED eventVars, RunFrame,
         ewb' = [ewb EXCEPT ![c] = FALSE], UNCHANGED <<dcp, engineVars, pendingIo>>,
         \/ \E next \in {"new_cmd", "closing"} :
              go' = [go EXCEPT ![c] = next] /\ Proceed(c, "mwrite")
         \/ \E next \in {"new_cmd", "closing"} : Proceed(c, next) /\ UNCHANGED go
         \/ dcp[c] /\ Proceed(c, "ship_log") /\ UNCHANGED go
  PROVE  WorkerIInv'
<1>1. /\ WorkerTypes /\ ConnInv(c) /\ "mwrite" \in OpenState
      /\ "new_cmd" \in OpenState /\ "closing" \in OpenState /\ "ship_log" \in OpenState
  BY Zenon DEF WorkerIInv, OpenState, State
<1>2. Moves(c)
  BY Zenon, <1>1, ProceedMoves DEF eventVars, SameBut
<1>3. /\ SameBut(go, go', c) /\ go' \in [Conn -> {"new_cmd", "closing", "ship_log"}]
      /\ go'[c] = "ship_log" => dcp[c]
  BY Zenon, <1>1 DEF SameBut, WorkerTypes, ConnInv, HeldInv
<1>4. SameBut(ewb, ewb', c) /\ SameBut(paused, paused', c)
  BY Zenon, <1>1 DEF SameBut, WorkerTypes, engineVars
<1>5. QED
  BY Zenon, <1>1, <1>2, <1>3, <1>4, MoveKeeps DEF engineVars, ConnInv, HeldInv

LEMMA CompletesKeeps ==
  ASSUME WorkerIInv, NEW c \in Conn, ExecuteCompletes(c)
  PROVE  WorkerIInv'
<1>0. "nread" \in OpenState /\ Running(c, "nread") /\ RunFrame
  BY Zenon DEF OpenState, State, ExecuteCompletes
<1>1. \/ \E next \in {"new_cmd", "closing"} :
           go' = [go EXCEPT ![c] = next] /\ Proceed(c, "mwrite")
      \/ \E next \in {"new_cmd", "closing"} : Proceed(c, next) /\ UNCHANGED go
      \/ dcp[c] /\ Proceed(c, "ship_log") /\ UNCHANGED go
  BY Zenon DEF ExecuteCompletes
<1>2. QED
  BY Zenon, <1>0, <1>1, RunningOpen, AnswerKeeps DEF ExecuteCompletes

LEMMA TaskKeeps ==
  ASSUME WorkerIInv, NEW c \in Conn, conn_task(c)
  PROVE  WorkerIInv'
<1>0. "task" \in OpenState /\ Running(c, "task") /\ RunFrame
  BY Zenon DEF OpenState, State, conn_task
<1>1. QED
  BY Zenon, <1>0, RunningOpen, AnswerKeeps DEF conn_task

\* The engine reserves the cookie of a connection that streams.
LEMMA StreamKeeps ==
  ASSUME WorkerIInv, NEW c \in Conn, StartStream(c)
  PROVE  WorkerIInv'
<1>0. "nread" \in OpenState /\ Running(c, "nread") /\ RunFrame
  BY Zenon DEF OpenState, State, StartStream
<1>1. /\ cur = c /\ c \in Open /\ c \in Alive /\ WorkerTypes /\ ConnInv(c)
      /\ "ship_log" \in OpenState
  BY Zenon, <1>0, RunningOpen
<1>2. state' = [state EXCEPT ![c] = "ship_log"] /\ cur' = cur
  BY Zenon DEF StartStream, Proceed, SetState
<1>3. /\ ewb' = [ewb EXCEPT ![c] = FALSE] /\ dcp' = [dcp EXCEPT ![c] = TRUE]
      /\ held' = [held EXCEPT ![c] = TRUE] /\ refcount' = [refcount EXCEPT ![c] = @ + 1]
      /\ UNCHANGED <<go, registered, owed, paused, pendingIo, todo, wpc, pipe, sends>>
      /\ ~held[c]
  BY Zenon, <1>0 DEF StartStream, eventVars, RunFrame, loopVars
<1>4. /\ state'[c] = "ship_log" /\ dcp'[c] /\ held'[c]
      /\ c \in Open' /\ c \in Alive' /\ state' \in [Conn -> State]
  BY Zenon, <1>1, <1>2, <1>3 DEF WorkerTypes, OpenState, Open, Alive
<1>5. refcount'[c] = 2 /\ refcount' \in [Conn -> Nat]
  BY <1>1, <1>3 DEF WorkerTypes, ConnInv, HeldInv
<1>6. Frame(c)
  <2>1. SameBut(state, state', c) /\ SameBut(refcount, refcount', c)
    BY Zenon, <1>1, <1>2, <1>3 DEF SameBut, WorkerTypes
  <2>2. SameBut(ewb, ewb', c) /\ SameBut(dcp, dcp', c) /\ SameBut(held, held', c)
    BY Zenon, <1>1, <1>3 DEF SameBut, WorkerTypes
  <2>3. QED
    BY Zenon, <1>2, <1>3, <2>1, <2>2 DEF Frame, SameBut
<1>7. HeldInv(c)'
  BY Zenon, <1>4, <1>5 DEF HeldInv
<1>8. OwedInv(c)'
  BY Zenon, <1>4 DEF OwedInv
<1>9. ListInv(c)'
  BY Zenon, <1>1, <1>2, <1>3, <1>4 DEF ConnInv, ListInv
<1>10. QED
  BY Zenon, <1>1, <1>3, <1>4, <1>5, <1>6, <1>7, <1>8, <1>9, RunKeeps DEF ConnInv, WorkerTypes

LEMMA ShipReadsKeeps ==
  ASSUME WorkerIInv, NEW c \in Conn, ShipLogReads(c)
  PROVE  WorkerIInv'
<1>0. /\ "ship_log" \in OpenState /\ Running(c, "ship_log") /\ RunFrame
      /\ UNCHANGED <<ewb, dcp, engineVars, pendingIo, cur>>
  BY Zenon DEF OpenState, State, ShipLogReads
<1>1. cur = c /\ c \in Open /\ WorkerTypes /\ ConnInv(c)
  BY Zenon, <1>0, RunningOpen
<1>2. SameBut(registered, registered', c)
  BY Zenon, <1>1, EventMoves DEF ShipLogReads
<1>3. CASE TakeHeader(c)
  BY Zenon, <1>0, <1>1, <1>2, <1>3, TakeHeaderMoves, MoveKeeps
     DEF engineVars, SameBut, ConnInv, HeldInv
<1>4. CASE ~TakeHeader(c)
  <2>1. /\ UNCHANGED go
        /\ state' = [state EXCEPT ![c] = "read"] \/ state' = [state EXCEPT ![c] = "closing"]
    BY Zenon, <1>4 DEF ShipLogReads
  <2>2. Moves(c)
    BY Zenon, <1>0, <1>1, <1>2, <2>1 DEF Moves, SameBut, WorkerTypes, OpenState, State
  <2>3. QED
    BY Zenon, <1>0, <1>1, <2>1, <2>2, StateKeeps
<1>5. QED
  BY <1>3, <1>4

\* The end of conn_ship_log.
LEMMA StopMoves ==
  ASSUME WorkerTypes, NEW c \in Conn, NEW m, StopShipping(c, m), dcp[c]
  PROVE  Moves(c)
<1>1. "ship_log" \in OpenState /\ "closing" \in OpenState
  BY Zenon DEF OpenState, State
<1>2. SameBut(registered, registered', c)
  BY Zenon, EventMoves DEF StopShipping
<1>3. QED
  BY Zenon, <1>1, <1>2, YieldMoves DEF StopShipping, Moves, OpenState

LEMMA ShipPausesKeeps ==
  ASSUME WorkerIInv, NEW c \in Conn, ShipLogPauses(c)
  PROVE  WorkerIInv'
<1>0. "ship_log" \in OpenState /\ Running(c, "ship_log") /\ RunFrame
  BY Zenon DEF OpenState, State, ShipLogPauses, Ships
<1>1. cur = c /\ c \in Open /\ state[c] = "ship_log" /\ WorkerTypes /\ ConnInv(c)
  BY Zenon, <1>0, RunningOpen
<1>2. dcp[c] /\ held[c]
  BY Zenon, <1>1 DEF ConnInv, HeldInv
<1>3. Moves(c)
  BY Zenon, <1>1, <1>2, StopMoves DEF ShipLogPauses
<1>4. SameBut(ewb, ewb', c) /\ SameBut(paused, paused', c) /\ SameBut(go, go', c)
  BY Zenon, <1>1 DEF ShipLogPauses, SameBut, WorkerTypes
<1>5. UNCHANGED <<go, dcp, refcount, held, owed, pendingIo>>
  BY Zenon DEF ShipLogPauses, Ships
<1>6. QED
  BY Zenon, <1>0, <1>1, <1>2, <1>3, <1>4, <1>5, MoveKeeps DEF WorkerTypes

LEMMA ShipSendsKeeps ==
  ASSUME WorkerIInv, NEW c \in Conn, ShipLogSends(c)
  PROVE  WorkerIInv'
<1>0. "ship_log" \in OpenState /\ Running(c, "ship_log") /\ RunFrame
  BY Zenon DEF OpenState, State, ShipLogSends, Ships
<1>1. /\ cur = c /\ c \in Open /\ state[c] = "ship_log" /\ WorkerTypes /\ ConnInv(c)
      /\ "mwrite" \in OpenState /\ "closing" \in OpenState
  BY Zenon, <1>0, RunningOpen
<1>2. dcp[c] /\ held[c]
  BY Zenon, <1>1 DEF ConnInv, HeldInv
<1>3. Moves(c)
  BY Zenon, <1>1, EventMoves, ProceedMoves DEF ShipLogSends
<1>4. /\ SameBut(go, go', c) /\ go' \in [Conn -> {"new_cmd", "closing", "ship_log"}]
      /\ SameBut(paused, paused', c) /\ SameBut(ewb, ewb', c)
  BY Zenon, <1>1 DEF ShipLogSends, SameBut, WorkerTypes
<1>5. UNCHANGED <<dcp, refcount, held, owed, pendingIo>>
  BY Zenon DEF ShipLogSends, Ships
<1>6. QED
  BY Zenon, <1>0, <1>1, <1>2, <1>3, <1>4, <1>5, MoveKeeps

LEMMA ShipStopsKeeps ==
  ASSUME WorkerIInv, NEW c \in Conn, ShipLogStops(c)
  PROVE  WorkerIInv'
<1>0. "ship_log" \in OpenState /\ Running(c, "ship_log") /\ RunFrame
  BY Zenon DEF OpenState, State, ShipLogStops
<1>1. cur = c /\ c \in Open /\ state[c] = "ship_log" /\ WorkerTypes /\ ConnInv(c)
  BY <1>0, RunningOpen
<1>2. CASE is_bucket_dying(c)
  BY Zenon, <1>0, <1>1, <1>2, DyingKeeps
<1>3. CASE ~is_bucket_dying(c)
  <2>1. UNCHANGED <<go, dcp, ewb, engineVars, pendingIo>> /\ StopShipping(c, ShipMask)
    BY Zenon, <1>3 DEF ShipLogStops, cmdVars
  <2>2. Moves(c)
    BY Zenon, <1>1, <2>1, StopMoves DEF ConnInv, HeldInv
  <2>3. QED
    BY Zenon, <1>0, <1>1, <2>1, <2>2, StateKeeps
<1>4. QED
  BY <1>2, <1>3

LEMMA TransmitKeeps ==
  ASSUME WorkerIInv, NEW c \in Conn, TransmitCompletes(c)
  PROVE  WorkerIInv'
<1>0. /\ "mwrite" \in OpenState /\ Running(c, "mwrite") /\ RunFrame /\ Proceed(c, go[c])
      /\ UNCHANGED <<go, dcp, ewb, engineVars, pendingIo>> /\ UNCHANGED eventVars
  BY Zenon DEF OpenState, State, TransmitCompletes, cmdVars
<1>1. cur = c /\ c \in Open /\ WorkerTypes /\ ConnInv(c)
  BY Zenon, <1>0, RunningOpen
<1>2. go[c] \in OpenState /\ (go[c] = "ship_log" => dcp[c])
  BY Zenon, <1>1 DEF WorkerTypes, ConnInv, HeldInv, OpenState, State
<1>3. Moves(c)
  BY Zenon, <1>0, <1>1, <1>2, ProceedMoves DEF eventVars, SameBut
<1>4. QED
  BY Zenon, <1>0, <1>1, <1>3, StateKeeps

LEMMA MwriteKeeps ==
  ASSUME WorkerIInv, NEW c \in Conn, conn_mwrite(c)
  PROVE  WorkerIInv'
<1>0. "mwrite" \in OpenState /\ Running(c, "mwrite") /\ RunFrame
  BY Zenon DEF OpenState, State, conn_mwrite
<1>1. cur = c /\ c \in Open /\ WorkerTypes /\ "closing" \in OpenState
  BY Zenon, <1>0, RunningOpen
<1>2. CASE is_bucket_dying(c)
  BY Zenon, <1>0, <1>1, <1>2, DyingKeeps
<1>3. CASE ~is_bucket_dying(c)
  <2>1. /\ UNCHANGED <<go, dcp, ewb, engineVars, pendingIo>>
        /\ WaitFor(c, {"w"}, "mwrite") \/ (Proceed(c, "closing") /\ UNCHANGED eventVars)
    BY Zenon, <1>3 DEF conn_mwrite, cmdVars
  <2>2. Moves(c)
    BY Zenon, <1>0, <1>1, <2>1, WaitMoves, ProceedMoves DEF eventVars, SameBut
  <2>3. QED
    BY Zenon, <1>0, <1>1, <2>1, <2>2, StateKeeps
<1>4. QED
  BY <1>2, <1>3

\* A step from the state s of the closing connection c, which is not registered
\* from now on, to the state t.
LEMMA CloseKeeps ==
  ASSUME WorkerIInv, NEW c \in Conn, cur = c, c \in Alive, RunFrame,
         NEW t \in {"pending_close", "immediate_close", "destroyed"},
         state' = [state EXCEPT ![c] = t], SameBut(registered, registered', c),
         ~registered'[c], UNCHANGED <<go, dcp, ewb, held, owed, paused>>,
         SameBut(refcount, refcount', c), refcount' \in [Conn -> Nat],
         t # "destroyed" => refcount' = refcount, t # "pending_close" => ~held[c],
         cur' \in {c, None}, t = "immediate_close" => cur' = c,
         pendingIo' \subseteq pendingIo
  PROVE  WorkerIInv'
<1>1. WorkerTypes /\ ConnInv(c)
  BY Zenon DEF WorkerIInv
<1>2. SameBut(state, state', c) /\ state'[c] = t /\ state' \in [Conn -> State]
  BY Zenon, <1>1 DEF SameBut, WorkerTypes, State
<1>3. todo' = todo /\ wpc' = wpc /\ pipe' = pipe /\ sends' = sends
  BY Zenon DEF RunFrame, loopVars
<1>4. Frame(c)
  BY Zenon, <1>2, <1>3 DEF Frame, SameBut
<1>5. c \notin Open' /\ (c \in Alive' <=> t # "destroyed")
  BY Zenon, <1>2 DEF Open, Alive
<1>6. HeldInv(c)'
  BY Zenon, <1>1, <1>2, <1>5 DEF ConnInv, HeldInv
<1>7. owed[c] => held[c]
  BY Zenon, <1>1 DEF ConnInv, OwedInv
<1>8. OwedInv(c)'
  BY Zenon, <1>7 DEF OwedInv
<1>9. c \notin pendingIo' \cup todo'
  BY Zenon, <1>1, <1>3 DEF ConnInv, ListInv
<1>10. ListInv(c)'
  BY Zenon, <1>2, <1>9 DEF ListInv
<1>11. QED
  BY Zenon, <1>1, <1>2, <1>4, <1>6, <1>8, <1>10, RunKeeps DEF ConnInv, WorkerTypes

\* conn_closing leaves a connection alone whose cookie is reserved.
LEMMA ClosingKeeps ==
  ASSUME WorkerIInv, NEW c \in Conn, conn_closing(c)
  PROVE  WorkerIInv'
<1>0. "closing" \in OpenState /\ Running(c, "closing") /\ RunFrame
  BY Zenon DEF OpenState, State, conn_closing
<1>1. cur = c /\ c \in Alive /\ WorkerTypes /\ ConnInv(c)
  BY Zenon, <1>0, RunningOpen
<1>2. /\ SameBut(registered, registered', c) /\ ~registered'[c] /\ cur' = cur
      /\ UNCHANGED <<go, dcp, ewb, held, owed, paused, refcount, pendingIo>>
  BY Zenon, <1>1 DEF conn_closing, unregisterEvent, SameBut, WorkerTypes, cmdVars, engineVars, Proceed
<1>3. SameBut(refcount, refcount', c) /\ refcount' \in [Conn -> Nat]
  BY Zenon, <1>1, <1>2 DEF SameBut, WorkerTypes
<1>4. CASE MustWait(c)
  <2>1. state' = [state EXCEPT ![c] = "pending_close"]
    BY Zenon, <1>4 DEF conn_closing, Proceed, SetState
  <2>2. QED
    BY Zenon, <1>0, <1>1, <1>2, <1>3, <2>1, CloseKeeps
<1>5. CASE ~MustWait(c)
  <2>1. state' = [state EXCEPT ![c] = "immediate_close"]
    BY Zenon, <1>5 DEF conn_closing, Proceed, SetState
  <2>2. ~held[c]
    BY <1>1, <1>5 DEF MustWait, ConnInv, HeldInv
  <2>3. QED
    BY Zenon, <1>0, <1>1, <1>2, <1>3, <2>1, <2>2, CloseKeeps
<1>6. QED
  BY <1>4, <1>5

\* conn_pending_close waits for the last reference but its own.
LEMMA PendingCloseKeeps ==
  ASSUME WorkerIInv, NEW c \in Conn, conn_pending_close(c)
  PROVE  WorkerIInv'
<1>1. /\ cur = c /\ state[c] = "pending_close" /\ RunFrame /\ WorkerTypes /\ ConnInv(c)
      /\ c \in Alive /\ c \notin Open
  BY Zenon DEF conn_pending_close, Running, WorkerIInv, Alive, Open
<1>2. UNCHANGED <<go, dcp, ewb, held, owed, paused, refcount, pendingIo, registered>>
  BY Zenon DEF conn_pending_close, cmdVars, eventVars, engineVars
<1>3. /\ SameBut(registered, registered', c) /\ ~registered'[c]
      /\ SameBut(refcount, refcount', c) /\ refcount' \in [Conn -> Nat]
  BY Zenon, <1>1, <1>2 DEF SameBut, WorkerTypes, ConnInv, ListInv
<1>4. CASE refcount[c] > 1
  <2>1. state' = [state EXCEPT ![c] = "pending_close"] /\ cur' = None
    BY Zenon, <1>4 DEF conn_pending_close, Yield
  <2>2. QED
    BY Zenon, <1>1, <1>2, <1>3, <2>1, CloseKeeps
<1>5. CASE ~(refcount[c] > 1)
  <2>1. state' = [state EXCEPT ![c] = "immediate_close"] /\ cur' = cur
    BY Zenon, <1>5 DEF conn_pending_close, Proceed, SetState
  <2>2. ~held[c]
    BY <1>1, <1>5 DEF ConnInv, HeldInv
  <2>3. QED
    BY Zenon, <1>1, <1>2, <1>3, <2>1, <2>2, CloseKeeps
<1>6. QED
  BY Zenon, <1>4, <1>5

LEMMA ImmediateCloseKeeps ==
  ASSUME WorkerIInv, NEW c \in Conn, conn_immediate_close(c)
  PROVE  WorkerIInv'
<1>1. /\ cur = c /\ state[c] = "immediate_close" /\ RunFrame /\ WorkerTypes /\ ConnInv(c)
      /\ c \in Alive /\ c \notin Open
  BY Zenon DEF conn_immediate_close, Running, WorkerIInv, Alive, Open
<1>2. /\ UNCHANGED <<go, dcp, ewb, held, owed, paused, registered>>
      /\ pendingIo' \subseteq pendingIo /\ cur' = None
      /\ state' = [state EXCEPT ![c] = "destroyed"] /\ refcount' = [refcount EXCEPT ![c] = 0]
  BY Zenon DEF conn_immediate_close, cmdVars, eventVars, Yield
<1>3. /\ SameBut(registered, registered', c) /\ ~registered'[c] /\ ~held[c]
  BY Zenon, <1>1, <1>2 DEF SameBut, ConnInv, ListInv, HeldInv
<1>4. SameBut(refcount, refcount', c) /\ refcount' \in [Conn -> Nat]
  BY Zenon, <1>1, <1>2 DEF SameBut, WorkerTypes
<1>5. QED
  BY Zenon, <1>1, <1>2, <1>3, <1>4, CloseKeeps

\* A run of the state machine.
LEMMA RunConnectionKeeps ==
  ASSUME WorkerIInv, NEW c \in Conn, RunConnection(c)
  PROVE  WorkerIInv'
BY Zenon, NewCmdKeeps, WaitingKeeps, ReadKeeps, ParseCmdKeeps, NreadKeeps, BlocksKeeps,
   CompletesKeeps, StreamKeeps, ShipReadsKeeps, ShipPausesKeeps, ShipSendsKeeps,
   ShipStopsKeeps, TransmitKeeps, MwriteKeeps, TaskKeeps, ClosingKeeps, PendingCloseKeeps,
   ImmediateCloseKeeps DEF RunConnection

-----------------------------------------------------------------------------
(* The event loop.                                                         *)

\* c waits for a notification and for nothing else.
Blocked(c) == owed[c] /\ ~held[c]

\* A step of the event loop: it may begin to run a connection that is not blocked
\* and on no list, register events, and close a connection that timed out.
LEMMA LoopKeeps ==
  ASSUME WorkerIInv, UNCHANGED <<go, dcp, ewb, refcount, held, owed, paused>>,
         \A d \in Conn : \/ state'[d] = state[d]
                         \/ state'[d] = "closing" /\ d \in Open /\ ~Blocked(d),
         \A d \in Conn : registered'[d] => registered[d] \/ (d \in Open /\ ~Blocked(d)),
         pendingIo' \cup todo' \subseteq pendingIo \cup todo,
         \/ cur' = cur
         \/ /\ cur = None /\ cur' \in Conn /\ cur' \notin pendingIo' \cup todo'
            /\ cur' \in Alive /\ ~Blocked(cur')
  PROVE  \A d \in Conn : ConnInv(d)'
<1> TAKE d \in Conn
<1>1. ConnInv(d)
  BY Zenon DEF WorkerIInv
<1>2. /\ d \in Alive <=> d \in Alive'
      /\ d \in Open <=> d \in Open'
  BY Zenon DEF Alive, Open
<1>3. HeldInv(d)'
  BY Zenon, <1>1, <1>2 DEF ConnInv, HeldInv
<1>4. OwedInv(d)'
  BY Zenon, <1>1 DEF ConnInv, OwedInv, Blocked
<1>5. ListInv(d)'
  BY Zenon, <1>1, <1>2, WorkerAssumption DEF ConnInv, ListInv
<1>6. QED
  BY Zenon, <1>3, <1>4, <1>5 DEF ConnInv

\* signal_idle_clients registers open connections that are not blocked.
LEMMA SignalKeeps ==
  ASSUME WorkerIInv, NEW act, signal_idle_clients(act)
  PROVE  /\ DOMAIN registered' = Conn
         /\ \A d \in Conn : registered'[d] => registered[d] \/ (d \in Open /\ ~Blocked(d))
<1>1. ASSUME NEW d \in Conn, Idle(d) PROVE d \in Open /\ ~Blocked(d)
  BY Zenon, <1>1 DEF Idle, Open, Alive, WorkerIInv, ConnInv, OwedInv, Blocked
<1>2. QED
  BY Zenon, <1>1 DEF signal_idle_clients

LEMMA DrainKeeps ==
  ASSUME WorkerIInv, drain_notification_channel
  PROVE  WorkerIInv'
<1>0. /\ WorkerTypes /\ LoopInv /\ wpc = "loop" /\ wpc' \in {"stopped", "drained"}
      /\ UNCHANGED <<state, go, dcp, ewb, refcount, held, owed, paused, pendingIo, todo, cur, sends>>
      /\ signal_idle_clients(active)
  BY Zenon DEF WorkerIInv, drain_notification_channel, cmdVars, engineVars, runVars
<1>1. WorkerTypes'
  BY Zenon, <1>0, SignalKeeps DEF WorkerTypes
<1>2. LoopInv'
  BY Zenon, <1>0 DEF LoopInv
<1>3. WakeupOnItsWay'
  BY Zenon, <1>0 DEF WakeupOnItsWay
<1>4. \A d \in Conn : ConnInv(d)'
  BY Zenon, <1>0, SignalKeeps, LoopKeeps
<1>5. QED
  BY Zenon, <1>1, <1>2, <1>3, <1>4 DEF WorkerIInv

\* A queued connection becomes a connection, or is gone.
LEMMA DispatchKeeps ==
  ASSUME WorkerIInv, NEW failed \in SUBSET Conn, dispatch_new_connections(failed)
  PROVE  WorkerIInv'
<1> DEFINE new == {c \in Conn : state[c] = "queued"} \ failed
<1>0. /\ WorkerTypes /\ LoopInv /\ wpc = "drained" /\ wpc' = "process" /\ cur' = cur
      /\ cur = None /\ todo' = pendingIo /\ pendingIo' = {} /\ sends' = sends
      /\ UNCHANGED <<go, dcp, ewb, held, owed, paused>>
  BY Zenon DEF WorkerIInv, dispatch_new_connections, cmdVars, runVars, LoopInv
<1>1. /\ state' \in [Conn -> State] /\ refcount' \in [Conn -> Nat] /\ DOMAIN registered' = Conn
      /\ \A d \in Conn : state'[d] # "queued"
  BY Zenon, <1>0 DEF dispatch_new_connections, WorkerTypes, State
<1>2. WorkerTypes'
  BY Zenon, <1>0, <1>1 DEF WorkerTypes
<1>3. LoopInv'
  BY Zenon, <1>0, WorkerAssumption DEF LoopInv
<1>4. WakeupOnItsWay'
  BY Zenon, <1>0, <1>1 DEF WakeupOnItsWay
<1>5. ASSUME NEW d \in Conn PROVE ConnInv(d)'
  <2>1. ConnInv(d)
    BY Zenon DEF WorkerIInv
  <2>2. CASE state[d] # "queued"
    <3>1. state'[d] = state[d] /\ refcount'[d] = refcount[d]
          /\ (registered'[d] => registered[d])
      BY Zenon, <2>2 DEF dispatch_new_connections
    <3>2. /\ d \in Alive <=> d \in Alive'
          /\ d \in Open <=> d \in Open'
      BY Zenon, <3>1 DEF Alive, Open
    <3>3. HeldInv(d)'
      BY Zenon, <1>0, <2>1, <3>1, <3>2 DEF ConnInv, HeldInv
    <3>4. OwedInv(d)'
      BY Zenon, <1>0, <2>1, <3>1 DEF ConnInv, OwedInv
    <3>5. ListInv(d)'
      BY Zenon, <1>0, <2>1, <3>1, <3>2 DEF ConnInv, ListInv
    <3>6. QED
      BY Zenon, <3>3, <3>4, <3>5 DEF ConnInv
  <2>3. CASE state[d] = "queued"
    <3>1. d \notin Alive /\ d \notin Open
      BY Zenon, <2>3 DEF Alive, Open
    <3>2. ~held[d] /\ ~paused[d] /\ ~owed[d] /\ ~registered[d] /\ d \notin pendingIo
      BY Zenon, <2>1, <2>3, <3>1 DEF ConnInv, HeldInv, OwedInv, ListInv
    <3>3. CASE d \notin new
      <4>1. state'[d] = "destroyed" /\ (registered'[d] => registered[d])
        BY Zenon, <2>3, <3>3 DEF dispatch_new_connections
      <4>2. d \notin Alive' /\ d \notin Open'
        BY Zenon, <4>1 DEF Alive, Open
      <4>3. go'[d] = "ship_log" => dcp'[d]
        BY Zenon, <1>0, <2>1 DEF ConnInv, HeldInv
      <4>4. QED
        BY Zenon, <1>0, <3>2, <4>1, <4>2, <4>3 DEF ConnInv, HeldInv, OwedInv, ListInv
    <3>4. CASE d \in new
      <4>1. state'[d] = "new_cmd" /\ refcount'[d] = 1
        BY Zenon, <2>3, <3>4 DEF dispatch_new_connections
      <4>2. d \in Alive' /\ d \in Open'
        BY Zenon, <4>1 DEF Alive, Open
      <4>3. ~dcp[d] /\ (go'[d] = "ship_log" => dcp'[d])
        BY Zenon, <1>0, <2>1, <2>3 DEF ConnInv, HeldInv
      <4>4. QED
        BY Zenon, <1>0, <3>2, <4>1, <4>2, <4>3 DEF ConnInv, HeldInv, OwedInv, ListInv
    <3>5. QED
      BY Zenon, <3>3, <3>4
  <2>4. QED
    BY Zenon, <2>2, <2>3
<1>6. QED
  BY Zenon, <1>2, <1>3, <1>4, <1>5 DEF WorkerIInv

LEMMA RunPendingKeeps ==
  ASSUME WorkerIInv, NEW c \in Conn, RunPending(c)
  PROVE  WorkerIInv'
<1>0. /\ WorkerTypes /\ LoopInv /\ wpc = "process" /\ wpc' = wpc /\ cur = None /\ cur' = c
      /\ c \in todo /\ todo' = todo \ {c} /\ pendingIo' = pendingIo /\ pipe' = pipe /\ sends' = sends
      /\ UNCHANGED <<state, go, dcp, ewb, refcount, held, owed, paused>>
  BY Zenon DEF WorkerIInv, RunPending, run_event_loop, cmdVars, engineVars, listVars
<1>1. pendingIo = {} /\ c \in Alive /\ ~Blocked(c)
  BY Zenon, <1>0 DEF LoopInv, WorkerIInv, ConnInv, ListInv, OwedInv, Blocked
<1>2. /\ DOMAIN registered' = Conn
      /\ \A d \in Conn : registered'[d] => registered[d] \/ (d \in Open /\ ~Blocked(d))
  BY Zenon, <1>0, <1>1 DEF RunPending, WorkerTypes
<1>3. WorkerTypes'
  BY Zenon, <1>0, <1>2 DEF WorkerTypes
<1>4. LoopInv'
  BY Zenon, <1>0 DEF LoopInv
<1>5. WakeupOnItsWay'
  BY Zenon, <1>0 DEF WakeupOnItsWay, WorkerIInv
<1>6. \A d \in Conn : ConnInv(d)'
  BY Zenon, <1>0, <1>1, <1>2, LoopKeeps
<1>7. QED
  BY Zenon, <1>3, <1>4, <1>5, <1>6 DEF WorkerIInv

\* An event is reported for a connection that is registered, hence not blocked.
LEMMA HandlerKeeps ==
  ASSUME WorkerIInv, NEW c \in Conn, wpc = "loop", wpc' = "event", registered[c], cur' = c,
         pendingIo' = pendingIo \ {c}, NEW act, signal_idle_clients(act),
         UNCHANGED <<go, dcp, ewb, refcount, held, owed, paused, todo, pipe, sends>>,
         state' = state \/ state' = [state EXCEPT ![c] = "closing"]
  PROVE  WorkerIInv'
<1>0. WorkerTypes /\ LoopInv /\ ConnInv(c) /\ cur = None /\ todo = {}
  BY Zenon DEF WorkerIInv, LoopInv
<1>1. c \in Open /\ c \in Alive /\ ~Blocked(c)
  BY Zenon, <1>0 DEF ConnInv, ListInv, OwedInv, Blocked, Open
<1>2. /\ state' \in [Conn -> State]
      /\ \A d \in Conn : \/ state'[d] = state[d]
                         \/ state'[d] = "closing" /\ d \in Open /\ ~Blocked(d)
      /\ \A d \in Conn : state'[d] = "queued" => state[d] = "queued"
  BY Zenon, <1>0, <1>1 DEF WorkerTypes, State
<1>3. WorkerTypes'
  BY Zenon, <1>0, <1>2, SignalKeeps DEF WorkerTypes
<1>4. LoopInv'
  BY Zenon, <1>0 DEF LoopInv
<1>5. WakeupOnItsWay'
  <2>1. pendingIo' # {} => pendingIo # {}
    BY Zenon
  <2>2. QED
    BY Zenon, <1>2, <2>1 DEF WakeupOnItsWay, WorkerIInv
<1>6. \A d \in Conn : ConnInv(d)'
  BY Zenon, <1>0, <1>1, <1>2, SignalKeeps, LoopKeeps
<1>7. QED
  BY Zenon, <1>3, <1>4, <1>5, <1>6 DEF WorkerIInv

LEMMA EventKeeps ==
  ASSUME WorkerIInv, NEW c \in Conn, event_handler(c) \/ TimeoutEvent(c)
  PROVE  WorkerIInv'
<1>1. CASE event_handler(c)
  BY Zenon, <1>1, HandlerKeeps DEF event_handler, run_event_loop, cmdVars, engineVars
<1>2. CASE TimeoutEvent(c)
  <2>1. state' = state \/ state' = [state EXCEPT ![c] = "closing"]
    BY Zenon, <1>2 DEF TimeoutEvent, WorkerIInv, WorkerTypes
  <2>2. QED
    BY Zenon, <1>2, <2>1, HandlerKeeps DEF TimeoutEvent, run_event_loop, cmdVars, engineVars
<1>3. QED
  BY Zenon, <1>1, <1>2

LEMMA ReturnKeeps ==
  ASSUME WorkerIInv, ReturnToLoop
  PROVE  WorkerIInv'
<1>0. /\ WorkerTypes /\ LoopInv /\ wpc \in {"process", "event"} /\ wpc' \in {"stopped", "loop"}
      /\ UNCHANGED <<state, go, dcp, ewb, refcount, held, owed, paused, pendingIo, todo, cur, sends, pipe>>
      /\ signal_idle_clients(active) /\ cur = None /\ todo = {}
  BY Zenon DEF WorkerIInv, ReturnToLoop, cmdVars, engineVars, listVars
<1>1. WorkerTypes'
  BY Zenon, <1>0, SignalKeeps DEF WorkerTypes
<1>2. LoopInv'
  BY Zenon, <1>0 DEF LoopInv
<1>3. WakeupOnItsWay'
  BY Zenon, <1>0 DEF WakeupOnItsWay, WorkerIInv
<1>4. \A d \in Conn : ConnInv(d)'
  BY Zenon, <1>0, SignalKeeps, LoopKeeps
<1>5. QED
  BY <1>1, <1>2, <1>3, <1>4 DEF WorkerIInv

-----------------------------------------------------------------------------
(* Clients, engines and tasks.                                             *)

\* c, which exists and is not about to be destroyed, is put on pending_io.
LEMMA EnlistKeeps ==
  ASSUME WorkerIInv, NEW c \in Conn, Unlocked, add_conn_to_pending_io_list(c), c \in Alive,
         UNCHANGED <<state, go, dcp, ewb, registered, todo, cur, wpc, pipe>>,
         SameBut(held, held', c), SameBut(owed, owed', c), SameBut(paused, paused', c),
         SameBut(refcount, refcount', c), refcount' \in [Conn -> Nat],
         HeldInv(c)', owed'[c] => held'[c]
  PROVE  WorkerIInv'
<1>0. /\ WorkerTypes /\ LoopInv /\ cur = None /\ todo = {} /\ pendingIo' = pendingIo \cup {c}
      /\ sends' \in Nat /\ (pendingIo = {} => sends' > 0) /\ (pendingIo # {} => sends' = sends)
  BY DEF WorkerIInv, LoopInv, Unlocked, WorkerTypes, add_conn_to_pending_io_list
<1>1. WorkerTypes'
  BY Zenon, <1>0 DEF WorkerTypes, SameBut
<1>2. LoopInv'
  BY Zenon, <1>0 DEF LoopInv, Unlocked
<1>3. WakeupOnItsWay'
  <2>1. CASE pendingIo = {}
    BY Zenon, <1>0, <2>1 DEF WakeupOnItsWay
  <2>2. CASE pendingIo # {}
    BY Zenon, <1>0, <2>2 DEF WakeupOnItsWay, WorkerIInv
  <2>3. QED
    BY Zenon, <2>1, <2>2
<1>4. Alive' = Alive /\ Open' = Open
  BY Zenon DEF Alive, Open
<1>5. ASSUME NEW d \in Conn, d # c PROVE ConnInv(d)'
  <2>1. /\ held'[d] = held[d] /\ owed'[d] = owed[d] /\ paused'[d] = paused[d]
        /\ refcount'[d] = refcount[d] /\ ConnInv(d)
    BY Zenon, <1>5 DEF SameBut, WorkerIInv
  <2>2. HeldInv(d)'
    BY Zenon, <1>4, <2>1 DEF ConnInv, HeldInv
  <2>3. OwedInv(d)' /\ ListInv(d)'
    BY Zenon, <1>0, <1>4, <1>5, <2>1 DEF ConnInv, OwedInv, ListInv
  <2>4. QED
    BY Zenon, <2>2, <2>3 DEF ConnInv
<1>6. OwedInv(c)'
  BY Zenon DEF OwedInv
<1>7. ListInv(c)'
  BY Zenon, <1>0, <1>4, WorkerAssumption DEF ListInv, ConnInv, WorkerIInv
<1>8. QED
  BY Zenon, <1>1, <1>2, <1>3, <1>5, <1>6, <1>7 DEF WorkerIInv, ConnInv

LEMMA NotifyKeeps ==
  ASSUME WorkerIInv, NEW c \in Conn, notify_io_complete(c)
  PROVE  WorkerIInv'
<1>0. /\ WorkerTypes /\ ConnInv(c) /\ Unlocked /\ owed[c] /\ add_conn_to_pending_io_list(c)
      /\ owed' = [owed EXCEPT ![c] = FALSE]
      /\ UNCHANGED <<state, go, dcp, ewb, registered, todo, cur, wpc, pipe, refcount, held, paused>>
  BY Zenon DEF WorkerIInv, notify_io_complete, cmdVars, eventVars, loopVars, runVars
<1>1. c \in Alive
  BY Zenon, <1>0 DEF ConnInv, HeldInv, OwedInv, Alive
<1>2. ~owed'[c] /\ SameBut(owed, owed', c) /\ refcount' \in [Conn -> Nat]
  BY Zenon, <1>0 DEF WorkerTypes, SameBut
<1>3. HeldInv(c)'
  BY Zenon, <1>0 DEF ConnInv, HeldInv, Alive, Open
<1>4. SameBut(held, held', c) /\ SameBut(paused, paused', c) /\ SameBut(refcount, refcount', c)
  BY Zenon, <1>0 DEF SameBut
<1>5. QED
  BY Zenon, <1>0, <1>1, <1>2, <1>3, <1>4, EnlistKeeps

LEMMA NotifyPausedKeeps ==
  ASSUME WorkerIInv, NEW c \in Conn, NotifyPaused(c)
  PROVE  WorkerIInv'
<1>0. /\ WorkerTypes /\ ConnInv(c) /\ Unlocked /\ paused[c] /\ add_conn_to_pending_io_list(c)
      /\ paused' = [paused EXCEPT ![c] = FALSE]
      /\ UNCHANGED <<state, go, dcp, ewb, registered, todo, cur, wpc, pipe, refcount, held, owed>>
  BY DEF WorkerIInv, NotifyPaused, cmdVars, eventVars, loopVars, runVars
<1>1. c \in Alive /\ held[c]
  BY Zenon, <1>0 DEF ConnInv, HeldInv
<1>2. ~paused'[c] /\ SameBut(paused, paused', c) /\ refcount' \in [Conn -> Nat]
  BY Zenon, <1>0 DEF WorkerTypes, SameBut
<1>3. HeldInv(c)'
  BY Zenon, <1>0, <1>2 DEF ConnInv, HeldInv, Alive, Open
<1>4. SameBut(held, held', c) /\ SameBut(owed, owed', c) /\ SameBut(refcount, refcount', c)
  BY <1>0 DEF SameBut
<1>5. QED
  BY Zenon, <1>0, <1>1, <1>2, <1>3, <1>4, EnlistKeeps

\* The reference that the engine had is gone.
LEMMA ReleaseKeeps ==
  ASSUME WorkerIInv, NEW c \in Conn, release_cookie(c)
  PROVE  WorkerIInv'
<1>0. /\ WorkerTypes /\ ConnInv(c) /\ Unlocked /\ held[c] /\ ~owed[c]
      /\ state[c] = "pending_close" /\ add_conn_to_pending_io_list(c)
      /\ held' = [held EXCEPT ![c] = FALSE] /\ paused' = [paused EXCEPT ![c] = FALSE]
      /\ refcount' = [refcount EXCEPT ![c] = @ - 1]
      /\ UNCHANGED <<state, go, dcp, ewb, registered, todo, cur, wpc, pipe, owed>>
  BY Zenon DEF WorkerIInv, release_cookie, cmdVars, eventVars, loopVars, runVars
<1>1. c \in Alive /\ c \notin Open /\ c \in Alive' /\ c \notin Open'
  BY Zenon, <1>0 DEF Alive, Open
<1>2. ~paused'[c] /\ SameBut(paused, paused', c) /\ ~held'[c] /\ SameBut(held, held', c)
  BY Zenon, <1>0 DEF WorkerTypes, SameBut
<1>3. refcount[c] = 2
  BY Zenon, <1>0, <1>1 DEF ConnInv, HeldInv
<1>4. refcount'[c] = 1 /\ refcount' \in [Conn -> Nat] /\ SameBut(refcount, refcount', c)
  BY <1>0, <1>3 DEF WorkerTypes, SameBut
<1>5. HeldInv(c)'
  BY Zenon, <1>0, <1>1, <1>2, <1>4 DEF ConnInv, HeldInv
<1>6. SameBut(owed, owed', c)
  BY Zenon, <1>0 DEF SameBut
<1>7. QED
  BY Zenon, <1>0, <1>1, <1>2, <1>4, <1>5, <1>6, EnlistKeeps

\* Steps that leave alone what the invariant of a connection is about.
LEMMA ConnUnchanged ==
  ASSUME WorkerIInv, UNCHANGED <<state, go, dcp, ewb, registered, refcount, held, owed, paused,
                                 pendingIo, todo, cur, wpc>>,
         sends' \in Nat, WakeupOnItsWay'
  PROVE  WorkerIInv'
<1>1. WorkerTypes'
  BY Zenon DEF WorkerIInv, WorkerTypes
<1>2. LoopInv'
  BY Zenon DEF WorkerIInv, LoopInv
<1>3. \A d \in Conn : ConnInv(d)'
  BY Zenon DEF WorkerIInv, ConnInv, HeldInv, OwedInv, ListInv, Alive, Open
<1>4. QED
  BY Zenon, <1>1, <1>2, <1>3 DEF WorkerIInv

LEMMA NewConnKeeps ==
  ASSUME WorkerIInv, NEW c \in Conn, dispatch_conn_new(c)
  PROVE  WorkerIInv'
<1>0. /\ WorkerTypes /\ LoopInv /\ ConnInv(c) /\ state[c] = "none"
      /\ state' = [state EXCEPT ![c] = "queued"] /\ sends' = sends + 1
      /\ UNCHANGED <<go, dcp, ewb, registered, refcount, held, owed, paused, pendingIo, todo, cur, wpc>>
  BY Zenon DEF WorkerIInv, dispatch_conn_new, cmdVars, eventVars, engineVars, loopVars, runVars
<1>1. WorkerTypes' /\ sends' > 0
  BY <1>0 DEF WorkerTypes, State
<1>2. LoopInv'
  BY Zenon, <1>0 DEF LoopInv
<1>3. WakeupOnItsWay'
  BY Zenon, <1>1 DEF WakeupOnItsWay
<1>4. ASSUME NEW d \in Conn PROVE ConnInv(d)'
  <2>1. /\ d \in Alive <=> d \in Alive'
        /\ d \in Open <=> d \in Open'
        /\ state'[d] = state[d] \/ (state[d] = "none" /\ state'[d] = "queued")
    BY Zenon, <1>0 DEF WorkerTypes, Alive, Open
  <2>2. ConnInv(d)
    BY Zenon DEF WorkerIInv
  <2>3. HeldInv(d)'
    BY Zenon, <1>0, <2>1, <2>2 DEF ConnInv, HeldInv
  <2>4. OwedInv(d)' /\ ListInv(d)'
    BY Zenon, <1>0, <2>1, <2>2 DEF ConnInv, OwedInv, ListInv
  <2>5. QED
    BY Zenon, <2>3, <2>4 DEF ConnInv
<1>5. QED
  BY Zenon, <1>1, <1>2, <1>3, <1>4 DEF WorkerIInv

LEMMA OtherKeeps ==
  ASSUME WorkerIInv,
         Shutdown \/ notify_thread \/ \E c \in Conn : ClientSends(c) \/ HangUp(c)
  PROVE  WorkerIInv'
<1>0. /\ UNCHANGED <<state, go, dcp, ewb, registered, refcount, held, owed, paused, pendingIo,
                     todo, cur, wpc>>
      /\ \/ sends' = sends /\ pipe' = pipe
         \/ sends' = sends + 1
         \/ sends > 0 /\ sends' = sends - 1 /\ pipe' = TRUE
  BY Zenon DEF Shutdown, notify_thread, ClientSends, HangUp, cmdVars, eventVars, engineVars,
     listVars, loopVars, runVars
<1>1. sends \in Nat /\ sends' \in Nat
  BY <1>0 DEF WorkerIInv, WorkerTypes
<1>2. WakeupOnItsWay'
  <2>1. CASE sends' = sends /\ pipe' = pipe
    BY Zenon, <1>0, <2>1 DEF WorkerIInv, WakeupOnItsWay
  <2>2. CASE sends' = sends + 1
    BY <1>1, <2>2 DEF WakeupOnItsWay
  <2>3. CASE pipe' = TRUE
    BY Zenon, <2>3 DEF WakeupOnItsWay
  <2>4. QED
    BY Zenon, <1>0, <2>1, <2>2, <2>3
<1>3. QED
  BY Zenon, <1>0, <1>1, <1>2, ConnUnchanged

-----------------------------------------------------------------------------
(* The theorems.                                                           *)

\* A worker starts with no connection.
LEMMA WorkerInitKeeps == Init => WorkerIInv
<1> SUFFICES ASSUME Init PROVE WorkerIInv
  BY Zenon
<1> USE DEF Init
<1>1. WorkerTypes
  BY Zenon DEF WorkerTypes, State
<1>2. LoopInv /\ WakeupOnItsWay
  BY Zenon DEF LoopInv, WakeupOnItsWay
<1>3. Alive = {} /\ Open = {}
  BY Zenon DEF Alive, Open
<1>4. \A c \in Conn : ConnInv(c)
  BY Zenon, <1>3 DEF ConnInv, HeldInv, OwedInv, ListInv
<1>5. QED
  BY Zenon, <1>1, <1>2, <1>4 DEF WorkerIInv

\* Every step of the worker and of the threads around it keeps the invariant.
LEMMA WorkerStepKeeps == WorkerIInv /\ [Next]_vars => WorkerIInv'
<1> SUFFICES ASSUME WorkerIInv, [Next]_vars PROVE WorkerIInv'
  BY Zenon
<1>1. CASE UNCHANGED vars
  <2>1. WakeupOnItsWay' /\ sends' \in Nat
    BY Zenon, <1>1 DEF vars, listVars, loopVars, WorkerIInv, WorkerTypes, WakeupOnItsWay
  <2>2. QED
    BY Zenon, <1>1, <2>1, ConnUnchanged
       DEF vars, cmdVars, eventVars, engineVars, listVars, loopVars, runVars
<1>2. CASE Worker
  BY Zenon, <1>2, DrainKeeps, DispatchKeeps, ReturnKeeps, RunPendingKeeps, EventKeeps,
     RunConnectionKeeps DEF Worker
<1>3. CASE Shutdown \/ notify_thread
  BY Zenon, <1>3, OtherKeeps
<1>4. ASSUME NEW c \in Conn, Client(c) PROVE WorkerIInv'
  BY Zenon, <1>4, NewConnKeeps, OtherKeeps DEF Client
<1>5. ASSUME NEW c \in Conn, Engine(c) PROVE WorkerIInv'
  BY Zenon, <1>5, NotifyKeeps, NotifyPausedKeeps, ReleaseKeeps DEF Engine
<1>6. ASSUME NEW c \in Conn, TimeoutEvent(c) PROVE WorkerIInv'
  BY Zenon, <1>6, EventKeeps
<1>7. QED
  BY Zenon, <1>1, <1>2, <1>3, <1>4, <1>5, <1>6 DEF Next

\* The invariant of the worker and its connections always holds.
THEOREM WorkerInvariance == Spec => []WorkerIInv
BY WorkerInitKeeps, WorkerStepKeeps, PTL DEF Spec

\* No wakeup is lost, for any number of connections and notifying threads: when
\* add_conn_to_pending_io_list or the dispatcher has queued a connection, the
\* worker will look at its lists (notify_thread, thread_libevent_process).
THEOREM NoWakeupLost == Spec => []WakeupOnItsWay
<1>1. WorkerIInv => WakeupOnItsWay
  BY Zenon DEF WorkerIInv
<1>2. QED
  BY <1>1, WorkerInvariance, PTL

\* No connection is destroyed (conn_immediate_close) while an engine holds its
\* cookie, an engine or a task will notify it, or a list of the worker has it.
THEOREM CookiesStayValid == Spec => []CookieValid
<1>1. WorkerIInv => CookieValid
  <2> SUFFICES ASSUME WorkerIInv, NEW c \in Conn,
                      owed[c] \/ held[c] \/ c \in pendingIo \cup todo
               PROVE  c \in Alive
    BY Zenon DEF CookieValid
  <2>1. ConnInv(c)
    BY Zenon DEF WorkerIInv
  <2>2. QED
    BY Zenon, <2>1 DEF ConnInv, HeldInv, OwedInv, ListInv, Alive
<1>2. QED
  BY <1>1, WorkerInvariance, PTL

-----------------------------------------------------------------------------
(* The exchange of a client and the server that authenticates it.          *)

\* The verdict an exchange should end with.
VerdictIs(result) ==
  IF stored # NoPassword
  THEN (result = "OK") <=> (peer.pass = stored /\ backend.mech \in setup.enabled)
  ELSE result = "OK" => setup.ldap /\ backend.mech = "PLAIN"

\* Nobody has authenticated.
SaslFresh == peer = [at |-> "idle"] /\ wire = Silence /\ saslConn.authenticated = FALSE

\* The first message is on its way.
SaslAsked ==
  /\ peer.at = "started"
  /\ wire.to = "server" /\ wire.op = "AUTH"
  /\ wire.mech = peer.mech /\ wire.user = peer.user /\ wire.cnonce = peer.cnonce
  /\ peer.mech = "PLAIN" => wire.pass = peer.pass

\* The server has the state of an exchange with SCRAM, and its copy of the user
\* is the one of the time it started.
ScramOn ==
  /\ backend.mech = peer.mech /\ backend.mech \in setup.enabled
  /\ backend.user.name = peer.user
  /\ backend.user.dummy <=> stored = NoPassword
  /\ stored # NoPassword => backend.user.pw = stored
  /\ saslConn.authenticated = FALSE

\* The challenge is on its way.
Challenged ==
  /\ peer.at = "started" /\ ScramOn
  /\ wire.to = "client" /\ wire.status = "CONTINUE"
  /\ backend.cnonce = peer.cnonce /\ wire.nonce = backend.nonce
  /\ wire.salt = backend.user.salt

\* What the server computes from the password of the client.
ClientSalted == SaltedPassword(backend.mech, peer.pass, backend.user.salt)
ServerAuthMessage ==
  getAuthMessage(backend.user.name, backend.cnonce, backend.nonce, backend.user.salt,
                 backend.nonce)

\* The proof of the client is on its way, and the client knows the signature it
\* expects in return.
ProofSent ==
  /\ peer.at = "proved" /\ ScramOn
  /\ wire.to = "server" /\ wire.op = "STEP" /\ wire.echo = backend.nonce
  /\ wire.proof = getClientProof(ClientSalted, ServerAuthMessage)
  /\ peer.signature = getServerSignature(ClientSalted, ServerAuthMessage)

\* The answer of the server.
SaslAnswered ==
  /\ peer.at \in {"started", "proved"}
  /\ wire.to = "client" /\ wire.status # "CONTINUE"
  /\ peer.at = "proved" /\ wire.status = "OK" => wire.signature = peer.signature
  /\ VerdictIs(wire.status)
  /\ saslConn.authenticated => wire.status = "OK" /\ saslConn.username = peer.user

\* The client has its result.
SaslFinished ==
  /\ peer.at = "done" /\ wire = Silence
  /\ VerdictIs(peer.result)
  /\ saslConn.authenticated /\ stored # NoPassword =>
       peer.pass = stored /\ saslConn.username = peer.user

SaslExchange == SaslFresh \/ SaslAsked \/ Challenged \/ ProofSent \/ SaslAnswered \/ SaslFinished

\* What createServerBackend knows.
SaslMechanisms == {"SCRAM_SHA512", "SCRAM_SHA256", "SCRAM_SHA1", "PLAIN"}

\* The exchange is in one of its phases, and nobody starts one before a mechanism
\* is enabled.
SaslIInv ==
  /\ setup.enabled \subseteq SaslMechanisms
  /\ peer.at # "idle" => setup.enabled # {}
  /\ SaslExchange

-----------------------------------------------------------------------------

\* In every phase the result, and the state of the connection, are as promised.
LEMMA SaslVerdictFollows == SaslIInv => SaslVerdict
<1>1. CASE SaslFresh
  BY Zenon, <1>1 DEF SaslFresh, SaslVerdict
<1>2. CASE SaslAsked
  BY Zenon, <1>2 DEF SaslAsked, SaslVerdict
<1>3. CASE Challenged
  BY Zenon, <1>3 DEF Challenged, ScramOn, SaslVerdict
<1>4. CASE ProofSent
  BY Zenon, <1>4 DEF ProofSent, ScramOn, SaslVerdict
<1>5. CASE SaslAnswered
  BY Zenon, <1>5 DEF SaslAnswered, VerdictIs, SaslVerdict
<1>6. CASE SaslFinished
  BY Zenon, <1>6 DEF SaslFinished, VerdictIs, SaslVerdict
<1>7. QED
  BY Zenon, <1>1, <1>2, <1>3, <1>4, <1>5, <1>6 DEF SaslIInv, SaslExchange

\* SaslInit establishes the invariant.
LEMMA SaslInitially == SaslInit => SaslIInv
<1> SUFFICES ASSUME SaslInit PROVE SaslIInv
  BY Zenon
<1>1. setup.enabled = {}
  BY Zenon DEF SaslInit
<1>2. peer.at = "idle"
  BY Zenon DEF SaslInit
<1>3. saslConn.authenticated = FALSE
  BY Zenon DEF SaslInit, NotAuthenticated
<1>4. SaslFresh
  BY Zenon, <1>3 DEF SaslInit, SaslFresh
<1>5. QED
  BY Zenon, <1>1, <1>2, <1>4 DEF SaslIInv, SaslExchange

\* Only mechanisms the server knows are enabled (cbsasl_set_available_mechanisms).
LEMMA EnabledKnown == \A mechs : cbsasl_set_available_mechanisms(mechs) \subseteq SaslMechanisms
BY DEF cbsasl_set_available_mechanisms, availableMechs, SaslMechanisms

\* The server is initialized before anybody asks.
LEMMA SaslServerInit ==
  ASSUME SaslIInv, NEW mechs, NEW ldap, cbsasl_server_init(mechs, ldap)
  PROVE  SaslIInv'
<1>1. setup.enabled = {} /\ UNCHANGED <<peer, wire, saslConn>>
  BY Zenon DEF cbsasl_server_init
<1>2. setup'.enabled \subseteq SaslMechanisms
  BY Zenon, EnabledKnown DEF cbsasl_server_init
<1>3. peer.at = "idle" /\ SaslExchange
  BY Zenon, <1>1 DEF SaslIInv
<1>4. SaslFresh
  BY Zenon, <1>3 DEF SaslExchange, SaslFresh, SaslAsked, Challenged, ProofSent, SaslAnswered, SaslFinished
<1>5. QED
  BY Zenon, <1>1, <1>2, <1>3, <1>4 DEF SaslIInv, SaslExchange, SaslFresh

\* The password file and the database may change at any time.
LEMMA DatabaseChanges ==
  ASSUME SaslIInv, UNCHANGED <<setup, peer, backend, saslConn, wire, stored>>
  PROVE  SaslIInv'
BY Zenon DEF SaslIInv, SaslExchange, SaslFresh, SaslAsked, Challenged, ProofSent, SaslAnswered, SaslFinished,
       ScramOn, VerdictIs, ClientSalted, ServerAuthMessage

\* The client sends its first message: a new exchange.
LEMMA ClientAsks ==
  ASSUME SaslIInv, NEW name, NEW pass, NEW mechs, authenticate(name, pass, mechs)
  PROVE  SaslIInv'
<1>1. PICK mech : /\ peer' = cbsasl_client_new(mech, name, pass)
                  /\ wire' = cbsasl_client_start(mech, name, pass)
  BY Zenon DEF authenticate
<1>2. setup.enabled # {} /\ UNCHANGED setup
  BY Zenon DEF authenticate
<1>3. SaslAsked'
  BY Zenon, <1>1 DEF SaslAsked, cbsasl_client_new, cbsasl_client_start
<1>4. QED
  BY Zenon, <1>2, <1>3 DEF SaslIInv, SaslExchange

\* Only the server's challenge lets the client take its step.
\* The client answers the challenge with its proof.
LEMMA ClientSteps == ASSUME SaslIInv, cbsasl_client_step PROVE SaslIInv'
<1>1. Challenged
  BY DEF SaslIInv, SaslExchange, SaslFresh, SaslAsked, ProofSent, SaslAnswered, SaslFinished, Silence,
         cbsasl_client_step
<1>2. UNCHANGED <<setup, backend, saslConn, stored>>
  BY Zenon DEF cbsasl_client_step
<1>3. /\ wire' = [to |-> "server", op |-> "STEP", echo |-> wire.nonce,
                  proof |-> getClientProof(ClientSalted, ServerAuthMessage)]
      /\ peer' = [at |-> "proved", mech |-> peer.mech, user |-> peer.user,
                  pass |-> peer.pass,
                  signature |-> getServerSignature(ClientSalted, ServerAuthMessage)]
  BY Zenon, <1>1 DEF Challenged, ScramOn, ClientSalted, ServerAuthMessage, cbsasl_client_step
<1>4. peer'.pass = peer.pass /\ peer'.mech = peer.mech /\ peer'.user = peer.user
  BY Zenon, <1>3
<1>5. ClientSalted' = ClientSalted /\ ServerAuthMessage' = ServerAuthMessage
  BY Zenon, <1>2, <1>4 DEF ClientSalted, ServerAuthMessage, SaltedPassword, getAuthMessage
<1>6. ScramOn'
  BY Zenon, <1>1, <1>2, <1>4 DEF Challenged, ScramOn
<1>7. /\ wire'.proof = getClientProof(ClientSalted', ServerAuthMessage')
      /\ peer'.signature = getServerSignature(ClientSalted', ServerAuthMessage')
  BY Zenon, <1>3, <1>5
<1>8. /\ peer'.at = "proved" /\ wire'.to = "server" /\ wire'.op = "STEP"
      /\ wire'.echo = backend'.nonce
  BY Zenon, <1>1, <1>2, <1>3 DEF Challenged
<1>9. ProofSent'
  BY Zenon, <1>6, <1>7, <1>8 DEF ProofSent, getClientProof, getServerSignature
<1>10. peer.at = "started"
  BY Zenon, <1>1 DEF Challenged
<1>11. QED
  BY Zenon, <1>2, <1>9, <1>10 DEF SaslIInv, SaslExchange

\* The client takes the verdict, and in SCRAM compares the signature.
LEMMA ClientEnds == ASSUME SaslIInv, ClientDone PROVE SaslIInv'
<1>1. SaslAnswered
  BY DEF SaslIInv, SaslExchange, SaslFresh, SaslAsked, Challenged, ProofSent, SaslFinished, Silence,
         ClientDone
<1>2. UNCHANGED <<setup, backend, saslConn, stored>> /\ wire' = Silence
  BY Zenon DEF ClientDone
<1>3. /\ peer'.at = "done" /\ peer'.user = peer.user /\ peer'.pass = peer.pass
      /\ peer'.result = wire.status
  BY Zenon, <1>1 DEF SaslAnswered, ClientDone
<1>4. VerdictIs(peer.result)' <=> VerdictIs(wire.status)
  BY Zenon, <1>2, <1>3 DEF VerdictIs
<1>5. SaslFinished'
  BY Zenon, <1>1, <1>2, <1>3, <1>4 DEF SaslFinished, SaslAnswered, VerdictIs
<1>6. peer.at # "idle"
  BY Zenon, <1>1 DEF SaslAnswered
<1>7. QED
  BY Zenon, <1>2, <1>5, <1>6 DEF SaslIInv, SaslExchange

\* The server answers the first message: a verdict (PLAIN, or an error), or a
\* challenge.
LEMMA ServerStarts == ASSUME SaslIInv, StartSaslAuthTask PROVE SaslIInv'
<1>1. SaslAsked
  BY DEF SaslIInv, SaslExchange, SaslFresh, Challenged, ProofSent, SaslAnswered, SaslFinished, Silence,
         StartSaslAuthTask
<1>2. UNCHANGED <<setup, peer, pwdb>> /\ stored' = pwdb.pw[peer.user]
  BY Zenon, <1>1 DEF StartSaslAuthTask, SaslAsked
<1>3. peer.at = "started" /\ wire.mech = peer.mech /\ wire.user = peer.user
  BY Zenon, <1>1 DEF SaslAsked
<1>4. PICK user : user = find_user(wire.user)
  BY Zenon
<1>5. /\ user.name = peer.user /\ (user.dummy <=> stored' = NoPassword)
      /\ stored' # NoPassword => user.pw = stored'
  BY Zenon, <1>2, <1>3, <1>4 DEF find_user, createDummy, UserOf
<1>6. CASE ~createServerBackend(wire.mech)
  <2>1. /\ backend' = NoBackend /\ wire' = [to |-> "client", status |-> "NOMEM"]
        /\ saslConn' = [authenticated |-> SaslAccepted("NOMEM"), username |-> ""]
    <3>1. cbsasl_server_start(wire)
      BY Zenon DEF StartSaslAuthTask
    <3>2. backend' = NoBackend /\ Complete("NOMEM", "", [to |-> "client", status |-> "NOMEM"])
      BY <1>6, <3>1, Zenon DEF cbsasl_server_start
    <3>3. QED
      BY <3>2, Zenon DEF Complete
  <2>2. backend'.mech = "none" /\ ~(backend'.mech \in setup'.enabled)
    BY Zenon, <2>1, <1>2 DEF NoBackend, SaslIInv, SaslMechanisms
  <2>3. ~saslConn'.authenticated
    BY Zenon, <2>1 DEF SaslAccepted
  <2>4. wire'.to = "client" /\ wire'.status = "NOMEM"
    BY Zenon, <2>1
  <2>5. SaslAnswered'
    BY Zenon, <2>2, <2>3, <2>4, <1>2, <1>3 DEF SaslAnswered, VerdictIs
  <2>6. QED
    BY Zenon, <2>5, <1>2, <1>3 DEF SaslIInv, SaslExchange
<1>7. CASE createServerBackend(wire.mech) /\ wire.mech = "PLAIN"
  <2>1. PICK error \in PlainStart(wire) :
          /\ saslConn' = [authenticated |-> SaslAccepted(error), username |-> wire.user]
          /\ wire' = [to |-> "client", status |-> error]
    BY Zenon, <1>7 DEF StartSaslAuthTask, cbsasl_server_start, Complete
  <2>2. backend'.mech = "PLAIN" /\ "PLAIN" \in setup'.enabled
    <3>1. backend' = [mech |-> "PLAIN"]
      BY <1>7, Zenon DEF StartSaslAuthTask, cbsasl_server_start
    <3>2. "PLAIN" \in setup'.enabled
      BY <1>7, <1>2, Zenon DEF createServerBackend
    <3>3. QED
      BY Zenon, <3>1, <3>2
  <2>3. wire.pass = peer.pass
    BY Zenon, <1>1, <1>7 DEF SaslAsked
  <2>4. /\ error # "CONTINUE"
        /\ stored' # NoPassword => (error = "OK" <=> peer.pass = stored')
        /\ stored' = NoPassword => (error = "OK" => setup.ldap)
    <3>1. CASE user.dummy
      <4>1. error \in IF setup.ldap THEN SaslauthdAnswers ELSE {"NOUSER"}
        <5>1. PlainStart(wire) = IF setup.ldap THEN SaslauthdAnswers ELSE {"NOUSER"}
          BY <3>1, <1>4, Zenon DEF PlainStart
        <5>2. QED
          BY Zenon, <5>1, <2>1
      <4>2. stored' = NoPassword
        BY Zenon, <3>1, <1>5
      <4>3. error \in {"OK", "PWERR", "FAIL", "NOUSER"} /\ (error = "OK" => setup.ldap)
        BY Zenon, <4>1 DEF SaslauthdAnswers
      <4>4. QED
        BY Zenon, <4>2, <4>3
    <3>2. CASE ~user.dummy
      BY Zenon, <3>2, <2>1, <2>3, <1>4, <1>5 DEF PlainStart
    <3>3. QED
      BY Zenon, <3>1, <3>2
  <2>5. wire'.to = "client" /\ wire'.status = error
    BY Zenon, <2>1
  <2>6. VerdictIs(wire.status)'
    BY Zenon, <2>2, <2>4, <2>5, <1>2 DEF VerdictIs
  <2>7. saslConn'.authenticated => error = "OK" /\ saslConn'.username = peer.user
    BY Zenon, <2>1, <1>3 DEF SaslAccepted
  <2>8. SaslAnswered'
    BY Zenon, <2>4, <2>5, <2>6, <2>7, <1>2, <1>3 DEF SaslAnswered
  <2>9. QED
    BY Zenon, <2>8, <1>2, <1>3 DEF SaslIInv, SaslExchange
<1>8. CASE createServerBackend(wire.mech) /\ wire.mech # "PLAIN"
  <2>1. /\ backend' = ScramStart(wire)
        /\ saslConn' = [authenticated |-> SaslAccepted("CONTINUE"), username |-> wire.user]
        /\ wire' = [to |-> "client", status |-> "CONTINUE", nonce |-> backend'.nonce,
                    salt |-> backend'.user.salt]
    BY Zenon, <1>8 DEF StartSaslAuthTask, cbsasl_server_start, Complete
  <2>2. backend'.mech = peer.mech /\ backend'.user = user /\ backend'.cnonce = peer.cnonce
    BY Zenon, <2>1, <1>1, <1>4 DEF ScramStart, SaslAsked
  <2>3. backend'.mech \in setup'.enabled
    BY Zenon, <2>2, <1>2, <1>3, <1>8 DEF createServerBackend
  <2>4. saslConn'.authenticated = FALSE
    BY Zenon, <2>1 DEF SaslAccepted
  <2>5. ScramOn'
    BY Zenon, <2>2, <2>3, <2>4, <1>2, <1>5 DEF ScramOn
  <2>6. Challenged'
    BY Zenon, <2>1, <2>2, <2>5, <1>2, <1>3 DEF Challenged
  <2>7. QED
    BY Zenon, <2>6, <1>2, <1>3 DEF SaslIInv, SaslExchange
<1>9. QED
  BY Zenon, <1>6, <1>7, <1>8

\* The server compares the proof with the one of the password it has.
LEMMA ServerSteps == ASSUME SaslIInv, StepSaslAuthTask PROVE SaslIInv'
<1>1. ProofSent
  BY DEF SaslIInv, SaslExchange, SaslFresh, SaslAsked, Challenged, SaslAnswered, SaslFinished, Silence,
         StepSaslAuthTask
<1>2. UNCHANGED <<setup, peer, backend, stored>>
  BY Zenon DEF StepSaslAuthTask
<1>3. PICK salted, error :
        /\ salted = SaltedPassword(backend.mech, backend.user.pw, backend.user.salt)
        /\ error = IF ~(cbsasl_secure_compare(wire.proof, getClientProof(salted, ServerAuthMessage))
                          # (IF backend.user.dummy THEN 1 ELSE 0))
                   THEN "OK" ELSE IF backend.user.dummy THEN "NOUSER" ELSE "PWERR"
        /\ saslConn' = [authenticated |-> SaslAccepted(error), username |-> backend.user.name]
        /\ wire' = [to |-> "client", status |-> error,
                    signature |-> IF backend.user.dummy /\ setup.ldap
                                  THEN "scram-not-supported-for-ldap-users"
                                  ELSE getServerSignature(salted, ServerAuthMessage)]
  BY Zenon, <1>1 DEF StepSaslAuthTask, Complete, StepUser, ServerAuthMessage, ProofSent
<1>4. wire'.to = "client" /\ wire'.status = error
  BY Zenon, <1>3
<1>5. wire.proof = getClientProof(salted, ServerAuthMessage) <=> peer.pass = backend.user.pw
  <2>1. wire.proof = getClientProof(ClientSalted, ServerAuthMessage)
    BY Zenon, <1>1 DEF ProofSent
  <2>2. \A s, a : getClientProof(s, a)[2] = s
    BY Zenon DEF getClientProof
  <2>3. salted[2] = backend.user.pw /\ ClientSalted[2] = peer.pass
    BY Zenon, <1>3 DEF ClientSalted, SaltedPassword
  <2>4. peer.pass = backend.user.pw => salted = ClientSalted
    BY Zenon, <1>3 DEF ClientSalted
  <2>5. wire.proof[2] = ClientSalted /\ getClientProof(salted, ServerAuthMessage)[2] = salted
    BY <2>1, <2>2, Zenon
  <2>6. QED
    BY Zenon, <2>1, <2>3, <2>4, <2>5
<1>6. error # "CONTINUE"
  BY Zenon, <1>3
<1>7. error = "OK" <=> peer.pass = backend.user.pw /\ ~backend.user.dummy
  <2>1. /\ cbsasl_secure_compare(wire.proof, getClientProof(salted, ServerAuthMessage)) # 1
        /\ cbsasl_secure_compare(wire.proof, getClientProof(salted, ServerAuthMessage)) = 0
             <=> peer.pass = backend.user.pw
    BY <1>5 DEF cbsasl_secure_compare
  <2>2. QED
    BY Zenon, <1>3, <2>1
<1>8. error = "OK" => wire'.signature = peer.signature
  <2>1. SUFFICES ASSUME error = "OK" PROVE wire'.signature = peer.signature
    BY Zenon
  <2>2. salted = ClientSalted
    BY Zenon, <2>1, <1>3, <1>7 DEF ClientSalted
  <2>3. wire'.signature = getServerSignature(salted, ServerAuthMessage)
    BY Zenon, <2>1, <1>3, <1>7
  <2>4. QED
    BY Zenon, <2>2, <2>3, <1>1 DEF ProofSent
<1>9. /\ backend.user.name = peer.user /\ backend.mech \in setup.enabled
      /\ backend.user.dummy <=> stored = NoPassword
      /\ stored # NoPassword => backend.user.pw = stored
  BY Zenon, <1>1 DEF ProofSent, ScramOn
<1>10. VerdictIs(wire.status)'
  BY Zenon, <1>2, <1>4, <1>7, <1>9 DEF VerdictIs
<1>11. saslConn'.authenticated => error = "OK" /\ saslConn'.username = peer.user
  BY Zenon, <1>3, <1>9 DEF SaslAccepted
<1>12. peer.at = "proved"
  BY Zenon, <1>1 DEF ProofSent
<1>13. SaslAnswered'
  BY Zenon, <1>2, <1>4, <1>6, <1>8, <1>10, <1>11, <1>12 DEF SaslAnswered
<1>14. QED
  BY Zenon, <1>2, <1>12, <1>13 DEF SaslIInv, SaslExchange

\* A step that nobody asked for ends the authentication.
LEMMA StepRefused == ASSUME SaslIInv, cbsasl_server_step PROVE SaslIInv'
<1>1. /\ peer.at \in {"idle", "done"} /\ UNCHANGED <<setup, peer, backend, wire, stored>>
      /\ saslConn' = [authenticated |-> FALSE, username |-> saslConn.username]
  BY Zenon DEF cbsasl_server_step
<1>2. saslConn'.authenticated = FALSE
  BY <1>1
<1>3. CASE SaslFresh
  BY Zenon, <1>1, <1>2, <1>3 DEF SaslIInv, SaslExchange, SaslFresh
<1>4. CASE SaslFinished
  BY Zenon, <1>1, <1>2, <1>4 DEF SaslIInv, SaslExchange, SaslFinished, VerdictIs
<1>5. QED
  BY Zenon, <1>1, <1>3, <1>4 DEF SaslIInv, SaslExchange, SaslAsked, Challenged, ProofSent, SaslAnswered

\* Every step keeps the invariant.
LEMMA SaslStep == SaslIInv /\ [SaslNext]_SaslVars => SaslIInv'
<1> SUFFICES ASSUME SaslIInv, [SaslNext]_SaslVars PROVE SaslIInv'
  BY Zenon
<1>1. ASSUME NEW mechs, NEW ldap, cbsasl_server_init(mechs, ldap) PROVE SaslIInv'
  BY Zenon, <1>1, SaslServerInit
<1>2. CASE cbsasl_server_refresh
  BY Zenon, <1>2, DatabaseChanges DEF cbsasl_server_refresh
<1>3. ASSUME NEW content, WriteFile(content) PROVE SaslIInv'
  BY Zenon, <1>3, DatabaseChanges DEF WriteFile
<1>4. ASSUME NEW name, NEW pass, NEW mechs, authenticate(name, pass, mechs) PROVE SaslIInv'
  BY Zenon, <1>4, ClientAsks
<1>5. CASE cbsasl_client_step
  BY Zenon, <1>5, ClientSteps
<1>6. CASE ClientDone
  BY Zenon, <1>6, ClientEnds
<1>7. CASE StartSaslAuthTask
  BY <1>7, ServerStarts
<1>8. CASE StepSaslAuthTask
  BY <1>8, ServerSteps
<1>9. CASE cbsasl_server_step
  BY <1>9, StepRefused
<1>10. CASE UNCHANGED SaslVars
  BY Zenon, <1>10, DatabaseChanges DEF SaslVars
<1>11. QED
  BY Zenon, <1>1, <1>2, <1>3, <1>4, <1>5, <1>6, <1>7, <1>8, <1>9, <1>10 DEF SaslNext

\* An exchange ends with SUCCESS exactly if the password is the one the server had
\* for the user when it answered the first message, whatever happens to the file
\* and the database in between, and only then is the connection authenticated, as
\* that user (StartSaslAuthTask, StepSaslAuthTask): for any names, passwords, salts
\* and nonces.
THEOREM SaslVerdictAlways == SaslSpec => []SaslVerdict
<1>1. SaslInit => SaslIInv
  BY Zenon, SaslInitially
<1>2. SaslIInv /\ [SaslNext]_SaslVars => SaslIInv'
  BY Zenon, SaslStep
<1>3. SaslIInv => SaslVerdict
  BY Zenon, SaslVerdictFollows
<1>4. QED
  BY <1>1, <1>2, <1>3, PTL DEF SaslSpec

=============================================================================
