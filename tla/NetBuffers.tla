----------------------------- MODULE NetBuffers -----------------------------
(***************************************************************************)
(* The read and the write buffer of a worker thread and their loan to the  *)
(* connection that runs (daemon/connections.cc). The worker serves its     *)
(* connections one after the other; a connection gets buffers when its     *)
(* event loop starts and gives back the clean ones when it ends.           *)
(*                                                                         *)
(* A buffer is a number, 0 being NULL, for each of the two kinds; mem says *)
(* whose bytes are in it.                                                  *)
(***************************************************************************)
EXTENDS Integers, FiniteSets

CONSTANTS
  NetConns,   \* connections of the worker (strings)
  MaxNetBuf,  \* of each kind: enough for all of them and the thread
  MaxAccepts

ASSUME NetBuffersAssumption ==
  /\ IsFiniteSet(NetConns) /\ "thread" \notin NetConns
  /\ MaxNetBuf \in Nat /\ Cardinality(NetConns) <= MaxNetBuf

NetBufs == 1 .. MaxNetBuf
Kinds == {"read", "write"}

VARIABLE nb  \* the thread, its connections and the memory

\* A connection: its buffers, whether they hold data by curr and bytes, where the
\* response that is being sent is, and what it is.
NetConn(stream) ==
  [buf |-> [k \in Kinds |-> 0], clean |-> [k \in Kinds |-> TRUE], iov |-> 0,
   sending |-> FALSE, stream |-> stream, open |-> TRUE]

NetBuffersInit ==
  nb = [running |-> {}, thread |-> [k \in Kinds |-> 0], conn |-> [c \in {} |-> 0],
        mem |-> [k \in Kinds |-> [b \in NetBufs |-> "nobody"]],
        live |-> [k \in Kinds |-> {}], accepts |-> 0, garbled |-> FALSE]

Conn(c) == nb.conn[c]
NetIdle == nb.running = {}

-----------------------------------------------------------------------------
(* Loan and return *)

\* What cb_malloc returns is no buffer in use.
NewBuffer(x, k) == CHOOSE b \in NetBufs : b \notin x.live[k]

\* The buffer of the thread, or a new one, when the connection has none.
conn_loan_single_buffer(x, c, k) ==
  LET new == NewBuffer(x, k)
  IN IF x.conn[c].buf[k] # 0 THEN x
     ELSE IF x.thread[k] # 0
     THEN [x EXCEPT !.conn[c].buf[k] = x.thread[k], !.thread[k] = 0]
     ELSE [x EXCEPT !.conn[c].buf[k] = new, !.conn[c].clean[k] = TRUE, !.live[k] = @ \cup {new}]

NotCleared(x, c, k) == x
ConnCleared(x, c, k) == [x EXCEPT !.conn[c].buf[k] = 0]

BufferClean(x, c, k) == x.conn[c].clean[k]

\* A clean buffer goes to the thread, or is freed when the thread has one.
conn_return_single_buffer(x, c, k) ==
  LET b == x.conn[c].buf[k]
  IN IF b = 0 \/ ~BufferClean(x, c, k) THEN x
     ELSE ConnCleared(IF x.thread[k] = 0 THEN [x EXCEPT !.thread[k] = b]
                      ELSE [x EXCEPT !.live[k] = @ \ {b}, !.mem[k][b] = "nobody"], c, k)

conn_loan_buffers(x, c) ==
  conn_loan_single_buffer(conn_loan_single_buffer(x, c, "read"), c, "write")

\* Streams keep their buffers.
conn_return_buffers(x, c) ==
  IF x.conn[c].stream THEN x
  ELSE conn_return_single_buffer(conn_return_single_buffer(x, c, "read"), c, "write")

-----------------------------------------------------------------------------
(* The event loop of a connection *)

NetAccept(c) ==
  /\ NetIdle /\ nb.accepts < MaxAccepts /\ (c \in DOMAIN nb.conn => ~Conn(c).open)
  /\ \E stream \in BOOLEAN :
       nb' = [nb EXCEPT !.accepts = @ + 1,
                        !.conn = [d \in DOMAIN nb.conn \cup {c} |->
                                    IF d = c THEN NetConn(stream) ELSE nb.conn[d]]]

runEventLoop(c) ==
  /\ NetIdle /\ c \in DOMAIN nb.conn /\ Conn(c).open
  /\ nb' = [conn_loan_buffers(nb, c) EXCEPT !.running = {c}]

EventLoopEnds(c) ==
  /\ nb.running = {c}
  /\ nb' = [conn_return_buffers(nb, c) EXCEPT !.running = {}]

\* Input was read; a part of it may be left for the next event.
Reads(c) ==
  /\ nb.running = {c} /\ ~Conn(c).sending
  /\ \E left \in BOOLEAN :
       nb' = [nb EXCEPT !.mem["read"][Conn(c).buf["read"]] = c, !.conn[c].clean["read"] = ~left]

\* The header of a response is made in the write buffer, without a change of its
\* curr and bytes, and added to the iovecs.
mcbp_add_header(c) ==
  /\ nb.running = {c} /\ ~Conn(c).sending
  /\ nb' = [nb EXCEPT !.mem["write"][Conn(c).buf["write"]] = c,
                      !.conn[c].iov = Conn(c).buf["write"], !.conn[c].sending = TRUE]

\* A response in a buffer of its own, which curr and bytes then describe.
mcbp_write_and_free(c) ==
  /\ nb.running = {c} /\ ~Conn(c).sending
  /\ nb' = [nb EXCEPT !.conn[c].clean["write"] = FALSE,
                      !.conn[c].iov = 0, !.conn[c].sending = TRUE]

\* The memory still has what the connection has written there.
Holds(k, b, c) == b \in nb.live[k] /\ nb.mem[k][b] = c

\* All of the response leaves, or the connection waits until it can.
SendsAll(c) ==
  /\ nb.running = {c} /\ Conn(c).sending
  /\ nb' = [nb EXCEPT !.garbled = @ \/ (Conn(c).iov # 0 /\ ~Holds("write", Conn(c).iov, c)),
                      !.conn[c].iov = 0, !.conn[c].sending = FALSE]

\* The connection is closed in its event loop and loses its thread.
conn_cleanup(c) ==
  /\ nb.running = {c}
  /\ LET x == [nb EXCEPT !.conn[c].clean = [k \in Kinds |-> TRUE], !.conn[c].stream = FALSE,
                         !.conn[c].iov = 0, !.conn[c].sending = FALSE, !.conn[c].open = FALSE]
     IN nb' = [conn_return_buffers(x, c) EXCEPT !.running = {}]

NetBuffersNext ==
  \E c \in NetConns :
    \/ NetAccept(c) \/ runEventLoop(c) \/ EventLoopEnds(c) \/ Reads(c) \/ mcbp_add_header(c)
    \/ mcbp_write_and_free(c) \/ SendsAll(c) \/ conn_cleanup(c)

NetBuffersSpec == NetBuffersInit /\ [][NetBuffersNext]_nb

-----------------------------------------------------------------------------
(* Properties *)

Holders == {"thread"} \cup DOMAIN nb.conn
HeldBuf(h, k) == IF h = "thread" THEN nb.thread[k] ELSE nb.conn[h].buf[k]

\* Every buffer that was allocated and not freed belongs to the thread or to one
\* connection, and to no other: no connection works in a buffer another
\* one holds, no buffer is lost, and closing a connection gives back all it had.
BufferOwnedOnce ==
  /\ \A k \in Kinds : \A g, h \in Holders :
       HeldBuf(g, k) = HeldBuf(h, k) /\ HeldBuf(g, k) # 0 => g = h
  /\ \A k \in Kinds : {HeldBuf(h, k) : h \in Holders} \ {0} = nb.live[k]
  /\ \A c \in DOMAIN nb.conn : ~Conn(c).open => \A k \in Kinds : Conn(c).buf[k] = 0

\* What conn_return_buffers promises for output as well: "If there is partial
\* data, then keep the buffer with the connection", so that the header a client
\* receives is the one that was made for it.
LeftOutputKept == ~nb.garbled

=============================================================================
