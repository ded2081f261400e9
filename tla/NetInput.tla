------------------------------ MODULE NetInput ------------------------------
(***************************************************************************)
(* How the bytes a client sends become packets: the read buffer of a       *)
(* connection (daemon/connection_mcbp.cc) with its packing, growing and    *)
(* shrinking, the states that read (daemon/statemachine_mcbp.cc), and the  *)
(* buffers between the socket and OpenSSL when the connection uses SSL.    *)
(*                                                                         *)
(* A byte is its position in what the client sends, 0 being the handshake  *)
(* of an SSL connection. The memory of the read buffer is a sequence of    *)
(* bytes, Junk where nothing was written; pointers are offsets into it.    *)
(***************************************************************************)
EXTENDS Integers, Sequences, SequencesExt, FiniteSets, FiniteSetsExt

CONSTANTS
  Bodies,        \* the body lengths of the requests the client sends
  Header,        \* sizeof(protocol_binary_request_header)
  DataBufferSize, ReadHighwat,
  MaxReqs,       \* requests per event
  MaxReallocs,   \* of the read buffer in one call of tryReadNetwork
  BioSizes,      \* possible values of bio_drain_buffer_sz
  RecordSize     \* the client encrypts at most this many bytes at a time

Junk == -1

\* First and last byte of a request in the stream.
ReqFirst(k) == 1 + MapThenSumSet(LAMBDA i : Header + Bodies[i], 1 .. k - 1)
ReqLast(k) == ReqFirst(k) + Header + Bodies[k] - 1
StreamLen == ReqLast(Len(Bodies))
ReqBytes(k) == [i \in 1 .. Header + Bodies[k] |-> ReqFirst(k) + i - 1]

\* The body length a header at this byte holds; the magic of anything else is
\* not that of a request.
ReqAt(byte) == {k \in DOMAIN Bodies : ReqFirst(k) = byte}

\* The last bytes of the records of an SSL client, which starts a record with
\* every request.
RecordEnds ==
  {0} \cup {ReqLast(k) : k \in DOMAIN Bodies}
      \cup {b \in 1 .. StreamLen : \E k \in DOMAIN Bodies :
             /\ b \in ReqFirst(k) .. ReqLast(k)
             /\ (b - ReqFirst(k) + 1) % RecordSize = 0}

VARIABLE ni  \* the connection, its buffers and the socket

Min2(a, b) == IF a < b THEN a ELSE b
Drop(s, n) == SubSeq(s, n + 1, Len(s))
Take(s, n) == SubSeq(s, 1, n)

\* F(v), with v evaluated once.
With(v, F(_)) == CHOOSE r \in {F(y) : y \in {v}} : TRUE

-----------------------------------------------------------------------------
(* Memory *)

Realloc(mem, size) == [i \in 1 .. size |-> IF i <= Len(mem) THEN mem[i] ELSE Junk]

\* The bytes from offset at on.
MemAt(mem, at, n) == SubSeq(mem, at + 1, at + n)
MemPut(mem, at, bytes) ==
  [i \in DOMAIN mem |-> IF i - at \in DOMAIN bytes THEN bytes[i - at] ELSE mem[i]]

\* memmove of the unread bytes to the start of the buffer.
Pack(x) ==
  [x EXCEPT !.mem = MemPut(x.mem, 0, MemAt(x.mem, x.curr, x.bytes)), !.curr = 0]

-----------------------------------------------------------------------------
(* OpenSSL: a pair of connected buffers and the session that reads them *)

\* SSL_read and SSL_peek work on whole records; what there is of an incomplete
\* one is taken out of the pair.
SslFill(x) ==
  IF x.plain # <<>> THEN x
  ELSE LET all == x.part \o x.bio
           ends == {i \in DOMAIN all : all[i] \in RecordEnds}
       IN IF ends = {} THEN [x EXCEPT !.part = all, !.bio = <<>>]
          ELSE [x EXCEPT !.plain = Take(all, Min(ends)), !.part = <<>>,
                         !.bio = Drop(all, Min(ends))]

\* BIO_write of what is left in the in buffer.
FeedBio(x) ==
  LET n == Min2(x.biosize - Len(x.bio), Len(x.in) - x.incur)
      fed == [x EXCEPT !.bio = @ \o SubSeq(x.in, x.incur + 1, x.incur + n), !.incur = @ + n]
  IN IF fed.incur = Len(fed.in) THEN [fed EXCEPT !.in = <<>>, !.incur = 0] ELSE fed

\* recv into what is left of the in buffer.
FillIn(x) ==
  LET n == Min2(x.biosize - Len(x.in), Len(x.sock))
  IN [x EXCEPT !.in = @ \o Take(x.sock, n), !.sock = Drop(@, n)]

RECURSIVE drainBioRecvPipe(_)
drainBioRecvPipe(x0) ==
  With(x0, LAMBDA x :
    IF x.incur < Len(x.in) /\ Len(x.bio) = x.biosize THEN x
    ELSE With(FeedBio(x), LAMBDA fed :
           IF Len(fed.in) < fed.biosize /\ fed.sock = <<>>
           THEN [fed EXCEPT !.error = @ \/ fed.gone]
           ELSE drainBioRecvPipe(FillIn(fed))))

\* SSL_accept: the handshake is the record of byte 0.
sslPreConnection(x) ==
  With(SslFill(x), LAMBDA y :
    IF y.plain = <<0>> THEN [y EXCEPT !.plain = <<>>, !.connected = TRUE] ELSE y)

\* The bytes that end up at dest, the connection, and what recv returns: the
\* number of bytes, 0 at the end of the stream, -1 with EWOULDBLOCK or another
\* error.
Received(x, got) ==
  [x |-> x, got |-> got,
   res |-> IF got # <<>> THEN "data" ELSE IF x.gone THEN "eof" ELSE "blocks"]
RecvError(x) == [x |-> x, got |-> <<>>, res |-> "error"]

RECURSIVE sslRead(_, _, _)
sslRead(x, got, nbytes) ==
  IF Len(got) = nbytes THEN Received(x, got)
  ELSE With(drainBioRecvPipe(x), LAMBDA d :
         IF d.error THEN RecvError(d)
         ELSE With(SslFill(d), LAMBDA y :
           LET n == Min2(nbytes - Len(got), Len(y.plain))
           IN IF n > 0
              THEN sslRead([y EXCEPT !.plain = Drop(@, n)], got \o Take(y.plain, n), nbytes)
              ELSE IF y.incur < Len(y.in) THEN sslRead(drainBioRecvPipe(y), got, nbytes)
              ELSE Received(y, got)))

sslRecv(x, nbytes) ==
  IF x.error THEN RecvError(x)
  ELSE With(IF x.connected THEN x ELSE sslPreConnection(x), LAMBDA y :
         IF y.connected THEN sslRead(y, <<>>, nbytes) ELSE Received(y, <<>>))

recv(x, nbytes) ==
  IF x.ssl THEN sslRecv(drainBioRecvPipe(x), nbytes)
  ELSE LET n == Min2(nbytes, Len(x.sock))
       IN Received([x EXCEPT !.sock = Drop(@, n)], Take(x.sock, n))

-----------------------------------------------------------------------------
(* Events *)

PeekEvent(x) == x.ssl /\ x.connected

\* An event is raised without polling the socket when SSL has data to read;
\* otherwise the mask is changed.
updateEvent(x, ev) ==
  IF PeekEvent(x) /\ ev = "read"
  THEN With(SslFill(x), LAMBDA y :
         IF y.plain # <<>> THEN [y EXCEPT !.active = TRUE] ELSE [y EXCEPT !.ev = ev])
  ELSE [x EXCEPT !.ev = ev]

havePendingInputData(x) == x.bytes > 0 \/ x.ssl

-----------------------------------------------------------------------------
(* The read buffer *)

shrinkBuffers(x) ==
  IF Len(x.mem) > ReadHighwat /\ x.bytes < DataBufferSize
  THEN [Pack(x) EXCEPT !.mem = Take(@, DataBufferSize)] ELSE x

\* Reads until the socket has no more, growing the buffer a number of times; the
\* result is the next state of the connection.
RECURSIVE ReadLoop(_, _, _)
ReadLoop(x, allocs, gotdata) ==
  LET full == x.bytes >= Len(x.mem)
      y == IF full THEN [x EXCEPT !.mem = Realloc(@, 2 * Len(@)), !.curr = 0] ELSE x
      avail == Len(y.mem) - y.bytes
      Done(z, got) == [z EXCEPT !.st = IF got THEN "conn_parse_cmd" ELSE "conn_waiting"]
  IN IF full /\ allocs = MaxReallocs THEN Done(x, gotdata)
     ELSE IF full /\ x.nomem THEN [x EXCEPT !.bytes = 0, !.st = "conn_closing"]
     ELSE With(recv(y, avail), LAMBDA r :
            LET n == Len(r.got)
                z == [r.x EXCEPT !.mem = MemPut(@, y.bytes, r.got), !.bytes = @ + n]
            IN IF r.res \in {"eof", "error"} THEN [r.x EXCEPT !.st = "conn_closing"]
               ELSE IF n < avail THEN Done(z, gotdata \/ n > 0)
               ELSE With(z, LAMBDA w : ReadLoop(w, allocs + (IF full THEN 1 ELSE 0), TRUE)))

tryReadNetwork(x) ==
  With(IF x.curr # 0 THEN Pack(x) ELSE x, LAMBDA y : ReadLoop(y, 0, FALSE))

RECURSIVE Doubled(_, _)
Doubled(n, size) == IF size > n THEN Doubled(2 * n, size) ELSE n

NotRepacked(x) == [x EXCEPT !.curr = 0]
Repack(x) == Pack(x)

\* Makes room for header and body in one piece, before the header is consumed.
bin_read_chunk(x, chunk) ==
  LET nsize == Doubled(Len(x.mem), chunk + Header)
      noroom == chunk > Len(x.mem) - (x.curr + Header)
      y == IF noroom THEN Repack([x EXCEPT !.mem = Realloc(@, nsize)]) ELSE x
  IN IF noroom /\ nsize # Len(x.mem) /\ x.nomem
     THEN [x EXCEPT !.rlbytes = chunk, !.st = "conn_closing"]
     ELSE [y EXCEPT !.rlbytes = chunk, !.ritem = y.curr + Header, !.st = "conn_nread"]

try_read_mcbp_command(x) ==
  LET req == ReqAt(x.mem[x.curr + 1])
      y == bin_read_chunk(x, Bodies[CHOOSE k \in req : TRUE])
  IN IF x.bytes < Header THEN [x EXCEPT !.st = "conn_waiting"]
     ELSE IF req = {} THEN [x EXCEPT !.st = "conn_closing"]  \* invalid magic
     ELSE [y EXCEPT !.bytes = @ - Header, !.curr = @ + Header,
                    !.total = Header + y.rlbytes]

\* The packet as the executors see it.
getPacket(x) == MemAt(x.mem, x.curr - x.total, x.total)

-----------------------------------------------------------------------------
(* The states of the connection that read *)

conn_waiting ==
  /\ ni.run /\ ni.st = "conn_waiting"
  /\ ni' = [updateEvent(ni, "read") EXCEPT !.st = "conn_read", !.run = FALSE]

conn_read ==
  /\ ni.run /\ ni.st = "conn_read"
  /\ ni' = tryReadNetwork(ni)

conn_parse_cmd ==
  /\ ni.run /\ ni.st = "conn_parse_cmd"
  /\ ni' = try_read_mcbp_command(ni)

\* Leftovers in the buffer first, then the socket.
Leftovers(x) ==
  LET n == Min2(x.bytes, x.rlbytes)
  IN [x EXCEPT !.mem = MemPut(@, x.ritem, MemAt(@, x.curr, n)),
               !.ritem = @ + n, !.rlbytes = @ - n, !.curr = @ + n, !.bytes = @ - n]

conn_nread_some ==
  /\ ni.run /\ ni.st = "conn_nread" /\ ni.rlbytes > 0
  /\ \E x \in {Leftovers(ni)} : \E r \in {recv(x, x.rlbytes)} :
       LET m == Len(r.got)
       IN ni' = IF x.rlbytes = 0 THEN x
                ELSE IF r.res = "blocks" THEN [updateEvent(r.x, "read") EXCEPT !.run = FALSE]
                ELSE IF m = 0 THEN [r.x EXCEPT !.st = "conn_closing"]
                ELSE [r.x EXCEPT !.mem = MemPut(@, x.ritem, r.got),
                                 !.curr = IF x.curr = x.ritem THEN @ + m ELSE @,
                                 !.ritem = @ + m, !.rlbytes = @ - m]

\* mcbp_complete_nread: the command runs on the packet, once or, when the engine
\* blocks, again after its notification.
conn_nread_complete ==
  /\ ni.run /\ ni.st = "conn_nread" /\ ni.rlbytes = 0
  /\ \/ ni' = [ni EXCEPT !.seen = Append(@, getPacket(ni)), !.st = "conn_new_cmd", !.blocked = FALSE]
     \/ ~ni.blocked /\ ni' = [ni EXCEPT !.blocked = TRUE, !.run = FALSE, !.ev = "none"]

reset_cmd_handler(x) ==
  LET y == shrinkBuffers(IF x.bytes = 0 THEN [x EXCEPT !.curr = 0] ELSE x)
  IN [y EXCEPT !.st = IF y.bytes > 0 THEN "conn_parse_cmd" ELSE "conn_waiting"]

Yielded(x) == IF havePendingInputData(x) THEN updateEvent(x, "write") ELSE x

conn_new_cmd ==
  /\ ni.run /\ ni.st = "conn_new_cmd"
  /\ ni' = IF ni.nevents > 0 THEN reset_cmd_handler([ni EXCEPT !.nevents = @ - 1])
           ELSE [Yielded(ni) EXCEPT !.run = FALSE]

\* The event loop calls the connection: the socket is readable or writable, an
\* event was raised by hand, or the engine has notified.
event_handler ==
  /\ ~ni.run /\ ni.st # "conn_closing"
  /\ \/ ni.active
     \/ ni.ev = "read" /\ (ni.sock # <<>> \/ ni.gone)
     \/ ni.ev = "write"
     \/ ni.ev = "none"
  /\ ni' = [ni EXCEPT !.run = TRUE, !.active = FALSE, !.nevents = MaxReqs,
                      !.ev = IF @ = "none" THEN "read" ELSE @]

\* The connection is accepted, with SSL (and a size of its buffers) or without.
accept ==
  /\ ni.st = "none"
  /\ \E biosize \in BioSizes \cup {0} :
       ni' = [ni EXCEPT !.st = "conn_new_cmd", !.ssl = biosize > 0, !.biosize = biosize,
                        !.sent = IF biosize > 0 THEN -1 ELSE 0]

ClientSends ==
  /\ ni.st # "none" /\ ~ni.gone /\ ni.sent < StreamLen
  /\ \E n \in 1 .. StreamLen - ni.sent :
       ni' = [ni EXCEPT !.sock = @ \o [i \in 1 .. n |-> ni.sent + i], !.sent = @ + n]

\* Mishaps, one at most: the client closes its end, or memory runs out.
ClientCloses == ni.st # "none" /\ ~ni.gone /\ ~ni.nomem /\ ni' = [ni EXCEPT !.gone = TRUE]
MemoryRunsOut == ni.st # "none" /\ ~ni.gone /\ ~ni.nomem /\ ni' = [ni EXCEPT !.nomem = TRUE]

NetInputInit ==
  ni = [st |-> "none", run |-> FALSE, ev |-> "read", active |-> FALSE, nevents |-> 0,
        blocked |-> FALSE, mem |-> [i \in 1 .. DataBufferSize |-> Junk], curr |-> 0,
        bytes |-> 0, rlbytes |-> 0, ritem |-> 0, total |-> 0, ssl |-> FALSE,
        connected |-> FALSE, biosize |-> 0, in |-> <<>>, incur |-> 0, bio |-> <<>>,
        part |-> <<>>, plain |-> <<>>, sock |-> <<>>, sent |-> 0, seen |-> <<>>,
        gone |-> FALSE, error |-> FALSE, nomem |-> FALSE]

NetInputThread ==
  conn_waiting \/ conn_read \/ conn_parse_cmd \/ conn_nread_some \/ conn_nread_complete
    \/ conn_new_cmd \/ event_handler

NetInputNext == accept \/ ClientSends \/ ClientCloses \/ MemoryRunsOut \/ NetInputThread

-----------------------------------------------------------------------------
(* Properties *)

\* Whatever sizes the bytes arrive in and however the buffer was packed, grown
\* and shrunk in between, the packets the commands are run on are the requests
\* of the client, whole, each once and in order, also when a command is run
\* again after its engine has blocked.
InputFramed ==
  /\ ni.seen = [k \in 1 .. Len(ni.seen) |-> ReqBytes(k)]
  /\ ni.st = "conn_closing" => ni.gone \/ ni.nomem
  /\ ni.blocked => getPacket(ni) = ReqBytes(Len(ni.seen) + 1)

=============================================================================
