----------------------------- MODULE NetOutput -----------------------------
(***************************************************************************)
(* How responses reach the client (daemon/connection_mcbp.cc): the list of *)
(* messages and I/O vectors a response is built in, their transmission in  *)
(* pieces as the socket takes them, and the buffers between OpenSSL and    *)
(* the socket when the connection uses SSL.                                *)
(*                                                                         *)
(* A byte is its position in what the server answers. The memory of the    *)
(* vector of iovecs outlives a response, so that an unused entry holds     *)
(* what an earlier one has left there.                                     *)
(***************************************************************************)
EXTENDS Integers, Sequences, SequencesExt

CONSTANTS
  Responses,       \* responses, as the lengths of the chunks they consist of
  MaxResponses,
  IovMax,          \* IOV_MAX
  UdpMaxPayload,   \* UDP_MAX_PAYLOAD_SIZE
  IovListInitial, IovHighwat,
  BioDrainSize,    \* bio_drain_buffer_sz
  SocketSize       \* what the kernel takes before the peer reads

VARIABLE no  \* the connection, its lists, its SSL context and the socket

LOCAL Lesser(a, b) == IF a < b THEN a ELSE b
LOCAL Bytes(at, n) == [i \in 1 .. n |-> at + i - 1]
LOCAL Rest(s, n) == SubSeq(s, n + 1, Len(s))
LOCAL Once(v, F(_)) == CHOOSE r \in {F(y) : y \in {v}} : TRUE

-----------------------------------------------------------------------------
(* Building a response *)

NoIov == [at |-> 0, len |-> 0]

\* A message is a range of the vector: its first entry and their number.
addMsgHdr(x, reset) ==
  LET y == IF reset THEN [x EXCEPT !.msgcurr = 1, !.msglist = <<>>, !.iovused = 0] ELSE x
  IN [y EXCEPT !.msglist = Append(@, [first |-> y.iovused + 1, n |-> 0]), !.msgbytes = 0]

\* The messages follow one another in the vector.
Repointed(msglist) ==
  [k \in DOMAIN msglist |->
     [msglist[k] EXCEPT !.first = 1 + FoldLeft(LAMBDA sum, m : sum + m.n, 0,
                                               SubSeq(msglist, 1, k - 1))]]

ensureIovSpace(x) ==
  IF x.iovused < Len(x.iov) THEN x
  ELSE [x EXCEPT !.iov = [i \in 1 .. 2 * Len(@) |-> IF i <= Len(@) THEN @[i] ELSE NoIov],
                 !.msglist = Repointed(@)]

FullMessage(x) ==
  \/ Last(x.msglist).n = IovMax
  \/ Len(x.msglist) = 1 /\ x.msgbytes >= UdpMaxPayload

Leftover(x, len) ==
  IF Len(x.msglist) = 1 /\ len + x.msgbytes > UdpMaxPayload
  THEN len + x.msgbytes - UdpMaxPayload ELSE 0

\* The first message is limited to the payload of a datagram; what does not fit
\* goes to the next one. The limit is decided before a message is added.
RECURSIVE addIov(_, _, _)
addIov(x, at, len) ==
  IF len = 0 THEN x
  ELSE LET full == FullMessage(x)
           left == Leftover(IF full THEN [x EXCEPT !.msgbytes = 0] ELSE x, len)
       IN Once(ensureIovSpace(IF full THEN addMsgHdr(x, FALSE) ELSE x), LAMBDA y :
            LET m == Last(y.msglist)
            IN Once([y EXCEPT !.iov[m.first + m.n] = [at |-> at, len |-> len - left],
                              !.msglist = Append(Front(@), [m EXCEPT !.n = @ + 1]),
                              !.msgbytes = @ + len - left, !.iovused = @ + 1],
                    LAMBDA z : addIov(z, at + len - left, left)))

RECURSIVE AddChunks(_, _)
AddChunks(x, chunks) ==
  IF chunks = <<>> THEN x
  ELSE Once(addIov(x, x.queued + 1, Head(chunks)), LAMBDA y :
         AddChunks([y EXCEPT !.queued = @ + Head(chunks)], Tail(chunks)))

\* The vector goes back to its initial size before a command (shrinkBuffers).
ShrinkIov(x) ==
  IF Len(x.iov) > IovHighwat THEN [x EXCEPT !.iov = SubSeq(@, 1, IovListInitial)] ELSE x

-----------------------------------------------------------------------------
(* The socket and OpenSSL *)

\* What the kernel takes of these bytes.
Room(x) == SocketSize - Len(x.sock)
Send(x, bytes) ==
  LET n == Lesser(Len(bytes), Room(x))
  IN [x EXCEPT !.sock = @ \o SubSeq(bytes, 1, n), !.wire = @ \o SubSeq(bytes, 1, n)]

\* From the pair to the out buffer, and from there to the socket, until the pair
\* is empty or the socket takes no more.
RECURSIVE drainBioSendPipe(_)
drainBioSendPipe(x0) ==
  Once(x0, LAMBDA x :
    IF x.out # <<>>
    THEN IF x.gone THEN [x EXCEPT !.error = TRUE]
         ELSE IF Room(x) = 0 THEN x
         ELSE drainBioSendPipe([Send(x, x.out) EXCEPT !.out = Rest(@, Lesser(Len(@), Room(x)))])
    ELSE IF x.bio = <<>> THEN x
    ELSE drainBioSendPipe([x EXCEPT !.out = x.bio, !.bio = <<>>]))

morePendingOutput(x) == x.out # <<>>

\* SSL_write: one record, longer than its content by a byte 0. What the pair has no room for stays in the session; a
\* write that does not repeat the one that is pending leaves an error in the
\* queue of the thread, where SSL_get_error finds it ever after.
SslWrite(x, at, len) ==
  LET retry == x.pend # <<>>
      bytes == IF retry THEN x.pend[1].rest ELSE <<0>> \o Bytes(at, len)
      n == Lesser(Len(bytes), BioDrainSize - Len(x.bio))
      y == [x EXCEPT !.bio = @ \o SubSeq(bytes, 1, n)]
  IN IF retry /\ <<x.pend[1].at, x.pend[1].len>> # <<at, len>>
     THEN [x |-> [x EXCEPT !.errq = TRUE], n |-> -1]
     ELSE IF n = Len(bytes) THEN [x |-> [y EXCEPT !.pend = <<>>], n |-> len]
     ELSE [x |-> [y EXCEPT !.pend = <<[at |-> at, len |-> len, rest |-> Rest(bytes, n)]>>],
           n |-> -1]

\* n > 0, or -1 and whether the error is EWOULDBLOCK.
RECURSIVE sslWrite(_, _, _, _)
sslWrite(x, at, nbytes, ret) ==
  IF ret = nbytes THEN [x |-> x, n |-> ret, blocks |-> FALSE]
  ELSE Once(drainBioSendPipe(x), LAMBDA y :
         IF y.error THEN [x |-> y, n |-> -1, blocks |-> FALSE]
         ELSE Once(SslWrite(y, at + ret, Lesser(nbytes - ret, BioDrainSize)), LAMBDA w :
                IF w.n > 0 THEN sslWrite(w.x, at, nbytes, ret + w.n)
                ELSE IF ret > 0 THEN [x |-> w.x, n |-> ret, blocks |-> FALSE]
                ELSE [x |-> w.x, n |-> -1, blocks |-> ~w.x.errq]))

\* The iovecs of a message one after the other.
RECURSIVE SslSendIov(_, _, _)
SslSendIov(x, m, res) ==
  IF m.n = 0 THEN [x |-> drainBioSendPipe(x), n |-> res, blocks |-> FALSE]
  ELSE Once(sslWrite(x, x.iov[m.first].at, x.iov[m.first].len, 0), LAMBDA w :
         IF w.n > 0 THEN SslSendIov(w.x, [first |-> m.first + 1, n |-> m.n - 1], res + w.n)
         ELSE [x |-> w.x, n |-> IF res > 0 THEN res ELSE -1, blocks |-> w.blocks])

MessageBytes(x, m) ==
  FlattenSeq([i \in 1 .. m.n |-> Bytes(x.iov[m.first + i - 1].at, x.iov[m.first + i - 1].len)])

sendmsg(x, m) ==
  IF x.ssl THEN SslSendIov(x, m, 0)
  ELSE IF x.gone THEN [x |-> x, n |-> -1, blocks |-> FALSE]
  ELSE IF Room(x) = 0 THEN [x |-> x, n |-> -1, blocks |-> TRUE]
  ELSE LET bytes == MessageBytes(x, m)
       IN [x |-> Send(x, bytes), n |-> Lesser(Len(bytes), Room(x)), blocks |-> FALSE]

-----------------------------------------------------------------------------
(* transmit and the state that calls it *)

SoftError(x) == [x EXCEPT !.ev = "write", !.run = FALSE]
HardError(x) == [x EXCEPT !.st = "conn_closing", !.run = FALSE]
SendComplete(x) == [x EXCEPT !.st = "conn_new_cmd"]
Pending(x) == IF x.error THEN HardError(x) ELSE SoftError(x)

\* Entries that were written are removed; the last may have been in part.
RECURSIVE Written(_, _)
Written(x, res) ==
  LET m == x.msglist[x.msgcurr]
      e == x.iov[m.first]
  IN IF m.n > 0 /\ res >= e.len
     THEN Written([x EXCEPT !.msglist[x.msgcurr] = [first |-> m.first + 1, n |-> m.n - 1]],
                  res - e.len)
     ELSE IF res = 0 THEN x
     ELSE [x EXCEPT !.iov[m.first] = [at |-> e.at + res, len |-> e.len - res]]

\* The entry after the last one is read as well; beyond the vector it may hold
\* anything.
LooksWritten(x) ==
  LET i == x.msglist[x.msgcurr].first
  IN IF i <= Len(x.iov) THEN {x.iov[i].len = 0} ELSE BOOLEAN

LastSentUnchecked(x) == SendComplete(x)
LastSent(x) == IF x.ssl /\ morePendingOutput(x) THEN Pending(x) ELSE SendComplete(x)

AfterSend(x) ==
  {IF ~done THEN x
   ELSE LET y == [x EXCEPT !.msgcurr = @ + 1]
        IN IF y.msgcurr > Len(y.msglist) THEN LastSent(y) ELSE y :
   done \in LooksWritten(x)}

RECURSIVE SkipWritten(_)
SkipWritten(x) ==
  IF x.msgcurr <= Len(x.msglist) /\ x.msglist[x.msgcurr].n = 0
  THEN SkipWritten([x EXCEPT !.msgcurr = @ + 1]) ELSE x

\* The states transmit and conn_mwrite may leave behind.
transmit(x0) ==
  LET x == IF x0.ssl THEN drainBioSendPipe(x0) ELSE x0
      y == SkipWritten(x)
  IN IF x.ssl /\ morePendingOutput(x) THEN {Pending(x)}
     ELSE IF y.msgcurr > Len(y.msglist) THEN {SendComplete(y)}
     ELSE UNION {IF r.n > 0 THEN AfterSend(Written(r.x, r.n))
                 ELSE IF r.blocks THEN {SoftError(r.x)} ELSE {HardError(r.x)} :
                 r \in {sendmsg(y, y.msglist[y.msgcurr])}}

\* A command has run, after a read event or the event of the last response: its
\* response is added to the lists.
Respond ==
  /\ no.st = "conn_new_cmd" /\ no.nresp < MaxResponses
  /\ \E chunks \in Responses, ev \in {no.ev, "read"} :
       no' = [AddChunks(addMsgHdr(ShrinkIov(no), TRUE), chunks) EXCEPT
                !.nresp = @ + 1, !.st = "conn_mwrite", !.run = TRUE, !.ev = ev]

conn_mwrite == no.st = "conn_mwrite" /\ no.run /\ no' \in transmit(no)

\* The socket is writable.
write_event ==
  /\ no.st = "conn_mwrite" /\ ~no.run /\ no.ev = "write" /\ (Room(no) > 0 \/ no.gone)
  /\ no' = [no EXCEPT !.run = TRUE]

EnableSsl == no.nresp = 0 /\ ~no.ssl /\ no' = [no EXCEPT !.ssl = TRUE]

PeerReads ==
  /\ no.sock # <<>> /\ ~no.gone
  /\ \E n \in {1, Len(no.sock)} : no' = [no EXCEPT !.sock = Rest(@, n)]

PeerCloses == no.nresp > 0 /\ ~no.gone /\ no' = [no EXCEPT !.gone = TRUE]

NetOutputInit ==
  no = [st |-> "conn_new_cmd", run |-> FALSE, ev |-> "read", nresp |-> 0, queued |-> 0,
        iov |-> [i \in 1 .. IovListInitial |-> NoIov], iovused |-> 0, msglist |-> <<>>,
        msgcurr |-> 1, msgbytes |-> 0, ssl |-> FALSE, bio |-> <<>>, out |-> <<>>,
        pend |-> <<>>, errq |-> FALSE, error |-> FALSE, sock |-> <<>>, wire |-> <<>>,
        gone |-> FALSE]

NetOutputThread == conn_mwrite \/ write_event
NetOutputNext == EnableSsl \/ Respond \/ PeerReads \/ PeerCloses \/ NetOutputThread

-----------------------------------------------------------------------------
(* Properties *)

LOCAL Content(bytes) == SelectSeq(bytes, LAMBDA b : b # 0)

\* Whatever pieces the socket takes, the bytes that reach it are those of the
\* responses, each once and in order; and a connection goes on to its next
\* command only when the last one has been handed over completely, including
\* what OpenSSL had encrypted and not yet written.
OutputInOrder ==
  /\ Content(no.wire) = Bytes(1, Len(Content(no.wire)))
  /\ no.st = "conn_new_cmd" => Len(Content(no.wire)) = no.queued
  /\ no.st = "conn_closing" => no.gone \/ no.errq

=============================================================================
