--------------------------- MODULE FrontendProofs ---------------------------
(***************************************************************************)
(* Proofs about what stands between a client and its commands: the control *)
(* token (SessionCas), for any finite set of connections and any tokens,   *)
(* the buffers of a worker (NetBuffers), for any finite set of             *)
(* connections, expiry times (Clock), for any clocks, and the checks of a  *)
(* request (Requests), for any packets, sessions and limits.               *)
(***************************************************************************)
EXTENDS SessionCas, NetBuffers, Clock, Requests, FiniteSetTheorems, TLAPS

-----------------------------------------------------------------------------
(* The control token.                                                      *)

SessionInv == SessionTypeOK /\ SessionStable

\* The connections that hold a session are finitely many, and none of them
\* holds one exactly if the counter is 0.
LEMMA HoldersCounted ==
  ASSUME SessionInv
  PROVE  IsFiniteSet(SessionHolders) /\ (sessions = 0 <=> SessionHolders = {})
<1>1. SessionHolders \in SUBSET SessionConns BY Zenon DEF SessionHolders
<1>2. IsFiniteSet(SessionHolders) BY Zenon, <1>1, FS_Subset, SessionAssumption
<1> QED BY Zenon, <1>2, FS_EmptySet DEF SessionInv, SessionStable

\* A step that touches neither the token nor the sessions keeps SessionStable.
LEMMA SessionUntouched ==
  ASSUME SessionStable, UNCHANGED <<token, sessions, holds>>
  PROVE  SessionStable'
BY Zenon DEF SessionStable, SessionHolders

\* The token changes only when nobody holds a session.
LEMMA SetTokenKeeps ==
  ASSUME SessionInv, NEW c \in SessionConns, set_ctrl_token_executor(c)
  PROVE  SessionInv'
<1>1. PICK newToken \in Tokens, casval \in Tokens \cup {0} :
        /\ token' = IF Cas(casval) = "SUCCESS" THEN newToken ELSE token
        /\ Answered(c, Cas(casval), token')
  BY Zenon DEF set_ctrl_token_executor
<1>2. Cas(casval) \in Status BY Zenon DEF Cas, Status
<1>3. SessionTypeOK'
  BY <1>1, <1>2, SessionAssumption
    DEF SessionInv, SessionTypeOK, set_ctrl_token_executor, SessionRequest, Answered
<1>4. UNCHANGED <<sessions, holds>> BY Zenon DEF set_ctrl_token_executor
<1>5. CASE token' = token BY Zenon, <1>3, <1>4, <1>5, SessionUntouched DEF SessionInv
<1>6. CASE token' # token
  <2>1. sessions = 0 BY <1>1, <1>6 DEF Cas, SessionInv, SessionTypeOK
  <2>2. SessionHolders = {} BY Zenon, <2>1, HoldersCounted
  <2>3. SessionHolders' = SessionHolders BY Zenon, <1>4 DEF SessionHolders
  <2> QED BY Zenon, <1>3, <1>4, <2>2, <2>3 DEF SessionInv, SessionStable
<1> QED BY Zenon, <1>5, <1>6

\* A connection that gets a session finds the token it names.
LEMMA IncrementKeeps ==
  ASSUME SessionInv, NEW c \in SessionConns, NEW cmd \in SessionCmd,
         increment_session_counter(c, cmd)
  PROVE  SessionInv'
<1>1. PICK cas \in Tokens \cup {0} :
        IF cas = 0 \/ token = cas
        THEN /\ sessions' = sessions + 1
             /\ holds' = [holds EXCEPT ![c] = [cmd |-> cmd, cas |-> cas, under |-> token]]
             /\ UNCHANGED reply
        ELSE Answered(c, "KEY_EEXISTS", 0) /\ UNCHANGED <<sessions, holds>>
  BY Zenon DEF increment_session_counter
<1>2. /\ UNCHANGED token /\ UNCHANGED effects /\ holds[c] = NoSession
      /\ sessionOps' = sessionOps + 1
  BY Zenon DEF increment_session_counter, SessionRequest
<1>3. CASE ~ (cas = 0 \/ token = cas)
  <2>1. SessionTypeOK'
    BY <1>1, <1>2, <1>3 DEF SessionInv, SessionTypeOK, Answered, Status
  <2> QED BY Zenon, <1>1, <1>2, <1>3, <2>1, SessionUntouched DEF SessionInv
<1>4. CASE cas = 0 \/ token = cas
  <2>1. SessionTypeOK'
    BY <1>1, <1>2, <1>4, SessionAssumption DEF SessionInv, SessionTypeOK
  <2>2. c \notin SessionHolders BY Zenon, <1>2 DEF SessionHolders
  <2>3. SessionHolders' = SessionHolders \cup {c}
    BY <1>1, <1>4 DEF SessionHolders, SessionInv, SessionTypeOK, SessionCmd, NoSession
  <2>4. Cardinality(SessionHolders \cup {c}) = Cardinality(SessionHolders) + 1
    BY Zenon, <2>2, HoldersCounted, FS_AddElement
  <2>5. \A d \in SessionHolders' : holds'[d].under = token' /\ holds'[d].cas \in {0, token'}
    BY <1>1, <1>2, <1>4, <2>3 DEF SessionInv, SessionTypeOK, SessionStable, SessionHolders
  <2> QED BY Zenon, <1>1, <1>4, <2>1, <2>3, <2>4, <2>5 DEF SessionInv, SessionStable
<1> QED BY Zenon, <1>3, <1>4

\* A session that ends takes one off the counter.
LEMMA DecrementKeeps ==
  ASSUME SessionInv, NEW c \in SessionConns, decrement_session_counter(c)
  PROVE  SessionInv'
<1> USE DEF decrement_session_counter
<1>1. SessionTypeOK'
  BY DEF SessionInv, SessionTypeOK, Answered, NoSession, Status
<1>2. c \in SessionHolders BY Zenon DEF SessionHolders
<1>3. SessionHolders' = SessionHolders \ {c} BY Zenon DEF SessionHolders, SessionInv, SessionTypeOK
<1>4. Cardinality(SessionHolders \ {c}) = Cardinality(SessionHolders) - 1
  BY Zenon, <1>2, HoldersCounted, FS_RemoveElement
<1>5. \A d \in SessionHolders' : holds'[d].under = token' /\ holds'[d].cas \in {0, token'}
  BY Zenon, <1>3 DEF SessionInv, SessionTypeOK, SessionStable, SessionHolders
<1> QED BY Zenon, <1>1, <1>3, <1>4, <1>5 DEF SessionInv, SessionStable

\* Every step keeps the invariant.
LEMMA SessionStep ==
  ASSUME SessionInv, [SessionNext]_SessionVars
  PROVE  SessionInv'
<1>1. CASE UNCHANGED SessionVars
  BY Zenon, <1>1, SessionUntouched DEF SessionInv, SessionTypeOK, SessionVars
<1>2. CASE SessionNext
  <2>1. PICK c \in SessionConns :
          \/ set_ctrl_token_executor(c) \/ get_ctrl_token_executor(c)
          \/ \E cmd \in SessionCmd : increment_session_counter(c, cmd)
          \/ SessionEffect(c) \/ decrement_session_counter(c)
    BY Zenon, <1>2 DEF SessionNext
  <2>2. CASE set_ctrl_token_executor(c) BY Zenon, <2>2, SetTokenKeeps
  <2>3. CASE get_ctrl_token_executor(c)
    <3>1. SessionTypeOK'
      BY <2>3
        DEF SessionInv, SessionTypeOK, get_ctrl_token_executor, SessionRequest, Answered, Status
    <3> QED BY Zenon, <2>3, <3>1, SessionUntouched DEF SessionInv, get_ctrl_token_executor
  <2>4. CASE \E cmd \in SessionCmd : increment_session_counter(c, cmd)
    BY Zenon, <2>4, IncrementKeeps
  <2>5. CASE SessionEffect(c)
    <3>1. SessionTypeOK'
      BY Zenon, <2>5 DEF SessionInv, SessionTypeOK, SessionEffect, SessionCmd
    <3> QED BY Zenon, <2>5, <3>1, SessionUntouched DEF SessionInv, SessionEffect
  <2>6. CASE decrement_session_counter(c) BY <2>6, DecrementKeeps
  <2> QED BY Zenon, <2>1, <2>2, <2>3, <2>4, <2>5, <2>6
<1> QED BY Zenon, <1>1, <1>2

\* A command that is let in under a token runs under it to its end, however
\* many connections exchange it by compare and swap (session_cas.cc).
THEOREM SessionStableAlways == SessionSpec => []SessionStable
<1>1. SessionInit => SessionInv
  <2> SUFFICES ASSUME SessionInit PROVE SessionInv BY Zenon
  <2>1. SessionTypeOK
    BY Zenon, SessionAssumption DEF SessionInit, SessionTypeOK, NoSession, SessionCmd, Status
  <2>2. SessionHolders = {} BY Zenon DEF SessionInit, SessionHolders
  <2> QED BY Zenon, <2>1, <2>2, FS_EmptySet DEF SessionInit, SessionInv, SessionStable
<1>2. SessionInv /\ [SessionNext]_SessionVars => SessionInv' BY Zenon, SessionStep
<1>3. SessionInv => SessionStable BY Zenon DEF SessionInv
<1> QED BY <1>1, <1>2, <1>3, PTL DEF SessionSpec

-----------------------------------------------------------------------------
(* Who holds which buffer.                                                 *)

NetFields == {"running", "thread", "conn", "mem", "live", "accepts", "garbled"}

NetShaped(x) ==
  /\ DOMAIN x = NetFields /\ DOMAIN x.thread = Kinds /\ DOMAIN x.live = Kinds
  /\ DOMAIN x.conn \subseteq NetConns
  /\ \A c \in DOMAIN x.conn :
       /\ DOMAIN x.conn[c] = {"buf", "clean", "iov", "sending", "stream", "open"}
       /\ DOMAIN x.conn[c].buf = Kinds

\* The buffers of a kind that are allocated are those of the thread and of the
\* connections, each held by one of them.
Owned(x, k) ==
  /\ x.live[k] \subseteq NetBufs
  /\ \A b \in x.live[k] : b = x.thread[k] \/ \E c \in DOMAIN x.conn : b = x.conn[c].buf[k]
  /\ x.thread[k] # 0 => /\ x.thread[k] \in x.live[k]
                        /\ \A c \in DOMAIN x.conn : x.conn[c].buf[k] # x.thread[k]
  /\ \A c \in DOMAIN x.conn :
       x.conn[c].buf[k] # 0 =>
         /\ x.conn[c].buf[k] \in x.live[k]
         /\ \A d \in DOMAIN x.conn \ {c} : x.conn[d].buf[k] # x.conn[c].buf[k]

BuffersInv(x) == NetShaped(x) /\ \A k \in Kinds : Owned(x, k)

\* A closed connection has no buffers, and only an open one runs.
NetIInv ==
  /\ BuffersInv(nb)
  /\ \A c \in DOMAIN nb.conn : ~ nb.conn[c].open => \A k \in Kinds : nb.conn[c].buf[k] = 0
  /\ \A c \in nb.running : c \in DOMAIN nb.conn /\ nb.conn[c].open

\* There is a buffer to allocate when a connection and the thread have none: the
\* other connections hold fewer than there are.
LEMMA BufferLeft ==
  ASSUME NEW x, BuffersInv(x), NEW c \in DOMAIN x.conn, NEW k \in Kinds,
         x.conn[c].buf[k] = 0, x.thread[k] = 0
  PROVE  NewBuffer(x, k) \in NetBufs \ x.live[k]
<1>0. Owned(x, k) /\ NetShaped(x) /\ NetBufs \subseteq Nat /\ 0 \notin NetBufs
  BY NetBuffersAssumption DEF BuffersInv, NetBufs
<1>1. ASSUME NetBufs \ x.live[k] = {} PROVE FALSE
  <2> DEFINE T == NetConns \ {c}
             holder == [b \in NetBufs |-> CHOOSE d \in DOMAIN x.conn : b = x.conn[d].buf[k]]
  <2>1. \A b \in NetBufs : holder[b] \in DOMAIN x.conn /\ b = x.conn[holder[b]].buf[k]
    <3> SUFFICES ASSUME NEW b \in NetBufs
                 PROVE  holder[b] \in DOMAIN x.conn /\ b = x.conn[holder[b]].buf[k]
      BY Zenon
    <3>1. \E d \in DOMAIN x.conn : b = x.conn[d].buf[k]
      BY Zenon, <1>0, <1>1 DEF Owned
    <3>2. QED
      BY Zenon, <3>1
  <2> HIDE DEF holder
  <2>2. holder \in [NetBufs -> T]
    <3>1. \A b \in NetBufs : holder[b] \in T
      BY Zenon, <1>0, <2>1 DEF NetShaped
    <3>2. QED
      BY Zenon, <3>1 DEF holder
  <2>3. holder \in Injection(NetBufs, T)
    BY <2>1, <2>2 DEF Injection, IsInjective
  <2>4. IsFiniteSet(T) /\ Cardinality(T) = Cardinality(NetConns) - 1
    BY Zenon, <1>0, FS_RemoveElement, NetBuffersAssumption DEF NetShaped
  <2>5. Cardinality(NetBufs) <= Cardinality(T)
    BY Zenon, <2>3, <2>4, FS_Injection
  <2>6. Cardinality(NetBufs) = MaxNetBuf
    BY NetBuffersAssumption, FS_Interval DEF NetBufs
  <2>7. Cardinality(NetConns) \in Nat
    BY Zenon, NetBuffersAssumption, FS_CardinalityType
  <2>8. QED
    BY <2>4, <2>5, <2>6, <2>7, NetBuffersAssumption
<1>2. QED
  BY Zenon, <1>1 DEF NewBuffer

-----------------------------------------------------------------------------
(* Loan and return.                                                        *)

\* From x to q only the buffers of c, of the thread and the memory change.
Lent(x, q, c) ==
  /\ NetShaped(q) /\ DOMAIN q.conn = DOMAIN x.conn /\ q.running = x.running
  /\ \A d \in DOMAIN x.conn \ {c} : q.conn[d] = x.conn[d]
  /\ q.conn[c].open = x.conn[c].open /\ q.conn[c].stream = x.conn[c].stream

\* The buffers of the other kind are left alone.
OtherKind(x, q, c, k) ==
  \A j \in Kinds \ {k} : /\ q.thread[j] = x.thread[j] /\ q.live[j] = x.live[j]
                         /\ q.conn[c].buf[j] = x.conn[c].buf[j]

\* What is held of the other kind stays as it is.
LEMMA OtherKindOwned ==
  ASSUME NEW x, BuffersInv(x), NEW c \in DOMAIN x.conn, NEW k \in Kinds, NEW q,
         Lent(x, q, c), OtherKind(x, q, c, k), Owned(q, k)
  PROVE  BuffersInv(q)
<1> SUFFICES ASSUME NEW j \in Kinds \ {k} PROVE Owned(q, j)
  BY Zenon DEF BuffersInv, Lent
<1>1. \A d \in DOMAIN x.conn : q.conn[d].buf[j] = x.conn[d].buf[j]
  BY Zenon DEF Lent, OtherKind
<1>2. Owned(x, j) /\ q.thread[j] = x.thread[j] /\ q.live[j] = x.live[j]
      /\ DOMAIN q.conn = DOMAIN x.conn
  BY Zenon DEF BuffersInv, OtherKind, Lent
<1>3. QED
  BY <1>1, <1>2 DEF Owned

LEMMA LoanKeeps ==
  ASSUME NEW x, BuffersInv(x), NEW c \in DOMAIN x.conn, NEW k \in Kinds, NEW q,
         q = conn_loan_single_buffer(x, c, k)
  PROVE  Lent(x, q, c) /\ BuffersInv(q)
<1>0. NetShaped(x) /\ Owned(x, k)
  BY Zenon DEF BuffersInv
<1>1. CASE x.conn[c].buf[k] # 0
  BY Zenon, <1>0, <1>1 DEF conn_loan_single_buffer, Lent
<1>2. CASE x.conn[c].buf[k] = 0 /\ x.thread[k] # 0
  <2>1. q = [x EXCEPT !.conn[c].buf[k] = x.thread[k], !.thread[k] = 0]
    BY Zenon, <1>2 DEF conn_loan_single_buffer
  <2>2. /\ Lent(x, q, c) /\ OtherKind(x, q, c, k) /\ q.live = x.live
        /\ q.thread[k] = 0 /\ q.conn[c].buf[k] = x.thread[k]
    BY SMTT(30), <1>0, <2>1 DEF NetShaped, NetFields, Lent, OtherKind
  <2>3. Owned(q, k)
    BY <1>0, <1>2, <2>2 DEF Lent, Owned
  <2>4. QED
    BY Zenon, <2>2, <2>3, OtherKindOwned
<1>3. CASE x.conn[c].buf[k] = 0 /\ x.thread[k] = 0
  <2>1. PICK new \in NetBufs \ x.live[k] :
          q = [x EXCEPT !.conn[c].buf[k] = new, !.conn[c].clean[k] = TRUE,
                        !.live[k] = @ \cup {new}]
    BY Zenon, <1>3, BufferLeft DEF conn_loan_single_buffer
  <2>2. /\ Lent(x, q, c) /\ OtherKind(x, q, c, k) /\ q.live[k] = x.live[k] \cup {new}
        /\ q.thread = x.thread /\ q.conn[c].buf[k] = new
    BY SMTT(30), <1>0, <2>1 DEF NetShaped, NetFields, Lent, OtherKind
  <2>3. Owned(q, k)
    BY <1>0, <1>3, <2>2 DEF Lent, Owned
  <2>4. QED
    BY Zenon, <2>2, <2>3, OtherKindOwned
<1>4. QED
  BY Zenon, <1>1, <1>2, <1>3

\* A connection gives its buffer to the thread, or it is freed.
LEMMA OwnedReturned ==
  ASSUME NEW x, NEW q, NEW k, NEW c \in DOMAIN x.conn, Owned(x, k), 0 \notin NetBufs,
         DOMAIN q.conn = DOMAIN x.conn,
         \A d \in DOMAIN x.conn \ {c} : q.conn[d].buf[k] = x.conn[d].buf[k],
         q.conn[c].buf[k] = 0, NEW b, b = x.conn[c].buf[k], b # 0,
         \/ q.thread[k] = b /\ x.thread[k] = 0 /\ q.live[k] = x.live[k]
         \/ q.thread[k] = x.thread[k] /\ x.thread[k] # 0 /\ q.live[k] = x.live[k] \ {b}
  PROVE  Owned(q, k)
<1>1. b \in x.live[k] /\ \A d \in DOMAIN x.conn \ {c} : x.conn[d].buf[k] # b
  BY Zenon DEF Owned
<1>2. q.live[k] \subseteq NetBufs
  BY Zenon DEF Owned
<1>3. ASSUME NEW a \in q.live[k]
      PROVE  a = q.thread[k] \/ \E d \in DOMAIN q.conn : a = q.conn[d].buf[k]
  <2>1. a \in x.live[k] /\ a # 0 /\ (a = b => a = q.thread[k])
    BY Zenon, <1>1, <1>2
  <2>2. a = x.thread[k] \/ \E d \in DOMAIN x.conn : a = x.conn[d].buf[k]
    BY Zenon, <2>1 DEF Owned
  <2>3. QED
    BY Zenon, <2>1, <2>2
<1>4. q.thread[k] # 0 => /\ q.thread[k] \in q.live[k]
                         /\ \A d \in DOMAIN q.conn : q.conn[d].buf[k] # q.thread[k]
  BY <1>1 DEF Owned
<1>5. ASSUME NEW d \in DOMAIN q.conn, q.conn[d].buf[k] # 0
      PROVE  /\ q.conn[d].buf[k] \in q.live[k]
             /\ \A e \in DOMAIN q.conn \ {d} : q.conn[e].buf[k] # q.conn[d].buf[k]
  <2>1. d # c /\ q.conn[d].buf[k] = x.conn[d].buf[k] /\ x.conn[d].buf[k] # b
    BY Zenon, <1>1, <1>5
  <2>2. /\ x.conn[d].buf[k] \in x.live[k]
        /\ \A e \in DOMAIN x.conn \ {d} : x.conn[e].buf[k] # x.conn[d].buf[k]
    BY Zenon, <1>5, <2>1 DEF Owned
  <2>3. QED
    BY Zenon, <1>5, <2>1, <2>2
<1>6. QED
  BY Zenon, <1>2, <1>3, <1>4, <1>5 DEF Owned

LEMMA ReturnKeeps ==
  ASSUME NEW x, BuffersInv(x), NEW c \in DOMAIN x.conn, NEW k \in Kinds, NEW q,
         q = conn_return_single_buffer(x, c, k)
  PROVE  /\ Lent(x, q, c) /\ BuffersInv(q) /\ OtherKind(x, q, c, k)
         /\ q.conn[c].clean = x.conn[c].clean
         /\ x.conn[c].clean[k] => q.conn[c].buf[k] = 0
<1>0. NetShaped(x) /\ Owned(x, k) /\ 0 \notin NetBufs
  BY NetBuffersAssumption DEF BuffersInv, NetBufs
<1>1. CASE q = x /\ (x.conn[c].buf[k] = 0 \/ ~ x.conn[c].clean[k])
  BY Zenon, <1>0, <1>1 DEF Lent, OtherKind
<1>2. ASSUME NEW b, b = x.conn[c].buf[k], b # 0, x.thread[k] = 0,
             q = ConnCleared([x EXCEPT !.thread[k] = b], c, k)
      PROVE  /\ Lent(x, q, c) /\ BuffersInv(q) /\ OtherKind(x, q, c, k)
             /\ q.conn[c].clean = x.conn[c].clean /\ q.conn[c].buf[k] = 0
  <2>1. /\ Lent(x, q, c) /\ OtherKind(x, q, c, k) /\ q.live = x.live
        /\ q.thread[k] = b /\ q.conn[c].buf[k] = 0 /\ q.conn[c].clean = x.conn[c].clean
    BY <1>0, <1>2 DEF NetShaped, NetFields, Lent, OtherKind, ConnCleared
  <2>2. Owned(q, k)
    <3>1. /\ DOMAIN q.conn = DOMAIN x.conn
          /\ \A d \in DOMAIN x.conn \ {c} : q.conn[d].buf[k] = x.conn[d].buf[k]
      BY Zenon, <2>1 DEF Lent
    <3>2. /\ Owned(x, k) /\ 0 \notin NetBufs /\ b = x.conn[c].buf[k] /\ b # 0
          /\ q.conn[c].buf[k] = 0
          /\ \/ q.thread[k] = b /\ x.thread[k] = 0 /\ q.live[k] = x.live[k]
             \/ q.thread[k] = x.thread[k] /\ x.thread[k] # 0 /\ q.live[k] = x.live[k] \ {b}
      BY Zenon, <1>0, <1>2, <2>1
    <3>3. QED
      BY ONLY c \in DOMAIN x.conn, <3>1, <3>2, OwnedReturned
  <2>3. QED
    BY Zenon, <2>1, <2>2, OtherKindOwned
<1>3. ASSUME NEW b, b = x.conn[c].buf[k], b # 0, x.thread[k] # 0,
             q = ConnCleared([x EXCEPT !.live[k] = @ \ {b}, !.mem[k][b] = "nobody"], c, k)
      PROVE  /\ Lent(x, q, c) /\ BuffersInv(q) /\ OtherKind(x, q, c, k)
             /\ q.conn[c].clean = x.conn[c].clean /\ q.conn[c].buf[k] = 0
  <2>1. /\ Lent(x, q, c) /\ OtherKind(x, q, c, k) /\ q.live[k] = x.live[k] \ {b}
        /\ q.thread = x.thread /\ q.conn[c].buf[k] = 0 /\ q.conn[c].clean = x.conn[c].clean
    BY <1>0, <1>3 DEF NetShaped, NetFields, Lent, OtherKind, ConnCleared
  <2>2. Owned(q, k)
    <3>1. /\ DOMAIN q.conn = DOMAIN x.conn
          /\ \A d \in DOMAIN x.conn \ {c} : q.conn[d].buf[k] = x.conn[d].buf[k]
      BY Zenon, <2>1 DEF Lent
    <3>2. /\ Owned(x, k) /\ 0 \notin NetBufs /\ b = x.conn[c].buf[k] /\ b # 0
          /\ q.conn[c].buf[k] = 0
          /\ q.thread[k] = x.thread[k] /\ x.thread[k] # 0 /\ q.live[k] = x.live[k] \ {b}
      BY Zenon, <1>0, <1>3, <2>1
    <3>3. QED
      BY ONLY c \in DOMAIN x.conn, <3>1, <3>2, OwnedReturned
  <2>3. QED
    BY Zenon, <2>1, <2>2, OtherKindOwned
<1>4. QED
  BY Zenon, <1>1, <1>2, <1>3 DEF conn_return_single_buffer, BufferClean

-----------------------------------------------------------------------------
(* The steps.                                                              *)

\* Nothing that says who holds what changes.
SameBuffers(x, q) ==
  /\ NetShaped(q) /\ q.thread = x.thread /\ q.live = x.live /\ DOMAIN q.conn = DOMAIN x.conn
  /\ \A d \in DOMAIN x.conn : q.conn[d].buf = x.conn[d].buf

LEMMA SameBuffersKeep ==
  ASSUME NEW x, BuffersInv(x), NEW q, SameBuffers(x, q)
  PROVE  BuffersInv(q)
<1> SUFFICES ASSUME NEW k \in Kinds PROVE Owned(q, k)
  BY Zenon DEF BuffersInv, SameBuffers
<1>1. Owned(x, k)
  BY Zenon DEF BuffersInv
<1>2. /\ q.thread[k] = x.thread[k] /\ q.live[k] = x.live[k] /\ DOMAIN q.conn = DOMAIN x.conn
      /\ \A d \in DOMAIN x.conn : q.conn[d].buf[k] = x.conn[d].buf[k]
  BY Zenon DEF SameBuffers
<1>3. QED
  BY <1>1, <1>2 DEF Owned

\* A connection that comes has no buffers, and one that was closed had none.
LEMMA AcceptKeeps ==
  ASSUME NetIInv, NEW c \in NetConns, NetAccept(c)
  PROVE  NetIInv'
<1>0. /\ BuffersInv(nb) /\ NetShaped(nb) /\ nb.running = {}
      /\ c \in DOMAIN nb.conn => \A k \in Kinds : nb.conn[c].buf[k] = 0
  BY Zenon DEF NetIInv, BuffersInv, NetAccept, NetIdle, Conn
<1>1. PICK stream \in BOOLEAN :
        nb' = [nb EXCEPT !.accepts = @ + 1,
                         !.conn = [d \in DOMAIN nb.conn \cup {c} |->
                                     IF d = c THEN NetConn(stream) ELSE nb.conn[d]]]
  BY Zenon DEF NetAccept
<1>2. /\ nb'.running = {} /\ nb'.thread = nb.thread /\ nb'.live = nb.live
      /\ DOMAIN nb'.conn = DOMAIN nb.conn \cup {c} /\ nb'.conn[c] = NetConn(stream)
      /\ \A d \in DOMAIN nb.conn \ {c} : nb'.conn[d] = nb.conn[d]
      /\ DOMAIN nb' = NetFields
  BY Zenon, <1>0, <1>1 DEF NetShaped, NetFields
<1>3. NetShaped(nb') /\ nb'.conn[c].open = TRUE /\ \A k \in Kinds : nb'.conn[c].buf[k] = 0
  BY <1>0, <1>2 DEF NetShaped, NetConn
<1>4. ASSUME NEW k \in Kinds PROVE Owned(nb', k)
  <2>1. /\ nb'.thread[k] = nb.thread[k] /\ nb'.live[k] = nb.live[k] /\ nb'.conn[c].buf[k] = 0
        /\ \A d \in DOMAIN nb.conn \ {c} : nb'.conn[d].buf[k] = nb.conn[d].buf[k]
        /\ Owned(nb, k) /\ 0 \notin NetBufs
        /\ c \in DOMAIN nb.conn => nb.conn[c].buf[k] = 0
        /\ DOMAIN nb'.conn = DOMAIN nb.conn \cup {c}
    BY <1>0, <1>2, <1>3, NetBuffersAssumption DEF BuffersInv, NetBufs
  <2>2. nb'.live[k] \subseteq NetBufs
    BY Zenon, <2>1 DEF Owned
  <2>3. ASSUME NEW b \in nb'.live[k]
        PROVE  b = nb'.thread[k] \/ \E d \in DOMAIN nb'.conn : b = nb'.conn[d].buf[k]
    <3>1. b # 0 /\ (b = nb.thread[k] \/ \E d \in DOMAIN nb.conn : b = nb.conn[d].buf[k])
      BY Zenon, <2>1, <2>2 DEF Owned
    <3>2. QED
      BY Zenon, <2>1, <3>1
  <2>4. nb'.thread[k] # 0 => /\ nb'.thread[k] \in nb'.live[k]
                             /\ \A d \in DOMAIN nb'.conn : nb'.conn[d].buf[k] # nb'.thread[k]
    BY Zenon, <2>1 DEF Owned
  <2>5. ASSUME NEW d \in DOMAIN nb'.conn, nb'.conn[d].buf[k] # 0
        PROVE  /\ nb'.conn[d].buf[k] \in nb'.live[k]
               /\ \A e \in DOMAIN nb'.conn \ {d} : nb'.conn[e].buf[k] # nb'.conn[d].buf[k]
    <3>1. d \in DOMAIN nb.conn /\ d # c /\ nb'.conn[d].buf[k] = nb.conn[d].buf[k]
      BY Zenon, <2>1, <2>5
    <3>2. /\ nb.conn[d].buf[k] \in nb.live[k]
          /\ \A e \in DOMAIN nb.conn \ {d} : nb.conn[e].buf[k] # nb.conn[d].buf[k]
      BY Zenon, <2>1, <2>5, <3>1 DEF Owned
    <3>3. QED
      BY Zenon, <2>1, <2>5, <3>1, <3>2
  <2>6. QED
    BY Zenon, <2>2, <2>3, <2>4, <2>5 DEF Owned
<1>5. QED
  BY <1>2, <1>3, <1>4 DEF NetIInv, BuffersInv

\* The thread lends its buffers, or new ones, to the connection that runs.
LEMMA RunKeeps ==
  ASSUME NetIInv, NEW c \in NetConns, runEventLoop(c)
  PROVE  NetIInv'
<1>0. c \in DOMAIN nb.conn /\ nb.conn[c].open /\ nb.running = {} /\ BuffersInv(nb)
  BY Zenon DEF runEventLoop, NetIdle, Conn, NetIInv
<1>1. PICK q : q = conn_loan_single_buffer(nb, c, "read")
  BY Zenon
<1>2. PICK p : p = conn_loan_single_buffer(q, c, "write")
  BY Zenon
<1>3. nb' = [p EXCEPT !.running = {c}]
  BY Zenon, <1>1, <1>2 DEF runEventLoop, conn_loan_buffers
<1>4. Lent(nb, q, c) /\ BuffersInv(q)
  BY Zenon, <1>0, <1>1, LoanKeeps DEF Kinds
<1>5. Lent(q, p, c) /\ BuffersInv(p)
  <2>1. c \in DOMAIN q.conn
    BY Zenon, <1>0, <1>4 DEF Lent
  <2>2. QED
    BY Zenon, <1>2, <1>4, <2>1, LoanKeeps DEF Kinds
<1>6. SameBuffers(p, nb') /\ nb'.running = {c} /\ nb'.conn = p.conn
  BY Zenon, <1>3, <1>5 DEF SameBuffers, Lent, NetShaped, NetFields
<1>7. BuffersInv(nb')
  BY Zenon, <1>5, <1>6, SameBuffersKeep
<1>8. /\ DOMAIN nb'.conn = DOMAIN nb.conn /\ nb'.conn[c].open = nb.conn[c].open
      /\ \A d \in DOMAIN nb.conn \ {c} : nb'.conn[d] = nb.conn[d]
  BY Zenon, <1>4, <1>5, <1>6 DEF Lent
<1>9. nb'.conn[c].open
  BY ONLY <1>0, <1>8, Zenon
<1>10. ASSUME NEW d \in DOMAIN nb'.conn, ~ nb'.conn[d].open, NEW k \in Kinds
       PROVE  nb'.conn[d].buf[k] = 0
  <2>1. d # c /\ d \in DOMAIN nb.conn /\ nb'.conn[d] = nb.conn[d]
    BY ONLY Zenon, <1>8, <1>9, <1>10
  <2>2. QED
    BY Zenon, <1>10, <2>1 DEF NetIInv
<1>11. QED
  BY Zenon, <1>0, <1>6, <1>7, <1>8, <1>9, <1>10 DEF NetIInv

\* The connection that ran gives back its buffers and keeps those with data.
LEMMA EndKeeps ==
  ASSUME NetIInv, NEW c \in NetConns, EventLoopEnds(c)
  PROVE  NetIInv'
<1>0. c \in DOMAIN nb.conn /\ nb.conn[c].open /\ BuffersInv(nb)
  BY Zenon DEF EventLoopEnds, NetIInv
<1>1. PICK p : p = conn_return_buffers(nb, c)
  BY Zenon
<1>2. nb' = [p EXCEPT !.running = {}]
  BY Zenon, <1>1 DEF EventLoopEnds
<1>3. Lent(nb, p, c) /\ BuffersInv(p)
  <2>1. CASE nb.conn[c].stream
    BY Zenon, <1>0, <1>1, <2>1 DEF conn_return_buffers, Lent, BuffersInv
  <2>2. CASE ~ nb.conn[c].stream
    <3>1. PICK q : q = conn_return_single_buffer(nb, c, "read")
      OBVIOUS
    <3>2. p = conn_return_single_buffer(q, c, "write")
      BY Zenon, <1>1, <2>2, <3>1 DEF conn_return_buffers
    <3>3. Lent(nb, q, c) /\ BuffersInv(q) /\ c \in DOMAIN q.conn
      <4>1. Lent(nb, q, c) /\ BuffersInv(q)
        BY Zenon, <1>0, <3>1, ReturnKeeps DEF Kinds
      <4>2. QED
        BY Zenon, <1>0, <4>1 DEF Lent
    <3>4. Lent(q, p, c) /\ BuffersInv(p)
      BY Zenon, <3>2, <3>3, ReturnKeeps DEF Kinds
    <3>5. QED
      BY Zenon, <3>3, <3>4 DEF Lent
  <2>3. QED
    BY Zenon, <2>1, <2>2
<1>4. SameBuffers(p, nb') /\ nb'.running = {} /\ nb'.conn = p.conn
  BY Zenon, <1>2, <1>3 DEF SameBuffers, Lent, NetShaped, NetFields
<1>5. BuffersInv(nb')
  BY Zenon, <1>3, <1>4, SameBuffersKeep
<1>6. /\ DOMAIN nb'.conn = DOMAIN nb.conn /\ nb'.conn[c].open = nb.conn[c].open
      /\ \A d \in DOMAIN nb.conn \ {c} : nb'.conn[d] = nb.conn[d]
  BY Zenon, <1>3, <1>4 DEF Lent
<1>7. nb'.conn[c].open
  BY ONLY <1>0, <1>6, Zenon
<1>8. ASSUME NEW d \in DOMAIN nb'.conn, ~ nb'.conn[d].open, NEW k \in Kinds
      PROVE  nb'.conn[d].buf[k] = 0
  <2>1. d # c /\ d \in DOMAIN nb.conn /\ nb'.conn[d] = nb.conn[d]
    BY ONLY <1>6, <1>7, <1>8
  <2>2. QED
    BY <1>8, <2>1 DEF NetIInv
<1>9. QED
  BY Zenon, <1>4, <1>5, <1>8 DEF NetIInv

\* Reading, answering and sending leave the buffers with their holders.
LEMMA UseKeeps ==
  ASSUME NetIInv, NEW c \in NetConns,
         Reads(c) \/ mcbp_add_header(c) \/ mcbp_write_and_free(c) \/ SendsAll(c)
  PROVE  NetIInv'
<1>0. c \in DOMAIN nb.conn /\ BuffersInv(nb) /\ NetShaped(nb)
  BY Zenon DEF NetIInv, BuffersInv, Reads, mcbp_add_header, mcbp_write_and_free, SendsAll
<1>1. /\ SameBuffers(nb, nb') /\ nb'.running = nb.running
      /\ \A d \in DOMAIN nb.conn : nb'.conn[d].open = nb.conn[d].open
  <2>1. CASE Reads(c)
    <3>1. PICK b, m, clean : nb' = [nb EXCEPT !.mem["read"][b] = m, !.conn[c].clean["read"] = clean]
      BY <2>1, Zenon DEF Reads
    <3>2. QED
      BY Zenon, <1>0, <3>1 DEF SameBuffers, NetShaped, NetFields
  <2>2. CASE mcbp_add_header(c)
    BY SMTT(20), <1>0, <2>2 DEF mcbp_add_header, SameBuffers, NetShaped, NetFields
  <2>3. CASE mcbp_write_and_free(c)
    BY <1>0, <2>3 DEF mcbp_write_and_free, SameBuffers, NetShaped, NetFields
  <2>4. CASE SendsAll(c)
    <3>1. PICK g : nb' = [nb EXCEPT !.garbled = g, !.conn[c].iov = 0, !.conn[c].sending = FALSE]
      BY <2>4, Zenon DEF SendsAll
    <3>2. QED
      BY <1>0, <3>1 DEF SameBuffers, NetShaped, NetFields
  <2>5. QED
    BY Zenon, <2>1, <2>2, <2>3, <2>4
<1>2. BuffersInv(nb')
  BY Zenon, <1>0, <1>1, SameBuffersKeep
<1>3. QED
  BY <1>1, <1>2 DEF NetIInv, SameBuffers

\* A connection that is closed gives back all its buffers, streams as well.
LEMMA CleanupKeeps ==
  ASSUME NetIInv, NEW c \in NetConns, conn_cleanup(c)
  PROVE  NetIInv'
<1>0. c \in DOMAIN nb.conn /\ BuffersInv(nb) /\ NetShaped(nb)
  BY Zenon DEF NetIInv, BuffersInv, conn_cleanup
<1>1. PICK x : /\ x = [nb EXCEPT !.conn[c].clean = [k \in Kinds |-> TRUE], !.conn[c].stream = FALSE,
                                 !.conn[c].iov = 0, !.conn[c].sending = FALSE,
                                 !.conn[c].open = FALSE]
               /\ nb' = [conn_return_buffers(x, c) EXCEPT !.running = {}]
  BY Zenon DEF conn_cleanup
<1>2. /\ SameBuffers(nb, x) /\ ~ x.conn[c].stream
      /\ \A k \in Kinds : x.conn[c].clean[k]
      /\ \A d \in DOMAIN nb.conn \ {c} : x.conn[d] = nb.conn[d]
  <2>1. /\ DOMAIN x = NetFields /\ x.thread = nb.thread /\ x.live = nb.live
        /\ DOMAIN x.conn = DOMAIN nb.conn
        /\ \A d \in DOMAIN nb.conn \ {c} : x.conn[d] = nb.conn[d]
    BY ZenonT(60), <1>0, <1>1 DEF NetShaped, NetFields
  <2>2. /\ DOMAIN x.conn[c] = DOMAIN nb.conn[c] /\ x.conn[c].buf = nb.conn[c].buf
        /\ x.conn[c].stream = FALSE /\ x.conn[c].clean = [k \in Kinds |-> TRUE]
    <3>1. PICK clean : clean = [k \in Kinds |-> TRUE]
      BY Zenon
    <3>2. x = [nb EXCEPT !.conn[c].clean = clean, !.conn[c].stream = FALSE, !.conn[c].iov = 0,
                         !.conn[c].sending = FALSE, !.conn[c].open = FALSE]
      BY <1>1, <3>1, Zenon
    <3>3. x.conn[c] = [nb.conn[c] EXCEPT !.clean = clean, !.stream = FALSE, !.iov = 0,
                                         !.sending = FALSE, !.open = FALSE]
      BY Zenon, <1>0, <3>2 DEF NetShaped, NetFields
    <3>4. QED
      BY <1>0, <3>1, <3>3 DEF NetShaped
  <2>3. SameBuffers(nb, x)
    BY <1>0, <2>1, <2>2 DEF SameBuffers, NetShaped
  <2>4. QED
    BY ZenonT(30), <2>1, <2>2, <2>3
<1>3. BuffersInv(x) /\ c \in DOMAIN x.conn
  BY Zenon, <1>0, <1>2, SameBuffersKeep DEF SameBuffers
<1>4. PICK q : q = conn_return_single_buffer(x, c, "read")
  BY Zenon
<1>5. PICK p : p = conn_return_single_buffer(q, c, "write")
  OBVIOUS
<1>6. nb' = [p EXCEPT !.running = {}]
  BY Zenon, <1>1, <1>2, <1>4, <1>5 DEF conn_return_buffers
<1>7. /\ Lent(x, q, c) /\ BuffersInv(q) /\ c \in DOMAIN q.conn
      /\ q.conn[c].clean = x.conn[c].clean /\ q.conn[c].buf["read"] = 0
  <2>1. x.conn[c].clean["read"]
    BY Zenon, <1>2 DEF Kinds
  <2>2. QED
    BY <1>3, <1>4, <2>1, ReturnKeeps DEF Kinds, Lent
<1>8. /\ Lent(q, p, c) /\ BuffersInv(p) /\ p.conn[c].buf["write"] = 0
      /\ p.conn[c].buf["read"] = 0
  <2>1. q.conn[c].clean["write"]
    BY Zenon, <1>2, <1>7 DEF Kinds
  <2>2. QED
    BY <1>5, <1>7, <2>1, ReturnKeeps DEF Kinds, OtherKind
<1>9. SameBuffers(p, nb') /\ nb'.running = {} /\ nb'.conn = p.conn
  BY Zenon, <1>6, <1>8 DEF SameBuffers, Lent, NetShaped, NetFields
<1>10. BuffersInv(nb')
  BY Zenon, <1>8, <1>9, SameBuffersKeep
<1>11. /\ DOMAIN nb'.conn = DOMAIN nb.conn /\ \A k \in Kinds : nb'.conn[c].buf[k] = 0
       /\ \A d \in DOMAIN nb.conn \ {c} : nb'.conn[d] = nb.conn[d]
  BY <1>2, <1>7, <1>8, <1>9 DEF Lent, SameBuffers, Kinds
<1>12. QED
  BY <1>9, <1>10, <1>11 DEF NetIInv

-----------------------------------------------------------------------------
(* The theorem on the buffers.                                             *)

LEMMA NetBuffersStart == NetBuffersInit => NetIInv
<1> SUFFICES ASSUME NetBuffersInit PROVE NetIInv
  OBVIOUS
<1>1. /\ DOMAIN nb = NetFields /\ nb.running = {} /\ nb.thread = [k \in Kinds |-> 0]
      /\ nb.live = [k \in Kinds |-> {}] /\ DOMAIN nb.conn = {}
  BY Zenon DEF NetBuffersInit, NetFields
<1>2. QED
  BY Zenon, <1>1 DEF NetIInv, BuffersInv, NetShaped, Owned

LEMMA NetBuffersStep == NetIInv /\ [NetBuffersNext]_nb => NetIInv'
<1> SUFFICES ASSUME NetIInv, [NetBuffersNext]_nb PROVE NetIInv'
  BY Zenon
<1>1. ASSUME NEW c \in NetConns, NetAccept(c) \/ runEventLoop(c) \/ EventLoopEnds(c)
      PROVE  NetIInv'
  BY Zenon, <1>1, AcceptKeeps, RunKeeps, EndKeeps
<1>2. ASSUME NEW c \in NetConns, \/ Reads(c) \/ mcbp_add_header(c) \/ mcbp_write_and_free(c)
                                 \/ SendsAll(c) \/ conn_cleanup(c)
      PROVE  NetIInv'
  BY Zenon, <1>2, UseKeeps, CleanupKeeps
<1>3. CASE UNCHANGED nb
  BY <1>3 DEF NetIInv, BuffersInv, NetShaped, Owned
<1>4. QED
  BY Zenon, <1>1, <1>2, <1>3 DEF NetBuffersNext

LEMMA NetIInvImplies == NetIInv => BufferOwnedOnce
<1> SUFFICES ASSUME NetIInv PROVE BufferOwnedOnce
  BY Zenon
<1>0. "thread" \notin DOMAIN nb.conn /\ 0 \notin NetBufs
  BY NetBuffersAssumption DEF NetIInv, BuffersInv, NetShaped, NetBufs
<1>1. ASSUME NEW k \in Kinds, NEW g \in Holders, NEW h \in Holders,
             HeldBuf(g, k) = HeldBuf(h, k), HeldBuf(g, k) # 0
      PROVE  g = h
  <2>1. Owned(nb, k)
    BY Zenon DEF NetIInv, BuffersInv
  <2>2. QED
    BY Zenon, <1>0, <1>1, <2>1 DEF Owned, Holders, HeldBuf
<1>2. ASSUME NEW k \in Kinds PROVE {HeldBuf(h, k) : h \in Holders} \ {0} = nb.live[k]
  <2>1. Owned(nb, k)
    BY Zenon DEF NetIInv, BuffersInv
  <2>2. ASSUME NEW h \in Holders, HeldBuf(h, k) # 0 PROVE HeldBuf(h, k) \in nb.live[k]
    BY Zenon, <1>0, <2>1, <2>2 DEF Owned, Holders, HeldBuf
  <2>3. ASSUME NEW b \in nb.live[k] PROVE b # 0 /\ \E h \in Holders : b = HeldBuf(h, k)
    BY Zenon, <1>0, <2>1, <2>3 DEF Owned, Holders, HeldBuf
  <2>4. QED
    BY Zenon, <2>2, <2>3
<1>3. QED
  BY Zenon, <1>1, <1>2 DEF BufferOwnedOnce, NetIInv, Conn

(* With any number of connections, every buffer the worker allocated and   *)
(* has not freed belongs to the thread or to one connection, and a closed  *)
(* connection has none (conn_loan_buffers, conn_return_buffers,            *)
(* conn_cleanup).                                                          *)
THEOREM BuffersStayOwned == NetBuffersSpec => []BufferOwnedOnce
<1>1. NetBuffersInit => NetIInv
  BY Zenon, NetBuffersStart
<1>2. NetIInv /\ [NetBuffersNext]_nb => NetIInv'
  BY Zenon, NetBuffersStep
<1>3. NetIInv => BufferOwnedOnce
  BY Zenon, NetIInvImplies
<1>4. QED
  BY <1>1, <1>2, <1>3, PTL DEF NetBuffersSpec

-----------------------------------------------------------------------------
(* Time.                                                                   *)

\* The uptime follows the monotonic clock, and the epoch may be anything.
ClockInv ==
  /\ DOMAIN ck = {"mono", "wall", "uptime", "epoch", "check", "valid", "previous", "jumps"}
  /\ ck.mono \in 0 .. MaxUptime /\ ck.uptime \in 0 .. MaxUptime
  /\ ck.epoch \in Int /\ ck.wall \in Int

\* A tick sets the uptime, and the epoch at most from the clocks.
LEMMA TickKeeps ==
  ASSUME NEW r,
         DOMAIN r = {"mono", "wall", "uptime", "epoch", "check", "valid", "previous", "jumps"},
         r.mono \in 0 .. MaxUptime, r.epoch \in Int, r.wall \in Int,
         NEW q, q = mc_time_clock_tick(r)
  PROVE  /\ DOMAIN q = DOMAIN r
         /\ q.mono = r.mono /\ q.wall = r.wall /\ q.uptime = r.mono
         /\ q.epoch \in Int
<1>1. PICK s : s = [r EXCEPT !.uptime = r.mono]
  BY Zenon
<1>2. /\ DOMAIN s = DOMAIN r /\ s.uptime = r.mono
      /\ s.mono = r.mono /\ s.wall = r.wall /\ s.epoch = r.epoch
  BY Zenon, <1>1
<1>3. CASE s.uptime < r.check
  BY Zenon, <1>1, <1>2, <1>3 DEF mc_time_clock_tick
<1>4. CASE ~ (s.uptime < r.check)
  <2>1. r.wall - s.uptime \in Int
    BY <1>2, ClockAssumption
  <2>2. PICK x \in Int : q = [s EXCEPT !.epoch = x, !.check = @ + CheckTime, !.valid = TRUE, !.previous = r.wall]
    BY Zenon, <1>1, <1>2, <1>4, <2>1 DEF mc_time_clock_tick
  <2>3. QED
    BY Zenon, <1>2, <2>2
<1>5. QED
  BY Zenon, <1>3, <1>4

\* The clocks start together.
LEMMA ClockStarts == ClockInit => ClockInv
<1> SUFFICES ASSUME ClockInit PROVE ClockInv
  OBVIOUS
<1>1. PICK r : r = [mono |-> 0, wall |-> Boot, uptime |-> 0, epoch |-> Boot, check |-> 0,
                    valid |-> FALSE, previous |-> 0, jumps |-> 0]
  BY Zenon
<1>2. /\ DOMAIN r = {"mono", "wall", "uptime", "epoch", "check", "valid", "previous", "jumps"}
      /\ r.mono = 0 /\ r.wall = Boot /\ r.epoch = Boot /\ 0 \in 0 .. MaxUptime /\ Boot \in Int
  BY <1>1, ClockAssumption
<1>3. PICK q : q = mc_time_clock_tick(r)
  BY Zenon
<1>4. /\ DOMAIN q = DOMAIN r /\ q.mono = 0 /\ q.wall = Boot /\ q.epoch \in Int
  BY Zenon, <1>2, <1>3, TickKeeps
<1>5. ck = mc_time_clock_tick(q)
  BY Zenon, <1>1, <1>3 DEF ClockInit
<1>6. QED
  BY Zenon, <1>2, <1>4, <1>5, TickKeeps DEF ClockInv

\* Ticks, seconds and changes of the system clock keep it.
LEMMA ClockStep == ClockInv /\ [ClockNext]_ck => ClockInv'
<1> SUFFICES ASSUME ClockInv, [ClockNext]_ck PROVE ClockInv'
  OBVIOUS
<1>1. CASE mc_time_clock_event_handler
  BY Zenon, <1>1, TickKeeps DEF ClockInv, mc_time_clock_event_handler
<1>2. CASE Second
  <2>1. /\ DOMAIN ck' = DOMAIN ck /\ ck'.mono = ck.mono + 1 /\ ck'.wall = ck.wall + 1
        /\ ck'.uptime = ck.uptime /\ ck'.epoch = ck.epoch /\ ck.mono < MaxUptime
    BY Zenon, <1>2 DEF Second, ClockInv
  <2>2. QED
    BY <2>1, ClockAssumption DEF ClockInv
<1>3. CASE SystemClockSet
  <2>1. PICK d \in Int : ck' = [ck EXCEPT !.wall = @ + d, !.jumps = @ + 1]
    BY Zenon, <1>3, ClockAssumption DEF SystemClockSet
  <2>2. QED
    BY <2>1 DEF ClockInv
<1>4. CASE UNCHANGED ck
  BY Zenon, <1>4 DEF ClockInv
<1>5. QED
  BY Zenon, <1>1, <1>2, <1>3, <1>4 DEF ClockNext

\* A number below the width of a rel_time_t is converted without loss.
LEMMA NoWrap ==
  ASSUME NEW n \in Nat, n < RelWidth
  PROVE  n % RelWidth = n
BY ClockAssumption

\* Every expiry time of a client that a rel_time_t can hold means what it said.
LEMMA MeansAsSaid ==
  ASSUME ClockInv, NEW t \in Nat, t - ck.epoch < RelWidth
  PROVE  Means(t)
<1> USE ClockAssumption
<1>1. PICK u \in 0 .. MaxUptime, e \in Int : u = ck.uptime /\ e = ck.epoch
  BY Zenon DEF ClockInv
<1>2. CASE t > MaxRelative /\ t <= e
  <2>1. mc_time_convert_to_real_time(ck, t) = 1
    BY Zenon, <1>1, <1>2 DEF mc_time_convert_to_real_time
  <2>2. QED
    BY <1>1, <1>2, <2>1 DEF Means, mc_time_convert_to_abs_time
<1>3. CASE t > MaxRelative /\ t > e
  <2>1. mc_time_convert_to_real_time(ck, t) = t - e
    BY <1>1, <1>3, NoWrap DEF mc_time_convert_to_real_time
  <2>2. QED
    BY <1>1, <1>3, <2>1 DEF Means, mc_time_convert_to_abs_time
<1>4. CASE t <= MaxRelative /\ t # 0
  <2>1. mc_time_convert_to_real_time(ck, t) = t + u
    BY <1>1, <1>4, NoWrap DEF mc_time_convert_to_real_time
  <2>2. QED
    BY <1>1, <1>4, <2>1 DEF Means, mc_time_convert_to_abs_time
<1>5. CASE t = 0
  <2>1. mc_time_convert_to_real_time(ck, t) = 0
    BY <1>5 DEF mc_time_convert_to_real_time
  <2>2. QED
    BY <1>5, <2>1 DEF Means, mc_time_convert_to_abs_time
<1>6. QED
  BY <1>1, <1>2, <1>3, <1>4, <1>5

\* ExpiryAsMeant for all times a client can send.
EveryExpiryAsMeant == \A t \in Nat : t - ck.epoch < RelWidth => Means(t)

(* However the system clock is set, and however late the ticks are, an     *)
(* expiry time means what the client said (mc_time_convert_to_real_time),  *)
(* whatever it is, whenever the process was started and whatever the       *)
(* longest relative time is.                                               *)
THEOREM ExpiryStaysAsMeant == ClockSpec => [](ExpiryAsMeant /\ EveryExpiryAsMeant)
<1>1. ClockInv => EveryExpiryAsMeant
  BY Zenon, MeansAsSaid DEF EveryExpiryAsMeant
<1>2. EveryExpiryAsMeant => ExpiryAsMeant
  BY ClockAssumption DEF ExpiryAsMeant, EveryExpiryAsMeant
<1>3. QED
  BY <1>1, <1>2, ClockStarts, ClockStep, PTL DEF ClockSpec

-----------------------------------------------------------------------------
(* The checks of a request.                                                *)

\* A chain of one function says what the function says (FunctionChain::invoke).
LEMMA OneSays ==
  ASSUME NEW v, invoke(<<v>>) = "SUCCESS" PROVE v = "SUCCESS"
<1> DEFINE failed == {i \in DOMAIN <<v>> : <<v>>[i] # "SUCCESS"}
<1>1. CASE failed = {}
  BY <1>1
<1>2. CASE failed # {}
  <2>1. failed = {1}
    BY <1>2
  <2>2. (CHOOSE i \in failed : \A j \in failed : i <= j) = 1
    BY <2>1
  <2>3. invoke(<<v>>) = <<v>>[1]
    BY <1>2, <2>2 DEF invoke
  <2>4. QED
    BY <2>3
<1>3. QED
  BY <1>1, <1>2

\* The extras that the validator of a DCP message asks for.
LEMMA DcpExtras ==
  ASSUME NEW p, p.cmd \in DcpCommands, DcpBytes(p.cmd) # 0,
         invoke(commandChains(p)) = "SUCCESS"
  PROVE  p.extlen = DcpBytes(p.cmd)
<1>1. commandChains(p) = DcpChain(p)
  BY Zenon DEF commandChains, DcpCommands, TapCommands, SinglePath
<1>2. CASE p.cmd = "DCP_STREAM_REQ"
  <2>1. DcpChain(p) = <<dcp_stream_req_validator(p)>> /\ DcpBytes(p.cmd) = 48
    BY <1>2 DEF DcpChain, DcpBytes
  <2>2. dcp_stream_req_validator(p) = "SUCCESS"
    BY Zenon, <1>1, <2>1, OneSays
  <2>3. QED
    BY <2>1, <2>2 DEF dcp_stream_req_validator, Valid
<1>3. CASE p.cmd = "DCP_MUTATION"
  <2>1. DcpChain(p) = <<dcp_mutation_validator(p)>> /\ DcpBytes(p.cmd) = 31
    BY <1>3 DEF DcpChain, DcpBytes
  <2>2. dcp_mutation_validator(p) = "SUCCESS"
    BY Zenon, <1>1, <2>1, OneSays
  <2>3. QED
    BY <2>1, <2>2 DEF dcp_mutation_validator, Valid
<1>4. CASE p.cmd = "DCP_SNAPSHOT_MARKER"
  <2>1. DcpChain(p) = <<dcp_snapshot_marker_validator(p)>> /\ DcpBytes(p.cmd) = 20
    BY <1>4 DEF DcpChain, DcpBytes
  <2>2. dcp_snapshot_marker_validator(p) = "SUCCESS"
    BY Zenon, <1>1, <2>1, OneSays
  <2>3. QED
    BY <2>1, <2>2 DEF dcp_snapshot_marker_validator, ExtrasOnly, Valid
<1>5. CASE p.cmd = "DCP_DELETION"
  <2>1. DcpChain(p) = <<dcp_deletion_validator(p)>> /\ DcpBytes(p.cmd) = 18
    BY <1>5 DEF DcpChain, DcpBytes
  <2>2. dcp_deletion_validator(p) = "SUCCESS"
    BY Zenon, <1>1, <2>1, OneSays
  <2>3. QED
    BY <2>1, <2>2 DEF dcp_deletion_validator, Valid
<1>6. CASE p.cmd = "DCP_EXPIRATION"
  <2>1. DcpChain(p) = <<dcp_expiration_validator(p)>> /\ DcpBytes(p.cmd) = 18
    BY <1>6 DEF DcpChain, DcpBytes
  <2>2. dcp_expiration_validator(p) = "SUCCESS"
    BY Zenon, <1>1, <2>1, OneSays
  <2>3. QED
    BY <2>1, <2>2 DEF dcp_expiration_validator, Valid
<1>7. CASE p.cmd = "DCP_OPEN"
  <2>1. DcpChain(p) = <<dcp_open_validator(p)>> /\ DcpBytes(p.cmd) = 8
    BY <1>7 DEF DcpChain, DcpBytes
  <2>2. dcp_open_validator(p) = "SUCCESS"
    BY Zenon, <1>1, <2>1, OneSays
  <2>3. QED
    BY <2>1, <2>2 DEF dcp_open_validator, Valid
<1>8. CASE p.cmd = "DCP_ADD_STREAM"
  <2>1. DcpChain(p) = <<dcp_add_stream_validator(p)>> /\ DcpBytes(p.cmd) = 4
    BY <1>8 DEF DcpChain, DcpBytes
  <2>2. dcp_add_stream_validator(p) = "SUCCESS"
    BY Zenon, <1>1, <2>1, OneSays
  <2>3. QED
    BY <2>1, <2>2 DEF dcp_add_stream_validator, ExtrasOnly, Valid
<1>9. CASE p.cmd = "DCP_STREAM_END"
  <2>1. DcpChain(p) = <<dcp_stream_end_validator(p)>> /\ DcpBytes(p.cmd) = 4
    BY <1>9 DEF DcpChain, DcpBytes
  <2>2. dcp_stream_end_validator(p) = "SUCCESS"
    BY Zenon, <1>1, <2>1, OneSays
  <2>3. QED
    BY <2>1, <2>2 DEF dcp_stream_end_validator, ExtrasOnly, Valid
<1>10. CASE p.cmd = "DCP_BUFFER_ACKNOWLEDGEMENT"
  <2>1. DcpChain(p) = <<dcp_buffer_acknowledgement_validator(p)>> /\ DcpBytes(p.cmd) = 4
    BY <1>10 DEF DcpChain, DcpBytes
  <2>2. dcp_buffer_acknowledgement_validator(p) = "SUCCESS"
    BY Zenon, <1>1, <2>1, OneSays
  <2>3. QED
    BY <2>1, <2>2 DEF dcp_buffer_acknowledgement_validator, ExtrasOnly, Valid
<1>11. CASE p.cmd = "DCP_SET_VBUCKET_STATE"
  <2>1. DcpChain(p) = <<dcp_set_vbucket_state_validator(p)>> /\ DcpBytes(p.cmd) = 1
    BY <1>11 DEF DcpChain, DcpBytes
  <2>2. dcp_set_vbucket_state_validator(p) = "SUCCESS"
    BY Zenon, <1>1, <2>1, OneSays
  <2>3. QED
    BY <2>1, <2>2 DEF dcp_set_vbucket_state_validator, ExtrasOnly, Valid
<1>12. p.cmd \in {"DCP_STREAM_REQ", "DCP_MUTATION", "DCP_SNAPSHOT_MARKER", "DCP_DELETION",
                 "DCP_EXPIRATION", "DCP_OPEN", "DCP_ADD_STREAM", "DCP_STREAM_END",
                 "DCP_BUFFER_ACKNOWLEDGEMENT", "DCP_SET_VBUCKET_STATE"}
  BY Zenon DEF DcpBytes
<1>13. QED
  BY Zenon, <1>2, <1>3, <1>4, <1>5, <1>6, <1>7, <1>8, <1>9, <1>10, <1>11, <1>12

\* The extras that the validators of the commands on keys ask for.
LEMMA StoreExtras ==
  ASSUME NEW p, StoreBytes(p.cmd) # 0, invoke(commandChains(p)) = "SUCCESS"
  PROVE  p.extlen = StoreBytes(p.cmd)
<1>1. CASE p.cmd \in {"SET", "SETQ", "REPLACE", "REPLACEQ"}
  <2>1. commandChains(p) = <<set_replace_validator(p)>>
    BY <1>1 DEF commandChains, DcpCommands, TapCommands, SinglePath
  <2>2. StoreBytes(p.cmd) = 8
    BY <1>1 DEF StoreBytes
  <2>3. set_replace_validator(p) = "SUCCESS"
    BY Zenon, <2>1, OneSays
  <2>4. QED
    BY <2>2, <2>3 DEF set_replace_validator, Valid
<1>2. CASE p.cmd \in {"ADD", "ADDQ"}
  <2>1. commandChains(p) = <<add_validator(p)>>
    BY <1>2 DEF commandChains, DcpCommands, TapCommands, SinglePath
  <2>2. StoreBytes(p.cmd) = 8
    BY <1>2 DEF StoreBytes
  <2>3. add_validator(p) = "SUCCESS"
    BY Zenon, <2>1, OneSays
  <2>4. QED
    BY <2>2, <2>3 DEF add_validator, Valid
<1>3. CASE p.cmd \in {"INCREMENT", "INCREMENTQ", "DECREMENT", "DECREMENTQ"}
  <2>1. commandChains(p) = <<arithmetic_validator(p)>>
    BY <1>3 DEF commandChains, DcpCommands, TapCommands, SinglePath
  <2>2. StoreBytes(p.cmd) = 20
    BY <1>3 DEF StoreBytes
  <2>3. arithmetic_validator(p) = "SUCCESS"
    BY Zenon, <2>1, OneSays
  <2>4. QED
    BY ZenonT(30), <2>2, <2>3 DEF arithmetic_validator, Valid
<1>4. QED
  BY <1>1, <1>2, <1>3 DEF StoreBytes

\* A packet whose header and command have been checked holds the structure that
\* its executor reads; OBSERVE_SEQNO has no extras, its structure is the body.
LEMMA StructHeld ==
  ASSUME NEW p, p.keylen \in Nat, p.extlen \in Nat, p.bodylen \in Nat,
         validate_bin_header(p), invoke(commandChains(p)) = "SUCCESS"
  PROVE  StructBytes(p.cmd) <= p.bodylen
<1>0. p.extlen <= p.bodylen
  BY DEF validate_bin_header
<1>1. CASE p.cmd \in DcpCommands
  <2>1. StructBytes(p.cmd) = DcpBytes(p.cmd)
    BY <1>1 DEF StructBytes, DcpCommands, SinglePath
  <2>2. QED
    BY <1>0, <1>1, <2>1, DcpExtras
<1>2. CASE p.cmd \in SinglePath
  <2>1. commandChains(p) = <<subdoc_validator(p)>>
    BY Zenon, <1>2 DEF commandChains, DcpCommands, TapCommands, SinglePath
  <2>2. StructBytes(p.cmd) = 3
    BY <1>2 DEF StructBytes, DcpCommands, SinglePath, SUBDOC_BASIC_EXTRAS_LEN
  <2>3. p.extlen = 3 \/ p.extlen = 7
    BY Zenon, <2>1, OneSays DEF Valid, subdoc_validator, SUBDOC_BASIC_EXTRAS_LEN, SUBDOC_EXPIRY_EXTRAS_LEN
  <2>4. QED
    BY <1>0, <2>2, <2>3
<1>3. CASE p.cmd = "SET_DRIFT_COUNTER_STATE"
  <2>1. commandChains(p) = <<set_drift_counter_state_validator(p)>>
    BY <1>3 DEF commandChains, DcpCommands, TapCommands, SinglePath
  <2>2. StructBytes(p.cmd) = 9
    BY <1>3 DEF StructBytes, DcpCommands, SinglePath
  <2>3. set_drift_counter_state_validator(p) = "SUCCESS"
    BY Zenon, <2>1, OneSays
  <2>4. QED
    BY <1>0, <2>2, <2>3 DEF set_drift_counter_state_validator, ExtrasOnly, Valid
<1>4. CASE p.cmd = "SET_CTRL_TOKEN"
  <2>1. commandChains(p) = <<set_ctrl_token_validator(p)>>
    BY <1>4 DEF commandChains, DcpCommands, TapCommands, SinglePath
  <2>2. StructBytes(p.cmd) = 8
    BY <1>4 DEF StructBytes, DcpCommands, SinglePath
  <2>3. set_ctrl_token_validator(p) = "SUCCESS"
    BY Zenon, <2>1, OneSays
  <2>4. QED
    BY <1>0, <2>2, <2>3 DEF set_ctrl_token_validator, ExtrasOnly, Valid
<1>5. CASE p.cmd = "OBSERVE_SEQNO"
  <2>1. commandChains(p) = <<observe_seqno_validator(p)>>
    BY <1>5 DEF commandChains, DcpCommands, TapCommands, SinglePath
  <2>2. StructBytes(p.cmd) = 8
    BY <1>5 DEF StructBytes, DcpCommands, SinglePath
  <2>3. observe_seqno_validator(p) = "SUCCESS"
    BY Zenon, <2>1, OneSays
  <2>4. QED
    BY <1>0, <2>2, <2>3 DEF observe_seqno_validator, Valid
<1>6. CASE p.cmd = "VERBOSITY"
  <2>1. commandChains(p) = <<verbosity_validator(p)>>
    BY <1>6 DEF commandChains, DcpCommands, TapCommands, SinglePath
  <2>2. StructBytes(p.cmd) = 4
    BY <1>6 DEF StructBytes, DcpCommands, SinglePath
  <2>3. verbosity_validator(p) = "SUCCESS"
    BY Zenon, <2>1, OneSays
  <2>4. QED
    BY <1>0, <2>2, <2>3 DEF verbosity_validator, ExtrasOnly, Valid
<1>7. CASE p.cmd = "AUDIT_PUT"
  <2>1. commandChains(p) = <<audit_put_validator(p)>>
    BY <1>7 DEF commandChains, DcpCommands, TapCommands, SinglePath
  <2>2. StructBytes(p.cmd) = 4
    BY <1>7 DEF StructBytes, DcpCommands, SinglePath
  <2>3. audit_put_validator(p) = "SUCCESS"
    BY Zenon, <2>1, OneSays
  <2>4. QED
    BY <1>0, <2>2, <2>3 DEF audit_put_validator, Valid
<1>8. CASE p.cmd = "GET_CMD_TIMER"
  <2>1. commandChains(p) = <<get_cmd_timer_validator(p)>>
    BY <1>8 DEF commandChains, DcpCommands, TapCommands, SinglePath
  <2>2. StructBytes(p.cmd) = 1
    BY <1>8 DEF StructBytes, DcpCommands, SinglePath
  <2>3. get_cmd_timer_validator(p) = "SUCCESS"
    BY Zenon, <2>1, OneSays
  <2>4. QED
    BY <1>0, <2>2, <2>3 DEF get_cmd_timer_validator, Valid
<1>9. CASE /\ p.cmd \notin DcpCommands \cup SinglePath
           /\ p.cmd \notin {"SET_DRIFT_COUNTER_STATE", "SET_CTRL_TOKEN", "OBSERVE_SEQNO",
                            "VERBOSITY", "AUDIT_PUT", "GET_CMD_TIMER"}
  <2>1. StructBytes(p.cmd) = StoreBytes(p.cmd)
    BY Zenon, <1>9 DEF StructBytes
  <2>2. QED
    BY <1>0, <2>1, StoreExtras
<1>10. QED
  BY Zenon, <1>1, <1>2, <1>3, <1>4, <1>5, <1>6, <1>7, <1>8, <1>9

\* A read has no structure, so that it does not matter which chain it passed.
LEMMA CommandHeld ==
  ASSUME NEW s, NEW p, p.keylen \in Nat, p.extlen \in Nat, p.bodylen \in Nat,
         validate_bin_header(p), validateCommand(s, p) = "SUCCESS"
  PROVE  StructBytes(p.cmd) <= p.bodylen
<1>1. CASE p.cmd \in {"GET", "GETQ", "GETK", "GETKQ"}
  BY <1>1 DEF StructBytes, StoreBytes, DcpCommands, SinglePath
<1>2. CASE p.cmd \notin {"GET", "GETQ", "GETK", "GETKQ"}
  <2>1. validateCommand(s, p) = invoke(commandChains(p))
    BY <1>2 DEF validateCommand, enableCollections
  <2>2. QED
    BY <2>1, StructHeld
<1>3. QED
  BY <1>1, <1>2

\* Lengths that fit are subtracted without wrapping around.
LEMMA NothingWraps ==
  ASSUME NEW p, p.keylen \in Nat, p.extlen \in Nat, p.bodylen \in 0 .. LengthSpan - 1,
         validate_bin_header(p)
  PROVE  p.keylen + p.extlen + ValueLen(p) = p.bodylen
<1>1. ASSUME NEW a \in Nat, a < LengthSpan PROVE a % LengthSpan = a
  BY <1>1, ValidatorsAssumption
<1>2. Minus(p.bodylen, p.keylen) = p.bodylen - p.keylen
  BY <1>1, ValidatorsAssumption DEF Minus, validate_bin_header
<1>3. ValueLen(p) = p.bodylen - p.keylen - p.extlen
  BY <1>1, <1>2, ValidatorsAssumption DEF ValueLen, Minus, validate_bin_header
<1>4. QED
  BY <1>3, ValidatorsAssumption DEF validate_bin_header

\* A request is one of the packets, and one that is let through passed the check
\* of its header and that of its command.
RequestsIInv ==
  /\ outcome.stage # "none" => packet \in Packets
  /\ Accepted => /\ validate_bin_header(packet)
                 /\ validateCommand(session, packet) = "SUCCESS"

LEMMA RequestsInvariant == RequestsSpec => []RequestsIInv
<1>1. RequestsInit => RequestsIInv
  BY DEF RequestsInit, RequestsIInv, Accepted, Reached
<1>2. RequestsIInv /\ [RequestsNext]_RequestsVars => RequestsIInv'
  <2> SUFFICES ASSUME RequestsIInv, [RequestsNext]_RequestsVars PROVE RequestsIInv'
    OBVIOUS
  <2>1. ASSUME NEW s \in Sessions, NEW p \in Packets, dispatch_bin_command(s, p)
        PROVE  RequestsIInv'
    <3>1. packet' = p /\ outcome'.stage \notin {"executor", "unknown"}
      BY <2>1 DEF dispatch_bin_command, Reached, Refused
    <3>2. QED
      BY <3>1 DEF RequestsIInv, Accepted
  <2>2. CASE process_bin_packet
    <3>1. packet' = packet /\ session' = session /\ packet \in Packets
          /\ outcome' = Verdict(session, packet)
      BY <2>2 DEF process_bin_packet, RequestsIInv
    <3>2. Accepted' => /\ validate_bin_header(packet)
                       /\ validateCommand(session, packet) = "SUCCESS"
      BY <3>1 DEF Verdict, Accepted, Refused
    <3>3. QED
      BY <3>1, <3>2 DEF RequestsIInv, Accepted
  <2>3. CASE UNCHANGED RequestsVars
    BY <2>3 DEF RequestsVars, RequestsIInv, Accepted
  <2>4. QED
    BY <2>1, <2>2, <2>3 DEF RequestsNext
<1>3. QED
  BY <1>1, <1>2, PTL DEF RequestsSpec

\* Every request that an executor or the engine gets holds its key, its extras
\* and the structure it is read through (dispatch_bin_command,
\* process_bin_packet), for all packets, sessions and limits.
THEOREM RequestsAlwaysCovered == RequestsSpec => []RequestCovered
<1>1. RequestsIInv => RequestCovered
  <2> SUFFICES ASSUME RequestsIInv, Accepted
               PROVE  /\ packet.keylen + packet.extlen + ValueLen(packet) = packet.bodylen
                      /\ StructBytes(packet.cmd) <= packet.bodylen
    BY DEF RequestCovered
  <2>1. /\ packet.keylen \in Nat /\ packet.extlen \in Nat
        /\ packet.bodylen \in 0 .. LengthSpan - 1
        /\ validate_bin_header(packet) /\ validateCommand(session, packet) = "SUCCESS"
    BY RequestsAssumption DEF RequestsIInv, Accepted
  <2>2. packet.bodylen \in Nat
    BY <2>1, ValidatorsAssumption
  <2>3. QED
    BY <2>1, <2>2, CommandHeld, NothingWraps
<1>2. QED
  BY <1>1, RequestsInvariant, PTL

=============================================================================
