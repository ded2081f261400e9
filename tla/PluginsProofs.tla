--------------------------- MODULE PluginsProofs ---------------------------
(***************************************************************************)
(* Proofs about two of the libraries that the server loads.  The file      *)
(* logger, for any threads, sizes of the buffers and files found at the    *)
(* start: no line is lost, repeated or out of order.  The ewouldblock      *)
(* engine, for any finite set of connections, any ids to suspend and any   *)
(* fault modes: a connection that blocked on it is owed exactly one        *)
(* notification.                                                           *)
(***************************************************************************)
EXTENDS Logger, Ewb, FiniteSetTheorems, TLAPS

-----------------------------------------------------------------------------
(* The file logger.                                                        *)

Rising(s) == \A i, j \in DOMAIN s : i < j => s[i] < s[j]

Below(s, t) == \A x \in Range(s), y \in Range(t) : x < y

LineSeqs == Seq(Nat)

\* The lines of the disk, those of the pending buffer that are yet to be written,
\* and those of the current buffer follow each other; a line of the pending buffer
\* that was written is on the disk; n lines have been added.
LogOrdered(disk, left, pending, current, gone, n) ==
  /\ disk \in LineSeqs /\ left \in LineSeqs /\ pending \in LineSeqs /\ current \in LineSeqs
  /\ n \in Nat
  /\ Rising(disk) /\ Rising(left) /\ Rising(current)
  /\ Below(disk, left) /\ Below(disk, current) /\ Below(left, current)
  /\ Range(left) \subseteq Range(pending) /\ Range(pending) \subseteq Range(disk) \cup Range(left)
  /\ Range(disk) \cup Range(left) \cup Range(current) \cup gone = 1 .. n
  /\ \A x \in gone : x \notin Range(disk) /\ x \notin Range(left) /\ x \notin Range(current)

-----------------------------------------------------------------------------
(* Sequences of lines.                                                     *)

LEMMA EmptyLines ==
  /\ <<>> \in LineSeqs /\ Range(<<>>) = {} /\ Rising(<<>>)
  /\ \A s \in LineSeqs : Below(s, <<>>) /\ Below(<<>>, s)
BY DEF LineSeqs, Range, Rising, Below

LEMMA BothEmpty ==
  ASSUME NEW b, b = <<<<>>, <<>>>>
  PROVE  b \in [{1, 2} -> LineSeqs] /\ b[1] = <<>> /\ b[2] = <<>>
<1>1. <<>> \in LineSeqs
  BY Zenon, EmptyLines
<1>2. QED
  BY <1>1

LEMMA LinesOf ==
  ASSUME NEW s \in LineSeqs
  PROVE  /\ \A i \in DOMAIN s : s[i] \in Nat /\ s[i] \in Range(s)
         /\ \A x \in Range(s) : x \in Nat
BY DEF LineSeqs, Range

LEMMA AddedLine ==
  ASSUME NEW s \in LineSeqs, NEW x \in Nat, Rising(s), \A y \in Range(s) : y < x
  PROVE  /\ Append(s, x) \in LineSeqs /\ Rising(Append(s, x))
         /\ Range(Append(s, x)) = Range(s) \cup {x}
<1>1. PICK t : t = Append(s, x)
  BY Zenon
<1>2. /\ t \in LineSeqs /\ DOMAIN t = 1 .. Len(s) + 1 /\ DOMAIN s = 1 .. Len(s)
      /\ \A i \in DOMAIN s : t[i] = s[i]
      /\ t[Len(s) + 1] = x /\ Len(s) \in Nat
  BY <1>1 DEF LineSeqs
<1>3. Range(t) = Range(s) \cup {x}
  <2>1. ASSUME NEW y \in Range(t) PROVE y \in Range(s) \cup {x}
    BY <1>2 DEF Range
  <2>2. ASSUME NEW y \in Range(s) PROVE y \in Range(t)
    BY <1>2 DEF Range
  <2>3. x \in Range(t)
    BY <1>2 DEF Range
  <2>4. QED
    BY Zenon, <2>1, <2>2, <2>3
<1>4. Rising(t)
  <2>1. SUFFICES ASSUME NEW i \in DOMAIN t, NEW j \in DOMAIN t, i < j PROVE t[i] < t[j]
    BY Zenon DEF Rising
  <2>2. i \in DOMAIN s
    BY <1>2, <2>1
  <2>3. CASE j \in DOMAIN s
    BY Zenon, <1>2, <2>1, <2>2, <2>3 DEF Rising
  <2>4. CASE j = Len(s) + 1
    BY Zenon, <1>2, <2>2, <2>4, LinesOf
  <2>5. QED
    BY <1>2, <2>3, <2>4
<1>5. QED
  BY Zenon, <1>1, <1>2, <1>3, <1>4

LEMMA JoinedLines ==
  ASSUME NEW s \in LineSeqs, NEW t \in LineSeqs, Rising(s), Rising(t), Below(s, t)
  PROVE  /\ s \o t \in LineSeqs /\ Rising(s \o t)
         /\ Range(s \o t) = Range(s) \cup Range(t)
<1>1. PICK u : u = s \o t
  BY Zenon
<1>2. /\ u \in LineSeqs /\ DOMAIN u = 1 .. Len(s) + Len(t)
      /\ DOMAIN s = 1 .. Len(s) /\ DOMAIN t = 1 .. Len(t)
      /\ Len(s) \in Nat /\ Len(t) \in Nat
  BY <1>1 DEF LineSeqs
<1>3. \A i \in DOMAIN s : i \in DOMAIN u /\ u[i] = s[i]
  BY <1>1, <1>2 DEF LineSeqs
<1>4. \A i \in DOMAIN t : Len(s) + i \in DOMAIN u /\ u[Len(s) + i] = t[i]
  BY <1>1, <1>2 DEF LineSeqs
<1>5. \A i \in DOMAIN u : i \in DOMAIN s \/ (i - Len(s) \in DOMAIN t /\ i = Len(s) + (i - Len(s)))
  BY <1>2
<1>6. Range(u) = Range(s) \cup Range(t)
  <2>1. ASSUME NEW y \in Range(u) PROVE y \in Range(s) \cup Range(t)
    <3>1. PICK i \in DOMAIN u : y = u[i]
      BY Zenon DEF Range
    <3>2. CASE i \in DOMAIN s
      BY Zenon, <1>3, <3>1, <3>2 DEF Range
    <3>3. CASE i - Len(s) \in DOMAIN t /\ i = Len(s) + (i - Len(s))
      <4>1. u[i] = t[i - Len(s)]
        BY Zenon, <1>4, <3>3
      <4>2. QED
        BY Zenon, <3>1, <3>3, <4>1 DEF Range
    <3>4. QED
      BY Zenon, <1>5, <3>2, <3>3
  <2>2. ASSUME NEW y \in Range(s) PROVE y \in Range(u)
    BY Zenon, <1>3 DEF Range
  <2>3. ASSUME NEW y \in Range(t) PROVE y \in Range(u)
    BY Zenon, <1>4 DEF Range
  <2>4. QED
    BY Zenon, <2>1, <2>2, <2>3
<1>7. Rising(u)
  <2>1. SUFFICES ASSUME NEW i \in DOMAIN u, NEW j \in DOMAIN u, i < j PROVE u[i] < u[j]
    BY Zenon DEF Rising
  <2>2. CASE j \in DOMAIN s
    <3>1. i \in DOMAIN s
      BY <1>2, <2>1, <2>2
    <3>2. QED
      BY Zenon, <1>3, <2>1, <2>2, <3>1 DEF Rising
  <2>3. CASE i \in DOMAIN s /\ j \notin DOMAIN s
    <3>1. u[i] = s[i] /\ s[i] \in Range(s)
      BY Zenon, <1>3, <2>3, LinesOf
    <3>2. u[j] = t[j - Len(s)] /\ t[j - Len(s)] \in Range(t)
      BY Zenon, <1>4, <1>5, <2>3, LinesOf
    <3>3. QED
      BY Zenon, <3>1, <3>2 DEF Below
  <2>4. CASE i \notin DOMAIN s /\ j \notin DOMAIN s
    <3>1. u[i] = t[i - Len(s)] /\ i - Len(s) \in DOMAIN t
      BY Zenon, <1>4, <1>5, <2>4
    <3>2. u[j] = t[j - Len(s)] /\ j - Len(s) \in DOMAIN t
      BY Zenon, <1>4, <1>5, <2>4
    <3>3. i - Len(s) < j - Len(s)
      BY <1>2, <2>1
    <3>4. QED
      BY Zenon, <3>1, <3>2, <3>3 DEF Rising
  <2>5. QED
    BY Zenon, <2>2, <2>3, <2>4
<1>8. QED
  BY Zenon, <1>1, <1>2, <1>6, <1>7

LEMMA FirstLine ==
  ASSUME NEW s \in LineSeqs, s # <<>>, Rising(s)
  PROVE  /\ Head(s) \in Nat /\ Tail(s) \in LineSeqs /\ Rising(Tail(s))
         /\ Range(s) = {Head(s)} \cup Range(Tail(s))
         /\ \A y \in Range(Tail(s)) : Head(s) < y
<1>1. PICK t : t = Tail(s)
  BY Zenon
<1>2. /\ t \in LineSeqs /\ DOMAIN t = 1 .. Len(s) - 1 /\ DOMAIN s = 1 .. Len(s)
      /\ \A i \in DOMAIN t : i + 1 \in DOMAIN s /\ t[i] = s[i + 1]
      /\ Head(s) = s[1] /\ Len(s) \in Nat \ {0}
  BY <1>1 DEF LineSeqs
<1>3. 1 \in DOMAIN s /\ \A i \in DOMAIN s : i = 1 \/ (i - 1 \in DOMAIN t /\ t[i - 1] = s[i])
  <2>1. \A i \in DOMAIN s : i = 1 \/ (i - 1 \in DOMAIN t /\ (i - 1) + 1 = i)
    BY <1>2
  <2>2. QED
    BY <1>2, <2>1
<1>4. Range(s) = {Head(s)} \cup Range(t)
  <2>1. ASSUME NEW y \in Range(s) PROVE y \in {Head(s)} \cup Range(t)
    BY <1>2, <1>3 DEF Range
  <2>2. ASSUME NEW y \in Range(t) PROVE y \in Range(s)
    BY <1>2 DEF Range
  <2>3. Head(s) \in Range(s)
    BY Zenon, <1>2, <1>3 DEF Range
  <2>4. QED
    BY Zenon, <2>1, <2>2, <2>3
<1>5. \A y \in Range(t) : Head(s) < y
  <2>1. \A i \in DOMAIN t : 1 < i + 1
    BY <1>2
  <2>2. QED
    BY ZenonT(40), <1>2, <1>3, <2>1 DEF Range, Rising
<1>6. Rising(t)
  <2>1. SUFFICES ASSUME NEW i \in DOMAIN t, NEW j \in DOMAIN t, i < j PROVE t[i] < t[j]
    BY Zenon DEF Rising
  <2>2. i + 1 < j + 1
    BY <1>2, <2>1
  <2>3. QED
    BY Zenon, <1>2, <2>2 DEF Rising
<1>7. Head(s) \in Nat
  BY Zenon, <1>2, <1>3, LinesOf
<1>8. QED
  BY Zenon, <1>1, <1>2, <1>4, <1>5, <1>6, <1>7

-----------------------------------------------------------------------------
(* What the steps of the logger do to the lines.                           *)

LEMMA LineAdded ==
  ASSUME NEW d, NEW l, NEW p, NEW c, NEW g, NEW n, LogOrdered(d, l, p, c, g, n)
  PROVE  LogOrdered(d, l, p, Append(c, n + 1), g, n + 1)
<1> USE DEF LogOrdered
<1>1. \A x \in Range(d) \cup Range(l) \cup Range(c) \cup g : x \in 1 .. n
  BY Zenon
<1>2. n + 1 \in Nat /\ \A x \in 1 .. n : x < n + 1
  OBVIOUS
<1>3. PICK a : a = Append(c, n + 1)
  BY Zenon
<1>4. a \in LineSeqs /\ Rising(a) /\ Range(a) = Range(c) \cup {n + 1}
  BY Zenon, <1>1, <1>2, <1>3, AddedLine
<1>5. Below(d, a) /\ Below(l, a)
  BY Zenon, <1>1, <1>2, <1>4 DEF Below
<1>6. Range(d) \cup Range(l) \cup Range(a) \cup g = 1 .. n + 1
  <2>1. 1 .. n + 1 = (1 .. n) \cup {n + 1}
    OBVIOUS
  <2>2. QED
    BY Zenon, <1>4, <2>1
<1>7. \A x \in g : x \notin Range(a)
  <2>1. n + 1 \notin g
    BY <1>1
  <2>2. QED
    BY Zenon, <1>4, <2>1
<1>8. QED
  BY Zenon, <1>2, <1>3, <1>4, <1>5, <1>6, <1>7

LEMMA BuffersSwapped ==
  ASSUME NEW d, NEW c, NEW g, NEW n, LogOrdered(d, <<>>, <<>>, c, g, n)
  PROVE  LogOrdered(d, c, c, <<>>, g, n)
BY Zenon, EmptyLines DEF LogOrdered

LEMMA LineWritten ==
  ASSUME NEW d, NEW l, NEW p, NEW c, NEW g, NEW n, LogOrdered(d, l, p, c, g, n), l # <<>>
  PROVE  LogOrdered(Append(d, Head(l)), Tail(l), p, c, g, n)
<1> USE DEF LogOrdered
<1>1. PICK h, t : h = Head(l) /\ t = Tail(l)
  BY Zenon
<1>2. /\ h \in Nat /\ t \in LineSeqs /\ Rising(t) /\ Range(l) = {h} \cup Range(t)
      /\ \A y \in Range(t) : h < y
  BY Zenon, <1>1, FirstLine
<1>3. PICK a : a = Append(d, h)
  BY Zenon
<1>4. a \in LineSeqs /\ Rising(a) /\ Range(a) = Range(d) \cup {h}
  BY Zenon, <1>2, <1>3, AddedLine DEF Below
<1>5. Below(a, t) /\ Below(a, c) /\ Below(t, c)
  BY Zenon, <1>2, <1>4 DEF Below
<1>6. Range(a) \cup Range(t) = Range(d) \cup Range(l)
  BY Zenon, <1>2, <1>4
<1>7. Range(t) \subseteq Range(p) /\ Range(p) \subseteq Range(a) \cup Range(t)
  BY Zenon, <1>2, <1>6
<1>8. Range(a) \cup Range(t) \cup Range(c) \cup g = 1 .. n
  BY Zenon, <1>6
<1>9. \A x \in g : x \notin Range(a) /\ x \notin Range(t)
  BY Zenon, <1>2, <1>4
<1>10. QED
  BY Zenon, <1>1, <1>2, <1>3, <1>4, <1>5, <1>7, <1>8, <1>9

LEMMA BufferWritten ==
  ASSUME NEW d, NEW p, NEW c, NEW g, NEW n, LogOrdered(d, <<>>, p, c, g, n)
  PROVE  LogOrdered(d, <<>>, <<>>, c, g, n)
BY Zenon, EmptyLines DEF LogOrdered

LEMMA BufferDropped ==
  ASSUME NEW d, NEW p, NEW c, NEW g, NEW n, LogOrdered(d, p, p, c, g, n)
  PROVE  LogOrdered(d, <<>>, <<>>, c, g \cup Range(p), n)
<1> USE DEF LogOrdered
<1>1. \A x \in Range(d) \cup Range(p) \cup Range(c) : x \in Nat
  BY Zenon, LinesOf
<1>2. \A x \in Nat : ~(x < x)
  OBVIOUS
<1>3. \A x \in Range(p) : x \notin Range(d) /\ x \notin Range(c)
  BY Zenon, <1>1, <1>2 DEF Below
<1>4. Range(d) \cup Range(<<>>) \cup Range(c) \cup (g \cup Range(p)) = 1 .. n
  BY Zenon, EmptyLines
<1>5. QED
  BY Zenon, <1>3, <1>4, EmptyLines

LEMMA CurrentWritten ==
  ASSUME NEW d, NEW c, NEW g, NEW n, LogOrdered(d, <<>>, <<>>, c, g, n)
  PROVE  LogOrdered(d \o c, <<>>, <<>>, <<>>, g, n)
<1> USE DEF LogOrdered
<1>1. PICK a : a = d \o c
  BY Zenon
<1>2. a \in LineSeqs /\ Rising(a) /\ Range(a) = Range(d) \cup Range(c)
  BY Zenon, <1>1, JoinedLines
<1>3. Range(a) \cup Range(<<>>) \cup Range(<<>>) \cup g = 1 .. n
  BY Zenon, <1>2, EmptyLines
<1>4. QED
  BY Zenon, <1>1, <1>2, <1>3, EmptyLines

-----------------------------------------------------------------------------
(* What the operators of the logger do to its record.                      *)

LogFields ==
  {"buf", "offset", "curr", "run", "fp", "last", "nextid", "files", "pc", "due", "signal",
   "left", "currsize", "call", "logs", "fails", "ended", "crashed", "lines", "disk", "gone"}

LogPcs == {"top", "wait", "inner", "stopped", "blocked", "open", "write"}

LogShaped(r) ==
  /\ r = [f \in LogFields |-> r[f]]
  /\ r.buf \in [{1, 2} -> LineSeqs] /\ r.curr \in {1, 2} /\ r.pc \in LogPcs
  /\ r.call = [t \in LogThreads \cup {Stopper} |-> r.call[t]]

CurrentOf(r) == r.buf[r.curr]
PendingOf(r) == r.buf[Other(r.curr)]

\* The lines of the pending buffer that are yet to be written.
LeftOf(r) == IF r.pc = "write" THEN r.left ELSE PendingOf(r)

LogHolds(r) ==
  /\ LogShaped(r)
  /\ LogOrdered(r.disk, LeftOf(r), PendingOf(r), CurrentOf(r), r.gone, r.lines)
  /\ r.pc \notin {"open", "write"} => PendingOf(r) = <<>>
  /\ r.fp = -1 => LeftOf(r) = PendingOf(r)

\* Nothing is added to the buffers of a logger that has been stopped.
LogEnds(r) ==
  /\ r.call[Stopper].stage # "idle" => r.ended
  /\ r.ended => \A t \in LogThreads : r.call[t].stage = "idle"
  /\ ~r.run => r.ended /\ r.call[Stopper].stage \in {"join", "done"}
  /\ r.pc = "stopped" => ~r.run /\ CurrentOf(r) = <<>> /\ PendingOf(r) = <<>>

LoggerIInv ==
  /\ lg = [f \in LogFields |-> lg[f]]
  /\ ~lg.crashed => LogHolds(lg) /\ LogEnds(lg)

LEMMA OtherBuffer ==
  /\ Other(1) = 2 /\ Other(2) = 1
  /\ \A i \in {1, 2} : Other(i) \in {1, 2} /\ Other(i) # i /\ Other(Other(i)) = i
BY DEF Other

\* The fields that LogHolds depends on.
SameLines(r, s) ==
  /\ s = [f \in LogFields |-> s[f]] /\ s.call = [t \in LogThreads \cup {Stopper} |-> s.call[t]]
  /\ s.buf = r.buf /\ s.curr = r.curr /\ s.pc = r.pc /\ s.left = r.left /\ s.fp = r.fp
  /\ s.disk = r.disk /\ s.gone = r.gone /\ s.lines = r.lines

LEMMA SameLinesKeep ==
  ASSUME NEW r, NEW s, LogHolds(r), SameLines(r, s)
  PROVE  LogHolds(s)
BY Zenon DEF LogHolds, LogShaped, SameLines, LeftOf, PendingOf, CurrentOf

\* do_add_log_entry
Adds(r, s) ==
  /\ s = [f \in LogFields |-> s[f]] /\ s.call = r.call /\ s.run = r.run /\ s.ended = r.ended
  /\ s.crashed = r.crashed /\ s.last = r.last
  /\ s.buf = [r.buf EXCEPT ![r.curr] = Append(@, r.lines + 1)]
  /\ s.lines = r.lines + 1
  /\ s.curr = r.curr /\ s.pc = r.pc /\ s.left = r.left /\ s.fp = r.fp
  /\ s.disk = r.disk /\ s.gone = r.gone

LEMMA EntryAdds ==
  ASSUME NEW r, LogShaped(r), NEW text
  PROVE  Adds(r, do_add_log_entry(r, text))
BY ZenonT(40) DEF LogShaped, LogFields, do_add_log_entry, Adds

LEMMA AddsKeep ==
  ASSUME NEW r, NEW s, LogHolds(r), Adds(r, s)
  PROVE  LogHolds(s) /\ PendingOf(s) = PendingOf(r)
<1>1. Other(r.curr) \in {1, 2} /\ Other(r.curr) # r.curr
  BY Zenon, OtherBuffer DEF LogHolds, LogShaped
<1>2. r.buf \in [{1, 2} -> LineSeqs] /\ r.curr \in {1, 2}
  BY Zenon DEF LogHolds, LogShaped
<1>3. PendingOf(s) = PendingOf(r) /\ CurrentOf(s) = Append(CurrentOf(r), r.lines + 1)
  BY Zenon, <1>1, <1>2 DEF Adds, PendingOf, CurrentOf
<1>4. LeftOf(s) = LeftOf(r)
  BY Zenon, <1>3 DEF Adds, LeftOf
<1>5. LogOrdered(s.disk, LeftOf(s), PendingOf(s), CurrentOf(s), s.gone, s.lines)
  <2>1. LogOrdered(r.disk, LeftOf(r), PendingOf(r), CurrentOf(r), r.gone, r.lines)
    BY Zenon DEF LogHolds
  <2>2. LogOrdered(r.disk, LeftOf(r), PendingOf(r), Append(CurrentOf(r), r.lines + 1), r.gone,
                   r.lines + 1)
    BY Zenon, <2>1, LineAdded
  <2>3. QED
    BY Zenon, <1>3, <1>4, <2>2 DEF Adds
<1>6. Append(CurrentOf(r), r.lines + 1) \in LineSeqs
  BY Zenon, <1>3, <1>5 DEF LogOrdered
<1>7. s.buf \in [{1, 2} -> LineSeqs]
  BY ZenonT(40), <1>2, <1>6 DEF Adds, CurrentOf
<1>8. QED
  BY Zenon, <1>3, <1>4, <1>5, <1>7 DEF Adds, LogHolds, LogShaped

-----------------------------------------------------------------------------
(* The threads that log.                                                   *)

LogCallers == LogThreads \cup {Stopper}

\* What a step of thread t does that adds lines or waits for space.
AddingStep(r, s, t) ==
  /\ LogHolds(s) /\ s.pc = r.pc /\ s.crashed = r.crashed /\ s.ended = r.ended
  /\ \A u \in LogCallers : u # t => s.call[u] = r.call[u]
  /\ s.run = r.run \/ (t = Stopper /\ s.call[Stopper].stage = "join")

LEMMA WaitStep ==
  ASSUME NEW r, LogHolds(r), NEW t \in LogCallers, NEW stage, NEW text, NEW n
  PROVE  AddingStep(r, WaitForSpace(r, t, stage, text, n), t)
<1>1. PICK s : s = WaitForSpace(r, t, stage, text, n)
  BY Zenon
<1>2. LogShaped(r)
  BY Zenon DEF LogHolds
<1>3. SameLines(r, s)
  BY Zenon, <1>1, <1>2 DEF SameLines, WaitForSpace, LogShaped, LogFields, LogCallers
<1>4. /\ s.crashed = r.crashed /\ s.ended = r.ended /\ s.run = r.run
      /\ \A u \in LogCallers : u # t => s.call[u] = r.call[u]
  BY Zenon, <1>1, <1>2 DEF WaitForSpace, LogShaped, LogFields, LogCallers
<1>5. QED
  BY Zenon, <1>1, <1>3, <1>4, SameLinesKeep DEF AddingStep, SameLines

LEMMA EntryStep ==
  ASSUME NEW r, LogHolds(r), NEW t \in LogCallers, NEW text
  PROVE  AddingStep(r, AddEntry(r, t, text), t)
<1>1. CASE ~Room(r, text)
  BY Zenon, <1>1, WaitStep DEF AddEntry
<1>2. CASE Room(r, text)
  <2>1. PICK a : a = do_add_log_entry(r, text)
    BY Zenon
  <2>2. Adds(r, a) /\ LogHolds(a)
    BY Zenon, <2>1, EntryAdds, AddsKeep DEF LogHolds
  <2>3. PICK s : s = [a EXCEPT !.last = LastLog(r, text), !.call[t] = Call("idle", NoText, 0)]
    BY Zenon
  <2>4. LogShaped(a)
    BY Zenon, <2>2 DEF LogHolds
  <2>5. /\ SameLines(a, s) /\ s.crashed = a.crashed /\ s.ended = a.ended /\ s.run = a.run
        /\ \A u \in LogCallers : u # t => s.call[u] = a.call[u]
    BY Zenon, <2>3, <2>4 DEF SameLines, LogShaped, LogFields, LogCallers
  <2>6. AddEntry(r, t, text) = s
    BY Zenon, <1>2, <2>1, <2>3 DEF AddEntry
  <2>7. QED
    BY ZenonT(40), <2>2, <2>5, <2>6, SameLinesKeep DEF AddingStep, SameLines, Adds
<1>3. QED
  BY Zenon, <1>1, <1>2

LEMMA StopStep ==
  ASSUME NEW r, LogHolds(r)
  PROVE  AddingStep(r, Stop(r), Stopper)
<1>1. PICK s : s = Stop(r)
  BY Zenon
<1>2. LogShaped(r)
  BY Zenon DEF LogHolds
<1>3. SameLines(r, s)
  BY Zenon, <1>1, <1>2 DEF SameLines, Stop, LogShaped, LogFields
<1>4. /\ s.crashed = r.crashed /\ s.ended = r.ended
      /\ \A u \in LogCallers : u # Stopper => s.call[u] = r.call[u]
      /\ s.call[Stopper].stage = "join"
  BY Zenon, <1>1, <1>2 DEF Stop, LogShaped, LogFields, LogCallers, Call
<1>5. QED
  BY Zenon, <1>1, <1>3, <1>4, SameLinesKeep DEF AddingStep, SameLines

LEMMA ProceedStep ==
  ASSUME NEW r, LogHolds(r), NEW t \in LogCallers, NEW text
  PROVE  AddingStep(r, Proceed(r, t, text), t)
BY Zenon, EntryStep, StopStep DEF Proceed

LEMMA FlushedKeeps ==
  ASSUME NEW r, LogHolds(r), NEW text, NEW s, s = LastLogFlushed(do_add_log_entry(r, text))
  PROVE  /\ LogHolds(s) /\ s.pc = r.pc /\ s.crashed = r.crashed /\ s.ended = r.ended
         /\ s.call = r.call /\ s.run = r.run /\ PendingOf(s) = PendingOf(r)
<1>1. PICK a : a = do_add_log_entry(r, text)
  BY Zenon
<1>2. Adds(r, a) /\ LogHolds(a) /\ LogShaped(a) /\ PendingOf(a) = PendingOf(r)
  BY Zenon, <1>1, EntryAdds, AddsKeep DEF LogHolds
<1>3. /\ SameLines(a, s) /\ s.crashed = a.crashed /\ s.ended = a.ended /\ s.run = a.run
      /\ s.call = a.call
  BY Zenon, <1>1, <1>2 DEF SameLines, LastLogFlushed, LogShaped, LogFields
<1>4. QED
  BY Zenon, <1>2, <1>3, SameLinesKeep DEF Adds, SameLines, PendingOf

LEMMA RepeatedStep ==
  ASSUME NEW r, LogHolds(r), NEW t \in LogCallers, NEW text, NEW n
  PROVE  AddingStep(r, AddRepeated(r, t, text, n), t)
<1>1. CASE ~Room(r, Repeated)
  BY Zenon, <1>1, WaitStep DEF AddRepeated
<1>2. CASE Room(r, Repeated)
  <2>1. PICK a : a = LastLogFlushed(do_add_log_entry(r, Repeated))
    BY Zenon
  <2>2. /\ LogHolds(a) /\ a.pc = r.pc /\ a.crashed = r.crashed /\ a.ended = r.ended
        /\ a.call = r.call /\ a.run = r.run
    BY Zenon, <2>1, FlushedKeeps
  <2>3. AddRepeated(r, t, text, n) = Proceed(a, t, text)
    BY Zenon, <1>2, <2>1 DEF AddRepeated
  <2>4. AddingStep(a, Proceed(a, t, text), t)
    BY Zenon, <2>2, ProceedStep
  <2>5. QED
    BY Zenon, <2>2, <2>3, <2>4 DEF AddingStep
<1>3. QED
  BY Zenon, <1>1, <1>2

LEMMA FlushStep ==
  ASSUME NEW r, LogHolds(r), NEW t \in LogCallers, NEW text
  PROVE  AddingStep(r, flush_last_log(r, t, text), t)
BY Zenon, RepeatedStep, ProceedStep DEF flush_last_log

LEMMA AddLogStep ==
  ASSUME NEW r, LogHolds(r), NEW t \in LogCallers, NEW text
  PROVE  AddingStep(r, add_log_entry(r, t, text), t)
<1>1. CASE r.last.text # text
  BY Zenon, <1>1, FlushStep DEF add_log_entry
<1>2. CASE r.last.text = text
  <2>1. PICK s : s = [r EXCEPT !.last.count = @ + 1]
    BY Zenon
  <2>2. LogShaped(r)
    BY Zenon DEF LogHolds
  <2>3. /\ SameLines(r, s) /\ s.crashed = r.crashed /\ s.ended = r.ended /\ s.run = r.run
        /\ s.call = r.call
    BY Zenon, <2>1, <2>2 DEF SameLines, LogShaped, LogFields
  <2>4. add_log_entry(r, t, text) = s
    BY Zenon, <1>2, <2>1 DEF add_log_entry
  <2>5. QED
    BY Zenon, <2>3, <2>4, SameLinesKeep DEF AddingStep, SameLines
<1>3. QED
  BY Zenon, <1>1, <1>2

\* While the logger runs, a step that adds lines keeps what is known of its end.
LEMMA AddingEnds ==
  ASSUME NEW r, NEW s, NEW t \in LogCallers, LogEnds(r), AddingStep(r, s, t),
         r.run, r.ended => t = Stopper, t = Stopper => r.ended
  PROVE  LogEnds(s)
BY Zenon, LoggerAssumption DEF LogEnds, AddingStep, LogCallers

-----------------------------------------------------------------------------
(* The logger thread.                                                      *)

\* A step of the logger thread from r to s.
ThreadStep(r, s) ==
  LogHolds(s) /\ LogEnds(s) /\ s = [f \in LogFields |-> s[f]] /\ s.crashed = r.crashed

\* Between two rounds of the thread the pending buffer is empty.
LogResting == {"top", "wait", "inner", "blocked"}

LEMMA Moves ==
  ASSUME NEW r, NEW s, LogHolds(r), LogEnds(r), r.pc \in LogResting, s.pc \in LogResting,
         s = [f \in LogFields |-> s[f]], s.call = r.call, s.run = r.run, s.ended = r.ended,
         s.crashed = r.crashed,
         s.buf = r.buf, s.curr = r.curr, s.left = r.left, s.fp = r.fp,
         s.disk = r.disk, s.gone = r.gone, s.lines = r.lines
  PROVE  ThreadStep(r, s)
<1>1. PendingOf(s) = PendingOf(r) /\ CurrentOf(s) = CurrentOf(r)
  BY Zenon DEF PendingOf, CurrentOf
<1>2. LeftOf(r) = PendingOf(r) /\ LeftOf(s) = PendingOf(s)
  BY Zenon DEF LeftOf, LogResting
<1>3. PendingOf(r) = <<>>
  BY Zenon DEF LogHolds, LogResting
<1>4. LogHolds(s)
  BY Zenon, <1>1, <1>2, <1>3 DEF LogHolds, LogShaped, LogResting, LogPcs
<1>5. LogEnds(s)
  BY Zenon DEF LogEnds, LogResting
<1>6. QED
  BY Zenon, <1>4, <1>5 DEF ThreadStep

LEMMA FlipStep ==
  ASSUME NEW r, LogHolds(r), LogEnds(r), r.pc \in LogResting
  PROVE  ThreadStep(r, Flip(r))
<1>1. PICK s : s = Flip(r)
  BY Zenon
<1>2. LogShaped(r) /\ PendingOf(r) = <<>> /\ LeftOf(r) = PendingOf(r)
  BY Zenon DEF LogHolds, LogResting, LeftOf
<1>3. /\ s = [f \in LogFields |-> s[f]] /\ s.run = r.run /\ s.ended = r.ended
      /\ s.crashed = r.crashed /\ s.buf = r.buf /\ s.curr = Other(r.curr) /\ s.pc = "open"
      /\ s.fp = r.fp /\ s.disk = r.disk /\ s.gone = r.gone /\ s.lines = r.lines
      /\ s.call = [t \in DOMAIN r.call |-> Woken(r.call[t])]
  BY Zenon, <1>1, <1>2 DEF Flip, BroadcastSpace, LogShaped, LogFields
<1>4. PICK o : o = Other(r.curr)
  BY Zenon
<1>5. o \in {1, 2} /\ Other(o) = r.curr
  BY Zenon, <1>2, <1>4, OtherBuffer DEF LogShaped
<1>6. PendingOf(s) = CurrentOf(r) /\ CurrentOf(s) = <<>> /\ LeftOf(s) = PendingOf(s)
  BY Zenon, <1>2, <1>3, <1>4, <1>5 DEF PendingOf, CurrentOf, LeftOf
<1>7. LogOrdered(s.disk, LeftOf(s), PendingOf(s), CurrentOf(s), s.gone, s.lines)
  <2>1. LogOrdered(r.disk, <<>>, <<>>, CurrentOf(r), r.gone, r.lines)
    BY Zenon, <1>2 DEF LogHolds
  <2>2. LogOrdered(r.disk, CurrentOf(r), CurrentOf(r), <<>>, r.gone, r.lines)
    BY Zenon, <2>1, BuffersSwapped
  <2>3. QED
    BY Zenon, <1>3, <1>6, <2>2
<1>8. DOMAIN r.call = LogThreads \cup {Stopper}
  BY Zenon, <1>2 DEF LogShaped
<1>9. LogHolds(s)
  BY Zenon, <1>2, <1>3, <1>4, <1>5, <1>6, <1>7, <1>8 DEF LogHolds, LogShaped, LogPcs
<1>10. \A t \in LogThreads \cup {Stopper} :
         /\ s.call[t].stage = "idle" <=> r.call[t].stage = "idle"
         /\ r.call[t].stage \in {"join", "done"} =>
                            s.call[t].stage \in {"join", "done"}
  <2> SUFFICES ASSUME NEW t \in LogThreads \cup {Stopper}
               PROVE  /\ s.call[t].stage = "idle" <=> r.call[t].stage = "idle"
                      /\ r.call[t].stage \in {"join", "done"} =>
                            s.call[t].stage \in {"join", "done"}
    BY Zenon
  <2>1. PICK c : c = r.call[t]
    BY Zenon
  <2>2. s.call[t] = Woken(c)
    BY Zenon, <1>3, <1>8, <2>1
  <2>3. c.stage \notin {"repeated", "entry"} => Woken(c) = c
    BY Zenon DEF Woken
  <2>4. c.stage \in {"repeated", "entry"} => Woken(c).stage \in {"repeated!", "entry!"}
    BY DEF Woken
  <2>5. QED
    BY Zenon, <2>1, <2>2, <2>3, <2>4
<1>11. LogEnds(s)
  BY Zenon, <1>3, <1>10 DEF LogEnds
<1>12. QED
  BY Zenon, <1>1, <1>3, <1>9, <1>11 DEF ThreadStep

LEMMA PcMoves ==
  ASSUME NEW r, LogHolds(r), LogEnds(r), r.pc \in LogResting, NEW p \in LogResting
  PROVE  ThreadStep(r, [r EXCEPT !.pc = p])
<1>1. LogShaped(r)
  BY Zenon DEF LogHolds
<1>2. PICK s : s = [r EXCEPT !.pc = p]
  BY Zenon
<1>3. /\ s = [f \in LogFields |-> s[f]] /\ s.call = r.call /\ s.run = r.run
      /\ s.ended = r.ended /\ s.crashed = r.crashed /\ s.pc = p
      /\ s.buf = r.buf /\ s.curr = r.curr /\ s.left = r.left /\ s.fp = r.fp
      /\ s.disk = r.disk /\ s.gone = r.gone /\ s.lines = r.lines
  BY Zenon, <1>1, <1>2 DEF LogShaped, LogFields
<1>4. QED
  BY Zenon, <1>2, <1>3, Moves

LEMMA TimebasedStep ==
  ASSUME NEW r, LogHolds(r), LogEnds(r), r.pc \in LogResting
  PROVE  ThreadStep(r, Timebased(r))
<1>1. CASE \E p \in LogResting : Timebased(r) = [r EXCEPT !.pc = p]
  BY Zenon, <1>1, PcMoves
<1>2. CASE Timebased(r) = [LastLogFlushed(do_add_log_entry(r, Repeated)) EXCEPT !.pc = "wait"]
  <2>1. PICK a : a = LastLogFlushed(do_add_log_entry(r, Repeated))
    BY Zenon
  <2>2. /\ LogHolds(a) /\ a.pc = r.pc /\ a.crashed = r.crashed /\ a.ended = r.ended
        /\ a.call = r.call /\ a.run = r.run
    BY ZenonT(40), <2>1, FlushedKeeps
  <2>3. LogEnds(a)
    BY Zenon, <2>2 DEF LogEnds, LogResting
  <2>4. ThreadStep(a, [a EXCEPT !.pc = "wait"])
    BY Zenon, <2>2, <2>3, PcMoves DEF LogResting
  <2>5. QED
    BY Zenon, <1>2, <2>1, <2>2, <2>4 DEF ThreadStep
<1>3. QED
  BY Zenon, <1>1, <1>2 DEF Timebased, LogResting

LEMMA InnerStep ==
  ASSUME NEW r, LogHolds(r), LogEnds(r), r.pc \in LogResting, NEW s \in Inner(r)
  PROVE  ThreadStep(r, s)
BY Zenon, FlipStep, TimebasedStep, PcMoves DEF Inner, LogResting

\* Whether a file is opened or not, the lines stay where they are.
OnlyFiles(r, s) ==
  /\ s = [f \in LogFields |-> s[f]] /\ s.call = r.call /\ s.run = r.run
  /\ s.ended = r.ended /\ s.crashed = r.crashed /\ s.pc = r.pc
  /\ s.buf = r.buf /\ s.curr = r.curr /\ s.left = r.left
  /\ s.disk = r.disk /\ s.gone = r.gone /\ s.lines = r.lines

LEMMA OpensFile ==
  ASSUME NEW r, LogShaped(r), NEW s \in open_logfile(r)
  PROVE  OnlyFiles(r, s)
<1>1. CASE s = [r EXCEPT !.fails = @ + 1, !.fp = -1]
  BY Zenon, <1>1 DEF OnlyFiles, LogShaped, LogFields
<1>2. ASSUME NEW id, s = [Opened(r, id) EXCEPT !.files = @ \cup {id}]
      PROVE  OnlyFiles(r, s)
  BY Zenon, <1>2 DEF OnlyFiles, Opened, LogShaped, LogFields
<1>3. QED
  BY Zenon, <1>1, <1>2 DEF open_logfile

LEMMA OpensStep ==
  ASSUME NEW r, LogHolds(r), LogEnds(r), r.pc \in LogResting \cup {"open"},
         NEW s \in open_logfile(r)
  PROVE  ThreadStep(r, s) /\ s.pc = r.pc
<1>1. LogShaped(r)
  BY Zenon DEF LogHolds
<1>2. OnlyFiles(r, s)
  BY Zenon, <1>1, OpensFile
<1>3. /\ PendingOf(s) = PendingOf(r) /\ CurrentOf(s) = CurrentOf(r)
      /\ LeftOf(s) = PendingOf(s) /\ LeftOf(r) = PendingOf(r)
  BY Zenon, <1>2 DEF OnlyFiles, PendingOf, CurrentOf, LeftOf, LogResting
<1>4. LogHolds(s)
  BY Zenon, <1>2, <1>3 DEF OnlyFiles, LogHolds, LogShaped
<1>5. LogEnds(s)
  BY Zenon, <1>2, <1>3 DEF OnlyFiles, LogEnds
<1>6. QED
  BY Zenon, <1>2, <1>4, <1>5 DEF OnlyFiles, ThreadStep

\* Both buffers have been emptied.
Emptied(r, s) ==
  /\ s = [f \in LogFields |-> s[f]] /\ s.call = r.call /\ s.run = r.run
  /\ s.ended = r.ended /\ s.crashed = r.crashed
  /\ s.curr \in {1, 2} /\ s.buf \in [{1, 2} -> LineSeqs]
  /\ CurrentOf(s) = <<>> /\ PendingOf(s) = <<>>
  /\ LogOrdered(s.disk, <<>>, <<>>, <<>>, s.gone, s.lines)

\* The buffers are written one after the other (flush_all_buffers_to_file).
LEMMA AllWritten ==
  ASSUME NEW r, LogHolds(r), r.pc = "top", NEW s, s = flush_all_buffers_to_file(r)
  PROVE  Emptied(r, s)
<1>1. /\ LogShaped(r) /\ PendingOf(r) = <<>>
      /\ LogOrdered(r.disk, <<>>, <<>>, CurrentOf(r), r.gone, r.lines)
  BY Zenon DEF LogHolds, LeftOf
<1>2. CASE CurrentOf(r) = <<>>
  <2>1. FlushedOnce(r) = r
    BY Zenon, <1>2 DEF FlushedOnce, CurrentOf
  <2>2. s = r
    BY Zenon, <2>1 DEF flush_all_buffers_to_file
  <2>3. QED
    BY Zenon, <1>1, <1>2, <2>2 DEF LogShaped, Emptied
<1>3. CASE CurrentOf(r) # <<>>
  <2>1. PICK a : a = FlushedOnce(r)
    BY Zenon
  <2>2. a = FlushedCurrent(r)
    BY Zenon, <1>3, <2>1 DEF FlushedOnce, CurrentOf
  <2>3. /\ a = [f \in LogFields |-> a[f]] /\ a.call = r.call /\ a.run = r.run
        /\ a.ended = r.ended /\ a.crashed = r.crashed
        /\ a.disk = r.disk \o CurrentOf(r) /\ a.gone = r.gone /\ a.lines = r.lines
        /\ a.buf = [r.buf EXCEPT ![r.curr] = <<>>] /\ a.curr = Other(r.curr)
    BY Zenon, <1>1, <2>2 DEF FlushedCurrent, LogShaped, LogFields, CurrentOf
  <2>4. PICK o : o = Other(r.curr)
    BY Zenon
  <2>5. o \in {1, 2} /\ o # r.curr /\ Other(o) = r.curr
    BY Zenon, <1>1, <2>4, OtherBuffer DEF LogShaped
  <2>6. CurrentOf(a) = <<>> /\ PendingOf(a) = <<>>
    BY ZenonT(40), <1>1, <2>3, <2>4, <2>5 DEF CurrentOf, PendingOf, LogShaped
  <2>7. s = a
    BY Zenon, <2>1, <2>6 DEF flush_all_buffers_to_file, FlushedOnce, CurrentOf
  <2>8. LogOrdered(a.disk, <<>>, <<>>, <<>>, a.gone, a.lines)
    <3>1. LogOrdered(r.disk \o CurrentOf(r), <<>>, <<>>, <<>>, r.gone, r.lines)
      BY Zenon, <1>1, CurrentWritten
    <3>2. QED
      BY Zenon, <2>3, <3>1
  <2>9. a.buf \in [{1, 2} -> LineSeqs]
    BY ZenonT(40), <1>1, <2>3, EmptyLines DEF LogShaped
  <2>10. QED
    BY Zenon, <2>3, <2>4, <2>5, <2>6, <2>7, <2>8, <2>9 DEF Emptied
<1>4. QED
  BY Zenon, <1>2, <1>3

LEMMA EndedStep ==
  ASSUME NEW r, LogHolds(r), LogEnds(r), r.pc = "top", ~r.run, NEW s \in Ended(r)
  PROVE  ThreadStep(r, s)
<1>1. PICK a : /\ a = r \/ a \in open_logfile(r)
               /\ s = [(IF a.fp # -1 THEN flush_all_buffers_to_file(a) ELSE Discarded(a))
                         EXCEPT !.pc = "stopped"]
  BY Zenon DEF Ended
<1>2. LogHolds(a) /\ LogEnds(a) /\ a.pc = "top" /\ a.crashed = r.crashed
  BY Zenon, <1>1, OpensStep DEF ThreadStep, LogResting
<1>3. ~a.run
  <2>1. CASE a \in open_logfile(r)
    BY Zenon, <2>1, OpensFile DEF LogHolds, OnlyFiles
  <2>2. QED
    BY Zenon, <1>1, <2>1
<1>4. PICK b : b = IF a.fp # -1 THEN flush_all_buffers_to_file(a) ELSE Discarded(a)
  BY Zenon
<1>5. Emptied(a, b)
  <2>1. CASE a.fp # -1
    <3>1. b = flush_all_buffers_to_file(a)
      BY Zenon, <1>4, <2>1
    <3>2. QED
      BY Zenon, <1>2, <3>1, AllWritten
  <2>2. CASE a.fp = -1
    <3>1. b = Discarded(a)
      BY Zenon, <1>4, <2>2
    <3>2. LogShaped(a) /\ PendingOf(a) = <<>>
      BY Zenon, <1>2 DEF LogHolds
    <3>3. /\ b = [f \in LogFields |-> b[f]] /\ b.call = a.call /\ b.run = a.run
          /\ b.ended = a.ended /\ b.crashed = a.crashed
          /\ b.curr = a.curr /\ b.buf = <<<<>>, <<>>>>
          /\ b.disk = a.disk /\ b.lines = a.lines
          /\ b.gone = a.gone \cup Range(a.buf[1]) \cup Range(a.buf[2])
      BY Zenon, <3>1, <3>2 DEF Discarded, LogShaped, LogFields
    <3>4. b.buf \in [{1, 2} -> LineSeqs] /\ b.buf[1] = <<>> /\ b.buf[2] = <<>>
      BY Zenon, <3>3, BothEmpty
    <3>5. a.curr \in {1, 2} /\ Other(1) = 2 /\ Other(2) = 1
      BY Zenon, <3>2, OtherBuffer DEF LogShaped
    <3>6. CurrentOf(b) = <<>> /\ PendingOf(b) = <<>>
      BY ZenonT(40), <3>3, <3>4, <3>5 DEF CurrentOf, PendingOf
    <3>7. b.gone = a.gone \cup Range(CurrentOf(a))
      <4>1. CASE a.curr = 1
        BY Zenon, <3>2, <3>3, <3>5, <4>1, EmptyLines DEF CurrentOf, PendingOf
      <4>2. CASE a.curr = 2
        BY Zenon, <3>2, <3>3, <3>5, <4>2, EmptyLines DEF CurrentOf, PendingOf
      <4>3. QED
        BY Zenon, <3>5, <4>1, <4>2
    <3>8. LogOrdered(a.disk, <<>>, <<>>, CurrentOf(a), a.gone, a.lines)
      BY Zenon, <1>2, <3>2 DEF LogHolds, LeftOf
    <3>9. LogOrdered(a.disk, <<>>, <<>>, <<>>, a.gone \cup Range(CurrentOf(a)), a.lines)
      BY Zenon, <3>8, BuffersSwapped, BufferDropped
    <3>10. QED
      BY Zenon, <3>3, <3>4, <3>5, <3>6, <3>7, <3>9 DEF Emptied
  <2>3. QED
    BY Zenon, <2>1, <2>2
<1>6. /\ s = [f \in LogFields |-> s[f]] /\ s.call = b.call /\ s.run = b.run
      /\ s.ended = b.ended /\ s.crashed = b.crashed /\ s.pc = "stopped"
      /\ s.curr = b.curr /\ s.buf = b.buf
      /\ s.disk = b.disk /\ s.gone = b.gone /\ s.lines = b.lines
  <2>1. s = [b EXCEPT !.pc = "stopped"]
    BY Zenon, <1>1, <1>4
  <2>2. QED
    BY Zenon, <1>5, <2>1 DEF Emptied, LogFields
<1>7. CurrentOf(s) = <<>> /\ PendingOf(s) = <<>> /\ LeftOf(s) = <<>>
  BY Zenon, <1>5, <1>6 DEF Emptied, CurrentOf, PendingOf, LeftOf
<1>8. a.call = [t \in LogThreads \cup {Stopper} |-> a.call[t]]
  BY Zenon, <1>2 DEF LogHolds, LogShaped
<1>9. LogHolds(s)
  BY Zenon, <1>5, <1>6, <1>7, <1>8 DEF Emptied, LogHolds, LogShaped, LogPcs
<1>10. LogEnds(s)
  <2>1. ~s.run /\ s.ended = a.ended /\ s.call = a.call
    BY Zenon, <1>3, <1>5, <1>6 DEF Emptied
  <2>2. QED
    BY Zenon, <1>2, <1>3, <1>7, <2>1 DEF LogEnds
<1>11. QED
  BY Zenon, <1>2, <1>5, <1>6, <1>9, <1>10 DEF Emptied, ThreadStep

-----------------------------------------------------------------------------
(* The actions.                                                            *)

LEMMA WakesStep ==
  ASSUME LogHolds(lg), LogEnds(lg), LoggerWakes
  PROVE  ThreadStep(lg, lg')
<1>1. LogShaped(lg) /\ lg.pc = "wait"
  BY Zenon DEF LogHolds, LoggerWakes
<1>2. /\ lg' = [f \in LogFields |-> lg'[f]] /\ lg'.call = lg.call /\ lg'.run = lg.run
      /\ lg'.ended = lg.ended /\ lg'.crashed = lg.crashed /\ lg'.pc = "top"
      /\ lg'.buf = lg.buf /\ lg'.curr = lg.curr /\ lg'.left = lg.left /\ lg'.fp = lg.fp
      /\ lg'.disk = lg.disk /\ lg'.gone = lg.gone /\ lg'.lines = lg.lines
  <2>1. PICK due : lg' = [lg EXCEPT !.pc = "top", !.signal = FALSE, !.due = due]
    <3>1. [lg EXCEPT !.pc = "top", !.signal = FALSE] =
            [lg EXCEPT !.pc = "top", !.signal = FALSE, !.due = lg.due]
      BY Zenon, <1>1 DEF LogShaped, LogFields
    <3>2. QED
      BY Zenon, <3>1 DEF LoggerWakes
  <2>2. QED
    BY Zenon, <1>1, <2>1 DEF LogShaped, LogFields
<1>3. QED
  BY Zenon, <1>1, <1>2, Moves DEF LogResting

LEMMA LoggerOpensStep ==
  ASSUME LogHolds(lg), LogEnds(lg), LoggerOpens
  PROVE  ThreadStep(lg, lg')
<1>1. lg.pc = "open"
  BY Zenon DEF LoggerOpens
<1>2. PICK a : /\ a = lg \/ a \in open_logfile(lg)
               /\ lg' = [a EXCEPT !.pc = "write", !.left = a.buf[PendingBuffer(a)]]
  BY Zenon DEF LoggerOpens
<1>3. LogHolds(a) /\ LogEnds(a) /\ a.pc = "open" /\ a.crashed = lg.crashed /\ LogShaped(a)
  BY Zenon, <1>1, <1>2, OpensStep DEF ThreadStep, LogHolds
<1>4. /\ lg' = [f \in LogFields |-> lg'[f]] /\ lg'.call = a.call /\ lg'.run = a.run
      /\ lg'.ended = a.ended /\ lg'.crashed = a.crashed /\ lg'.pc = "write"
      /\ lg'.buf = a.buf /\ lg'.curr = a.curr /\ lg'.left = PendingOf(a)
      /\ lg'.disk = a.disk /\ lg'.gone = a.gone /\ lg'.lines = a.lines
  BY Zenon, <1>2, <1>3 DEF LogShaped, LogFields, PendingOf, PendingBuffer
<1>5. /\ PendingOf(lg') = PendingOf(a) /\ CurrentOf(lg') = CurrentOf(a)
      /\ LeftOf(a) = PendingOf(a) /\ LeftOf(lg') = PendingOf(lg')
  BY Zenon, <1>3, <1>4 DEF PendingOf, CurrentOf, LeftOf
<1>6. LogHolds(lg')
  BY Zenon, <1>3, <1>4, <1>5 DEF LogHolds, LogShaped, LogPcs
<1>7. LogEnds(lg')
  BY ZenonT(40), <1>3, <1>4 DEF LogEnds
<1>8. QED
  BY Zenon, <1>3, <1>4, <1>6, <1>7 DEF ThreadStep

LEMMA WritesStep ==
  ASSUME LogHolds(lg), LogEnds(lg), LoggerWrites
  PROVE  ThreadStep(lg, lg')
<1>1. LogShaped(lg) /\ lg.pc = "write" /\ lg.left # <<>> /\ lg.fp # -1
  BY Zenon DEF LogHolds, LoggerWrites
<1>2. /\ lg' = [f \in LogFields |-> lg'[f]] /\ lg'.call = lg.call /\ lg'.run = lg.run
      /\ lg'.ended = lg.ended /\ lg'.crashed = lg.crashed /\ lg'.pc = "write"
      /\ lg'.buf = lg.buf /\ lg'.curr = lg.curr /\ lg'.left = Tail(lg.left) /\ lg'.fp = lg.fp
      /\ lg'.disk = Append(lg.disk, Head(lg.left)) /\ lg'.gone = lg.gone /\ lg'.lines = lg.lines
  BY Zenon, <1>1 DEF LoggerWrites, LogShaped, LogFields
<1>3. /\ PendingOf(lg') = PendingOf(lg) /\ CurrentOf(lg') = CurrentOf(lg)
      /\ LeftOf(lg) = lg.left /\ LeftOf(lg') = Tail(lg.left)
  BY Zenon, <1>1, <1>2 DEF PendingOf, CurrentOf, LeftOf
<1>4. LogOrdered(Append(lg.disk, Head(lg.left)), Tail(lg.left), PendingOf(lg), CurrentOf(lg),
                 lg.gone, lg.lines)
  BY Zenon, <1>1, <1>3, LineWritten DEF LogHolds
<1>5. LogHolds(lg')
  BY Zenon, <1>1, <1>2, <1>3, <1>4 DEF LogHolds, LogShaped
<1>6. LogEnds(lg')
  BY Zenon, <1>1, <1>2 DEF LogEnds
<1>7. QED
  BY Zenon, <1>2, <1>5, <1>6 DEF ThreadStep

LEMMA FlushedStep ==
  ASSUME LogHolds(lg), LogEnds(lg), LoggerFlushed
  PROVE  ThreadStep(lg, lg')
<1>1. LogShaped(lg) /\ lg.pc = "write" /\ (lg.left = <<>> \/ lg.fp = -1)
  BY Zenon DEF LogHolds, LoggerFlushed
<1>2. PICK p : p = PendingBuffer(lg)
  BY Zenon
<1>3. p \in {1, 2} /\ p # lg.curr /\ PendingOf(lg) = lg.buf[p] /\ p = Other(lg.curr)
  BY Zenon, <1>1, <1>2, OtherBuffer DEF LogShaped, PendingBuffer, PendingOf
<1>4. PICK r : r = [lg EXCEPT !.buf[p] = <<>>, !.offset[p] = 0, !.left = <<>>,
                      !.gone = IF lg.fp = -1 THEN @ \cup Range(lg.buf[p]) ELSE @,
                      !.currsize = IF lg.fp = -1 THEN @ ELSE @ + lg.offset[p]]
  BY Zenon
<1>5. PICK a : /\ a = r \/ a \in open_logfile([r EXCEPT !.currsize = 0])
               /\ lg' = [a EXCEPT !.pc = "inner"]
  BY Zenon, <1>2, <1>4 DEF LoggerFlushed, rotate_logfile
<1>6. /\ r = [f \in LogFields |-> r[f]] /\ r.call = lg.call /\ r.run = lg.run
      /\ r.ended = lg.ended /\ r.crashed = lg.crashed /\ r.pc = lg.pc
      /\ r.buf = [lg.buf EXCEPT ![p] = <<>>] /\ r.curr = lg.curr
      /\ r.disk = lg.disk /\ r.lines = lg.lines
      /\ r.gone = IF lg.fp = -1 THEN lg.gone \cup Range(lg.buf[p]) ELSE lg.gone
  BY Zenon, <1>1, <1>4 DEF LogShaped, LogFields
<1>7. r.buf \in [{1, 2} -> LineSeqs]
  BY ZenonT(40), <1>1, <1>6, EmptyLines DEF LogShaped
<1>8. /\ a = [f \in LogFields |-> a[f]] /\ a.call = r.call /\ a.run = r.run
      /\ a.ended = r.ended /\ a.crashed = r.crashed
      /\ a.buf = r.buf /\ a.curr = r.curr
      /\ a.disk = r.disk /\ a.gone = r.gone /\ a.lines = r.lines
  <2>1. CASE a \in open_logfile([r EXCEPT !.currsize = 0])
    <3>1. PICK q : q = [r EXCEPT !.currsize = 0]
      BY Zenon
    <3>2. /\ q = [f \in LogFields |-> q[f]] /\ q.call = r.call /\ q.run = r.run
          /\ q.ended = r.ended /\ q.crashed = r.crashed /\ q.pc = r.pc
          /\ q.buf = r.buf /\ q.curr = r.curr
          /\ q.disk = r.disk /\ q.gone = r.gone /\ q.lines = r.lines
      BY Zenon, <1>6, <3>1 DEF LogFields
    <3>3. LogShaped(q)
      BY ZenonT(40), <1>1, <1>6, <1>7, <3>2 DEF LogShaped
    <3>4. OnlyFiles(q, a)
      BY Zenon, <2>1, <3>1, <3>3, OpensFile
    <3>5. QED
      BY Zenon, <3>2, <3>4 DEF OnlyFiles
  <2>2. QED
    BY Zenon, <1>5, <1>6, <2>1
<1>9. /\ lg' = [f \in LogFields |-> lg'[f]] /\ lg'.call = lg.call /\ lg'.run = lg.run
      /\ lg'.ended = lg.ended /\ lg'.crashed = lg.crashed /\ lg'.pc = "inner"
      /\ lg'.buf = r.buf /\ lg'.curr = lg.curr
      /\ lg'.disk = lg.disk /\ lg'.gone = r.gone /\ lg'.lines = lg.lines
  <2>1. /\ lg' = [f \in LogFields |-> lg'[f]] /\ lg'.call = a.call /\ lg'.run = a.run
        /\ lg'.ended = a.ended /\ lg'.crashed = a.crashed /\ lg'.pc = "inner"
        /\ lg'.buf = a.buf /\ lg'.curr = a.curr
        /\ lg'.disk = a.disk /\ lg'.gone = a.gone /\ lg'.lines = a.lines
    BY Zenon, <1>5, <1>8 DEF LogFields
  <2>2. QED
    BY Zenon, <1>6, <1>8, <2>1
<1>10. /\ PendingOf(lg') = <<>> /\ CurrentOf(lg') = CurrentOf(lg) /\ LeftOf(lg') = <<>>
  <2>1. r.buf[p] = <<>> /\ r.buf[lg.curr] = lg.buf[lg.curr]
    BY Zenon, <1>1, <1>3, <1>6 DEF LogShaped
  <2>2. QED
    BY Zenon, <1>3, <1>9, <2>1 DEF PendingOf, CurrentOf, LeftOf
<1>11. LogOrdered(lg'.disk, <<>>, <<>>, CurrentOf(lg), lg'.gone, lg'.lines)
  <2>1. LogOrdered(lg.disk, lg.left, PendingOf(lg), CurrentOf(lg), lg.gone, lg.lines)
    BY Zenon, <1>1 DEF LogHolds, LeftOf
  <2>2. CASE lg.fp = -1
    <3>1. lg.left = PendingOf(lg)
      BY Zenon, <1>1, <2>2 DEF LogHolds, LeftOf
    <3>2. LogOrdered(lg.disk, <<>>, <<>>, CurrentOf(lg),
                     lg.gone \cup Range(PendingOf(lg)), lg.lines)
      BY Zenon, <2>1, <3>1, BufferDropped
    <3>3. lg'.gone = lg.gone \cup Range(PendingOf(lg))
      BY Zenon, <1>3, <1>6, <1>9, <2>2
    <3>4. QED
      BY Zenon, <1>9, <3>2, <3>3
  <2>3. CASE lg.fp # -1
    <3>1. lg.left = <<>>
      BY Zenon, <1>1, <2>3
    <3>2. LogOrdered(lg.disk, <<>>, <<>>, CurrentOf(lg), lg.gone, lg.lines)
      BY Zenon, <2>1, <3>1, BufferWritten
    <3>3. QED
      BY Zenon, <1>6, <1>9, <2>3, <3>2
  <2>4. QED
    BY Zenon, <2>2, <2>3
<1>12. LogHolds(lg')
  BY Zenon, <1>1, <1>7, <1>9, <1>10, <1>11 DEF LogHolds, LogShaped, LogPcs
<1>13. LogEnds(lg')
  BY Zenon, <1>1, <1>9 DEF LogEnds
<1>14. QED
  BY Zenon, <1>9, <1>12, <1>13 DEF ThreadStep

LEMMA LoggerThreadKeeps ==
  ASSUME LoggerIInv, logger_thread_main
  PROVE  LoggerIInv'
<1>1. LogHolds(lg) /\ LogEnds(lg)
  BY Zenon DEF LoggerIInv, logger_thread_main
<1>2. CASE LoggerTop
  BY Zenon, <1>1, <1>2, InnerStep, EndedStep DEF LoggerTop, ThreadStep, LoggerIInv, LogResting
<1>3. CASE LoggerAgain
  BY Zenon, <1>1, <1>3, InnerStep DEF LoggerAgain, ThreadStep, LoggerIInv, LogResting
<1>4. QED
  BY Zenon, <1>1, <1>2, <1>3, WakesStep, LoggerOpensStep, WritesStep, FlushedStep
  DEF logger_thread_main, ThreadStep, LoggerIInv

LEMMA LogKeeps ==
  ASSUME LoggerIInv, NEW t \in LogThreads, NEW text \in LogTexts, Log(t, text)
  PROVE  LoggerIInv'
<1>1. LogHolds(lg) /\ LogEnds(lg) /\ ~lg.crashed /\ ~lg.ended
  BY Zenon DEF LoggerIInv, Log
<1>2. PICK a : a = add_log_entry(lg, t, text)
  BY Zenon
<1>3. AddingStep(lg, a, t) /\ LogHolds(a) /\ LogShaped(a)
  <2>1. AddingStep(lg, a, t)
    BY Zenon, <1>1, <1>2, AddLogStep DEF LogCallers
  <2>2. QED
    BY Zenon, <2>1 DEF AddingStep, LogHolds
<1>4. LogEnds(a) /\ ~a.crashed
  BY Zenon, <1>1, <1>3, AddingEnds, LoggerAssumption DEF LogEnds, LogCallers, AddingStep
<1>5. /\ SameLines(a, lg') /\ lg'.call = a.call /\ lg'.run = a.run
      /\ lg'.ended = a.ended /\ lg'.crashed = a.crashed
  <2>1. lg' = [a EXCEPT !.logs = @ + 1]
    BY Zenon, <1>2 DEF Log
  <2>2. QED
    BY Zenon, <1>3, <2>1 DEF SameLines, LogShaped, LogFields
<1>6. LogHolds(lg')
  BY Zenon, <1>3, <1>5, SameLinesKeep
<1>7. LogEnds(lg')
  BY Zenon, <1>4, <1>5 DEF LogEnds, SameLines, CurrentOf, PendingOf
<1>8. QED
  BY Zenon, <1>5, <1>6, <1>7 DEF LoggerIInv, SameLines

LEMMA RetryKeeps ==
  ASSUME LoggerIInv, NEW t \in LogThreads \cup {Stopper}, Retry(t)
  PROVE  LoggerIInv'
<1>1. LogHolds(lg) /\ LogEnds(lg) /\ ~lg.crashed /\ lg.call[t].stage \in {"repeated!", "entry!"}
  BY Zenon DEF LoggerIInv, Retry
<1>2. AddingStep(lg, lg', t)
  BY Zenon, <1>1, RepeatedStep, EntryStep DEF Retry, LogCallers
<1>3. lg.run /\ (lg.ended => t = Stopper) /\ (t = Stopper => lg.ended)
  <2>1. CASE t = Stopper
    BY Zenon, <1>1, <2>1 DEF LogEnds
  <2>2. CASE t \in LogThreads
    <3>1. ~lg.ended
      BY Zenon, <1>1, <2>2 DEF LogEnds
    <3>2. QED
      BY Zenon, <1>1, <2>2, <3>1, LoggerAssumption DEF LogEnds
  <2>3. QED
    BY Zenon, <2>1, <2>2
<1>4. LogEnds(lg')
  BY Zenon, <1>1, <1>2, <1>3, AddingEnds DEF LogCallers
<1>5. QED
  BY Zenon, <1>2, <1>4 DEF LoggerIInv, AddingStep, LogHolds, LogShaped

LEMMA StopKeeps ==
  ASSUME LoggerIInv, logger_shutdown \/ exit_handler
  PROVE  LoggerIInv'
<1>1. LogHolds(lg) /\ LogEnds(lg) /\ ~lg.crashed /\ ~lg.ended /\ LogShaped(lg)
  BY Zenon DEF LoggerIInv, logger_shutdown, exit_handler, StopperIdle, LogHolds
<1>2. \A t \in LogThreads : lg.call[t].stage = "idle"
  BY Zenon DEF logger_shutdown, exit_handler, LogThreadsIdle
<1>3. PICK a : a = [lg EXCEPT !.ended = TRUE]
  BY Zenon
<1>4. /\ SameLines(lg, a) /\ a.call = lg.call /\ a.run = lg.run
      /\ a.ended /\ a.crashed = lg.crashed
  BY Zenon, <1>1, <1>3 DEF SameLines, LogShaped, LogFields
<1>5. LogHolds(a)
  BY Zenon, <1>1, <1>4, SameLinesKeep
<1>6. lg.run
  BY Zenon, <1>1 DEF LogEnds
<1>7. LogEnds(a) /\ a.run
  BY Zenon, <1>1, <1>2, <1>4, <1>6 DEF LogEnds, SameLines
<1>8. AddingStep(a, lg', Stopper)
  BY Zenon, <1>3, <1>5, FlushStep, StopStep DEF logger_shutdown, exit_handler, LogCallers
<1>9. LogEnds(lg')
  BY Zenon, <1>4, <1>7, <1>8, AddingEnds DEF LogCallers
<1>10. QED
  BY Zenon, <1>8, <1>9 DEF LoggerIInv, AddingStep, LogHolds, LogShaped

LEMMA JoinKeeps ==
  ASSUME LoggerIInv, Join
  PROVE  LoggerIInv'
<1>1. /\ lg' = [f \in LogFields |-> lg'[f]] /\ lg'.crashed = lg.crashed
  BY Zenon DEF Join, LoggerIInv, LogFields
<1>2. CASE ~lg.crashed
  <2>1. LogHolds(lg) /\ LogEnds(lg) /\ LogShaped(lg)
    BY Zenon, <1>2 DEF LoggerIInv, LogHolds
  <2>2. /\ SameLines(lg, lg') /\ lg'.run = lg.run /\ lg'.ended = lg.ended
        /\ \A t \in LogThreads : t # Stopper => lg'.call[t] = lg.call[t]
        /\ lg'.call[Stopper].stage = "done"
    BY Zenon, <2>1 DEF Join, SameLines, LogShaped, LogFields, Call
  <2>3. LogHolds(lg')
    BY Zenon, <2>1, <2>2, SameLinesKeep
  <2>4. lg.call[Stopper].stage = "join"
    BY Zenon DEF Join
  <2>5. lg.ended
    BY Zenon, <2>1, <2>4 DEF LogEnds
  <2>6. LogEnds(lg')
    BY Zenon, <2>1, <2>2, <2>5, LoggerAssumption DEF LogEnds, SameLines, CurrentOf, PendingOf
  <2>7. QED
    BY Zenon, <1>1, <2>3, <2>6 DEF LoggerIInv
<1>3. QED
  BY Zenon, <1>1, <1>2 DEF LoggerIInv

LEMMA CrashKeeps ==
  ASSUME LoggerIInv, LoggerCrash
  PROVE  LoggerIInv'
<1>1. ASSUME NEW r, r = [f \in LogFields |-> r[f]]
      PROVE  LET s == FlushedOnce(r) IN s = [f \in LogFields |-> s[f]]
  BY Zenon, <1>1 DEF FlushedOnce, FlushedCurrent, LogFields
<1>2. PICK a : /\ a = lg \/ a = FlushedOnce(FlushedOnce(lg))
               /\ lg' = [a EXCEPT !.crashed = TRUE]
  BY Zenon DEF LoggerCrash, ForcedFlush, flush_all_buffers_to_file
<1>3. a = [f \in LogFields |-> a[f]]
  BY Zenon, <1>1, <1>2 DEF LoggerIInv
<1>4. lg' = [f \in LogFields |-> lg'[f]] /\ lg'.crashed
  BY Zenon, <1>2, <1>3 DEF LogFields
<1>5. QED
  BY Zenon, <1>4 DEF LoggerIInv

-----------------------------------------------------------------------------

LEMMA LoggerStarts == LoggerInit => LoggerIInv
<1> SUFFICES ASSUME LoggerInit PROVE LoggerIInv
  BY Zenon
<1>1. /\ lg = [f \in LogFields |-> lg[f]] /\ lg.buf = <<<<>>, <<>>>> /\ lg.curr = 1
      /\ lg.pc = "top" /\ lg.run /\ ~lg.ended /\ lg.disk = <<>> /\ lg.gone = {} /\ lg.lines = 0
      /\ lg.call = [t \in LogThreads \cup {Stopper} |->
                     [stage |-> "idle", text |-> NoText, n |-> 0]]
  BY Zenon DEF LoggerInit, LogFields
<1>2. lg.buf \in [{1, 2} -> LineSeqs] /\ lg.buf[1] = <<>> /\ lg.buf[2] = <<>>
  BY Zenon, <1>1, BothEmpty
<1>3. CurrentOf(lg) = <<>> /\ PendingOf(lg) = <<>> /\ LeftOf(lg) = <<>>
  BY Zenon, <1>1, <1>2, OtherBuffer DEF CurrentOf, PendingOf, LeftOf
<1>4. LogOrdered(<<>>, <<>>, <<>>, <<>>, {}, 0)
  <2>1. 1 .. 0 = {} /\ 0 \in Nat
    OBVIOUS
  <2>2. QED
    BY Zenon, <2>1, EmptyLines DEF LogOrdered
<1>5. LogHolds(lg)
  BY Zenon, <1>1, <1>2, <1>3, <1>4 DEF LogHolds, LogShaped, LogPcs
<1>6. lg.call[Stopper].stage = "idle"
  BY <1>1
<1>7. LogEnds(lg)
  BY Zenon, <1>1, <1>6 DEF LogEnds
<1>8. QED
  BY Zenon, <1>1, <1>5, <1>7 DEF LoggerIInv

LEMMA LoggerHolds == LoggerIInv => LogExact
<1> SUFFICES ASSUME LoggerIInv, ~lg.crashed
             PROVE  /\ \A i \in 1 .. Len(lg.disk) - 1 : lg.disk[i] < lg.disk[i + 1]
                    /\ Range(lg.disk) \cup Buffered \cup lg.gone = 1 .. lg.lines
                    /\ Range(lg.disk) \cap lg.gone = {}
                    /\ lg.pc = "stopped" => Buffered = {}
  BY Zenon DEF LogExact
<1>1. LogHolds(lg) /\ LogEnds(lg)
  BY Zenon DEF LoggerIInv
<1>2. /\ LogOrdered(lg.disk, LeftOf(lg), PendingOf(lg), CurrentOf(lg), lg.gone, lg.lines)
      /\ lg.curr \in {1, 2}
  BY Zenon, <1>1 DEF LogHolds, LogShaped
<1>3. Buffered = Range(CurrentOf(lg)) \cup Range(PendingOf(lg))
  <2>1. CASE lg.curr = 1
    BY Zenon, <2>1, OtherBuffer DEF Buffered, CurrentOf, PendingOf
  <2>2. CASE lg.curr = 2
    BY Zenon, <2>2, OtherBuffer DEF Buffered, CurrentOf, PendingOf
  <2>3. QED
    BY Zenon, <1>2, <2>1, <2>2
<1>4. \A i \in 1 .. Len(lg.disk) - 1 : lg.disk[i] < lg.disk[i + 1]
  <2>1. DOMAIN lg.disk = 1 .. Len(lg.disk) /\ Len(lg.disk) \in Nat /\ Rising(lg.disk)
    BY <1>2 DEF LogOrdered, LineSeqs
  <2>2. \A i \in 1 .. Len(lg.disk) - 1 :
          i \in 1 .. Len(lg.disk) /\ i + 1 \in 1 .. Len(lg.disk) /\ i < i + 1
    BY <2>1
  <2>3. QED
    BY Zenon, <2>1, <2>2 DEF Rising
<1>5. Range(lg.disk) \cup Buffered \cup lg.gone = 1 .. lg.lines
  BY Zenon, <1>2, <1>3 DEF LogOrdered
<1>6. Range(lg.disk) \cap lg.gone = {}
  BY Zenon, <1>2 DEF LogOrdered
<1>7. lg.pc = "stopped" => Buffered = {}
  BY Zenon, <1>1, <1>3, EmptyLines DEF LogEnds
<1>8. QED
  BY Zenon, <1>4, <1>5, <1>6, <1>7

\* No line of the log is lost, written twice or out of order (file_logger.cc), for
\* any threads, texts, sizes of the buffers and failures to open a file.
THEOREM LogAlwaysExact == LoggerSpec => []LogExact
<1>1. LoggerIInv /\ [LoggerNext]_lg => LoggerIInv'
  <2> SUFFICES ASSUME LoggerIInv, [LoggerNext]_lg PROVE LoggerIInv'
    BY Zenon
  <2>1. CASE UNCHANGED lg
    BY Zenon, <2>1 DEF LoggerIInv
  <2>2. QED
    BY Zenon, <2>1, LogKeeps, RetryKeeps, LoggerThreadKeeps, StopKeeps, JoinKeeps, CrashKeeps
    DEF LoggerNext, LogWaiters
<1>2. QED
  BY <1>1, LoggerStarts, LoggerHolds, PTL DEF LoggerSpec

-----------------------------------------------------------------------------
(* The ewouldblock engine.                                                 *)

EwbFields ==
  {"state", "mode", "suspended", "queue", "thread", "signal", "stop", "cookie", "monitors",
   "woken", "file", "conn", "early", "made", "controls"}

EwbConnFields == {"pc", "left", "of"}

\* The types, that the thread has a cookie only while it notifies, and that a
\* connection resumes another one exactly while it is in resume.
EwbTypes ==
  /\ DOMAIN ew = EwbFields
  /\ ew.queue \in Seq(EwbConns)
  /\ ew.cookie \in EwbConns \cup {NoEwbConn}
  /\ ew.thread = "notify" <=> ew.cookie # NoEwbConn
  /\ DOMAIN ew.suspended = EwbIds
  /\ \A id \in EwbIds : ew.suspended[id] \in EwbConns \cup {NoEwbConn}
  /\ ew.woken \in [EwbConns -> Nat] /\ ew.early \in [EwbConns -> Nat]
  /\ DOMAIN ew.mode = EwbConns /\ DOMAIN ew.conn = EwbConns
  /\ \A c \in EwbConns :
       /\ DOMAIN ew.conn[c] = EwbConnFields
       /\ ew.conn[c].of \in EwbConns \cup {NoEwbConn}
       /\ ew.conn[c].pc = "resume" <=> ew.conn[c].of # NoEwbConn

\* A suspended connection has no notification on the way that it waits for.
EwbConnInv(c) ==
  /\ PendingFor(c) <= (IF ew.conn[c].pc = "blocked" THEN 1 ELSE 0) + ew.early[c]
  /\ is_connection_suspended(ew, c) => PendingFor(c) <= ew.early[c]
  /\ ew.conn[c].pc = "blocked" /\ AddToPending(ew.mode[c]) =>
       is_connection_suspended(ew, c) \/ PendingFor(c) > 0

EwbIInv == EwbTypes /\ \A c \in EwbConns : EwbConnInv(c)

\* What is counted is finite.
LEMMA PendingFinite ==
  ASSUME EwbTypes, NEW c \in EwbConns
  PROVE  /\ IsFiniteSet(InQueue(c)) /\ Cardinality(InQueue(c)) \in Nat
         /\ IsFiniteSet(Resumers(c)) /\ Cardinality(Resumers(c)) \in Nat
         /\ PendingFor(c) \in Nat /\ ew.woken[c] \in Nat /\ ew.early[c] \in Nat
<1>1. InQueue(c) \in SUBSET (1 .. Len(ew.queue)) /\ Len(ew.queue) \in Nat
  BY DEF EwbTypes, InQueue
<1>2. IsFiniteSet(1 .. Len(ew.queue))
  BY <1>1, FS_Interval
<1>3. IsFiniteSet(InQueue(c)) /\ Cardinality(InQueue(c)) \in Nat
  BY Zenon, <1>1, <1>2, FS_Subset, FS_CardinalityType
<1>4. Resumers(c) \in SUBSET EwbConns
  BY Zenon DEF Resumers
<1>5. IsFiniteSet(Resumers(c)) /\ Cardinality(Resumers(c)) \in Nat
  BY Zenon, <1>4, EwbAssumption, FS_Subset, FS_CardinalityType
<1>6. ew.woken[c] \in Nat /\ ew.early[c] \in Nat
  BY Zenon DEF EwbTypes
<1>7. QED
  BY <1>3, <1>5, <1>6 DEF PendingFor

\* schedule_notification adds one notification to the queue.
LEMMA QueueGrows ==
  ASSUME EwbTypes, NEW c \in EwbConns, NEW x \in EwbConns, ew'.queue = Append(ew.queue, x)
  PROVE  Cardinality(InQueue(c)') = Cardinality(InQueue(c)) + IF c = x THEN 1 ELSE 0
<1>0. PICK s \in Seq(EwbConns) : s = ew.queue
  BY Zenon DEF EwbTypes
<1>1. PICK n \in Nat : n = Len(s) /\ DOMAIN ew.queue = 1 .. n
  BY ONLY s \in Seq(EwbConns), <1>0
<1>2. /\ DOMAIN ew'.queue = 1 .. n + 1 /\ ew'.queue[n + 1] = x
      /\ \A i \in 1 .. n : ew'.queue[i] = ew.queue[i]
  <2>1. PICK q : q = Append(s, x) /\ ew'.queue = q
    BY Zenon, <1>0
  <2>2. DOMAIN q = 1 .. n + 1 /\ q[n + 1] = x /\ \A i \in 1 .. n : q[i] = s[i]
    BY ONLY s \in Seq(EwbConns), x \in EwbConns, <1>1, <2>1
  <2>3. QED
    BY Zenon, <1>0, <2>1, <2>2
<1>3. n + 1 \notin InQueue(c)
  BY <1>1 DEF InQueue
<1>4. CASE c = x
  <2>1. InQueue(c)' = InQueue(c) \cup {n + 1}
    BY <1>1, <1>2, <1>4 DEF InQueue
  <2>2. QED
    BY Zenon, <1>3, <1>4, <2>1, PendingFinite, FS_AddElement
<1>5. CASE c # x
  <2>1. InQueue(c)' = InQueue(c)
    BY <1>1, <1>2, <1>5 DEF InQueue
  <2>2. QED
    BY <1>5, <2>1, PendingFinite
<1>6. QED
  BY Zenon, <1>4, <1>5

\* The thread takes one notification from the queue.
LEMMA QueueShrinks ==
  ASSUME EwbTypes, NEW c \in EwbConns, ew.queue # <<>>, ew'.queue = Tail(ew.queue)
  PROVE  Cardinality(InQueue(c)) =
           Cardinality(InQueue(c)') + IF Head(ew.queue) = c THEN 1 ELSE 0
<1>0. PICK s \in Seq(EwbConns) : s = ew.queue /\ s # <<>>
  BY Zenon DEF EwbTypes
<1>a. Len(s) \in Nat /\ Len(s) # 0 /\ DOMAIN s = 1 .. Len(s)
  BY ONLY s \in Seq(EwbConns), <1>0
<1>1. PICK n \in Nat : n = Len(s) - 1 /\ DOMAIN ew.queue = 1 .. n + 1
  BY ONLY SMTT(30), <1>0, <1>a
<1>2. /\ DOMAIN ew'.queue = 1 .. n /\ Head(ew.queue) = ew.queue[1]
      /\ \A i \in 1 .. n : ew'.queue[i] = ew.queue[i + 1]
  <2>1. PICK q : q = Tail(s) /\ ew'.queue = q
    BY Zenon, <1>0
  <2>2. DOMAIN q = 1 .. n /\ Head(s) = s[1] /\ \A i \in 1 .. n : q[i] = s[i + 1]
    BY ONLY s \in Seq(EwbConns), <1>a, <1>1, <2>1
  <2>3. QED
    BY Zenon, <1>0, <2>1, <2>2
<1> DEFINE R == InQueue(c) \ {1}
           f == [i \in R |-> i - 1]
<1>3. IsFiniteSet(R) /\ Cardinality(R) = IF 1 \in InQueue(c) THEN Cardinality(InQueue(c)) - 1
                                         ELSE Cardinality(InQueue(c))
  BY Zenon, PendingFinite, FS_RemoveElement
<1>4. R \subseteq 2 .. n + 1 /\ \A i \in R : ew.queue[i] = c
  BY <1>1 DEF InQueue
<1>5. f \in Bijection(R, InQueue(c)')
  <2>1. \A i \in R : i - 1 \in InQueue(c)'
    BY SMTT(30), <1>2, <1>4 DEF InQueue
  <2>2. \A i, j \in R : i - 1 = j - 1 => i = j
    BY <1>4
  <2>3. \A j \in InQueue(c)' : j + 1 \in R /\ (j + 1) - 1 = j
    BY <1>1, <1>2 DEF InQueue
  <2>4. QED
    BY Zenon, <2>1, <2>2, <2>3 DEF Bijection, Injection, Surjection, IsInjective
<1>6. Cardinality(InQueue(c)') = Cardinality(R)
  BY <1>3, <1>5, FS_Bijection DEF ExistsBijection
<1>7. 1 \in InQueue(c) <=> Head(ew.queue) = c
  BY <1>1, <1>2 DEF InQueue
<1>8. QED
  BY <1>3, <1>6, <1>7, PendingFinite

\* A connection starts to resume y.
LEMMA ResumerJoins ==
  ASSUME EwbTypes, NEW c \in EwbConns, NEW x \in EwbConns, NEW y \in EwbConns,
         ew.conn[x].of = NoEwbConn, ew'.conn[x].of = y,
         \A d \in EwbConns \ {x} : ew'.conn[d].of = ew.conn[d].of
  PROVE  Cardinality(Resumers(c)') = Cardinality(Resumers(c)) + IF c = y THEN 1 ELSE 0
<1>1. x \notin Resumers(c)
  BY Zenon, EwbAssumption DEF Resumers
<1>2. c = y => Resumers(c)' = Resumers(c) \cup {x}
  BY Zenon DEF Resumers
<1>3. c # y => Resumers(c)' = Resumers(c)
  BY Zenon, <1>1 DEF Resumers
<1>4. IsFiniteSet(Resumers(c)) /\ Cardinality(Resumers(c)) \in Nat
  BY Zenon, PendingFinite
<1>5. Cardinality(Resumers(c) \cup {x}) = Cardinality(Resumers(c)) + 1
  BY Zenon, <1>1, <1>4, FS_AddElement
<1>6. CASE c = y
  BY ONLY Zenon, <1>2, <1>5, <1>6
<1>7. CASE c # y
  BY ONLY <1>3, <1>4, <1>7
<1>8. QED
  BY Zenon, <1>6, <1>7

\* A connection has resumed y.
LEMMA ResumerLeaves ==
  ASSUME EwbTypes, NEW c \in EwbConns, NEW x \in EwbConns, NEW y \in EwbConns,
         ew.conn[x].of = y, ew'.conn[x].of = NoEwbConn,
         \A d \in EwbConns \ {x} : ew'.conn[d].of = ew.conn[d].of
  PROVE  Cardinality(Resumers(c)') = Cardinality(Resumers(c)) - IF c = y THEN 1 ELSE 0
<1>1. x \in Resumers(c) <=> c = y
  BY Zenon DEF Resumers
<1>2. x \notin Resumers(c)'
  BY Zenon, EwbAssumption DEF Resumers
<1>3. Resumers(c)' = Resumers(c) \ {x}
  BY Zenon, <1>2 DEF Resumers
<1>4. IsFiniteSet(Resumers(c)) /\ Cardinality(Resumers(c)) \in Nat
  BY Zenon, PendingFinite
<1>5. Cardinality(Resumers(c) \ {x}) = IF x \in Resumers(c) THEN Cardinality(Resumers(c)) - 1
                                       ELSE Cardinality(Resumers(c))
  BY Zenon, <1>4, FS_RemoveElement
<1>6. CASE c = y
  BY ONLY Zenon, <1>1, <1>3, <1>5, <1>6
<1>7. CASE c # y
  BY ONLY <1>1, <1>3, <1>4, <1>5, <1>7
<1>8. QED
  BY Zenon, <1>6, <1>7

\* Nobody starts or ends to resume.
LEMMA ResumersStay ==
  ASSUME NEW c \in EwbConns, \A d \in EwbConns : ew'.conn[d].of = ew.conn[d].of
  PROVE  Resumers(c)' = Resumers(c)
BY Zenon DEF Resumers

\* Nothing is sent on its way, and nothing arrives.
LEMMA PendingStays ==
  ASSUME NEW c \in EwbConns, ew'.queue = ew.queue, ew'.cookie = ew.cookie,
         ew'.woken[c] = ew.woken[c], \A d \in EwbConns : ew'.conn[d].of = ew.conn[d].of
  PROVE  PendingFor(c)' = PendingFor(c)
<1>1. Resumers(c)' = Resumers(c)
  BY Zenon, ResumersStay
<1>2. InQueue(c)' = InQueue(c)
  BY Zenon DEF InQueue
<1>3. QED
  BY Zenon, <1>1, <1>2 DEF PendingFor

\* A connection that a step does not touch, or which only passes from one state in
\* which it is not blocked to another.
LEMMA EwbConnKept ==
  ASSUME NEW c \in EwbConns, EwbConnInv(c),
         PendingFor(c)' = PendingFor(c), ew'.early[c] = ew.early[c],
         \A id \in EwbIds : ew'.suspended[id] = c <=> ew.suspended[id] = c,
         \/ ew'.conn[c].pc = ew.conn[c].pc /\ ew'.mode[c] = ew.mode[c]
         \/ ew.conn[c].pc # "blocked" /\ ew'.conn[c].pc # "blocked"
  PROVE  EwbConnInv(c)'
<1>1. is_connection_suspended(ew, c)' <=> is_connection_suspended(ew, c)
  BY Zenon DEF is_connection_suspended
<1>2. CASE ew'.conn[c].pc = ew.conn[c].pc /\ ew'.mode[c] = ew.mode[c]
  BY Zenon, <1>1, <1>2 DEF EwbConnInv, AddToPending
<1>3. CASE ew.conn[c].pc # "blocked" /\ ew'.conn[c].pc # "blocked"
  BY Zenon, <1>1, <1>3 DEF EwbConnInv
<1>4. QED
  BY Zenon, <1>2, <1>3

\* A step that concerns neither connections nor notifications.
LEMMA EwbQuiet ==
  ASSUME EwbIInv, DOMAIN ew' = EwbFields,
         ew'.queue = ew.queue, ew'.cookie = ew.cookie, ew'.suspended = ew.suspended,
         ew'.woken = ew.woken, ew'.early = ew.early, ew'.mode = ew.mode, ew'.conn = ew.conn,
         ew'.thread = "notify" <=> ew.thread = "notify"
  PROVE  EwbIInv'
<1>1. EwbTypes'
  BY Zenon DEF EwbIInv, EwbTypes
<1>2. ASSUME NEW c \in EwbConns PROVE EwbConnInv(c)'
  <2>1. PendingFor(c)' = PendingFor(c)
    BY Zenon, PendingStays
  <2>2. QED
    BY Zenon, <2>1, EwbConnKept DEF EwbIInv
<1>3. QED
  BY Zenon, <1>1, <1>2 DEF EwbIInv

\* A step of a connection that is not blocked, neither before nor after it.
LEMMA EwbUnblocked ==
  ASSUME EwbIInv, DOMAIN ew' = EwbFields, NEW x \in EwbConns, NEW r,
         ew'.queue = ew.queue, ew'.cookie = ew.cookie, ew'.suspended = ew.suspended,
         ew'.woken = ew.woken, ew'.early = ew.early, ew'.thread = ew.thread,
         DOMAIN ew'.mode = EwbConns, \A d \in EwbConns \ {x} : ew'.mode[d] = ew.mode[d],
         DOMAIN ew'.conn = EwbConns, ew'.conn[x] = r, DOMAIN r = EwbConnFields,
         \A d \in EwbConns \ {x} : ew'.conn[d] = ew.conn[d],
         r.of = ew.conn[x].of, r.pc = "resume" <=> ew.conn[x].pc = "resume",
         r.pc # "blocked", ew.conn[x].pc # "blocked"
  PROVE  EwbIInv'
<1>1. \A d \in EwbConns : ew'.conn[d].of = ew.conn[d].of
  BY Zenon
<1>2. EwbTypes'
  <2>1. \A c \in EwbConns :
          /\ DOMAIN ew'.conn[c] = EwbConnFields
          /\ ew'.conn[c].of \in EwbConns \cup {NoEwbConn}
          /\ ew'.conn[c].pc = "resume" <=> ew'.conn[c].of # NoEwbConn
    BY SMTT(30), <1>1 DEF EwbIInv, EwbTypes
  <2>2. QED
    BY Zenon, <2>1 DEF EwbIInv, EwbTypes
<1>3. ASSUME NEW c \in EwbConns PROVE EwbConnInv(c)'
  <2>1. PendingFor(c)' = PendingFor(c)
    BY Zenon, <1>1, PendingStays
  <2>2. \/ ew'.conn[c].pc = ew.conn[c].pc /\ ew'.mode[c] = ew.mode[c]
        \/ ew.conn[c].pc # "blocked" /\ ew'.conn[c].pc # "blocked"
    BY Zenon
  <2>3. QED
    BY Zenon, <2>1, <2>2, EwbConnKept DEF EwbIInv
<1>4. QED
  BY Zenon, <1>2, <1>3 DEF EwbIInv

\* A connection that is not blocked is suspended.
LEMMA SuspendKeeps ==
  ASSUME EwbIInv, NEW x \in EwbConns, NEW id \in EwbIds, ew.suspended[id] = NoEwbConn,
         ew.conn[x].pc = "idle", DOMAIN ew' = EwbFields,
         ew'.queue = ew.queue, ew'.cookie = ew.cookie, ew'.thread = ew.thread,
         ew'.woken = ew.woken, ew'.early = ew.early, ew'.mode = ew.mode, ew'.conn = ew.conn,
         ew'.suspended = [ew.suspended EXCEPT ![id] = x]
  PROVE  EwbIInv'
<1>1. /\ DOMAIN ew'.suspended = EwbIds /\ ew'.suspended[id] = x
      /\ \A i \in EwbIds \ {id} : ew'.suspended[i] = ew.suspended[i]
  BY Zenon DEF EwbIInv, EwbTypes
<1>2. EwbTypes'
  BY <1>1 DEF EwbIInv, EwbTypes
<1>3. ASSUME NEW c \in EwbConns PROVE EwbConnInv(c)'
  <2>1. PendingFor(c)' = PendingFor(c)
    BY Zenon, PendingStays
  <2>2. CASE c = x
    <3>1. PendingFor(c) \in Nat /\ ew.early[c] \in Nat
      BY Zenon, PendingFinite DEF EwbIInv
    <3>2. PendingFor(c) <= ew.early[c]
      BY <2>2, <3>1 DEF EwbIInv, EwbConnInv
    <3>3. QED
      BY <2>1, <2>2, <3>1, <3>2 DEF EwbConnInv
  <2>3. CASE c # x
    <3>1. \A i \in EwbIds : ew'.suspended[i] = c <=> ew.suspended[i] = c
      BY Zenon, <1>1, <2>3, EwbAssumption
    <3>2. QED
      BY Zenon, <2>1, <3>1, EwbConnKept DEF EwbIInv
  <2>4. QED
    BY Zenon, <2>2, <2>3
<1>4. QED
  BY Zenon, <1>2, <1>3 DEF EwbIInv

\* The first half of resume puts a notification on the way.  If the connection
\* does not wait for it alone it is counted, otherwise none was on the way.
LEMMA ErasedKeeps ==
  ASSUME EwbIInv, NEW id \in EwbIds, NEW y \in EwbConns, ew.suspended[id] = y,
         ew'.suspended = [ew.suspended EXCEPT ![id] = NoEwbConn],
         ew'.early = [ew.early EXCEPT ![y] = IF WaitsOnlyFor(ew, y, id) THEN @ ELSE @ + 1],
         ew'.mode = ew.mode, NEW c \in EwbConns,
         PendingFor(c)' = PendingFor(c) + IF c = y THEN 1 ELSE 0,
         \/ ew'.conn[c].pc = ew.conn[c].pc
         \/ ew.conn[c].pc # "blocked" /\ ew'.conn[c].pc # "blocked"
  PROVE  EwbConnInv(c)'
<1>1. /\ ew'.suspended[id] = NoEwbConn
      /\ \A i \in EwbIds \ {id} : ew'.suspended[i] = ew.suspended[i]
  BY Zenon DEF EwbIInv, EwbTypes
<1>2. PendingFor(c) \in Nat /\ ew.early[c] \in Nat
  BY Zenon, PendingFinite DEF EwbIInv
<1>3. CASE c = y
  <2>1. PendingFor(c) <= ew.early[c]
    BY Zenon, <1>3 DEF EwbIInv, EwbConnInv, is_connection_suspended
  <2>2. PendingFor(c)' = PendingFor(c) + 1
    BY Zenon, <1>3
  <2>3. CASE WaitsOnlyFor(ew, y, id)
    <3>1. ew'.early[c] = ew.early[c]
      BY Zenon, <1>3, <2>3 DEF EwbIInv, EwbTypes
    <3>2. ew'.conn[c].pc = "blocked"
      BY Zenon, <1>3, <2>3 DEF WaitsOnlyFor
    <3>3. ~ is_connection_suspended(ew, c)'
      BY SMTT(30), <1>1, <1>3, <2>3, EwbAssumption DEF WaitsOnlyFor, is_connection_suspended
    <3>4. QED
      BY SMTT(30), <1>2, <2>1, <2>2, <3>1, <3>2, <3>3 DEF EwbConnInv
  <2>4. CASE ~ WaitsOnlyFor(ew, y, id)
    <3>1. ew'.early[c] = ew.early[c] + 1
      BY Zenon, <1>3, <2>4 DEF EwbIInv, EwbTypes
    <3>2. QED
      BY <1>2, <2>1, <2>2, <3>1 DEF EwbConnInv
  <2>5. QED
    BY Zenon, <2>3, <2>4
<1>4. CASE c # y
  <2>1. PendingFor(c)' = PendingFor(c)
    BY <1>2, <1>4
  <2>2. ew'.early[c] = ew.early[c]
    BY Zenon, <1>4 DEF EwbIInv, EwbTypes
  <2>3. \A i \in EwbIds : ew'.suspended[i] = c <=> ew.suspended[i] = c
    BY Zenon, <1>1, <1>4, EwbAssumption
  <2>4. QED
    BY Zenon, <2>1, <2>2, <2>3, EwbConnKept DEF EwbIInv
<1>5. QED
  BY Zenon, <1>3, <1>4

\* A client resumes an id.
LEMMA HandleResumeKeeps ==
  ASSUME EwbIInv, NEW x \in EwbConns, NEW id \in EwbIds, ew.conn[x].pc = "idle",
         handleResume(x, id)
  PROVE  EwbIInv'
<1>1. PICK y \in EwbConns : ew.suspended[id] = y
  BY Zenon DEF EwbIInv, EwbTypes, handleResume
<1>2. PICK q : q = Erased(ew, id)
  BY Zenon
<1>3. /\ DOMAIN q = EwbFields
      /\ q.queue = ew.queue /\ q.cookie = ew.cookie /\ q.thread = ew.thread
      /\ q.woken = ew.woken /\ q.mode = ew.mode /\ q.conn = ew.conn
      /\ q.suspended = [ew.suspended EXCEPT ![id] = NoEwbConn]
      /\ q.early = [ew.early EXCEPT ![y] = IF WaitsOnlyFor(ew, y, id) THEN @ ELSE @ + 1]
  <2>1. DOMAIN ew = EwbFields
    BY Zenon DEF EwbIInv, EwbTypes
  <2>2. QED
    BY ONLY Zenon, <1>1, <1>2, <2>1, id \in EwbIds DEF Erased, WaitsOnlyFor, EwbFields
<1>4. PICK s : s = [q EXCEPT !.conn[x].pc = "resume", !.conn[x].of = y] /\ ew' = Control(s)
  BY Zenon, <1>1, <1>2 DEF handleResume
<1>5. /\ DOMAIN ew' = EwbFields
      /\ ew'.queue = ew.queue /\ ew'.cookie = ew.cookie /\ ew'.thread = ew.thread
      /\ ew'.woken = ew.woken /\ ew'.mode = ew.mode
      /\ ew'.suspended = q.suspended /\ ew'.early = q.early
      /\ ew'.conn = [ew.conn EXCEPT ![x].pc = "resume", ![x].of = y]
  <2>1. /\ DOMAIN s = EwbFields
        /\ s.queue = ew.queue /\ s.cookie = ew.cookie /\ s.thread = ew.thread
        /\ s.woken = ew.woken /\ s.mode = ew.mode
        /\ s.suspended = q.suspended /\ s.early = q.early
        /\ s.conn = [ew.conn EXCEPT ![x].pc = "resume", ![x].of = y]
    BY Zenon, <1>3, <1>4 DEF EwbFields
  <2>2. QED
    BY Zenon, <1>4, <2>1 DEF Control, EwbFields
<1>6. /\ DOMAIN ew'.conn = EwbConns
      /\ DOMAIN ew'.conn[x] = EwbConnFields
      /\ ew'.conn[x].pc = "resume" /\ ew'.conn[x].of = y
      /\ \A d \in EwbConns \ {x} : ew'.conn[d] = ew.conn[d]
  BY ZenonT(40), <1>5 DEF EwbIInv, EwbTypes, EwbConnFields
<1>7. EwbTypes'
  <2>1. \A c \in EwbConns :
          /\ DOMAIN ew'.conn[c] = EwbConnFields
          /\ ew'.conn[c].of \in EwbConns \cup {NoEwbConn}
          /\ ew'.conn[c].pc = "resume" <=> ew'.conn[c].of # NoEwbConn
    BY SMTT(30), <1>6, EwbAssumption DEF EwbIInv, EwbTypes
  <2>2. ew'.early \in [EwbConns -> Nat]
    BY <1>3, <1>5 DEF EwbIInv, EwbTypes
  <2>3. /\ DOMAIN ew'.suspended = EwbIds
        /\ \A i \in EwbIds : ew'.suspended[i] \in EwbConns \cup {NoEwbConn}
    BY SMTT(30), <1>3, <1>5 DEF EwbIInv, EwbTypes
  <2>4. QED
    BY Zenon, <1>5, <1>6, <2>1, <2>2, <2>3 DEF EwbIInv, EwbTypes
<1>8. ASSUME NEW c \in EwbConns PROVE EwbConnInv(c)'
  <2>1. ew.conn[x].of = NoEwbConn
    BY Zenon DEF EwbIInv, EwbTypes
  <2>2. Cardinality(Resumers(c)') = Cardinality(Resumers(c)) + IF c = y THEN 1 ELSE 0
    BY <1>6, <2>1, ResumerJoins DEF EwbIInv
  <2>3. InQueue(c)' = InQueue(c)
    BY Zenon, <1>5 DEF InQueue
  <2>4. /\ Cardinality(InQueue(c)) \in Nat /\ Cardinality(Resumers(c)) \in Nat
        /\ ew.woken[c] \in Nat
    BY Zenon, PendingFinite DEF EwbIInv
  <2>5. PendingFor(c)' = PendingFor(c) + IF c = y THEN 1 ELSE 0
    BY SMTT(30), <1>5, <2>2, <2>3, <2>4 DEF PendingFor
  <2>6. \/ ew'.conn[c].pc = ew.conn[c].pc
        \/ ew.conn[c].pc # "blocked" /\ ew'.conn[c].pc # "blocked"
    BY Zenon, <1>6
  <2>7. QED
    BY SMTT(30), <1>1, <1>3, <1>5, <2>5, <2>6, ErasedKeeps
<1>9. QED
  BY Zenon, <1>7, <1>8 DEF EwbIInv

\* A monitor resumes its id, unless somebody else did.
LEMMA BlockMonitorKeeps ==
  ASSUME EwbIInv, NEW id \in EwbIds, BlockMonitor(id)
  PROVE  EwbIInv'
<1>1. PICK r : r = [ew EXCEPT !.monitors[id] = @ - 1]
  BY Zenon
<1>2. /\ DOMAIN r = EwbFields
      /\ r.queue = ew.queue /\ r.cookie = ew.cookie /\ r.thread = ew.thread
      /\ r.woken = ew.woken /\ r.mode = ew.mode /\ r.conn = ew.conn
      /\ r.suspended = ew.suspended /\ r.early = ew.early
  BY Zenon, <1>1 DEF EwbIInv, EwbTypes, EwbFields
<1>3. CASE r.suspended[id] = NoEwbConn
  <2>1. ew' = r
    BY Zenon, <1>1, <1>3 DEF BlockMonitor
  <2>2. QED
    BY Zenon, <1>2, <2>1, EwbQuiet
<1>4. CASE r.suspended[id] # NoEwbConn
  <2>1. PICK y \in EwbConns : ew.suspended[id] = y
    BY <1>2, <1>4 DEF EwbIInv, EwbTypes
  <2>2. PICK q : q = Erased(r, id)
    BY Zenon
  <2>3. /\ DOMAIN q = EwbFields
        /\ q.queue = ew.queue /\ q.cookie = ew.cookie /\ q.thread = ew.thread
        /\ q.woken = ew.woken /\ q.mode = ew.mode /\ q.conn = ew.conn
        /\ q.suspended = [ew.suspended EXCEPT ![id] = NoEwbConn]
        /\ q.early = [ew.early EXCEPT ![y] = IF WaitsOnlyFor(ew, y, id) THEN @ ELSE @ + 1]
    BY ONLY ZenonT(40), <1>2, <2>1, <2>2, id \in EwbIds DEF Erased, WaitsOnlyFor, EwbFields
  <2>4. ew' = [q EXCEPT !.woken[y] = @ + 1]
    BY Zenon, <1>1, <1>2, <1>4, <2>1, <2>2 DEF BlockMonitor
  <2>5. /\ DOMAIN ew' = EwbFields
        /\ ew'.queue = ew.queue /\ ew'.cookie = ew.cookie /\ ew'.thread = ew.thread
        /\ ew'.mode = ew.mode /\ ew'.conn = ew.conn
        /\ ew'.suspended = q.suspended /\ ew'.early = q.early
        /\ ew'.woken = [ew.woken EXCEPT ![y] = @ + 1]
    BY Zenon, <2>3, <2>4 DEF EwbFields
  <2>6. EwbTypes'
    <3>1. ew'.early \in [EwbConns -> Nat] /\ ew'.woken \in [EwbConns -> Nat]
      BY SMTT(30), <2>3, <2>5 DEF EwbIInv, EwbTypes
    <3>2. /\ DOMAIN ew'.suspended = EwbIds
          /\ \A i \in EwbIds : ew'.suspended[i] \in EwbConns \cup {NoEwbConn}
      BY SMTT(30), <2>3, <2>5 DEF EwbIInv, EwbTypes
    <3>3. QED
      BY SMTT(30), <2>5, <3>1, <3>2 DEF EwbIInv, EwbTypes
  <2>7. ASSUME NEW c \in EwbConns PROVE EwbConnInv(c)'
    <3>1. Resumers(c)' = Resumers(c) /\ InQueue(c)' = InQueue(c)
      BY Zenon, <2>5 DEF Resumers, InQueue
    <3>2. /\ Cardinality(InQueue(c)) \in Nat /\ Cardinality(Resumers(c)) \in Nat
          /\ ew.woken[c] \in Nat
      BY Zenon, PendingFinite DEF EwbIInv
    <3>3. ew'.woken[c] = ew.woken[c] + IF c = y THEN 1 ELSE 0
      BY SMTT(30), <2>5, <3>2 DEF EwbIInv, EwbTypes
    <3>4. PendingFor(c)' = PendingFor(c) + IF c = y THEN 1 ELSE 0
      BY SMTT(30), <2>5, <3>1, <3>2, <3>3 DEF PendingFor
    <3>5. QED
      BY SMTT(30), <2>1, <2>3, <2>5, <3>4, ErasedKeeps
  <2>8. QED
    BY Zenon, <2>6, <2>7 DEF EwbIInv
<1>5. QED
  BY Zenon, <1>3, <1>4

\* The fields after schedule_notification.
LEMMA ScheduledFields ==
  ASSUME NEW r, DOMAIN r = EwbFields, NEW c, NEW q, q = schedule_notification(r, c)
  PROVE  /\ DOMAIN q = EwbFields /\ q.queue = Append(r.queue, c)
         /\ q.cookie = r.cookie /\ q.thread = r.thread /\ q.suspended = r.suspended
         /\ q.woken = r.woken /\ q.early = r.early /\ q.mode = r.mode /\ q.conn = r.conn
BY Zenon DEF schedule_notification, EwbSignalled, EwbFields

\* The second half of resume in a monitor.
LEMMA MonitorEndsKeeps ==
  ASSUME EwbIInv, NEW x \in EwbConns, MonitorEnds(x)
  PROVE  EwbIInv'
<1>1. PICK q : q = schedule_notification(ew, x)
  BY Zenon
<1>2. /\ DOMAIN q = EwbFields /\ q.queue = Append(ew.queue, x)
      /\ q.cookie = ew.cookie /\ q.thread = ew.thread /\ q.suspended = ew.suspended
      /\ q.woken = ew.woken /\ q.early = ew.early /\ q.mode = ew.mode /\ q.conn = ew.conn
  <2>1. DOMAIN ew = EwbFields
    BY Zenon DEF EwbIInv, EwbTypes
  <2>2. QED
    BY <1>1, <2>1, ScheduledFields
<1>3. ew' = [q EXCEPT !.woken[x] = @ - 1] /\ ew.woken[x] > 0
  BY Zenon, <1>1 DEF MonitorEnds
<1>4. /\ DOMAIN ew' = EwbFields /\ ew'.queue = Append(ew.queue, x)
      /\ ew'.cookie = ew.cookie /\ ew'.thread = ew.thread /\ ew'.suspended = ew.suspended
      /\ ew'.early = ew.early /\ ew'.mode = ew.mode /\ ew'.conn = ew.conn
      /\ ew'.woken = [ew.woken EXCEPT ![x] = @ - 1]
  BY Zenon, <1>2, <1>3 DEF EwbFields
<1>5. EwbTypes'
  <2>1. ew.queue \in Seq(EwbConns) /\ ew.woken \in [EwbConns -> Nat]
    BY Zenon DEF EwbIInv, EwbTypes
  <2>2. ew'.queue \in Seq(EwbConns)
    BY <1>4, <2>1
  <2>3. ew.woken[x] - 1 \in Nat
    BY <1>3, <2>1
  <2>4. ew'.woken \in [EwbConns -> Nat]
    BY Zenon, <1>4, <2>1, <2>3
  <2>5. QED
    BY ZenonT(40), <1>4, <2>2, <2>4 DEF EwbIInv, EwbTypes
<1>6. ASSUME NEW c \in EwbConns PROVE EwbConnInv(c)'
  <2>1. Cardinality(InQueue(c)') = Cardinality(InQueue(c)) + IF c = x THEN 1 ELSE 0
    BY Zenon, <1>4, QueueGrows DEF EwbIInv
  <2>2. Resumers(c)' = Resumers(c)
    BY Zenon, <1>4 DEF Resumers
  <2>3. /\ Cardinality(InQueue(c)) \in Nat /\ Cardinality(Resumers(c)) \in Nat
        /\ ew.woken[c] \in Nat
    BY Zenon, PendingFinite DEF EwbIInv
  <2>4. ew'.woken[c] = ew.woken[c] - IF c = x THEN 1 ELSE 0
    BY <1>4, <2>3 DEF EwbIInv, EwbTypes
  <2>5. PendingFor(c)' = PendingFor(c)
    <3>1. ew'.cookie = ew.cookie
      BY Zenon, <1>4
    <3>2. CASE c = x
      BY ONLY SMTT(30), <2>1, <2>2, <2>3, <2>4, <3>1, <3>2 DEF PendingFor
    <3>3. CASE c # x
      BY ONLY SMTT(30), <2>1, <2>2, <2>3, <2>4, <3>1, <3>3 DEF PendingFor
    <3>4. QED
      BY Zenon, <3>2, <3>3
  <2>6. QED
    BY Zenon, <1>4, <2>5, EwbConnKept DEF EwbIInv
<1>7. QED
  BY Zenon, <1>5, <1>6 DEF EwbIInv

\* The second half of resume in a client.
LEMMA ResumeEndsKeeps ==
  ASSUME EwbIInv, NEW x \in EwbConns, ResumeEnds(x)
  PROVE  EwbIInv'
<1>1. PICK y \in EwbConns : ew.conn[x].of = y
  BY Zenon DEF EwbIInv, EwbTypes, ResumeEnds
<1>2. PICK q : q = schedule_notification(ew, y)
  BY Zenon
<1>3. /\ DOMAIN q = EwbFields /\ q.queue = Append(ew.queue, y)
      /\ q.cookie = ew.cookie /\ q.thread = ew.thread /\ q.suspended = ew.suspended
      /\ q.woken = ew.woken /\ q.early = ew.early /\ q.mode = ew.mode /\ q.conn = ew.conn
  <2>1. DOMAIN ew = EwbFields
    BY Zenon DEF EwbIInv, EwbTypes
  <2>2. QED
    BY <1>2, <2>1, ScheduledFields
<1>4. ew' = [q EXCEPT !.conn[x].pc = "idle", !.conn[x].of = NoEwbConn]
  BY Zenon, <1>1, <1>2 DEF ResumeEnds
<1>5. /\ DOMAIN ew' = EwbFields /\ ew'.queue = Append(ew.queue, y)
      /\ ew'.cookie = ew.cookie /\ ew'.thread = ew.thread /\ ew'.suspended = ew.suspended
      /\ ew'.early = ew.early /\ ew'.mode = ew.mode /\ ew'.woken = ew.woken
      /\ ew'.conn = [ew.conn EXCEPT ![x].pc = "idle", ![x].of = NoEwbConn]
  BY Zenon, <1>3, <1>4 DEF EwbFields
<1>6. /\ DOMAIN ew'.conn = EwbConns
      /\ DOMAIN ew'.conn[x] = EwbConnFields
      /\ ew'.conn[x].pc = "idle" /\ ew'.conn[x].of = NoEwbConn
      /\ \A d \in EwbConns \ {x} : ew'.conn[d] = ew.conn[d]
  BY ZenonT(40), <1>5 DEF EwbIInv, EwbTypes, EwbConnFields
<1>7. EwbTypes'
  <2>1. \A c \in EwbConns :
          /\ DOMAIN ew'.conn[c] = EwbConnFields
          /\ ew'.conn[c].of \in EwbConns \cup {NoEwbConn}
          /\ ew'.conn[c].pc = "resume" <=> ew'.conn[c].of # NoEwbConn
    BY Zenon, <1>6 DEF EwbIInv, EwbTypes
  <2>2. ew'.queue \in Seq(EwbConns)
    BY <1>5 DEF EwbIInv, EwbTypes
  <2>3. QED
    BY Zenon, <1>5, <1>6, <2>1, <2>2 DEF EwbIInv, EwbTypes
<1>8. ASSUME NEW c \in EwbConns PROVE EwbConnInv(c)'
  <2>1. Cardinality(InQueue(c)') = Cardinality(InQueue(c)) + IF c = y THEN 1 ELSE 0
    BY Zenon, <1>5, QueueGrows DEF EwbIInv
  <2>2. Cardinality(Resumers(c)') = Cardinality(Resumers(c)) - IF c = y THEN 1 ELSE 0
    BY <1>1, <1>6, ResumerLeaves DEF EwbIInv
  <2>3. /\ Cardinality(InQueue(c)) \in Nat /\ Cardinality(Resumers(c)) \in Nat
        /\ ew.woken[c] \in Nat
    BY Zenon, PendingFinite DEF EwbIInv
  <2>4. PendingFor(c)' = PendingFor(c)
    <3>1. ew'.cookie = ew.cookie /\ ew'.woken = ew.woken
      BY Zenon, <1>5
    <3>2. CASE c = y
      BY ONLY SMTT(30), <2>1, <2>2, <2>3, <3>1, <3>2 DEF PendingFor
    <3>3. CASE c # y
      BY ONLY SMTT(30), <2>1, <2>2, <2>3, <3>1, <3>3 DEF PendingFor
    <3>4. QED
      BY Zenon, <3>2, <3>3
  <2>5. \/ ew'.conn[c].pc = ew.conn[c].pc /\ ew'.mode[c] = ew.mode[c]
        \/ ew.conn[c].pc # "blocked" /\ ew'.conn[c].pc # "blocked"
    BY Zenon, <1>5, <1>6 DEF ResumeEnds
  <2>6. QED
    BY Zenon, <1>5, <2>4, <2>5, EwbConnKept DEF EwbIInv
<1>9. QED
  BY Zenon, <1>7, <1>8 DEF EwbIInv

\* The bottom of the loop of the thread, after a step that left a state in which
\* it has no cookie.
LEMMA DrainFields ==
  ASSUME NEW r, DOMAIN r = EwbFields, r.queue \in Seq(EwbConns), r.cookie = NoEwbConn,
         NEW q, q = Drain(r)
  PROVE  /\ DOMAIN q = EwbFields /\ q.suspended = r.suspended
         /\ q.woken = r.woken /\ q.early = r.early /\ q.mode = r.mode /\ q.conn = r.conn
         /\ \/ /\ r.queue # <<>> /\ q.queue = Tail(r.queue) /\ q.cookie = Head(r.queue)
               /\ q.thread = "notify"
            \/ /\ q.queue = r.queue /\ q.cookie = NoEwbConn /\ q.thread # "notify"
BY Zenon DEF Drain, EwbFields

\* The thread takes the next notification, or none is left.
LEMMA DrainPending ==
  ASSUME EwbTypes, NEW c \in EwbConns, ew'.woken = ew.woken,
         \A d \in EwbConns : ew'.conn[d].of = ew.conn[d].of,
         \/ /\ ew.queue # <<>> /\ ew'.queue = Tail(ew.queue) /\ ew'.cookie = Head(ew.queue)
         \/ /\ ew'.queue = ew.queue /\ ew'.cookie = NoEwbConn
  PROVE  PendingFor(c)' = PendingFor(c) - IF ew.cookie = c THEN 1 ELSE 0
<1>1. Resumers(c)' = Resumers(c)
  BY Zenon, ResumersStay
<1>2. /\ Cardinality(InQueue(c)) \in Nat /\ Cardinality(Resumers(c)) \in Nat
      /\ ew.woken[c] \in Nat
  BY Zenon, PendingFinite
<1>3. CASE ew.queue # <<>> /\ ew'.queue = Tail(ew.queue) /\ ew'.cookie = Head(ew.queue)
  <2>1. Cardinality(InQueue(c)) = Cardinality(InQueue(c)') + IF Head(ew.queue) = c THEN 1 ELSE 0
    BY Zenon, <1>3, QueueShrinks
  <2>2. Cardinality(InQueue(c)') \in Nat
    <3>1. ew'.queue \in Seq(EwbConns)
      BY <1>3 DEF EwbTypes
    <3>2. InQueue(c)' \in SUBSET (1 .. Len(ew'.queue)) /\ Len(ew'.queue) \in Nat
      BY <3>1 DEF InQueue
    <3>3. IsFiniteSet(1 .. Len(ew'.queue))
      BY <3>2, FS_Interval
    <3>4. IsFiniteSet(InQueue(c)')
      BY Zenon, <3>2, <3>3, FS_Subset
    <3>5. QED
      BY Zenon, <3>4, FS_CardinalityType
  <2>3. QED
    BY SMTT(30), <1>1, <1>2, <1>3, <2>1, <2>2 DEF PendingFor
<1>4. CASE ew'.queue = ew.queue /\ ew'.cookie = NoEwbConn
  <2>1. InQueue(c)' = InQueue(c)
    BY Zenon, <1>4 DEF InQueue
  <2>2. QED
    BY SMTT(30), <1>1, <1>2, <1>4, <2>1, EwbAssumption DEF PendingFor
<1>5. QED
  BY Zenon, <1>3, <1>4

\* The thread starts, waits, takes notifications and delivers them.
LEMMA ThreadKeeps ==
  ASSUME EwbIInv, process_notifications
  PROVE  EwbIInv'
<1>1. DOMAIN ew = EwbFields /\ ew.queue \in Seq(EwbConns)
  BY Zenon DEF EwbIInv, EwbTypes
<1>2. /\ ew.queue \in Seq(EwbConns)
      /\ ew.queue # <<>> => Head(ew.queue) \in EwbConns /\ Tail(ew.queue) \in Seq(EwbConns)
  BY <1>1
<1>3. CASE /\ ew.thread = "start"
           /\ ew' = [ew EXCEPT !.thread = IF ew.stop THEN "stopped" ELSE "locked"]
  <2>1. /\ DOMAIN ew' = EwbFields /\ ew'.thread # "notify"
        /\ ew'.queue = ew.queue /\ ew'.cookie = ew.cookie /\ ew'.suspended = ew.suspended
        /\ ew'.woken = ew.woken /\ ew'.early = ew.early /\ ew'.mode = ew.mode
        /\ ew'.conn = ew.conn
    BY Zenon, <1>1, <1>3 DEF EwbFields
  <2>2. QED
    BY Zenon, <1>3, <2>1, EwbQuiet
<1>4. CASE ew.thread = "locked" /\ ew' = [ew EXCEPT !.thread = "wait"]
  <2>1. /\ DOMAIN ew' = EwbFields /\ ew'.thread # "notify"
        /\ ew'.queue = ew.queue /\ ew'.cookie = ew.cookie /\ ew'.suspended = ew.suspended
        /\ ew'.woken = ew.woken /\ ew'.early = ew.early /\ ew'.mode = ew.mode
        /\ ew'.conn = ew.conn
    BY Zenon, <1>1, <1>4 DEF EwbFields
  <2>2. QED
    BY Zenon, <1>4, <2>1, EwbQuiet
<1>5. CASE ew.thread = "wait" /\ ew' = Drain([ew EXCEPT !.signal = FALSE])
  <2>1. PICK r : r = [ew EXCEPT !.signal = FALSE]
    BY Zenon
  <2>2. ew.cookie = NoEwbConn
    BY Zenon, <1>5 DEF EwbIInv, EwbTypes
  <2>3. /\ DOMAIN r = EwbFields /\ r.queue = ew.queue /\ r.cookie = NoEwbConn
        /\ r.suspended = ew.suspended /\ r.woken = ew.woken /\ r.early = ew.early
        /\ r.mode = ew.mode /\ r.conn = ew.conn
    BY Zenon, <1>1, <2>1, <2>2 DEF EwbFields
  <2>4. /\ DOMAIN ew' = EwbFields /\ ew'.suspended = ew.suspended /\ ew'.woken = ew.woken
        /\ ew'.early = ew.early /\ ew'.mode = ew.mode /\ ew'.conn = ew.conn
        /\ \/ /\ ew.queue # <<>> /\ ew'.queue = Tail(ew.queue) /\ ew'.cookie = Head(ew.queue)
              /\ ew'.thread = "notify"
           \/ /\ ew'.queue = ew.queue /\ ew'.cookie = NoEwbConn /\ ew'.thread # "notify"
    <3>1. PICK q : q = Drain(r) /\ ew' = q
      BY Zenon, <1>5, <2>1
    <3>2. r.queue \in Seq(EwbConns)
      BY Zenon, <1>1, <2>3
    <3>3. /\ DOMAIN q = EwbFields /\ q.suspended = r.suspended
          /\ q.woken = r.woken /\ q.early = r.early /\ q.mode = r.mode /\ q.conn = r.conn
          /\ \/ /\ r.queue # <<>> /\ q.queue = Tail(r.queue) /\ q.cookie = Head(r.queue)
                /\ q.thread = "notify"
             \/ /\ q.queue = r.queue /\ q.cookie = NoEwbConn /\ q.thread # "notify"
      BY <2>3, <3>1, <3>2, DrainFields
    <3>4. QED
      BY Zenon, <2>3, <3>1, <3>3
  <2>5. EwbTypes'
    <3>1. /\ ew'.queue \in Seq(EwbConns) /\ ew'.cookie \in EwbConns \cup {NoEwbConn}
          /\ ew'.thread = "notify" <=> ew'.cookie # NoEwbConn
      BY Zenon, <1>2, <2>4, EwbAssumption
    <3>2. QED
      BY Zenon, <2>4, <3>1 DEF EwbIInv, EwbTypes
  <2>6. ASSUME NEW c \in EwbConns PROVE EwbConnInv(c)'
    <3>1. PendingFor(c)' = PendingFor(c) - IF ew.cookie = c THEN 1 ELSE 0
      BY Zenon, <2>4, DrainPending DEF EwbIInv
    <3>2. PendingFor(c) \in Nat
      BY Zenon, PendingFinite DEF EwbIInv
    <3>3. PendingFor(c)' = PendingFor(c)
      BY SMTT(30), <2>2, <3>1, <3>2, EwbAssumption
    <3>4. QED
      BY Zenon, <2>4, <3>3, EwbConnKept DEF EwbIInv
  <2>7. QED
    BY Zenon, <2>5, <2>6 DEF EwbIInv
<1>6. CASE /\ ew.thread = "notify"
           /\ ew' = Drain([EwbNotified(ew, ew.cookie) EXCEPT !.cookie = NoEwbConn])
  <2>1. PICK y \in EwbConns : ew.cookie = y
    BY Zenon, <1>6 DEF EwbIInv, EwbTypes
  <2>2. PICK r : r = [EwbNotified(ew, y) EXCEPT !.cookie = NoEwbConn]
    BY Zenon
  <2>3. /\ DOMAIN r = EwbFields /\ r.queue = ew.queue /\ r.cookie = NoEwbConn
        /\ r.suspended = ew.suspended /\ r.woken = ew.woken /\ r.early = ew.early
        /\ r.mode = ew.mode
        /\ r.conn = IF ew.conn[y].pc = "blocked" THEN [ew.conn EXCEPT ![y].pc = "call"]
                    ELSE ew.conn
    BY Zenon, <1>1, <2>2 DEF EwbNotified, EwbFields
  <2>4. /\ DOMAIN ew' = EwbFields /\ ew'.suspended = ew.suspended /\ ew'.woken = ew.woken
        /\ ew'.early = ew.early /\ ew'.mode = ew.mode /\ ew'.conn = r.conn
        /\ \/ /\ ew.queue # <<>> /\ ew'.queue = Tail(ew.queue) /\ ew'.cookie = Head(ew.queue)
              /\ ew'.thread = "notify"
           \/ /\ ew'.queue = ew.queue /\ ew'.cookie = NoEwbConn /\ ew'.thread # "notify"
    <3>1. PICK q : q = Drain(r) /\ ew' = q
      BY Zenon, <1>6, <2>1, <2>2
    <3>2. r.queue \in Seq(EwbConns)
      BY Zenon, <1>1, <2>3
    <3>3. /\ DOMAIN q = EwbFields /\ q.suspended = r.suspended
          /\ q.woken = r.woken /\ q.early = r.early /\ q.mode = r.mode /\ q.conn = r.conn
          /\ \/ /\ r.queue # <<>> /\ q.queue = Tail(r.queue) /\ q.cookie = Head(r.queue)
                /\ q.thread = "notify"
             \/ /\ q.queue = r.queue /\ q.cookie = NoEwbConn /\ q.thread # "notify"
      BY SMTT(30), <2>3, <3>1, <3>2, DrainFields
    <3>4. QED
      BY Zenon, <2>3, <3>1, <3>3
  <2>5. /\ DOMAIN ew'.conn = EwbConns
        /\ \A d \in EwbConns \ {y} : ew'.conn[d] = ew.conn[d]
        /\ DOMAIN ew'.conn[y] = EwbConnFields /\ ew'.conn[y].of = ew.conn[y].of
        /\ ew'.conn[y].pc # "blocked"
        /\ ew.conn[y].pc # "blocked" => ew'.conn[y].pc = ew.conn[y].pc
        /\ ew.conn[y].pc = "blocked" => ew'.conn[y].pc = "call"
    BY <2>3, <2>4 DEF EwbIInv, EwbTypes, EwbConnFields
  <2>6. EwbTypes'
    <3>1. /\ ew'.queue \in Seq(EwbConns) /\ ew'.cookie \in EwbConns \cup {NoEwbConn}
          /\ ew'.thread = "notify" <=> ew'.cookie # NoEwbConn
      BY Zenon, <1>2, <2>4, EwbAssumption
    <3>2. \A c \in EwbConns :
            /\ DOMAIN ew'.conn[c] = EwbConnFields
            /\ ew'.conn[c].of \in EwbConns \cup {NoEwbConn}
            /\ ew'.conn[c].pc = "resume" <=> ew'.conn[c].of # NoEwbConn
      BY Zenon, <2>5 DEF EwbIInv, EwbTypes
    <3>3. QED
      BY Zenon, <2>4, <2>5, <3>1, <3>2 DEF EwbIInv, EwbTypes
  <2>7. ASSUME NEW c \in EwbConns PROVE EwbConnInv(c)'
    <3>1. PendingFor(c)' = PendingFor(c) - IF ew.cookie = c THEN 1 ELSE 0
      BY Zenon, <2>4, <2>5, DrainPending DEF EwbIInv
    <3>2. PendingFor(c) \in Nat /\ ew.early[c] \in Nat
      BY Zenon, PendingFinite DEF EwbIInv
    <3>3. CASE c = y
      <4>1. PendingFor(c)' = PendingFor(c) - 1
        BY Zenon, <2>1, <3>1, <3>3
      <4>2. is_connection_suspended(ew, c)' <=> is_connection_suspended(ew, c)
        BY Zenon, <2>4 DEF is_connection_suspended
      <4>3. ew'.conn[c].pc # "blocked" /\ ew'.early[c] = ew.early[c]
        BY Zenon, <2>4, <2>5, <3>3
      <4>4. EwbConnInv(c)
        BY Zenon DEF EwbIInv
      <4>5. QED
        BY SMTT(30), <3>2, <4>1, <4>2, <4>3, <4>4 DEF EwbConnInv
    <3>4. CASE c # y
      <4>1. PendingFor(c)' = PendingFor(c)
        BY SMTT(30), <2>1, <3>1, <3>2, <3>4
      <4>2. QED
        BY Zenon, <2>4, <2>5, <3>4, <4>1, EwbConnKept DEF EwbIInv
    <3>5. QED
      BY Zenon, <3>3, <3>4
  <2>8. QED
    BY Zenon, <2>6, <2>7 DEF EwbIInv
<1>7. QED
  BY Zenon, <1>3, <1>4, <1>5, <1>6 DEF process_notifications

\* What should_inject_error does: a suspended connection is only blocked; any other
\* call that is blocked is scheduled to be notified, unless its mode asks for none.
LEMMA InjectFacts ==
  ASSUME DOMAIN ew = EwbFields, NEW x \in EwbConns, NEW f, DOMAIN ew.mode = EwbConns,
         NEW o \in should_inject_error(ew, x, f)
  PROVE  /\ DOMAIN o.r = EwbFields
         /\ o.r.cookie = ew.cookie /\ o.r.thread = ew.thread
         /\ o.r.suspended = ew.suspended /\ o.r.woken = ew.woken
         /\ o.r.early = ew.early /\ o.r.conn = ew.conn
         /\ DOMAIN o.r.mode = EwbConns
         /\ \A d \in EwbConns \ {x} : o.r.mode[d] = ew.mode[d]
         /\ \/ /\ is_connection_suspended(ew, x) /\ o.r.queue = ew.queue
               /\ o.outcome = "EWOULDBLOCK"
            \/ /\ ~ is_connection_suspended(ew, x) /\ o.r.queue = Append(ew.queue, x)
               /\ o.outcome = "EWOULDBLOCK"
            \/ /\ ~ is_connection_suspended(ew, x) /\ o.r.queue = ew.queue
               /\ o.outcome = "EWOULDBLOCK" => ~ AddToPending(o.r.mode[x])
<1>1. CASE is_connection_suspended(ew, x)
  <2>1. o = [r |-> ew, outcome |-> "EWOULDBLOCK"]
    BY Zenon, <1>1 DEF should_inject_error
  <2>2. QED
    BY Zenon, <1>1, <2>1
<1>2. CASE ~ is_connection_suspended(ew, x)
  <2>1. PICK i \in Injections(ew.mode[x], f) :
          o = LET s == [ew EXCEPT !.mode[x] = i.mode]
              IN IF ~ i.inject THEN [r |-> s, outcome |-> "real"]
                 ELSE [r |-> IF i.mode.err = "EWOULDBLOCK" /\ AddToPending(i.mode)
                             THEN schedule_notification(s, x) ELSE s,
                       outcome |-> i.mode.err]
    BY Zenon, <1>2 DEF should_inject_error
  <2>2. PICK s : s = [ew EXCEPT !.mode[x] = i.mode]
    BY Zenon
  <2>3. /\ DOMAIN s = EwbFields /\ s.queue = ew.queue
        /\ s.cookie = ew.cookie /\ s.thread = ew.thread /\ s.suspended = ew.suspended
        /\ s.woken = ew.woken /\ s.early = ew.early /\ s.conn = ew.conn
        /\ DOMAIN s.mode = EwbConns /\ s.mode[x] = i.mode
        /\ \A d \in EwbConns \ {x} : s.mode[d] = ew.mode[d]
    BY Zenon, <2>2 DEF EwbFields
  <2>4. CASE i.inject /\ i.mode.err = "EWOULDBLOCK" /\ AddToPending(i.mode)
    <3>1. PICK q : q = schedule_notification(s, x)
      BY Zenon
    <3>2. /\ DOMAIN q = EwbFields /\ q.queue = Append(s.queue, x)
          /\ q.cookie = s.cookie /\ q.thread = s.thread /\ q.suspended = s.suspended
          /\ q.woken = s.woken /\ q.early = s.early /\ q.mode = s.mode /\ q.conn = s.conn
      BY <2>3, <3>1, ScheduledFields
    <3>3. o = [r |-> q, outcome |-> i.mode.err]
      BY Zenon, <2>1, <2>2, <2>4, <3>1
    <3>4. o.r = q /\ o.outcome = "EWOULDBLOCK"
      BY Zenon, <2>4, <3>3
    <3>5. QED
      BY Zenon, <1>2, <2>3, <3>2, <3>4
  <2>5. CASE ~ (i.inject /\ i.mode.err = "EWOULDBLOCK" /\ AddToPending(i.mode))
    <3>1. o.r = s
      BY Zenon, <2>1, <2>2, <2>5
    <3>2. o.outcome = "EWOULDBLOCK" => ~ AddToPending(i.mode)
      BY Zenon, <2>1, <2>5
    <3>3. QED
      BY Zenon, <1>2, <2>3, <3>1, <3>2
  <2>6. QED
    BY Zenon, <2>4, <2>5
<1>3. QED
  BY Zenon, <1>1, <1>2

\* A call of the server is blocked, fails or goes on to the real engine.
LEMMA EngineCallKeeps ==
  ASSUME EwbIInv, NEW x \in EwbConns, EngineCall(x)
  PROVE  EwbIInv'
<1> DEFINE left == Tail(ew.conn[x].left)
           GoesOn(o, ok) == o.outcome = "real" /\ ok /\ left # <<>>
           After(o, ok) ==
             [pc |-> CASE o.outcome = "EWOULDBLOCK" -> "blocked"
                       [] GoesOn(o, ok) -> "call"
                       [] OTHER -> "idle",
              left |-> CASE o.outcome = "EWOULDBLOCK" -> ew.conn[x].left
                         [] GoesOn(o, ok) -> left
                         [] OTHER -> <<>>,
              of |-> NoEwbConn]
<1>1. PICK o \in should_inject_error(ew, x, Head(ew.conn[x].left)), ok \in BOOLEAN :
        ew' = [o.r EXCEPT !.conn[x] = After(o, ok)]
  BY Zenon DEF EngineCall
<1>2. PICK n : n = After(o, ok)
  BY Zenon
<1>3. /\ DOMAIN n = EwbConnFields /\ n.of = NoEwbConn
      /\ n.pc \in {"blocked", "call", "idle"}
      /\ n.pc = "blocked" <=> o.outcome = "EWOULDBLOCK"
  BY Zenon, <1>2 DEF EwbConnFields
<1>4. ew' = [o.r EXCEPT !.conn[x] = n]
  BY Zenon, <1>1, <1>2
<1> HIDE DEF After
<1>5. DOMAIN ew = EwbFields /\ DOMAIN ew.mode = EwbConns /\ DOMAIN ew.conn = EwbConns
  BY Zenon DEF EwbIInv, EwbTypes
<1>6. PICK r : r = o.r
  BY Zenon
<1>7. /\ DOMAIN r = EwbFields
      /\ r.cookie = ew.cookie /\ r.thread = ew.thread /\ r.suspended = ew.suspended
      /\ r.woken = ew.woken /\ r.early = ew.early /\ r.conn = ew.conn
      /\ DOMAIN r.mode = EwbConns /\ \A d \in EwbConns \ {x} : r.mode[d] = ew.mode[d]
      /\ \/ /\ is_connection_suspended(ew, x) /\ r.queue = ew.queue
            /\ o.outcome = "EWOULDBLOCK"
         \/ /\ ~ is_connection_suspended(ew, x) /\ r.queue = Append(ew.queue, x)
            /\ o.outcome = "EWOULDBLOCK"
         \/ /\ ~ is_connection_suspended(ew, x) /\ r.queue = ew.queue
            /\ o.outcome = "EWOULDBLOCK" => ~ AddToPending(r.mode[x])
  BY <1>5, <1>6, InjectFacts
<1>8. /\ DOMAIN ew' = EwbFields /\ ew'.queue = r.queue
      /\ ew'.cookie = ew.cookie /\ ew'.thread = ew.thread /\ ew'.suspended = ew.suspended
      /\ ew'.woken = ew.woken /\ ew'.early = ew.early /\ ew'.mode = r.mode
      /\ ew'.conn = [ew.conn EXCEPT ![x] = n]
  BY Zenon, <1>4, <1>6, <1>7 DEF EwbFields
<1>9. /\ DOMAIN ew'.conn = EwbConns /\ ew'.conn[x] = n
      /\ \A d \in EwbConns \ {x} : ew'.conn[d] = ew.conn[d]
  BY Zenon, <1>5, <1>8
<1>10. ew.conn[x].pc = "call" /\ ew.conn[x].of = NoEwbConn
  BY Zenon DEF EngineCall, EwbIInv, EwbTypes
<1>11. \A d \in EwbConns : ew'.conn[d].of = ew.conn[d].of
  BY Zenon, <1>3, <1>9, <1>10
<1>12. EwbTypes'
  <2>1. \A c \in EwbConns :
          /\ DOMAIN ew'.conn[c] = EwbConnFields
          /\ ew'.conn[c].of \in EwbConns \cup {NoEwbConn}
          /\ ew'.conn[c].pc = "resume" <=> ew'.conn[c].of # NoEwbConn
    BY Zenon, <1>3, <1>9 DEF EwbIInv, EwbTypes
  <2>2. ew'.queue \in Seq(EwbConns)
    <3>1. ew.queue \in Seq(EwbConns)
      BY Zenon DEF EwbIInv, EwbTypes
    <3>2. ew'.queue = ew.queue \/ ew'.queue = Append(ew.queue, x)
      BY Zenon, <1>7, <1>8
    <3>3. QED
      BY SMTT(30), <3>1, <3>2
  <2>3. QED
    BY ZenonT(40), <1>7, <1>8, <1>9, <2>1, <2>2 DEF EwbIInv, EwbTypes
<1>13. ASSUME NEW c \in EwbConns, c # x PROVE EwbConnInv(c)'
  <2>1. InQueue(c)' = InQueue(c) \/ ew'.queue = Append(ew.queue, x)
    BY ZenonT(40), <1>7, <1>8 DEF InQueue
  <2>2. Cardinality(InQueue(c)) \in Nat
    BY Zenon, PendingFinite DEF EwbIInv
  <2>3. Cardinality(InQueue(c)') = Cardinality(InQueue(c))
    BY SMTT(30), <1>13, <2>1, <2>2, QueueGrows DEF EwbIInv
  <2>4. Resumers(c)' = Resumers(c)
    BY Zenon, <1>11, ResumersStay
  <2>5. PendingFor(c)' = PendingFor(c)
    BY Zenon, <1>8, <2>3, <2>4 DEF PendingFor
  <2>6. ew'.conn[c].pc = ew.conn[c].pc /\ ew'.mode[c] = ew.mode[c]
    BY Zenon, <1>7, <1>8, <1>9, <1>13
  <2>7. QED
    BY Zenon, <1>8, <2>5, <2>6, EwbConnKept DEF EwbIInv
<1>14. EwbConnInv(x)'
  <2>1. PendingFor(x) \in Nat /\ ew.early[x] \in Nat /\ PendingFor(x) <= ew.early[x]
    BY <1>10, PendingFinite DEF EwbIInv, EwbConnInv
  <2>2. is_connection_suspended(ew, x)' <=> is_connection_suspended(ew, x)
    BY Zenon, <1>8 DEF is_connection_suspended
  <2>3. ew'.early[x] = ew.early[x] /\ (ew'.conn[x].pc = "blocked" <=> o.outcome = "EWOULDBLOCK")
    BY ZenonT(40), <1>3, <1>8, <1>9
  <2>4. CASE r.queue = ew.queue
    <3>1. PendingFor(x)' = PendingFor(x)
      BY Zenon, <1>8, <1>11, <2>4, PendingStays
    <3>2. /\ ew'.conn[x].pc = "blocked" /\ AddToPending(ew'.mode[x]) =>
               is_connection_suspended(ew, x) \/ r.queue = Append(ew.queue, x)
      BY Zenon, <1>7, <1>8, <2>3
    <3>3. Append(ew.queue, x) # ew.queue
      BY DEF EwbIInv, EwbTypes
    <3>4. QED
      BY SMTT(30), <2>1, <2>2, <2>3, <2>4, <3>1, <3>2, <3>3 DEF EwbConnInv
  <2>5. CASE r.queue # ew.queue
    <3>1. /\ ~ is_connection_suspended(ew, x) /\ ew'.queue = Append(ew.queue, x)
          /\ ew'.conn[x].pc = "blocked"
      BY Zenon, <1>7, <1>8, <2>3, <2>5
    <3>2. Cardinality(InQueue(x)') = Cardinality(InQueue(x)) + 1
      BY Zenon, <3>1, QueueGrows DEF EwbIInv
    <3>3. Resumers(x)' = Resumers(x)
      BY Zenon, <1>11, ResumersStay
    <3>4. /\ Cardinality(InQueue(x)) \in Nat /\ Cardinality(Resumers(x)) \in Nat
          /\ ew.woken[x] \in Nat
      BY Zenon, PendingFinite DEF EwbIInv
    <3>5. PendingFor(x)' = PendingFor(x) + 1
      BY SMTT(30), <1>8, <3>2, <3>3, <3>4 DEF PendingFor
    <3>6. QED
      BY SMTT(30), <2>1, <2>2, <2>3, <3>1, <3>5 DEF EwbConnInv
  <2>6. QED
    BY Zenon, <2>4, <2>5
<1>15. QED
  BY Zenon, <1>12, <1>13, <1>14 DEF EwbIInv

\* Creation, the end and the file concern no notification.
LEMMA EwbLifeKeeps ==
  ASSUME EwbIInv, initialize \/ RemoveFile \/ destroy \/ Destroyed
  PROVE  EwbIInv'
<1>1. DOMAIN ew = EwbFields
  BY Zenon DEF EwbIInv, EwbTypes
<1>2. /\ DOMAIN ew' = EwbFields
      /\ ew'.queue = ew.queue /\ ew'.cookie = ew.cookie /\ ew'.suspended = ew.suspended
      /\ ew'.woken = ew.woken /\ ew'.early = ew.early /\ ew'.mode = ew.mode
      /\ ew'.conn = ew.conn /\ ew'.thread = ew.thread
  <2>1. CASE initialize
    BY Zenon, <1>1, <2>1 DEF initialize, EwbFields
  <2>2. CASE RemoveFile
    BY Zenon, <1>1, <2>2 DEF RemoveFile, EwbFields
  <2>3. CASE destroy
    BY Zenon, <1>1, <2>3 DEF destroy, EwbSignalled, EwbFields
  <2>4. CASE Destroyed
    BY Zenon, <1>1, <2>4 DEF Destroyed, EwbFields
  <2>5. QED
    BY Zenon, <2>1, <2>2, <2>3, <2>4
<1>3. QED
  BY Zenon, <1>2, EwbQuiet

\* A command starts.
LEMMA BeginsKeeps ==
  ASSUME EwbIInv, NEW x \in EwbConns, Begins(x)
  PROVE  EwbIInv'
<1>1. DOMAIN ew = EwbFields /\ DOMAIN ew.mode = EwbConns /\ DOMAIN ew.conn = EwbConns
  BY Zenon DEF EwbIInv, EwbTypes
<1>2. DOMAIN ew.conn[x] = EwbConnFields
  BY Zenon DEF EwbIInv, EwbTypes
<1>3. ew.conn[x].pc = "idle"
  BY Zenon DEF Begins
<1>4. /\ DOMAIN ew' = EwbFields
      /\ ew'.queue = ew.queue /\ ew'.cookie = ew.cookie /\ ew'.suspended = ew.suspended
      /\ ew'.woken = ew.woken /\ ew'.early = ew.early /\ ew'.mode = ew.mode
      /\ ew'.thread = ew.thread
      /\ DOMAIN ew'.conn = EwbConns /\ \A d \in EwbConns \ {x} : ew'.conn[d] = ew.conn[d]
      /\ DOMAIN ew'.conn[x] = EwbConnFields /\ ew'.conn[x].of = ew.conn[x].of
      /\ ew'.conn[x].pc = "call"
  <2>1. PICK cmd : ew' = [ew EXCEPT !.conn[x].pc = "call", !.conn[x].left = cmd, !.made = @ + 1]
    BY Zenon DEF Begins
  <2>2. QED
    BY Zenon, <1>1, <1>2, <2>1 DEF EwbFields, EwbConnFields
<1>5. PICK r : r = ew'.conn[x]
  BY Zenon
<1>6. QED
  BY Zenon, <1>1, <1>3, <1>4, <1>5, EwbUnblocked

\* The control commands.
LEMMA ControlKeeps ==
  ASSUME EwbIInv, NEW x \in EwbConns, unknown_command(x)
  PROVE  EwbIInv'
<1>1. /\ DOMAIN ew = EwbFields /\ DOMAIN ew.mode = EwbConns /\ DOMAIN ew.conn = EwbConns
      /\ DOMAIN ew.conn[x] = EwbConnFields
  BY Zenon DEF EwbIInv, EwbTypes
<1>2. ew.conn[x].pc = "idle"
  BY Zenon DEF unknown_command
<1>3. ASSUME NEW mode, ew' = Control([ew EXCEPT !.mode[x] = mode]) PROVE EwbIInv'
  <2>1. /\ DOMAIN ew' = EwbFields
        /\ ew'.queue = ew.queue /\ ew'.cookie = ew.cookie /\ ew'.suspended = ew.suspended
        /\ ew'.woken = ew.woken /\ ew'.early = ew.early /\ ew'.conn = ew.conn
        /\ ew'.thread = ew.thread /\ ew'.mode = [ew.mode EXCEPT ![x] = mode]
    BY Zenon, <1>1, <1>3 DEF Control, EwbFields
  <2>2. /\ DOMAIN ew'.mode = EwbConns /\ \A d \in EwbConns \ {x} : ew'.mode[d] = ew.mode[d]
    BY Zenon, <1>1, <2>1
  <2>3. PICK r : r = ew.conn[x]
    BY Zenon
  <2>4. QED
    BY Zenon, <1>1, <1>2, <2>1, <2>2, <2>3, EwbUnblocked
<1>5. ASSUME NEW id \in EwbIds, handleSuspend(x, id) \/ handleBlockMonitorFile(x, id)
      PROVE  EwbIInv'
  <2>1. ew.suspended[id] = NoEwbConn
    BY Zenon, <1>5 DEF handleSuspend, handleBlockMonitorFile
  <2>2. /\ DOMAIN ew' = EwbFields
        /\ ew'.queue = ew.queue /\ ew'.cookie = ew.cookie /\ ew'.thread = ew.thread
        /\ ew'.woken = ew.woken /\ ew'.early = ew.early /\ ew'.mode = ew.mode
        /\ ew'.conn = ew.conn /\ ew'.suspended = [ew.suspended EXCEPT ![id] = x]
    <3>1. CASE handleSuspend(x, id)
      BY Zenon, <1>1, <3>1 DEF handleSuspend, Suspend, Control, EwbFields
    <3>2. CASE handleBlockMonitorFile(x, id)
      BY Zenon, <1>1, <3>2 DEF handleBlockMonitorFile, Suspend, Control, EwbFields
    <3>3. QED
      BY Zenon, <1>5, <3>1, <3>2
  <2>3. QED
    BY Zenon, <1>2, <2>1, <2>2, SuspendKeeps
<1>6. ASSUME NEW id \in EwbIds, handleResume(x, id) PROVE EwbIInv'
  BY Zenon, <1>2, <1>6, HandleResumeKeeps
<1>7. QED
  BY Zenon, <1>3, <1>5, <1>6 DEF unknown_command

\* A new engine has nobody to notify.
LEMMA EwbStarts == EwbInit => EwbIInv
<1> SUFFICES ASSUME EwbInit PROVE EwbIInv
  BY Zenon
<1>1. /\ DOMAIN ew = EwbFields /\ ew.queue = <<>> /\ ew.cookie = NoEwbConn
      /\ ew.thread = "start" /\ ew.suspended = [id \in EwbIds |-> NoEwbConn]
      /\ ew.woken = [c \in EwbConns |-> 0] /\ ew.early = [c \in EwbConns |-> 0]
      /\ ew.mode = [c \in EwbConns |-> NoFault]
      /\ ew.conn = [c \in EwbConns |->
                     [pc |-> "idle", left |-> <<>>, of |-> NoEwbConn]]
  BY Zenon DEF EwbInit, EwbFields
<1>2. EwbTypes
  BY <1>1 DEF EwbTypes, EwbConnFields
<1>3. ASSUME NEW c \in EwbConns PROVE EwbConnInv(c)
  <2>1. InQueue(c) = {} /\ Resumers(c) = {}
    BY SMTT(30), <1>1, EwbAssumption DEF InQueue, Resumers
  <2>2. PendingFor(c) = 0
    BY SMTT(30), <1>1, <2>1, EwbAssumption, FS_EmptySet DEF PendingFor
  <2>3. ew.conn[c].pc = "idle" /\ ew.early[c] = 0
    BY <1>1
  <2>4. QED
    BY SMTT(30), <2>2, <2>3 DEF EwbConnInv
<1>4. QED
  BY Zenon, <1>2, <1>3 DEF EwbIInv

\* Every step keeps the invariant.
LEMMA EwbStep == EwbIInv /\ [EwbNext]_ew => EwbIInv'
<1> SUFFICES ASSUME EwbIInv, [EwbNext]_ew PROVE EwbIInv'
  BY Zenon
<1>1. CASE initialize \/ RemoveFile \/ destroy \/ Destroyed
  BY Zenon, <1>1, EwbLifeKeeps
<1>2. CASE process_notifications
  BY Zenon, <1>2, ThreadKeeps
<1>3. ASSUME NEW id \in EwbIds, BlockMonitor(id) PROVE EwbIInv'
  BY Zenon, <1>3, BlockMonitorKeeps
<1>4. ASSUME NEW c \in EwbConns, Begins(c) PROVE EwbIInv'
  BY Zenon, <1>4, BeginsKeeps
<1>5. ASSUME NEW c \in EwbConns, EngineCall(c) PROVE EwbIInv'
  BY <1>5, EngineCallKeeps
<1>6. ASSUME NEW c \in EwbConns, unknown_command(c) PROVE EwbIInv'
  BY SMTT(30), <1>6, ControlKeeps
<1>7. ASSUME NEW c \in EwbConns, ResumeEnds(c) PROVE EwbIInv'
  BY <1>7, ResumeEndsKeeps
<1>8. ASSUME NEW c \in EwbConns, MonitorEnds(c) PROVE EwbIInv'
  BY <1>8, MonitorEndsKeeps
<1>9. CASE UNCHANGED ew
  BY Zenon, <1>9, EwbQuiet DEF EwbIInv, EwbTypes
<1>10. QED
  BY ZenonT(40), <1>1, <1>2, <1>3, <1>4, <1>5, <1>6, <1>7, <1>8, <1>9 DEF EwbNext

(* For any finite set of connections and any ids the server is notified    *)
(* once for every call that was blocked, and superfluously only as often   *)
(* as somebody resumed a connection that did not wait for it               *)
(* (should_inject_error, resume).                                          *)
THEOREM NotifiedOnceAlways == EwbSpec => []NotifiedOncePerBlock
<1>1. EwbIInv => NotifiedOncePerBlock
  BY Zenon DEF EwbIInv, EwbConnInv, NotifiedOncePerBlock
<1>2. QED
  BY <1>1, EwbStarts, EwbStep, PTL DEF EwbSpec

=============================================================================
