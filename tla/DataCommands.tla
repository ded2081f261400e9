---------------------------- MODULE DataCommands ----------------------------
(***************************************************************************)
(* The commands that read and write documents: get, add, set, replace,     *)
(* append, prepend, delete, arithmetic and flush (mcbp_executors.cc), and  *)
(* the sub-document commands (subdocument.cc).  An action is a call of the *)
(* executor, from the result that was notified to the return.  The keys,   *)
(* the values and the paths are left out.                                  *)
(***************************************************************************)
EXTENDS Mcbp

GetCommands == {"GET", "GETQ", "GETK", "GETKQ"}
StoreCommands == {"ADD", "ADDQ", "SET", "SETQ", "REPLACE", "REPLACEQ"}
AppendCommands == {"APPEND", "APPENDQ", "PREPEND", "PREPENDQ"}
DeleteCommands == {"DELETE", "DELETEQ"}
ArithmeticCommands == {"INCREMENT", "INCREMENTQ", "DECREMENT", "DECREMENTQ"}
FlushCommands == {"FLUSH", "FLUSHQ"}
SubdocCommands == {"SUBDOC_GET", "SUBDOC_DICT_ADD", "SUBDOC_MULTI_LOOKUP",
                   "SUBDOC_MULTI_MUTATION"}
DataCommands == GetCommands \cup StoreCommands \cup AppendCommands
                  \cup DeleteCommands \cup ArithmeticCommands
                  \cup FlushCommands \cup SubdocCommands

QuietCommands ==
  {"GETQ", "GETKQ", "ADDQ", "SETQ", "REPLACEQ", "APPENDQ", "PREPENDQ",
   "DELETEQ", "INCREMENTQ", "DECREMENTQ", "FLUSHQ"}

\* The executors of commands with a quiet variant set noreply for either; those
\* of delete and flush set it for the quiet one only.
Quiet(x) ==
  [x EXCEPT !.noreply = IF x.cmd \in DeleteCommands \cup FlushCommands
                        THEN @ \/ x.cmd \in QuietCommands
                        ELSE x.cmd \in QuietCommands]

-----------------------------------------------------------------------------
(* get                                                                     *)

\* The engine returned an item: x holds a reference more.  The value may have
\* to be inflated, which formats the response in the dynamic buffer.
GetFound(x) ==
  LET inflate ==
        {Slipped(y) : y \in mcbp_write_packet(x, "EINTERNAL")}
          \cup {Released(y) : y \in mcbp_write_and_free(Appended(x, "ok"))}
      send ==
        {Slipped(Closing(x)),
         [Transmit(x, "ok") EXCEPT !.item = TRUE, !.slip = x.slip \/ x.item]}
  IN  mcbp_write_packet(Released(x), "EINTERNAL") \cup send
        \cup inflate

GetMissed(x) ==
  CASE x.noreply -> {NewCmd(x)}
    [] x.cmd \in {"GETK", "GETKQ"} -> {Closing(x), Transmit(x, "error")}
    [] OTHER -> mcbp_write_packet(x, "KEY_ENOENT")

process_bin_get ==
  /\ Executing(GetCommands)
  /\ \E r \in Ret(c) :
       LET x == Acted(Quiet(c), r)
       IN  c' \in (IF r = "KEY_ENOENT" THEN GetMissed(x)
                   ELSE Finish(x, r, GetFound(Taken(x))))

-----------------------------------------------------------------------------
(* add, set and replace                                                    *)

\* The item is kept while the store waits, and released otherwise.
ForgottenAfterStore(y) == IF y.waits THEN y ELSE [y EXCEPT !.item = FALSE]
AfterStore(y) == IF y.waits THEN y ELSE ItemReleased(y)

\* bucket_store and the response.  When the sequence number cannot be found the
\* item is released but not forgotten.
StoreItem(x, ret) ==
  UNION {LET y == Acted(x, r)
             noInfo == {Slipped(Released(z)) :
                          z \in mcbp_write_packet(y, "EINTERNAL")}
         IN  {AfterStore(z) : z \in Finish(y, r, mcbp_write_response(y))}
               \cup (IF r = "SUCCESS" THEN noInfo ELSE {})
         : r \in IF ret = "SUCCESS" THEN Engine(x) ELSE {ret}}

\* The item is allocated unless the request already has one.
add_set_replace_executor ==
  /\ Executing(StoreCommands)
  /\ IF c.item
     THEN c' \in StoreItem(Acted(Quiet(c), c.aiostat), c.aiostat)
     ELSE \E r \in Ret(c) :
            LET x == Acted(Quiet(c), r)
                y == [Taken(x) EXCEPT !.item = TRUE]
            IN  c' \in Finish(x, r,
                         mcbp_write_packet(x, "EINTERNAL") \* no item info
                           \cup {Closing(ItemReleased(y))} \* no memory
                           \cup StoreItem(y, "SUCCESS"))

-----------------------------------------------------------------------------
(* append and prepend: AppendPrependCommandContext                         *)

\* The end of append_prepend_executor.
AppendEnds(x, r) ==
  CASE r = "EWOULDBLOCK" -> {[Blocked(Acted(x, r)) EXCEPT !.aiostat = r]}
    [] r = "DISCONNECT" -> {Closing(Acted(x, r))}
    [] r = "KEY_ENOENT" -> mcbp_write_packet(Acted(x, r), "NOT_STORED")
    [] OTHER -> mcbp_write_packet(Acted(x, r), r)

\* A conflict with another client resets the context, if the client gave no
\* CAS; EEXISTS is returned either way.
storeItem(x) ==
  UNION {CASE r = "SUCCESS" ->
                mcbp_write_response([Acted(x, r) EXCEPT !.ctx.at = "Done"])
                  \cup AppendEnds(x, "FAILED")
           [] r = "KEY_EEXISTS" /\ x.arg # "cas" ->
                AppendEnds([x EXCEPT !.ctx.at = "Reset"], r)
           [] OTHER -> AppendEnds(x, r)
         : r \in Engine(x)}

allocateNewItem(x) ==
  UNION {IF r # "SUCCESS" THEN AppendEnds(x, r)
         ELSE LET y == [Taken(x) EXCEPT !.ctx.new = TRUE]
              IN  AppendEnds(y, "FAILED")
                    \cup storeItem([y EXCEPT !.ctx.at = "StoreItem"])
         : r \in Engine(x)}

getItem(x) ==
  UNION {IF r # "SUCCESS" THEN AppendEnds(x, r)
         ELSE LET y == [Taken(x) EXCEPT !.ctx.old = TRUE]
              IN  AppendEnds(y, "FAILED")
                    \cup (IF x.arg = "cas" THEN AppendEnds(y, "KEY_EEXISTS")
                          ELSE {})
                    \cup allocateNewItem(
                           [y EXCEPT !.ctx.at = "AllocateNewItem"])
         : r \in Engine(x)}

inflateInputData(x) ==
  AppendEnds(x, "TMPFAIL") \cup getItem([x EXCEPT !.ctx.at = "GetItem"])

\* step(): the states that follow each other in one call.
AppendStep(x) ==
  CASE x.ctx.at = "InflateInputData" -> inflateInputData(x)
    [] x.ctx.at = "GetItem" -> getItem(x)
    [] x.ctx.at = "AllocateNewItem" -> allocateNewItem(x)
    [] x.ctx.at = "StoreItem" -> storeItem(x)

\* The context of an earlier command would be taken for one of append: what
\* follows is undefined and not modelled.
append_prepend_executor ==
  /\ Executing(AppendCommands)
  /\ LET first == IF c.arg = "compressed" THEN "InflateInputData" ELSE "GetItem"
         x == IF c.ctx.kind # "none" THEN Quiet(c)
              ELSE [Quiet(c) EXCEPT !.ctx.kind = "append", !.ctx.at = first]
     IN  IF c.ctx.kind \notin {"none", "append"}
         THEN c' = [c EXCEPT !.state = "undefined"]
         ELSE c' \in (IF c.aiostat # "SUCCESS" THEN AppendEnds(x, c.aiostat)
                      ELSE AppendStep(x))

-----------------------------------------------------------------------------
(* delete, increment and decrement, flush                                  *)

delete_executor ==
  /\ Executing(DeleteCommands)
  /\ \E r \in Ret(c) :
       LET x == Acted(Quiet(c), r)
       IN  c' \in (CASE r = "SUCCESS" -> mcbp_write_response(x)
                     [] r = "EWOULDBLOCK" -> {Blocked(x)}
                     [] r \in {"KEY_ENOENT", "KEY_EEXISTS", "NOT_MY_VBUCKET"} ->
                          mcbp_write_packet(x, r)
                     [] OTHER -> mcbp_write_packet(x, "EINVAL"))

\* The engine returns an item, which is released after the response is formed.
arithmetic_executor ==
  /\ Executing(ArithmeticCommands)
  /\ IF c.arg = "cas"
     THEN c' \in mcbp_write_packet(Begun(Quiet(c)), "EINVAL")
     ELSE \E r \in Ret(c) :
            LET x == Acted(Quiet(c), r)
                answered == mcbp_write_packet(Taken(x), "EINTERNAL")
                              \cup mcbp_write_response(Taken(x))
            IN  c' \in (IF r \in {"FAILED", "ROLLBACK"} THEN {Closing(x)}
                        ELSE Finish(x, r, {Released(y) : y \in answered}))

\* A flush that waits is answered by conn_flush.  A result that is left over in
\* aiostat is not looked at.
flush_executor ==
  /\ Executing(FlushCommands)
  /\ \E r \in Engine(c) :
       LET x == [Begun(Quiet(c)) EXCEPT !.ret = r]
       IN  c' \in (IF r = "EWOULDBLOCK"
                   THEN {[Blocked(x) EXCEPT !.state = "flush"]}
                   ELSE Finish(x, r, mcbp_write_response(x)))

conn_flush ==
  /\ Resumed("flush")
  /\ c' \in Finish(Acted(c, c.aiostat), c.aiostat,
                   mcbp_write_response(Acted(c, c.aiostat)))

-----------------------------------------------------------------------------
(* Sub-document commands                                                   *)

Mutator(x) == x.cmd \in {"SUBDOC_DICT_ADD", "SUBDOC_MULTI_MUTATION"}
Multi(x) == x.cmd \in {"SUBDOC_MULTI_LOOKUP", "SUBDOC_MULTI_MUTATION"}

\* A step of an attempt ends with one of these: "on" to the next step, "conflict"
\* when the document was changed meanwhile, "over" when the executor returns.
Ends(kind, xs) == {[kind |-> kind, x |-> y] : y \in xs}

GoOn(ends, Step(_)) == UNION {IF s.kind = "on" THEN Step(s.x) ELSE {s} : s \in ends}

\* The document is fit for the operation, perhaps after it has been inflated
\* into the dynamic buffer; or the request fails: no JSON, another CAS, ...
get_document_for_searching(x) ==
  LET y == [x EXCEPT !.ctx.at = "doc"]
  IN  Ends("on", {y, [y EXCEPT !.dyn = "document"]})
        \cup Ends("over", mcbp_write_packet(x, "SUBDOC_DOC_NOTJSON"))

\* The document is read once.  If there is none, a new one may be made.
subdoc_fetch(x, ret) ==
  LET prepared(y) == IF y.ctx.at = "start" THEN get_document_for_searching(y)
                     ELSE Ends("on", {y})
      results == IF ret = "SUCCESS" THEN Engine(x) ELSE {ret}
      fetched(r) ==
        LET y == Acted(x, r)
        IN  CASE r = "KEY_ENOENT" /\ x.arg = "mkdoc" ->
                   Ends("on", {[y EXCEPT !.ctx.at = "newdoc"]})
              [] r = "SUCCESS" -> prepared([Taken(y) EXCEPT !.item = TRUE])
              [] OTHER -> Ends("over", Finish(y, r, {}))
  IN  IF x.item \/ x.ctx.at = "newdoc" THEN prepared(x)
      ELSE UNION {fetched(r) : r \in results}

\* The operations are applied unless they have been.
OperateAgain(x) == TRUE
Unexecuted(x) == ~x.ctx.executed

subdoc_operate(x) ==
  LET applied == [x EXCEPT !.ctx.ops = @ + 1, !.ctx.executed = TRUE]
      failed == [x EXCEPT !.ctx.ok = FALSE, !.ctx.executed = ~Mutator(x)]
  IN  IF ~Unexecuted(x) THEN Ends("on", {x})
      ELSE Ends("on", {applied} \cup {y \in {failed} : Multi(x)})
             \cup Ends("over", mcbp_write_packet(x, "SUBDOC_PATH_ENOENT"))

\* The changed document is allocated once and stored; a conflict is left to the
\* caller.
subdoc_update(x, ret) ==
  LET failed(y, r) == Ends("over", Finish(y, r, {}))
      internal(y) == Ends("over", mcbp_write_packet(y, "EINTERNAL"))
      stored(y) ==
        UNION {LET z == Acted(y, r)
               IN  CASE r = "KEY_EEXISTS" -> Ends("conflict", {z})
                     [] r = "SUCCESS" -> Ends("on", {z}) \cup internal(z)
                     [] OTHER -> failed(z, r)
               : r \in Engine(y)}
      allocated(r) ==
        LET y == [Taken(Acted(x, r)) EXCEPT !.ctx.new = TRUE]
        IN  IF r = "SUCCESS" THEN internal(y) \cup stored(y)
            ELSE failed(Acted(x, r), r)
  IN  CASE ~Mutator(x) \/ ~x.ctx.ok -> Ends("on", {x})
        [] Mutator(x) /\ x.ctx.ok /\ x.ctx.new -> stored(x)
        [] OTHER -> UNION {allocated(r) :
                             r \in IF ret = "SUCCESS" THEN Engine(x) ELSE {ret}}

\* write_and_go is left as it is.
subdoc_response(x) ==
  {Closing(x), Transmit(x, "ok")} \cup mcbp_write_packet(x, "ENOMEM")

\* A conflict is retried with a new context, unless the client gave a CAS.
RetriesForever(x) == TRUE
RetryAgain(x) == x.attempts + 1 < MaxAttempts

SubdocConflict(x) ==
  IF x.arg = "cas" THEN mcbp_write_packet(x, "KEY_EEXISTS")
  ELSE LET y == [ItemReleased(x) EXCEPT !.held = @ - 1, !.ctx = NoCtx]
       IN  IF RetryAgain(x)
           THEN {[y EXCEPT !.attempts = (@ + 1) % MaxAttempts]}
           ELSE mcbp_write_packet([y EXCEPT !.attempts = 0], "TMPFAIL")

subdoc_create_context(x) == [x EXCEPT !.ctx.kind = "subdoc", !.ctx.at = "start"]

\* One attempt.
subdoc_executor ==
  /\ Executing(SubdocCommands)
  /\ LET x == IF c.ctx.kind = "subdoc" THEN Acted(c, c.aiostat)
              ELSE subdoc_create_context(Acted(c, c.aiostat))
         updated == GoOn(GoOn(subdoc_fetch(x, c.aiostat), subdoc_operate),
                         LAMBDA y : subdoc_update(y, c.aiostat))
         outcome(s) ==
           CASE s.kind = "on" -> subdoc_response([s.x EXCEPT !.attempts = 0])
             [] s.kind = "conflict" -> SubdocConflict(s.x)
             [] s.kind = "over" -> {s.x}
     IN  c' \in {IF y.state = "nread" THEN y ELSE [y EXCEPT !.attempts = 0] :
                   y \in UNION {outcome(s) : s \in updated}}

=============================================================================
