---------------------------- MODULE WorkerSession ----------------------------
(***************************************************************************)
(* One worker thread and its PostgreSQL session: the operations it takes   *)
(* from its channel (execute_operation and LibpqBackend in worker.rs), the *)
(* catalog snapshot of get_schema (schema.rs), the send, flush, collect,   *)
(* cancel and drain loops of the adapter (libpq.rs), and what it publishes *)
(* about the handle afterwards.                                            *)
(*                                                                         *)
(* The worker owns the connection; what runs beside it is the server,      *)
(* which may answer, refuse, stay silent or die, and three flags that turn *)
(* true at any time: the caller's cancellation, the deadline and the       *)
(* process-wide stop.  Calls arrive one after another, as the channel      *)
(* delivers them; CoreRegistry models the channel.                         *)
(***************************************************************************)
EXTENDS HandleProtocol, Naturals

CONSTANTS
  MaxCatalog,         \* bound: committed catalog changes in a behaviour
  RawTransactionSql,  \* clients also send COMMIT and ROLLBACK through query
  NarrowCells         \* cell_bytes is less than the length of a command tag

ASSUME SessionAssumption ==
  /\ MaxCatalog \in Nat
  /\ RawTransactionSql \in BOOLEAN
  /\ NarrowCells \in BOOLEAN

VARIABLES
  \* the server's side of the session
  alive,        \* the server process is there
  tx,           \* transaction status in the server's last answer
  origin,       \* what began the open transaction
  ddl,          \* the open transaction changed the catalog
  catalog,      \* version of the committed catalog
  pending,      \* statement the server has and has not answered
  result,       \* its answer, not yet read by the client
  \* the client's side: PGconn and the adapter's loop variables
  link,         \* "ok", "sent", "undrained", "bad" or "none"
  command,      \* statement the adapter is working on
  firstError,   \* first_error of collect_results
  cancelling,   \* PQcancel: "no", "dispatched" or "failed"
  returned,     \* what the adapter returned for the command
  \* the handle's entry in the registry, which list_handles shows
  entry,
  \* the call
  pc, op, verdict, cancelled, expired, stopping,
  \* history: the entry at the last answer; the catalog version the client last
  \* saw; direct DDL since then was committed by a query or lost its tag; what
  \* became of a transaction during the last call; COMMITs sent for the open
  \* transaction
  shown, seen, untold, effect, commits

serverVars == <<alive, tx, origin, ddl, catalog, pending, result, effect>>
wireVars   == <<link, command, firstError, cancelling, returned>>
flagVars   == <<cancelled, expired, stopping>>
callVars   == <<pc, op, verdict>>
shownVars  == <<entry, shown, seen, untold>>
vars == <<serverVars, wireVars, flagVars, callVars, shownVars, commits>>

Begins == {"begin_read", "begin_write", "begin_schema"}
Commits == {"commit", "raw_commit", "commit_schema"}
Rollbacks == {"rollback", "raw_rollback", "rollback_schema"}
Commands == Begins \cup Commits \cup Rollbacks \cup {"catalog", "row", "ddl"}

\* Statements of a query operation.
Statements ==
  {"row", "ddl"} \cup IF RawTransactionSql THEN {"raw_commit", "raw_rollback"} ELSE {}

\* PQtransactionStatus and PQstatus.  Between a send and the final NULL result
\* the status is Active whatever the server does.
Native ==
  CASE link = "ok" -> tx
    [] link \in {"sent", "undrained"} -> "Active"
    [] link \in {"bad", "none"} -> "Unknown"

\* Mutant: the adapter's Closed reaches the registry unmapped.
NativeConnectionUnmapped ==
  CASE link \in {"ok", "sent", "undrained"} -> "Ok"
    [] link = "bad" -> "Bad"
    [] link = "none" -> "Closed"

NativeConnection ==
  CASE link \in {"ok", "sent", "undrained"} -> "Ok"
    [] link = "bad" -> "Bad"
    [] link = "none" -> "Unknown"

Init ==
  /\ alive = TRUE
  /\ tx = "Idle"
  /\ origin = "none"
  /\ ddl = FALSE
  /\ catalog = 0
  /\ pending = "none"
  /\ result = "none"
  /\ link = "ok"
  /\ command = "none"
  /\ firstError = "none"
  /\ cancelling = "no"
  /\ returned = "none"
  /\ entry = FreshHandle
  /\ shown = FreshHandle
  /\ pc = "idle"
  /\ op = "none"
  /\ verdict = "none"
  /\ cancelled = FALSE
  /\ expired = FALSE
  /\ stopping = FALSE
  /\ seen = 0
  /\ untold = FALSE
  /\ effect = "none"
  /\ commits = 0

-----------------------------------------------------------------------------
(* The server.  It is obliged to nothing.                                  *)

Answer(r) ==
  /\ alive
  /\ pending # "none"
  /\ result = "none"
  /\ result' = r
  /\ pending' = "none"
  /\ untold' = (untold \/ (r = "ok" /\ pending = "raw_commit" /\ ddl))
  /\ UNCHANGED <<alive, wireVars, flagVars, callVars, entry, shown, seen, commits>>

ServerBegins ==
  /\ pending \in Begins
  /\ tx = "Idle"
  /\ Answer("ok")
  /\ tx' = "InTransaction"
  /\ origin' = pending
  /\ UNCHANGED <<ddl, catalog, effect>>

\* A statement runs; only a read-write transaction can change the catalog.
ServerRuns ==
  /\ pending \in {"catalog", "row", "ddl"}
  /\ tx = "InTransaction"
  /\ Answer("ok")
  /\ \/ pending # "ddl" /\ UNCHANGED ddl
     \/ /\ pending = "ddl"
        /\ origin = "begin_write"
        /\ catalog < MaxCatalog
        /\ ddl' = TRUE
  /\ UNCHANGED <<tx, origin, catalog, effect>>

ServerCommits ==
  /\ pending \in Commits
  /\ tx = "InTransaction"
  /\ Answer("ok")
  /\ tx' = "Idle"
  /\ origin' = "none"
  /\ ddl' = FALSE
  /\ catalog' = IF ddl THEN catalog + 1 ELSE catalog
  /\ effect' = "committed"

Abort ==
  /\ tx' = "Idle"
  /\ origin' = "none"
  /\ ddl' = FALSE
  /\ effect' = IF tx = "Idle" THEN effect ELSE "aborted"

ServerRollsBack ==
  /\ pending \in Rollbacks
  /\ Answer("ok")
  /\ Abort
  /\ UNCHANGED catalog

\* An error: of the statement, of a deferred constraint, or our own cancel.
ServerRejects ==
  /\ pending \notin Rollbacks
  /\ Answer("error")
  /\ \/ pending \in Commits /\ Abort
     \/ /\ pending \notin Commits
        /\ tx' = IF tx = "Idle" THEN "Idle" ELSE "InError"
        /\ UNCHANGED <<origin, ddl, effect>>
  /\ UNCHANGED catalog

\* The server or the path to it goes away, perhaps with an answer that was on
\* its way; an open transaction is aborted, and the client's last known status
\* stays what it was.
ServerDies ==
  /\ alive
  /\ alive' = FALSE
  /\ pending' = "none"
  /\ result' \in {result, "none"}
  /\ effect' = IF tx = "Idle" THEN effect ELSE "aborted"
  /\ UNCHANGED <<tx, origin, ddl, catalog, wireVars, flagVars, callVars, shownVars,
                 commits>>

-----------------------------------------------------------------------------
(* The flags of RequestContext.                                            *)

Busy == pc \notin {"idle", "closed"}

\* The outcome of the call is decided and its reply not yet sent.  What becomes
\* of its context then is seen by nobody, and left out.
Publishing == pc \in {"publish", "observe", "settle", "answer"}

ClientCancels ==
  /\ Busy /\ ~Publishing
  /\ op # "shutdown"
  /\ ~cancelled
  /\ cancelled' = TRUE
  /\ UNCHANGED <<serverVars, wireVars, expired, stopping, callVars, shownVars,
                 commits>>

DeadlineExpires ==
  /\ Busy /\ ~Publishing
  /\ ~expired
  /\ expired' = TRUE
  /\ UNCHANGED <<serverVars, wireVars, cancelled, stopping, callVars, shownVars,
                 commits>>

StopRequested ==
  /\ ~stopping
  /\ stopping' = TRUE
  /\ UNCHANGED <<serverVars, wireVars, cancelled, expired, callVars, shownVars,
                 commits>>

\* LibpqControl, or NoClientCancelControl for commit and rollback; the
\* Shutdown request has a context of its own, whose stop token nobody cancels.
Interrupted ==
  \/ expired
  \/ op # "shutdown" /\ (stopping \/ (op \notin {"commit", "rollback"} /\ cancelled))

-----------------------------------------------------------------------------
(* The adapter: send_query and send_and_collect, flush_output and          *)
(* collect_results.  A command ends with `returned`: "ok", "error" (its    *)
(* outcome known) or "unknown".                                            *)

Return(outcome) ==
  /\ returned' = outcome
  /\ pc' = "returned"

\* check_control before the send: nothing is sent.
RefuseSend ==
  /\ pc = "send"
  /\ Interrupted
  /\ Return("error")
  /\ UNCHANGED <<serverVars, link, command, firstError, cancelling, flagVars, op,
                 verdict, shownVars, commits>>

\* PQsendQueryParams fails: no connection, results of an earlier command still
\* undrained, or a dead server.
SendFails ==
  /\ pc = "send"
  /\ ~Interrupted
  /\ link # "ok" \/ ~alive
  /\ link' = IF link = "ok" THEN "bad" ELSE link
  /\ Return("error")
  /\ UNCHANGED <<serverVars, command, firstError, cancelling, flagVars, op,
                 verdict, shownVars, commits>>

Send ==
  /\ pc = "send"
  /\ ~Interrupted
  /\ link = "ok"
  /\ link' = "sent"
  /\ pending' = IF alive THEN command ELSE "none"
  /\ result' = "none"
  /\ firstError' = "none"
  /\ cancelling' = "no"
  /\ commits' = CASE command \in Begins -> 0
                  [] command = "commit" -> commits + 1
                  [] OTHER -> commits
  /\ pc' = "flush"
  /\ UNCHANGED <<alive, tx, origin, ddl, catalog, effect, command, returned,
                 flagVars, op, verdict, shownVars>>

\* check_control at the top of flush_output: the command is out, its results
\* are never read, and the outcome is reported as known.
AbandonFlush ==
  /\ pc = "flush"
  /\ Interrupted
  /\ link' = "undrained"
  /\ Return("error")
  /\ UNCHANGED <<serverVars, command, firstError, cancelling, flagVars, op,
                 verdict, shownVars, commits>>

Flushed ==
  /\ pc = "flush"
  /\ ~Interrupted
  /\ pc' = "collect"
  /\ UNCHANGED <<serverVars, wireVars, flagVars, op, verdict, shownVars, commits>>

\* Output stays pending until the deadline, or the connection breaks.
FlushFails ==
  /\ pc = "flush"
  /\ \/ expired /\ link' = "undrained"
     \/ ~alive /\ link' = "bad"
  /\ Return("unknown")
  /\ UNCHANGED <<serverVars, command, firstError, cancelling, flagVars, op,
                 verdict, shownVars, commits>>

\* Top of the loop: an interruption is recorded once, and a cancel dispatched.
\* A cancel that cannot be dispatched disposes of the connection.
DispatchCancel ==
  /\ pc = "collect"
  /\ firstError = "none"
  /\ Interrupted
  /\ firstError' = "interrupted"
  /\ \/ /\ cancelling' = "dispatched"
        /\ UNCHANGED <<link, returned, pc>>
     \/ /\ cancelling' = "failed"
        /\ link' = "none"
        /\ Return("unknown")
  /\ UNCHANGED <<serverVars, command, flagVars, op, verdict, shownVars, commits>>

\* The tag of a statement of the client counts as a cell of its result, which may
\* be more than a cell may hold.
TagOverflows == NarrowCells /\ command \in Statements /\ result = "ok"

\* PQconsumeInput and PQisBusy: part of the answer has arrived, the connection
\* is lost, or there is nothing yet.
Collect ==
  /\ pc = "collect"
  /\ ~(firstError = "none" /\ Interrupted)
  /\ \/ pc' = "read" /\ UNCHANGED <<link, returned>>
     \/ result = "none" /\ ~alive /\ link' = "bad" /\ Return("unknown")
     \/ result = "none" /\ alive /\ pc' = "poll" /\ UNCHANGED <<link, returned>>
  /\ UNCHANGED <<serverVars, command, firstError, cancelling, flagVars, op,
                 verdict, shownVars, commits>>

\* The rest of the answer, to the final NULL.  PQgetResult blocks until the
\* server completes it or goes away: neither the control nor the deadline is
\* looked at.  A connection lost here is one more result, an error.
Retrieve ==
  /\ pc = "read"
  /\ \/ /\ result # "none"
        /\ link' = "ok"
        /\ \/ firstError = "interrupted" /\ Return("unknown")
           \/ firstError = "limit" /\ Return("error")
           \/ firstError = "none" /\ TagOverflows /\ Return("error")
           \/ firstError = "none" /\ Return(result)
     \/ /\ result = "none"
        /\ ~alive
        /\ link' = "bad"
        /\ Return(IF firstError = "interrupted" THEN "unknown" ELSE "error")
  /\ untold' = (untold \/ (command = "ddl" /\ returned' = "error" /\ result = "ok"))
  /\ UNCHANGED <<serverVars, command, firstError, cancelling, flagVars, op,
                 verdict, entry, shown, seen, commits>>

\* Rows, which direct DDL has none of, overflow a limit: the rest is drained.
Overflow ==
  /\ pc = "read"
  /\ command \in {"row", "catalog"}
  /\ firstError = "none"
  /\ firstError' = "limit"
  /\ UNCHANGED <<serverVars, link, command, cancelling, returned, flagVars,
                 callVars, shownVars, commits>>

\* The statement starts a COPY: the connection is disposed of.
RefuseCopy ==
  /\ pc = "read"
  /\ command = "row"
  /\ result = "none"
  /\ link' = "none"
  /\ Return("unknown")
  /\ UNCHANGED <<serverVars, command, firstError, cancelling, flagVars, op,
                 verdict, shownVars, commits>>

\* poll_fd waits for the socket or the drain deadline; it is not given the
\* control, so cancellation and stop are not seen here.
Readable ==
  /\ pc = "poll"
  /\ result # "none" \/ ~alive
  /\ pc' = "collect"
  /\ UNCHANGED <<serverVars, wireVars, flagVars, op, verdict, shownVars, commits>>

\* Notices or bytes of an answer arrive.
Traffic ==
  /\ pc = "poll"
  /\ alive
  /\ result = "none"
  /\ pc' = "collect"
  /\ UNCHANGED <<serverVars, wireVars, flagVars, op, verdict, shownVars, commits>>

\* The wait ends without a result, and the connection is disposed of.
EndPoll(over) ==
  /\ pc = "poll"
  /\ over
  /\ link' = "none"
  /\ Return("unknown")
  /\ UNCHANGED <<serverVars, command, firstError, cancelling, flagVars, op,
                 verdict, shownVars, commits>>

\* Mutant: only the grace after a cancel bounds the wait.
PollFailsInGrace == EndPoll(~alive \/ firstError = "interrupted")

\* poll_fd fails: the socket hangs up, or drain_deadline passes, which is the
\* deadline or the end of the grace after a cancel.
PollFails == EndPoll(~alive \/ expired \/ firstError = "interrupted")

-----------------------------------------------------------------------------
(* Operations: worker_loop, execute_operation and LibpqBackend.            *)

\* The verdict of an operation: "refused" before anything was sent, "failed"
\* with a known and "unknown" with an unknown outcome, "ok" or "noop"; for a
\* Shutdown request "verified" or "uncertain".
Decide(v) ==
  /\ verdict' = v
  /\ pc' = "publish"

\* execute_operation returns early and writes nothing itself.
Refuse(v) ==
  /\ verdict' = v
  /\ pc' = "observe"

\* The next command of an operation.
Issue(c) ==
  /\ command' = c
  /\ pc' = "send"

Dequeue(o) ==
  /\ pc = "idle"
  /\ o = "shutdown" => stopping
  /\ op' = o
  /\ pc' = IF o = "shutdown" THEN "begin" ELSE "check"
  /\ verdict' = "none"
  /\ effect' = "none"
  /\ UNCHANGED <<alive, tx, origin, ddl, catalog, pending, result, wireVars,
                 flagVars, shownVars, commits>>

\* The published state, then stopping, cancellation, deadline.  A query whose
\* caller went away while it queued is reported with an unknown outcome.
RefuseOperation ==
  /\ pc = "check"
  /\ \/ op \notin Accepted(entry) /\ Refuse("refused")
     \/ op \in Accepted(entry) /\ stopping /\ Refuse("refused")
     \/ /\ op \in Accepted(entry)
        /\ ~stopping
        /\ cancelled \/ expired
        /\ Refuse(IF op = "query" THEN "unknown" ELSE "refused")
  /\ UNCHANGED <<serverVars, wireVars, flagVars, op, shownVars, commits>>

\* QueryRequest::validate.
RefuseInvalidQuery ==
  /\ pc = "begin"
  /\ op = "query"
  /\ Refuse("refused")
  /\ UNCHANGED <<serverVars, wireVars, flagVars, op, shownVars, commits>>

StartOperation ==
  /\ pc = "check"
  /\ op \in Accepted(entry)
  /\ ~(stopping \/ cancelled \/ expired)
  /\ pc' = "begin"
  /\ UNCHANGED <<serverVars, wireVars, flagVars, op, verdict, shownVars, commits>>

\* The first command of the backend operation.
FirstCommand ==
  /\ pc = "begin"
  /\ \/ op = "open_read" /\ Issue("begin_read")
     \/ op = "open_write" /\ Issue("begin_write")
     \/ op = "get_schema" /\ Issue("begin_schema")
     \/ op = "query" /\ \E statement \in Statements : Issue(statement)
     \/ op = "commit" /\ Native = "InTransaction" /\ Issue("commit")
     \/ op = "rollback" /\ Native # "Idle" /\ Issue("rollback")
     \/ /\ op = "shutdown"
        /\ Native \in {"InTransaction", "InError"}
        /\ Issue("rollback")
  /\ UNCHANGED <<serverVars, link, firstError, cancelling, returned, flagVars, op,
                 verdict, shownVars, commits>>

\* The backend looks at the native status and sends nothing.
DecideLocally ==
  /\ pc = "begin"
  /\ \/ op = "commit" /\ Native # "InTransaction" /\ Decide("refused")
     \/ op = "rollback" /\ Native = "Idle" /\ Decide("noop")
     \/ op = "close" /\ Native \in {"InTransaction", "InError"} /\ Decide("refused")
  /\ UNCHANGED <<serverVars, wireVars, flagVars, op, shownVars, commits>>

\* Close, and a shutdown with nothing to roll back: PQfinish.
Dispose ==
  /\ pc = "begin"
  /\ op \in {"close", "shutdown"}
  /\ Native \notin {"InTransaction", "InError"}
  /\ link' = "none"
  /\ Decide(IF op = "close" THEN "ok" ELSE "verified")
  /\ UNCHANGED <<serverVars, command, firstError, cancelling, returned, flagVars,
                 op, shownVars, commits>>

\* The verdict on a command whose error is passed on as it is.
Passed == CASE returned = "ok" -> "ok"
            [] returned = "error" -> "failed"
            [] returned = "unknown" -> "unknown"

FinishOpen ==
  /\ pc = "returned"
  /\ op \in {"open_read", "open_write"}
  /\ Decide(Passed)
  /\ UNCHANGED <<serverVars, wireVars, flagVars, op, shownVars, commits>>

\* retrieve: BEGIN, the catalog statements (one stands for the three), COMMIT
\* after a complete and valid snapshot, and ROLLBACK, its result ignored, after
\* any later failure.  (execute_operation validates the snapshot once more, which
\* cannot fail.)
NextSchemaCommand ==
  /\ pc = "returned"
  /\ op = "get_schema"
  /\ \/ /\ command = "begin_schema"
        /\ returned = "ok"
        /\ Issue("catalog")
        /\ UNCHANGED verdict
     \/ /\ command = "catalog"
        /\ returned = "ok"
        /\ \/ Issue("commit_schema") /\ UNCHANGED verdict
           \/ Issue("rollback_schema") /\ verdict' = "failed"
     \/ /\ command \in {"catalog", "commit_schema"}
        /\ returned # "ok"
        /\ Issue("rollback_schema")
        /\ verdict' = Passed
  /\ UNCHANGED <<serverVars, link, firstError, cancelling, returned, flagVars, op,
                 shownVars, commits>>

FinishSchema ==
  /\ pc = "returned"
  /\ op = "get_schema"
  /\ \/ command = "begin_schema" /\ returned # "ok" /\ Decide(Passed)
     \/ command = "commit_schema" /\ returned = "ok" /\ Decide("ok")
     \/ command = "rollback_schema" /\ Decide(verdict)
  /\ UNCHANGED <<serverVars, wireVars, flagVars, op, shownVars, commits>>

\* A failed query of a context that is stopping, cancelled or expired is
\* cancelled and drained before it is reported.
DrainQuery ==
  /\ pc = "returned"
  /\ op = "query"
  /\ returned # "ok"
  /\ stopping \/ cancelled \/ expired
  /\ cancelling' = IF link = "undrained" THEN "dispatched" ELSE cancelling
  /\ pc' = "drain"
  /\ UNCHANGED <<serverVars, link, command, firstError, returned, flagVars, op,
                 verdict, shownVars, commits>>

FinishQuery ==
  /\ pc = "returned"
  /\ op = "query"
  /\ \/ returned = "ok" /\ Decide("ok")
     \/ /\ returned # "ok"
        /\ ~(stopping \/ cancelled \/ expired)
        /\ Decide(Passed)
  /\ UNCHANGED <<serverVars, wireVars, flagVars, op, shownVars, commits>>

\* The end of cancel_and_drain.  A cancel that was not dispatched has its own
\* error; otherwise the query's is passed on, its outcome unknown if the client or
\* the deadline ended it.
Drained(connection) ==
  /\ link' = connection
  /\ \/ cancelling' = "failed" /\ Decide("unknown")
     \/ /\ UNCHANGED cancelling
        /\ Decide(IF cancelled \/ expired THEN "unknown" ELSE Passed)
  /\ UNCHANGED <<serverVars, command, firstError, returned, flagVars, op, shownVars,
                 commits>>

\* drain_until_idle before the first result: nothing to drain; or the cancel
\* fails, the grace passes or the connection is lost, and it is disposed of.
FinishDrain ==
  /\ pc = "drain"
  /\ \/ link = "ok" /\ Drained("ok")
     \/ /\ link' = "none"
        /\ Decide("unknown")
        /\ UNCHANGED <<serverVars, command, firstError, cancelling, returned,
                       flagVars, op, shownVars, commits>>

\* PQisBusy is 0: results are cleared to the final NULL.
StartClearing ==
  /\ pc = "drain"
  /\ link = "undrained"
  /\ pc' = "clear"
  /\ UNCHANGED <<serverVars, wireVars, flagVars, op, verdict, shownVars, commits>>

\* PQgetResult blocks here too, the grace notwithstanding.
ClearResults ==
  /\ pc = "clear"
  /\ \/ result # "none" /\ Drained("ok")
     \/ result = "none" /\ ~alive /\ Drained("bad")

\* Mutant: a failed COMMIT is sent again on a usable connection.
RetryCommit ==
  /\ pc = "returned"
  /\ op = "commit"
  /\ IF returned # "ok" /\ link = "ok" /\ commits < 3
     THEN Issue("commit") /\ UNCHANGED verdict
     ELSE Decide(IF returned = "ok" THEN "ok" ELSE "unknown") /\ UNCHANGED command
  /\ UNCHANGED <<serverVars, link, firstError, cancelling, returned, flagVars, op,
                 shownVars, commits>>

\* Mutant: the adapter's error is passed on as it is.
PassCommitError ==
  /\ pc = "returned"
  /\ op = "commit"
  /\ Decide(Passed)
  /\ UNCHANGED <<serverVars, wireVars, flagVars, op, shownVars, commits>>

FinishCommit ==
  /\ pc = "returned"
  /\ op = "commit"
  /\ Decide(IF returned = "ok" /\ Native = "Idle" THEN "ok" ELSE "unknown")
  /\ UNCHANGED <<serverVars, wireVars, flagVars, op, shownVars, commits>>

FinishRollback ==
  /\ pc = "returned"
  /\ op = "rollback"
  /\ Decide(IF returned = "ok" /\ Native # "Idle" THEN "unknown" ELSE Passed)
  /\ UNCHANGED <<serverVars, wireVars, flagVars, op, shownVars, commits>>

\* PQfinish after the rollback of a Shutdown request.
DisposeAfterRollback(v) ==
  /\ pc = "returned"
  /\ op = "shutdown"
  /\ Decide(v)
  /\ link' = "none"
  /\ UNCHANGED <<serverVars, command, firstError, cancelling, returned, flagVars,
                 op, shownVars, commits>>

\* Mutant: the rollback's result is ignored.
TrustRollback == DisposeAfterRollback("verified")

FinishShutdown ==
  DisposeAfterRollback(
    IF returned = "ok" /\ Native = "Idle" THEN "verified" ELSE "uncertain")

-----------------------------------------------------------------------------
(* Publication: what execute_operation and then worker_loop write to the   *)
(* entry of the handle before the reply, one critical section after the    *)
(* other.  (Sections that differ only in schema_dirty, which list_handles  *)
(* does not show, are one.)                                                *)

Closed == verdict \in {"verified", "uncertain"} \/ (op = "close" /\ verdict = "ok")

\* Mutant: no native observation after the operation.
ObservedBefore(status, connection, observed, dirty) ==
  [entry EXCEPT !.observed = observed, !.dirty = dirty]

Observed(status, connection, observed, dirty) ==
  [connection |-> connection, transaction |-> status,
   observed |-> observed, dirty |-> dirty, closed |-> FALSE]

ClosedHandle == [FreshHandle EXCEPT !.connection = "Unknown",
                                    !.transaction = "Unknown", !.closed = TRUE]

\* Mutant: a commit keeps the observation whatever it committed.
ObservedAfterAnyCommit == entry.observed

\* A commit keeps the observation if it committed no direct DDL.
ObservedAfterCommit == entry.observed /\ ~entry.dirty

\* The observation in the error of a query was taken before its drain, when
\* results were outstanding.
BeforeDrain ==
  /\ op = "query" /\ verdict # "ok"
  /\ firstError = "none" /\ cancelling = "dispatched" /\ link # "none"

\* What execute_operation writes after the backend returned.
Result ==
  CASE op = "get_schema" /\ verdict = "ok" ->
         Observed(Native, NativeConnection, TRUE, FALSE)
    [] op = "query" /\ command = "ddl" /\ verdict = "ok" ->
         Observed(Native, NativeConnection, entry.observed, TRUE)
    [] op = "commit" /\ verdict = "ok" ->
         Observed(Native, NativeConnection, ObservedAfterCommit, FALSE)
    [] op = "rollback" /\ verdict \in {"ok", "noop"} ->
         Observed(Native, NativeConnection, entry.observed, FALSE)
    [] op = "close" /\ verdict = "ok" ->
         Observed(Native, NativeConnection, FALSE, entry.dirty)
    [] BeforeDrain -> Observed("Active", "Ok", entry.observed, entry.dirty)
    [] OTHER -> Observed(Native, NativeConnection, entry.observed, entry.dirty)

\* Nothing looks at the flags of the call any more.
EndContext == cancelled' = FALSE /\ expired' = FALSE

\* A Shutdown request has only publish_closed.
PublishResult ==
  /\ pc = "publish"
  /\ entry' = IF op = "shutdown" THEN ClosedHandle ELSE Result
  /\ IF op = "get_schema" /\ verdict = "ok"
     THEN seen' = catalog /\ untold' = FALSE
     ELSE UNCHANGED <<seen, untold>>
  /\ pc' = IF op = "shutdown" THEN "answer" ELSE "observe"
  /\ command' = "none"
  /\ firstError' = "none"
  /\ cancelling' = "no"
  /\ returned' = "none"
  /\ EndContext
  /\ UNCHANGED <<serverVars, link, stopping, op, verdict, shown, commits>>

\* publish_closed of a close, or worker_loop's own observation.
PublishObservation ==
  /\ pc = "observe"
  /\ entry' = IF Closed THEN ClosedHandle
              ELSE Observed(Native, NativeConnection, entry.observed, entry.dirty)
  /\ pc' = IF verdict = "unknown" THEN "settle" ELSE "answer"
  /\ UNCHANGED <<serverVars, wireVars, flagVars, op, verdict, shown, seen, untold,
                 commits>>

\* An outcome that is unknown takes the observation of the schema back; that of
\* a commit leaves the handle broken.
PublishUnknown ==
  /\ pc = "settle"
  /\ entry' = IF op = "commit" THEN Observed("Unknown", "Bad", FALSE, FALSE)
              ELSE Observed(Native, NativeConnection, FALSE, entry.dirty)
  /\ pc' = "answer"
  /\ UNCHANGED <<serverVars, wireVars, flagVars, op, verdict, shown, seen, untold,
                 commits>>

\* refresh_envelope_state, the reply and the end of the admission; the worker
\* ends after a close or shutdown.
Reply ==
  /\ pc = "answer"
  /\ shown' = entry
  /\ pc' = IF Closed THEN "closed" ELSE "idle"
  /\ EndContext
  /\ UNCHANGED <<serverVars, wireVars, stopping, op, verdict, entry, seen, untold,
                 commits>>

-----------------------------------------------------------------------------
ServerStep ==
  ServerBegins \/ ServerRuns \/ ServerCommits \/ ServerRollsBack \/ ServerRejects
    \/ ServerDies

WorkerStep ==
  \/ RefuseSend \/ SendFails \/ Send \/ AbandonFlush \/ Flushed \/ FlushFails
  \/ DispatchCancel \/ Collect \/ Retrieve \/ Readable \/ PollFails
  \/ RefuseOperation \/ RefuseInvalidQuery \/ StartOperation \/ FirstCommand
  \/ DecideLocally \/ Dispose
  \/ FinishOpen \/ NextSchemaCommand \/ FinishSchema \/ DrainQuery \/ FinishQuery
  \/ FinishDrain \/ StartClearing \/ ClearResults
  \/ FinishCommit \/ FinishRollback \/ FinishShutdown
  \/ PublishResult \/ PublishObservation \/ PublishUnknown \/ Reply

Next ==
  \/ ServerStep
  \/ WorkerStep
  \/ Traffic \/ Overflow \/ RefuseCopy
  \/ \E o \in Operations \cup {"shutdown"} : Dequeue(o)
  \/ ClientCancels \/ DeadlineExpires \/ StopRequested

Spec == Init /\ [][Next]_vars

(***************************************************************************)
(* The worker thread runs and time reaches the deadline.  A poll is        *)
(* strongly fair: poll_fd looks at the deadline first, so traffic cannot   *)
(* keep a worker polling past it.  The server owes nothing, not even the   *)
(* rest of an answer that it began.                                        *)
(***************************************************************************)
FairSpec ==
  Spec /\ WF_vars(WorkerStep) /\ WF_vars(DeadlineExpires) /\ SF_vars(PollFails)

-----------------------------------------------------------------------------
(* Properties.                                                             *)

TypeOK ==
  /\ alive \in BOOLEAN
  /\ tx \in {"Idle", "InTransaction", "InError"}
  /\ origin \in Begins \cup {"none"}
  /\ ddl \in BOOLEAN
  /\ catalog \in 0..MaxCatalog
  /\ pending \in Commands \cup {"none"}
  /\ result \in {"none", "ok", "error"}
  /\ link \in {"ok", "sent", "undrained", "bad", "none"}
  /\ command \in Commands \cup {"none"}
  /\ firstError \in {"none", "interrupted", "limit"}
  /\ cancelling \in {"no", "dispatched", "failed"}
  /\ returned \in {"none", "ok", "error", "unknown"}
  /\ entry \in PublishedHandle
  /\ shown \in PublishedHandle
  /\ pc \in {"idle", "check", "begin", "send", "flush", "collect", "read", "poll",
             "returned", "drain", "clear", "publish", "observe", "settle", "answer",
             "closed"}
  /\ op \in Operations \cup {"none", "shutdown"}
  /\ verdict \in {"none", "ok", "noop", "refused", "failed", "unknown",
                  "verified", "uncertain"}
  /\ cancelled \in BOOLEAN
  /\ expired \in BOOLEAN
  /\ stopping \in BOOLEAN
  /\ seen \in 0..MaxCatalog
  /\ untold \in BOOLEAN
  /\ effect \in {"none", "committed", "aborted"}
  /\ commits \in Nat

\* While the handle is idle and its schema observed, the catalog the client saw
\* is the one its own commits left, whatever order of interruptions, failed
\* commits, rollbacks and new inspections came between (schema_dirty).  Only
\* direct DDL that the worker is not told of may pass unnoticed, and only until
\* the next get_schema.
ObservedSchemaIsCurrent ==
  pc = "idle" /\ entry.observed /\ entry.transaction = "Idle" /\ ~untold => seen = catalog

\* Every move protocol.rs suggests for the published state passes the worker's
\* precondition; only a query of an unobserved handle does not.
MovesAccepted ==
  pc = "idle" =>
    \A move \in NextMoves(HandleState(entry)) :
      move \in Accepted(entry) \/ (move = "query" /\ ~entry.observed)

\* Between operations the published state is the native one, except after a
\* commit of unknown outcome (worker_loop's final observation).
PublishedIsNative ==
  pc = "idle" =>
    \/ entry.transaction = Native /\ entry.connection = NativeConnection
    \/ op = "commit" /\ verdict = "unknown" /\ entry.transaction = "Unknown"

\* A commit reported done was done by the server and one reported as failed
\* never is; a refused one has not happened, unless the connection still carries
\* an earlier COMMIT; a rollback reported done left no transaction.
VerdictsAreTrue ==
  pc = "idle" =>
    /\ op = "commit" /\ verdict = "ok" => effect = "committed"
    /\ op = "commit" /\ verdict = "failed" => effect # "committed"
    /\ op = "commit" /\ verdict = "refused" /\ link = "ok" => effect # "committed"
    /\ op = "rollback" /\ verdict \in {"ok", "noop"} =>
         tx = "Idle" /\ effect # "committed"

\* One transaction, one COMMIT: whatever the client calls after an unknown
\* outcome, no second COMMIT is sent for the same transaction.
NeverReplayed == commits <= 1

\* A usable connection disposed of as a success has no transaction open:
\* neither close nor a verified shutdown drops a client's work unseen.
DisposalLeavesNoTransaction ==
  [][link = "ok" /\ link' = "none" /\ verdict' \in {"ok", "verified"}
       => tx = "Idle"]_vars

Client ==
  INSTANCE HandleContract WITH view <- HandleState(shown),
                               listed <- HandleState(entry),
                               call <- IF Busy THEN op ELSE "none",
                               reply <- IF Busy THEN "none" ELSE verdict

\* The handle keeps its contract with the client: every answer leaves it in a
\* state the contract allows after it, none is given for an operation the
\* client's view did not allow, and list_handles, which looks between the critical
\* sections of a publication too, never shows a schema observed that was not, and
\* nothing new while no call is in progress.
KeepsHandleContract == Client!Spec

\* The worker is in a loop of blocking PQgetResult calls.
Reading == pc \in {"read", "clear"}

\* Every operation comes to its end, whatever the server does or omits before
\* its answer begins and whenever the interruptions strike.  What is assumed of
\* the server is that it does not leave the worker in PQgetResult for ever: it
\* completes an answer that it began, or the connection ends.
EveryCallFinishes == []<>~Reading => []<>~Busy

-----------------------------------------------------------------------------
(* What the documentation promises and the code does not keep.             *)

\* schema.rs:3 "Schema inspection is deliberately separate from user
\* transactions": the snapshot of get_schema is never the open transaction of
\* the handle, in which the client's queries run.
InternalSnapshotNeverVisible ==
  pc = "idle" /\ entry.transaction = "InTransaction" => origin # "begin_schema"

\* README.md:96 "the worker drains and observes status or disposes
\* broken/unknown": no operation ends with results still to be read.
DrainedOrDisposed == pc = "idle" => link # "undrained"

\* README.md:98 "Normal socket waits and cleanup are deadline-controlled": a call
\* whose deadline has passed ends.  A server that falls silent, or sends rows
\* without end, once the first result is there, holds the worker in PQgetResult.
DeadlineEndsCall == Busy /\ expired ~> ~Busy

=============================================================================
