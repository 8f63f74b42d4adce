------------------------- MODULE WorkerSessionProofs -------------------------
(***************************************************************************)
(* Theorems about WorkerSession, for every number of catalog changes and   *)
(* every kind of client: the invariants its run checks, and the step       *)
(* simulation that makes a worker session implement HandleContract.        *)
(***************************************************************************)
EXTENDS WorkerSession, TLAPS

-----------------------------------------------------------------------------
(* The inductive invariant, part by part.                                  *)

\* The server has a command and the adapter waits for its answer.
InFlight == pc \in {"flush", "collect", "read", "poll"}

\* The adapter has a command, or its outcome is not yet a verdict.
Working == InFlight \/ pc \in {"send", "returned", "drain", "clear"}

\* Types, and what keeps the next steps typed: room for the catalog change of an
\* open transaction, and a result wherever one is passed on.
TypeInv ==
  /\ TypeOK
  /\ ddl => catalog < MaxCatalog
  /\ pc = "returned" => returned # "none"
  /\ pc \in {"drain", "clear"} => returned \in {"error", "unknown"}

\* A command belongs to the operation that issued it.
CommandOfOp ==
  /\ command = "begin_read" => op = "open_read"
  /\ command = "begin_write" => op = "open_write"
  /\ command \in {"begin_schema", "catalog", "commit_schema", "rollback_schema"} =>
       op = "get_schema"
  /\ command \in {"row", "ddl", "raw_commit", "raw_rollback"} => op = "query"
  /\ command = "commit" => op = "commit"
  /\ command = "rollback" => op \in {"rollback", "shutdown"}

\* Where the worker is: what it works on, and which loop of the adapter it is in.
PhaseInv ==
  /\ InFlight <=> link = "sent"
  /\ Working => command # "none"
  /\ ~Working /\ pc # "publish" => command = "none"
  /\ pc \in {"drain", "clear"} => op = "query"
  /\ pc = "clear" => link = "undrained"
  /\ pc = "check" => op # "shutdown"
  /\ Busy => op # "none"
  /\ CommandOfOp
  /\ InFlight /\ firstError = "limit" => command \in {"row", "catalog"}

\* How far the entry is from what the last answer showed.  An observation of the
\* schema that the operation does not give or take is still there.
ObservationKept ==
  CASE op = "get_schema" /\ verdict = "ok" -> entry.observed
    [] op \in {"commit", "close"} /\ verdict = "ok" -> entry.observed => shown.observed
    [] OTHER -> entry.observed = shown.observed

\* The critical sections of a publication: before the first the entry is what was
\* shown, and the last ones close the handle or take the observation back.
StageInv ==
  /\ pc \notin {"observe", "settle", "answer"} => entry = shown
  /\ pc = "settle" => verdict = "unknown" /\ ~Closed
  /\ pc = "answer" /\ Closed => entry = ClosedHandle
  /\ entry.closed <=> pc = "closed" \/ (pc = "answer" /\ Closed)
  /\ shown.closed => pc = "closed"
  /\ pc \in {"observe", "settle"} => ObservationKept
  /\ pc = "answer" /\ ~Closed =>
       IF verdict = "unknown" THEN ~entry.observed ELSE ObservationKept
  /\ ~entry.closed /\ entry.connection # "Ok" => entry.transaction = "Unknown"

\* A connection at rest has nothing outstanding; a statement is unanswered or its
\* answer waits, never both, and a dead server answers nothing.
WireInv ==
  /\ link = "ok" => pending = "none"
  /\ result # "none" => pending = "none"
  /\ link = "sent" => pending \in {command, "none"}
  /\ ~alive => pending = "none"

\* The transaction status after an answer to c.
TxAfter(c) == IF c \in Commits \cup Rollbacks THEN "Idle" ELSE "InTransaction"

\* What an answer says of the transaction; a commit ends it even when it fails.
TxInv ==
  /\ tx = "Idle" => ~ddl
  /\ link = "sent" /\ result = "ok" => tx = TxAfter(command)
  /\ link = "sent" /\ result = "error" /\ command \in Commits => tx = "Idle"
  /\ pc = "returned" /\ returned = "ok" => link = "ok" /\ tx = TxAfter(command)

\* The handle shows the native state.
Matches(handle) ==
  handle.transaction = Native /\ handle.connection = NativeConnection
\* It shows a commit of unknown outcome.
Lost(handle) == handle.transaction = "Unknown" /\ handle.connection = "Bad"

\* What was shown is native, or a commit was lost, until the operation sends
\* anything; what it may send follows from the state in which it was let through.
NativeInv ==
  /\ pc = "idle" \/ (pc = "answer" /\ ~Closed) =>
       IF op = "commit" /\ verdict = "unknown" THEN Lost(entry) ELSE Matches(entry)
  /\ pc \in {"check", "begin"} \/ (Publishing /\ verdict \in {"refused", "noop"}) =>
       Matches(shown) \/ Lost(shown)
  /\ pc = "send" /\ command \in Begins => link = "ok" /\ tx = "Idle"
  /\ pc = "send" /\ command \in Statements \cup {"commit", "catalog", "commit_schema"} =>
       link = "ok" /\ tx = "InTransaction"

\* An operation that was not refused is one that the state shown accepts.
AdmitInv ==
  /\ Busy /\ op \in Operations /\ pc # "check" /\ ~(Publishing /\ verdict = "refused") =>
       op \in Accepted(shown)
  /\ op = "rollback" /\ (command = "rollback" \/ (Publishing /\ verdict = "ok")) =>
       shown.transaction \in {"InTransaction", "InError"}
  /\ op = "rollback" /\ Publishing /\ verdict = "noop" => shown.transaction = "Idle"

\* The last operation has its verdict.
Decided == Publishing \/ pc = "idle"

\* The verdicts an operation can have.
VerdictsOf(o) ==
  CASE o = "none" -> {"none"}
    [] o = "commit" -> {"ok", "refused", "unknown"}
    [] o = "close" -> {"ok", "refused"}
    [] o = "shutdown" -> {"verified", "uncertain"}
    [] o = "rollback" -> {"ok", "noop", "refused", "failed", "unknown"}
    [] OTHER -> {"ok", "refused", "failed", "unknown"}

\* A verdict of success rests on the status of a usable connection.
VerdictInv ==
  /\ Decided => verdict \in VerdictsOf(op)
  /\ Decided /\ op \in {"commit", "rollback"} /\ verdict \in {"ok", "noop"} =>
       link = "ok" /\ tx = "Idle"
  /\ Decided /\ command = "commit" => verdict # "refused"
  /\ Publishing /\ op \in {"open_read", "open_write"} /\ verdict = "ok" =>
       link = "ok" /\ tx = "InTransaction"
  /\ Publishing /\ op = "query" /\ verdict = "ok" =>
       link = "ok" /\ tx \in {"Idle", "InTransaction"}
  /\ Publishing /\ op = "get_schema" /\ verdict = "ok" => link = "ok" /\ tx = "Idle"
  /\ command = "rollback_schema" => verdict \in {"failed", "unknown"}
  /\ pc = "idle" => op # "shutdown"

\* What a commit or a rollback did to the transaction, from before the command is
\* sent to after its verdict.
EffectInv ==
  /\ op \in {"commit", "rollback"} /\ pc \in {"check", "begin", "send"} /\ link = "ok" =>
       effect # "committed"
  /\ op = "commit" /\ InFlight /\ result = "ok" => effect = "committed"
  /\ op = "commit" /\ pc = "returned" /\ returned = "ok" => effect = "committed"
  /\ op = "rollback" /\ InFlight => effect # "committed"
  /\ op = "rollback" /\ pc = "returned" /\ returned = "ok" => effect # "committed"
  /\ Decided /\ op = "commit" /\ verdict = "ok" => effect = "committed"
  /\ Decided /\ op = "commit" /\ verdict = "refused" /\ link = "ok" => effect # "committed"
  /\ Decided /\ op = "rollback" /\ verdict \in {"ok", "noop"} => effect # "committed"

\* Once the COMMIT of a transaction is sent, a usable connection is out of it.
CommitsInv ==
  /\ commits <= 1
  /\ commits = 1 /\ link = "ok" => tx = "Idle"
  /\ commits = 1 /\ link = "sent" => tx = "Idle" \/ (command = "commit" /\ result = "none")
  /\ commits = 1 /\ link = "sent" => command \notin Begins
  /\ op = "query" /\ (pc = "begin" \/ Working) => commits = 0

\* The client was told of every change of the catalog it can see, and this call
\* will not take the observation back.
Told ==
  /\ entry.observed
  /\ ~untold
  /\ ~(pc \in {"observe", "settle"} /\ verdict = "unknown")

\* The context of the operation no longer wants it.
Ending == stopping \/ cancelled \/ expired

\* Statements that may still be answered after the adapter gave up on them.
PendingInv ==
  /\ pending \in {"begin_schema", "catalog", "commit_schema"} => ~ddl
  /\ op = "get_schema" /\ (pc = "begin" \/ Working) => ~ddl /\ pending # "ddl"
  /\ Told /\ pending \in {"ddl", "commit"} => command = pending
  /\ pending = "ddl" /\ command = "ddl" /\ pc = "publish" => verdict = "unknown"
  /\ pending = "ddl" /\ command = "ddl" /\ pc \in {"returned", "drain", "clear"}
       /\ returned = "error" => link = "undrained" /\ Ending

\* Direct DDL that ran and whose query has yet to mark the handle dirty, or will
\* clear the observation instead.
Unreported ==
  /\ command = "ddl"
  /\ \/ InFlight /\ result = "ok"
     \/ /\ pc \in {"returned", "drain", "clear"}
        /\ returned # "error" \/ (link = "undrained" /\ Ending)
     \/ pc = "publish" /\ verdict \in {"ok", "unknown"}

\* Direct DDL of the open transaction is marked, except by a query that the stop
\* of the process cut short: after it only the stop can end the transaction.
DirtyInv ==
  Told /\ ddl /\ alive =>
    \/ entry.dirty
    \/ op = "shutdown"
    \/ stopping /\ (pc = "check" \/ Decided) /\ command # "commit"
    \/ Unreported

\* What the client saw is current, until the commit of a dirty transaction.
SchemaInv ==
  Told => seen = catalog \/ (command = "commit" /\ entry.dirty)

\* The inductive invariant.
IndInv ==
  /\ TypeInv /\ PhaseInv /\ StageInv /\ WireInv /\ TxInv /\ NativeInv /\ AdmitInv
  /\ VerdictInv /\ EffectInv /\ CommitsInv /\ PendingInv /\ DirtyInv /\ SchemaInv

-----------------------------------------------------------------------------
(* What a step leaves alone, and what the adapter's tables say.            *)

\* The server writes nothing of the worker's.
LEMMA ServerFrame ==
  ASSUME ServerStep
  PROVE  UNCHANGED <<wireVars, flagVars, callVars, entry, shown, seen, commits>>
<1> USE DEF Answer, wireVars, flagVars, callVars, shownVars
<1> QED
  BY DEF ServerStep, ServerBegins, ServerRuns, ServerCommits, ServerRollsBack,
     ServerRejects,
     ServerDies, Abort

\* Every step that disposes of the connection.
LEMMA DisposalWriters ==
  ASSUME [Next]_vars, link # "none", link' = "none"
  PROVE  \/ Dispose \/ FinishShutdown \/ FinishDrain
         \/ DispatchCancel \/ PollFails \/ RefuseCopy
<1> USE DEF wireVars
<1>1. CASE WorkerStep
  <2>1. ~(RefuseSend \/ SendFails \/ Send \/ AbandonFlush \/ Flushed \/ FlushFails)
    BY DEF RefuseSend, SendFails, Send, AbandonFlush, Flushed, FlushFails
  <2>2. ~(Collect \/ Retrieve \/ Readable \/ StartClearing \/ ClearResults)
    BY DEF Collect, Retrieve, Readable, StartClearing, ClearResults, Drained
  <2>3. ~(RefuseOperation \/ RefuseInvalidQuery \/ StartOperation \/ FirstCommand
            \/ DecideLocally)
    BY DEF RefuseOperation, RefuseInvalidQuery, StartOperation, FirstCommand, DecideLocally
  <2>4. ~(FinishOpen \/ NextSchemaCommand \/ FinishSchema \/ DrainQuery \/ FinishQuery
            \/ FinishCommit \/ FinishRollback)
    BY DEF FinishOpen, NextSchemaCommand, FinishSchema, DrainQuery, FinishQuery,
       FinishCommit, FinishRollback
  <2>5. ~(PublishResult \/ PublishObservation \/ PublishUnknown \/ Reply)
    BY DEF PublishResult, PublishObservation, PublishUnknown, Reply
  <2> QED
    BY <1>1, <2>1, <2>2, <2>3, <2>4, <2>5 DEF WorkerStep
<1>2. CASE ServerStep
  BY <1>2, ServerFrame
<1>3. CASE Traffic \/ Overflow \/ ClientCancels \/ DeadlineExpires \/ StopRequested
  BY <1>3 DEF Traffic, Overflow, ClientCancels, DeadlineExpires, StopRequested
<1>4. ~(\E o \in Operations \cup {"shutdown"} : Dequeue(o))
  BY DEF Dequeue
<1> QED
  BY <1>1, <1>2, <1>3, <1>4 DEF Next, vars

\* PQtransactionStatus and PQstatus, row by row.
LEMMA NativeTable ==
  ASSUME TypeInv
  PROVE  /\ Native \in {"Idle", "InTransaction", "InError", "Active", "Unknown"}
         /\ \A status \in {"Idle", "InTransaction", "InError"} :
              Native = status <=> link = "ok" /\ tx = status
         /\ NativeConnection \in Connections
         /\ NativeConnection # "Ok" => Native = "Unknown"
  BY DEF TypeInv, TypeOK, Native, NativeConnection, Connections

\* A connection at rest does not change under its owner.
LEMMA ServerAtRest ==
  ASSUME TypeInv, WireInv, ServerStep
  PROVE  /\ Native' = Native /\ NativeConnection' = NativeConnection
         /\ link = "ok" =>
              UNCHANGED <<tx, ddl, catalog, pending>> /\ effect' \in {effect, "aborted"}
<1>1. link' = link
  BY ServerFrame DEF wireVars
<1>2. CASE ServerDies
  BY <1>1, <1>2 DEF ServerDies, WireInv, TypeInv, TypeOK, Native, NativeConnection
<1>3. CASE ~ServerDies
  <2>1. link # "ok"
    BY <1>3 DEF ServerStep, ServerBegins, ServerRuns, ServerCommits, ServerRollsBack,
       ServerRejects, Answer, WireInv
  <2> QED
    BY <1>1, <2>1 DEF TypeInv, TypeOK, Native, NativeConnection
<1> QED
  BY <1>2, <1>3

\* An adapter's error passed on.
LEMMA PassedTable ==
  ASSUME TypeInv, pc \in {"returned", "drain", "clear"}
  PROVE  /\ Passed \in {"ok", "failed", "unknown"}
         /\ Passed = "ok" <=> returned = "ok"
         /\ Passed = "failed" <=> returned = "error"
         /\ Passed = "unknown" <=> returned = "unknown"
  BY DEF TypeInv, TypeOK, Passed

\* operation_precondition, row by row.
LEMMA AcceptedTable ==
  ASSUME NEW e, NEW o \in Accepted(e)
  PROVE  /\ ~e.closed
         /\ o \in {"get_schema", "open_read", "open_write"} => e.transaction = "Idle"
         /\ o \in {"open_read", "open_write", "query"} => e.observed
         /\ o \in {"query", "commit"} => e.transaction = "InTransaction"
         /\ o = "rollback" => e.transaction \notin {"Active", "Unknown"}
         /\ o = "close" => e.transaction \notin {"InTransaction", "InError"}
  BY DEF Accepted, Operations, RollsBack

\* What execute_operation writes, for every verdict.
LEMMA ResultTable ==
  /\ ~Result.closed
  /\ \/ Result.transaction = Native /\ Result.connection = NativeConnection
     \/ op = "query" /\ Result.transaction = "Active" /\ Result.connection = "Ok"
  /\ Result.observed = CASE op = "get_schema" /\ verdict = "ok" -> TRUE
                         [] op = "commit" /\ verdict = "ok" -> entry.observed /\ ~entry.dirty
                         [] op = "close" /\ verdict = "ok" -> FALSE
                         [] OTHER -> entry.observed
  /\ Result.dirty = CASE op = "get_schema" /\ verdict = "ok" -> FALSE
                      [] op = "query" /\ command = "ddl" /\ verdict = "ok" -> TRUE
                      [] op = "commit" /\ verdict = "ok" -> FALSE
                      [] op = "rollback" /\ verdict \in {"ok", "noop"} -> FALSE
                      [] OTHER -> entry.dirty
<1> USE DEF Result, Observed
<1>1. CASE op = "get_schema" \/ op = "close"
  BY <1>1 DEF BeforeDrain
<1>2. CASE op = "query"
  <2>1. CASE verdict = "ok" /\ command = "ddl"
    BY <1>2, <2>1 DEF BeforeDrain
  <2>2. CASE BeforeDrain
    BY <1>2, <2>2 DEF BeforeDrain
  <2>3. CASE ~BeforeDrain /\ ~(verdict = "ok" /\ command = "ddl")
    BY <1>2, <2>3
  <2> QED
    BY <2>1, <2>2, <2>3
<1>3. CASE op = "commit" \/ op = "rollback"
  BY <1>3 DEF ObservedAfterCommit, BeforeDrain
<1>4. CASE op \notin {"get_schema", "close", "query", "commit", "rollback"}
  BY <1>4 DEF BeforeDrain
<1> QED
  BY <1>1, <1>2, <1>3, <1>4

\* The command of an operation that sends only one.
LEMMA CommandTable ==
  ASSUME TypeInv, PhaseInv, command # "none"
  PROVE  /\ op = "commit" => command = "commit"
         /\ op \in {"rollback", "shutdown"} => command = "rollback"
         /\ op = "query" => command \in {"row", "ddl", "raw_commit", "raw_rollback"}
         /\ op \in {"open_read", "open_write"} => command \in {"begin_read", "begin_write"}
         /\ op \notin {"none", "close"}
  BY DEF TypeInv, TypeOK, PhaseInv, CommandOfOp, Commands, Begins, Commits, Rollbacks

\* Beside the server, a send and the start of a call touch the server's variables;
\* retrieval and publication only the history of what the client was told.
LEMMA ServerWriters ==
  ASSUME [Next]_vars
  PROVE  \/ ServerStep \/ Send \/ Retrieve \/ PublishResult
         \/ \E o \in Operations \cup {"shutdown"} : Dequeue(o)
         \/ UNCHANGED <<serverVars, untold>>
<1> USE DEF shownVars
<1>1. CASE WorkerStep
  <2>1. CASE RefuseSend \/ SendFails \/ AbandonFlush \/ Flushed \/ FlushFails
    BY <2>1 DEF RefuseSend, SendFails, AbandonFlush, Flushed, FlushFails
  <2>2. CASE DispatchCancel \/ Collect \/ Readable \/ PollFails
    BY <2>2 DEF DispatchCancel, Collect, Readable, PollFails, EndPoll
  <2>3. CASE RefuseOperation \/ RefuseInvalidQuery \/ StartOperation \/ FirstCommand
               \/ DecideLocally \/ Dispose
    BY <2>3 DEF RefuseOperation, RefuseInvalidQuery, StartOperation, FirstCommand,
       DecideLocally, Dispose
  <2>4. CASE FinishOpen \/ NextSchemaCommand \/ FinishSchema \/ DrainQuery \/ FinishQuery
               \/ FinishCommit \/ FinishRollback \/ FinishShutdown
    BY <2>4 DEF FinishOpen, NextSchemaCommand, FinishSchema, DrainQuery, FinishQuery,
       FinishCommit, FinishRollback, FinishShutdown, DisposeAfterRollback
  <2>5. CASE FinishDrain \/ StartClearing \/ ClearResults
    BY <2>5 DEF FinishDrain, StartClearing, ClearResults, Drained
  <2>6. CASE PublishObservation \/ PublishUnknown \/ Reply
    BY <2>6 DEF PublishObservation, PublishUnknown, Reply
  <2> QED
    BY <1>1, <2>1, <2>2, <2>3, <2>4, <2>5, <2>6 DEF WorkerStep
<1>2. CASE Traffic \/ Overflow \/ RefuseCopy
  BY <1>2 DEF Traffic, Overflow, RefuseCopy
<1>3. CASE ClientCancels \/ DeadlineExpires \/ StopRequested
  BY <1>3 DEF ClientCancels, DeadlineExpires, StopRequested
<1> QED
  BY <1>1, <1>2, <1>3 DEF Next, vars

\* The types of what the server writes, and of the rest.
ServerTypes ==
  /\ alive \in BOOLEAN
  /\ tx \in {"Idle", "InTransaction", "InError"}
  /\ origin \in Begins \cup {"none"}
  /\ ddl \in BOOLEAN
  /\ catalog \in 0..MaxCatalog
  /\ pending \in Commands \cup {"none"}
  /\ result \in {"none", "ok", "error"}
  /\ untold \in BOOLEAN
  /\ effect \in {"none", "committed", "aborted"}
  /\ ddl => catalog < MaxCatalog

OwnTypes ==
  /\ link \in {"ok", "sent", "undrained", "bad", "none"}
  /\ command \in Commands \cup {"none"}
  /\ firstError \in {"none", "interrupted", "limit"}
  /\ cancelling \in {"no", "dispatched", "failed"}
  /\ returned \in {"none", "ok", "error", "unknown"}
  /\ entry \in PublishedHandle
  /\ shown \in PublishedHandle
  /\ pc \in {"idle", "check", "begin", "send", "flush", "collect", "read", "poll",
             "returned", "drain", "clear", "publish", "observe", "settle", "answer",
             "closed"}
  /\ op \in Operations \cup {"none", "shutdown"}
  /\ verdict \in {"none", "ok", "noop", "refused", "failed", "unknown",
                  "verified", "uncertain"}
  /\ cancelled \in BOOLEAN
  /\ expired \in BOOLEAN
  /\ stopping \in BOOLEAN
  /\ seen \in 0..MaxCatalog
  /\ commits \in Nat
  /\ pc = "returned" => returned # "none"
  /\ pc \in {"drain", "clear"} => returned \in {"error", "unknown"}

\* The two halves are the whole.
LEMMA TypeParts == TypeInv <=> ServerTypes /\ OwnTypes
  BY DEF TypeInv, TypeOK, ServerTypes, OwnTypes

\* Whatever is published is a PublishedHandle.
LEMMA PublicationType ==
  ASSUME TypeInv
  PROVE  /\ Result \in PublishedHandle
         /\ ClosedHandle \in PublishedHandle
         /\ \A observed \in BOOLEAN, dirty \in BOOLEAN :
              /\ Observed(Native, NativeConnection, observed, dirty) \in PublishedHandle
              /\ Observed("Unknown", "Bad", observed, dirty) \in PublishedHandle
<1>1. Native \in Transactions /\ NativeConnection \in Connections
  BY NativeTable DEF Transactions
<1>2. entry.observed \in BOOLEAN /\ entry.dirty \in BOOLEAN
  BY DEF TypeInv, TypeOK, PublishedHandle
<1>3. \A status \in Transactions, connection \in Connections,
        observed \in BOOLEAN, dirty \in BOOLEAN :
        Observed(status, connection, observed, dirty) \in PublishedHandle
  BY DEF Observed, PublishedHandle
<1>4. {"Unknown", "Active"} \subseteq Transactions /\ {"Bad", "Ok"} \subseteq Connections
  BY DEF Transactions, Connections
<1>5. ClosedHandle \in PublishedHandle
  BY DEF ClosedHandle, FreshHandle, PublishedHandle, Connections, Transactions
<1>6. ObservedAfterCommit \in BOOLEAN
  BY <1>2 DEF ObservedAfterCommit
<1>7. Result \in PublishedHandle
  BY <1>1, <1>2, <1>3, <1>4, <1>6 DEF Result
<1> QED
  BY <1>1, <1>3, <1>4, <1>5, <1>7

\* The server's variables keep their types.
LEMMA ServerTypeStep ==
  ASSUME ServerTypes, OwnTypes, [Next]_vars
  PROVE  ServerTypes'
<1> USE DEF ServerTypes, Answer
<1>1. CASE ServerBegins
  BY <1>1 DEF ServerBegins
<1>2. CASE ServerRuns
  <2>1. pending' = "none" /\ result' = "ok" /\ untold' \in BOOLEAN
    BY <1>2 DEF ServerRuns
  <2>2. UNCHANGED <<alive, tx, origin, catalog, effect>>
    BY <1>2 DEF ServerRuns
  <2>3. CASE UNCHANGED ddl
    BY <2>1, <2>2, <2>3
  <2>4. CASE ddl' = TRUE /\ catalog < MaxCatalog
    BY <2>1, <2>2, <2>4
  <2> QED
    BY <1>2, <2>3, <2>4 DEF ServerRuns
<1>3. CASE ServerCommits
  <2>1. catalog' \in 0..MaxCatalog
    BY <1>3, SessionAssumption DEF ServerCommits
  <2> QED
    BY <1>3, <2>1 DEF ServerCommits
<1>4. CASE ServerRollsBack
  BY <1>4 DEF ServerRollsBack, Abort
<1>5. CASE ServerRejects
  <2>1. pending' = "none" /\ result' = "error" /\ untold' \in BOOLEAN
    BY <1>5 DEF ServerRejects
  <2>2. UNCHANGED <<alive, catalog>>
    BY <1>5 DEF ServerRejects
  <2>3. CASE Abort
    BY <2>1, <2>2, <2>3 DEF Abort
  <2>4. CASE tx' \in {"Idle", "InError"} /\ UNCHANGED <<origin, ddl, effect>>
    BY <2>1, <2>2, <2>4
  <2> QED
    BY <1>5, <2>3, <2>4 DEF ServerRejects
<1>6. CASE ServerDies
  BY <1>6 DEF ServerDies, shownVars
<1>7. CASE Send
  BY <1>7 DEF Send, shownVars, OwnTypes
<1>8. ASSUME NEW o \in Operations \cup {"shutdown"}, Dequeue(o)
      PROVE  ServerTypes'
  BY <1>8 DEF Dequeue, shownVars
<1>9. CASE Retrieve
  BY <1>9 DEF Retrieve, serverVars
<1>10. CASE PublishResult
  BY <1>10 DEF PublishResult, serverVars
<1>11. CASE UNCHANGED <<serverVars, untold>>
  BY <1>11 DEF serverVars
<1> QED
  <2>1. \/ ServerStep \/ Send \/ Retrieve \/ PublishResult
        \/ \E o \in Operations \cup {"shutdown"} : Dequeue(o)
        \/ UNCHANGED <<serverVars, untold>>
    BY ServerWriters
  <2> QED
    BY <1>1, <1>2, <1>3, <1>4, <1>5, <1>6, <1>7, <1>8, <1>9, <1>10, <1>11,
       <2>1 DEF ServerStep

-----------------------------------------------------------------------------
(* Every step keeps the invariant, part by part.                           *)

\* The worker goes from one phase to the next, its command with it.
LEMMA PhaseStep ==
  ASSUME TypeInv, PhaseInv, [Next]_vars
  PROVE  PhaseInv'
<1> USE DEF PhaseInv, InFlight, Working, CommandOfOp, Busy, Begins, Commits, Rollbacks,
     Statements, serverVars, wireVars, flagVars, callVars, shownVars
<1>1. CASE ServerBegins
  BY <1>1 DEF ServerBegins, Answer
<1>2. CASE ServerRuns
  BY <1>2 DEF ServerRuns, Answer
<1>3. CASE ServerCommits
  BY <1>3 DEF ServerCommits, Answer
<1>4. CASE ServerRollsBack
  BY <1>4 DEF ServerRollsBack, Answer, Abort
<1>5. CASE ServerRejects
  BY <1>5 DEF ServerRejects, Answer, Abort
<1>6. CASE ServerDies
  BY <1>6 DEF ServerDies
<1>7. CASE RefuseSend
  BY <1>7 DEF RefuseSend, Return
<1>8. CASE SendFails
  BY <1>8 DEF SendFails, Return
<1>9. CASE Send
  BY <1>9 DEF Send
<1>10. CASE AbandonFlush
  BY <1>10 DEF AbandonFlush, Return
<1>11. CASE Flushed
  BY <1>11 DEF Flushed
<1>12. CASE FlushFails
  BY <1>12 DEF FlushFails, Return
<1>13. CASE DispatchCancel
  BY <1>13 DEF DispatchCancel, Return
<1>14. CASE Collect
  BY <1>14 DEF Collect, Return
<1>15. CASE Retrieve
  BY <1>15 DEF Retrieve, Return, TagOverflows
<1>16. CASE Overflow
  BY <1>16 DEF Overflow
<1>17. CASE Readable
  BY <1>17 DEF Readable
<1>18. CASE Traffic
  BY <1>18 DEF Traffic
<1>19. CASE PollFails
  BY <1>19 DEF PollFails, EndPoll, Return
<1>20. CASE RefuseCopy
  BY <1>20 DEF RefuseCopy, Return
<1>21. ASSUME NEW o \in Operations \cup {"shutdown"}, Dequeue(o)
       PROVE  PhaseInv'
  BY <1>21 DEF Dequeue, Operations
<1>22. CASE RefuseOperation
  BY <1>22 DEF RefuseOperation, Refuse
<1>23. CASE RefuseInvalidQuery
  BY <1>23 DEF RefuseInvalidQuery, Refuse
<1>24. CASE StartOperation
  BY <1>24 DEF StartOperation
<1>25. CASE FirstCommand
  BY <1>25 DEF FirstCommand, Issue
<1>26. CASE DecideLocally
  BY <1>26 DEF DecideLocally, Decide, Native
<1>27. CASE Dispose
  BY <1>27 DEF Dispose, Decide, Native
<1>28. CASE FinishOpen
  BY <1>28 DEF FinishOpen, Decide, Passed
<1>29. CASE NextSchemaCommand
  BY <1>29 DEF NextSchemaCommand, Issue, Passed
<1>30. CASE FinishSchema
  BY <1>30 DEF FinishSchema, Decide, Passed
<1>31. CASE DrainQuery
  BY <1>31 DEF DrainQuery
<1>32. CASE FinishQuery
  BY <1>32 DEF FinishQuery, Decide, Passed
<1>33. CASE FinishDrain
  BY <1>33 DEF FinishDrain, Drained, Decide, Passed
<1>34. CASE StartClearing
  BY <1>34 DEF StartClearing
<1>35. CASE ClearResults
  BY <1>35 DEF ClearResults, Drained, Decide, Passed
<1>36. CASE FinishCommit
  BY <1>36 DEF FinishCommit, Decide, Native
<1>37. CASE FinishRollback
  BY <1>37 DEF FinishRollback, Decide, Passed, Native
<1>38. CASE FinishShutdown
  BY <1>38 DEF FinishShutdown, DisposeAfterRollback, Decide, Native
<1>39. CASE PublishResult
  BY <1>39 DEF PublishResult, EndContext
<1>40. CASE PublishObservation
  BY <1>40 DEF PublishObservation
<1>41. CASE PublishUnknown
  BY <1>41 DEF PublishUnknown
<1>42. CASE Reply
  BY <1>42 DEF Reply, EndContext
<1>43. CASE ClientCancels \/ DeadlineExpires \/ StopRequested
  BY <1>43 DEF ClientCancels, DeadlineExpires, StopRequested
<1>44. CASE UNCHANGED vars
  BY <1>44 DEF vars
<1> QED
  BY <1>1, <1>2, <1>3, <1>4, <1>5, <1>6, <1>7, <1>8, <1>9, <1>10, <1>11, <1>12, <1>13,
     <1>14, <1>15, <1>16, <1>17, <1>18, <1>19, <1>20, <1>21, <1>22, <1>23, <1>24, <1>25,
     <1>26, <1>27, <1>28, <1>29, <1>30, <1>31, <1>32, <1>33, <1>34, <1>35, <1>36, <1>37,
     <1>38, <1>39, <1>40, <1>41, <1>42, <1>43, <1>44
     DEF Next, ServerStep, WorkerStep

\* A publication goes from section to section, and nothing else writes the entry.
LEMMA StageStep ==
  ASSUME TypeInv, PhaseInv, StageInv, VerdictInv, [Next]_vars
  PROVE  StageInv'
<1> USE DEF StageInv, ObservationKept, Closed, serverVars, wireVars, flagVars, callVars,
     shownVars
<1>1. CASE ServerBegins
  BY <1>1 DEF ServerBegins, Answer
<1>2. CASE ServerRuns
  BY <1>2 DEF ServerRuns, Answer
<1>3. CASE ServerCommits
  BY <1>3 DEF ServerCommits, Answer
<1>4. CASE ServerRollsBack
  BY <1>4 DEF ServerRollsBack, Answer, Abort
<1>5. CASE ServerRejects
  BY <1>5 DEF ServerRejects, Answer, Abort
<1>6. CASE ServerDies
  BY <1>6 DEF ServerDies
<1>7. CASE RefuseSend
  BY <1>7 DEF RefuseSend, Return
<1>8. CASE SendFails
  BY <1>8 DEF SendFails, Return
<1>9. CASE Send
  BY <1>9 DEF Send
<1>10. CASE AbandonFlush
  BY <1>10 DEF AbandonFlush, Return
<1>11. CASE Flushed
  BY <1>11 DEF Flushed
<1>12. CASE FlushFails
  BY <1>12 DEF FlushFails, Return
<1>13. CASE DispatchCancel
  BY <1>13 DEF DispatchCancel, Return
<1>14. CASE Collect
  BY <1>14 DEF Collect, Return
<1>15. CASE Retrieve
  BY <1>15 DEF Retrieve, Return, TagOverflows
<1>16. CASE Overflow
  BY <1>16 DEF Overflow
<1>17. CASE Readable
  BY <1>17 DEF Readable
<1>18. CASE Traffic
  BY <1>18 DEF Traffic
<1>19. CASE PollFails
  BY <1>19 DEF PollFails, EndPoll, Return
<1>20. CASE RefuseCopy
  BY <1>20 DEF RefuseCopy, Return
<1>21. ASSUME NEW o \in Operations \cup {"shutdown"}, Dequeue(o)
       PROVE  StageInv'
  BY <1>21 DEF Dequeue
<1>22. CASE RefuseOperation
  BY <1>22 DEF RefuseOperation, Refuse
<1>23. CASE RefuseInvalidQuery
  BY <1>23 DEF RefuseInvalidQuery, Refuse
<1>24. CASE StartOperation
  BY <1>24 DEF StartOperation
<1>25. CASE FirstCommand
  BY <1>25 DEF FirstCommand, Issue
<1>26. CASE DecideLocally
  BY <1>26 DEF DecideLocally, Decide, Native
<1>27. CASE Dispose
  BY <1>27 DEF Dispose, Decide, Native
<1>28. CASE FinishOpen
  BY <1>28 DEF FinishOpen, Decide, Passed
<1>29. CASE NextSchemaCommand
  BY <1>29 DEF NextSchemaCommand, Issue, Passed
<1>30. CASE FinishSchema
  BY <1>30 DEF FinishSchema, Decide
<1>31. CASE DrainQuery
  BY <1>31 DEF DrainQuery
<1>32. CASE FinishQuery
  BY <1>32 DEF FinishQuery, Decide, Passed
<1>33. CASE FinishDrain
  BY <1>33 DEF FinishDrain, Drained, Decide, Passed
<1>34. CASE StartClearing
  BY <1>34 DEF StartClearing
<1>35. CASE ClearResults
  BY <1>35 DEF ClearResults, Drained, Decide, Passed
<1>36. CASE FinishCommit
  BY <1>36 DEF FinishCommit, Decide, Native
<1>37. CASE FinishRollback
  BY <1>37 DEF FinishRollback, Decide, Passed, Native
<1>38. CASE FinishShutdown
  BY <1>38 DEF FinishShutdown, DisposeAfterRollback, Decide, Native
<1>39. CASE PublishResult
  <2>1. pc = "publish" /\ entry = shown /\ ~entry.closed /\ UNCHANGED <<shown, op, verdict>>
    BY <1>39 DEF PublishResult
  <2>2. CASE op = "shutdown"
    <3>1. pc' = "answer" /\ Closed' /\ entry' = ClosedHandle
      BY <1>39, <2>1, <2>2 DEF PublishResult, VerdictInv, VerdictsOf, Decided, Publishing
    <3>2. ClosedHandle' = ClosedHandle /\ ClosedHandle.closed
      BY DEF ClosedHandle, FreshHandle
    <3> QED
      BY <2>1, <3>1, <3>2
  <2>3. CASE op # "shutdown"
    <3>1. pc' = "observe" /\ entry' = Result
      BY <1>39, <2>3 DEF PublishResult
    <3>2. ~entry'.closed /\ (entry'.connection # "Ok" => entry'.transaction = "Unknown")
      BY <3>1, ResultTable, NativeTable
    <3>3. ObservationKept'
      BY <2>1, <3>1, ResultTable
    <3> QED
      BY <2>1, <3>1, <3>2, <3>3
  <2> QED
    BY <2>2, <2>3
<1>40. CASE PublishObservation
  <2>1. pc = "observe" /\ ObservationKept /\ UNCHANGED <<shown, op, verdict>>
    BY <1>40 DEF PublishObservation
  <2>2. pc' = IF verdict = "unknown" THEN "settle" ELSE "answer"
    BY <1>40 DEF PublishObservation
  <2>3. CASE Closed
    <3>1. entry' = ClosedHandle /\ verdict # "unknown"
      BY <1>40, <2>3 DEF PublishObservation
    <3>2. ClosedHandle' = ClosedHandle /\ ClosedHandle.closed
      BY DEF ClosedHandle, FreshHandle
    <3> QED
      BY <2>1, <2>2, <2>3, <3>1, <3>2
  <2>4. CASE ~Closed
    <3>1. /\ entry'.observed = entry.observed /\ ~entry'.closed
          /\ entry'.transaction = Native /\ entry'.connection = NativeConnection
      BY <1>40, <2>4 DEF PublishObservation, Observed
    <3>2. entry'.connection # "Ok" => entry'.transaction = "Unknown"
      BY <3>1, NativeTable
    <3> QED
      BY <2>1, <2>2, <2>4, <3>1, <3>2
  <2> QED
    BY <2>3, <2>4
<1>41. CASE PublishUnknown
  <2>1. /\ pc = "settle" /\ pc' = "answer" /\ ~Closed /\ verdict = "unknown"
        /\ UNCHANGED <<shown, op, verdict>>
    BY <1>41 DEF PublishUnknown
  <2>2. ~entry'.observed /\ ~entry'.closed
    BY <1>41 DEF PublishUnknown, Observed
  <2>3. entry'.connection # "Ok" => entry'.transaction = "Unknown"
    BY <1>41, NativeTable DEF PublishUnknown, Observed
  <2> QED
    BY <2>1, <2>2, <2>3
<1>42. CASE Reply
  BY <1>42 DEF Reply, EndContext
<1>43. CASE ClientCancels \/ DeadlineExpires \/ StopRequested
  BY <1>43 DEF ClientCancels, DeadlineExpires, StopRequested
<1>44. CASE UNCHANGED vars
  BY <1>44 DEF vars
<1> QED
  BY <1>1, <1>2, <1>3, <1>4, <1>5, <1>6, <1>7, <1>8, <1>9, <1>10, <1>11, <1>12, <1>13,
     <1>14, <1>15, <1>16, <1>17, <1>18, <1>19, <1>20, <1>21, <1>22, <1>23, <1>24, <1>25,
     <1>26, <1>27, <1>28, <1>29, <1>30, <1>31, <1>32, <1>33, <1>34, <1>35, <1>36, <1>37,
     <1>38, <1>39, <1>40, <1>41, <1>42, <1>43, <1>44
     DEF Next, ServerStep, WorkerStep

\* Only a send makes a statement outstanding, only the server answers it.
LEMMA WireStep ==
  ASSUME TypeInv, PhaseInv, WireInv, [Next]_vars
  PROVE  WireInv'
<1> USE DEF PhaseInv, InFlight, Working, WireInv, Begins, Commits, Rollbacks, Statements,
     serverVars, wireVars, flagVars, callVars, shownVars
<1>1. CASE ServerBegins
  BY <1>1 DEF ServerBegins, Answer
<1>2. CASE ServerRuns
  BY <1>2 DEF ServerRuns, Answer
<1>3. CASE ServerCommits
  BY <1>3 DEF ServerCommits, Answer
<1>4. CASE ServerRollsBack
  BY <1>4 DEF ServerRollsBack, Answer, Abort
<1>5. CASE ServerRejects
  BY <1>5 DEF ServerRejects, Answer, Abort
<1>6. CASE ServerDies
  BY <1>6 DEF ServerDies
<1>7. CASE RefuseSend
  BY <1>7 DEF RefuseSend, Return
<1>8. CASE SendFails
  BY <1>8 DEF SendFails, Return
<1>9. CASE Send
  BY <1>9 DEF Send
<1>10. CASE AbandonFlush
  BY <1>10 DEF AbandonFlush, Return
<1>11. CASE Flushed
  BY <1>11 DEF Flushed
<1>12. CASE FlushFails
  BY <1>12 DEF FlushFails, Return
<1>13. CASE DispatchCancel
  BY <1>13 DEF DispatchCancel, Return
<1>14. CASE Collect
  BY <1>14 DEF Collect, Return
<1>15. CASE Retrieve
  BY <1>15 DEF Retrieve, Return, TagOverflows
<1>16. CASE Overflow
  BY <1>16 DEF Overflow
<1>17. CASE Readable
  BY <1>17 DEF Readable
<1>18. CASE Traffic
  BY <1>18 DEF Traffic
<1>19. CASE PollFails
  BY <1>19 DEF PollFails, EndPoll, Return
<1>20. CASE RefuseCopy
  BY <1>20 DEF RefuseCopy, Return
<1>21. ASSUME NEW o \in Operations \cup {"shutdown"}, Dequeue(o)
       PROVE  WireInv'
  BY <1>21 DEF Dequeue
<1>22. CASE RefuseOperation
  BY <1>22 DEF RefuseOperation, Refuse
<1>23. CASE RefuseInvalidQuery
  BY <1>23 DEF RefuseInvalidQuery, Refuse
<1>24. CASE StartOperation
  BY <1>24 DEF StartOperation
<1>25. CASE FirstCommand
  BY <1>25 DEF FirstCommand, Issue
<1>26. CASE DecideLocally
  BY <1>26 DEF DecideLocally, Decide, Native
<1>27. CASE Dispose
  BY <1>27 DEF Dispose, Decide, Native
<1>28. CASE FinishOpen
  BY <1>28 DEF FinishOpen, Decide, Passed
<1>29. CASE NextSchemaCommand
  BY <1>29 DEF NextSchemaCommand, Issue, Passed
<1>30. CASE FinishSchema
  BY <1>30 DEF FinishSchema, Decide, Passed
<1>31. CASE DrainQuery
  BY <1>31 DEF DrainQuery
<1>32. CASE FinishQuery
  BY <1>32 DEF FinishQuery, Decide, Passed
<1>33. CASE FinishDrain
  BY <1>33 DEF FinishDrain, Drained, Decide, Passed
<1>34. CASE StartClearing
  BY <1>34 DEF StartClearing
<1>35. CASE ClearResults
  BY <1>35 DEF ClearResults, Drained, Decide, Passed
<1>36. CASE FinishCommit
  BY <1>36 DEF FinishCommit, Decide, Native
<1>37. CASE FinishRollback
  BY <1>37 DEF FinishRollback, Decide, Passed, Native
<1>38. CASE FinishShutdown
  BY <1>38 DEF FinishShutdown, DisposeAfterRollback, Decide, Native
<1>39. CASE PublishResult
  BY <1>39 DEF PublishResult, EndContext
<1>40. CASE PublishObservation
  BY <1>40 DEF PublishObservation
<1>41. CASE PublishUnknown
  BY <1>41 DEF PublishUnknown
<1>42. CASE Reply
  BY <1>42 DEF Reply, EndContext
<1>43. CASE ClientCancels \/ DeadlineExpires \/ StopRequested
  BY <1>43 DEF ClientCancels, DeadlineExpires, StopRequested
<1>44. CASE UNCHANGED vars
  BY <1>44 DEF vars
<1> QED
  BY <1>1, <1>2, <1>3, <1>4, <1>5, <1>6, <1>7, <1>8, <1>9, <1>10, <1>11, <1>12, <1>13,
     <1>14, <1>15, <1>16, <1>17, <1>18, <1>19, <1>20, <1>21, <1>22, <1>23, <1>24, <1>25,
     <1>26, <1>27, <1>28, <1>29, <1>30, <1>31, <1>32, <1>33, <1>34, <1>35, <1>36, <1>37,
     <1>38, <1>39, <1>40, <1>41, <1>42, <1>43, <1>44
     DEF Next, ServerStep, WorkerStep

\* An answer and the transaction status come together.
LEMMA TxStep ==
  ASSUME TypeInv, PhaseInv, WireInv, TxInv, [Next]_vars
  PROVE  TxInv'
<1> USE DEF PhaseInv, InFlight, Working, WireInv, TxInv, TxAfter, Begins, Commits, Rollbacks,
     Statements, serverVars, wireVars, flagVars, callVars, shownVars
<1>1. CASE ServerBegins
  BY <1>1 DEF ServerBegins, Answer
<1>2. CASE ServerRuns
  BY <1>2 DEF ServerRuns, Answer
<1>3. CASE ServerCommits
  BY <1>3 DEF ServerCommits, Answer
<1>4. CASE ServerRollsBack
  BY <1>4 DEF ServerRollsBack, Answer, Abort
<1>5. CASE ServerRejects
  BY <1>5 DEF ServerRejects, Answer, Abort
<1>6. CASE ServerDies
  BY <1>6 DEF ServerDies
<1>7. CASE RefuseSend
  BY <1>7 DEF RefuseSend, Return
<1>8. CASE SendFails
  BY <1>8 DEF SendFails, Return
<1>9. CASE Send
  BY <1>9 DEF Send
<1>10. CASE AbandonFlush
  BY <1>10 DEF AbandonFlush, Return
<1>11. CASE Flushed
  BY <1>11 DEF Flushed
<1>12. CASE FlushFails
  BY <1>12 DEF FlushFails, Return
<1>13. CASE DispatchCancel
  BY <1>13 DEF DispatchCancel, Return
<1>14. CASE Collect
  BY <1>14 DEF Collect, Return
<1>15. CASE Retrieve
  BY <1>15 DEF Retrieve, Return, TagOverflows
<1>16. CASE Overflow
  BY <1>16 DEF Overflow
<1>17. CASE Readable
  BY <1>17 DEF Readable
<1>18. CASE Traffic
  BY <1>18 DEF Traffic
<1>19. CASE PollFails
  BY <1>19 DEF PollFails, EndPoll, Return
<1>20. CASE RefuseCopy
  BY <1>20 DEF RefuseCopy, Return
<1>21. ASSUME NEW o \in Operations \cup {"shutdown"}, Dequeue(o)
       PROVE  TxInv'
  BY <1>21 DEF Dequeue
<1>22. CASE RefuseOperation
  BY <1>22 DEF RefuseOperation, Refuse
<1>23. CASE RefuseInvalidQuery
  BY <1>23 DEF RefuseInvalidQuery, Refuse
<1>24. CASE StartOperation
  BY <1>24 DEF StartOperation
<1>25. CASE FirstCommand
  BY <1>25 DEF FirstCommand, Issue
<1>26. CASE DecideLocally
  BY <1>26 DEF DecideLocally, Decide, Native
<1>27. CASE Dispose
  BY <1>27 DEF Dispose, Decide, Native
<1>28. CASE FinishOpen
  BY <1>28 DEF FinishOpen, Decide, Passed
<1>29. CASE NextSchemaCommand
  BY <1>29 DEF NextSchemaCommand, Issue, Passed
<1>30. CASE FinishSchema
  BY <1>30 DEF FinishSchema, Decide, Passed
<1>31. CASE DrainQuery
  BY <1>31 DEF DrainQuery
<1>32. CASE FinishQuery
  BY <1>32 DEF FinishQuery, Decide, Passed
<1>33. CASE FinishDrain
  BY <1>33 DEF FinishDrain, Drained, Decide, Passed
<1>34. CASE StartClearing
  BY <1>34 DEF StartClearing
<1>35. CASE ClearResults
  BY <1>35 DEF ClearResults, Drained, Decide, Passed
<1>36. CASE FinishCommit
  BY <1>36 DEF FinishCommit, Decide, Native
<1>37. CASE FinishRollback
  BY <1>37 DEF FinishRollback, Decide, Passed, Native
<1>38. CASE FinishShutdown
  BY <1>38 DEF FinishShutdown, DisposeAfterRollback, Decide, Native
<1>39. CASE PublishResult
  BY <1>39 DEF PublishResult, EndContext
<1>40. CASE PublishObservation
  BY <1>40 DEF PublishObservation
<1>41. CASE PublishUnknown
  BY <1>41 DEF PublishUnknown
<1>42. CASE Reply
  BY <1>42 DEF Reply, EndContext
<1>43. CASE ClientCancels \/ DeadlineExpires \/ StopRequested
  BY <1>43 DEF ClientCancels, DeadlineExpires, StopRequested
<1>44. CASE UNCHANGED vars
  BY <1>44 DEF vars
<1> QED
  BY <1>1, <1>2, <1>3, <1>4, <1>5, <1>6, <1>7, <1>8, <1>9, <1>10, <1>11, <1>12, <1>13,
     <1>14, <1>15, <1>16, <1>17, <1>18, <1>19, <1>20, <1>21, <1>22, <1>23, <1>24, <1>25,
     <1>26, <1>27, <1>28, <1>29, <1>30, <1>31, <1>32, <1>33, <1>34, <1>35, <1>36, <1>37,
     <1>38, <1>39, <1>40, <1>41, <1>42, <1>43, <1>44
     DEF Next, ServerStep, WorkerStep

\* What is published is native again after every operation.
LEMMA NativeStep ==
  ASSUME TypeInv, PhaseInv, StageInv, WireInv, TxInv, NativeInv, AdmitInv, VerdictInv,
         [Next]_vars
  PROVE  NativeInv'
<1> USE DEF PhaseInv, InFlight, Working, Publishing, WireInv, TxInv, TxAfter, NativeInv,
     Matches, Lost, Closed, Native, NativeConnection, Begins, Commits, Rollbacks, Statements,
     serverVars, wireVars, flagVars, callVars, shownVars
<1>1. CASE ServerStep
  BY <1>1, ServerFrame, ServerAtRest
<1>2. CASE RefuseSend
  BY <1>2 DEF RefuseSend, Return
<1>3. CASE SendFails
  BY <1>3 DEF SendFails, Return
<1>4. CASE Send
  BY <1>4 DEF Send
<1>5. CASE AbandonFlush
  BY <1>5 DEF AbandonFlush, Return
<1>6. CASE Flushed
  BY <1>6 DEF Flushed
<1>7. CASE FlushFails
  BY <1>7 DEF FlushFails, Return
<1>8. CASE DispatchCancel
  BY <1>8 DEF DispatchCancel, Return
<1>9. CASE Collect
  BY <1>9 DEF Collect, Return
<1>10. CASE Retrieve
  BY <1>10 DEF Retrieve, Return, TagOverflows
<1>11. CASE Overflow
  BY <1>11 DEF Overflow
<1>12. CASE Readable
  BY <1>12 DEF Readable
<1>13. CASE Traffic
  BY <1>13 DEF Traffic
<1>14. CASE PollFails
  BY <1>14 DEF PollFails, EndPoll, Return
<1>15. CASE RefuseCopy
  BY <1>15 DEF RefuseCopy, Return
<1>16. ASSUME NEW o \in Operations \cup {"shutdown"}, Dequeue(o)
       PROVE  NativeInv'
  BY <1>16 DEF Dequeue, StageInv
<1>17. CASE RefuseOperation
  BY <1>17 DEF RefuseOperation, Refuse
<1>18. CASE RefuseInvalidQuery
  BY <1>18 DEF RefuseInvalidQuery, Refuse
<1>19. CASE StartOperation
  BY <1>19 DEF StartOperation
<1>20. CASE FirstCommand
  <2>1. op \in Operations => op \in Accepted(shown)
    BY <1>20 DEF FirstCommand, AdmitInv, Busy
  <2>2. op \in Operations => Matches(shown) \/ Lost(shown)
    BY <1>20 DEF FirstCommand
  <2>3. Native = "Idle" => link = "ok" /\ tx = "Idle"
    BY NativeTable
  <2>4. Native = "InTransaction" => link = "ok" /\ tx = "InTransaction"
    BY NativeTable
  <2> HIDE DEF Native, NativeConnection
  <2> QED
    BY <1>20, <2>1, <2>2, <2>3, <2>4, AcceptedTable DEF FirstCommand, Issue, Operations
<1>21. CASE DecideLocally
  BY <1>21 DEF DecideLocally, Decide, Native
<1>22. CASE Dispose
  BY <1>22 DEF Dispose, Decide, Native
<1>23. CASE FinishOpen
  BY <1>23, PassedTable DEF FinishOpen, Decide, Passed
<1>24. CASE NextSchemaCommand
  BY <1>24 DEF NextSchemaCommand, Issue, Passed
<1>25. CASE FinishSchema
  <2>1. verdict' # "refused" /\ verdict' # "noop" /\ pc' = "publish"
    BY <1>25, PassedTable DEF FinishSchema, Decide, VerdictInv
  <2> QED
    BY <1>25, <2>1 DEF FinishSchema
<1>26. CASE DrainQuery
  BY <1>26 DEF DrainQuery
<1>27. CASE FinishQuery
  BY <1>27, PassedTable DEF FinishQuery, Decide, Passed
<1>28. CASE FinishDrain
  <2>1. verdict' \in {"failed", "unknown"} /\ pc' = "publish" /\ op = "query"
    BY <1>28, PassedTable DEF FinishDrain, Drained, Decide, TypeInv
  <2> QED
    BY <1>28, <2>1 DEF FinishDrain, Drained
<1>29. CASE StartClearing
  BY <1>29 DEF StartClearing
<1>30. CASE ClearResults
  <2>1. verdict' \in {"failed", "unknown"} /\ pc' = "publish" /\ op = "query"
    BY <1>30, PassedTable DEF ClearResults, Drained, Decide, TypeInv
  <2> QED
    BY <1>30, <2>1 DEF ClearResults, Drained
<1>31. CASE FinishCommit
  BY <1>31 DEF FinishCommit, Decide, Native
<1>32. CASE FinishRollback
  BY <1>32, PassedTable DEF FinishRollback, Decide, Passed, Native
<1>33. CASE FinishShutdown
  BY <1>33 DEF FinishShutdown, DisposeAfterRollback, Decide, Native
<1>34. CASE PublishResult
  <2>1. /\ pc = "publish" /\ pc' = IF op = "shutdown" THEN "answer" ELSE "observe"
        /\ command' = "none" /\ UNCHANGED <<tx, link, op, verdict, shown>>
    BY <1>34 DEF PublishResult
  <2>2. op = "shutdown" => Closed'
    BY <1>34, <2>1 DEF VerdictInv, VerdictsOf, Decided
  <2>3. Native' = Native /\ NativeConnection' = NativeConnection
    BY <2>1
  <2> HIDE DEF Native, NativeConnection
  <2> QED
    BY <2>1, <2>2, <2>3
<1>35. CASE PublishObservation
  <2>1. /\ pc = "observe" /\ pc' = IF verdict = "unknown" THEN "settle" ELSE "answer"
        /\ UNCHANGED <<tx, link, command, op, verdict, shown>>
    BY <1>35 DEF PublishObservation
  <2>2. Native' = Native /\ NativeConnection' = NativeConnection
    BY <2>1
  <2>3. ~Closed => Matches(entry')
    BY <1>35 DEF PublishObservation, Observed
  <2> HIDE DEF Native, NativeConnection
  <2> QED
    BY <2>1, <2>2, <2>3
<1>36. CASE PublishUnknown
  <2>1. /\ pc = "settle" /\ pc' = "answer" /\ verdict = "unknown"
        /\ UNCHANGED <<tx, link, command, op, verdict, shown>>
    BY <1>36 DEF PublishUnknown, StageInv
  <2>2. Native' = Native /\ NativeConnection' = NativeConnection
    BY <2>1
  <2>3. IF op = "commit" THEN Lost(entry') ELSE Matches(entry')
    BY <1>36 DEF PublishUnknown, Observed
  <2> HIDE DEF Native, NativeConnection
  <2> QED
    BY <2>1, <2>2, <2>3
<1>37. CASE Reply
  BY <1>37 DEF Reply, EndContext
<1>38. CASE ClientCancels \/ DeadlineExpires \/ StopRequested
  BY <1>38 DEF ClientCancels, DeadlineExpires, StopRequested
<1>39. CASE UNCHANGED vars
  BY <1>39 DEF vars
<1> QED
  BY <1>1, <1>2, <1>3, <1>4, <1>5, <1>6, <1>7, <1>8, <1>9, <1>10, <1>11, <1>12, <1>13,
     <1>14, <1>15, <1>16, <1>17, <1>18, <1>19, <1>20, <1>21, <1>22, <1>23, <1>24, <1>25,
     <1>26, <1>27, <1>28, <1>29, <1>30, <1>31, <1>32, <1>33, <1>34, <1>35, <1>36, <1>37,
     <1>38, <1>39
     DEF Next, ServerStep, WorkerStep

\* The precondition is checked once, and what was shown holds until the reply.
LEMMA AdmitStep ==
  ASSUME TypeInv, PhaseInv, StageInv, NativeInv, AdmitInv, [Next]_vars
  PROVE  AdmitInv'
<1> USE DEF PhaseInv, InFlight, Working, Publishing, NativeInv, Matches, Lost, AdmitInv, Busy,
     Begins, Commits, Rollbacks, Statements, serverVars, wireVars, flagVars, callVars,
     shownVars
<1>1. CASE ServerBegins
  BY <1>1 DEF ServerBegins, Answer
<1>2. CASE ServerRuns
  BY <1>2 DEF ServerRuns, Answer
<1>3. CASE ServerCommits
  BY <1>3 DEF ServerCommits, Answer
<1>4. CASE ServerRollsBack
  BY <1>4 DEF ServerRollsBack, Answer, Abort
<1>5. CASE ServerRejects
  BY <1>5 DEF ServerRejects, Answer, Abort
<1>6. CASE ServerDies
  BY <1>6 DEF ServerDies
<1>7. CASE RefuseSend
  BY <1>7 DEF RefuseSend, Return
<1>8. CASE SendFails
  BY <1>8 DEF SendFails, Return
<1>9. CASE Send
  BY <1>9 DEF Send
<1>10. CASE AbandonFlush
  BY <1>10 DEF AbandonFlush, Return
<1>11. CASE Flushed
  BY <1>11 DEF Flushed
<1>12. CASE FlushFails
  BY <1>12 DEF FlushFails, Return
<1>13. CASE DispatchCancel
  BY <1>13 DEF DispatchCancel, Return
<1>14. CASE Collect
  BY <1>14 DEF Collect, Return
<1>15. CASE Retrieve
  BY <1>15 DEF Retrieve, Return, TagOverflows
<1>16. CASE Overflow
  BY <1>16 DEF Overflow
<1>17. CASE Readable
  BY <1>17 DEF Readable
<1>18. CASE Traffic
  BY <1>18 DEF Traffic
<1>19. CASE PollFails
  BY <1>19 DEF PollFails, EndPoll, Return
<1>20. CASE RefuseCopy
  BY <1>20 DEF RefuseCopy, Return
<1>21. ASSUME NEW o \in Operations \cup {"shutdown"}, Dequeue(o)
       PROVE  AdmitInv'
  BY <1>21 DEF Dequeue, Operations
<1>22. CASE RefuseOperation
  BY <1>22 DEF RefuseOperation, Refuse, StageInv
<1>23. CASE RefuseInvalidQuery
  BY <1>23 DEF RefuseInvalidQuery, Refuse
<1>24. CASE StartOperation
  BY <1>24 DEF StartOperation, StageInv
<1>25. CASE FirstCommand
  <2>1. op = "rollback" => op \in Accepted(shown)
    BY <1>25 DEF FirstCommand, Operations
  <2>2. op = "rollback" => shown.transaction = Native /\ Native # "Idle"
    BY <1>25, <2>1, AcceptedTable DEF FirstCommand
  <2>3. op = "rollback" => shown.transaction \in {"InTransaction", "InError"}
    BY <2>1, <2>2, AcceptedTable, NativeTable
  <2> QED
    BY <1>25, <2>3 DEF FirstCommand, Issue
<1>26. CASE DecideLocally
  <2>1. op = "rollback" => op \in Accepted(shown) /\ Native = "Idle"
    BY <1>26 DEF DecideLocally, Operations
  <2>2. op = "rollback" => shown.transaction = "Idle"
    BY <1>26, <2>1, AcceptedTable DEF DecideLocally
  <2> QED
    BY <1>26, <2>2 DEF DecideLocally, Decide
<1>27. CASE Dispose
  BY <1>27 DEF Dispose, Decide, Native
<1>28. CASE FinishOpen
  BY <1>28 DEF FinishOpen, Decide, Passed
<1>29. CASE NextSchemaCommand
  BY <1>29 DEF NextSchemaCommand, Issue, Passed
<1>30. CASE FinishSchema
  BY <1>30 DEF FinishSchema, Decide, Passed
<1>31. CASE DrainQuery
  BY <1>31 DEF DrainQuery
<1>32. CASE FinishQuery
  BY <1>32 DEF FinishQuery, Decide, Passed
<1>33. CASE FinishDrain
  BY <1>33 DEF FinishDrain, Drained, Decide, Passed
<1>34. CASE StartClearing
  BY <1>34 DEF StartClearing
<1>35. CASE ClearResults
  BY <1>35 DEF ClearResults, Drained, Decide, Passed
<1>36. CASE FinishCommit
  BY <1>36 DEF FinishCommit, Decide, Native
<1>37. CASE FinishRollback
  <2>1. command = "rollback"
    BY <1>37, CommandTable DEF FinishRollback
  <2>2. verdict' \in {"ok", "failed", "unknown"} /\ pc' = "publish"
    BY <1>37, PassedTable DEF FinishRollback, Decide
  <2> QED
    BY <1>37, <2>1, <2>2 DEF FinishRollback
<1>38. CASE FinishShutdown
  BY <1>38 DEF FinishShutdown, DisposeAfterRollback, Decide, Native
<1>39. CASE PublishResult
  BY <1>39 DEF PublishResult, EndContext
<1>40. CASE PublishObservation
  BY <1>40 DEF PublishObservation
<1>41. CASE PublishUnknown
  BY <1>41 DEF PublishUnknown
<1>42. CASE Reply
  BY <1>42 DEF Reply, EndContext
<1>43. CASE ClientCancels \/ DeadlineExpires \/ StopRequested
  BY <1>43 DEF ClientCancels, DeadlineExpires, StopRequested
<1>44. CASE UNCHANGED vars
  BY <1>44 DEF vars
<1> QED
  BY <1>1, <1>2, <1>3, <1>4, <1>5, <1>6, <1>7, <1>8, <1>9, <1>10, <1>11, <1>12, <1>13,
     <1>14, <1>15, <1>16, <1>17, <1>18, <1>19, <1>20, <1>21, <1>22, <1>23, <1>24, <1>25,
     <1>26, <1>27, <1>28, <1>29, <1>30, <1>31, <1>32, <1>33, <1>34, <1>35, <1>36, <1>37,
     <1>38, <1>39, <1>40, <1>41, <1>42, <1>43, <1>44
     DEF Next, ServerStep, WorkerStep

\* No operation reports a success its connection does not show.
LEMMA VerdictStep ==
  ASSUME TypeInv, PhaseInv, WireInv, TxInv, VerdictInv, [Next]_vars
  PROVE  VerdictInv'
<1> USE DEF PhaseInv, InFlight, Working, Publishing, WireInv, TxInv, TxAfter, VerdictInv,
     VerdictsOf, Decided, CommandOfOp, Begins, Commits, Rollbacks, Statements, serverVars,
     wireVars, flagVars, callVars, shownVars
<1>1. CASE ServerBegins
  BY <1>1 DEF ServerBegins, Answer
<1>2. CASE ServerRuns
  BY <1>2 DEF ServerRuns, Answer
<1>3. CASE ServerCommits
  BY <1>3 DEF ServerCommits, Answer
<1>4. CASE ServerRollsBack
  BY <1>4 DEF ServerRollsBack, Answer, Abort
<1>5. CASE ServerRejects
  BY <1>5 DEF ServerRejects, Answer, Abort
<1>6. CASE ServerDies
  BY <1>6 DEF ServerDies
<1>7. CASE RefuseSend
  BY <1>7 DEF RefuseSend, Return
<1>8. CASE SendFails
  BY <1>8 DEF SendFails, Return
<1>9. CASE Send
  BY <1>9 DEF Send
<1>10. CASE AbandonFlush
  BY <1>10 DEF AbandonFlush, Return
<1>11. CASE Flushed
  BY <1>11 DEF Flushed
<1>12. CASE FlushFails
  BY <1>12 DEF FlushFails, Return
<1>13. CASE DispatchCancel
  BY <1>13 DEF DispatchCancel, Return
<1>14. CASE Collect
  BY <1>14 DEF Collect, Return
<1>15. CASE Retrieve
  BY <1>15 DEF Retrieve, Return, TagOverflows
<1>16. CASE Overflow
  BY <1>16 DEF Overflow
<1>17. CASE Readable
  BY <1>17 DEF Readable
<1>18. CASE Traffic
  BY <1>18 DEF Traffic
<1>19. CASE PollFails
  BY <1>19 DEF PollFails, EndPoll, Return
<1>20. CASE RefuseCopy
  BY <1>20 DEF RefuseCopy, Return
<1>21. ASSUME NEW o \in Operations \cup {"shutdown"}, Dequeue(o)
       PROVE  VerdictInv'
  BY <1>21 DEF Dequeue
<1>22. CASE RefuseOperation
  BY <1>22 DEF RefuseOperation, Refuse, Busy, Operations, Accepted
<1>23. CASE RefuseInvalidQuery
  BY <1>23 DEF RefuseInvalidQuery, Refuse
<1>24. CASE StartOperation
  BY <1>24 DEF StartOperation
<1>25. CASE FirstCommand
  BY <1>25 DEF FirstCommand, Issue
<1>26. CASE DecideLocally
  BY <1>26, NativeTable DEF DecideLocally, Decide
<1>27. CASE Dispose
  BY <1>27 DEF Dispose, Decide, Native
<1>28. CASE FinishOpen
  BY <1>28, PassedTable DEF FinishOpen, Decide, Passed
<1>29. CASE NextSchemaCommand
  BY <1>29, PassedTable DEF NextSchemaCommand, Issue, Passed
<1>30. CASE FinishSchema
  BY <1>30, PassedTable DEF FinishSchema, Decide, Passed
<1>31. CASE DrainQuery
  BY <1>31 DEF DrainQuery
<1>32. CASE FinishQuery
  BY <1>32, PassedTable DEF FinishQuery, Decide, Passed
<1>33. CASE FinishDrain
  <2>1. verdict' \in {"failed", "unknown"} /\ pc' = "publish" /\ op = "query"
    BY <1>33, PassedTable DEF FinishDrain, Drained, Decide, TypeInv
  <2> QED
    BY <1>33, <2>1 DEF FinishDrain, Drained
<1>34. CASE StartClearing
  BY <1>34 DEF StartClearing
<1>35. CASE ClearResults
  <2>1. verdict' \in {"failed", "unknown"} /\ pc' = "publish" /\ op = "query"
    BY <1>35, PassedTable DEF ClearResults, Drained, Decide, TypeInv
  <2> QED
    BY <1>35, <2>1 DEF ClearResults, Drained
<1>36. CASE FinishCommit
  BY <1>36 DEF FinishCommit, Decide, Native
<1>37. CASE FinishRollback
  BY <1>37, PassedTable DEF FinishRollback, Decide, Passed, Native
<1>38. CASE FinishShutdown
  BY <1>38 DEF FinishShutdown, DisposeAfterRollback, Decide, Native
<1>39. CASE PublishResult
  BY <1>39 DEF PublishResult, EndContext
<1>40. CASE PublishObservation
  BY <1>40 DEF PublishObservation
<1>41. CASE PublishUnknown
  BY <1>41 DEF PublishUnknown
<1>42. CASE Reply
  BY <1>42 DEF Reply, Closed
<1>43. CASE ClientCancels \/ DeadlineExpires \/ StopRequested
  BY <1>43 DEF ClientCancels, DeadlineExpires, StopRequested
<1>44. CASE UNCHANGED vars
  BY <1>44 DEF vars
<1> QED
  BY <1>1, <1>2, <1>3, <1>4, <1>5, <1>6, <1>7, <1>8, <1>9, <1>10, <1>11, <1>12, <1>13,
     <1>14, <1>15, <1>16, <1>17, <1>18, <1>19, <1>20, <1>21, <1>22, <1>23, <1>24, <1>25,
     <1>26, <1>27, <1>28, <1>29, <1>30, <1>31, <1>32, <1>33, <1>34, <1>35, <1>36, <1>37,
     <1>38, <1>39, <1>40, <1>41, <1>42, <1>43, <1>44
     DEF Next, ServerStep, WorkerStep

\* The transaction of a commit or rollback, through answers, errors and death.
LEMMA EffectStep ==
  ASSUME TypeInv, PhaseInv, WireInv, TxInv, VerdictInv, EffectInv, [Next]_vars
  PROVE  EffectInv'
<1> USE DEF PhaseInv, InFlight, Working, Publishing, WireInv, TxInv, TxAfter, VerdictInv,
     EffectInv, Decided, CommandOfOp, Begins, Commits, Rollbacks, Statements, serverVars,
     wireVars, flagVars, callVars, shownVars
<1>1. CASE ServerBegins
  BY <1>1 DEF ServerBegins, Answer
<1>2. CASE ServerRuns
  BY <1>2 DEF ServerRuns, Answer
<1>3. CASE ServerCommits
  BY <1>3 DEF ServerCommits, Answer
<1>4. CASE ServerRollsBack
  BY <1>4 DEF ServerRollsBack, Answer, Abort
<1>5. CASE ServerRejects
  BY <1>5 DEF ServerRejects, Answer, Abort
<1>6. CASE ServerDies
  <2>1. /\ UNCHANGED <<tx, op, pc, link, command, verdict, returned>>
        /\ effect' = effect \/ (tx # "Idle" /\ effect' = "aborted")
        /\ result' \in {result, "none"}
    BY <1>6 DEF ServerDies
  <2>2. op = "commit" /\ ((InFlight /\ result = "ok") \/ (pc = "returned" /\ returned = "ok")) =>
          tx = "Idle"
    BY CommandTable
  <2>3. op = "commit" /\ Decided /\ verdict = "ok" => tx = "Idle"
    OBVIOUS
  <2> QED
    BY <2>1, <2>2, <2>3
<1>7. CASE RefuseSend
  BY <1>7 DEF RefuseSend, Return
<1>8. CASE SendFails
  BY <1>8 DEF SendFails, Return
<1>9. CASE Send
  BY <1>9 DEF Send
<1>10. CASE AbandonFlush
  BY <1>10 DEF AbandonFlush, Return
<1>11. CASE Flushed
  BY <1>11 DEF Flushed
<1>12. CASE FlushFails
  BY <1>12 DEF FlushFails, Return
<1>13. CASE DispatchCancel
  BY <1>13 DEF DispatchCancel, Return
<1>14. CASE Collect
  BY <1>14 DEF Collect, Return
<1>15. CASE Retrieve
  BY <1>15 DEF Retrieve, Return, TagOverflows
<1>16. CASE Overflow
  BY <1>16 DEF Overflow
<1>17. CASE Readable
  BY <1>17 DEF Readable
<1>18. CASE Traffic
  BY <1>18 DEF Traffic
<1>19. CASE PollFails
  BY <1>19 DEF PollFails, EndPoll, Return
<1>20. CASE RefuseCopy
  BY <1>20 DEF RefuseCopy, Return
<1>21. ASSUME NEW o \in Operations \cup {"shutdown"}, Dequeue(o)
       PROVE  EffectInv'
  BY <1>21 DEF Dequeue
<1>22. CASE RefuseOperation
  BY <1>22 DEF RefuseOperation, Refuse
<1>23. CASE RefuseInvalidQuery
  BY <1>23 DEF RefuseInvalidQuery, Refuse
<1>24. CASE StartOperation
  BY <1>24 DEF StartOperation
<1>25. CASE FirstCommand
  BY <1>25 DEF FirstCommand, Issue
<1>26. CASE DecideLocally
  BY <1>26, NativeTable DEF DecideLocally, Decide
<1>27. CASE Dispose
  BY <1>27 DEF Dispose, Decide, Native
<1>28. CASE FinishOpen
  BY <1>28 DEF FinishOpen, Decide, Passed
<1>29. CASE NextSchemaCommand
  BY <1>29 DEF NextSchemaCommand, Issue, Passed
<1>30. CASE FinishSchema
  BY <1>30 DEF FinishSchema, Decide, Passed
<1>31. CASE DrainQuery
  BY <1>31 DEF DrainQuery
<1>32. CASE FinishQuery
  BY <1>32 DEF FinishQuery, Decide, Passed
<1>33. CASE FinishDrain
  BY <1>33 DEF FinishDrain, Drained, Decide, Passed
<1>34. CASE StartClearing
  BY <1>34 DEF StartClearing
<1>35. CASE ClearResults
  BY <1>35 DEF ClearResults, Drained, Decide, Passed
<1>36. CASE FinishCommit
  BY <1>36 DEF FinishCommit, Decide, Native
<1>37. CASE FinishRollback
  BY <1>37, PassedTable DEF FinishRollback, Decide, Passed, Native
<1>38. CASE FinishShutdown
  BY <1>38 DEF FinishShutdown, DisposeAfterRollback, Decide, Native
<1>39. CASE PublishResult
  BY <1>39 DEF PublishResult, EndContext
<1>40. CASE PublishObservation
  BY <1>40 DEF PublishObservation
<1>41. CASE PublishUnknown
  BY <1>41 DEF PublishUnknown
<1>42. CASE Reply
  BY <1>42 DEF Reply, EndContext
<1>43. CASE ClientCancels \/ DeadlineExpires \/ StopRequested
  BY <1>43 DEF ClientCancels, DeadlineExpires, StopRequested
<1>44. CASE UNCHANGED vars
  BY <1>44 DEF vars
<1> QED
  BY <1>1, <1>2, <1>3, <1>4, <1>5, <1>6, <1>7, <1>8, <1>9, <1>10, <1>11, <1>12, <1>13,
     <1>14, <1>15, <1>16, <1>17, <1>18, <1>19, <1>20, <1>21, <1>22, <1>23, <1>24, <1>25,
     <1>26, <1>27, <1>28, <1>29, <1>30, <1>31, <1>32, <1>33, <1>34, <1>35, <1>36, <1>37,
     <1>38, <1>39, <1>40, <1>41, <1>42, <1>43, <1>44
     DEF Next, ServerStep, WorkerStep

\* A second COMMIT would need a transaction that the first left open.
LEMMA CommitsStep ==
  ASSUME TypeInv, PhaseInv, StageInv, WireInv, TxInv, NativeInv, AdmitInv, CommitsInv,
         [Next]_vars
  PROVE  CommitsInv'
<1> USE DEF PhaseInv, InFlight, Working, WireInv, TxInv, TxAfter, NativeInv, Matches, Lost,
     CommitsInv, CommandOfOp, Begins, Commits, Rollbacks, Statements, serverVars, wireVars,
     flagVars, callVars, shownVars
<1>1. CASE ServerBegins
  BY <1>1 DEF ServerBegins, Answer
<1>2. CASE ServerRuns
  BY <1>2 DEF ServerRuns, Answer
<1>3. CASE ServerCommits
  BY <1>3 DEF ServerCommits, Answer
<1>4. CASE ServerRollsBack
  BY <1>4 DEF ServerRollsBack, Answer, Abort
<1>5. CASE ServerRejects
  BY <1>5 DEF ServerRejects, Answer, Abort
<1>6. CASE ServerDies
  BY <1>6 DEF ServerDies
<1>7. CASE RefuseSend
  BY <1>7 DEF RefuseSend, Return
<1>8. CASE SendFails
  BY <1>8 DEF SendFails, Return
<1>9. CASE Send
  <2>1. commits \in {0, 1}
    BY DEF TypeInv, TypeOK
  <2>2. command = "commit" => commits = 0
    BY <1>9, <2>1 DEF Send
  <2>3. /\ link = "ok" /\ link' = "sent" /\ pc = "send" /\ result' = "none"
        /\ UNCHANGED <<tx, command, op>>
    BY <1>9 DEF Send
  <2>4. commits' = CASE command \in Begins -> 0
                     [] command = "commit" -> 1
                     [] OTHER -> commits
    BY <1>9, <2>2 DEF Send
  <2> QED
    BY <2>1, <2>3, <2>4
<1>10. CASE AbandonFlush
  BY <1>10 DEF AbandonFlush, Return
<1>11. CASE Flushed
  BY <1>11 DEF Flushed
<1>12. CASE FlushFails
  BY <1>12 DEF FlushFails, Return
<1>13. CASE DispatchCancel
  BY <1>13 DEF DispatchCancel, Return
<1>14. CASE Collect
  BY <1>14 DEF Collect, Return
<1>15. CASE Retrieve
  BY <1>15 DEF Retrieve, Return, TagOverflows
<1>16. CASE Overflow
  BY <1>16 DEF Overflow
<1>17. CASE Readable
  BY <1>17 DEF Readable
<1>18. CASE Traffic
  BY <1>18 DEF Traffic
<1>19. CASE PollFails
  BY <1>19 DEF PollFails, EndPoll, Return
<1>20. CASE RefuseCopy
  BY <1>20 DEF RefuseCopy, Return
<1>21. ASSUME NEW o \in Operations \cup {"shutdown"}, Dequeue(o)
       PROVE  CommitsInv'
  BY <1>21 DEF Dequeue
<1>22. CASE RefuseOperation
  BY <1>22 DEF RefuseOperation, Refuse
<1>23. CASE RefuseInvalidQuery
  BY <1>23 DEF RefuseInvalidQuery, Refuse
<1>24. CASE StartOperation
  <2>1. op = "query" => Native = "InTransaction"
    BY <1>24, AcceptedTable DEF StartOperation, StageInv
  <2>2. op = "query" => commits # 1
    BY <2>1, NativeTable
  <2>3. commits \in {0, 1}
    BY DEF TypeInv, TypeOK
  <2> QED
    BY <1>24, <2>2, <2>3 DEF StartOperation
<1>25. CASE FirstCommand
  BY <1>25 DEF FirstCommand, Issue
<1>26. CASE DecideLocally
  BY <1>26 DEF DecideLocally, Decide, Native
<1>27. CASE Dispose
  BY <1>27 DEF Dispose, Decide, Native
<1>28. CASE FinishOpen
  BY <1>28 DEF FinishOpen, Decide, Passed
<1>29. CASE NextSchemaCommand
  BY <1>29 DEF NextSchemaCommand, Issue, Passed
<1>30. CASE FinishSchema
  BY <1>30 DEF FinishSchema, Decide, Passed
<1>31. CASE DrainQuery
  BY <1>31 DEF DrainQuery
<1>32. CASE FinishQuery
  BY <1>32 DEF FinishQuery, Decide, Passed
<1>33. CASE FinishDrain
  BY <1>33 DEF FinishDrain, Drained, Decide, Passed
<1>34. CASE StartClearing
  BY <1>34 DEF StartClearing
<1>35. CASE ClearResults
  BY <1>35 DEF ClearResults, Drained, Decide, Passed
<1>36. CASE FinishCommit
  BY <1>36 DEF FinishCommit, Decide, Native
<1>37. CASE FinishRollback
  BY <1>37 DEF FinishRollback, Decide, Passed, Native
<1>38. CASE FinishShutdown
  BY <1>38 DEF FinishShutdown, DisposeAfterRollback, Decide, Native
<1>39. CASE PublishResult
  BY <1>39 DEF PublishResult, EndContext
<1>40. CASE PublishObservation
  BY <1>40 DEF PublishObservation
<1>41. CASE PublishUnknown
  BY <1>41 DEF PublishUnknown
<1>42. CASE Reply
  BY <1>42 DEF Reply, EndContext
<1>43. CASE ClientCancels \/ DeadlineExpires \/ StopRequested
  BY <1>43 DEF ClientCancels, DeadlineExpires, StopRequested
<1>44. CASE UNCHANGED vars
  BY <1>44 DEF vars
<1> QED
  BY <1>1, <1>2, <1>3, <1>4, <1>5, <1>6, <1>7, <1>8, <1>9, <1>10, <1>11, <1>12, <1>13,
     <1>14, <1>15, <1>16, <1>17, <1>18, <1>19, <1>20, <1>21, <1>22, <1>23, <1>24, <1>25,
     <1>26, <1>27, <1>28, <1>29, <1>30, <1>31, <1>32, <1>33, <1>34, <1>35, <1>36, <1>37,
     <1>38, <1>39, <1>40, <1>41, <1>42, <1>43, <1>44
     DEF Next, ServerStep, WorkerStep

\* The worker's own variables keep their types.
LEMMA OwnTypeStep ==
  ASSUME ServerTypes, OwnTypes, [Next]_vars
  PROVE  OwnTypes'
<1> USE DEF ServerTypes, OwnTypes, serverVars, wireVars, flagVars, callVars, shownVars
<1>1. CASE ServerStep
  BY <1>1, ServerFrame
<1>2. CASE RefuseSend
  BY <1>2 DEF RefuseSend, Return
<1>3. CASE SendFails
  BY <1>3 DEF SendFails, Return
<1>4. CASE Send
  BY <1>4 DEF Send
<1>5. CASE AbandonFlush
  BY <1>5 DEF AbandonFlush, Return
<1>6. CASE Flushed
  BY <1>6 DEF Flushed
<1>7. CASE FlushFails
  BY <1>7 DEF FlushFails, Return
<1>8. CASE DispatchCancel
  BY <1>8 DEF DispatchCancel, Return
<1>9. CASE Collect
  BY <1>9 DEF Collect, Return
<1>10. CASE Retrieve
  <2>1. returned' \in {"ok", "error", "unknown"} /\ link' \in {"ok", "bad"} /\ pc' = "returned"
    BY <1>10 DEF Retrieve, Return
  <2> QED
    BY <1>10, <2>1 DEF Retrieve
<1>11. CASE Overflow
  BY <1>11 DEF Overflow
<1>12. CASE Readable
  BY <1>12 DEF Readable
<1>13. CASE Traffic
  BY <1>13 DEF Traffic
<1>14. CASE PollFails
  BY <1>14 DEF PollFails, EndPoll, Return
<1>15. CASE RefuseCopy
  BY <1>15 DEF RefuseCopy, Return
<1>16. ASSUME NEW o \in Operations \cup {"shutdown"}, Dequeue(o)
       PROVE  OwnTypes'
  BY <1>16 DEF Dequeue
<1>17. CASE RefuseOperation
  BY <1>17 DEF RefuseOperation, Refuse
<1>18. CASE RefuseInvalidQuery
  BY <1>18 DEF RefuseInvalidQuery, Refuse
<1>19. CASE StartOperation
  BY <1>19 DEF StartOperation
<1>20. CASE FirstCommand
  BY <1>20 DEF FirstCommand, Issue, Commands, Begins, Commits, Rollbacks, Statements
<1>21. CASE DecideLocally
  BY <1>21 DEF DecideLocally, Decide, Native
<1>22. CASE Dispose
  BY <1>22 DEF Dispose, Decide, Native
<1>23. CASE FinishOpen
  BY <1>23, TypeParts, PassedTable DEF FinishOpen, Decide, Passed
<1>24. CASE NextSchemaCommand
  <2>1. /\ command' \in {"catalog", "commit_schema", "rollback_schema"} /\ pc' = "send"
        /\ verdict' \in {verdict, "failed", "unknown"}
        /\ UNCHANGED <<serverVars, link, firstError, cancelling, returned, flagVars, op,
                       shownVars, commits>>
    BY <1>24, TypeParts, PassedTable DEF NextSchemaCommand, Issue
  <2>2. command' \in Commands
    BY <2>1 DEF Commands, Commits, Rollbacks
  <2> QED
    BY <2>1, <2>2
<1>25. CASE FinishSchema
  BY <1>25, TypeParts, PassedTable DEF FinishSchema, Decide, Passed
<1>26. CASE DrainQuery
  BY <1>26 DEF DrainQuery
<1>27. CASE FinishQuery
  BY <1>27, TypeParts, PassedTable DEF FinishQuery, Decide, Passed
<1>28. CASE FinishDrain
  <2>1. verdict' \in {"ok", "failed", "unknown"} /\ cancelling' \in {cancelling, "failed"}
    BY <1>28, TypeParts, PassedTable DEF FinishDrain, Drained, Decide
  <2> QED
    BY <1>28, <2>1 DEF FinishDrain, Drained, Decide
<1>29. CASE StartClearing
  BY <1>29 DEF StartClearing
<1>30. CASE ClearResults
  <2>1. verdict' \in {"ok", "failed", "unknown"} /\ cancelling' \in {cancelling, "failed"}
    BY <1>30, TypeParts, PassedTable DEF ClearResults, Drained, Decide
  <2> QED
    BY <1>30, <2>1 DEF ClearResults, Drained, Decide
<1>31. CASE FinishCommit
  BY <1>31 DEF FinishCommit, Decide, Native
<1>32. CASE FinishRollback
  BY <1>32, TypeParts, PassedTable DEF FinishRollback, Decide, Passed, Native
<1>33. CASE FinishShutdown
  BY <1>33 DEF FinishShutdown, DisposeAfterRollback, Decide, Native
<1>34. CASE PublishResult
  <2>1. entry' \in PublishedHandle
    BY <1>34, TypeParts, PublicationType DEF PublishResult
  <2>2. /\ pc' \in {"observe", "answer"} /\ seen' \in {seen, catalog}
        /\ command' = "none" /\ firstError' = "none" /\ cancelling' = "no"
        /\ returned' = "none" /\ cancelled' = FALSE /\ expired' = FALSE
        /\ UNCHANGED <<link, stopping, op, verdict, shown, commits>>
    BY <1>34 DEF PublishResult, EndContext
  <2>3. /\ seen' \in 0..MaxCatalog
        /\ link' \in {"ok", "sent", "undrained", "bad", "none"}
        /\ op' \in Operations \cup {"none", "shutdown"}
        /\ stopping' \in BOOLEAN /\ commits' \in Nat /\ shown' \in PublishedHandle
    BY <2>2
  <2>4. verdict' \in {"none", "ok", "noop", "refused", "failed", "unknown", "verified", "uncertain"}
    BY <2>2
  <2> QED
    BY <2>1, <2>2, <2>3, <2>4
<1>35. CASE PublishObservation
  <2>1. entry.observed \in BOOLEAN /\ entry.dirty \in BOOLEAN
    BY DEF PublishedHandle
  <2>2. entry' \in PublishedHandle
    BY <1>35, <2>1, TypeParts, PublicationType DEF PublishObservation
  <2> QED
    BY <1>35, <2>2 DEF PublishObservation
<1>36. CASE PublishUnknown
  <2>1. entry.dirty \in BOOLEAN
    BY DEF PublishedHandle
  <2>2. entry' \in PublishedHandle
    BY <1>36, <2>1, TypeParts, PublicationType DEF PublishUnknown
  <2>3. /\ pc' = "answer"
        /\ UNCHANGED <<wireVars, flagVars, op, verdict, shown, seen, commits>>
    BY <1>36 DEF PublishUnknown
  <2> QED
    BY <2>2, <2>3
<1>37. CASE Reply
  <2>1. pc' \in {"closed", "idle"} /\ shown' = entry /\ cancelled' = FALSE /\ expired' = FALSE
    BY <1>37 DEF Reply, EndContext
  <2>2. UNCHANGED <<wireVars, stopping, op, verdict, entry, seen, commits>>
    BY <1>37 DEF Reply
  <2>3. /\ link' \in {"ok", "sent", "undrained", "bad", "none"}
        /\ command' \in Commands \cup {"none"}
        /\ firstError' \in {"none", "interrupted", "limit"}
        /\ cancelling' \in {"no", "dispatched", "failed"}
        /\ returned' \in {"none", "ok", "error", "unknown"}
    BY <2>2
  <2>4. verdict' \in {"none", "ok", "noop", "refused", "failed", "unknown", "verified", "uncertain"}
    BY <2>2
  <2>5. /\ shown' \in PublishedHandle /\ entry' \in PublishedHandle
        /\ op' \in Operations \cup {"none", "shutdown"}
        /\ stopping' \in BOOLEAN /\ seen' \in 0..MaxCatalog /\ commits' \in Nat
    BY <2>1, <2>2
  <2> QED
    BY <2>1, <2>3, <2>4, <2>5
<1>38. CASE ClientCancels \/ DeadlineExpires \/ StopRequested
  <2>1. /\ cancelled' \in BOOLEAN /\ expired' \in BOOLEAN /\ stopping' \in BOOLEAN
        /\ UNCHANGED <<serverVars, wireVars, callVars, shownVars, commits>>
    BY <1>38 DEF ClientCancels, DeadlineExpires, StopRequested
  <2> QED
    BY <2>1
<1>39. CASE UNCHANGED vars
  BY <1>39 DEF vars
<1> QED
  BY <1>1, <1>2, <1>3, <1>4, <1>5, <1>6, <1>7, <1>8, <1>9, <1>10, <1>11, <1>12, <1>13,
     <1>14, <1>15, <1>16, <1>17, <1>18, <1>19, <1>20, <1>21, <1>22, <1>23, <1>24, <1>25,
     <1>26, <1>27, <1>28, <1>29, <1>30, <1>31, <1>32, <1>33, <1>34, <1>35, <1>36, <1>37,
     <1>38, <1>39
     DEF Next, ServerStep, WorkerStep

\* Both halves of the types.
LEMMA TypeStep ==
  ASSUME TypeInv, [Next]_vars
  PROVE  TypeInv'
<1>1. ServerTypes /\ OwnTypes
  BY TypeParts
<1>2. ServerTypes' /\ OwnTypes'
  BY <1>1, ServerTypeStep, OwnTypeStep
<1> QED
  BY <1>2 DEF TypeInv, TypeOK, ServerTypes, OwnTypes

\* What is still outstanding after the adapter returned.
LEMMA PendingStep ==
  ASSUME TypeInv, PhaseInv, StageInv, WireInv, TxInv, NativeInv, AdmitInv, VerdictInv,
         PendingInv, [Next]_vars
  PROVE  PendingInv'
<1> USE DEF PhaseInv, InFlight, Working, WireInv, TxInv, TxAfter, VerdictInv, Decided,
     CommandOfOp, PendingInv, Told, Ending, Begins, Commits, Rollbacks, Statements,
     serverVars, wireVars, flagVars, callVars, shownVars
<1>1. CASE ServerBegins
  BY <1>1 DEF ServerBegins, Answer
<1>2. CASE ServerRuns
  BY <1>2 DEF ServerRuns, Answer
<1>3. CASE ServerCommits
  BY <1>3 DEF ServerCommits, Answer
<1>4. CASE ServerRollsBack
  BY <1>4 DEF ServerRollsBack, Answer, Abort
<1>5. CASE ServerRejects
  BY <1>5 DEF ServerRejects, Answer, Abort
<1>6. CASE ServerDies
  BY <1>6 DEF ServerDies
<1>7. CASE RefuseSend
  BY <1>7 DEF RefuseSend, Return, NativeInv
<1>8. CASE SendFails
  BY <1>8 DEF SendFails, Return, NativeInv
<1>9. CASE Send
  BY <1>9 DEF Send
<1>10. CASE AbandonFlush
  BY <1>10 DEF AbandonFlush, Return, Interrupted
<1>11. CASE Flushed
  BY <1>11 DEF Flushed
<1>12. CASE FlushFails
  BY <1>12 DEF FlushFails, Return
<1>13. CASE DispatchCancel
  BY <1>13 DEF DispatchCancel, Return
<1>14. CASE Collect
  BY <1>14 DEF Collect, Return
<1>15. CASE Retrieve
  BY <1>15 DEF Retrieve, Return, TagOverflows
<1>16. CASE Overflow
  BY <1>16 DEF Overflow
<1>17. CASE Readable
  BY <1>17 DEF Readable
<1>18. CASE Traffic
  BY <1>18 DEF Traffic
<1>19. CASE PollFails
  BY <1>19 DEF PollFails, EndPoll, Return
<1>20. CASE RefuseCopy
  BY <1>20 DEF RefuseCopy, Return
<1>21. ASSUME NEW o \in Operations \cup {"shutdown"}, Dequeue(o)
       PROVE  PendingInv'
  BY <1>21 DEF Dequeue
<1>22. CASE RefuseOperation
  BY <1>22 DEF RefuseOperation, Refuse
<1>23. CASE RefuseInvalidQuery
  BY <1>23 DEF RefuseInvalidQuery, Refuse
<1>24. CASE StartOperation
  <2>1. op = "get_schema" => Native = "Idle"
    BY <1>24, AcceptedTable DEF StartOperation, StageInv, NativeInv, Matches, Lost
  <2>2. op = "get_schema" => link = "ok" /\ tx = "Idle"
    BY <2>1, NativeTable
  <2> QED
    BY <1>24, <2>2 DEF StartOperation
<1>25. CASE FirstCommand
  BY <1>25 DEF FirstCommand, Issue
<1>26. CASE DecideLocally
  BY <1>26 DEF DecideLocally, Decide, Native
<1>27. CASE Dispose
  BY <1>27 DEF Dispose, Decide, Native
<1>28. CASE FinishOpen
  BY <1>28 DEF FinishOpen, Decide, Passed
<1>29. CASE NextSchemaCommand
  BY <1>29 DEF NextSchemaCommand, Issue, Passed
<1>30. CASE FinishSchema
  BY <1>30 DEF FinishSchema, Decide, Passed
<1>31. CASE DrainQuery
  BY <1>31 DEF DrainQuery
<1>32. CASE FinishQuery
  <2>1. returned = "ok" \/ (returned # "ok" /\ verdict' = Passed /\ ~Ending)
    BY <1>32 DEF FinishQuery, Decide
  <2>2. pending = "ddl" /\ command = "ddl" => verdict' = "unknown"
    BY <1>32, <2>1, PassedTable DEF FinishQuery
  <2> QED
    BY <1>32, <2>2 DEF FinishQuery, Decide
<1>33. CASE FinishDrain
  BY <1>33 DEF FinishDrain, Drained, Decide, Passed
<1>34. CASE StartClearing
  BY <1>34 DEF StartClearing
<1>35. CASE ClearResults
  <2>1. pending = "ddl" => verdict' = "unknown"
    BY <1>35 DEF ClearResults
  <2> QED
    BY <1>35, <2>1 DEF ClearResults, Drained, Decide
<1>36. CASE FinishCommit
  BY <1>36 DEF FinishCommit, Decide, Native
<1>37. CASE FinishRollback
  BY <1>37 DEF FinishRollback, Decide, Passed, Native
<1>38. CASE FinishShutdown
  BY <1>38 DEF FinishShutdown, DisposeAfterRollback, Decide, Native
<1>39. CASE PublishResult
  <2>1. /\ command' = "none" /\ pc' \in {"observe", "answer"}
        /\ entry' = IF op = "shutdown" THEN ClosedHandle ELSE Result
    BY <1>39 DEF PublishResult
  <2>2. UNCHANGED <<serverVars, link, stopping, op, verdict>>
    BY <1>39 DEF PublishResult
  <2>3. untold' = (untold /\ ~(op = "get_schema" /\ verdict = "ok"))
    BY <1>39 DEF PublishResult, TypeInv, TypeOK
  <2>4. Told /\ pending \in {"ddl", "commit"} => verdict = "unknown"
    BY <1>39 DEF PublishResult, Publishing, VerdictsOf
  <2>5. op = "get_schema" /\ verdict = "ok" => pending = "none"
    BY <1>39 DEF PublishResult, Publishing
  <2>6. op = "shutdown" => ~Told'
    BY <2>1 DEF ClosedHandle, FreshHandle
  <2>7. Told' /\ ~(op = "get_schema" /\ verdict = "ok") => Told /\ verdict # "unknown"
    BY <1>39, <2>1, <2>2, <2>3, <2>6, ResultTable DEF PublishResult
  <2>8. Told' => pending \notin {"ddl", "commit"}
    BY <2>4, <2>5, <2>7
  <2> QED
    BY <2>1, <2>2, <2>8
<1>40. CASE PublishObservation
  <2>1. Told' => Told
    BY <1>40 DEF PublishObservation, Observed, ClosedHandle, FreshHandle
  <2> QED
    BY <1>40, <2>1 DEF PublishObservation
<1>41. CASE PublishUnknown
  <2>1. ~Told'
    BY <1>41 DEF PublishUnknown, Observed
  <2> QED
    BY <1>41, <2>1 DEF PublishUnknown
<1>42. CASE Reply
  BY <1>42 DEF Reply, EndContext
<1>43. CASE ClientCancels \/ DeadlineExpires \/ StopRequested
  BY <1>43 DEF ClientCancels, DeadlineExpires, StopRequested
<1>44. CASE UNCHANGED vars
  BY <1>44 DEF vars
<1> QED
  BY <1>1, <1>2, <1>3, <1>4, <1>5, <1>6, <1>7, <1>8, <1>9, <1>10, <1>11, <1>12, <1>13,
     <1>14, <1>15, <1>16, <1>17, <1>18, <1>19, <1>20, <1>21, <1>22, <1>23, <1>24, <1>25,
     <1>26, <1>27, <1>28, <1>29, <1>30, <1>31, <1>32, <1>33, <1>34, <1>35, <1>36, <1>37,
     <1>38, <1>39, <1>40, <1>41, <1>42, <1>43, <1>44
     DEF Next, ServerStep, WorkerStep

\* Direct DDL is marked when its query is reported done.
LEMMA DirtyStep ==
  ASSUME TypeInv, PhaseInv, StageInv, WireInv, TxInv, NativeInv, AdmitInv, VerdictInv,
         PendingInv, DirtyInv, [Next]_vars
  PROVE  DirtyInv'
<1> USE DEF PhaseInv, InFlight, Working, Publishing, WireInv, TxInv, TxAfter, VerdictInv,
     Decided, CommandOfOp, PendingInv, DirtyInv, Unreported, Told, Ending, Begins, Commits,
     Rollbacks, Statements, serverVars, wireVars, flagVars, callVars, shownVars
<1>1. CASE ServerBegins
  BY <1>1 DEF ServerBegins, Answer
<1>2. CASE ServerRuns
  <2>1. /\ pending # "none" /\ result = "none" /\ alive /\ result' = "ok" /\ untold' = untold
        /\ ddl' = ddl \/ pending = "ddl"
    BY <1>2 DEF ServerRuns, Answer, TypeInv, TypeOK
  <2>2. UNCHANGED <<alive, entry, op, stopping, cancelled, expired, pc, command, link, returned,
                    verdict>>
    BY <1>2 DEF ServerRuns, Answer
  <2>3. CASE pending # "ddl"
    BY <2>1, <2>2, <2>3
  <2>4. CASE pending = "ddl"
    <3>1. Told => command = "ddl"
      BY <2>4
    <3>2. command = "ddl" =>
            pc \in {"flush", "collect", "read", "poll", "returned", "drain", "clear", "publish"}
      BY <2>4 DEF TypeInv, TypeOK, NativeInv
    <3>3. command = "ddl" => Unreported'
      BY <2>1, <2>2, <2>4, <3>2
    <3> QED
      BY <2>1, <2>2, <3>1, <3>3
  <2> QED
    BY <2>3, <2>4
<1>3. CASE ServerCommits
  BY <1>3 DEF ServerCommits, Answer
<1>4. CASE ServerRollsBack
  BY <1>4 DEF ServerRollsBack, Answer, Abort
<1>5. CASE ServerRejects
  BY <1>5 DEF ServerRejects, Answer, Abort
<1>6. CASE ServerDies
  BY <1>6 DEF ServerDies
<1>7. CASE RefuseSend
  BY <1>7 DEF RefuseSend, Return
<1>8. CASE SendFails
  BY <1>8 DEF SendFails, Return
<1>9. CASE Send
  BY <1>9 DEF Send
<1>10. CASE AbandonFlush
  BY <1>10 DEF AbandonFlush, Return, Interrupted
<1>11. CASE Flushed
  BY <1>11 DEF Flushed
<1>12. CASE FlushFails
  BY <1>12 DEF FlushFails, Return
<1>13. CASE DispatchCancel
  BY <1>13 DEF DispatchCancel, Return
<1>14. CASE Collect
  BY <1>14 DEF Collect, Return
<1>15. CASE Retrieve
  BY <1>15 DEF Retrieve, Return, TagOverflows
<1>16. CASE Overflow
  BY <1>16 DEF Overflow
<1>17. CASE Readable
  BY <1>17 DEF Readable
<1>18. CASE Traffic
  BY <1>18 DEF Traffic
<1>19. CASE PollFails
  BY <1>19 DEF PollFails, EndPoll, Return
<1>20. CASE RefuseCopy
  BY <1>20 DEF RefuseCopy, Return
<1>21. ASSUME NEW o \in Operations \cup {"shutdown"}, Dequeue(o)
       PROVE  DirtyInv'
  <2>1. pc = "idle" /\ op' = o /\ pc' \in {"check", "begin"} /\ (o # "shutdown" => pc' = "check")
    BY <1>21 DEF Dequeue
  <2>2. UNCHANGED <<alive, entry, untold, ddl, stopping, command>>
    BY <1>21 DEF Dequeue
  <2> QED
    BY <2>1, <2>2
<1>22. CASE RefuseOperation
  BY <1>22 DEF RefuseOperation, Refuse
<1>23. CASE RefuseInvalidQuery
  BY <1>23 DEF RefuseInvalidQuery, Refuse
<1>24. CASE StartOperation
  BY <1>24 DEF StartOperation
<1>25. CASE FirstCommand
  BY <1>25 DEF FirstCommand, Issue
<1>26. CASE DecideLocally
  BY <1>26 DEF DecideLocally, Decide, Native
<1>27. CASE Dispose
  BY <1>27 DEF Dispose, Decide, Native
<1>28. CASE FinishOpen
  BY <1>28 DEF FinishOpen, Decide, Passed
<1>29. CASE NextSchemaCommand
  BY <1>29 DEF NextSchemaCommand, Issue, Passed
<1>30. CASE FinishSchema
  BY <1>30 DEF FinishSchema, Decide, Passed
<1>31. CASE DrainQuery
  BY <1>31 DEF DrainQuery
<1>32. CASE FinishQuery
  <2>1. returned = "ok" \/ (returned # "ok" /\ ~Ending)
    BY <1>32 DEF FinishQuery
  <2>2. verdict' = Passed /\ pc = "returned" /\ pc' = "publish"
    BY <1>32, PassedTable DEF FinishQuery, Decide
  <2>3. Unreported => Unreported'
    BY <1>32, <2>1, <2>2, PassedTable DEF FinishQuery
  <2> QED
    BY <1>32, <2>2, <2>3 DEF FinishQuery
<1>33. CASE FinishDrain
  <2>1. /\ pc = "drain" /\ pc' = "publish"
        /\ UNCHANGED <<alive, command, stopping, entry, untold, ddl, op>>
    BY <1>33 DEF FinishDrain, Drained, Decide
  <2>2. \/ verdict' = "unknown"
        \/ verdict' = Passed /\ ~(cancelled \/ expired)
    BY <1>33 DEF FinishDrain, Drained, Decide
  <2>3. Unreported => Unreported' \/ stopping
    BY <2>1, <2>2, PassedTable
  <2> QED
    BY <2>1, <2>3
<1>34. CASE StartClearing
  BY <1>34 DEF StartClearing
<1>35. CASE ClearResults
  <2>1. /\ pc = "clear" /\ pc' = "publish"
        /\ UNCHANGED <<alive, command, stopping, entry, untold, ddl, op>>
    BY <1>35 DEF ClearResults, Drained, Decide
  <2>2. \/ verdict' = "unknown"
        \/ verdict' = Passed /\ ~(cancelled \/ expired)
    BY <1>35 DEF ClearResults, Drained, Decide
  <2>3. Unreported => Unreported' \/ stopping
    BY <2>1, <2>2, PassedTable
  <2> QED
    BY <2>1, <2>3
<1>36. CASE FinishCommit
  BY <1>36 DEF FinishCommit, Decide, Native
<1>37. CASE FinishRollback
  BY <1>37 DEF FinishRollback, Decide, Passed, Native
<1>38. CASE FinishShutdown
  BY <1>38 DEF FinishShutdown, DisposeAfterRollback, Decide, Native
<1>39. CASE PublishResult
  <2>1. /\ pc = "publish" /\ command' = "none"
        /\ pc' = IF op = "shutdown" THEN "answer" ELSE "observe"
        /\ entry' = IF op = "shutdown" THEN ClosedHandle ELSE Result
    BY <1>39 DEF PublishResult
  <2>2. UNCHANGED <<serverVars, link, stopping, op, verdict>>
    BY <1>39 DEF PublishResult
  <2>3. untold' = (untold /\ ~(op = "get_schema" /\ verdict = "ok"))
    BY <1>39 DEF PublishResult, TypeInv, TypeOK
  <2>4. op = "shutdown" => ~Told'
    BY <2>1 DEF ClosedHandle, FreshHandle
  <2>5. Told' /\ ~(op = "get_schema" /\ verdict = "ok") => Told /\ verdict # "unknown"
    BY <2>1, <2>2, <2>3, <2>4, ResultTable
  <2>6. ddl => ~(op = "get_schema" /\ verdict = "ok")
    BY <2>1
  <2>7. ddl /\ op \in {"commit", "rollback"} => verdict \notin {"ok", "noop"}
    BY <2>1
  <2>8. Told' /\ ddl /\ entry.dirty => entry'.dirty
    BY <2>1, <2>4, <2>5, <2>6, <2>7, ResultTable
  <2>9. Told' /\ ddl /\ Unreported => entry'.dirty
    BY <2>1, <2>4, <2>5, <2>6, ResultTable
  <2> QED
    BY <2>1, <2>2, <2>4, <2>5, <2>6, <2>8, <2>9
<1>40. CASE PublishObservation
  <2>1. pc = "observe" /\ pc' \in {"settle", "answer"}
        /\ UNCHANGED <<serverVars, command, stopping, op, verdict, untold>>
    BY <1>40 DEF PublishObservation
  <2>2. Told' => entry'.dirty = entry.dirty /\ Told
    BY <1>40 DEF PublishObservation, Observed, ClosedHandle, FreshHandle
  <2> QED
    BY <2>1, <2>2
<1>41. CASE PublishUnknown
  BY <1>41 DEF PublishUnknown, Observed
<1>42. CASE Reply
  <2>1. op = "shutdown" => ~entry.observed
    BY <1>42 DEF Reply, VerdictsOf, Closed, StageInv, ClosedHandle, FreshHandle
  <2>2. Closed => ~entry.observed
    BY <1>42 DEF Reply, StageInv, ClosedHandle, FreshHandle
  <2> QED
    BY <1>42, <2>1, <2>2 DEF Reply, StageInv
<1>43. CASE ClientCancels \/ DeadlineExpires \/ StopRequested
  BY <1>43 DEF ClientCancels, DeadlineExpires, StopRequested
<1>44. CASE UNCHANGED vars
  BY <1>44 DEF vars
<1> QED
  BY <1>1, <1>2, <1>3, <1>4, <1>5, <1>6, <1>7, <1>8, <1>9, <1>10, <1>11, <1>12, <1>13,
     <1>14, <1>15, <1>16, <1>17, <1>18, <1>19, <1>20, <1>21, <1>22, <1>23, <1>24, <1>25,
     <1>26, <1>27, <1>28, <1>29, <1>30, <1>31, <1>32, <1>33, <1>34, <1>35, <1>36, <1>37,
     <1>38, <1>39, <1>40, <1>41, <1>42, <1>43, <1>44
     DEF Next, ServerStep, WorkerStep

\* The catalog changes only by commits the client is told of.
LEMMA SchemaStep ==
  ASSUME TypeInv, PhaseInv, StageInv, WireInv, TxInv, NativeInv, AdmitInv, VerdictInv,
         PendingInv, DirtyInv, SchemaInv, [Next]_vars
  PROVE  SchemaInv'
<1> USE DEF PhaseInv, InFlight, Working, Publishing, WireInv, TxInv, TxAfter, VerdictInv,
     Decided, CommandOfOp, PendingInv, DirtyInv, SchemaInv, Unreported, Told, Ending, Begins,
     Commits, Rollbacks, Statements, serverVars, wireVars, flagVars, callVars, shownVars
<1>1. CASE ServerBegins
  BY <1>1 DEF ServerBegins, Answer
<1>2. CASE ServerRuns
  BY <1>2 DEF ServerRuns, Answer
<1>3. CASE ServerCommits
  <2>1. /\ pending \in Commits /\ alive
        /\ catalog' = (IF ddl THEN catalog + 1 ELSE catalog)
        /\ untold' = (untold \/ (pending = "raw_commit" /\ ddl))
        /\ UNCHANGED <<pc, op, verdict, command, entry, seen>>
    BY <1>3 DEF ServerCommits, Answer
  <2>2. CASE ~ddl
    BY <2>1, <2>2
  <2>3. CASE ddl /\ pending = "commit"
    <3>1. Told => command = "commit"
      BY <2>3
    <3>2. Told => entry.dirty
      BY <2>1, <2>3, <3>1
    <3> QED
      BY <2>1, <2>3, <3>1, <3>2
  <2>4. CASE ddl /\ pending = "raw_commit"
    BY <2>1, <2>4
  <2> QED
    BY <2>1, <2>2, <2>3, <2>4
<1>4. CASE ServerRollsBack
  BY <1>4 DEF ServerRollsBack, Answer, Abort
<1>5. CASE ServerRejects
  BY <1>5 DEF ServerRejects, Answer, Abort
<1>6. CASE ServerDies
  BY <1>6 DEF ServerDies
<1>7. CASE RefuseSend
  BY <1>7 DEF RefuseSend, Return
<1>8. CASE SendFails
  BY <1>8 DEF SendFails, Return
<1>9. CASE Send
  BY <1>9 DEF Send
<1>10. CASE AbandonFlush
  BY <1>10 DEF AbandonFlush, Return
<1>11. CASE Flushed
  BY <1>11 DEF Flushed
<1>12. CASE FlushFails
  BY <1>12 DEF FlushFails, Return
<1>13. CASE DispatchCancel
  BY <1>13 DEF DispatchCancel, Return
<1>14. CASE Collect
  BY <1>14 DEF Collect, Return
<1>15. CASE Retrieve
  BY <1>15 DEF Retrieve, Return, TagOverflows
<1>16. CASE Overflow
  BY <1>16 DEF Overflow
<1>17. CASE Readable
  BY <1>17 DEF Readable
<1>18. CASE Traffic
  BY <1>18 DEF Traffic
<1>19. CASE PollFails
  BY <1>19 DEF PollFails, EndPoll, Return
<1>20. CASE RefuseCopy
  BY <1>20 DEF RefuseCopy, Return
<1>21. ASSUME NEW o \in Operations \cup {"shutdown"}, Dequeue(o)
       PROVE  SchemaInv'
  BY <1>21 DEF Dequeue
<1>22. CASE RefuseOperation
  BY <1>22 DEF RefuseOperation, Refuse
<1>23. CASE RefuseInvalidQuery
  BY <1>23 DEF RefuseInvalidQuery, Refuse
<1>24. CASE StartOperation
  BY <1>24 DEF StartOperation
<1>25. CASE FirstCommand
  BY <1>25 DEF FirstCommand, Issue
<1>26. CASE DecideLocally
  BY <1>26 DEF DecideLocally, Decide, Native
<1>27. CASE Dispose
  BY <1>27 DEF Dispose, Decide, Native
<1>28. CASE FinishOpen
  BY <1>28 DEF FinishOpen, Decide, Passed
<1>29. CASE NextSchemaCommand
  BY <1>29 DEF NextSchemaCommand, Issue, Passed
<1>30. CASE FinishSchema
  BY <1>30 DEF FinishSchema, Decide, Passed
<1>31. CASE DrainQuery
  BY <1>31 DEF DrainQuery
<1>32. CASE FinishQuery
  BY <1>32 DEF FinishQuery, Decide, Passed
<1>33. CASE FinishDrain
  BY <1>33 DEF FinishDrain, Drained, Decide, Passed
<1>34. CASE StartClearing
  BY <1>34 DEF StartClearing
<1>35. CASE ClearResults
  BY <1>35 DEF ClearResults, Drained, Decide, Passed
<1>36. CASE FinishCommit
  BY <1>36 DEF FinishCommit, Decide, Native
<1>37. CASE FinishRollback
  BY <1>37 DEF FinishRollback, Decide, Passed, Native
<1>38. CASE FinishShutdown
  BY <1>38 DEF FinishShutdown, DisposeAfterRollback, Decide, Native
<1>39. CASE PublishResult
  <2>1. /\ command' = "none" /\ pc' \in {"observe", "answer"}
        /\ entry' = IF op = "shutdown" THEN ClosedHandle ELSE Result
    BY <1>39 DEF PublishResult
  <2>2. UNCHANGED <<serverVars, link, stopping, op, verdict>>
    BY <1>39 DEF PublishResult
  <2>3. untold' = (untold /\ ~(op = "get_schema" /\ verdict = "ok"))
    BY <1>39 DEF PublishResult, TypeInv, TypeOK
  <2>4. CASE op = "get_schema" /\ verdict = "ok"
    BY <1>39, <2>4 DEF PublishResult
  <2>5. CASE ~(op = "get_schema" /\ verdict = "ok")
    <3>1. op = "shutdown" => ~Told'
      BY <2>1 DEF ClosedHandle, FreshHandle
    <3>2. Told' => Told /\ verdict # "unknown"
      BY <1>39, <2>1, <2>2, <2>3, <2>5, <3>1, ResultTable DEF PublishResult
    <3>3. Told' => ~(command = "commit" /\ entry.dirty)
      BY <1>39, <2>1, <2>3, <2>5, <3>1, <3>2, ResultTable DEF PublishResult, VerdictsOf
    <3>4. UNCHANGED <<seen, catalog>>
      BY <1>39, <2>5 DEF PublishResult
    <3> QED
      BY <3>2, <3>3, <3>4
  <2> QED
    BY <2>4, <2>5
<1>40. CASE PublishObservation
  <2>1. Told' => Told
    BY <1>40 DEF PublishObservation, Observed, ClosedHandle, FreshHandle
  <2> QED
    BY <1>40, <2>1 DEF PublishObservation
<1>41. CASE PublishUnknown
  BY <1>41 DEF PublishUnknown, Observed
<1>42. CASE Reply
  BY <1>42 DEF Reply, StageInv
<1>43. CASE ClientCancels \/ DeadlineExpires \/ StopRequested
  BY <1>43 DEF ClientCancels, DeadlineExpires, StopRequested
<1>44. CASE UNCHANGED vars
  BY <1>44 DEF vars
<1> QED
  BY <1>1, <1>2, <1>3, <1>4, <1>5, <1>6, <1>7, <1>8, <1>9, <1>10, <1>11, <1>12, <1>13,
     <1>14, <1>15, <1>16, <1>17, <1>18, <1>19, <1>20, <1>21, <1>22, <1>23, <1>24, <1>25,
     <1>26, <1>27, <1>28, <1>29, <1>30, <1>31, <1>32, <1>33, <1>34, <1>35, <1>36, <1>37,
     <1>38, <1>39, <1>40, <1>41, <1>42, <1>43, <1>44
     DEF Next, ServerStep, WorkerStep

-----------------------------------------------------------------------------
(* The invariant, and what it implies.                                     *)

\* A session that has just been opened.
LEMMA InitInd == Init => IndInv
<1> SUFFICES ASSUME Init PROVE IndInv
  OBVIOUS
<1> USE DEF Init
<1>1. FreshHandle \in PublishedHandle
  BY DEF FreshHandle, PublishedHandle, Connections, Transactions
<1>2. TypeInv
  <2>1. 0 \in 0..MaxCatalog
    BY SessionAssumption
  <2>2. ServerTypes
    BY <2>1 DEF ServerTypes
  <2>3. OwnTypes
    BY <1>1, <2>1 DEF OwnTypes
  <2> QED
    BY <2>2, <2>3, TypeParts
<1>3. PhaseInv /\ StageInv /\ WireInv /\ TxInv
  BY DEF PhaseInv, StageInv, WireInv, TxInv, InFlight, Working, CommandOfOp, Busy, FreshHandle
<1>4. NativeInv /\ AdmitInv
  BY DEF NativeInv, AdmitInv, Matches, Native, NativeConnection, Busy, Publishing,
     FreshHandle
<1>5. VerdictInv /\ EffectInv /\ CommitsInv
  BY DEF VerdictInv, VerdictsOf, EffectInv, CommitsInv, Decided, InFlight, Working,
     Publishing
<1>6. PendingInv /\ DirtyInv /\ SchemaInv
  BY DEF PendingInv, DirtyInv, SchemaInv, Told, Working, FreshHandle
<1> QED
  BY <1>2, <1>3, <1>4, <1>5, <1>6 DEF IndInv

\* All parts together.
LEMMA IndStep == IndInv /\ [Next]_vars => IndInv'
<1> SUFFICES ASSUME IndInv, [Next]_vars PROVE IndInv'
  OBVIOUS
<1>1. TypeInv' /\ PhaseInv' /\ StageInv' /\ WireInv' /\ TxInv'
  BY TypeStep, PhaseStep, StageStep, WireStep, TxStep DEF IndInv
<1>2. NativeInv' /\ AdmitInv' /\ VerdictInv'
  BY NativeStep, AdmitStep, VerdictStep DEF IndInv
<1>3. EffectInv' /\ CommitsInv'
  BY EffectStep, CommitsStep DEF IndInv
<1>4. PendingInv' /\ DirtyInv' /\ SchemaInv'
  BY PendingStep, DirtyStep, SchemaStep DEF IndInv
<1> QED
  BY <1>1, <1>2, <1>3, <1>4 DEF IndInv

\* Every reachable state of a session satisfies the inductive invariant.
THEOREM SessionInvariant == Spec => []IndInv
  BY InitInd, IndStep, PTL DEF Spec

\* Type correctness of the session, its server and its handle's entry.
THEOREM SessionTypes == Spec => []TypeOK
<1>1. IndInv => TypeOK
  BY DEF IndInv, TypeInv
<1> QED
  BY <1>1, SessionInvariant, PTL

\* Whatever state a worker publishes, every move protocol.rs suggests for it passes
\* operation_precondition, but for a query of an unobserved handle.
THEOREM MovesAreAccepted == Spec => []MovesAccepted
<1>1. IndInv => MovesAccepted
  <2> SUFFICES ASSUME IndInv, pc = "idle", NEW move \in NextMoves(HandleState(entry))
               PROVE  move \in Accepted(entry) \/ (move = "query" /\ ~entry.observed)
    BY DEF MovesAccepted
  <2>1. ~entry.closed /\ (entry.connection # "Ok" => entry.transaction = "Unknown")
    BY DEF IndInv, StageInv
  <2>2. entry.connection \in Connections /\ entry.transaction \in Transactions
    BY DEF IndInv, TypeInv, TypeOK, PublishedHandle
  <2>3. /\ HandleState(entry).connection = IF entry.connection = "Ok" THEN "Ok" ELSE "Bad"
        /\ HandleState(entry).transaction = entry.transaction
        /\ HandleState(entry).observed <=> entry.observed
    BY <2>1 DEF HandleState, Protocol
  <2>4. CASE entry.transaction = "Unknown"
    BY <2>1, <2>3, <2>4 DEF NextMoves, Accepted, Operations
  <2>5. CASE entry.transaction # "Unknown"
    <3> DEFINE state == HandleState(entry)
    <3>1. state.connection = "Ok" /\ state.transaction = entry.transaction
      BY <2>1, <2>3, <2>5
    <3>2. CASE entry.transaction = "Idle"
      <4>1. move \in {"get_schema", "close"} \/ (move \in {"open_read", "open_write"} /\ entry.observed)
        BY <2>3, <3>1, <3>2 DEF NextMoves
      <4> QED
        BY <2>1, <3>2, <4>1 DEF Accepted, Operations
    <3>3. CASE entry.transaction = "InTransaction"
      <4>1. move \in {"query", "commit", "rollback"}
        BY <3>1, <3>3 DEF NextMoves
      <4> QED
        BY <2>1, <3>3, <4>1 DEF Accepted, Operations, RollsBack
    <3>4. CASE entry.transaction = "InError"
      <4>1. move = "rollback"
        BY <3>1, <3>4 DEF NextMoves
      <4> QED
        BY <2>1, <3>4, <4>1 DEF Accepted, Operations, RollsBack
    <3>5. CASE entry.transaction = "Active"
      BY <3>1, <3>5 DEF NextMoves
    <3> QED
      BY <2>2, <2>5, <3>2, <3>3, <3>4, <3>5 DEF Transactions
  <2> QED
    BY <2>4, <2>5
<1> QED
  BY <1>1, SessionInvariant, PTL

\* Between operations worker_loop has published what libpq says of the connection,
\* or that a commit was lost.
THEOREM PublishedStateIsNative == Spec => []PublishedIsNative
<1>1. IndInv => PublishedIsNative
  BY DEF IndInv, NativeInv, PublishedIsNative, Matches, Lost
<1> QED
  BY <1>1, SessionInvariant, PTL

\* The verdicts of commit and rollback say what became of the transaction,
\* whatever the server answered, withheld or refused.
THEOREM VerdictsHold == Spec => []VerdictsAreTrue
<1>1. IndInv => VerdictsAreTrue
  BY DEF IndInv, VerdictInv, VerdictsOf, EffectInv, Decided, Publishing, VerdictsAreTrue
<1> QED
  BY <1>1, SessionInvariant, PTL

\* No transaction is sent a second COMMIT.
THEOREM CommitIsNeverReplayed == Spec => []NeverReplayed
<1>1. IndInv => NeverReplayed
  BY DEF IndInv, CommitsInv, NeverReplayed
<1> QED
  BY <1>1, SessionInvariant, PTL

\* The catalog the client of an idle, observed handle saw is the current one
\* (schema_dirty), for any number of changes, unless direct DDL passed the worker by.
THEOREM ObservationIsCurrent == Spec => []ObservedSchemaIsCurrent
<1>1. IndInv => ObservedSchemaIsCurrent
  BY DEF IndInv, PhaseInv, Working, InFlight, SchemaInv, Told, ObservedSchemaIsCurrent
<1> QED
  BY <1>1, SessionInvariant, PTL

\* No step that disposes of a usable connection as a success, close or shutdown,
\* drops an open transaction.
THEOREM SuccessfulDisposal == Spec => DisposalLeavesNoTransaction
<1>1. ASSUME IndInv, [Next]_vars, link = "ok", link' = "none", verdict' \in {"ok", "verified"}
      PROVE  tx = "Idle"
  <2>1. TypeInv /\ (InFlight => link # "ok")
    BY <1>1 DEF IndInv, PhaseInv
  <2>2. CASE Dispose
    BY <1>1, <2>2, NativeTable, <2>1 DEF Dispose, TypeInv, TypeOK
  <2>3. CASE FinishShutdown
    BY <1>1, <2>1, <2>3, NativeTable DEF FinishShutdown, DisposeAfterRollback, Decide
  <2>4. CASE FinishDrain
    BY <1>1, <2>4 DEF FinishDrain, Drained, Decide
  <2>5. CASE DispatchCancel \/ PollFails \/ RefuseCopy
    BY <1>1, <2>1, <2>5 DEF DispatchCancel, PollFails, EndPoll, RefuseCopy, InFlight
  <2> QED
    BY <1>1, <2>2, <2>3, <2>4, <2>5, DisposalWriters
<1> QED
  BY <1>1, SessionInvariant, PTL DEF Spec, DisposalLeavesNoTransaction

=============================================================================
