--------------------- MODULE WorkerSessionContractProofs ---------------------
(***************************************************************************)
(* WorkerSession implements HandleContract, for every bound on the catalog *)
(* and whatever statements the clients send: the session begins as a fresh *)
(* handle, the start of an operation is a Call, each critical section of   *)
(* its publication is a Publishing, its reply is one of the contract's     *)
(* answers, and every other step leaves what the client reads alone.       *)
(***************************************************************************)
EXTENDS WorkerSessionProofs

-----------------------------------------------------------------------------
(* What the client reads.                                                  *)

\* PublishedHandle::state of a handle that is not closed.
LEMMA OpenView ==
  ASSUME NEW e \in PublishedHandle, ~e.closed
  PROVE  /\ HandleState(e).connection = Protocol(e.connection)
         /\ HandleState(e).transaction = e.transaction
         /\ HandleState(e).observed = e.observed
         /\ HandleState(e) # Client!ClosedView
         /\ HandleState(e) \in Client!Views
<1>1. /\ HandleState(e).connection = Protocol(e.connection)
      /\ HandleState(e).transaction = e.transaction
      /\ HandleState(e).observed = (e.observed /\ TRUE)
  BY DEF HandleState
<1>2. e.observed \in BOOLEAN
  BY DEF PublishedHandle
<1>3. Protocol(e.connection) # "Closed"
  BY DEF Protocol
<1>4. HandleState(e) # Client!ClosedView
  BY <1>1, <1>3 DEF Client!ClosedView
<1>5. HandleState(e) = Client!HandleState(e)
  BY DEF HandleState, Client!HandleState, Protocol, Client!Protocol, TransactionOpen,
     Client!TransactionOpen
<1>6. e \in Client!PublishedHandle
  BY DEF PublishedHandle, Client!PublishedHandle, Connections, Client!Connections,
     Transactions, Client!Transactions
<1> QED
  BY <1>1, <1>2, <1>4, <1>5, <1>6 DEF Client!Views

\* A disposed handle shows nothing but that it is closed.
LEMMA ClosedHandleView == HandleState(ClosedHandle) = Client!ClosedView
  BY DEF ClosedHandle, FreshHandle, HandleState, TransactionOpen, Client!ClosedView

\* The client reads the same of two entries that differ in the mark of direct DDL.
LEMMA SameView ==
  ASSUME NEW e \in PublishedHandle, NEW f \in PublishedHandle,
         e.connection = f.connection, e.transaction = f.transaction,
         e.observed = f.observed, ~e.closed, ~f.closed
  PROVE  HandleState(e) = HandleState(f)
  BY DEF HandleState

-----------------------------------------------------------------------------
(* Steps the client does not see.                                          *)

\* The critical sections of a publication and the reply.
Publishes == PublishResult \/ PublishObservation \/ PublishUnknown \/ Reply

\* Between the start of an operation and its publication nothing the client reads
\* changes, whatever the worker, the server and the clock do.
LEMMA Stutters ==
  ASSUME [Next]_vars, ~Publishes, ~\E o \in Operations \cup {"shutdown"} : Dequeue(o)
  PROVE  /\ UNCHANGED <<entry, shown, op>>
         /\ Busy' = Busy
         /\ ~Busy => UNCHANGED verdict
<1> USE DEF Busy, callVars, shownVars
<1>1. CASE ServerStep
  BY <1>1, ServerFrame
<1>2. CASE WorkerStep
  <2>1. CASE RefuseSend \/ SendFails \/ Send \/ AbandonFlush \/ Flushed \/ FlushFails
    BY <2>1 DEF RefuseSend, SendFails, Send, AbandonFlush, Flushed, FlushFails, Return
  <2>2. CASE DispatchCancel \/ Collect \/ Retrieve \/ Readable \/ PollFails
    BY <2>2 DEF DispatchCancel, Collect, Retrieve, Readable, PollFails, EndPoll, Return
  <2>3. CASE RefuseOperation \/ RefuseInvalidQuery \/ StartOperation \/ FirstCommand
    BY <2>3 DEF RefuseOperation, RefuseInvalidQuery, StartOperation, FirstCommand, Refuse,
       Issue
  <2>4. CASE DecideLocally \/ Dispose \/ FinishOpen \/ NextSchemaCommand \/ FinishSchema
    BY <2>4 DEF DecideLocally, Dispose, FinishOpen, NextSchemaCommand, FinishSchema, Decide,
       Issue
  <2>5. CASE DrainQuery \/ FinishQuery \/ FinishDrain \/ StartClearing \/ ClearResults
    BY <2>5 DEF DrainQuery, FinishQuery, FinishDrain, StartClearing, ClearResults, Drained,
       Decide
  <2>6. CASE FinishCommit \/ FinishRollback \/ FinishShutdown
    BY <2>6 DEF FinishCommit, FinishRollback, FinishShutdown, DisposeAfterRollback, Decide
  <2> QED
    BY <1>2, <2>1, <2>2, <2>3, <2>4, <2>5, <2>6 DEF WorkerStep, Publishes
<1>3. CASE Traffic \/ Overflow \/ RefuseCopy
  BY <1>3 DEF Traffic, Overflow, RefuseCopy, Return
<1>4. CASE ClientCancels \/ DeadlineExpires \/ StopRequested
  BY <1>4 DEF ClientCancels, DeadlineExpires, StopRequested
<1>5. CASE UNCHANGED vars
  BY <1>5 DEF vars
<1> QED
  BY <1>1, <1>2, <1>3, <1>4, <1>5 DEF Next

-----------------------------------------------------------------------------
(* The critical sections of a publication.                                 *)

\* What list_handles shows between the sections: a handle that is closed only at the
\* end of its close or shutdown, and an observation only if the client had it, or a
\* get_schema has just read the schema on an idle connection.
LEMMA SectionStep ==
  ASSUME IndInv, PublishResult \/ PublishObservation \/ PublishUnknown
  PROVE  Client!Publishing
<1>1. IndInv'
  BY IndStep DEF Next, WorkerStep
<1>2. Busy /\ Busy' /\ UNCHANGED <<shown, op, verdict, tx, link>>
  BY DEF PublishResult, PublishObservation, PublishUnknown, Busy, serverVars, wireVars
<1>3. /\ op \in Operations \cup {"shutdown"} /\ verdict \in VerdictsOf(op)
      /\ ~shown.closed /\ shown \in PublishedHandle
  <2>1. Busy /\ Decided /\ pc # "closed"
    BY DEF PublishResult, PublishObservation, PublishUnknown, Busy, Decided, Publishing
  <2> QED
    BY <2>1 DEF IndInv, TypeInv, TypeOK, PhaseInv, StageInv, VerdictInv
<1>4. entry' \in PublishedHandle
  BY <1>1 DEF IndInv, TypeInv, TypeOK
<1>5. pc' \in {"observe", "settle", "answer"}
  BY DEF PublishResult, PublishObservation, PublishUnknown
<1>6. CASE pc' = "answer" /\ Closed
  <2>1. HandleState(entry') = Client!ClosedView
    BY <1>1, <1>2, <1>6, ClosedHandleView DEF IndInv, StageInv, Closed, ClosedHandle,
       FreshHandle
  <2>2. op \in {"close", "shutdown"}
    BY <1>3, <1>6 DEF Closed, VerdictsOf, Operations
  <2> QED
    BY <1>2, <2>1, <2>2 DEF Client!Publishing
<1>7. CASE ~(pc' = "answer" /\ Closed)
  <2>1. ~entry'.closed
    BY <1>1, <1>2, <1>5, <1>7 DEF IndInv, StageInv, Closed
  <2>2. /\ HandleState(entry') \in Client!Views
        /\ HandleState(entry').observed = entry'.observed
        /\ HandleState(entry').transaction = entry'.transaction
        /\ HandleState(shown).observed = shown.observed
    BY <1>3, <1>4, <2>1, OpenView
  <2>3. CASE op = "get_schema" /\ verdict = "ok"
    <3>1. link = "ok" /\ tx = "Idle"
      BY <2>3 DEF IndInv, VerdictInv, Publishing, PublishResult, PublishObservation,
         PublishUnknown
    <3>2. entry'.transaction = "Idle"
      <4>1. Native = "Idle"
        BY <3>1 DEF Native
      <4>2. CASE PublishResult
        BY <2>3, <4>1, <4>2, ResultTable DEF PublishResult
      <4>3. CASE PublishObservation
        BY <2>3, <4>1, <4>3 DEF PublishObservation, Observed, Closed
      <4>4. ~PublishUnknown
        BY <2>3 DEF PublishUnknown, IndInv, StageInv
      <4> QED
        BY <4>2, <4>3, <4>4
    <3> QED
      BY <1>2, <2>2, <2>3, <3>2 DEF Client!Publishing
  <2>4. CASE ~(op = "get_schema" /\ verdict = "ok")
    <3>1. entry'.observed => shown.observed
      <4>1. ObservationKept' \/ ~entry'.observed
        BY <1>1, <1>2, <1>5, <1>7 DEF IndInv, StageInv, Closed
      <4>2. CASE ~entry'.observed
        BY <4>2
      <4>3. CASE ObservationKept'
        <5>1. CASE op \in {"commit", "close"} /\ verdict = "ok"
          BY <1>2, <2>4, <4>3, <5>1 DEF ObservationKept
        <5>2. CASE ~(op \in {"commit", "close"} /\ verdict = "ok")
          BY <1>2, <2>4, <4>3, <5>2 DEF ObservationKept
        <5> QED
          BY <5>1, <5>2
      <4> QED
        BY <4>1, <4>2, <4>3
    <3>2. HandleState(entry') \in Client!Views
          /\ (HandleState(entry').observed => HandleState(shown).observed)
      BY <2>2, <3>1
    <3>3. op # "none"
      BY <1>3 DEF Operations
    <3> QED
      BY <1>2, <3>2, <3>3 DEF Client!Publishing
  <2> QED
    BY <2>3, <2>4
<1> QED
  BY <1>6, <1>7

-----------------------------------------------------------------------------
(* The reply with each verdict.                                            *)

\* The contract's step at a reply: the operation in progress gets its answer.
LEMMA ReplyAnswers ==
  ASSUME IndInv, Reply
  PROVE  /\ op \in Operations \cup {"shutdown"}
         /\ verdict \in VerdictsOf(op)
         /\ entry \in PublishedHandle
         /\ shown \in PublishedHandle /\ ~shown.closed
         /\ shown' = entry /\ UNCHANGED entry
         /\ Busy /\ ~Busy' /\ UNCHANGED <<op, verdict>>
         /\ \A r : verdict = r => Client!Answer(r)
<1>1. pc = "answer" /\ shown' = entry /\ pc' \in {"closed", "idle"}
      /\ UNCHANGED <<op, verdict, entry>>
  BY DEF Reply
<1>2. Busy /\ ~Busy'
  BY <1>1 DEF Busy
<1>3. /\ op \in Operations \cup {"shutdown"}
      /\ entry \in PublishedHandle /\ shown \in PublishedHandle /\ ~shown.closed
  BY <1>1, <1>2 DEF IndInv, TypeInv, TypeOK, PhaseInv, StageInv
<1>4. verdict \in VerdictsOf(op)
  BY <1>1 DEF IndInv, VerdictInv, Decided, Publishing
<1>5. \A r : verdict = r => Client!Answer(r)
  BY <1>1, <1>2 DEF Client!Answer
<1> QED
  BY <1>1, <1>2, <1>3, <1>4, <1>5

\* What the sections of the publication have left in the entry, for every verdict.
LEMMA ReplyTable ==
  ASSUME IndInv, Reply, ~Closed
  PROVE  /\ ~entry.closed
         /\ IF op = "commit" /\ verdict = "unknown"
            THEN entry.transaction = "Unknown" /\ entry.connection = "Bad"
            ELSE entry.transaction = Native /\ entry.connection = NativeConnection
         /\ verdict = "unknown" => ~entry.observed
         /\ op = "get_schema" /\ verdict = "ok" => entry.observed
         /\ op = "commit" /\ verdict = "ok" => (entry.observed => shown.observed)
         /\ verdict \in {"noop", "refused", "failed"}
              \/ (verdict = "ok" /\ op \notin {"get_schema", "commit", "close"}) =>
              entry.observed = shown.observed
<1>1. pc = "answer"
  BY DEF Reply
<1>2. ~entry.closed
  BY <1>1 DEF IndInv, StageInv
<1>3. IF op = "commit" /\ verdict = "unknown" THEN Lost(entry) ELSE Matches(entry)
  BY <1>1 DEF IndInv, NativeInv
<1>4. IF verdict = "unknown" THEN ~entry.observed ELSE ObservationKept
  BY <1>1 DEF IndInv, StageInv
<1> QED
  BY <1>2, <1>3, <1>4 DEF Lost, Matches, ObservationKept

\* What is shown after an operation that did not close the handle.
LEMMA OpenReply ==
  ASSUME IndInv, Reply, ~Closed
  PROVE  /\ HandleState(shown') \in Client!Views
         /\ HandleState(shown').transaction = entry.transaction
         /\ HandleState(shown').connection = Protocol(entry.connection)
         /\ HandleState(shown').observed = entry.observed
         /\ HandleState(shown).transaction = shown.transaction
         /\ HandleState(shown).observed = shown.observed
<1>1. shown' = entry /\ ~entry.closed
  BY ReplyTable DEF Reply
<1> QED
  BY <1>1, ReplyAnswers, OpenView

\* A refused operation leaves what is shown, save after a commit of unknown outcome.
LEMMA ReplyRefused ==
  ASSUME IndInv, Reply, verdict = "refused"
  PROVE  Client!Refused
<1>1. ~Closed /\ op \notin {"none", "shutdown"}
  BY ReplyAnswers DEF Closed, VerdictsOf, Operations
<1>2. /\ entry.transaction = Native
      /\ entry.connection = NativeConnection
      /\ entry.observed = shown.observed
      /\ ~entry.closed
  BY <1>1, ReplyTable
<1>3. Matches(shown) \/ Lost(shown)
  BY DEF Reply, IndInv, NativeInv, Publishing
<1>4. shown.transaction # "Unknown" => HandleState(shown') = HandleState(shown)
  BY <1>2, <1>3, ReplyAnswers, SameView DEF Matches, Lost
<1>5. Client!Answer("refused")
  BY ReplyAnswers
<1> QED
  BY <1>1, <1>2, <1>4, <1>5, ReplyAnswers, OpenReply
     DEF Client!Refused, Client!KeepsObservation

\* The verdict of success rests on a usable connection, whose status is shown.
LEMMA UsableShown ==
  ASSUME IndInv, Reply, ~Closed, verdict # "unknown", link = "ok",
         NEW T, tx \in T
  PROVE  Client!Shows(T)
<1>1. Native = tx /\ NativeConnection = "Ok"
  BY DEF Native, NativeConnection
<1>2. entry.transaction = tx /\ entry.connection = "Ok"
  BY <1>1, ReplyTable
<1> QED
  BY <1>2, OpenReply DEF Client!Shows, Protocol

\* The row of operation_precondition that let the operation through.
LEMMA LetThrough ==
  ASSUME IndInv, Reply, op \in Operations, verdict # "refused"
  PROVE  op \in Accepted(shown)
  BY ReplyAnswers DEF Reply, IndInv, AdmitInv, Busy

\* The reply to a success is the answer its operation calls for.
LEMMA ReplyOk ==
  ASSUME IndInv, Reply, verdict = "ok", op # "close"
  PROVE  \/ Client!SchemaRead \/ Client!Opened \/ Client!Queried \/ Client!Committed
         \/ Client!RolledBack
<1> DEFINE view == HandleState(shown)
<1>1. ~Closed /\ op \in Operations \ {"close"}
  BY ReplyAnswers DEF Closed, VerdictsOf
<1>2. op \in Accepted(shown)
  BY <1>1, LetThrough
<1>3. Client!Answer("ok") /\ Busy
  BY ReplyAnswers
<1>4. pc = "answer"
  BY DEF Reply
<1>5. CASE op = "get_schema"
  <2>1. Client!Shows({"Idle"})
    BY <1>1, <1>4, <1>5, UsableShown DEF IndInv, VerdictInv, Publishing
  <2>2. entry.observed
    BY <1>1, <1>5, ReplyTable
  <2>3. shown.transaction = "Idle"
    BY <1>2, <1>5, AcceptedTable
  <2> QED
    BY <1>1, <1>3, <1>5, <2>1, <2>2, <2>3, OpenReply DEF Client!SchemaRead
<1>6. CASE op \in {"open_read", "open_write"}
  <2>1. Client!Shows({"InTransaction"})
    BY <1>1, <1>4, <1>6, UsableShown DEF IndInv, VerdictInv, Publishing
  <2>2. entry.observed = shown.observed
    BY <1>1, <1>6, ReplyTable
  <2>3. shown.transaction = "Idle" /\ shown.observed
    BY <1>2, <1>6, AcceptedTable
  <2> QED
    BY <1>1, <1>3, <1>6, <2>1, <2>2, <2>3, OpenReply
       DEF Client!Opened, Client!KeepsObservation
<1>7. CASE op = "query"
  <2>1. Client!Shows({"InTransaction", "Idle"})
    BY <1>1, <1>4, <1>7, UsableShown DEF IndInv, VerdictInv, Publishing
  <2>2. entry.observed = shown.observed
    BY <1>1, <1>7, ReplyTable
  <2>3. shown.transaction = "InTransaction" /\ shown.observed
    BY <1>2, <1>7, AcceptedTable
  <2> QED
    BY <1>1, <1>3, <1>7, <2>1, <2>2, <2>3, OpenReply
       DEF Client!Queried, Client!KeepsObservation
<1>8. CASE op = "commit"
  <2>1. Client!Shows({"Idle"})
    BY <1>1, <1>4, <1>8, UsableShown DEF IndInv, VerdictInv, Decided, Publishing
  <2>2. entry.observed => shown.observed
    BY <1>1, <1>8, ReplyTable
  <2>3. shown.transaction = "InTransaction"
    BY <1>2, <1>8, AcceptedTable
  <2> QED
    BY <1>1, <1>3, <1>8, <2>1, <2>2, <2>3, OpenReply DEF Client!Committed
<1>9. CASE op = "rollback"
  <2>1. Client!Shows({"Idle"})
    BY <1>1, <1>4, <1>9, UsableShown DEF IndInv, VerdictInv, Decided, Publishing
  <2>2. entry.observed = shown.observed
    BY <1>1, <1>9, ReplyTable
  <2>3. shown.transaction \in {"InTransaction", "InError"}
    BY <1>4, <1>9 DEF IndInv, AdmitInv, Publishing
  <2> QED
    BY <1>1, <1>3, <1>9, <2>1, <2>2, <2>3, OpenReply
       DEF Client!RolledBack, Client!KeepsObservation
<1> QED
  BY <1>1, <1>5, <1>6, <1>7, <1>8, <1>9 DEF Operations

\* Beside a success an operation fails, is refused, or leaves its outcome open.
LEMMA ReplyStep ==
  ASSUME IndInv, Reply
  PROVE  Client!Next
<1>1. CASE verdict = "refused"
  BY <1>1, ReplyRefused DEF Client!Next
<1>2. CASE verdict = "noop"
  <2>1. op = "rollback" /\ ~Closed /\ pc = "answer"
    BY <1>2, ReplyAnswers DEF VerdictsOf, Closed, Reply, Operations
  <2>2. Client!Shows({"Idle"})
    BY <1>2, <2>1, UsableShown DEF IndInv, VerdictInv, Decided, Publishing
  <2>3. entry.observed = shown.observed
    BY <1>2, <2>1, ReplyTable
  <2>4. shown.transaction = "Idle"
    BY <1>2, <2>1 DEF IndInv, AdmitInv, Publishing
  <2> QED
    BY <1>2, <2>1, <2>2, <2>3, <2>4, ReplyAnswers, OpenReply
       DEF Client!Next, Client!RolledBack, Client!KeepsObservation
<1>3. CASE verdict = "failed"
  <2>1. ~Closed /\ op \notin {"none", "commit", "close", "shutdown"}
    BY <1>3, ReplyAnswers DEF VerdictsOf, Closed, Operations
  <2>2. entry.observed = shown.observed
    BY <1>3, <2>1, ReplyTable
  <2> QED
    BY <1>3, <2>1, <2>2, ReplyAnswers, OpenReply
       DEF Client!Next, Client!Failed, Client!KeepsObservation
<1>4. CASE verdict = "unknown"
  <2>1. ~Closed /\ op \notin {"none", "close", "shutdown"}
    BY <1>4, ReplyAnswers DEF VerdictsOf, Closed, Operations
  <2>2. ~entry.observed
    BY <1>4, <2>1, ReplyTable
  <2>3. op = "commit" => entry.connection = "Bad" /\ entry.transaction = "Unknown"
    BY <1>4, <2>1, ReplyTable
  <2> QED
    BY <1>4, <2>1, <2>2, <2>3, ReplyAnswers, OpenReply
       DEF Client!Next, Client!OutcomeUnknown, Protocol
<1>5. CASE verdict = "ok" /\ op # "close"
  BY <1>5, ReplyOk DEF Client!Next
<1>6. CASE verdict \in {"verified", "uncertain"} \/ (verdict = "ok" /\ op = "close")
  <2>1. verdict \in {"verified", "uncertain"} => op = "shutdown"
    BY ReplyAnswers DEF VerdictsOf, Operations
  <2>2. HandleState(shown') = Client!ClosedView
    <3>1. entry = ClosedHandle
      BY <1>6 DEF Reply, IndInv, StageInv, Closed
    <3> QED
      BY <3>1, ReplyAnswers, ClosedHandleView
  <2> QED
    BY <1>6, <2>1, <2>2, ReplyAnswers DEF Client!Next, Client!Ended
<1> QED
  BY <1>1, <1>2, <1>3, <1>4, <1>5, <1>6, ReplyAnswers DEF VerdictsOf, Operations

-----------------------------------------------------------------------------
(* The refinement.                                                         *)

\* The worker takes an operation from a handle that is not closed.
LEMMA DequeueStep ==
  ASSUME IndInv, NEW o \in Operations \cup {"shutdown"}, Dequeue(o)
  PROVE  Client!Next
<1>1. ~Busy /\ Busy' /\ op' = o /\ UNCHANGED <<entry, shown>>
  BY DEF Dequeue, Busy, shownVars
<1>2. shown \in PublishedHandle /\ ~shown.closed
  BY DEF Dequeue, IndInv, TypeInv, TypeOK, StageInv
<1>3. HandleState(shown) # Client!ClosedView
  BY <1>2, OpenView
<1> QED
  BY <1>1, <1>3 DEF Client!Next, Client!Call, Operations, Client!Operations

\* A session begins as a fresh handle.
LEMMA InitContract == Init => Client!Init
  BY DEF Init, Client!Init, Busy, FreshHandle, Client!FreshHandle, HandleState,
     Client!HandleState, Protocol, Client!Protocol, TransactionOpen, Client!TransactionOpen

\* Each step of a session is one of the contract or a stutter.
LEMMA StepContract ==
  ASSUME IndInv, [Next]_vars
  PROVE  [Client!Next]_Client!clientVars
<1>1. CASE Publishes
  BY <1>1, SectionStep, ReplyStep DEF Publishes, Client!Next
<1>2. CASE \E o \in Operations \cup {"shutdown"} : Dequeue(o)
  BY <1>2, DequeueStep
<1>3. CASE ~Publishes /\ ~\E o \in Operations \cup {"shutdown"} : Dequeue(o)
  BY <1>3, Stutters DEF Client!clientVars
<1> QED
  BY <1>1, <1>2, <1>3

\* The worker implements the contract a client relies on: whatever the server does
\* and whenever cancellation, deadline and stop strike, each answer leaves the handle
\* in a state the contract allows, and list_handles shows nothing the contract does
\* not allow between the critical sections of a publication (execute_operation and
\* worker_loop).
THEOREM SessionImplementsContract == Spec => KeepsHandleContract
<1>1. IndInv /\ [Next]_vars => [Client!Next]_Client!clientVars
  BY StepContract
<1> QED
  BY InitContract, SessionInvariant, <1>1, PTL
     DEF Spec, KeepsHandleContract, Client!Spec

=============================================================================
