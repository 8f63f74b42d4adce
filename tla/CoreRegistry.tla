---------------------------- MODULE CoreRegistry ----------------------------
(***************************************************************************)
(* The handle registry of postgres-mcp-core (worker.rs): opening database  *)
(* handles, dispatching calls to the one worker thread of each handle,     *)
(* closing handles, and the process-wide shutdown with its frozen report.  *)
(*                                                                         *)
(* Actors: client calls (async tasks), one blocking task per open, one     *)
(* worker thread per handle, the task that owns shutdown, and the tasks    *)
(* that wait for its report.  They meet in the registry mutex, the bounded *)
(* channel of each worker and the one-shot replies.  An action that reads  *)
(* or writes the registry has MutexFree as a conjunct: every critical      *)
(* section of the code is one step, except the one that never ends         *)
(* (AdmitClosed).  What libpq does for an operation is abstracted to the   *)
(* transaction status it leaves; WorkerSession models it.                  *)
(***************************************************************************)
EXTENDS Naturals, Sequences, FiniteSets

CONSTANTS
  Profiles,             \* configured profile names
  MaxHandles,           \* profile |-> max_handles
  OutstandingRequests,  \* profile |-> outstanding_requests
  MaxOpens,             \* bound: number of reservations in a behaviour
  Requests,             \* tool calls on a handle, each made at most once
  Stoppers,             \* calls of Core::shutdown
  ShutdownRequest,      \* Request::Shutdown in a worker's channel
  NoOne                 \* no request, no report

ASSUME ConstantsAssumption ==
  /\ Profiles # {}
  /\ MaxHandles \in [Profiles -> Nat \ {0}]
  /\ OutstandingRequests \in [Profiles -> Nat \ {0}]
  /\ MaxOpens \in Nat \ {0}
  /\ ShutdownRequest \notin Requests
  /\ NoOne \notin Requests

Handle == 1..MaxOpens

VARIABLES
  \* RegistryState, behind the mutex
  lifecycle,    \* RegistryLifecycle
  mutex,        \* a request that locked the registry twice, or NoOne
  nextHandle,   \* the next id allocate_handle returns
  pending,      \* keys of pending_opens
  handles,      \* keys of handles
  profileOf,    \* profile of a reserved handle
  closed,       \* PublishedHandle.closed
  published,    \* PublishedHandle.observation, its transaction status
  admitted,     \* WorkerEntry.admitted
  frozen,       \* frozen_report
  \* the open task of each handle
  openPc, openStop,
  \* the worker thread, its connection and its channel
  native,       \* what PQtransactionStatus says of the owned connection
  queue, workerPc, job, outcome, shutdownReply,
  \* the client calls
  callPc, target, kind, answer,
  \* the shutdown owner and the callers waiting for its report
  stopSignal, deadlinePassed, ownerPc, todo, waitOpens, report,
  stopperPc, got

lifeVars     == <<lifecycle, mutex, frozen>>
keyVars      == <<nextHandle, pending, handles, profileOf>>
entryVars    == <<closed, published, admitted>>
registryVars == <<lifeVars, keyVars, entryVars>>
openVars     == <<openPc, openStop>>
taskVars     == <<native, workerPc, job, outcome>>
channelVars  == <<queue, shutdownReply>>
workerVars   == <<taskVars, channelVars>>
argVars      == <<target, kind>>
callVars     == <<callPc, argVars, answer>>
signalVars   == <<stopSignal, deadlinePassed>>
reportVars   == <<todo, report>>
ownerVars    == <<signalVars, reportVars, ownerPc, waitOpens>>
stopperVars  == <<stopperPc, got>>
shutdownVars == <<ownerVars, stopperVars>>
vars == <<registryVars, openVars, workerVars, callVars, shutdownVars>>

-----------------------------------------------------------------------------
(* Values.                                                                 *)

\* "lost" is a disposed or unusable connection, "none" no connection at all.
NativeStatus == {"none", "idle", "open", "lost"}
Live == {"idle", "open"}

OpenPc == {"unused", "connecting", "connected", "spawned", "failing",
           "failed", "published"}

WorkerPc == {"none", "recv", "check", "backend", "publish", "reply", "release",
             "rollback", "publish_closed", "reply_shutdown", "exiting",
             "finished"}

\* A worker that holds a dequeued operation and its AdmissionGuard.
Holding == {"check", "backend", "publish", "reply", "release"}

Kind == {"op", "commit", "close"}
Outcome == {"none", "refused", "done", "unknown", "disposed",
            "verified", "uncertain"}
CallPc  == {"idle", "looked", "waiting", "dropped", "returned", "stuck"}
Answer  == {"none", "handle_unknown", "server_stopping", "queue_full",
            "connection_lost", "refused", "done", "unknown", "disposed"}
Stage   == {"absent", "verified", "uncertain", "deadline", "enqueue", "join",
            "pending_open"}
OwnerPc == {"idle", "signal", "next", "enqueue", "await", "join_closed", "done"}

\* "No report" is not mistaken for one.
ASSUME ReportAssumption == NoOne \notin [Handle -> Stage]

Limit(h) == OutstandingRequests[profileOf[h]]
Least(S) == CHOOSE h \in S : \A g \in S : h <= g
MutexFree == mutex = NoOne

-----------------------------------------------------------------------------
Init ==
  /\ lifecycle = "Running"
  /\ mutex = NoOne
  /\ nextHandle = 1
  /\ pending = {}
  /\ handles = {}
  /\ profileOf = [h \in Handle |-> CHOOSE p \in Profiles : TRUE]
  /\ closed = [h \in Handle |-> FALSE]
  /\ published = [h \in Handle |-> "none"]
  /\ admitted = [h \in Handle |-> 0]
  /\ frozen = NoOne
  /\ openPc = [h \in Handle |-> "unused"]
  /\ openStop = [h \in Handle |-> FALSE]
  /\ native = [h \in Handle |-> "none"]
  /\ queue = [h \in Handle |-> <<>>]
  /\ workerPc = [h \in Handle |-> "none"]
  /\ job = [h \in Handle |-> NoOne]
  /\ outcome = [h \in Handle |-> "none"]
  /\ shutdownReply = [h \in Handle |-> "none"]
  /\ callPc = [r \in Requests |-> "idle"]
  /\ target = [r \in Requests |-> 1]
  /\ kind = [r \in Requests |-> "op"]
  /\ answer = [r \in Requests |-> "none"]
  /\ stopSignal = FALSE
  /\ deadlinePassed = FALSE
  /\ ownerPc = "idle"
  /\ todo = {}
  /\ waitOpens = {}
  /\ report = [h \in Handle |-> "absent"]
  /\ stopperPc = [s \in Stoppers |-> "idle"]
  /\ got = [s \in Stoppers |-> NoOne]

-----------------------------------------------------------------------------
(* Opening: reserve_open on the caller's task, connect_and_publish on a    *)
(* blocking thread.  A refused reservation changes nothing.                *)

OpenCount(p) ==
  Cardinality({h \in handles : profileOf[h] = p})
    + Cardinality({h \in pending : profileOf[h] = p})

\* reserve_open with `used` handles counted against the profile.
Reserve(p, used) ==
  /\ MutexFree
  /\ lifecycle = "Running"
  /\ nextHandle <= MaxOpens
  /\ used < MaxHandles[p]
  /\ nextHandle' = nextHandle + 1
  /\ pending' = pending \cup {nextHandle}
  /\ profileOf' = [profileOf EXCEPT ![nextHandle] = p]
  /\ openPc' = [openPc EXCEPT ![nextHandle] = "connecting"]
  /\ UNCHANGED <<lifeVars, handles, entryVars, openStop, workerVars, callVars,
                 shutdownVars>>

\* Mutant: reservations do not count.
ReserveOpenIgnoringPending(p) ==
  Reserve(p, Cardinality({h \in handles : profileOf[h] = p}))

ReserveOpen(p) == Reserve(p, OpenCount(p))

\* The DSN resolves and the factory connects.
Connect(h) ==
  /\ openPc[h] = "connecting"
  /\ openPc' = [openPc EXCEPT ![h] = "connected"]
  /\ native' = [native EXCEPT ![h] = "idle"]
  /\ UNCHANGED <<registryVars, openStop, channelVars, workerPc, job, outcome,
                 callVars, shutdownVars>>

\* DSN resolution or the connection fails, is cancelled, stopped or too late;
\* or a live connection is closed because its context is stopping, cancelled
\* or expired, its first observation is not Ok/Idle, or no thread can start.
FailOpen(h) ==
  /\ openPc[h] \in {"connecting", "connected"}
  /\ openPc' = [openPc EXCEPT ![h] = "failing"]
  /\ native' = [native EXCEPT ![h] = "none"]
  /\ UNCHANGED <<registryVars, openStop, channelVars, workerPc, job, outcome,
                 callVars, shutdownVars>>

\* The stop token is read here, and the worker thread starts.
SpawnWorker(h) ==
  /\ openPc[h] = "connected"
  /\ ~openStop[h]
  /\ openPc' = [openPc EXCEPT ![h] = "spawned"]
  /\ workerPc' = [workerPc EXCEPT ![h] = "recv"]
  /\ UNCHANGED <<registryVars, openStop, native, channelVars, job, outcome,
                 callVars, shutdownVars>>

\* The entry of a new handle replaces its reservation.
EnterRegistry(h) ==
  /\ openPc[h] = "spawned"
  /\ MutexFree
  /\ openPc' = [openPc EXCEPT ![h] = "published"]
  /\ pending' = pending \ {h}
  /\ handles' = handles \cup {h}
  /\ published' = [published EXCEPT ![h] = "idle"]
  /\ UNCHANGED <<lifeVars, nextHandle, profileOf, closed, admitted, openStop,
                 workerVars, callVars, shutdownVars>>

\* The lifecycle is read again in the critical section that publishes.
PublishOpen(h) == lifecycle = "Running" /\ EnterRegistry(h)

\* Stopping overtook the open: the detached worker is told to shut down, with
\* no reply and no entry in the registry.
StopLateOpen(h) ==
  /\ openPc[h] = "spawned"
  /\ MutexFree
  /\ lifecycle # "Running"
  /\ openPc' = [openPc EXCEPT ![h] = "failing"]
  /\ queue' = [queue EXCEPT ![h] = Append(@, ShutdownRequest)]
  /\ UNCHANGED <<registryVars, openStop, taskVars, shutdownReply, callVars,
                 shutdownVars>>

FinishOpen(h) ==
  /\ openPc[h] = "failing"
  /\ MutexFree
  /\ openPc' = [openPc EXCEPT ![h] = "failed"]
  /\ pending' = pending \ {h}
  /\ UNCHANGED <<lifeVars, nextHandle, handles, profileOf, entryVars, openStop,
                 workerVars, callVars, shutdownVars>>

-----------------------------------------------------------------------------
(* Dispatch: two critical sections on the caller's task, then the reply.   *)

Return(r, a) ==
  /\ callPc' = [callPc EXCEPT ![r] = "returned"]
  /\ answer' = [answer EXCEPT ![r] = a]

\* First critical section: the handle's configuration, if it has an entry.
LookUp(r, h, k) ==
  /\ callPc[r] = "idle"
  /\ MutexFree
  /\ h \in handles
  /\ callPc' = [callPc EXCEPT ![r] = "looked"]
  /\ target' = [target EXCEPT ![r] = h]
  /\ kind' = [kind EXCEPT ![r] = k]
  /\ UNCHANGED <<registryVars, openVars, workerVars, answer, shutdownVars>>

LookUpUnknown(r, h, k) ==
  /\ callPc[r] = "idle"
  /\ MutexFree
  /\ h \notin handles
  /\ Return(r, "handle_unknown")
  /\ target' = [target EXCEPT ![r] = h]
  /\ kind' = [kind EXCEPT ![r] = k]
  /\ UNCHANGED <<registryVars, openVars, workerVars, shutdownVars>>

\* Second critical section, its refusals.
RefuseAdmission(r) ==
  LET h == target[r] IN
  /\ callPc[r] = "looked"
  /\ MutexFree
  /\ \/ /\ lifecycle # "Running"
        /\ Return(r, "server_stopping")
     \/ /\ lifecycle = "Running"
        /\ ~closed[h]
        /\ admitted[h] >= Limit(h)
        /\ Return(r, "queue_full")
  /\ UNCHANGED <<registryVars, openVars, workerVars, argVars, shutdownVars>>

\* For a closed entry the code builds the failure with for_handle, whose
\* current_state locks the registry again while this call still holds it:
\* the lock is never released.
AdmitClosed(r) ==
  /\ callPc[r] = "looked"
  /\ MutexFree
  /\ lifecycle = "Running"
  /\ closed[target[r]]
  /\ mutex' = r
  /\ callPc' = [callPc EXCEPT ![r] = "stuck"]
  /\ UNCHANGED <<lifecycle, keyVars, entryVars, frozen, openVars, workerVars,
                 argVars, answer, shutdownVars>>

\* The send of a call that passed the checks, leaving `count` admitted.
\* try_send has two failure branches; TrySendSucceeds says they are dead code.
Enqueue(r, count) ==
  LET h == target[r] IN
  /\ callPc[r] = "looked"
  /\ MutexFree
  /\ ~closed[h]
  /\ admitted[h] < Limit(h)
  /\ admitted' = [admitted EXCEPT ![h] = count]
  /\ queue' = [queue EXCEPT ![h] = Append(@, r)]
  /\ callPc' = [callPc EXCEPT ![r] = "waiting"]
  /\ UNCHANGED <<lifeVars, keyVars, closed, published, openVars, taskVars,
                 shutdownReply, argVars, answer, shutdownVars>>

\* Mutant: the slot is not counted.
AdmitUncounted(r) == lifecycle = "Running" /\ Enqueue(r, admitted[target[r]])

\* Mutant: the lifecycle is not read in the second critical section.
AdmitWhileStopping(r) == Enqueue(r, admitted[target[r]] + 1)

Admit(r) == lifecycle = "Running" /\ Enqueue(r, admitted[target[r]] + 1)

\* The client gives up: only the one-shot receiver goes away.
DropCall(r) ==
  /\ callPc[r] = "waiting"
  /\ callPc' = [callPc EXCEPT ![r] = "dropped"]
  /\ UNCHANGED <<registryVars, openVars, workerVars, argVars, answer,
                 shutdownVars>>

\* The worker ended with the request in its channel: the reply sender is
\* dropped and the caller reports the connection lost, outcome unknown.
ReplyDropped(r) ==
  /\ callPc[r] = "waiting"
  /\ workerPc[target[r]] = "finished"
  /\ MutexFree
  /\ Return(r, "connection_lost")
  /\ UNCHANGED <<registryVars, openVars, workerVars, argVars, shutdownVars>>

-----------------------------------------------------------------------------
(* The worker thread: worker_loop and execute_operation.                   *)

Receive(h) ==
  /\ workerPc[h] = "recv"
  /\ queue[h] # <<>>
  /\ queue' = [queue EXCEPT ![h] = Tail(@)]
  /\ \/ /\ Head(queue[h]) = ShutdownRequest
        /\ workerPc' = [workerPc EXCEPT ![h] = "rollback"]
        /\ UNCHANGED job
     \/ /\ Head(queue[h]) # ShutdownRequest
        /\ workerPc' = [workerPc EXCEPT ![h] = "check"]
        /\ job' = [job EXCEPT ![h] = Head(queue[h])]
  /\ UNCHANGED <<registryVars, openVars, native, outcome, shutdownReply,
                 callVars, shutdownVars>>

\* A precondition on the published state, stopping, cancellation, expiry or
\* validation turns the operation away before the backend sees it.
RefuseOperation(h) ==
  /\ workerPc[h] = "check"
  /\ MutexFree
  /\ workerPc' = [workerPc EXCEPT ![h] = "publish"]
  /\ outcome' = [outcome EXCEPT ![h] = "refused"]
  /\ UNCHANGED <<registryVars, openVars, native, channelVars, job, callVars,
                 shutdownVars>>

\* operation_precondition on the published transaction status.
Acceptable(k, status) ==
  \/ k = "op" /\ status \in Live
  \/ k = "commit" /\ status = "open"
  \/ k = "close" /\ status # "open"

StartOperation(h) ==
  /\ workerPc[h] = "check"
  /\ MutexFree
  /\ Acceptable(kind[job[h]], published[h])
  /\ ~stopSignal
  /\ workerPc' = [workerPc EXCEPT ![h] = "backend"]
  /\ UNCHANGED <<registryVars, openVars, native, channelVars, job, outcome,
                 callVars, shutdownVars>>

\* The backend call, outside the mutex.  A close is refused by the backend
\* itself when a commit of unknown outcome hid a transaction still open.
RunOperation(h) ==
  /\ workerPc[h] = "backend"
  /\ \E status \in NativeStatus, result \in Outcome :
       /\ \/ /\ kind[job[h]] = "op"
             /\ status \in {"idle", "open", "lost"}
             /\ result = "done"
          \/ /\ kind[job[h]] = "commit"
             /\ status = "idle"
             /\ result = "done"
          \/ /\ kind[job[h]] = "commit"
             /\ status \in {"idle", "open", "lost"}
             /\ result = "unknown"
          \/ /\ kind[job[h]] = "close"
             /\ native[h] = "open"
             /\ status = "open"
             /\ result = "refused"
          \/ /\ kind[job[h]] = "close"
             /\ native[h] # "open"
             /\ status = "none"
             /\ result = "disposed"
       /\ native' = [native EXCEPT ![h] = status]
       /\ outcome' = [outcome EXCEPT ![h] = result]
  /\ workerPc' = [workerPc EXCEPT ![h] = "publish"]
  /\ UNCHANGED <<registryVars, openVars, channelVars, job, callVars,
                 shutdownVars>>

\* The final observation and publish_unknown or publish_closed.
PublishOutcome(h) ==
  /\ workerPc[h] = "publish"
  /\ MutexFree
  /\ published' = [published EXCEPT ![h] =
                     IF outcome[h] = "unknown" THEN "lost" ELSE native[h]]
  /\ closed' = [closed EXCEPT ![h] = outcome[h] = "disposed"]
  /\ workerPc' = [workerPc EXCEPT ![h] = "reply"]
  /\ UNCHANGED <<lifeVars, keyVars, admitted, openVars, native, channelVars,
                 job, outcome, callVars, shutdownVars>>

\* reply.send for the outcomes in `answered`; a dropped caller gets nothing.
Reply(h, answered) ==
  /\ workerPc[h] = "reply"
  /\ \/ /\ callPc[job[h]] = "waiting"
        /\ outcome[h] \in answered
        /\ Return(job[h], outcome[h])
     \/ /\ callPc[job[h]] = "dropped" \/ outcome[h] \notin answered
        /\ UNCHANGED <<callPc, answer>>
  /\ workerPc' = [workerPc EXCEPT ![h] = "release"]
  /\ UNCHANGED <<registryVars, openVars, native, channelVars, job, outcome,
                 argVars, shutdownVars>>

\* Mutant: an operation refused before the backend is not answered.
ReplyIfExecuted(h) == Reply(h, Outcome \ {"refused"})

ReplyOperation(h) == Reply(h, Outcome)

\* Drop of the AdmissionGuard, leaving `count` admitted, and the loop's next.
Release(h, count, pc) ==
  /\ workerPc[h] = "release"
  /\ MutexFree
  /\ admitted' = [admitted EXCEPT ![h] = count]
  /\ workerPc' = [workerPc EXCEPT ![h] = pc]
  /\ job' = [job EXCEPT ![h] = NoOne]
  /\ outcome' = [outcome EXCEPT ![h] = "none"]
  /\ UNCHANGED <<lifeVars, keyVars, closed, published, openVars, native,
                 channelVars, callVars, shutdownVars>>

\* A successful close ends the loop.
NextPc(h) == IF outcome[h] = "disposed" THEN "exiting" ELSE "recv"

\* Mutant: the slot is freed twice, without saturation.
ReleaseTwice(h) == Release(h, admitted[h] - 2, NextPc(h))

\* Mutant: a call whose caller went away keeps its slot.
ReleaseIfAnswered(h) ==
  LET freed == IF callPc[job[h]] = "dropped" THEN 0 ELSE 1
  IN  Release(h, admitted[h] - freed, NextPc(h))

\* Mutant: a successful close does not end the worker loop.
ReleaseAndContinue(h) == Release(h, admitted[h] - 1, "recv")

\* saturating_sub
ReleaseAdmission(h) ==
  Release(h, IF admitted[h] > 0 THEN admitted[h] - 1 ELSE 0, NextPc(h))

\* Backend::shutdown: a rollback if a transaction is open, then disposal.
RollbackAndDispose(h) ==
  /\ workerPc[h] = "rollback"
  /\ \/ outcome' = [outcome EXCEPT ![h] = "verified"]
     \/ /\ native[h] = "open"
        /\ outcome' = [outcome EXCEPT ![h] = "uncertain"]
  /\ native' = [native EXCEPT ![h] = "none"]
  /\ workerPc' = [workerPc EXCEPT ![h] = "publish_closed"]
  /\ UNCHANGED <<registryVars, openVars, channelVars, job, callVars,
                 shutdownVars>>

PublishClosed(h) ==
  /\ workerPc[h] = "publish_closed"
  /\ MutexFree
  /\ closed' = [closed EXCEPT ![h] = h \in handles]
  /\ published' = [published EXCEPT ![h] = "none"]
  /\ workerPc' = [workerPc EXCEPT ![h] = "reply_shutdown"]
  /\ UNCHANGED <<lifeVars, keyVars, admitted, openVars, native, channelVars,
                 job, outcome, callVars, shutdownVars>>

\* The late open's Shutdown carries no reply sender.
ReplyShutdown(h) ==
  /\ workerPc[h] = "reply_shutdown"
  /\ shutdownReply' = [shutdownReply EXCEPT ![h] =
                         IF h \in handles THEN outcome[h] ELSE "none"]
  /\ workerPc' = [workerPc EXCEPT ![h] = "exiting"]
  /\ UNCHANGED <<registryVars, openVars, native, queue, job, outcome, callVars,
                 shutdownVars>>

\* worker_loop returns: the receiver and all queued requests are dropped, and
\* the thread becomes joinable.
ExitWorker(h) ==
  /\ workerPc[h] = "exiting"
  /\ workerPc' = [workerPc EXCEPT ![h] = "finished"]
  /\ queue' = [queue EXCEPT ![h] = <<>>]
  /\ UNCHANGED <<registryVars, openVars, native, job, outcome, shutdownReply,
                 callVars, shutdownVars>>

-----------------------------------------------------------------------------
(* Core::shutdown.                                                         *)

\* End of input, SIGINT or a serve failure, or the cleanup after one of these.
CallShutdown(s) ==
  /\ stopperPc[s] = "idle"
  /\ stopperPc' = [stopperPc EXCEPT ![s] = "called"]
  /\ UNCHANGED <<registryVars, openVars, workerVars, callVars, ownerVars, got>>

\* The caller that finds Running owns the shutdown; it also cancels the token
\* of every pending open inside this critical section.
BeginShutdown(s) ==
  /\ stopperPc[s] = "called"
  /\ MutexFree
  /\ lifecycle = "Running"
  /\ lifecycle' = "Stopping"
  /\ todo' = handles
  /\ waitOpens' = pending
  /\ openStop' = [h \in Handle |-> openStop[h] \/ h \in pending]
  /\ ownerPc' = "signal"
  /\ stopperPc' = [stopperPc EXCEPT ![s] = "owner"]
  /\ UNCHANGED <<mutex, keyVars, entryVars, frozen, openPc, workerVars,
                 callVars, signalVars, report, got>>

AwaitReport(s) ==
  /\ stopperPc[s] = "called"
  /\ MutexFree
  /\ lifecycle # "Running"
  /\ stopperPc' = [stopperPc EXCEPT ![s] = "waiting"]
  /\ UNCHANGED <<registryVars, openVars, workerVars, callVars, ownerVars, got>>

Collect(s) ==
  /\ stopperPc[s] = "waiting"
  /\ MutexFree
  /\ stopperPc' = [stopperPc EXCEPT ![s] = "returned"]
  /\ got' = [got EXCEPT ![s] = frozen]
  /\ UNCHANGED <<registryVars, openVars, workerVars, callVars, ownerVars>>

\* The caller polls until there is a frozen report.
CollectReport(s) == frozen # NoOne /\ Collect(s)

\* Every operation's context holds this token.
SignalStop ==
  /\ ownerPc = "signal"
  /\ stopSignal' = TRUE
  /\ ownerPc' = "next"
  /\ UNCHANGED <<registryVars, openVars, workerVars, callVars, deadlinePassed,
                 reportVars, waitOpens, stopperVars>>

\* Pushes the report entry of the handle being worked on and goes on.
Push(h, stage) ==
  /\ report' = [report EXCEPT ![h] = stage]
  /\ todo' = todo \ {h}
  /\ ownerPc' = "next"
  /\ UNCHANGED <<registryVars, openVars, workerVars, callVars, signalVars,
                 waitOpens, stopperVars>>

SkipExpired ==
  /\ ownerPc = "next"
  /\ todo # {}
  /\ deadlinePassed
  /\ Push(Least(todo), "deadline")

\* One look at the entry decides between joining a closed worker and sending
\* Shutdown; the lock is released before either.
Inspect ==
  /\ ownerPc = "next"
  /\ todo # {}
  /\ ~deadlinePassed
  /\ MutexFree
  /\ ownerPc' = IF closed[Least(todo)] THEN "join_closed" ELSE "enqueue"
  /\ UNCHANGED <<registryVars, openVars, workerVars, callVars, signalVars,
                 reportVars, waitOpens, stopperVars>>

JoinClosed ==
  LET h == Least(todo) IN
  /\ ownerPc = "join_closed"
  /\ MutexFree
  /\ \/ workerPc[h] = "finished" /\ Push(h, "verified")
     \/ workerPc[h] # "finished" /\ deadlinePassed /\ Push(h, "join")

\* The channel has room.
SendToOpen ==
  LET h == Least(todo) IN
  /\ ownerPc = "enqueue"
  /\ workerPc[h] # "finished"
  /\ Len(queue[h]) < Limit(h)
  /\ queue' = [queue EXCEPT ![h] = Append(@, ShutdownRequest)]
  /\ ownerPc' = "await"
  /\ UNCHANGED <<registryVars, openVars, taskVars, shutdownReply, callVars,
                 signalVars, reportVars, waitOpens, stopperVars>>

\* The channel was closed meanwhile; the send error is ignored.
SendToClosed ==
  /\ ownerPc = "enqueue"
  /\ workerPc[Least(todo)] = "finished"
  /\ ownerPc' = "await"
  /\ UNCHANGED <<registryVars, openVars, workerVars, callVars, signalVars,
                 reportVars, waitOpens, stopperVars>>

\* Mutant: a closed channel is taken for a full one.
SendUntilAccepted == SendToOpen

SendShutdown == SendToOpen \/ SendToClosed

SendTimeout ==
  LET h == Least(todo) IN
  /\ ownerPc = "enqueue"
  /\ deadlinePassed
  /\ workerPc[h] # "finished"
  /\ Len(queue[h]) >= Limit(h)
  /\ Push(h, "enqueue")

\* The worker replied: the entry of its handle is `stage`.
Conclude(h, stage) ==
  /\ ownerPc = "await"
  /\ shutdownReply[h] # "none"
  /\ MutexFree
  /\ Push(h, stage)

\* Mutant: the reply is believed without joining the thread.
TakeReplyUnjoined == Conclude(Least(todo), shutdownReply[Least(todo)])

\* join_worker looks at the thread once, without waiting for it.
TakeReply ==
  LET h == Least(todo)
  IN  Conclude(h, IF workerPc[h] = "finished" THEN shutdownReply[h] ELSE "join")

\* The deadline passes first, or the worker dropped the Shutdown unread.
GiveUpReply ==
  LET h == Least(todo) IN
  /\ ownerPc = "await"
  /\ \/ deadlinePassed
     \/ workerPc[h] = "finished" /\ shutdownReply[h] = "none"
  /\ Push(h, "deadline")

\* Waits for one pending open; one that is still pending at the deadline gets
\* the entry `stage`.
AwaitOpen(stage) ==
  LET h == Least(waitOpens) IN
  /\ ownerPc = "next"
  /\ todo = {}
  /\ waitOpens # {}
  /\ MutexFree
  /\ \/ h \notin pending /\ UNCHANGED report
     \/ /\ h \in pending
        /\ deadlinePassed
        /\ report' = [report EXCEPT ![h] = stage]
  /\ waitOpens' = waitOpens \ {h}
  /\ UNCHANGED <<registryVars, openVars, workerVars, callVars, signalVars,
                 ownerPc, todo, stopperVars>>

\* Mutant: an open still pending is left out of the report.
WaitForOpenUnreported == AwaitOpen("absent")

WaitForOpen == AwaitOpen("pending_open")

\* The owner's last critical section, leaving the lifecycle at `phase`.
Finish(s, phase) ==
  /\ ownerPc = "next"
  /\ todo = {}
  /\ waitOpens = {}
  /\ MutexFree
  /\ stopperPc[s] = "owner"
  /\ lifecycle' = phase
  /\ frozen' = report
  /\ ownerPc' = "done"
  /\ stopperPc' = [stopperPc EXCEPT ![s] = "returned"]
  /\ got' = [got EXCEPT ![s] = report]
  /\ UNCHANGED <<mutex, keyVars, entryVars, openVars, workerVars, callVars,
                 signalVars, reportVars, waitOpens>>

\* Mutant: the lifecycle stays Stopping.
FreezeWithoutStopped(s) == Finish(s, "Stopping")

FreezeReport(s) == Finish(s, "Stopped")

\* The aggregate shutdown deadline.
DeadlinePasses ==
  /\ lifecycle = "Stopping"
  /\ ~deadlinePassed
  /\ deadlinePassed' = TRUE
  /\ UNCHANGED <<registryVars, openVars, workerVars, callVars, stopSignal,
                 ownerPc, reportVars, waitOpens, stopperVars>>

-----------------------------------------------------------------------------
OpenStep(h) ==
  Connect(h) \/ FailOpen(h) \/ SpawnWorker(h) \/ PublishOpen(h)
    \/ StopLateOpen(h) \/ FinishOpen(h)

CallStep(r) ==
  RefuseAdmission(r) \/ AdmitClosed(r) \/ Admit(r) \/ ReplyDropped(r)

WorkerStep(h) ==
  Receive(h) \/ RefuseOperation(h) \/ StartOperation(h) \/ RunOperation(h)
    \/ PublishOutcome(h) \/ ReplyOperation(h) \/ ReleaseAdmission(h)
    \/ RollbackAndDispose(h) \/ PublishClosed(h) \/ ReplyShutdown(h)
    \/ ExitWorker(h)

StopperStep(s) == BeginShutdown(s) \/ AwaitReport(s) \/ CollectReport(s)

OwnerStep ==
  SignalStop \/ SkipExpired \/ Inspect \/ JoinClosed \/ SendShutdown
    \/ SendTimeout \/ TakeReply \/ GiveUpReply \/ WaitForOpen
    \/ \E s \in Stoppers : FreezeReport(s)

Next ==
  \/ \E p \in Profiles : ReserveOpen(p)
  \/ \E h \in Handle : OpenStep(h) \/ WorkerStep(h)
  \/ \E r \in Requests :
       \/ \E h \in Handle, k \in Kind : LookUp(r, h, k) \/ LookUpUnknown(r, h, k)
       \/ CallStep(r)
       \/ DropCall(r)
  \/ \E s \in Stoppers : CallShutdown(s) \/ StopperStep(s)
  \/ OwnerStep
  \/ DeadlinePasses

Spec == Init /\ [][Next]_vars

\* The worker is inside libpq.
InBackend(h) == workerPc[h] \in {"backend", "rollback"}

(***************************************************************************)
(* Tasks, the shutdown owner and the workers run, and time reaches the     *)
(* shutdown deadline.  Nothing is assumed of an open, which waits for the  *)
(* server and for the command that yields its DSN, nor of a call of libpq, *)
(* which the server can hold in PQgetResult past every deadline.  Nothing  *)
(* obliges a client to call or to drop a call, or anybody to stop.         *)
(***************************************************************************)
Fairness ==
  /\ \A h \in Handle : WF_vars(~InBackend(h) /\ WorkerStep(h))
  /\ \A r \in Requests : WF_vars(CallStep(r))
  /\ \A s \in Stoppers : WF_vars(StopperStep(s))
  /\ WF_vars(OwnerStep)
  /\ WF_vars(DeadlinePasses)

FairSpec == Spec /\ Fairness

-----------------------------------------------------------------------------
(* Properties.                                                             *)

RegistryTypes ==
  /\ lifecycle \in {"Running", "Stopping", "Stopped"}
  /\ mutex \in Requests \cup {NoOne}
  /\ nextHandle \in 1..MaxOpens + 1
  /\ pending \in SUBSET Handle
  /\ handles \in SUBSET Handle
  /\ profileOf \in [Handle -> Profiles]
  /\ closed \in [Handle -> BOOLEAN]
  /\ published \in [Handle -> NativeStatus]
  /\ admitted \in [Handle -> Nat]
  /\ frozen \in [Handle -> Stage] \cup {NoOne}

WorkerTypes ==
  /\ openPc \in [Handle -> OpenPc]
  /\ openStop \in [Handle -> BOOLEAN]
  /\ native \in [Handle -> NativeStatus]
  /\ queue \in [Handle -> Seq(Requests \cup {ShutdownRequest})]
  /\ workerPc \in [Handle -> WorkerPc]
  /\ job \in [Handle -> Requests \cup {NoOne}]
  /\ outcome \in [Handle -> Outcome]
  /\ shutdownReply \in [Handle -> {"none", "verified", "uncertain"}]

CallTypes ==
  /\ callPc \in [Requests -> CallPc]
  /\ target \in [Requests -> Handle]
  /\ kind \in [Requests -> Kind]
  /\ answer \in [Requests -> Answer]

ShutdownTypes ==
  /\ stopSignal \in BOOLEAN
  /\ deadlinePassed \in BOOLEAN
  /\ ownerPc \in OwnerPc
  /\ todo \in SUBSET Handle
  /\ waitOpens \in SUBSET Handle
  /\ report \in [Handle -> Stage]
  /\ stopperPc \in [Stoppers -> {"idle", "called", "owner", "waiting", "returned"}]
  /\ got \in [Stoppers -> [Handle -> Stage] \cup {NoOne}]

\* Every variable keeps its type: in particular the nonnegative admission count
\* survives every release, and only a worker's own answer reaches a caller.
TypeOK == RegistryTypes /\ WorkerTypes /\ CallTypes /\ ShutdownTypes

\* The admission count of an open handle is exactly the operations in its
\* channel plus the one its worker holds, whatever the callers do with their
\* replies: no path leaks a slot or frees one twice (AdmissionGuard, dispatch).
Queued(h) == Cardinality({i \in DOMAIN queue[h] : queue[h][i] # ShutdownRequest})
Held(h) == IF workerPc[h] \in Holding THEN 1 ELSE 0
AdmissionAccounting ==
  \A h \in handles : ~closed[h] => admitted[h] = Queued(h) + Held(h)

\* While the server runs, a handle that passes the admission check has room in
\* its channel and a worker that still receives: the Full and Closed branches
\* of dispatch's try_send are never taken.
TrySendSucceeds ==
  \A h \in handles :
    lifecycle = "Running" /\ ~closed[h] /\ admitted[h] < Limit(h) =>
      /\ Len(queue[h]) < Limit(h)
      /\ workerPc[h] \notin {"exiting", "finished"}

\* No interleaving of opens, failures and publications takes a profile over its
\* max_handles (reserve_open counts reservations and entries in one section).
HandleLimitHolds == \A p \in Profiles : OpenCount(p) <= MaxHandles[p]

\* An entry the report calls verified has no live connection and no thread.
VerifiedMeansDisposed ==
  \A h \in Handle :
    report[h] = "verified" => native[h] \notin Live /\ workerPc[h] = "finished"

\* A frozen report accounts for every handle the registry holds: an open that
\* races the transition to Stopping cannot enter the registry unreported.
ReportCoversRegistry ==
  frozen # NoOne => \A h \in handles : frozen[h] # "absent"

\* Every caller of shutdown, the owner and the ones that waited, returns the
\* one frozen report, and late completions do not rewrite it.
OneReport ==
  \A s \in Stoppers : stopperPc[s] = "returned" => got[s] = frozen

\* Once Stopping, no call is admitted and no handle appears.
NothingAdmittedAfterStop ==
  [][lifecycle # "Running" =>
       /\ handles' = handles
       /\ \A h \in Handle : admitted'[h] <= admitted[h]]_vars

\* A worker that disposed of its connection never runs another operation on
\* it, and its handle stays closed.
NoOperationAfterDisposal ==
  \A h \in handles :
    /\ workerPc[h] \in {"check", "backend"} => ~closed[h] /\ native[h] # "none"
    /\ workerPc[h] = "finished" => closed[h]

\* The server lets every call of libpq end (WorkerSession's EveryCallFinishes
\* says what that takes).
BackendCallsEnd == \A h \in Handle : []<>~InBackend(h)

\* A call that found its handle is answered or dropped, unless the mutex is never
\* released or the server holds a worker for ever: a close ahead of it in the
\* channel, a late open or a shutdown does not strand it.
EveryCallAnswered ==
  [](mutex = NoOne) /\ BackendCallsEnd =>
    \A r \in Requests :
      callPc[r] \in {"looked", "waiting"} ~> callPc[r] \in {"returned", "dropped"}

\* Every call of shutdown returns a report, unless the mutex is never released:
\* whatever the server does to opens and workers, the owner's deadline decides.
EveryShutdownReturns ==
  [](mutex = NoOne) =>
    \A s \in Stoppers : stopperPc[s] = "called" ~> stopperPc[s] = "returned"

-----------------------------------------------------------------------------
(* The contract this registry keeps.                                       *)

Reported == IF frozen = NoOne THEN {} ELSE {h \in Handle : frozen[h] # "absent"}

Contract == INSTANCE CoreContract WITH
  reported <- Reported,
  uncertain <- {h \in Reported : frozen[h] # "verified"},
  wedged <- mutex # NoOne

\* Opens, calls, workers and the shutdown owner together behave as the contract
\* says: nothing enters once stopped, and the report leaves out neither a handle
\* nor an open still in progress.
ImplementsContract == Contract!Spec

\* A shutdown that was begun comes to its report (Core::shutdown's deadline).
KeepsContract == Contract!FairSpec

-----------------------------------------------------------------------------
(* What the documentation promises and the code does not keep.             *)

\* DESIGN.md:49 "One aggregate deadline bounds waiting": a call of shutdown
\* returns.  A call on a closed handle holds the mutex for ever.
ShutdownIsBounded ==
  \A s \in Stoppers : stopperPc[s] = "called" ~> stopperPc[s] = "returned"

\* DESIGN.md:49 "signals all registered workers including pending opens": a
\* fully verified report leaves no connection live.
VerifiedReportMeansNothingLive ==
  frozen # NoOne /\ (\A h \in Handle : frozen[h] \in {"absent", "verified"}) =>
    \A h \in Handle : native[h] \notin Live

=============================================================================
