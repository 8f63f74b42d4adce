------------------------- MODULE CoreAdmissionProofs -------------------------
(***************************************************************************)
(* The admission count of an open handle, for every limit and whatever     *)
(* becomes of the callers, before and after the stop: it is the number of  *)
(* operations in the channel and in the worker's hands.                    *)
(* CoreRegistryProofs has this of a running server, whose channels hold    *)
(* operations only.                                                        *)
(***************************************************************************)
EXTENDS CoreRegistryProofs, FiniteSetTheorems

-----------------------------------------------------------------------------
(* Counting the operations in a channel.                                   *)

\* Where the operations of a channel are, and how many.
OperationsIn(q) == {i \in DOMAIN q : q[i] # ShutdownRequest}
Count(q) == Cardinality(OperationsIn(q))

\* A channel is a finite sequence: what is in it can be counted.
LEMMA CountType ==
  ASSUME NEW q \in Seq(Message)
  PROVE  IsFiniteSet(OperationsIn(q)) /\ Count(q) \in Nat
<1>1. IsFiniteSet(1..Len(q)) /\ DOMAIN q = 1..Len(q)
  BY LenProperties, FS_Interval
<1>2. IsFiniteSet(OperationsIn(q))
  BY <1>1, FS_Subset DEF OperationsIn
<1> QED
  BY <1>2, FS_CardinalityType DEF Count

\* An empty channel, or one with nothing but the Shutdown of a late open, has none.
LEMMA CountNone ==
  ASSUME NEW q \in Seq({ShutdownRequest})
  PROVE  Count(q) = 0
<1>1. OperationsIn(q) = {}
  BY ElementOfSeq, LenProperties DEF OperationsIn
<1> QED
  BY <1>1, FS_EmptySet DEF Count

\* try_send of an operation or of a Shutdown request.
LEMMA CountAppend ==
  ASSUME NEW q \in Seq(Message), NEW m \in Message
  PROVE  Count(Append(q, m)) = Count(q) + (IF m = ShutdownRequest THEN 0 ELSE 1)
<1> DEFINE n == Len(q)
<1>1. /\ DOMAIN q = 1..n /\ DOMAIN Append(q, m) = 1..n + 1 /\ n \in Nat
      /\ \A i \in 1..n : Append(q, m)[i] = q[i]
      /\ Append(q, m)[n + 1] = m
  BY AppendProperties, LenProperties
<1>2. n + 1 \notin OperationsIn(q)
  BY <1>1 DEF OperationsIn
<1>3. CASE m = ShutdownRequest
  <2>1. OperationsIn(Append(q, m)) = OperationsIn(q)
    BY <1>1, <1>3 DEF OperationsIn
  <2> QED
    BY <1>3, <2>1, CountType DEF Count
<1>4. CASE m # ShutdownRequest
  <2>1. OperationsIn(Append(q, m)) = OperationsIn(q) \cup {n + 1}
    BY <1>1, <1>4 DEF OperationsIn
  <2> QED
    BY <1>2, <1>4, <2>1, CountType, FS_AddElement DEF Count
<1> QED
  BY <1>3, <1>4

\* The worker receives the head of its channel.
LEMMA CountTail ==
  ASSUME NEW q \in Seq(Message), q # <<>>
  PROVE  Count(q) = Count(Tail(q)) + (IF Head(q) = ShutdownRequest THEN 0 ELSE 1)
<1> DEFINE n == Len(q)
           T == OperationsIn(Tail(q))
           f == [i \in T |-> i + 1]
<1>1. /\ DOMAIN q = 1..n /\ n \in Nat /\ n >= 1
      /\ Tail(q) \in Seq(Message) /\ DOMAIN Tail(q) = 1..n - 1
      /\ \A i \in 1..n - 1 : Tail(q)[i] = q[i + 1]
      /\ Head(q) = q[1]
  BY HeadTailProperties, LenProperties, EmptySeq
<1>2. IsFiniteSet(T) /\ Cardinality(T) \in Nat
  BY <1>1, CountType DEF Count
<1>3. f \in Bijection(T, OperationsIn(q) \ {1})
  <2>1. \A i \in T : i \in 1..n - 1 /\ i + 1 \in OperationsIn(q) \ {1}
    BY <1>1 DEF OperationsIn
  <2>2. \A j \in OperationsIn(q) \ {1} : j - 1 \in T /\ (j - 1) + 1 = j
    BY <1>1 DEF OperationsIn
  <2>3. f \in [T -> OperationsIn(q) \ {1}]
    BY <2>1
  <2>4. \A j \in OperationsIn(q) \ {1} : \E i \in T : f[i] = j
    BY <2>2
  <2>5. \A i, j \in T : f[i] = f[j] => i = j
    BY <2>1
  <2> QED
    BY <2>3, <2>4, <2>5 DEF Bijection, Injection, Surjection, IsInjective
<1>4. IsFiniteSet(OperationsIn(q) \ {1})
      /\ Cardinality(OperationsIn(q) \ {1}) = Cardinality(T)
  BY <1>2, <1>3, FS_Bijection DEF ExistsBijection
<1>5. Cardinality(OperationsIn(q) \ {1})
        = IF 1 \in OperationsIn(q) THEN Count(q) - 1 ELSE Count(q)
  BY CountType, FS_RemoveElement DEF Count
<1>6. 1 \in OperationsIn(q) <=> Head(q) # ShutdownRequest
  BY <1>1 DEF OperationsIn
<1> QED
  BY <1>2, <1>4, <1>5, <1>6, CountType DEF Count

-----------------------------------------------------------------------------
(* The inductive invariant.                                                *)

\* A handle without an entry has no operation anywhere: nobody can call it.
AccountOf(h) ==
  /\ h \notin handles =>
       admitted[h] = 0 /\ workerPc[h] \notin Holding /\ queue[h] \in Seq({ShutdownRequest})
  /\ h \in handles /\ ~closed[h] => admitted[h] = Count(queue[h]) + Held(h)

AccountInv == \A h \in Handle : AccountOf(h)

\* Of the steps that move a handle's worker, all but the receipt and the release keep
\* what it holds; a disposal closes the entry.
LEMMA WorkerKeepsHeld ==
  ASSUME IndInv, AccountInv, NEW h \in Handle,
         \/ SpawnWorker(h) \/ RefuseOperation(h) \/ StartOperation(h) \/ RunOperation(h)
         \/ PublishOutcome(h) \/ ReplyOperation(h) \/ RollbackAndDispose(h)
         \/ PublishClosed(h) \/ ReplyShutdown(h)
  PROVE  AccountInv'
<1> USE DEF registryVars, lifeVars, keyVars, entryVars, openVars, taskVars, channelVars,
          workerVars
<1>1. /\ closed \in [Handle -> BOOLEAN] /\ workerPc \in [Handle -> WorkerPc]
      /\ handles \subseteq Handle
  BY DEF IndInv, TypeInv, TypeOK, RegistryTypes, WorkerTypes
<1>2. /\ UNCHANGED <<handles, admitted, queue>>
      /\ \A g \in Handle : g # h => UNCHANGED <<closed[g], workerPc[g]>>
  <2>1. CASE SpawnWorker(h) \/ RefuseOperation(h) \/ StartOperation(h)
    BY <1>1, <2>1 DEF SpawnWorker, RefuseOperation, StartOperation
  <2>2. CASE RunOperation(h) \/ ReplyOperation(h)
    BY <1>1, <2>2 DEF RunOperation, ReplyOperation, Reply
  <2>3. CASE PublishOutcome(h) \/ PublishClosed(h)
    BY <1>1, <2>3 DEF PublishOutcome, PublishClosed
  <2>4. CASE RollbackAndDispose(h) \/ ReplyShutdown(h)
    BY <1>1, <2>4 DEF RollbackAndDispose, ReplyShutdown
  <2> QED
    BY <2>1, <2>2, <2>3, <2>4
<1>3. /\ workerPc'[h] \in Holding <=> workerPc[h] \in Holding
      /\ closed[h] => closed'[h]
  <2> USE <1>1 DEF Holding
  <2>1. CASE SpawnWorker(h)
    BY <2>1 DEF SpawnWorker, IndInv, HandleInv, HandleFacts
  <2>2. CASE RefuseOperation(h) \/ StartOperation(h)
    BY <2>2 DEF RefuseOperation, StartOperation
  <2>3. CASE RunOperation(h) \/ ReplyOperation(h)
    BY <2>3 DEF RunOperation, ReplyOperation, Reply
  <2>4. CASE PublishOutcome(h)
    BY <2>4 DEF PublishOutcome, IndInv, HandleInv, HandleFacts
  <2>5. CASE PublishClosed(h)
    BY <2>5 DEF PublishClosed, IndInv, HandleInv, HandleFacts
  <2>6. CASE RollbackAndDispose(h) \/ ReplyShutdown(h)
    BY <2>6 DEF RollbackAndDispose, ReplyShutdown
  <2> QED
    BY <2>1, <2>2, <2>3, <2>4, <2>5, <2>6
<1> QED
  BY <1>1, <1>2, <1>3 DEF AccountInv, AccountOf, Held

\* What a handle's worker found, or what is put into its channel.
LEMMA ChannelType ==
  ASSUME IndInv, NEW h \in Handle
  PROVE  queue[h] \in Seq(Message)
  BY DEF IndInv, TypeInv, TypeOK, WorkerTypes, Message

\* Every slot taken is given back once, by the worker that held the operation.
LEMMA AccountStep ==
  ASSUME IndInv, AccountInv, [Next]_vars
  PROVE  AccountInv'
<1> USE DEF registryVars, lifeVars, keyVars, entryVars, openVars, taskVars, channelVars,
          workerVars
<1>1. /\ closed \in [Handle -> BOOLEAN] /\ workerPc \in [Handle -> WorkerPc]
      /\ admitted \in [Handle -> Nat] /\ handles \subseteq Handle
      /\ queue \in [Handle -> Seq(Message)]
  BY DEF IndInv, TypeInv, TypeOK, RegistryTypes, WorkerTypes, Message
<1>2. ShutdownRequest \notin Requests /\ ShutdownRequest \in Message
  BY ConstantsAssumption DEF Message
<1>3. \A h \in Handle : Count(queue[h]) \in Nat
  BY <1>1, CountType
<1>4. ASSUME NEW h \in Handle, AccountOf(h)',
             \A g \in Handle : g # h => AccountOf(g)'
      PROVE  AccountInv'
  BY <1>4 DEF AccountInv
<1>5. ASSUME NEW h \in Handle, PublishOpen(h)
      PROVE  AccountInv'
  <2>1. /\ handles' = handles \cup {h} /\ UNCHANGED <<closed, admitted, workerPc, queue>>
        /\ h \notin handles /\ workerPc[h] = "recv" /\ queue[h] = <<>>
    BY <1>5 DEF PublishOpen, EnterRegistry, IndInv, HandleInv, HandleFacts
  <2>2. Count(queue[h]) = 0
    BY <2>1, CountNone DEF AccountInv, AccountOf
  <2> QED
    BY <1>1, <2>1, <2>2 DEF AccountInv, AccountOf, Held, Holding
<1>6. ASSUME NEW h \in Handle, StopLateOpen(h)
      PROVE  AccountInv'
  <2>1. /\ queue' = [queue EXCEPT ![h] = Append(@, ShutdownRequest)]
        /\ UNCHANGED <<handles, closed, admitted, workerPc>> /\ h \notin handles
    BY <1>6 DEF StopLateOpen, IndInv, HandleInv, HandleFacts
  <2>2. queue'[h] \in Seq({ShutdownRequest})
    BY <1>1, <2>1, AppendProperties DEF AccountInv, AccountOf
  <2> QED
    BY <1>1, <2>1, <2>2 DEF AccountInv, AccountOf, Held
<1>7. ASSUME NEW h \in Handle, Receive(h)
      PROVE  AccountInv'
  <2>1. /\ queue[h] # <<>> /\ workerPc[h] = "recv"
        /\ queue' = [queue EXCEPT ![h] = Tail(@)] /\ UNCHANGED <<handles, closed, admitted>>
        /\ workerPc' = [workerPc EXCEPT ![h] = IF Head(queue[h]) = ShutdownRequest
                                                 THEN "rollback" ELSE "check"]
    BY <1>7 DEF Receive
  <2>2. Count(queue[h])
          = Count(Tail(queue[h])) + (IF Head(queue[h]) = ShutdownRequest THEN 0 ELSE 1)
    BY <1>1, <2>1, CountTail
  <2>3. Held(h) = 0 /\ Held(h)' = IF Head(queue[h]) = ShutdownRequest THEN 0 ELSE 1
    BY <1>1, <2>1 DEF Held, Holding
  <2>4. Count(Tail(queue[h])) \in Nat
    BY <1>1, <2>1, HeadTailProperties, CountType
  <2>5. ASSUME h \notin handles
        PROVE  workerPc'[h] \notin Holding /\ queue'[h] \in Seq({ShutdownRequest})
    <3>1. Head(queue[h]) = ShutdownRequest /\ Tail(queue[h]) \in Seq({ShutdownRequest})
      BY <2>1, <2>5, HeadTailProperties DEF AccountInv, AccountOf
    <3> QED
      BY <1>1, <2>1, <3>1 DEF Holding
  <2>6. AccountOf(h)'
    BY <1>1, <1>3, <2>1, <2>2, <2>3, <2>4, <2>5 DEF AccountInv, AccountOf
  <2>7. \A g \in Handle : g # h => AccountOf(g)'
    BY <1>1, <2>1 DEF AccountInv, AccountOf, Held
  <2> QED
    BY <1>4, <2>6, <2>7
<1>8. ASSUME NEW r \in Requests, Admit(r)
      PROVE  AccountInv'
  <2>1. PICK h \in Handle : h = target[r]
    BY DEF IndInv, TypeInv, TypeOK, CallTypes
  <2>2. /\ admitted' = [admitted EXCEPT ![h] = admitted[h] + 1]
        /\ queue' = [queue EXCEPT ![h] = Append(@, r)]
        /\ UNCHANGED <<handles, closed, workerPc>> /\ h \in handles
    BY <1>8, <2>1 DEF Admit, Enqueue, IndInv, HandleInv
  <2>3. Count(Append(queue[h], r)) = Count(queue[h]) + 1
    BY <1>1, <1>2, CountAppend DEF Message
  <2>4. AccountOf(h)'
    BY <1>1, <1>3, <2>2, <2>3 DEF AccountInv, AccountOf, Held
  <2>5. \A g \in Handle : g # h => AccountOf(g)'
    BY <1>1, <2>2 DEF AccountInv, AccountOf, Held
  <2> QED
    BY <1>4, <2>4, <2>5
<1>9. ASSUME NEW h \in Handle, ReleaseAdmission(h)
      PROVE  AccountInv'
  <2>1. /\ workerPc[h] = "release" /\ UNCHANGED <<handles, closed, queue>>
        /\ admitted' = [admitted EXCEPT ![h] = IF admitted[h] > 0 THEN admitted[h] - 1 ELSE 0]
        /\ workerPc' = [workerPc EXCEPT ![h] = NextPc(h)]
    BY <1>9 DEF ReleaseAdmission, Release
  <2>2. h \in handles /\ Held(h) = 1 /\ Held(h)' = 0
    BY <1>1, <2>1 DEF AccountInv, AccountOf, Held, Holding, NextPc
  <2>3. AccountOf(h)'
    <3>1. ~closed[h] => admitted[h] = Count(queue[h]) + 1
      BY <2>2 DEF AccountInv, AccountOf
    <3>2. ~closed[h] => admitted'[h] = Count(queue[h])
      BY <1>1, <1>3, <2>1, <3>1
    <3>3. queue'[h] = queue[h] /\ closed'[h] = closed[h] /\ h \in handles'
      BY <2>1, <2>2
    <3> QED
      BY <1>3, <2>2, <3>2, <3>3 DEF AccountOf
  <2>4. \A g \in Handle : g # h => AccountOf(g)'
    BY <1>1, <2>1 DEF AccountInv, AccountOf, Held
  <2> QED
    BY <1>4, <2>3, <2>4
<1>10. ASSUME NEW h \in Handle, ExitWorker(h)
       PROVE  AccountInv'
  <2>1. /\ workerPc[h] = "exiting" /\ UNCHANGED <<handles, closed, admitted>>
        /\ workerPc' = [workerPc EXCEPT ![h] = "finished"]
        /\ queue' = [queue EXCEPT ![h] = <<>>]
    BY <1>10 DEF ExitWorker
  <2>2. h \in handles => closed[h]
    BY <2>1 DEF IndInv, HandleInv, HandleFacts
  <2>3. <<>> \in Seq({ShutdownRequest})
    BY EmptySeq
  <2> QED
    BY <1>1, <2>1, <2>2, <2>3 DEF AccountInv, AccountOf, Held, Holding
<1>11. ASSUME SendToOpen
       PROVE  AccountInv'
  <2>1. PICK h \in handles : h = Least(todo)
    BY <1>1, <1>11, LeastIn DEF SendToOpen, IndInv, HandleInv
  <2>2. /\ queue' = [queue EXCEPT ![h] = Append(@, ShutdownRequest)]
        /\ UNCHANGED <<handles, closed, admitted, workerPc>>
    BY <1>11, <2>1 DEF SendToOpen
  <2>3. Count(Append(queue[h], ShutdownRequest)) = Count(queue[h])
    BY <1>1, <1>2, <1>3, <2>1, CountAppend
  <2> QED
    BY <1>1, <2>1, <2>2, <2>3 DEF AccountInv, AccountOf, Held
<1>12. ASSUME UNCHANGED <<handles, closed, admitted, queue, workerPc>>
       PROVE  AccountInv'
  BY <1>12 DEF AccountInv, AccountOf, Held
<1>13. ASSUME ~\E h \in Handle : PublishOpen(h) \/ StopLateOpen(h) \/ SpawnWorker(h)
                                   \/ WorkerStep(h),
              ~\E r \in Requests : Admit(r), ~SendToOpen
       PROVE  UNCHANGED <<handles, closed, admitted, queue, workerPc>>
  <2> USE <1>13
  <2>1. ASSUME NEW p \in Profiles, ReserveOpen(p)
        PROVE  UNCHANGED <<handles, closed, admitted, queue, workerPc>>
    BY <2>1 DEF ReserveOpen, Reserve
  <2>2. ASSUME NEW h \in Handle, OpenStep(h) \/ WorkerStep(h)
        PROVE  UNCHANGED <<handles, closed, admitted, queue, workerPc>>
    BY <2>2 DEF OpenStep, Connect, FailOpen, FinishOpen
  <2>3. ASSUME NEW r \in Requests,
               \/ \E h \in Handle, k \in Kind : LookUp(r, h, k) \/ LookUpUnknown(r, h, k)
               \/ CallStep(r) \/ DropCall(r)
        PROVE  UNCHANGED <<handles, closed, admitted, queue, workerPc>>
    BY <2>3 DEF LookUp, LookUpUnknown, CallStep, RefuseAdmission, AdmitClosed, ReplyDropped,
       DropCall
  <2>4. ASSUME NEW s \in Stoppers, CallShutdown(s) \/ StopperStep(s) \/ FreezeReport(s)
        PROVE  UNCHANGED <<handles, closed, admitted, queue, workerPc>>
    BY <2>4 DEF CallShutdown, StopperStep, BeginShutdown, AwaitReport, CollectReport, Collect,
       FreezeReport, Finish
  <2>5. ASSUME \/ SignalStop \/ SkipExpired \/ Inspect \/ JoinClosed \/ SendShutdown
               \/ SendTimeout \/ TakeReply \/ GiveUpReply \/ WaitForOpen \/ DeadlinePasses
               \/ UNCHANGED vars
        PROVE  UNCHANGED <<handles, closed, admitted, queue, workerPc>>
    BY <2>5 DEF SignalStop, SkipExpired, Inspect, JoinClosed, SendShutdown, SendToClosed,
       SendTimeout, TakeReply, Conclude, GiveUpReply, WaitForOpen, AwaitOpen, DeadlinePasses,
       Push, vars
  <2> QED
    BY <2>1, <2>2, <2>3, <2>4, <2>5 DEF Next, OwnerStep
<1> QED
  BY <1>5, <1>6, <1>7, <1>8, <1>9, <1>10, <1>11, <1>12, <1>13, WorkerKeepsHeld DEF WorkerStep

\* No handle has operations before the first is opened.
LEMMA AccountInit == Init => AccountInv
<1> SUFFICES ASSUME Init PROVE AccountInv
  OBVIOUS
<1>1. \A h \in Handle : handles = {} /\ admitted[h] = 0 /\ workerPc[h] = "none"
                         /\ queue[h] = <<>>
  BY DEF Init
<1>2. <<>> \in Seq({ShutdownRequest})
  BY EmptySeq
<1> QED
  BY <1>1, <1>2 DEF AccountInv, AccountOf, Holding

\* No path leaks an admission slot or frees one twice: the count of an open handle is
\* at all times its queued operations and the one its worker holds, also while the
\* stop empties the channels (AdmissionGuard, dispatch, worker_loop).
THEOREM AdmissionIsAccounted == Spec => []AdmissionAccounting
<1>1. IndInv /\ AccountInv /\ [Next]_vars => AccountInv'
  BY AccountStep
<1>2. IndInv /\ AccountInv => AdmissionAccounting
  <2> SUFFICES ASSUME IndInv, AccountInv, NEW h \in handles, ~closed[h]
               PROVE  admitted[h] = Queued(h) + Held(h)
    BY DEF AdmissionAccounting
  <2>1. h \in Handle
    BY DEF IndInv, TypeInv, TypeOK, RegistryTypes
  <2> QED
    BY <2>1 DEF AccountInv, AccountOf, Queued, Count, OperationsIn
<1> QED
  BY AccountInit, IndInvAlways, <1>1, <1>2, PTL DEF Spec

=============================================================================
