------------------------- MODULE CoreRegistryProofs -------------------------
(***************************************************************************)
(* Theorems about CoreRegistry, for every set of profiles, limits, calls   *)
(* and callers of shutdown.                                                *)
(***************************************************************************)
EXTENDS CoreRegistry, SequenceTheorems, WellFoundedInduction, TLAPS

\* A function update keeps the function's type; outside the domain it does
\* nothing.
LEMMA ExceptType ==
  ASSUME NEW D, NEW R, NEW f \in [D -> R], NEW d, NEW v, d \in D => v \in R
  PROVE  [f EXCEPT ![d] = v] \in [D -> R]
OBVIOUS

\* The handle the shutdown owner works on is one of those left to do.
LEMMA LeastIn ==
  ASSUME NEW S \in SUBSET Handle, S # {}
  PROVE  Least(S) \in S
<1> DEFINE R == OpToRel(<, Nat)
<1>1. S \subseteq Nat
  BY ConstantsAssumption DEF Handle
<1>2. PICK x \in S : \A y \in S : ~(<<y, x>> \in R)
  BY <1>1, WFMin, NatLessThanWellFounded
<1>3. \A y \in S : ~(y < x)
  BY <1>1, <1>2 DEF OpToRel
<1>4. \E h \in S : \A g \in S : h <= g
  BY <1>1, <1>3
<1> QED
  BY <1>4 DEF Least

\* What a worker finds in its channel.
Message == Requests \cup {ShutdownRequest}

\* What a worker's program counter says about the job it holds and the outcome
\* it carries.
WorkerInv ==
  \A h \in Handle :
    /\ workerPc[h] \in Holding => job[h] \in Requests
    /\ workerPc[h] \in {"publish", "reply", "release"} =>
         outcome[h] \in {"refused", "done", "unknown", "disposed"}
    /\ workerPc[h] \in {"publish_closed", "reply_shutdown"} =>
         outcome[h] \in {"verified", "uncertain"}

TypeInv == TypeOK /\ WorkerInv

\* Each step of opens, workers, calls and shutdown keeps the types.
LEMMA TypeInvStep ==
  ASSUME TypeInv, [Next]_vars
  PROVE  TypeInv'
<1> USE DEF TypeInv, TypeOK, WorkerInv, Holding,
          RegistryTypes, WorkerTypes, CallTypes, ShutdownTypes,
          NativeStatus, OpenPc, WorkerPc, Outcome, CallPc, Kind, Answer, Stage,
          OwnerPc, vars, registryVars, lifeVars, keyVars, entryVars, openVars, taskVars,
          channelVars, workerVars, argVars, callVars, signalVars, reportVars,
          ownerVars, stopperVars, shutdownVars
<1>1. ASSUME NEW p \in Profiles, ReserveOpen(p)
       PROVE  TypeInv'
  <2>1. RegistryTypes'
    <3>1. nextHandle \in Handle /\ nextHandle' \in 1..MaxOpens + 1
      BY <1>1, ConstantsAssumption DEF ReserveOpen, Reserve, Handle
    <3>2. pending' \in SUBSET Handle /\ profileOf' \in [Handle -> Profiles]
      BY <1>1, <3>1 DEF ReserveOpen, Reserve
    <3> QED
      BY <1>1, <3>1, <3>2 DEF ReserveOpen, Reserve
  <2>2. WorkerTypes'
    BY <1>1, ConstantsAssumption DEF ReserveOpen, Reserve, Handle
  <2>3. CallTypes'
    BY <1>1, ConstantsAssumption DEF ReserveOpen, Reserve, Handle
  <2>4. ShutdownTypes'
    BY <1>1, ConstantsAssumption DEF ReserveOpen, Reserve, Handle
  <2>5. WorkerInv'
    BY <1>1, ConstantsAssumption DEF ReserveOpen, Reserve, Handle
  <2> QED
    BY <2>1, <2>2, <2>3, <2>4, <2>5 DEF TypeInv, TypeOK
<1>2. ASSUME NEW h \in Handle, Connect(h)
       PROVE  TypeInv'
  BY <1>2 DEF Connect
<1>3. ASSUME NEW h \in Handle, FailOpen(h)
       PROVE  TypeInv'
  BY <1>3 DEF FailOpen
<1>4. ASSUME NEW h \in Handle, SpawnWorker(h)
       PROVE  TypeInv'
  BY <1>4 DEF SpawnWorker
<1>5. ASSUME NEW h \in Handle, PublishOpen(h)
       PROVE  TypeInv'
  BY <1>5 DEF PublishOpen, EnterRegistry
<1>6. ASSUME NEW h \in Handle, StopLateOpen(h)
       PROVE  TypeInv'
  BY <1>6 DEF StopLateOpen
<1>7. ASSUME NEW h \in Handle, FinishOpen(h)
       PROVE  TypeInv'
  BY <1>7 DEF FinishOpen
<1>8. ASSUME NEW r \in Requests, NEW h \in Handle, NEW k \in Kind, LookUp(r, h, k)
       PROVE  TypeInv'
  BY <1>8 DEF LookUp
<1>9. ASSUME NEW r \in Requests, NEW h \in Handle, NEW k \in Kind, LookUpUnknown(r, h, k)
       PROVE  TypeInv'
  BY <1>9 DEF LookUpUnknown, Return
<1>10. ASSUME NEW r \in Requests, RefuseAdmission(r)
       PROVE  TypeInv'
  <2>1. RegistryTypes'
    BY <1>10 DEF RefuseAdmission, Return
  <2>2. WorkerTypes'
    BY <1>10 DEF RefuseAdmission, Return
  <2>3. CallTypes'
    <3>1. PICK a \in {"server_stopping", "queue_full"} : Return(r, a)
      BY <1>10 DEF RefuseAdmission
    <3> QED
      BY <1>10, <3>1 DEF RefuseAdmission, Return
  <2>4. ShutdownTypes'
    BY <1>10 DEF RefuseAdmission, Return
  <2>5. WorkerInv'
    BY <1>10 DEF RefuseAdmission, Return
  <2> QED
    BY <2>1, <2>2, <2>3, <2>4, <2>5 DEF TypeInv, TypeOK
<1>11. ASSUME NEW r \in Requests, AdmitClosed(r)
       PROVE  TypeInv'
  BY <1>11 DEF AdmitClosed
<1>12. ASSUME NEW r \in Requests, Admit(r)
       PROVE  TypeInv'
  BY <1>12 DEF Admit, Enqueue
<1>13. ASSUME NEW r \in Requests, DropCall(r)
       PROVE  TypeInv'
  BY <1>13 DEF DropCall
<1>14. ASSUME NEW r \in Requests, ReplyDropped(r)
       PROVE  TypeInv'
  BY <1>14 DEF ReplyDropped, Return
<1>15. ASSUME NEW h \in Handle, Receive(h)
       PROVE  TypeInv'
  <2>1. RegistryTypes'
    BY <1>15 DEF Receive
  <2>2. WorkerTypes'
    <3>1. queue \in [Handle -> Seq(Message)] /\ queue[h] # <<>>
      BY <1>15 DEF Receive, Message
    <3>2. Head(queue[h]) \in Message /\ Tail(queue[h]) \in Seq(Message)
      BY <3>1, HeadTailProperties
    <3>3. queue' \in [Handle -> Seq(Message)]
      BY <1>15, <3>1, <3>2, ExceptType DEF Receive
    <3>4. PICK pc \in {"rollback", "check"} : workerPc' = [workerPc EXCEPT ![h] = pc]
      BY <1>15 DEF Receive
    <3>5. job' \in [Handle -> Requests \cup {NoOne}]
      <4>1. CASE Head(queue[h]) = ShutdownRequest
        BY <1>15, <4>1 DEF Receive
      <4>2. CASE Head(queue[h]) # ShutdownRequest
        <5>1. Head(queue[h]) \in Requests /\ job' = [job EXCEPT ![h] = Head(queue[h])]
          BY <1>15, <3>2, <4>2 DEF Receive, Message
        <5> QED
          BY <5>1, ExceptType
      <4> QED
        BY <4>1, <4>2
    <3> QED
      BY <1>15, <3>3, <3>4, <3>5 DEF Receive, Message
  <2>3. CallTypes'
    BY <1>15 DEF Receive
  <2>4. ShutdownTypes'
    BY <1>15 DEF Receive
  <2>5. WorkerInv'
    BY <1>15 DEF Receive
  <2> QED
    BY <2>1, <2>2, <2>3, <2>4, <2>5 DEF TypeInv, TypeOK
<1>16. ASSUME NEW h \in Handle, RefuseOperation(h)
       PROVE  TypeInv'
  BY <1>16 DEF RefuseOperation
<1>17. ASSUME NEW h \in Handle, StartOperation(h)
       PROVE  TypeInv'
  BY <1>17 DEF StartOperation
<1>18. ASSUME NEW h \in Handle, RunOperation(h)
       PROVE  TypeInv'
  BY <1>18 DEF RunOperation
<1>19. ASSUME NEW h \in Handle, PublishOutcome(h)
       PROVE  TypeInv'
  BY <1>19 DEF PublishOutcome
<1>20. ASSUME NEW h \in Handle, ReplyOperation(h)
       PROVE  TypeInv'
  <2>1. RegistryTypes'
    BY <1>20 DEF ReplyOperation, Reply, Return
  <2>2. WorkerTypes'
    BY <1>20 DEF ReplyOperation, Reply, Return
  <2>3. CallTypes'
    <3>1. job[h] \in Requests /\ outcome[h] \in Answer
      BY <1>20 DEF ReplyOperation, Reply
    <3>2. CASE Return(job[h], outcome[h])
      BY <1>20, <3>1, <3>2 DEF ReplyOperation, Reply, Return
    <3>3. CASE UNCHANGED <<callPc, answer>>
      BY <1>20, <3>3 DEF ReplyOperation, Reply
    <3> QED
      BY <1>20, <3>2, <3>3 DEF ReplyOperation, Reply
  <2>4. ShutdownTypes'
    BY <1>20 DEF ReplyOperation, Reply, Return
  <2>5. WorkerInv'
    BY <1>20 DEF ReplyOperation, Reply, Return
  <2> QED
    BY <2>1, <2>2, <2>3, <2>4, <2>5 DEF TypeInv, TypeOK
<1>21. ASSUME NEW h \in Handle, ReleaseAdmission(h)
       PROVE  TypeInv'
  BY <1>21 DEF ReleaseAdmission, Release, NextPc
<1>22. ASSUME NEW h \in Handle, RollbackAndDispose(h)
       PROVE  TypeInv'
  <2>1. RegistryTypes'
    BY <1>22 DEF RollbackAndDispose
  <2>2. WorkerTypes'
    <3>1. PICK o \in {"verified", "uncertain"} : outcome' = [outcome EXCEPT ![h] = o]
      BY <1>22 DEF RollbackAndDispose
    <3> QED
      BY <1>22, <3>1 DEF RollbackAndDispose
  <2>3. CallTypes'
    BY <1>22 DEF RollbackAndDispose
  <2>4. ShutdownTypes'
    BY <1>22 DEF RollbackAndDispose
  <2>5. WorkerInv'
    BY <1>22 DEF RollbackAndDispose
  <2> QED
    BY <2>1, <2>2, <2>3, <2>4, <2>5 DEF TypeInv, TypeOK
<1>23. ASSUME NEW h \in Handle, PublishClosed(h)
       PROVE  TypeInv'
  BY <1>23 DEF PublishClosed
<1>24. ASSUME NEW h \in Handle, ReplyShutdown(h)
       PROVE  TypeInv'
  BY <1>24 DEF ReplyShutdown
<1>25. ASSUME NEW h \in Handle, ExitWorker(h)
       PROVE  TypeInv'
  BY <1>25 DEF ExitWorker
<1>26. ASSUME NEW s \in Stoppers, CallShutdown(s)
       PROVE  TypeInv'
  BY <1>26 DEF CallShutdown
<1>27. ASSUME NEW s \in Stoppers, BeginShutdown(s)
       PROVE  TypeInv'
  BY <1>27 DEF BeginShutdown
<1>28. ASSUME NEW s \in Stoppers, AwaitReport(s)
       PROVE  TypeInv'
  BY <1>28 DEF AwaitReport
<1>29. ASSUME NEW s \in Stoppers, CollectReport(s)
       PROVE  TypeInv'
  BY <1>29 DEF CollectReport, Collect
<1>30. ASSUME NEW s \in Stoppers, FreezeReport(s)
       PROVE  TypeInv'
  BY <1>30 DEF FreezeReport, Finish
<1>31. ASSUME SignalStop
       PROVE  TypeInv'
  BY <1>31 DEF SignalStop
<1>32. ASSUME SkipExpired
       PROVE  TypeInv'
  BY <1>32 DEF SkipExpired, Push
<1>33. ASSUME Inspect
       PROVE  TypeInv'
  BY <1>33 DEF Inspect
<1>34. ASSUME JoinClosed
       PROVE  TypeInv'
  <2>1. RegistryTypes'
    BY <1>34 DEF JoinClosed, Push
  <2>2. WorkerTypes'
    BY <1>34 DEF JoinClosed, Push
  <2>3. CallTypes'
    BY <1>34 DEF JoinClosed, Push
  <2>4. ShutdownTypes'
    <3>1. PICK stage \in {"verified", "join"} : Push(Least(todo), stage)
      BY <1>34 DEF JoinClosed
    <3> QED
      BY <3>1 DEF Push
  <2>5. WorkerInv'
    BY <1>34 DEF JoinClosed, Push
  <2> QED
    BY <2>1, <2>2, <2>3, <2>4, <2>5 DEF TypeInv, TypeOK
<1>35. ASSUME SendToOpen
       PROVE  TypeInv'
  <2>1. RegistryTypes'
    BY <1>35 DEF SendToOpen
  <2>2. WorkerTypes'
    <3> DEFINE g == Least(todo)
    <3>1. queue \in [Handle -> Seq(Message)]
      BY DEF Message
    <3>2. g \in Handle => Append(queue[g], ShutdownRequest) \in Seq(Message)
      BY <3>1 DEF Message
    <3>3. queue' = [queue EXCEPT ![g] = Append(queue[g], ShutdownRequest)]
      BY <1>35 DEF SendToOpen
    <3> HIDE DEF g
    <3>4. queue' \in [Handle -> Seq(Message)]
      BY <3>1, <3>2, <3>3, ExceptType
    <3> QED
      BY <1>35, <3>4 DEF SendToOpen, Message
  <2>3. CallTypes'
    BY <1>35 DEF SendToOpen
  <2>4. ShutdownTypes'
    BY <1>35 DEF SendToOpen
  <2>5. WorkerInv'
    BY <1>35 DEF SendToOpen
  <2> QED
    BY <2>1, <2>2, <2>3, <2>4, <2>5 DEF TypeInv, TypeOK
<1>36. ASSUME SendToClosed
       PROVE  TypeInv'
  BY <1>36 DEF SendToClosed
<1>37. ASSUME SendTimeout
       PROVE  TypeInv'
  BY <1>37 DEF SendTimeout, Push
<1>38. ASSUME TakeReply
       PROVE  TypeInv'
  <2>1. RegistryTypes'
    BY <1>38 DEF TakeReply, Conclude, Push
  <2>2. WorkerTypes'
    BY <1>38 DEF TakeReply, Conclude, Push
  <2>3. CallTypes'
    BY <1>38 DEF TakeReply, Conclude, Push
  <2>4. ShutdownTypes'
    <3> DEFINE g == Least(todo)
               stage == IF workerPc[g] = "finished" THEN shutdownReply[g] ELSE "join"
    <3>1. Push(g, stage) /\ (g \in Handle => stage \in Stage)
      BY <1>38 DEF TakeReply, Conclude
    <3> HIDE DEF g, stage
    <3>2. report' \in [Handle -> Stage]
      BY <3>1, ExceptType DEF Push
    <3> QED
      BY <3>1, <3>2 DEF Push
  <2>5. WorkerInv'
    BY <1>38 DEF TakeReply, Conclude, Push
  <2> QED
    BY <2>1, <2>2, <2>3, <2>4, <2>5 DEF TypeInv, TypeOK
<1>39. ASSUME GiveUpReply
       PROVE  TypeInv'
  BY <1>39 DEF GiveUpReply, Push
<1>40. ASSUME WaitForOpen
       PROVE  TypeInv'
  <2>1. RegistryTypes'
    BY <1>40 DEF WaitForOpen, AwaitOpen
  <2>2. WorkerTypes'
    BY <1>40 DEF WaitForOpen, AwaitOpen
  <2>3. CallTypes'
    BY <1>40 DEF WaitForOpen, AwaitOpen
  <2>4. ShutdownTypes'
    <3>1. report' \in [Handle -> Stage]
      <4>1. CASE UNCHANGED report
        BY <4>1
      <4>2. CASE report' = [report EXCEPT ![Least(waitOpens)] = "pending_open"]
        BY <4>2
      <4> QED
        BY <1>40, <4>1, <4>2 DEF WaitForOpen, AwaitOpen
    <3> QED
      BY <1>40, <3>1 DEF WaitForOpen, AwaitOpen
  <2>5. WorkerInv'
    BY <1>40 DEF WaitForOpen, AwaitOpen
  <2> QED
    BY <2>1, <2>2, <2>3, <2>4, <2>5 DEF TypeInv, TypeOK
<1>41. ASSUME DeadlinePasses
       PROVE  TypeInv'
  BY <1>41 DEF DeadlinePasses
<1>42. CASE UNCHANGED vars
  <2>1. RegistryTypes'
    BY <1>42
  <2>2. WorkerTypes'
    BY <1>42
  <2>3. CallTypes'
    BY <1>42
  <2>4. ShutdownTypes'
    BY <1>42
  <2>5. WorkerInv'
    BY <1>42
  <2> QED
    BY <2>1, <2>2, <2>3, <2>4, <2>5 DEF TypeInv, TypeOK
<1> HIDE DEF TypeInv, TypeOK, WorkerInv, RegistryTypes, WorkerTypes, CallTypes,
             ShutdownTypes
<1> QED
  BY <1>1, <1>2, <1>3, <1>4, <1>5, <1>6, <1>7, <1>8, <1>9, <1>10, <1>11, <1>12, <1>13,
     <1>14, <1>15, <1>16, <1>17, <1>18, <1>19, <1>20, <1>21, <1>22, <1>23, <1>24, <1>25,
     <1>26, <1>27, <1>28, <1>29, <1>30, <1>31, <1>32, <1>33, <1>34, <1>35, <1>36, <1>37,
     <1>38, <1>39, <1>40, <1>41, <1>42
     DEF Next, OpenStep, WorkerStep, CallStep, StopperStep, OwnerStep, SendShutdown


\* The registry before anything happened is typed.
LEMMA TypeInvInit == Init => TypeInv
<1> SUFFICES ASSUME Init PROVE TypeInv
  OBVIOUS
<1>1. 1 \in Handle /\ nextHandle \in 1..MaxOpens + 1
  BY ConstantsAssumption DEF Init, Handle
<1>2. (CHOOSE p \in Profiles : TRUE) \in Profiles
  BY ConstantsAssumption
<1>3. RegistryTypes
  BY <1>1, <1>2 DEF Init, RegistryTypes, NativeStatus
<1>4. WorkerTypes
  BY DEF Init, WorkerTypes, OpenPc, NativeStatus, WorkerPc, Outcome
<1>5. CallTypes
  BY <1>1 DEF Init, CallTypes, CallPc, Kind, Answer
<1>6. ShutdownTypes
  BY DEF Init, ShutdownTypes, OwnerPc, Stage
<1>7. WorkerInv
  BY DEF Init, WorkerInv, Holding
<1> QED
  BY <1>3, <1>4, <1>5, <1>6, <1>7 DEF TypeInv, TypeOK

\* TypeOK for every value of the constants.
THEOREM TypeCorrect == Spec => []TypeOK
<1>1. Init => TypeInv
  BY TypeInvInit
<1>2. TypeInv /\ [Next]_vars => TypeInv'
  BY TypeInvStep
<1>3. TypeInv => TypeOK
  BY DEF TypeInv
<1> QED
  BY <1>1, <1>2, <1>3, PTL DEF Spec


-----------------------------------------------------------------------------
(* Lifecycle and report.                                                   *)

\* The owner's progress, the lifecycle and the frozen report agree, and every
\* registered handle is either still on the owner's list or reported.
ReportInv ==
  /\ lifecycle = "Running" <=> ownerPc = "idle"
  /\ frozen # NoOne => ownerPc = "done"
  /\ ownerPc = "done" => todo = {} /\ frozen = report
  /\ \A s \in Stoppers :
       stopperPc[s] = "returned" => ownerPc = "done" /\ got[s] = frozen
  /\ lifecycle # "Running" => \A h \in handles : h \in todo \/ report[h] # "absent"


\* An entry pushed for the handle the owner works on keeps ReportInv.
LEMMA PushReport ==
  ASSUME TypeInv, ReportInv, NEW h, NEW stage, Push(h, stage),
         ownerPc \notin {"idle", "done"}, stage # "absent" \/ h \notin Handle
  PROVE  ReportInv'
<1> USE DEF Push, registryVars, lifeVars, keyVars, stopperVars
<1>1. handles \subseteq Handle /\ report \in [Handle -> Stage]
  BY DEF TypeInv, TypeOK, RegistryTypes, ShutdownTypes
<1>2. UNCHANGED <<lifecycle, frozen, handles, stopperPc, got>> /\ ownerPc' = "next"
  OBVIOUS
<1>3. lifecycle # "Running" =>
        \A g \in handles' : g \in todo' \/ report'[g] # "absent"
  BY <1>1, <1>2 DEF ReportInv
<1>4. frozen = NoOne /\ lifecycle # "Running" /\ \A s \in Stoppers : stopperPc[s] # "returned"
  BY DEF ReportInv
<1> QED
  BY <1>2, <1>3, <1>4 DEF ReportInv

\* The owner goes through the handles it found; no step adds one behind its back.
LEMMA ReportInvStep ==
  ASSUME TypeInv, ReportInv, [Next]_vars
  PROVE  ReportInv'
<1> USE DEF ReportInv, vars, registryVars, lifeVars, keyVars, entryVars, openVars, taskVars,
          channelVars, workerVars, argVars, callVars, signalVars, reportVars,
          ownerVars, stopperVars, shutdownVars
<1> DEFINE Said == <<lifecycle, ownerPc, frozen, todo, report, stopperPc, got, handles>>
<1>1. ASSUME UNCHANGED Said
       PROVE  ReportInv'
  BY <1>1
<1>2. ASSUME NEW p \in Profiles,
            ReserveOpen(p)
       PROVE  UNCHANGED Said
  BY <1>2 DEF ReserveOpen, Reserve
<1>3. ASSUME NEW h \in Handle,
            Connect(h) \/ FailOpen(h) \/ SpawnWorker(h) \/ StopLateOpen(h) \/ FinishOpen(h)
       PROVE  UNCHANGED Said
  BY <1>3 DEF Connect, FailOpen, SpawnWorker, StopLateOpen, FinishOpen
<1>4. ASSUME NEW r \in Requests, NEW h \in Handle, NEW k \in Kind,
            LookUp(r, h, k) \/ LookUpUnknown(r, h, k)
       PROVE  UNCHANGED Said
  BY <1>4 DEF LookUp, LookUpUnknown
<1>5. ASSUME NEW r \in Requests,
            DropCall(r) \/ RefuseAdmission(r) \/ AdmitClosed(r) \/ Admit(r)
            \/ ReplyDropped(r)
       PROVE  UNCHANGED Said
  BY <1>5 DEF DropCall, RefuseAdmission, AdmitClosed, Admit, Enqueue, ReplyDropped
<1>6. ASSUME NEW h \in Handle,
            WorkerStep(h)
       PROVE  UNCHANGED Said
  BY <1>6 DEF WorkerStep, Receive, RefuseOperation, StartOperation, RunOperation,
              PublishOutcome, ReplyOperation, Reply, ReleaseAdmission, Release,
              RollbackAndDispose, PublishClosed, ReplyShutdown, ExitWorker
<1>7. ASSUME NEW h \in Handle, PublishOpen(h)
       PROVE  ReportInv'
  BY <1>7 DEF PublishOpen, EnterRegistry
<1>8. ASSUME NEW s \in Stoppers, CallShutdown(s)
       PROVE  ReportInv'
  BY <1>8 DEF CallShutdown
<1>9. ASSUME NEW s \in Stoppers, BeginShutdown(s)
       PROVE  ReportInv'
  BY <1>9 DEF BeginShutdown
<1>10. ASSUME NEW s \in Stoppers, AwaitReport(s)
       PROVE  ReportInv'
  BY <1>10 DEF AwaitReport
<1>11. ASSUME NEW s \in Stoppers, CollectReport(s)
       PROVE  ReportInv'
  <2>1. ownerPc = "done" /\ got' = [got EXCEPT ![s] = frozen]
    BY <1>11 DEF CollectReport, Collect
  <2>2. UNCHANGED <<lifecycle, ownerPc, frozen, todo, report, handles>>
    BY <1>11 DEF CollectReport, Collect
  <2>3. ASSUME NEW t \in Stoppers, stopperPc'[t] = "returned"
         PROVE  got'[t] = frozen
    BY <1>11, <2>1, <2>3 DEF CollectReport, Collect, TypeInv, TypeOK, ShutdownTypes
  <2> QED
    BY <2>1, <2>2, <2>3
<1>12. ASSUME NEW s \in Stoppers, FreezeReport(s)
       PROVE  ReportInv'
  <2>1. \A t \in Stoppers : stopperPc[t] # "returned"
    BY <1>12 DEF FreezeReport, Finish
  <2>2. ASSUME NEW t \in Stoppers, stopperPc'[t] = "returned"
         PROVE  got'[t] = frozen'
    BY <1>12, <2>1, <2>2 DEF FreezeReport, Finish, TypeInv, TypeOK, ShutdownTypes
  <2>3. /\ lifecycle' = "Stopped" /\ ownerPc' = "done" /\ todo' = {} /\ frozen' = report'
        /\ UNCHANGED <<handles, report>>
    BY <1>12 DEF FreezeReport, Finish
  <2>4. \A h \in handles : report[h] # "absent"
    BY <1>12 DEF FreezeReport, Finish
  <2> QED
    BY <2>2, <2>3, <2>4
<1>13. ASSUME SignalStop \/ Inspect \/ SendShutdown
       PROVE  ReportInv'
  BY <1>13 DEF SignalStop, Inspect, SendShutdown, SendToOpen, SendToClosed
<1>14. ASSUME SkipExpired
       PROVE  ReportInv'
  BY <1>14, PushReport DEF SkipExpired
<1>15. ASSUME JoinClosed
       PROVE  ReportInv'
  <2>1. PICK stage \in {"verified", "join"} : Push(Least(todo), stage)
    BY <1>15 DEF JoinClosed
  <2> QED
    BY <1>15, <2>1, PushReport DEF JoinClosed
<1>16. ASSUME SendTimeout
       PROVE  ReportInv'
  BY <1>16, PushReport DEF SendTimeout
<1>17. ASSUME TakeReply
       PROVE  ReportInv'
  <2> DEFINE g == Least(todo)
             stage == IF workerPc[g] = "finished" THEN shutdownReply[g] ELSE "join"
  <2>1. Push(g, stage) /\ shutdownReply[g] # "none" /\ ownerPc = "await"
    BY <1>17 DEF TakeReply, Conclude
  <2>2. g \in Handle => stage # "absent"
    BY <2>1 DEF TypeInv, TypeOK, WorkerTypes
  <2> HIDE DEF g, stage
  <2> QED
    BY <2>1, <2>2, PushReport
<1>18. ASSUME GiveUpReply
       PROVE  ReportInv'
  BY <1>18, PushReport DEF GiveUpReply
<1>19. ASSUME WaitForOpen
       PROVE  ReportInv'
  <2>1. /\ UNCHANGED <<lifecycle, ownerPc, frozen, todo, stopperPc, got, handles>>
        /\ ownerPc = "next"
    BY <1>19 DEF WaitForOpen, AwaitOpen
  <2>2. handles \subseteq Handle /\ report \in [Handle -> Stage]
    BY DEF TypeInv, TypeOK, RegistryTypes, ShutdownTypes
  <2>3. \A h \in handles : report[h] # "absent" => report'[h] # "absent"
    <3>1. CASE UNCHANGED report
      BY <3>1
    <3>2. CASE report' = [report EXCEPT ![Least(waitOpens)] = "pending_open"]
      BY <2>2, <3>2
    <3> QED
      BY <1>19, <3>1, <3>2 DEF WaitForOpen, AwaitOpen
  <2> QED
    BY <2>1, <2>3
<1>20. ASSUME DeadlinePasses
       PROVE  ReportInv'
  BY <1>20 DEF DeadlinePasses
<1>21. CASE UNCHANGED vars
  BY <1>21
<1> QED
  BY <1>1, <1>2, <1>3, <1>4, <1>5, <1>6, <1>7, <1>8, <1>9, <1>10, <1>11, <1>12, <1>13,
     <1>14, <1>15, <1>16, <1>17, <1>18, <1>19, <1>20, <1>21
     DEF Next, OpenStep, CallStep, StopperStep, OwnerStep

-----------------------------------------------------------------------------
(* The life of a handle.                                                   *)

\* Before its entry is published a handle has no traffic; its entry is closed
\* exactly from the moment its worker publishes the disposal; and until then
\* its worker owns a connection.
HandleFacts(h) ==
  /\ h \in handles <=> openPc[h] = "published"
  /\ h >= nextHandle => openPc[h] = "unused"
  /\ openPc[h] \in {"unused", "connecting", "connected"} =>
       workerPc[h] = "none" /\ queue[h] = <<>>
  /\ openPc[h] = "connected" => native[h] # "none"
  /\ h \in handles => workerPc[h] # "none"
  /\ openPc[h] = "spawned" =>
       workerPc[h] = "recv" /\ queue[h] = <<>> /\ ~closed[h]
  /\ workerPc[h] \in {"none", "recv", "check", "backend", "publish",
                      "rollback", "publish_closed"} => ~closed[h]
  /\ workerPc[h] \in {"reply", "release"} =>
       (closed[h] <=> outcome[h] = "disposed")
  /\ workerPc[h] \in {"reply_shutdown", "exiting", "finished"} /\ h \in handles =>
       closed[h]
  /\ workerPc[h] \in {"recv", "check", "backend"} => native[h] # "none"
  /\ workerPc[h] \in {"publish", "reply", "release"} /\ outcome[h] # "disposed" =>
       native[h] # "none"

HandleInv ==
  /\ todo \subseteq handles
  /\ ownerPc \in {"join_closed", "enqueue", "await"} => todo # {}
  /\ \A r \in Requests : callPc[r] = "looked" => target[r] \in handles
  /\ \A h \in Handle : HandleFacts(h)

\* Each step keeps a handle where it is in its life or moves it one stage on.
LEMMA HandleInvStep ==
  ASSUME TypeInv, ReportInv, HandleInv, [Next]_vars
  PROVE  HandleInv'
<1> USE DEF HandleInv, HandleFacts, TypeInv, TypeOK, RegistryTypes, WorkerTypes, CallTypes, ShutdownTypes,
          vars, registryVars, lifeVars, keyVars, entryVars, openVars, taskVars,
          channelVars, workerVars, argVars, callVars, signalVars, reportVars,
          ownerVars, stopperVars, shutdownVars
<1>1. ASSUME NEW p \in Profiles, ReserveOpen(p)
       PROVE  HandleInv'
  <2>1. nextHandle \in Handle /\ openPc[nextHandle] = "unused"
    BY <1>1, ConstantsAssumption DEF ReserveOpen, Reserve, Handle
  <2>2. \A h \in Handle : h >= nextHandle' => h > nextHandle
    BY <1>1 DEF ReserveOpen, Reserve, Handle
  <2> QED
    BY <1>1, <2>1, <2>2 DEF ReserveOpen, Reserve, Handle
<1>2. ASSUME NEW h \in Handle, Connect(h)
       PROVE  HandleInv'
  BY <1>2 DEF Connect
<1>3. ASSUME NEW h \in Handle, FailOpen(h)
       PROVE  HandleInv'
  BY <1>3 DEF FailOpen
<1>4. ASSUME NEW h \in Handle, SpawnWorker(h)
       PROVE  HandleInv'
  BY <1>4 DEF SpawnWorker
<1>5. ASSUME NEW h \in Handle, PublishOpen(h)
       PROVE  HandleInv'
  BY <1>5 DEF PublishOpen, EnterRegistry
<1>6. ASSUME NEW h \in Handle, StopLateOpen(h)
       PROVE  HandleInv'
  BY <1>6 DEF StopLateOpen
<1>7. ASSUME NEW h \in Handle, FinishOpen(h)
       PROVE  HandleInv'
  BY <1>7 DEF FinishOpen
<1>8. ASSUME NEW h \in Handle, Receive(h)
       PROVE  HandleInv'
  BY <1>8 DEF Receive
<1>9. ASSUME NEW h \in Handle, RefuseOperation(h)
       PROVE  HandleInv'
  BY <1>9 DEF RefuseOperation
<1>10. ASSUME NEW h \in Handle, StartOperation(h)
       PROVE  HandleInv'
  BY <1>10 DEF StartOperation
<1>11. ASSUME NEW h \in Handle, RunOperation(h)
       PROVE  HandleInv'
  BY <1>11 DEF RunOperation
<1>12. ASSUME NEW h \in Handle, PublishOutcome(h)
       PROVE  HandleInv'
  <2>1. /\ workerPc[h] = "publish" /\ workerPc' = [workerPc EXCEPT ![h] = "reply"]
        /\ closed' = [closed EXCEPT ![h] = outcome[h] = "disposed"]
        /\ UNCHANGED <<nextHandle, handles, openVars, native, queue, callPc, target, outcome,
                       ownerVars>>
    BY <1>12 DEF PublishOutcome
  <2>2. HandleFacts(h)'
    BY <2>1
  <2>3. ASSUME NEW g \in Handle, g # h PROVE HandleFacts(g)'
    BY <2>1, <2>3
  <2> QED
    BY <2>1, <2>2, <2>3
<1>13. ASSUME NEW h \in Handle, ReplyOperation(h)
       PROVE  HandleInv'
  <2>1. /\ workerPc[h] = "reply" /\ workerPc' = [workerPc EXCEPT ![h] = "release"]
        /\ UNCHANGED <<registryVars, openVars, native, queue, outcome, target, ownerVars>>
    BY <1>13 DEF ReplyOperation, Reply
  <2>2. \A r \in Requests : callPc'[r] = "looked" => callPc[r] = "looked"
    BY <1>13 DEF ReplyOperation, Reply, Return
  <2> QED
    BY <2>1, <2>2
<1>14. ASSUME NEW h \in Handle, ReleaseAdmission(h)
       PROVE  HandleInv'
  BY <1>14 DEF ReleaseAdmission, Release, NextPc
<1>15. ASSUME NEW h \in Handle, RollbackAndDispose(h)
       PROVE  HandleInv'
  BY <1>15 DEF RollbackAndDispose
<1>16. ASSUME NEW h \in Handle, PublishClosed(h)
       PROVE  HandleInv'
  <2>1. /\ workerPc[h] = "publish_closed"
        /\ workerPc' = [workerPc EXCEPT ![h] = "reply_shutdown"]
        /\ closed' = [closed EXCEPT ![h] = h \in handles]
        /\ UNCHANGED <<nextHandle, handles, openVars, native, queue, callPc, target, outcome,
                       ownerVars>>
    BY <1>16 DEF PublishClosed
  <2>2. HandleFacts(h)'
    BY <2>1
  <2>3. ASSUME NEW g \in Handle, g # h PROVE HandleFacts(g)'
    BY <2>1, <2>3
  <2> QED
    BY <2>1, <2>2, <2>3
<1>17. ASSUME NEW h \in Handle, ReplyShutdown(h)
       PROVE  HandleInv'
  BY <1>17 DEF ReplyShutdown
<1>18. ASSUME NEW h \in Handle, ExitWorker(h)
       PROVE  HandleInv'
  BY <1>18 DEF ExitWorker
<1>19. ASSUME NEW r \in Requests, NEW h \in Handle, NEW k \in Kind, LookUp(r, h, k)
       PROVE  HandleInv'
  BY <1>19 DEF LookUp
<1>20. ASSUME NEW r \in Requests, NEW h \in Handle, NEW k \in Kind, LookUpUnknown(r, h, k)
       PROVE  HandleInv'
  BY <1>20 DEF LookUpUnknown, Return
<1>21. ASSUME NEW r \in Requests, RefuseAdmission(r)
       PROVE  HandleInv'
  BY <1>21 DEF RefuseAdmission, Return
<1>22. ASSUME NEW r \in Requests, AdmitClosed(r)
       PROVE  HandleInv'
  BY <1>22 DEF AdmitClosed
<1>23. ASSUME NEW r \in Requests, Admit(r)
       PROVE  HandleInv'
  BY <1>23 DEF Admit, Enqueue
<1>24. ASSUME NEW r \in Requests, DropCall(r)
       PROVE  HandleInv'
  BY <1>24 DEF DropCall
<1>25. ASSUME NEW r \in Requests, ReplyDropped(r)
       PROVE  HandleInv'
  BY <1>25 DEF ReplyDropped, Return
<1>26. ASSUME NEW s \in Stoppers, CallShutdown(s)
       PROVE  HandleInv'
  BY <1>26 DEF CallShutdown
<1>27. ASSUME NEW s \in Stoppers, BeginShutdown(s)
       PROVE  HandleInv'
  BY <1>27 DEF BeginShutdown
<1>28. ASSUME NEW s \in Stoppers, AwaitReport(s)
       PROVE  HandleInv'
  BY <1>28 DEF AwaitReport
<1>29. ASSUME NEW s \in Stoppers, CollectReport(s)
       PROVE  HandleInv'
  BY <1>29 DEF CollectReport, Collect
<1>30. ASSUME NEW s \in Stoppers, FreezeReport(s)
       PROVE  HandleInv'
  BY <1>30 DEF FreezeReport, Finish
<1>31. ASSUME SignalStop
       PROVE  HandleInv'
  BY <1>31 DEF SignalStop
<1>32. ASSUME SkipExpired
       PROVE  HandleInv'
  BY <1>32 DEF SkipExpired, Push
<1>33. ASSUME Inspect
       PROVE  HandleInv'
  BY <1>33 DEF Inspect
<1>34. ASSUME JoinClosed
       PROVE  HandleInv'
  BY <1>34 DEF JoinClosed, Push
<1>35. ASSUME SendToOpen
       PROVE  HandleInv'
  <2> DEFINE g == Least(todo)
  <2>1. g \in Handle /\ openPc[g] = "published"
    BY <1>35, LeastIn DEF SendToOpen
  <2>2. /\ queue' = [queue EXCEPT ![g] = Append(queue[g], ShutdownRequest)]
        /\ ownerPc' = "await" /\ ownerPc = "enqueue"
        /\ UNCHANGED <<registryVars, openVars, taskVars, callVars, todo>>
    BY <1>35 DEF SendToOpen
  <2> HIDE DEF g
  <2> QED
    BY <2>1, <2>2
<1>36. ASSUME SendToClosed
       PROVE  HandleInv'
  BY <1>36 DEF SendToClosed
<1>37. ASSUME SendTimeout
       PROVE  HandleInv'
  BY <1>37 DEF SendTimeout, Push
<1>38. ASSUME TakeReply
       PROVE  HandleInv'
  BY <1>38 DEF TakeReply, Conclude, Push
<1>39. ASSUME GiveUpReply
       PROVE  HandleInv'
  BY <1>39 DEF GiveUpReply, Push
<1>40. ASSUME WaitForOpen
       PROVE  HandleInv'
  BY <1>40 DEF WaitForOpen, AwaitOpen
<1>41. ASSUME DeadlinePasses
       PROVE  HandleInv'
  BY <1>41 DEF DeadlinePasses
<1>42. CASE UNCHANGED vars
  BY <1>42
<1> HIDE DEF HandleInv, HandleFacts, TypeInv
<1> QED
  BY <1>1, <1>2, <1>3, <1>4, <1>5, <1>6, <1>7, <1>8, <1>9, <1>10, <1>11, <1>12, <1>13,
     <1>14, <1>15, <1>16, <1>17, <1>18, <1>19, <1>20, <1>21, <1>22, <1>23, <1>24, <1>25,
     <1>26, <1>27, <1>28, <1>29, <1>30, <1>31, <1>32, <1>33, <1>34, <1>35, <1>36, <1>37,
     <1>38, <1>39, <1>40, <1>41, <1>42
     DEF Next, OpenStep, WorkerStep, CallStep, StopperStep, OwnerStep, SendShutdown

\* While the server runs, the channel of a handle holds operations only, and
\* its admission count is their number plus the operation the worker holds.
AdmissionOf(h) ==
  /\ queue[h] \in Seq(Requests)
  /\ workerPc[h] \notin {"rollback", "publish_closed", "reply_shutdown"}
  /\ h \notin handles =>
       admitted[h] = 0 /\ queue[h] = <<>> /\ workerPc[h] \in {"none", "recv"}
  /\ h \in handles /\ ~closed[h] => admitted[h] = Len(queue[h]) + Held(h)

AdmissionInv == lifecycle = "Running" => \A h \in Handle : AdmissionOf(h)

\* A slot is taken with the send of an operation and given back with its release.
LEMMA AdmissionInvStep ==
  ASSUME TypeInv, ReportInv, HandleInv, AdmissionInv, [Next]_vars
  PROVE  AdmissionInv'
<1> USE DEF AdmissionInv, AdmissionOf, Held, Holding,
          TypeInv, TypeOK, RegistryTypes, WorkerTypes, CallTypes, ShutdownTypes,
          vars, registryVars, lifeVars, keyVars, entryVars, openVars, taskVars,
          channelVars, workerVars, argVars, callVars, signalVars, reportVars,
          ownerVars, stopperVars, shutdownVars
<1>1. ASSUME NEW p \in Profiles, ReserveOpen(p)
       PROVE  AdmissionInv'
  BY <1>1 DEF ReserveOpen, Reserve, HandleInv, HandleFacts, ReportInv
<1>2. ASSUME NEW h \in Handle, Connect(h)
       PROVE  AdmissionInv'
  BY <1>2 DEF Connect, HandleInv, HandleFacts, ReportInv
<1>3. ASSUME NEW h \in Handle, FailOpen(h)
       PROVE  AdmissionInv'
  BY <1>3 DEF FailOpen, HandleInv, HandleFacts, ReportInv
<1>4. ASSUME NEW h \in Handle, SpawnWorker(h)
       PROVE  AdmissionInv'
  BY <1>4 DEF SpawnWorker, HandleInv, HandleFacts, ReportInv
<1>5. ASSUME NEW h \in Handle, PublishOpen(h)
       PROVE  AdmissionInv'
  <2> SUFFICES ASSUME lifecycle = "Running" PROVE \A g \in Handle : AdmissionOf(g)'
    BY <1>5 DEF PublishOpen, EnterRegistry
  <2>1. ASSUME NEW g \in Handle, g # h
         PROVE  AdmissionOf(g)'
    BY <1>5, <2>1 DEF PublishOpen, EnterRegistry
  <2>2. AdmissionOf(h)'
    BY <1>5 DEF PublishOpen, EnterRegistry, HandleInv, HandleFacts
  <2> QED
    BY <2>1, <2>2
<1>6. ASSUME NEW h \in Handle, StopLateOpen(h)
       PROVE  AdmissionInv'
  BY <1>6 DEF StopLateOpen, HandleInv, HandleFacts, ReportInv
<1>7. ASSUME NEW h \in Handle, FinishOpen(h)
       PROVE  AdmissionInv'
  BY <1>7 DEF FinishOpen, HandleInv, HandleFacts, ReportInv
<1>8. ASSUME NEW h \in Handle, Receive(h)
       PROVE  AdmissionInv'
  <2> SUFFICES ASSUME lifecycle = "Running" PROVE \A g \in Handle : AdmissionOf(g)'
    BY <1>8 DEF Receive
  <2>1. ASSUME NEW g \in Handle, g # h
         PROVE  AdmissionOf(g)'
    BY <1>8, <2>1 DEF Receive
  <2>2. AdmissionOf(h)'
    <3>1. queue[h] \in Seq(Requests) /\ queue[h] # <<>> /\ h \in handles
      BY <1>8 DEF Receive
    <3>2. /\ Head(queue[h]) \in Requests
          /\ Tail(queue[h]) \in Seq(Requests)
          /\ Len(Tail(queue[h])) = Len(queue[h]) - 1 /\ Len(queue[h]) \in Nat
      BY <3>1, HeadTailProperties, LenProperties
    <3>3. Head(queue[h]) # ShutdownRequest
      BY <3>2, ConstantsAssumption
    <3>4. /\ queue'[h] = Tail(queue[h]) /\ workerPc'[h] = "check" /\ workerPc[h] = "recv"
          /\ UNCHANGED <<handles, closed, admitted>>
      BY <1>8, <3>3 DEF Receive
    <3>5. queue'[h] \in Seq(Requests) /\ Len(queue'[h]) = Len(queue[h]) - 1
      BY <3>2, <3>4
    <3>6. ~closed[h] => admitted[h] = Len(queue[h])
      <4>1. AdmissionOf(h)
        BY DEF AdmissionInv
      <4>2. Held(h) = 0
        BY <3>4
      <4> QED
        BY <3>1, <3>2, <4>1, <4>2
    <3> QED
      BY <3>1, <3>2, <3>4, <3>5, <3>6
  <2> QED
    BY <2>1, <2>2
<1>9. ASSUME NEW h \in Handle, RefuseOperation(h)
       PROVE  AdmissionInv'
  BY <1>9 DEF RefuseOperation, HandleInv, HandleFacts, ReportInv
<1>10. ASSUME NEW h \in Handle, StartOperation(h)
       PROVE  AdmissionInv'
  BY <1>10 DEF StartOperation, HandleInv, HandleFacts, ReportInv
<1>11. ASSUME NEW h \in Handle, RunOperation(h)
       PROVE  AdmissionInv'
  <2> SUFFICES ASSUME lifecycle = "Running" PROVE \A g \in Handle : AdmissionOf(g)'
    BY <1>11 DEF RunOperation
  <2>1. ASSUME NEW g \in Handle, g # h
         PROVE  AdmissionOf(g)'
    BY <1>11, <2>1 DEF RunOperation
  <2>2. AdmissionOf(h)'
    <3>1. /\ workerPc[h] = "backend" /\ workerPc'[h] = "publish"
          /\ UNCHANGED <<handles, closed, admitted, queue>>
      BY <1>11 DEF RunOperation
    <3> QED
      BY <3>1
  <2> QED
    BY <2>1, <2>2
<1>12. ASSUME NEW h \in Handle, PublishOutcome(h)
       PROVE  AdmissionInv'
  BY <1>12 DEF PublishOutcome, HandleInv, HandleFacts, ReportInv
<1>13. ASSUME NEW h \in Handle, ReplyOperation(h)
       PROVE  AdmissionInv'
  <2> SUFFICES ASSUME lifecycle = "Running" PROVE \A g \in Handle : AdmissionOf(g)'
    BY <1>13 DEF ReplyOperation, Reply
  <2>1. ASSUME NEW g \in Handle, g # h
         PROVE  AdmissionOf(g)'
    BY <1>13, <2>1 DEF ReplyOperation, Reply
  <2>2. AdmissionOf(h)'
    <3>1. /\ workerPc[h] = "reply" /\ workerPc'[h] = "release"
          /\ UNCHANGED <<handles, closed, admitted, queue>>
      BY <1>13 DEF ReplyOperation, Reply
    <3> QED
      BY <3>1
  <2> QED
    BY <2>1, <2>2
<1>14. ASSUME NEW h \in Handle, ReleaseAdmission(h)
       PROVE  AdmissionInv'
  <2> SUFFICES ASSUME lifecycle = "Running" PROVE \A g \in Handle : AdmissionOf(g)'
    BY <1>14 DEF ReleaseAdmission, Release, NextPc
  <2>1. ASSUME NEW g \in Handle, g # h
         PROVE  AdmissionOf(g)'
    BY <1>14, <2>1 DEF ReleaseAdmission, Release, NextPc
  <2>2. AdmissionOf(h)'
    <3>1. /\ workerPc[h] = "release" /\ h \in handles
          /\ closed[h] <=> outcome[h] = "disposed"
      BY <1>14 DEF ReleaseAdmission, Release, HandleInv, HandleFacts
    <3>2. /\ workerPc'[h] = IF closed[h] THEN "exiting" ELSE "recv"
          /\ UNCHANGED <<handles, closed, queue>>
      BY <1>14, <3>1 DEF ReleaseAdmission, Release, NextPc
    <3>3. ~closed[h] => admitted[h] = Len(queue[h]) + 1
      BY <3>1
    <3>4. admitted'[h] = IF admitted[h] > 0 THEN admitted[h] - 1 ELSE 0
      BY <1>14 DEF ReleaseAdmission, Release
    <3>5. Len(queue[h]) \in Nat
      BY LenProperties
    <3> QED
      BY <3>1, <3>2, <3>3, <3>4, <3>5
  <2> QED
    BY <2>1, <2>2
<1>15. ASSUME NEW h \in Handle, RollbackAndDispose(h)
       PROVE  AdmissionInv'
  BY <1>15 DEF RollbackAndDispose, HandleInv, HandleFacts, ReportInv
<1>16. ASSUME NEW h \in Handle, PublishClosed(h)
       PROVE  AdmissionInv'
  BY <1>16 DEF PublishClosed, HandleInv, HandleFacts, ReportInv
<1>17. ASSUME NEW h \in Handle, ReplyShutdown(h)
       PROVE  AdmissionInv'
  BY <1>17 DEF ReplyShutdown, HandleInv, HandleFacts, ReportInv
<1>18. ASSUME NEW h \in Handle, ExitWorker(h)
       PROVE  AdmissionInv'
  <2> SUFFICES ASSUME lifecycle = "Running" PROVE \A g \in Handle : AdmissionOf(g)'
    BY <1>18 DEF ExitWorker
  <2>1. ASSUME NEW g \in Handle, g # h
         PROVE  AdmissionOf(g)'
    BY <1>18, <2>1 DEF ExitWorker
  <2>2. AdmissionOf(h)'
    <3>1. /\ workerPc[h] = "exiting" /\ workerPc'[h] = "finished" /\ queue'[h] = <<>>
          /\ UNCHANGED <<handles, closed, admitted>>
      BY <1>18 DEF ExitWorker
    <3>2. h \in handles /\ closed[h]
      BY <3>1 DEF HandleInv, HandleFacts
    <3> QED
      BY <3>1, <3>2
  <2> QED
    BY <2>1, <2>2
<1>19. ASSUME NEW r \in Requests, NEW h \in Handle, NEW k \in Kind, LookUp(r, h, k)
       PROVE  AdmissionInv'
  BY <1>19 DEF LookUp, HandleInv, HandleFacts, ReportInv
<1>20. ASSUME NEW r \in Requests, NEW h \in Handle, NEW k \in Kind, LookUpUnknown(r, h, k)
       PROVE  AdmissionInv'
  BY <1>20 DEF LookUpUnknown, Return, HandleInv, HandleFacts, ReportInv
<1>21. ASSUME NEW r \in Requests, RefuseAdmission(r)
       PROVE  AdmissionInv'
  BY <1>21 DEF RefuseAdmission, Return, HandleInv, HandleFacts, ReportInv
<1>22. ASSUME NEW r \in Requests, AdmitClosed(r)
       PROVE  AdmissionInv'
  BY <1>22 DEF AdmitClosed, HandleInv, HandleFacts, ReportInv
<1>23. ASSUME NEW r \in Requests, Admit(r)
       PROVE  AdmissionInv'
  <2> SUFFICES ASSUME lifecycle = "Running" PROVE \A g \in Handle : AdmissionOf(g)'
    BY <1>23 DEF Admit, Enqueue
  <2>1. PICK h \in Handle : h = target[r]
    BY DEF TypeInv
  <2>2. ASSUME NEW g \in Handle, g # h
         PROVE  AdmissionOf(g)'
    BY <1>23, <2>1, <2>2 DEF Admit, Enqueue
  <2>3. AdmissionOf(h)'
    <3>1. /\ h \in handles /\ ~closed[h]
          /\ admitted'[h] = admitted[h] + 1 /\ queue'[h] = Append(queue[h], r)
          /\ UNCHANGED <<handles, closed, workerPc>>
      BY <1>23, <2>1 DEF Admit, Enqueue, HandleInv, HandleFacts
    <3>2. queue[h] \in Seq(Requests) /\ admitted[h] = Len(queue[h]) + Held(h)
      BY <3>1
    <3>3. queue'[h] \in Seq(Requests) /\ Len(queue'[h]) = Len(queue[h]) + 1
      BY <3>1, <3>2, AppendProperties
    <3>4. Len(queue[h]) \in Nat /\ Held(h)' = Held(h)
      BY <3>1, <3>2, LenProperties
    <3> QED
      BY <3>1, <3>2, <3>3, <3>4
  <2> QED
    BY <2>2, <2>3
<1>24. ASSUME NEW r \in Requests, DropCall(r)
       PROVE  AdmissionInv'
  BY <1>24 DEF DropCall, HandleInv, HandleFacts, ReportInv
<1>25. ASSUME NEW r \in Requests, ReplyDropped(r)
       PROVE  AdmissionInv'
  BY <1>25 DEF ReplyDropped, Return, HandleInv, HandleFacts, ReportInv
<1>26. ASSUME NEW s \in Stoppers, CallShutdown(s)
       PROVE  AdmissionInv'
  BY <1>26 DEF CallShutdown, HandleInv, HandleFacts, ReportInv
<1>27. ASSUME NEW s \in Stoppers, BeginShutdown(s)
       PROVE  AdmissionInv'
  BY <1>27 DEF BeginShutdown, HandleInv, HandleFacts, ReportInv
<1>28. ASSUME NEW s \in Stoppers, AwaitReport(s)
       PROVE  AdmissionInv'
  BY <1>28 DEF AwaitReport, HandleInv, HandleFacts, ReportInv
<1>29. ASSUME NEW s \in Stoppers, CollectReport(s)
       PROVE  AdmissionInv'
  BY <1>29 DEF CollectReport, Collect, HandleInv, HandleFacts, ReportInv
<1>30. ASSUME NEW s \in Stoppers, FreezeReport(s)
       PROVE  AdmissionInv'
  BY <1>30 DEF FreezeReport, Finish, HandleInv, HandleFacts, ReportInv
<1>31. ASSUME SignalStop
       PROVE  AdmissionInv'
  BY <1>31 DEF SignalStop, HandleInv, HandleFacts, ReportInv
<1>32. ASSUME SkipExpired
       PROVE  AdmissionInv'
  BY <1>32 DEF SkipExpired, Push, HandleInv, HandleFacts, ReportInv
<1>33. ASSUME Inspect
       PROVE  AdmissionInv'
  BY <1>33 DEF Inspect, HandleInv, HandleFacts, ReportInv
<1>34. ASSUME JoinClosed
       PROVE  AdmissionInv'
  BY <1>34 DEF JoinClosed, Push, HandleInv, HandleFacts, ReportInv
<1>35. ASSUME SendToOpen
       PROVE  AdmissionInv'
  BY <1>35 DEF SendToOpen, HandleInv, HandleFacts, ReportInv
<1>36. ASSUME SendToClosed
       PROVE  AdmissionInv'
  BY <1>36 DEF SendToClosed, HandleInv, HandleFacts, ReportInv
<1>37. ASSUME SendTimeout
       PROVE  AdmissionInv'
  BY <1>37 DEF SendTimeout, Push, HandleInv, HandleFacts, ReportInv
<1>38. ASSUME TakeReply
       PROVE  AdmissionInv'
  BY <1>38 DEF TakeReply, Conclude, Push, HandleInv, HandleFacts, ReportInv
<1>39. ASSUME GiveUpReply
       PROVE  AdmissionInv'
  BY <1>39 DEF GiveUpReply, Push, HandleInv, HandleFacts, ReportInv
<1>40. ASSUME WaitForOpen
       PROVE  AdmissionInv'
  BY <1>40 DEF WaitForOpen, AwaitOpen, HandleInv, HandleFacts, ReportInv
<1>41. ASSUME DeadlinePasses
       PROVE  AdmissionInv'
  BY <1>41 DEF DeadlinePasses, HandleInv, HandleFacts, ReportInv
<1>42. CASE UNCHANGED vars
  BY <1>42
<1> HIDE DEF AdmissionInv, TypeInv
<1> QED
  BY <1>1, <1>2, <1>3, <1>4, <1>5, <1>6, <1>7, <1>8, <1>9, <1>10, <1>11, <1>12, <1>13,
     <1>14, <1>15, <1>16, <1>17, <1>18, <1>19, <1>20, <1>21, <1>22, <1>23, <1>24, <1>25,
     <1>26, <1>27, <1>28, <1>29, <1>30, <1>31, <1>32, <1>33, <1>34, <1>35, <1>36, <1>37,
     <1>38, <1>39, <1>40, <1>41, <1>42
     DEF Next, OpenStep, WorkerStep, CallStep, StopperStep, OwnerStep, SendShutdown

-----------------------------------------------------------------------------
(* The theorems.  IndInv is the inductive invariant they all follow from.  *)

IndInv == TypeInv /\ ReportInv /\ HandleInv /\ AdmissionInv

\* The invariant holds before anything happened.
LEMMA IndInvInit == Init => IndInv
<1> SUFFICES ASSUME Init PROVE IndInv
  OBVIOUS
<1>1. TypeInv
  BY TypeInvInit
<1>2. ReportInv
  BY DEF Init, ReportInv
<1>3. HandleInv
  BY DEF Init, HandleInv, HandleFacts, Handle
<1>4. AdmissionInv
  BY DEF Init, AdmissionInv, AdmissionOf
<1> QED
  BY <1>1, <1>2, <1>3, <1>4 DEF IndInv

\* Every step keeps the invariant.
LEMMA IndInvStep == IndInv /\ [Next]_vars => IndInv'
BY TypeInvStep, ReportInvStep, HandleInvStep, AdmissionInvStep DEF IndInv

\* The invariant holds of every behaviour of the registry.
LEMMA IndInvAlways == Spec => []IndInv
BY IndInvInit, IndInvStep, PTL DEF Spec

\* Every caller of shutdown that returned holds the one frozen report.
THEOREM ReportIsShared == Spec => []OneReport
<1>1. IndInv => OneReport
  BY DEF IndInv, ReportInv, OneReport
<1> QED
  BY <1>1, IndInvAlways, PTL

\* A frozen report has an entry for every handle of the registry, however the
\* opens raced the transition to Stopping.
THEOREM ReportIsComplete == Spec => []ReportCoversRegistry
<1>1. IndInv => ReportCoversRegistry
  BY DEF IndInv, ReportInv, ReportCoversRegistry
<1> QED
  BY <1>1, IndInvAlways, PTL

\* While the server runs, an admitted call always finds room in the channel and
\* a worker that receives.
THEOREM AdmissionSuffices == Spec => []TrySendSucceeds
<1>1. IndInv => TrySendSucceeds
  <2> SUFFICES ASSUME IndInv, NEW h \in handles, lifecycle = "Running", ~closed[h],
                      admitted[h] < Limit(h)
               PROVE  /\ Len(queue[h]) < Limit(h)
                      /\ workerPc[h] \notin {"exiting", "finished"}
    BY DEF TrySendSucceeds
  <2>1. h \in Handle
    BY DEF IndInv, TypeInv, TypeOK, RegistryTypes
  <2>2. AdmissionOf(h)
    BY <2>1 DEF IndInv, AdmissionInv
  <2>3. Len(queue[h]) \in Nat /\ admitted[h] = Len(queue[h]) + Held(h) /\ Held(h) \in {0, 1}
    BY <2>2, LenProperties DEF AdmissionOf, Held
  <2>4. Limit(h) \in Nat
    BY <2>1, ConstantsAssumption DEF Limit, IndInv, TypeInv, TypeOK, RegistryTypes
  <2>5. workerPc[h] \notin {"exiting", "finished"}
    BY <2>1 DEF IndInv, HandleInv, HandleFacts
  <2> QED
    BY <2>3, <2>4, <2>5
<1> QED
  BY <1>1, IndInvAlways, PTL

\* No operation reaches a disposed connection, and a finished worker's handle
\* is closed.
THEOREM DisposalIsFinal == Spec => []NoOperationAfterDisposal
<1>1. IndInv => NoOperationAfterDisposal
  BY DEF IndInv, TypeInv, TypeOK, RegistryTypes, HandleInv, HandleFacts, NoOperationAfterDisposal
<1> QED
  BY <1>1, IndInvAlways, PTL

-----------------------------------------------------------------------------
(* What a verified entry, a stop and a limit say.                          *)

\* A worker on its way out has no connection, and neither has a handle whose entry
\* is "verified".
DisposedInv ==
  \A h \in Handle :
    /\ workerPc[h] \in {"publish_closed", "reply_shutdown", "exiting", "finished"} =>
         native[h] = "none"
    /\ workerPc[h] \in {"publish", "reply", "release"} /\ outcome[h] = "disposed" =>
         native[h] = "none"
    /\ report[h] = "verified" => workerPc[h] = "finished"

\* A worker ends cleanly only after it disposed of its connection.
LEMMA DisposedInvStep ==
  ASSUME IndInv, DisposedInv, [Next]_vars
  PROVE  DisposedInv'
<1> USE DEF IndInv, TypeInv, TypeOK, RegistryTypes, WorkerTypes, ShutdownTypes, DisposedInv,
          vars, registryVars, lifeVars, keyVars, entryVars, openVars, taskVars,
          channelVars, workerVars, argVars, callVars, signalVars, reportVars,
          ownerVars, stopperVars, shutdownVars
<1>1. CASE UNCHANGED <<workerPc, native, outcome, report>>
  BY <1>1
<1>2. ASSUME NEW h \in Handle, Connect(h) \/ FailOpen(h) \/ SpawnWorker(h) PROVE DisposedInv'
  <2>1. workerPc[h] = "none"
    BY <1>2 DEF Connect, FailOpen, SpawnWorker, HandleInv, HandleFacts
  <2> QED
    BY <1>2, <2>1 DEF Connect, FailOpen, SpawnWorker
<1>3. ASSUME NEW h \in Handle, PublishOpen(h) \/ StopLateOpen(h) \/ FinishOpen(h)
      PROVE  DisposedInv'
  BY <1>1, <1>3 DEF PublishOpen, EnterRegistry, StopLateOpen, FinishOpen
<1>4. ASSUME NEW p \in Profiles, ReserveOpen(p) PROVE DisposedInv'
  BY <1>1, <1>4 DEF ReserveOpen, Reserve
<1>5. ASSUME NEW h \in Handle,
             Receive(h) \/ RefuseOperation(h) \/ StartOperation(h) \/ PublishOutcome(h)
               \/ ReplyOperation(h)
      PROVE  DisposedInv'
  BY <1>5 DEF Receive, RefuseOperation, StartOperation, PublishOutcome, ReplyOperation, Reply
<1>6. ASSUME NEW h \in Handle, RunOperation(h) PROVE DisposedInv'
  BY <1>6 DEF RunOperation
<1>7. ASSUME NEW h \in Handle, ReleaseAdmission(h) PROVE DisposedInv'
  BY <1>7 DEF ReleaseAdmission, Release, NextPc
<1>8. ASSUME NEW h \in Handle,
             RollbackAndDispose(h) \/ PublishClosed(h) \/ ReplyShutdown(h) \/ ExitWorker(h)
      PROVE  DisposedInv'
  BY <1>8 DEF RollbackAndDispose, PublishClosed, ReplyShutdown, ExitWorker
<1>9. ASSUME NEW r \in Requests,
             \/ \E h \in Handle, k \in Kind : LookUp(r, h, k) \/ LookUpUnknown(r, h, k)
             \/ CallStep(r) \/ DropCall(r)
      PROVE  DisposedInv'
  BY <1>1, <1>9 DEF LookUp, LookUpUnknown, CallStep, RefuseAdmission, AdmitClosed, Admit,
     Enqueue, ReplyDropped, DropCall
<1>10. ASSUME NEW s \in Stoppers, CallShutdown(s) \/ StopperStep(s) \/ FreezeReport(s)
       PROVE  DisposedInv'
  BY <1>1, <1>10 DEF CallShutdown, StopperStep, BeginShutdown, AwaitReport, CollectReport,
     Collect, FreezeReport, Finish
<1>11. CASE SignalStop \/ Inspect \/ SendShutdown \/ DeadlinePasses \/ UNCHANGED vars
  BY <1>1, <1>11 DEF SignalStop, Inspect, SendShutdown, SendToOpen, SendToClosed, DeadlinePasses
<1>12. CASE SkipExpired \/ SendTimeout \/ GiveUpReply
  BY <1>12 DEF SkipExpired, SendTimeout, GiveUpReply, Push
<1>13. CASE JoinClosed
  BY <1>13 DEF JoinClosed, Push
<1>14. CASE TakeReply
  BY <1>14 DEF TakeReply, Conclude, Push
<1>15. CASE WaitForOpen
  BY <1>15 DEF WaitForOpen, AwaitOpen
<1> QED
  BY <1>2, <1>3, <1>4, <1>5, <1>6, <1>7, <1>8, <1>9, <1>10, <1>11, <1>12, <1>13, <1>14, <1>15
     DEF Next, OpenStep, WorkerStep, OwnerStep

\* A handle the report calls verified has no connection and no thread, whichever
\* of close, late reply and deadline the owner met (Core::shutdown, join_worker).
THEOREM VerifiedIsDisposed == Spec => []VerifiedMeansDisposed
<1>1. Init => IndInv /\ DisposedInv
  BY IndInvInit DEF Init, DisposedInv
<1>2. IndInv /\ DisposedInv /\ [Next]_vars => (IndInv /\ DisposedInv)'
  BY IndInvStep, DisposedInvStep
<1>3. DisposedInv => VerifiedMeansDisposed
  BY DEF DisposedInv, VerifiedMeansDisposed, Live
<1> QED
  BY <1>1, <1>2, <1>3, PTL DEF Spec

\* Once the server stops, dispatch admits no call and no open enters the registry.
THEOREM StopIsFinal == Spec => NothingAdmittedAfterStop
<1>1. ASSUME IndInv, [Next]_vars
      PROVE  [lifecycle # "Running" =>
                /\ handles' = handles
                /\ \A h \in Handle : admitted'[h] <= admitted[h]]_vars
  <2> SUFFICES ASSUME lifecycle # "Running", Next
               PROVE  handles' = handles /\ \A h \in Handle : admitted'[h] <= admitted[h]
    BY <1>1
  <2> USE DEF registryVars, lifeVars, keyVars, entryVars
  <2>1. admitted \in [Handle -> Nat]
    BY <1>1 DEF IndInv, TypeInv, TypeOK, RegistryTypes
  <2>2. ASSUME UNCHANGED <<handles, admitted>>
        PROVE  handles' = handles /\ \A h \in Handle : admitted'[h] <= admitted[h]
    BY <2>1, <2>2
  <2>3. ASSUME NEW h \in Handle, ReleaseAdmission(h)
        PROVE  handles' = handles /\ \A g \in Handle : admitted'[g] <= admitted[g]
    BY <2>1, <2>3 DEF ReleaseAdmission, Release
  <2>4. ASSUME NEW h \in Handle, WorkerStep(h), ~ReleaseAdmission(h)
        PROVE  UNCHANGED <<handles, admitted>>
    BY <2>4 DEF WorkerStep, Receive, RefuseOperation, StartOperation, RunOperation,
       PublishOutcome, ReplyOperation, Reply, RollbackAndDispose, PublishClosed,
       ReplyShutdown, ExitWorker
  <2>5. ASSUME NEW h \in Handle, OpenStep(h) PROVE UNCHANGED <<handles, admitted>>
    BY <2>5 DEF OpenStep, Connect, FailOpen, SpawnWorker, PublishOpen, StopLateOpen, FinishOpen
  <2>6. ASSUME NEW r \in Requests,
               \/ \E h \in Handle, k \in Kind : LookUp(r, h, k) \/ LookUpUnknown(r, h, k)
               \/ CallStep(r) \/ DropCall(r)
        PROVE  UNCHANGED <<handles, admitted>>
    BY <2>6 DEF LookUp, LookUpUnknown, CallStep, RefuseAdmission, AdmitClosed, Admit,
       ReplyDropped, DropCall
  <2>7. ASSUME NEW s \in Stoppers, CallShutdown(s) \/ StopperStep(s) \/ FreezeReport(s)
        PROVE  UNCHANGED <<handles, admitted>>
    BY <2>7 DEF CallShutdown, StopperStep, BeginShutdown, AwaitReport, CollectReport, Collect,
       FreezeReport, Finish
  <2>8. ASSUME \/ SignalStop \/ SkipExpired \/ Inspect \/ JoinClosed \/ SendShutdown
               \/ SendTimeout \/ TakeReply \/ GiveUpReply \/ WaitForOpen \/ DeadlinePasses
        PROVE  UNCHANGED <<handles, admitted>>
    BY <2>8 DEF SignalStop, SkipExpired, Inspect, JoinClosed, SendShutdown, SendToOpen,
       SendToClosed, SendTimeout, TakeReply, Conclude, GiveUpReply, WaitForOpen, AwaitOpen,
       DeadlinePasses, Push
  <2>9. ASSUME NEW p \in Profiles PROVE ~ReserveOpen(p)
    BY DEF ReserveOpen, Reserve
  <2> QED
    BY <2>2, <2>3, <2>4, <2>5, <2>6, <2>7, <2>8, <2>9 DEF Next, OwnerStep
<1> QED
  BY <1>1, IndInvAlways, PTL DEF Spec, NothingAdmittedAfterStop

=============================================================================
