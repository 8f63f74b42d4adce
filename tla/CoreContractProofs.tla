------------------------- MODULE CoreContractProofs -------------------------
(***************************************************************************)
(* CoreRegistry implements CoreContract, for every set of profiles,        *)
(* limits, calls, callers of shutdown and number of opens: the initial     *)
(* states are initial, and every step is a step of the contract or leaves  *)
(* all it speaks of alone.  What that needs to know of reservations also   *)
(* proves the limit on handles.                                            *)
(***************************************************************************)
EXTENDS CoreRegistryProofs, FiniteSetTheorems

\* A reservation lasts exactly from reserve_open to the publication or the end of
\* its task.  There is a frozen report from the owner's last step on, and once
\* Running is left the owner has yet to wait for a pending open or has reported
\* it, never as verified.
PendingInv ==
  /\ \A h \in Handle :
       h \in pending <=> openPc[h] \in {"connecting", "connected", "spawned", "failing"}
  /\ waitOpens \subseteq Handle
  /\ lifecycle = "Stopped" <=> ownerPc = "done"
  /\ frozen = NoOne <=> ownerPc # "done"
  /\ lifecycle # "Running" =>
       \A h \in pending : h \in waitOpens \/ report[h] \notin {"absent", "verified"}

\* No open has begun, and none holds a reservation.
LEMMA PendingInvInit == Init => PendingInv
  BY DEF Init, PendingInv

\* The owner's entry for a registered handle says nothing of a pending open.
LEMMA PushKeepsPending ==
  ASSUME IndInv, PendingInv, NEW stage, Push(Least(todo), stage), todo # {},
         ownerPc \notin {"idle", "done"}
  PROVE  PendingInv'
<1> USE DEF Push, registryVars, lifeVars, keyVars, openVars
<1>1. todo \in SUBSET Handle /\ todo \subseteq handles
  BY DEF IndInv, TypeInv, TypeOK, ShutdownTypes, HandleInv, HandleFacts
<1>2. Least(todo) \in todo
  BY <1>1, LeastIn
<1>3. Least(todo) \notin pending
  BY <1>1, <1>2 DEF IndInv, HandleInv, HandleFacts, PendingInv
<1>4. report \in [Handle -> Stage] /\ pending \subseteq Handle
  BY DEF IndInv, TypeInv, TypeOK, ShutdownTypes, RegistryTypes
<1>5. \A h \in pending : report'[h] = report[h]
  BY <1>3, <1>4
<1>6. UNCHANGED <<lifecycle, frozen, pending, openPc, waitOpens>> /\ ownerPc' = "next"
  OBVIOUS
<1> QED
  BY <1>5, <1>6 DEF PendingInv

\* Reservations come and go with the opens that hold them.
LEMMA PendingInvStep ==
  ASSUME IndInv, PendingInv, [Next]_vars
  PROVE  PendingInv'
<1> USE DEF vars, registryVars, lifeVars, keyVars, entryVars, openVars, taskVars,
          channelVars, workerVars, argVars, callVars, signalVars, reportVars,
          ownerVars, stopperVars, shutdownVars
<1>0. /\ openPc \in [Handle -> OpenPc] /\ pending \subseteq Handle
      /\ report \in [Handle -> Stage] /\ todo \subseteq handles
      /\ lifecycle \in {"Running", "Stopping", "Stopped"}
      /\ ownerPc \in {"join_closed", "enqueue", "await"} => todo # {}
  BY DEF IndInv, TypeInv, TypeOK, RegistryTypes, WorkerTypes, ShutdownTypes, HandleInv, HandleFacts
<1>1. ASSUME UNCHANGED <<lifecycle, ownerPc, frozen, pending, openPc, waitOpens, report>>
      PROVE  PendingInv'
  BY <1>1 DEF PendingInv
<1>2. ASSUME NEW p \in Profiles, ReserveOpen(p) PROVE PendingInv'
  <2>1. nextHandle \in Handle /\ lifecycle = "Running"
    BY <1>2, ConstantsAssumption DEF ReserveOpen, Reserve, Handle, IndInv, TypeInv, TypeOK,
       RegistryTypes
  <2> QED
    BY <1>0, <1>2, <2>1 DEF ReserveOpen, Reserve, PendingInv
<1>3. ASSUME NEW h \in Handle,
             Connect(h) \/ FailOpen(h) \/ SpawnWorker(h) \/ StopLateOpen(h)
      PROVE  PendingInv'
  BY <1>0, <1>3 DEF Connect, FailOpen, SpawnWorker, StopLateOpen, PendingInv
<1>4. ASSUME NEW h \in Handle, PublishOpen(h) \/ FinishOpen(h) PROVE PendingInv'
  BY <1>0, <1>4 DEF PublishOpen, EnterRegistry, FinishOpen, PendingInv
<1>5. ASSUME NEW h \in Handle, WorkerStep(h) PROVE PendingInv'
  BY <1>1, <1>5 DEF WorkerStep, Receive, RefuseOperation, StartOperation, RunOperation,
     PublishOutcome, ReplyOperation, Reply, ReleaseAdmission, Release, RollbackAndDispose,
     PublishClosed, ReplyShutdown, ExitWorker
<1>6. ASSUME NEW r \in Requests,
             \/ \E h \in Handle, k \in Kind : LookUp(r, h, k) \/ LookUpUnknown(r, h, k)
             \/ CallStep(r) \/ DropCall(r)
      PROVE  PendingInv'
  BY <1>1, <1>6 DEF LookUp, LookUpUnknown, CallStep, RefuseAdmission, AdmitClosed, Admit,
     Enqueue, ReplyDropped, DropCall
<1>7. ASSUME NEW s \in Stoppers, BeginShutdown(s) PROVE PendingInv'
  BY <1>0, <1>7 DEF BeginShutdown, IndInv, ReportInv, PendingInv
<1>8. ASSUME NEW s \in Stoppers, CallShutdown(s) \/ AwaitReport(s) \/ CollectReport(s)
      PROVE  PendingInv'
  BY <1>1, <1>8 DEF CallShutdown, AwaitReport, CollectReport, Collect
<1>9. ASSUME NEW s \in Stoppers, FreezeReport(s) PROVE PendingInv'
  BY <1>0, <1>9, ReportAssumption DEF FreezeReport, Finish, IndInv, ReportInv, PendingInv
<1>10. CASE SignalStop \/ Inspect \/ SendShutdown
  BY <1>10 DEF SignalStop, Inspect, SendShutdown, SendToOpen, SendToClosed, PendingInv
<1>11. CASE SkipExpired \/ JoinClosed \/ SendTimeout \/ TakeReply \/ GiveUpReply
  <2>1. todo # {} /\ ownerPc \notin {"idle", "done"}
    BY <1>0, <1>11 DEF SkipExpired, JoinClosed, SendTimeout, TakeReply, Conclude, GiveUpReply
  <2>2. PICK stage : Push(Least(todo), stage)
    BY <1>11 DEF SkipExpired, JoinClosed, SendTimeout, TakeReply, Conclude, GiveUpReply
  <2> QED
    BY <2>1, <2>2, PushKeepsPending
<1>12. CASE WaitForOpen
  <2> DEFINE g == Least(waitOpens)
  <2>1. g \in Handle /\ waitOpens' = waitOpens \ {g}
    BY <1>12, LeastIn DEF WaitForOpen, AwaitOpen, PendingInv
  <2>2. \/ g \notin pending /\ report' = report
        \/ g \in pending /\ report' = [report EXCEPT ![g] = "pending_open"]
    BY <1>12 DEF WaitForOpen, AwaitOpen
  <2>3. UNCHANGED <<lifecycle, ownerPc, frozen, pending, openPc>>
    BY <1>12 DEF WaitForOpen, AwaitOpen
  <2> HIDE DEF g
  <2> QED
    BY <1>0, <2>1, <2>2, <2>3 DEF PendingInv
<1>13. CASE DeadlinePasses \/ UNCHANGED vars
  BY <1>1, <1>13 DEF DeadlinePasses
<1> QED
  BY <1>2, <1>3, <1>4, <1>5, <1>6, <1>7, <1>8, <1>9, <1>10, <1>11, <1>12, <1>13
     DEF Next, OpenStep, StopperStep, OwnerStep

\* Both invariants hold of every behaviour of the registry.
LEMMA PendingInvAlways == Spec => [](IndInv /\ PendingInv)
<1>1. Init => IndInv /\ PendingInv
  BY IndInvInit, PendingInvInit
<1>2. IndInv /\ PendingInv /\ [Next]_vars => (IndInv /\ PendingInv)'
  BY IndInvStep, PendingInvStep
<1> QED
  BY <1>1, <1>2, PTL DEF Spec

-----------------------------------------------------------------------------
(* The refinement.                                                         *)

\* The registry begins as the contract does.
LEMMA ContractInit == Init => Contract!Init
  BY DEF Init, Contract!Init, Reported

\* What the contract speaks of, in the registry's terms.
Visible == <<lifecycle, pending, handles, frozen, mutex>>

\* A step that leaves these alone is none of the contract.
LEMMA Stutter ==
  ASSUME UNCHANGED Visible
  PROVE  UNCHANGED Contract!coreVars
  BY DEF Visible, Contract!coreVars, Reported

\* Each action of the registry is one of the contract or a stutter.
LEMMA ContractStep ==
  ASSUME IndInv, PendingInv, [Next]_vars
  PROVE  [Contract!Next]_(Contract!coreVars)
<1> USE DEF vars, registryVars, lifeVars, keyVars, entryVars, openVars, taskVars,
          channelVars, workerVars, argVars, callVars, signalVars, reportVars,
          ownerVars, stopperVars, shutdownVars
<1>1. ASSUME NEW p \in Profiles, ReserveOpen(p) PROVE Contract!Next
  <2>1. nextHandle \in Handle /\ openPc[nextHandle] = "unused"
    BY <1>1, ConstantsAssumption DEF ReserveOpen, Reserve, Handle, IndInv, TypeInv, TypeOK,
       RegistryTypes, HandleInv, HandleFacts
  <2>2. nextHandle \notin pending \cup handles
    BY <2>1 DEF PendingInv, IndInv, HandleInv, HandleFacts
  <2>3. Contract!Reserve(nextHandle)
    BY <1>1, <2>2 DEF ReserveOpen, Reserve, MutexFree, Contract!Reserve, Reported
  <2> QED
    BY <2>1, <2>3 DEF Contract!Next
<1>2. ASSUME NEW h \in Handle, PublishOpen(h) PROVE Contract!Next
  <2>1. Contract!Enter(h)
    BY <1>2 DEF PublishOpen, EnterRegistry, MutexFree, PendingInv, Contract!Enter, Reported
  <2> QED
    BY <2>1 DEF Contract!Next
<1>3. ASSUME NEW h \in Handle, FinishOpen(h) PROVE Contract!Next
  <2>1. Contract!Abandon(h)
    BY <1>3 DEF FinishOpen, MutexFree, PendingInv, Contract!Abandon, Reported
  <2> QED
    BY <2>1 DEF Contract!Next
<1>4. ASSUME NEW r \in Requests, AdmitClosed(r) PROVE Contract!Next
  <2>1. Contract!Wedge
    BY <1>4, ConstantsAssumption DEF AdmitClosed, MutexFree, Contract!Wedge, Reported
  <2> QED
    BY <2>1 DEF Contract!Next
<1>5. ASSUME NEW s \in Stoppers, BeginShutdown(s) PROVE Contract!Next
  <2>1. Contract!Stop
    BY <1>5 DEF BeginShutdown, MutexFree, Contract!Stop, Reported
  <2> QED
    BY <2>1 DEF Contract!Next
<1>6. ASSUME NEW s \in Stoppers, FreezeReport(s) PROVE Contract!Next
  <2>1. /\ ownerPc = "next" /\ todo = {} /\ waitOpens = {} /\ mutex = NoOne
        /\ lifecycle' = "Stopped" /\ frozen' = report
        /\ UNCHANGED <<mutex, pending, handles>>
    BY <1>6 DEF FreezeReport, Finish, MutexFree
  <2>2. lifecycle = "Stopping"
    BY <2>1 DEF IndInv, TypeInv, TypeOK, RegistryTypes, ReportInv, PendingInv
  <2>3. report # NoOne /\ handles \cup pending \subseteq Handle
    BY ReportAssumption DEF IndInv, TypeInv, TypeOK, RegistryTypes, ShutdownTypes
  <2>4. Reported' = {h \in Handle : report[h] # "absent"}
    BY <2>1, <2>3 DEF Reported
  <2>5. handles \cup pending \subseteq Reported'
    BY <2>1, <2>2, <2>3, <2>4 DEF IndInv, ReportInv, PendingInv
  <2>6. \A h \in pending : report[h] # "verified"
    BY <2>1, <2>2 DEF PendingInv
  <2>7. Contract!Freeze
    BY <2>1, <2>2, <2>4, <2>5, <2>6 DEF Contract!Freeze
  <2> QED
    BY <2>7 DEF Contract!Next
<1>7. ASSUME NEW h \in Handle,
             Connect(h) \/ FailOpen(h) \/ SpawnWorker(h) \/ StopLateOpen(h) \/ WorkerStep(h)
      PROVE  UNCHANGED Visible
  BY <1>7 DEF Visible, Connect, FailOpen, SpawnWorker, StopLateOpen, WorkerStep, Receive,
     RefuseOperation, StartOperation, RunOperation, PublishOutcome, ReplyOperation, Reply,
     ReleaseAdmission, Release, RollbackAndDispose, PublishClosed, ReplyShutdown, ExitWorker
<1>8. ASSUME NEW r \in Requests,
             \/ \E h \in Handle, k \in Kind : LookUp(r, h, k) \/ LookUpUnknown(r, h, k)
             \/ RefuseAdmission(r) \/ Admit(r) \/ ReplyDropped(r) \/ DropCall(r)
      PROVE  UNCHANGED Visible
  BY <1>8 DEF Visible, LookUp, LookUpUnknown, RefuseAdmission, Admit, Enqueue, ReplyDropped,
     DropCall
<1>9. ASSUME NEW s \in Stoppers, CallShutdown(s) \/ AwaitReport(s) \/ CollectReport(s)
      PROVE  UNCHANGED Visible
  BY <1>9 DEF Visible, CallShutdown, AwaitReport, CollectReport, Collect
<1>10. ASSUME \/ SignalStop \/ SkipExpired \/ Inspect \/ JoinClosed \/ SendShutdown
              \/ SendTimeout \/ TakeReply \/ GiveUpReply \/ WaitForOpen \/ DeadlinePasses
              \/ UNCHANGED vars
       PROVE  UNCHANGED Visible
  BY <1>10 DEF Visible, SignalStop, SkipExpired, Inspect, JoinClosed, SendShutdown, SendToOpen,
     SendToClosed, SendTimeout, TakeReply, Conclude, GiveUpReply, WaitForOpen, AwaitOpen,
     DeadlinePasses, Push
<1> QED
  BY <1>1, <1>2, <1>3, <1>4, <1>5, <1>6, <1>7, <1>8, <1>9, <1>10, Stutter
     DEF Next, OpenStep, CallStep, StopperStep, OwnerStep

\* What the registry does is what the core promises its process: nothing enters a
\* core that stops, it is stopped once, and its report covers every handle shown
\* and every open awaited, the latter never as verified (Core::shutdown).
THEOREM RegistryKeepsContract == Spec => ImplementsContract
  BY PendingInvAlways, ContractInit, ContractStep, PTL
     DEF Spec, ImplementsContract, Contract!Spec

-----------------------------------------------------------------------------
(* The limit on handles.                                                   *)

\* The handles of S that profile p has.
OfProfile(S, p) == {h \in S : profileOf[h] = p}

\* The handles of a behaviour can be counted.
LEMMA CountIsFinite ==
  ASSUME NEW S \in SUBSET Handle
  PROVE  IsFiniteSet(S) /\ Cardinality(S) \in Nat
<1>1. IsFiniteSet(Handle)
  BY ConstantsAssumption, FS_Interval DEF Handle
<1> QED
  BY <1>1, FS_Subset, FS_CardinalityType

\* One handle more is at most one more in number.
LEMMA CountGrowsByOne ==
  ASSUME NEW S \in SUBSET Handle, NEW T \in SUBSET Handle, NEW h, T \subseteq S \cup {h}
  PROVE  Cardinality(T) <= Cardinality(S) + 1
<1>1. IsFiniteSet(S) /\ Cardinality(S) \in Nat /\ Cardinality(T) \in Nat
  BY CountIsFinite
<1>2. /\ IsFiniteSet(S \cup {h})
      /\ Cardinality(S \cup {h}) = IF h \in S THEN Cardinality(S) ELSE Cardinality(S) + 1
  BY <1>1, FS_AddElement
<1>3. Cardinality(T) <= Cardinality(S \cup {h})
  BY <1>2, FS_Subset
<1> QED
  BY <1>1, <1>2, <1>3

\* Fewer handles are no more in number.
LEMMA CountShrinks ==
  ASSUME NEW S \in SUBSET Handle, NEW T \in SUBSET S
  PROVE  Cardinality(T) <= Cardinality(S)
  BY CountIsFinite, FS_Subset

\* An open is reserved only below the limit, and a publication trades its reservation for
\* an entry.
LEMMA LimitStep ==
  ASSUME IndInv, PendingInv, HandleLimitHolds, [Next]_vars
  PROVE  HandleLimitHolds'
<1> USE DEF vars, registryVars, lifeVars, keyVars
<1>0. /\ handles \in SUBSET Handle /\ pending \in SUBSET Handle
      /\ profileOf \in [Handle -> Profiles]
  BY DEF IndInv, TypeInv, TypeOK, RegistryTypes
<1>1. CASE UNCHANGED <<handles, pending, profileOf>>
  BY <1>1 DEF HandleLimitHolds, OpenCount
<1>2. ASSUME NEW q \in Profiles, ReserveOpen(q), NEW p \in Profiles
      PROVE  OpenCount(p)' <= MaxHandles[p]
  <2> DEFINE n == nextHandle
  <2>1. /\ n \in Handle /\ openPc[n] = "unused"
        /\ handles' = handles /\ pending' = pending \cup {n}
        /\ profileOf' = [profileOf EXCEPT ![n] = q]
        /\ OpenCount(q) < MaxHandles[q]
    BY <1>2, ConstantsAssumption DEF ReserveOpen, Reserve, Handle, IndInv, TypeInv, TypeOK,
       RegistryTypes, HandleInv, HandleFacts
  <2>2. n \notin handles /\ n \notin pending
    BY <2>1 DEF IndInv, HandleInv, HandleFacts, PendingInv
  <2>3. OfProfile(handles, p)' = OfProfile(handles, p)
    BY <1>0, <2>1, <2>2 DEF OfProfile
  <2>4. OfProfile(pending, p)' \subseteq OfProfile(pending, p) \cup {n}
        /\ (p # q => OfProfile(pending, p)' = OfProfile(pending, p))
    BY <1>0, <2>1, <2>2 DEF OfProfile
  <2>5. OfProfile(pending, p)' \in SUBSET Handle /\ OfProfile(pending, p) \in SUBSET Handle
        /\ OfProfile(handles, p) \in SUBSET Handle
    BY <1>0, <2>1 DEF OfProfile
  <2>6. Cardinality(OfProfile(pending, p)') <= Cardinality(OfProfile(pending, p)) + 1
    BY <2>4, <2>5, CountGrowsByOne
  <2>7. /\ Cardinality(OfProfile(pending, p)') \in Nat
        /\ Cardinality(OfProfile(pending, p)) \in Nat
        /\ Cardinality(OfProfile(handles, p)) \in Nat
    BY <2>5, CountIsFinite
  <2>8. OpenCount(p)' = Cardinality(OfProfile(handles, p)) + Cardinality(OfProfile(pending, p)')
        /\ OpenCount(p) = Cardinality(OfProfile(handles, p)) + Cardinality(OfProfile(pending, p))
    BY <2>3 DEF OpenCount, OfProfile
  <2>9. MaxHandles[p] \in Nat
    BY ConstantsAssumption
  <2>10. CASE p = q
    BY <2>1, <2>6, <2>7, <2>8, <2>9, <2>10
  <2>11. CASE p # q
    BY <2>4, <2>8, <2>11 DEF HandleLimitHolds
  <2> QED
    BY <2>10, <2>11
<1>3. ASSUME NEW h \in Handle, PublishOpen(h) \/ FinishOpen(h), NEW p \in Profiles
      PROVE  OpenCount(p)' <= MaxHandles[p]
  <2> DEFINE H == OfProfile(handles, p)
             P == OfProfile(pending, p)
  <2>1. /\ h \in pending
        /\ handles' \in {handles, handles \cup {h}} /\ pending' = pending \ {h}
        /\ UNCHANGED profileOf
    BY <1>3 DEF PublishOpen, EnterRegistry, FinishOpen, PendingInv
  <2>2. H \in SUBSET Handle /\ P \in SUBSET Handle /\ H' \in SUBSET Handle
        /\ P' = P \ {h} /\ H' \subseteq H \cup {h} /\ (h \notin P => H' = H)
    BY <1>0, <2>1 DEF OfProfile
  <2>3. Cardinality(H) \in Nat /\ Cardinality(P) \in Nat /\ Cardinality(H') \in Nat
        /\ IsFiniteSet(P) /\ MaxHandles[p] \in Nat
    BY <2>2, CountIsFinite, ConstantsAssumption
  <2>4. OpenCount(p)' = Cardinality(H') + Cardinality(P')
        /\ OpenCount(p) = Cardinality(H) + Cardinality(P)
    BY DEF OpenCount, OfProfile
  <2>5. OpenCount(p) <= MaxHandles[p]
    BY DEF HandleLimitHolds
  <2> HIDE DEF H, P
  <2>6. CASE h \in P
    <3>1. Cardinality(P') = Cardinality(P) - 1
      BY <2>2, <2>3, <2>6, FS_RemoveElement
    <3>2. Cardinality(H') <= Cardinality(H) + 1
      BY <2>2, CountGrowsByOne
    <3> QED
      BY <2>3, <2>4, <2>5, <3>1, <3>2
  <2>7. CASE h \notin P
    <3>1. H' = H /\ P' = P
      BY <2>2, <2>7
    <3> QED
      BY <2>4, <2>5, <3>1
  <2> QED
    BY <2>6, <2>7
<1>4. ASSUME ~\E p \in Profiles : ReserveOpen(p),
             ~\E h \in Handle : PublishOpen(h) \/ FinishOpen(h)
      PROVE  UNCHANGED <<handles, pending, profileOf>>
  <2> USE <1>4 DEF registryVars, entryVars
  <2>1. ASSUME NEW h \in Handle, OpenStep(h) \/ WorkerStep(h)
        PROVE  UNCHANGED <<handles, pending, profileOf>>
    BY <2>1 DEF OpenStep, Connect, FailOpen, SpawnWorker, StopLateOpen, WorkerStep, Receive,
       RefuseOperation, StartOperation, RunOperation, PublishOutcome, ReplyOperation, Reply,
       ReleaseAdmission, Release, RollbackAndDispose, PublishClosed, ReplyShutdown, ExitWorker
  <2>2. ASSUME NEW r \in Requests,
               \/ \E h \in Handle, k \in Kind : LookUp(r, h, k) \/ LookUpUnknown(r, h, k)
               \/ CallStep(r) \/ DropCall(r)
        PROVE  UNCHANGED <<handles, pending, profileOf>>
    BY <2>2 DEF LookUp, LookUpUnknown, CallStep, RefuseAdmission, AdmitClosed, Admit, Enqueue,
       ReplyDropped, DropCall
  <2>3. ASSUME NEW s \in Stoppers, CallShutdown(s) \/ StopperStep(s) \/ FreezeReport(s)
        PROVE  UNCHANGED <<handles, pending, profileOf>>
    BY <2>3 DEF CallShutdown, StopperStep, BeginShutdown, AwaitReport, CollectReport, Collect,
       FreezeReport, Finish
  <2>4. ASSUME \/ SignalStop \/ SkipExpired \/ Inspect \/ JoinClosed \/ SendShutdown
               \/ SendTimeout \/ TakeReply \/ GiveUpReply \/ WaitForOpen \/ DeadlinePasses
               \/ UNCHANGED vars
        PROVE  UNCHANGED <<handles, pending, profileOf>>
    BY <2>4 DEF SignalStop, SkipExpired, Inspect, JoinClosed, SendShutdown, SendToOpen,
       SendToClosed, SendTimeout, TakeReply, Conclude, GiveUpReply, WaitForOpen, AwaitOpen,
       DeadlinePasses, Push
  <2> QED
    BY <2>1, <2>2, <2>3, <2>4 DEF Next, OwnerStep
<1> QED
  BY <1>1, <1>2, <1>3, <1>4 DEF HandleLimitHolds

\* Before the first open there is nothing to count.
LEMMA LimitInit == Init => HandleLimitHolds
<1> SUFFICES ASSUME Init, NEW p \in Profiles PROVE OpenCount(p) <= MaxHandles[p]
  BY DEF HandleLimitHolds
<1>1. OpenCount(p) = Cardinality({}) + Cardinality({})
  BY DEF Init, OpenCount
<1> QED
  BY <1>1, FS_EmptySet, ConstantsAssumption

\* However opens, failures and publications interleave, a profile never has more
\* handles and reservations than it may (reserve_open).
THEOREM LimitHolds == Spec => []HandleLimitHolds
<1>1. IndInv /\ PendingInv /\ HandleLimitHolds /\ [Next]_vars => HandleLimitHolds'
  BY LimitStep
<1> QED
  BY LimitInit, PendingInvAlways, <1>1, PTL DEF Spec

=============================================================================
