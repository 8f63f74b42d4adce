------------------------- MODULE ServerProcessProofs -------------------------
(***************************************************************************)
(* Theorems about ServerProcess, for every configuration, every number of  *)
(* processes and opens, and every set of process ids.                      *)
(***************************************************************************)
EXTENDS ServerProcess, FiniteSetTheorems, WellFoundedInduction, TLAPS

-----------------------------------------------------------------------------
(* The limits of a profile.                                                *)

\* A set of limits within a range has a largest one.
LEMMA MaxOfLimits ==
  ASSUME NEW f \in Field, NEW S \in SUBSET Allowed[f], S # {}
  PROVE  Max(S) \in S /\ \A x \in S : x <= Max(S)
<1> DEFINE R == OpToRel(<, Nat)
<1>1. S \subseteq Nat
  BY ConfigAssumption
<1>2. PICK top \in Nat : \A x \in S : x <= top
  BY ConfigAssumption
<1> DEFINE Distances == {top - x : x \in S}
<1>3. Distances \subseteq Nat /\ Distances # {}
  BY <1>1, <1>2
<1>4. PICK d \in Distances : \A e \in Distances : ~(<<e, d>> \in R)
  BY <1>3, WFMin, NatLessThanWellFounded
<1>5. PICK m \in S : d = top - m
  BY <1>4
<1>6. \A x \in S : ~(top - x < top - m)
  BY <1>3, <1>4, <1>5 DEF OpToRel
<1>7. \A x \in S : m >= x
  BY <1>1, <1>2, <1>6
<1> HIDE DEF R, Distances
<1>8. Max(S) \in S /\ \A x \in S : Max(S) >= x
  BY <1>7 DEF Max
<1> QED
  BY <1>1, <1>8

\* A loaded file has a total within the range, and no profile that can be used
\* asks for more.
LEMMA TotalCovers ==
  ASSUME NEW document, ValidateFile(document)
  PROVE  /\ ShutdownTotal(document) \in Allowed["shutdown_total"]
         /\ \A p \in DOMAIN document.profiles :
              InRange(ProfileConfigOf(document, p)) =>
                ProfileConfigOf(document, p)["shutdown_total"] <= ShutdownTotal(document)
<1> DEFINE usable == {p \in DOMAIN document.profiles : InRange(ProfileConfigOf(document, p))}
           totals == {ProfileConfigOf(document, p)["shutdown_total"] : p \in usable}
<1>1. "shutdown_total" \in Field
  BY DEF Field
<1>2. totals \in SUBSET Allowed["shutdown_total"]
  BY <1>1 DEF InRange
<1>3. CASE usable = {}
  BY <1>1, <1>3 DEF ShutdownTotal, ValidateFile, InRange
<1>4. CASE usable # {}
  <2>1. ShutdownTotal(document) = Max(totals)
    BY <1>4 DEF ShutdownTotal
  <2>2. totals # {}
    BY <1>4
  <2>3. Max(totals) \in totals /\ \A x \in totals : x <= Max(totals)
    BY <1>1, <1>2, <2>2, MaxOfLimits
  <2> QED
    BY <1>2, <2>1, <2>3
<1> QED
  BY <1>3, <1>4

-----------------------------------------------------------------------------
(* The types.                                                              *)

\* One value of a function is replaced by another of its range.
LEMMA ExceptType ==
  ASSUME NEW D, NEW R, NEW f \in [D -> R], NEW d, NEW v, d \in D => v \in R
  PROVE  [f EXCEPT ![d] = v] \in [D -> R]
OBVIOUS

\* Opens whose output file has been named.
Named == {o \in Open : dsnPc[o] \notin {"none", "create", "gone"}}

\* The counter of output files is the number of names taken by this process, and
\* so never runs out of the bound.
CounterInv == counter = Cardinality(Named)

\* The opens of a behaviour can be counted.
LEMMA OpenFinite == IsFiniteSet(Open) /\ Cardinality(Open) = MaxOpens
  BY DsnAssumption, FS_Interval DEF Open

\* An open that is about to create its file finds the counter within bounds.
LEMMA NameInRange ==
  ASSUME DsnTypes, CounterInv, NEW o \in Open, dsnPc[o] = "create"
  PROVE  /\ <<pid, counter>> \in Name
         /\ counter + 1 \in 0..MaxOpens
         /\ IsFiniteSet(Named) /\ o \notin Named
         /\ Cardinality(Named \cup {o}) = counter + 1
<1>1. Named \cup {o} \subseteq Open /\ o \notin Named
  BY DEF Named
<1>2. IsFiniteSet(Named) /\ Named \subseteq Open
  BY <1>1, OpenFinite, FS_Subset
<1>3. Cardinality(Named \cup {o}) = counter + 1
  BY <1>1, <1>2, FS_AddElement DEF CounterInv
<1>4. Cardinality(Named \cup {o}) <= MaxOpens
  BY <1>1, OpenFinite, FS_Subset
<1>5. counter \in Nat /\ pid \in Pids /\ MaxOpens \in Nat
  BY DsnAssumption DEF DsnTypes
<1> QED
  BY <1>1, <1>2, <1>3, <1>4, <1>5 DEF Name

\* The opens of the next process are numbered within bounds.
LEMMA BootsBound ==
  ASSUME boot \in 1..MaxBoots, boot < MaxBoots
  PROVE  boot * OpensEach + 1 \in 1..MaxOpens + 1
<1>1. MaxBoots \in Nat /\ OpensEach \in Nat /\ MaxOpens = MaxBoots * OpensEach
  BY ProcessAssumption
<1>2. PICK d \in Nat : MaxBoots = boot + d
  BY <1>1
<1>3. MaxBoots * OpensEach = boot * OpensEach + d * OpensEach
  BY <1>1, <1>2
<1>4. d * OpensEach \in Nat /\ boot * OpensEach \in Nat
  BY <1>1, <1>2
<1> QED
  BY <1>1, <1>3, <1>4

-----------------------------------------------------------------------------
(* The invariant.                                                          *)

\* From the creation of its output file to its return an open owns that file.
Writing == {"spawn", "poll", "terminate", "reap"}

\* A file belongs to the open that writes it or to one of a process that is gone,
\* and so does a running command.
DsnInv ==
  /\ CounterInv
  /\ \A o \in Open :
       /\ dsnPc[o] \in Writing => files[path[o]] = o
       /\ command[o] = "running" => dsnPc[o] \in {"poll", "terminate", "reap", "gone"}
       /\ \A n \in Name : files[n] = o =>
            dsnPc[o] = "gone" \/ (dsnPc[o] \in Writing /\ n = path[o])
  /\ DsnIsOwnOutput

\* Opens are numbered over all processes; one that resolves its DSN is pending in
\* the core of this process, for a profile that passed the checks.
OpenInv ==
  /\ nextOpen <= boot * OpensEach + 1
  /\ \A o \in Open :
       /\ o >= nextOpen => dsnPc[o] = "none"
       /\ dsnPc[o] \in Resolving => o \in pending
       /\ o \in pending \cup handles =>
            profileOf[o] \in DOMAIN file.profiles
              /\ InRange(ProfileConfigOf(file, profileOf[o]))

\* A stopped core reported what it had; a serve task that returned without a
\* failure saw nothing uncertain; only such a process exits 0 once it served.
ExitInv ==
  /\ lifecycle = "Stopped" => handles \subseteq reported /\ pending \subseteq uncertain
  /\ result = "ok" =>
       servePc = "finished" /\ lifecycle = "Stopped" /\ uncertain = {} /\ ~primary
  /\ code = "0" => mainPc = "exited" /\ (servePc = "none" \/ result = "ok")
  /\ mainPc = "start" => servePc = "none"
  /\ servePc = "none" => \A o \in Open : dsnPc[o] \in {"none", "gone"}

GraceInv == Up => ValidateFile(file) /\ grace = ShutdownTotal(file)

IndInv == TypeOK /\ DsnInv /\ OpenInv /\ ExitInv /\ GraceInv

\* There is a file name.
LEMMA SomeName == (CHOOSE n \in Name : TRUE) \in Name
<1>1. PICK m \in Pids : TRUE
  BY DsnAssumption
<1>2. <<m, 0>> \in Name
  BY DsnAssumption DEF Name
<1> QED
  BY <1>2

\* The invariant holds before the first process starts.
LEMMA InitInv == Init => IndInv
<1> SUFFICES ASSUME Init PROVE IndInv
  OBVIOUS
<1> USE DEF Init, DsnInit, ProcessInit, Core!Init
<1>2. (CHOOSE n \in Name : TRUE) \in Name /\ (CHOOSE p \in Profiles : TRUE) \in Profiles
  <2>1. (CHOOSE p \in Profiles : TRUE) \in Profiles
    BY ConfigAssumption
  <2> QED
    BY <2>1, SomeName
<1>3. DsnTypes
  <2>1. counter \in 0..MaxOpens
    BY DsnAssumption
  <2>2. path \in [Open -> Name]
    BY <1>2
  <2> QED
    BY <2>1, <2>2 DEF DsnTypes, DsnPc, CommandState
<1>4. TypeOK
  <2>1. boot \in 1..MaxBoots /\ nextOpen \in 1..MaxOpens + 1
    BY ProcessAssumption, DsnAssumption
  <2>2. profileOf \in [Open -> Profiles]
    BY <1>2
  <2> QED
    BY <1>3, <2>1, <2>2 DEF TypeOK, MainPc, ServePc, Code
<1>5. DsnInv
  <2>1. Named = {}
    BY DEF Named
  <2>2. CounterInv
    BY <2>1, FS_EmptySet DEF CounterInv
  <2> QED
    BY <2>2, DsnAssumption DEF DsnInv, DsnIsOwnOutput, Writing, Open
<1>6. OpenInv
  BY ProcessAssumption DEF OpenInv, Resolving
<1>7. ExitInv /\ GraceInv
  BY DEF ExitInv, GraceInv, Up
<1> QED
  BY <1>4, <1>5, <1>6, <1>7 DEF IndInv

-----------------------------------------------------------------------------
(* One lemma for each part of the invariant.                               *)

\* Each step of an open, its command or the end of its process keeps their types.
LEMMA DsnTypesStep ==
  ASSUME DsnTypes, NEW o \in Open
  PROVE  /\ CounterInv /\ ResolveStep(o) => DsnTypes'
         /\ Interrupt(o) \/ CommandExits(o) \/ LoseResolvers => DsnTypes'
<1> USE DEF DsnTypes, DsnPc, CommandState, Exited
<1>1. ASSUME CounterInv, CreateOutput(o) PROVE DsnTypes'
  <2>1. <<pid, counter>> \in Name /\ counter + 1 \in 0..MaxOpens
    BY <1>1, NameInRange DEF CreateOutput, Create
  <2>2. counter' \in 0..MaxOpens /\ UNCHANGED <<pid, command, readFrom>>
    BY <1>1, <2>1 DEF CreateOutput, Create
  <2>3. path' \in [Open -> Name] /\ files' \in [Name -> Open \cup {NoOpen}]
    BY <1>1, <2>1 DEF CreateOutput, Create
  <2>4. dsnPc' \in [Open -> DsnPc] /\ interrupted' \in [Open -> BOOLEAN]
        /\ dsnResult' \in [Open -> {"none", "dsn", "failed", "timeout"}]
    BY <1>1 DEF CreateOutput, Create
  <2> QED
    BY <2>2, <2>3, <2>4
<1>2. CASE SpawnCommand(o)
  BY <1>2 DEF SpawnCommand, Resolved
<1>3. CASE StopPolling(o)
  BY <1>3 DEF StopPolling
<1>4. CASE ReadOutput(o)
  <2> DEFINE owner == files[path[o]]
  <2>1. CASE command[o] \in {"failed", "killed"}
    BY <1>4, <2>1 DEF ReadOutput, Resolved
  <2>2. CASE command[o] \in {"printed", "useless"}
    <3>1. owner \in Open /\ readFrom' = [readFrom EXCEPT ![o] = owner]
      BY <1>4, <2>2 DEF ReadOutput
    <3>2. readFrom' \in [Open -> Open \cup {NoOpen}]
      BY <3>1
    <3>3. \E r \in {"dsn", "failed"} : Resolved(o, r)
      BY <1>4, <2>2 DEF ReadOutput
    <3>4. UNCHANGED <<pid, counter, path, command>>
      BY <1>4 DEF ReadOutput
    <3> QED
      BY <3>2, <3>3, <3>4 DEF Resolved
  <2> QED
    BY <1>4, <2>1, <2>2 DEF ReadOutput
<1>5. CASE Terminate(o)
  BY <1>5 DEF Terminate
<1>6. CASE Reap(o)
  BY <1>6 DEF Reap, Resolved
<1>7. CASE Interrupt(o)
  BY <1>7 DEF Interrupt
<1>8. CASE CommandExits(o)
  BY <1>8 DEF CommandExits
<1>9. CASE LoseResolvers
  <2>1. counter' \in 0..MaxOpens
    BY <1>9, DsnAssumption DEF LoseResolvers
  <2> QED
    BY <1>9, <2>1, SomeName DEF LoseResolvers
<1> QED
  BY <1>1, <1>2, <1>3, <1>4, <1>5, <1>6, <1>7, <1>8, <1>9 DEF ResolveStep

\* Each step keeps the types.
LEMMA TypeStep == IndInv /\ [Next]_vars => TypeOK'
<1> SUFFICES ASSUME IndInv, [Next]_vars PROVE TypeOK'
  OBVIOUS
<1> USE DEF IndInv, vars, mainVars, sigVars, serveVars, coreVars, openVars, outsideCore
<1>a. UNCHANGED dsnVars => DsnTypes'
  BY DEF TypeOK, dsnVars, DsnTypes
<1>1. CASE Start
  <2>1. grace' \in Allowed["shutdown_total"]
    BY <1>1, TotalCovers DEF Start, Loads
  <2> QED
    BY <1>1, <1>a, <2>1 DEF Start, TypeOK, MainPc, ServePc
<1>2. CASE SelectServe \/ SelectSignal \/ GraceServe \/ StopMonitor
  <2>1. mainPc' \in MainPc /\ monitorStop' \in BOOLEAN
    BY <1>2 DEF SelectServe, SelectSignal, GraceServe, StopMonitor, MainStep, TypeOK, MainPc
  <2>2. UNCHANGED <<dsnVars, boot, file, code, grace, serveVars, coreVars, openVars,
                    sigint, token, monitor>>
    BY <1>2 DEF SelectServe, SelectSignal, GraceServe, StopMonitor, MainStep
  <2> QED
    BY <1>a, <2>1, <2>2 DEF TypeOK
<1>3. CASE ForceExit \/ ReturnCode \/ Killed
  BY <1>3, <1>a DEF ForceExit, ReturnCode, Killed, Exit, TypeOK, MainPc, Code
<1>4. CASE RefuseArguments \/ PrintAndExit \/ RefuseConfiguration \/ FailSignalSetup
  BY <1>4, <1>a DEF RefuseArguments, PrintAndExit, RefuseConfiguration, FailSignalSetup,
     EndStart, Exit, TypeOK, MainPc, Code
<1>5. CASE Monitor
  <2>1. token' \in BOOLEAN /\ monitor' \in {"none", "polling", "returned"}
    BY <1>5 DEF Monitor, TypeOK
  <2>2. UNCHANGED <<dsnVars, mainVars, sigint, monitorStop, serveVars, coreVars, openVars>>
    BY <1>5 DEF Monitor
  <2> QED
    BY <1>a, <2>1, <2>2 DEF TypeOK
<1>15. CASE Sigint
  <2>1. sigint' \in BOOLEAN
    BY <1>15 DEF Sigint
  <2>2. UNCHANGED <<dsnVars, mainVars, token, monitor, monitorStop, serveVars, coreVars,
                    openVars>>
    BY <1>15 DEF Sigint
  <2> QED
    BY <1>a, <2>1, <2>2 DEF TypeOK
<1>6. CASE Restart
  <2>1. boot' \in 1..MaxBoots /\ nextOpen' \in 1..MaxOpens + 1
    BY <1>6, BootsBound, ProcessAssumption DEF Restart, TypeOK
  <2>2. PICK o \in Open : TRUE
    BY DsnAssumption DEF Open
  <2>3. DsnTypes'
    BY <1>6, <2>2, DsnTypesStep DEF Restart, TypeOK
  <2> QED
    BY <1>6, <2>1, <2>3 DEF Restart, TypeOK, MainPc, ServePc, Code
<1>7. CASE CoreReady \/ CoreFails \/ Initialized \/ ServeReturns \/ ServePanics
  BY <1>7, <1>a DEF CoreReady, CoreFails, Initialized, ServeReturns, ServePanics,
     ServeStep, TypeOK, ServePc
<1>8. CASE StopServing
  <2>1. servePc' \in ServePc /\ primary' \in BOOLEAN
    BY <1>8 DEF StopServing, ServeStep, TypeOK, ServePc
  <2>2. UNCHANGED <<dsnVars, boot, file, mainPc, code, grace, sigVars, coreVars, openVars,
                    result>>
    BY <1>8 DEF StopServing, ServeStep
  <2> QED
    BY <1>a, <2>1, <2>2 DEF TypeOK
<1>9. CASE StopCore
  <2>1. DsnTypes'
    BY <1>9 DEF StopCore, TypeOK, DsnTypes
  <2> QED
    BY <1>9, <2>1 DEF StopCore, Core!Stop, TypeOK
<1>10. CASE FreezeReport \/ WedgeCore
  BY <1>10, <1>a DEF FreezeReport, WedgeCore, Core!Freeze, Core!Wedge, TypeOK
<1>11. ASSUME NEW o \in Open, NEW p \in Profiles, ReserveOpen(o, p) PROVE TypeOK'
  <2>1. DsnTypes'
    BY <1>11 DEF ReserveOpen, TypeOK, DsnTypes, DsnPc
  <2>2. nextOpen' \in 1..MaxOpens + 1
    BY <1>11, DsnAssumption DEF ReserveOpen, TypeOK, Open
  <2>3. profileOf' \in [Open -> Profiles]
    BY <1>11 DEF ReserveOpen, TypeOK
  <2>4. pending' \cup handles' \cup reported' \cup uncertain' \subseteq Open
    BY <1>11 DEF ReserveOpen, Core!Reserve, TypeOK
  <2> QED
    BY <1>11, <2>1, <2>2, <2>3, <2>4 DEF ReserveOpen, Core!Reserve, TypeOK
<1>12. ASSUME NEW o \in Open, EnterOpen(o) \/ AbandonOpen(o) PROVE TypeOK'
  BY <1>12, <1>a DEF EnterOpen, AbandonOpen, Core!Enter, Core!Abandon, TypeOK
<1>13. ASSUME NEW o \in Open, ResolveDsn(o) \/ InterruptOpen(o) \/ CommandEnds(o)
       PROVE  TypeOK'
  <2>1. DsnTypes'
    BY <1>13, DsnTypesStep DEF ResolveDsn, InterruptOpen, CommandEnds, TypeOK, DsnInv
  <2> QED
    BY <1>13, <2>1 DEF ResolveDsn, InterruptOpen, CommandEnds, TypeOK
<1>14. CASE UNCHANGED vars
  BY <1>14, <1>a DEF TypeOK
<1> QED
  BY <1>1, <1>2, <1>3, <1>4, <1>5, <1>6, <1>7, <1>8, <1>9, <1>10, <1>11, <1>12,
     <1>13, <1>14, <1>15 DEF Next, MainNext, ServeNext, OpenNext

\* What DsnInv says of the open o.
FileInv(o) ==
  /\ dsnPc[o] \in Writing => files[path[o]] = o
  /\ command[o] = "running" => dsnPc[o] \in {"poll", "terminate", "reap", "gone"}
  /\ \A n \in Name : files[n] = o =>
       dsnPc[o] = "gone" \/ (dsnPc[o] \in Writing /\ n = path[o])
  /\ readFrom[o] \in {o, NoOpen}

\* The invariant of DSN commands, open by open.
LEMMA DsnInvParts == DsnInv <=> CounterInv /\ \A o \in Open : FileInv(o)
  BY DEF DsnInv, DsnIsOwnOutput, FileInv

\* An open that returns removes its own file and nobody else's.
LEMMA ResolvedKeeps ==
  ASSUME DsnTypes, DsnInv, NEW o \in Open, NEW r, Resolved(o, r),
         dsnPc[o] \in Writing, command'[o] # "running", readFrom'[o] \in {o, NoOpen},
         \A x \in Open \ {o} : command'[x] = command[x] /\ readFrom'[x] = readFrom[x],
         UNCHANGED <<pid, counter, path>>
  PROVE  DsnInv'
<1> USE DEF Writing
<1>1. files[path[o]] = o /\ path[o] \in Name
  BY DEF DsnInv, DsnTypes
<1>2. Named' = Named
  BY DEF Resolved, Named, DsnTypes
<1>3. CounterInv'
  BY <1>2 DEF DsnInv, CounterInv
<1>4. ASSUME NEW x \in Open PROVE FileInv(x)'
  <2>1. FileInv(x)
    BY DsnInvParts
  <2>2. NoOpen \notin Open
    BY DsnAssumption DEF Open
  <2>3. CASE x = o
    BY <1>1, <2>1, <2>2, <2>3 DEF FileInv, Resolved, DsnTypes
  <2>4. CASE x # o
    <3>1. dsnPc'[x] = dsnPc[x] /\ path'[x] = path[x] /\ command'[x] = command[x]
          /\ readFrom'[x] = readFrom[x]
      BY <2>4 DEF Resolved, DsnTypes
    <3>2. \A n \in Name : files'[n] = x <=> files[n] = x
      BY <1>1, <2>2, <2>4 DEF Resolved, DsnTypes
    <3>3. path[x] \in Name
      BY DEF DsnTypes
    <3> QED
      BY <2>1, <3>1, <3>2, <3>3 DEF FileInv
  <2> QED
    BY <2>3, <2>4
<1> QED
  BY <1>3, <1>4 DEF DsnInv, DsnIsOwnOutput, FileInv

\* Steps between the creation of the file and the return.
LEMMA PollingKeeps ==
  ASSUME DsnTypes, DsnInv, NEW o \in Open,
         SpawnCommand(o) \/ StopPolling(o) \/ ReadOutput(o) \/ Terminate(o) \/ Reap(o)
  PROVE  DsnInv'
<1>1. CASE SpawnCommand(o)
  <2>1. CASE Resolved(o, "failed") /\ UNCHANGED command
    BY <1>1, <2>1, ResolvedKeeps DEF SpawnCommand, DsnInv, DsnIsOwnOutput, Writing
  <2>2. CASE /\ command' = [command EXCEPT ![o] = "running"]
             /\ dsnPc' = [dsnPc EXCEPT ![o] = "poll"]
             /\ UNCHANGED files
    <3>1. Named' = Named /\ UNCHANGED <<counter, path, readFrom>>
      BY <1>1, <2>2 DEF SpawnCommand, Named, DsnTypes
    <3> QED
      BY <1>1, <2>2, <3>1 DEF SpawnCommand, DsnInv, CounterInv, DsnIsOwnOutput, DsnTypes, Writing
  <2> QED
    BY <1>1, <2>1, <2>2 DEF SpawnCommand
<1>2. CASE StopPolling(o) \/ Terminate(o)
  <2>1. Named' = Named
    BY <1>2 DEF StopPolling, Terminate, Named, DsnTypes
  <2> QED
    BY <1>2, <2>1 DEF StopPolling, Terminate, DsnInv, CounterInv, DsnIsOwnOutput, DsnTypes,
       Writing
<1>3. CASE ReadOutput(o)
  <2>1. files[path[o]] = o /\ dsnPc[o] \in Writing /\ command[o] # "running"
    BY <1>3 DEF ReadOutput, DsnInv, Writing, Exited
  <2>2. PICK r : Resolved(o, r)
    BY <1>3 DEF ReadOutput
  <2>3. UNCHANGED <<pid, counter, path, command>>
    BY <1>3 DEF ReadOutput
  <2>4. readFrom' \in {readFrom, [readFrom EXCEPT ![o] = o]}
    BY <1>3, <2>1 DEF ReadOutput
  <2>5. /\ readFrom'[o] \in {o, NoOpen}
        /\ \A x \in Open \ {o} : readFrom'[x] = readFrom[x]
    BY <2>4 DEF DsnTypes, DsnInv, DsnIsOwnOutput
  <2> QED
    BY <2>1, <2>2, <2>3, <2>5, ResolvedKeeps
<1>4. CASE Reap(o)
  <2>1. Resolved(o, dsnResult[o]) /\ dsnPc[o] \in Writing /\ command[o] # "running"
        /\ UNCHANGED <<pid, counter, path, command, readFrom>>
    BY <1>4 DEF Reap, Writing
  <2>2. readFrom[o] \in {o, NoOpen}
    BY DEF DsnInv, DsnIsOwnOutput
  <2> QED
    BY <2>1, <2>2, ResolvedKeeps
<1> QED
  BY <1>1, <1>2, <1>3, <1>4

\* create_new takes no name that is in use.
LEMMA CreateKeeps ==
  ASSUME DsnTypes, DsnInv, NEW o \in Open, CreateOutput(o)
  PROVE  DsnInv'
<1> USE DEF Writing
<1> DEFINE name == <<pid, counter>>
<1>1. dsnPc[o] = "create" /\ CounterInv
  BY DEF CreateOutput, Create, DsnInv
<1>2. name \in Name /\ o \notin Named /\ Cardinality(Named \cup {o}) = counter + 1
  BY <1>1, NameInRange
<1>3. UNCHANGED <<command, readFrom>> /\ counter' = counter + 1
  BY DEF CreateOutput, Create
<1>4. dsnPc'[o] \in {"spawn", "finished"} /\ \A x \in Open \ {o} : dsnPc'[x] = dsnPc[x]
  BY DEF CreateOutput, Create, DsnTypes
<1>5. Named' = Named \cup {o}
  BY <1>4 DEF Named
<1>6. CounterInv'
  BY <1>2, <1>3, <1>5 DEF CounterInv
<1>7. ASSUME NEW x \in Open PROVE FileInv(x)'
  <2>1. FileInv(x) /\ NoOpen \notin Open
    BY DsnInvParts, DsnAssumption DEF Open
  <2>2. CASE dsnPc' = [dsnPc EXCEPT ![o] = "finished"] /\ UNCHANGED <<path, files>>
    BY <1>1, <1>3, <2>1, <2>2 DEF FileInv, DsnTypes
  <2>3. CASE /\ files[name] = NoOpen
             /\ path' = [path EXCEPT ![o] = name]
             /\ files' = [files EXCEPT ![name] = IF @ = NoOpen THEN o ELSE @]
             /\ dsnPc' = [dsnPc EXCEPT ![o] = "spawn"]
    <3>1. CASE x = o
      BY <1>1, <1>2, <1>3, <2>1, <2>3, <3>1 DEF FileInv, DsnTypes
    <3>2. CASE x # o
      <4>1. dsnPc'[x] = dsnPc[x] /\ path'[x] = path[x] /\ path[x] \in Name
        BY <2>3, <3>2 DEF DsnTypes
      <4>2. \A n \in Name : files'[n] = x <=> files[n] = x
        BY <1>2, <2>1, <2>3, <3>2 DEF DsnTypes
      <4> QED
        BY <1>3, <2>1, <4>1, <4>2 DEF FileInv
    <3> QED
      BY <3>1, <3>2
  <2> QED
    BY <2>2, <2>3 DEF CreateOutput, Create
<1> QED
  BY <1>6, <1>7 DEF DsnInv, DsnIsOwnOutput, FileInv

\* Each step keeps what holds of output files and commands.
LEMMA DsnStep == IndInv /\ [Next]_vars => DsnInv'
<1> SUFFICES ASSUME IndInv, [Next]_vars PROVE DsnInv'
  OBVIOUS
<1> USE DEF IndInv
<1>0. DsnTypes /\ DsnInv
  BY DEF TypeOK
<1>1. CASE UNCHANGED <<counter, files, path, dsnPc, command, readFrom>>
  <2>1. Named' = Named
    BY <1>1 DEF Named
  <2> QED
    BY <1>1, <2>1 DEF DsnInv, CounterInv, DsnIsOwnOutput
<1>2. ASSUME NEW o \in Open, ResolveDsn(o) PROVE DsnInv'
  BY <1>0, <1>2, PollingKeeps, CreateKeeps DEF ResolveDsn, ResolveStep
<1>3. ASSUME NEW o \in Open, CommandEnds(o) PROVE DsnInv'
  <2>1. Named' = Named
    BY <1>3 DEF CommandEnds, CommandExits, Named
  <2> QED
    BY <1>0, <1>3, <2>1 DEF CommandEnds, CommandExits, DsnInv, CounterInv, DsnIsOwnOutput,
       DsnTypes
<1>4. ASSUME NEW o \in Open, NEW p \in Profiles, ReserveOpen(o, p) PROVE DsnInv'
  <2>1. dsnPc[o] = "none" /\ dsnPc' = [dsnPc EXCEPT ![o] = "create"]
        /\ UNCHANGED <<counter, files, path, command, readFrom>>
    BY <1>4 DEF ReserveOpen, OpenInv, TypeOK, Open
  <2>2. Named' = Named
    BY <1>0, <2>1 DEF Named, DsnTypes
  <2> QED
    BY <1>0, <2>1, <2>2 DEF DsnInv, CounterInv, DsnIsOwnOutput, DsnTypes, Writing
<1>5. CASE Restart
  <2>1. LoseResolvers
    BY <1>5 DEF Restart
  <2>2. Named' = {} /\ counter' = 0
    BY <2>1 DEF LoseResolvers, Named
  <2>3. CounterInv'
    BY <2>2, FS_EmptySet DEF CounterInv
  <2> QED
    BY <1>0, <2>1, <2>3 DEF LoseResolvers, DsnInv, DsnIsOwnOutput, DsnTypes, Writing
<1>6. CASE StopCore \/ \E o \in Open : InterruptOpen(o)
  BY <1>1, <1>6 DEF StopCore, InterruptOpen, Interrupt
<1>7. CASE MainNext \/ RefuseArguments \/ PrintAndExit \/ RefuseConfiguration
             \/ FailSignalSetup \/ Killed
  BY <1>1, <1>7 DEF MainNext, Start, SelectServe, SelectSignal, GraceServe, ForceExit,
     StopMonitor, ReturnCode, MainStep, RefuseArguments, PrintAndExit, RefuseConfiguration,
     FailSignalSetup, EndStart, Killed, Exit, dsnVars
<1>8. CASE Monitor \/ Sigint \/ CoreReady \/ CoreFails \/ Initialized \/ StopServing
             \/ ServeReturns \/ ServePanics \/ FreezeReport \/ WedgeCore
  BY <1>1, <1>8 DEF Monitor, Sigint, CoreReady, CoreFails, Initialized, StopServing,
     ServeReturns, ServePanics, FreezeReport, WedgeCore, ServeStep, dsnVars
<1>9. CASE \E o \in Open : EnterOpen(o) \/ AbandonOpen(o)
  BY <1>1, <1>9 DEF EnterOpen, AbandonOpen, dsnVars
<1>10. CASE UNCHANGED vars
  BY <1>1, <1>10 DEF vars, dsnVars
<1> QED
  BY <1>2, <1>3, <1>4, <1>5, <1>6, <1>7, <1>8, <1>9, <1>10 DEF Next, ServeNext, OpenNext

\* Each step keeps what holds of opens and their reservations.
LEMMA OpenStep == IndInv /\ [Next]_vars => OpenInv'
<1> SUFFICES ASSUME IndInv, [Next]_vars PROVE OpenInv'
  OBVIOUS
<1> USE DEF IndInv
<1>0. DsnTypes
  BY DEF TypeOK
<1>1. CASE /\ UNCHANGED <<boot, file, nextOpen, profileOf, dsnPc>>
           /\ UNCHANGED <<pending, handles>>
  BY <1>1 DEF OpenInv
<1>2. ASSUME NEW o \in Open, ResolveDsn(o) PROVE OpenInv'
  <2>1. dsnPc[o] \in Resolving /\ \A x \in Open \ {o} : dsnPc'[x] = dsnPc[x]
    BY <1>0, <1>2 DEF ResolveDsn, ResolveStep, CreateOutput, Create, SpawnCommand,
       StopPolling, ReadOutput, Terminate, Reap, Resolved, Resolving, DsnTypes
  <2>2. UNCHANGED <<boot, file, nextOpen, profileOf, pending, handles>>
    BY <1>2 DEF ResolveDsn, outsideCore, mainVars, coreVars, openVars
  <2>3. o \in pending /\ ~(o >= nextOpen)
    BY <2>1 DEF OpenInv, Resolving
  <2> QED
    BY <2>1, <2>2, <2>3 DEF OpenInv
<1>3. ASSUME NEW o \in Open, NEW p \in Profiles, ReserveOpen(o, p) PROVE OpenInv'
  <2>1. /\ o = nextOpen /\ o <= boot * OpensEach /\ nextOpen' = nextOpen + 1
        /\ p \in DOMAIN file.profiles /\ InRange(ProfileConfigOf(file, p))
        /\ pending' = pending \cup {o}
        /\ profileOf' = [profileOf EXCEPT ![o] = p]
        /\ dsnPc' = [dsnPc EXCEPT ![o] = "create"]
        /\ UNCHANGED <<boot, file, handles>>
    BY <1>3 DEF ReserveOpen, Core!Reserve, outsideCore, mainVars
  <2>2. nextOpen' <= boot' * OpensEach + 1
    <3>1. boot * OpensEach \in Nat
      BY ProcessAssumption DEF TypeOK
    <3> QED
      BY <2>1, <3>1 DEF TypeOK
  <2>3. ASSUME NEW x \in Open
        PROVE  /\ x >= nextOpen' => dsnPc'[x] = "none"
               /\ dsnPc'[x] \in Resolving => x \in pending'
               /\ x \in pending' \cup handles' =>
                    profileOf'[x] \in DOMAIN file.profiles
                      /\ InRange(ProfileConfigOf(file, profileOf'[x]))
    BY <1>0, <2>1 DEF OpenInv, TypeOK, DsnTypes, Open
  <2> QED
    BY <2>1, <2>2, <2>3 DEF OpenInv
<1>4. ASSUME NEW o \in Open, EnterOpen(o) \/ AbandonOpen(o) PROVE OpenInv'
  BY <1>4 DEF EnterOpen, AbandonOpen, Core!Enter, Core!Abandon, OpenInv, Resolving, dsnVars,
     outsideCore, mainVars, openVars
<1>5. CASE Restart
  <2>1. /\ boot' = boot + 1 /\ nextOpen' = boot * OpensEach + 1
        /\ pending' = {} /\ handles' = {}
        /\ \A o \in Open : dsnPc'[o] = IF dsnPc[o] = "none" THEN "none" ELSE "gone"
    BY <1>5 DEF Restart, LoseResolvers
  <2>2. nextOpen <= nextOpen' /\ nextOpen' <= boot' * OpensEach + 1
    <3>1. boot \in Nat /\ OpensEach \in Nat /\ nextOpen \in Nat
      BY ProcessAssumption DEF TypeOK
    <3>2. (boot + 1) * OpensEach = boot * OpensEach + OpensEach /\ boot * OpensEach \in Nat
      BY <3>1
    <3> QED
      BY <2>1, <3>1, <3>2 DEF OpenInv
  <2>3. \A o \in Open : o >= nextOpen' => o >= nextOpen
    <3>1. nextOpen \in Nat /\ nextOpen' \in Nat /\ \A o \in Open : o \in Nat
      BY <2>1, ProcessAssumption DEF TypeOK, Open
    <3> QED
      BY <2>2, <3>1
  <2> QED
    BY <2>1, <2>2, <2>3 DEF OpenInv, Resolving
<1>6. CASE StopCore \/ \E o \in Open : InterruptOpen(o) \/ CommandEnds(o)
  BY <1>1, <1>6 DEF StopCore, Core!Stop, InterruptOpen, Interrupt, CommandEnds, CommandExits,
     outsideCore, mainVars, coreVars, openVars
<1>7. CASE MainNext \/ RefuseArguments \/ PrintAndExit \/ RefuseConfiguration
             \/ FailSignalSetup \/ Killed
  BY <1>1, <1>7 DEF MainNext, Start, SelectServe, SelectSignal, GraceServe, ForceExit,
     StopMonitor, ReturnCode, MainStep, RefuseArguments, PrintAndExit, RefuseConfiguration,
     FailSignalSetup, EndStart, Killed, Exit, dsnVars, coreVars, openVars
<1>8. CASE Monitor \/ Sigint \/ CoreReady \/ CoreFails \/ Initialized \/ StopServing
             \/ ServeReturns \/ ServePanics \/ FreezeReport \/ WedgeCore
  BY <1>1, <1>8 DEF Monitor, Sigint, CoreReady, CoreFails, Initialized, StopServing,
     ServeReturns, ServePanics, FreezeReport, WedgeCore, Core!Freeze, Core!Wedge, ServeStep,
     dsnVars, outsideCore, mainVars, coreVars, openVars
<1>9. CASE UNCHANGED vars
  BY <1>1, <1>9 DEF vars, dsnVars, mainVars, coreVars, openVars
<1> QED
  BY <1>2, <1>3, <1>4, <1>5, <1>6, <1>7, <1>8, <1>9 DEF Next, ServeNext, OpenNext

\* Each step keeps how exit code, result and report determine one another.
LEMMA ExitStep == IndInv /\ [Next]_vars => ExitInv'
<1> SUFFICES ASSUME IndInv, [Next]_vars PROVE ExitInv'
  OBVIOUS
<1> USE DEF IndInv
<1>0. DsnTypes
  BY DEF TypeOK
<1>1. CASE UNCHANGED <<lifecycle, handles, reported, pending, uncertain, result, servePc,
                       primary, code, mainPc, dsnPc>>
  BY <1>1 DEF ExitInv
<1>2. CASE Start \/ StopMonitor \/ SelectServe \/ SelectSignal \/ GraceServe
  <2>1. UNCHANGED <<dsnPc, lifecycle, handles, reported, pending, uncertain, result, primary,
                    code>>
        /\ mainPc' # "start" /\ code # "0"
        /\ servePc' \in {servePc, "core"} /\ (servePc' # servePc => servePc = "none")
    BY <1>2 DEF Start, StopMonitor, SelectServe, SelectSignal, GraceServe, MainStep, dsnVars,
       serveVars, coreVars, ExitInv
  <2> QED
    BY <2>1 DEF ExitInv
<1>3. CASE ForceExit \/ ReturnCode \/ Killed \/ RefuseArguments \/ PrintAndExit
             \/ RefuseConfiguration \/ FailSignalSetup
  BY <1>3 DEF ForceExit, ReturnCode, Killed, RefuseArguments, PrintAndExit,
     RefuseConfiguration, FailSignalSetup, EndStart, Exit, dsnVars, serveVars, coreVars,
     ExitInv
<1>4. CASE Restart
  BY <1>0, <1>4 DEF Restart, LoseResolvers, ExitInv
<1>5. CASE CoreReady \/ CoreFails \/ Initialized \/ StopServing \/ ServeReturns \/ ServePanics
  <2>1. UNCHANGED <<dsnPc, lifecycle, handles, reported, pending, uncertain, code, mainPc>>
        /\ Up /\ servePc \notin {"none", "finished"} /\ servePc' # "none"
    BY <1>5 DEF CoreReady, CoreFails, Initialized, StopServing, ServeReturns, ServePanics,
       ServeStep, dsnVars, mainVars, coreVars
  <2>2. result # "ok" /\ code # "0" /\ mainPc # "start"
    BY <2>1 DEF ExitInv, Up
  <2>3. result' = "ok" =>
          servePc' = "finished" /\ lifecycle = "Stopped" /\ uncertain = {} /\ ~primary'
    BY <1>5, <2>2 DEF CoreReady, CoreFails, Initialized, StopServing, ServeReturns,
       ServePanics, ServeStep
  <2> QED
    BY <2>1, <2>2, <2>3 DEF ExitInv
<1>6. CASE FreezeReport
  BY <1>6 DEF FreezeReport, Core!Freeze, ExitInv, Up, dsnVars, outsideCore, mainVars, serveVars
<1>7. CASE StopCore \/ WedgeCore
  BY <1>7 DEF StopCore, WedgeCore, Core!Stop, Core!Wedge, ExitInv, dsnVars, outsideCore,
     mainVars, serveVars
<1>8. ASSUME NEW o \in Open, EnterOpen(o) \/ AbandonOpen(o) PROVE ExitInv'
  BY <1>8 DEF EnterOpen, AbandonOpen, Core!Enter, Core!Abandon, ExitInv, dsnVars, outsideCore,
     mainVars, serveVars
<1>9. ASSUME NEW o \in Open, NEW p \in Profiles, ReserveOpen(o, p) PROVE ExitInv'
  BY <1>9 DEF ReserveOpen, Core!Reserve, ExitInv, outsideCore, mainVars, serveVars
<1>10. ASSUME NEW o \in Open, ResolveDsn(o) PROVE ExitInv'
  <2>1. dsnPc[o] \in Resolving
    BY <1>10 DEF ResolveDsn, ResolveStep, CreateOutput, Create, SpawnCommand,
       StopPolling, ReadOutput, Terminate, Reap, Resolving
  <2>2. servePc # "none"
    BY <2>1 DEF ExitInv, Resolving
  <2> QED
    BY <1>10, <2>2 DEF ResolveDsn, ExitInv, outsideCore, mainVars, serveVars, coreVars
<1>11. CASE \E o \in Open : InterruptOpen(o) \/ CommandEnds(o)
  BY <1>1, <1>11 DEF InterruptOpen, Interrupt, CommandEnds, CommandExits, outsideCore,
     mainVars, serveVars, coreVars
<1>12. CASE Monitor \/ Sigint \/ UNCHANGED vars
  BY <1>1, <1>12 DEF Monitor, Sigint, vars, dsnVars, mainVars, serveVars, coreVars
<1> QED
  BY <1>2, <1>3, <1>4, <1>5, <1>6, <1>7, <1>8, <1>9, <1>10, <1>11, <1>12
     DEF Next, MainNext, ServeNext, OpenNext

\* Only a start sets the wait, from the file it validated.
LEMMA GraceStep == IndInv /\ [Next]_vars => GraceInv'
<1> SUFFICES ASSUME IndInv, [Next]_vars PROVE GraceInv'
  OBVIOUS
<1> USE DEF IndInv, Up
<1>1. CASE Start
  BY <1>1 DEF Start, Loads, GraceInv
<1>2. CASE Restart
  BY <1>2 DEF Restart, GraceInv
<1>3. CASE ~(Start \/ Restart)
  <2>1. UNCHANGED <<file, grace>> /\ (mainPc' = mainPc \/ Up \/ mainPc' = "exited")
    BY <1>3 DEF Next, MainNext, ServeNext, OpenNext, SelectServe, SelectSignal,
       GraceServe, MainStep, ForceExit, StopMonitor, ReturnCode, Exit, Killed, RefuseArguments,
       PrintAndExit, RefuseConfiguration, FailSignalSetup, EndStart, Monitor, Sigint,
       CoreReady, CoreFails, Initialized, StopServing, ServeReturns, ServeStep, ServePanics,
       StopCore, FreezeReport, WedgeCore, ReserveOpen, ResolveDsn, EnterOpen, AbandonOpen,
       InterruptOpen, CommandEnds, vars, mainVars, outsideCore
  <2> QED
    BY <2>1 DEF GraceInv
<1> QED
  BY <1>1, <1>2, <1>3

\* Every step keeps the invariant.
LEMMA NextInv == IndInv /\ [Next]_vars => IndInv'
  BY TypeStep, DsnStep, OpenStep, ExitStep, GraceStep DEF IndInv

\* The invariant holds of every sequence of processes.
LEMMA Invariance == Spec => []IndInv
  BY InitInv, NextInv, PTL DEF Spec

-----------------------------------------------------------------------------
(* The theorems.                                                           *)

\* Every step of the process, its core and its commands keeps the types; the
\* counter of output files stays below the number of opens.
THEOREM TypeCorrect == Spec => []TypeOK
<1>1. IndInv => TypeOK
  BY DEF IndInv
<1> QED
  BY Invariance, <1>1, PTL

\* Exit 0 after serving means a stopped core with nothing uncertain, whatever
\* races with it (run in main.rs, serve_with_cleanup).
THEOREM ExitZeroVerified == Spec => []ExitZeroIsVerified
<1>1. IndInv => ExitZeroIsVerified
  BY DEF IndInv, ExitInv, ExitZeroIsVerified
<1> QED
  BY Invariance, <1>1, PTL

\* It also means no DSN command and no output file left by this process
\* (resolve_with_context under Core::shutdown).
THEOREM CleanExit == Spec => []CleanExitLeavesNoCommand
<1>1. ASSUME IndInv PROVE CleanExitLeavesNoCommand
  <2> SUFFICES ASSUME code = "0", NEW o \in Open, dsnPc[o] # "gone"
               PROVE  dsnPc[o] \notin Resolving /\ command[o] # "running"
                      /\ \A n \in Name : files[n] # o
    BY DEF CleanExitLeavesNoCommand
  <2>1. dsnPc[o] \notin Resolving
    BY <1>1 DEF IndInv, ExitInv, OpenInv, Resolving
  <2> QED
    BY <1>1, <2>1 DEF IndInv, DsnInv, Writing, Resolving
<1> QED
  BY Invariance, <1>1, PTL

\* Files left behind by other processes never reach an open (create_new).
THEOREM OwnOutput == Spec => []DsnIsOwnOutput
<1>1. IndInv => DsnIsOwnOutput
  BY DEF IndInv, DsnInv
<1> QED
  BY Invariance, <1>1, PTL

\* The wait after SIGINT is as long as the longest any open profile asks for
\* (ConfigFile::shutdown_total).
THEOREM GraceCovers == Spec => []GraceCoversProfiles
<1>1. ASSUME IndInv PROVE GraceCoversProfiles
  <2> SUFFICES ASSUME Up, NEW o \in pending \cup handles
               PROVE  ProfileConfigOf(file, profileOf[o])["shutdown_total"] <= grace
    BY DEF GraceCoversProfiles
  <2>1. o \in Open
    BY <1>1 DEF IndInv, TypeOK
  <2>2. profileOf[o] \in DOMAIN file.profiles /\ InRange(ProfileConfigOf(file, profileOf[o]))
    BY <1>1, <2>1 DEF IndInv, OpenInv
  <2>3. ValidateFile(file) /\ grace = ShutdownTotal(file)
    BY <1>1 DEF IndInv, GraceInv
  <2> QED
    BY <2>2, <2>3, TotalCovers
<1> QED
  BY Invariance, <1>1, PTL

=============================================================================
