---------------------------- MODULE ServerProcess ----------------------------
(***************************************************************************)
(* The postgres-mcp process (main.rs and lib.rs): loading the              *)
(* configuration, the SIGINT bridge and its monitor thread, the serve      *)
(* task, the one shutdown of the core it owns, and the exit code; composed *)
(* with what the core promises (CoreContract) and with the commands its    *)
(* opens run (DsnCommand).  A process may be killed or forced to exit at   *)
(* any moment, and another one started after it.                           *)
(***************************************************************************)
EXTENDS DsnCommand, ProfileConfig

CONSTANTS
  Files,      \* configuration files
  MaxBoots,   \* bound: server processes, one after another
  OpensEach   \* bound: opens in each of them

ASSUME ProcessAssumption ==
  /\ Files # {}
  /\ \A file \in Files : DOMAIN file.profiles \subseteq Profiles
  /\ MaxBoots \in Nat \ {0}
  /\ OpensEach \in Nat \ {0}
  /\ MaxOpens = MaxBoots * OpensEach

VARIABLES
  boot,         \* number of this process
  file,         \* its configuration file
  \* main
  mainPc, code,
  sigint,       \* SIGINT_RECEIVED
  token,        \* shutdown_ct is cancelled
  monitor, monitorStop,
  grace,        \* length of the wait for the serve task after SIGINT
  \* the serve task
  servePc, primary, result,
  \* its core
  lifecycle, pending, handles, reported, uncertain, wedged,
  \* opens
  nextOpen, profileOf

Core == INSTANCE CoreContract WITH Handle <- Open

coreVars  == <<lifecycle, pending, handles, reported, uncertain, wedged>>
mainVars  == <<boot, file, mainPc, code, grace>>
sigVars   == <<sigint, token, monitor, monitorStop>>
serveVars == <<servePc, primary, result>>
openVars  == <<nextOpen, profileOf>>
vars == <<dsnVars, mainVars, sigVars, serveVars, coreVars, openVars>>

MainPc == {"start", "select", "grace", "join", "joining", "exited"}
ServePc == {"none", "core", "init", "serving", "shutdown", "finished"}
Code == {"none", "0", "1", "2", "killed"}

Up == mainPc \in {"select", "grace", "join", "joining"}
Serving == Up /\ servePc # "finished"

ProcessInit ==
  /\ file \in Files
  /\ mainPc = "start"
  /\ code = "none"
  /\ sigint = FALSE
  /\ token = FALSE
  /\ monitor = "none"
  /\ monitorStop = FALSE
  /\ grace = 0
  /\ servePc = "none"
  /\ primary = FALSE
  /\ result = "none"

Init ==
  /\ DsnInit
  /\ ProcessInit
  /\ Core!Init
  /\ boot = 1
  /\ nextOpen = 1
  /\ profileOf = [o \in Open |-> CHOOSE p \in Profiles : TRUE]

-----------------------------------------------------------------------------
(* main: start, select, grace, join.                                       *)

Exit(status) ==
  /\ mainPc' = "exited"
  /\ code' = status
  /\ UNCHANGED dsnVars

\* parse_args, load_config and the legacy DSN exit with 2; a signal handler
\* that cannot be installed exits with 1.  --help and --version print and end.
EndStart(status) ==
  /\ mainPc = "start"
  /\ Exit(status)
  /\ UNCHANGED <<boot, file, grace, sigVars, serveVars, coreVars, openVars>>

\* load_config.
Loads(document) == ValidateFile(document) /\ DOMAIN document.profiles # {}

RefuseArguments == EndStart("2")
PrintAndExit == EndStart("0")
RefuseConfiguration == ~Loads(file) /\ EndStart("2")
FailSignalSetup == Loads(file) /\ EndStart("1")

Start ==
  /\ mainPc = "start"
  /\ Loads(file)
  /\ mainPc' = "select"
  /\ grace' = ShutdownTotal(file)
  /\ monitor' = "polling"
  /\ servePc' = "core"
  /\ UNCHANGED <<dsnVars, boot, file, code, sigint, token, monitorStop,
                 primary, result, coreVars, openVars>>

\* The handler is installed for the life of the process.
Sigint ==
  /\ Up
  /\ ~sigint
  /\ sigint' = TRUE
  /\ UNCHANGED <<dsnVars, mainVars, token, monitor, monitorStop, serveVars,
                 coreVars, openVars>>

\* Mutant: the signal cancels only a session that is being served.
CancelServing ==
  /\ Up
  /\ monitor = "polling"
  /\ \/ monitorStop /\ UNCHANGED token
     \/ ~monitorStop /\ sigint /\ token' = (servePc = "serving")
  /\ monitor' = "returned"
  /\ UNCHANGED <<dsnVars, mainVars, sigint, monitorStop, serveVars, coreVars,
                 openVars>>

\* The monitor thread looks at its stop flag first, then at the signal flag.
Monitor ==
  /\ Up
  /\ monitor = "polling"
  /\ \/ monitorStop /\ UNCHANGED token
     \/ ~monitorStop /\ sigint /\ token' = TRUE
  /\ monitor' = "returned"
  /\ UNCHANGED <<dsnVars, mainVars, sigint, monitorStop, serveVars, coreVars,
                 openVars>>

MainStep(from, to) ==
  /\ mainPc = from
  /\ mainPc' = to
  /\ UNCHANGED <<dsnVars, boot, file, code, grace, serveVars, coreVars,
                 openVars>>

\* select! takes whichever is ready.
SelectServe == servePc = "finished" /\ MainStep("select", "join") /\ UNCHANGED sigVars
SelectSignal == token /\ MainStep("select", "grace") /\ UNCHANGED sigVars
GraceServe == servePc = "finished" /\ MainStep("grace", "join") /\ UNCHANGED sigVars

\* The timeout polls the serve task before its clock.
ForceExit ==
  /\ mainPc = "grace"
  /\ servePc # "finished"
  /\ Exit("1")
  /\ UNCHANGED <<boot, file, grace, sigVars, serveVars, coreVars, openVars>>

\* Mutant: the monitor is joined without being told to stop.
JoinUntold ==
  MainStep("join", "joining") /\ UNCHANGED sigVars

StopMonitor ==
  /\ MainStep("join", "joining")
  /\ monitorStop' = TRUE
  /\ UNCHANGED <<sigint, token, monitor>>

ReturnCode ==
  /\ mainPc = "joining"
  /\ monitor = "returned"
  /\ Exit(IF result = "ok" THEN "0" ELSE "1")
  /\ UNCHANGED <<boot, file, grace, sigVars, serveVars, coreVars, openVars>>

\* The process is killed from outside.
Killed ==
  /\ Up
  /\ Exit("killed")
  /\ UNCHANGED <<boot, file, grace, sigVars, serveVars, coreVars, openVars>>

\* The next server process.
Restart ==
  /\ mainPc = "exited"
  /\ boot < MaxBoots
  /\ boot' = boot + 1
  /\ file' \in Files
  /\ mainPc' = "start"
  /\ code' = "none"
  /\ sigint' = FALSE
  /\ token' = FALSE
  /\ monitor' = "none"
  /\ monitorStop' = FALSE
  /\ grace' = 0
  /\ servePc' = "none"
  /\ primary' = FALSE
  /\ result' = "none"
  /\ lifecycle' = "Running"
  /\ pending' = {}
  /\ handles' = {}
  /\ reported' = {}
  /\ uncertain' = {}
  /\ wedged' = FALSE
  /\ LoseResolvers
  /\ nextOpen' = boot * OpensEach + 1
  /\ UNCHANGED profileOf

-----------------------------------------------------------------------------
(* The serve task: serve_profiles and serve_with_cleanup.                  *)

ServeStep(from, to) ==
  /\ Up
  /\ servePc = from
  /\ servePc' = to
  /\ UNCHANGED <<dsnVars, boot, file, mainPc, code, grace, sigVars, coreVars,
                 openVars>>

CoreReady == ServeStep("core", "init") /\ UNCHANGED <<primary, result>>

\* The configuration is validated once more and libpq's version looked at.
CoreFails ==
  /\ ServeStep("core", "finished")
  /\ result' = "failed"
  /\ UNCHANGED primary

Initialized == ServeStep("init", "serving") /\ UNCHANGED <<primary, result>>

\* The initialization fails, the input ends or the transport fails, or the token
\* is cancelled; a failure to initialize under a cancelled token is no failure.
StopServing ==
  /\ \/ ServeStep("init", "shutdown") /\ primary' = ~token
     \/ ServeStep("serving", "shutdown") /\ primary' \in BOOLEAN
     \/ token /\ (ServeStep("init", "shutdown") \/ ServeStep("serving", "shutdown"))
          /\ primary' = FALSE
  /\ UNCHANGED result

\* Mutant: only a failure of the session counts.
ReturnSessionResult ==
  /\ lifecycle = "Stopped"
  /\ ServeStep("shutdown", "finished")
  /\ result' = IF primary THEN "failed" ELSE "ok"
  /\ UNCHANGED primary

\* The report of the core decides with the failure of the session.
ServeReturns ==
  /\ lifecycle = "Stopped"
  /\ ServeStep("shutdown", "finished")
  /\ result' = IF primary \/ uncertain # {} THEN "failed" ELSE "ok"
  /\ UNCHANGED primary

\* The serve task panics: main sees the join error.
ServePanics ==
  /\ Up
  /\ servePc \notin {"none", "finished"}
  /\ servePc' = "finished"
  /\ result' = "failed"
  /\ UNCHANGED <<dsnVars, mainVars, sigVars, primary, coreVars, openVars>>

-----------------------------------------------------------------------------
(* The core and its opens.                                                 *)

outsideCore == <<mainVars, sigVars, serveVars>>

\* reserve_open: the profile's configuration is looked up and checked first.
ReserveOpen(o, p) ==
  /\ Up
  /\ servePc \in {"serving", "shutdown"}
  /\ o = nextOpen
  /\ o <= boot * OpensEach
  /\ p \in DOMAIN file.profiles
  /\ InRange(ProfileConfigOf(file, p))
  /\ Core!Reserve(o)
  /\ nextOpen' = nextOpen + 1
  /\ profileOf' = [profileOf EXCEPT ![o] = p]
  /\ dsnPc' = [dsnPc EXCEPT ![o] = "create"]
  /\ UNCHANGED <<pid, counter, files, path, interrupted, command, dsnResult, readFrom,
                 outsideCore>>

ResolveDsn(o) ==
  /\ Up
  /\ ResolveStep(o)
  /\ UNCHANGED <<outsideCore, coreVars, openVars>>

\* connect_and_publish after the DSN: a connection, or any of its failures.
EnterOpen(o) ==
  /\ Up
  /\ dsnPc[o] = "finished"
  /\ dsnResult[o] = "dsn"
  /\ Core!Enter(o)
  /\ UNCHANGED <<dsnVars, outsideCore, openVars>>

AbandonOpen(o) ==
  /\ Up
  /\ dsnPc[o] = "finished"
  /\ Core!Abandon(o)
  /\ UNCHANGED <<dsnVars, outsideCore, openVars>>

WedgeCore ==
  /\ Up
  /\ handles # {}
  /\ Core!Wedge
  /\ UNCHANGED <<dsnVars, outsideCore, openVars>>

\* Core::shutdown, called by the serve task alone: it also stops every open in
\* progress.
StopCore ==
  /\ Up
  /\ servePc = "shutdown"
  /\ Core!Stop
  /\ interrupted' = [o \in Open |-> interrupted[o] \/ dsnPc[o] \in Resolving]
  /\ UNCHANGED <<pid, counter, files, path, dsnPc, command, dsnResult, readFrom,
                 outsideCore, openVars>>

FreezeReport ==
  /\ Up
  /\ servePc = "shutdown"
  /\ Core!Freeze
  /\ UNCHANGED <<dsnVars, outsideCore, openVars>>

InterruptOpen(o) ==
  /\ Up
  /\ Interrupt(o)
  /\ UNCHANGED <<outsideCore, coreVars, openVars>>

CommandEnds(o) == CommandExits(o) /\ UNCHANGED <<outsideCore, coreVars, openVars>>

-----------------------------------------------------------------------------
MainNext ==
  Start \/ SelectServe \/ SelectSignal \/ GraceServe \/ ForceExit \/ StopMonitor
    \/ ReturnCode

ServeNext == CoreReady \/ CoreFails \/ StopCore \/ FreezeReport \/ ServeReturns

OpenNext(o) == ResolveDsn(o) \/ EnterOpen(o) \/ AbandonOpen(o)

Next ==
  \/ MainNext \/ Monitor \/ ServeNext
  \/ RefuseArguments \/ PrintAndExit \/ RefuseConfiguration \/ FailSignalSetup
  \/ Sigint \/ Killed \/ Restart
  \/ Initialized \/ StopServing \/ ServePanics \/ WedgeCore
  \/ \E o \in Open :
       \/ \E p \in Profiles : ReserveOpen(o, p)
       \/ OpenNext(o) \/ InterruptOpen(o) \/ CommandEnds(o)

Spec == Init /\ [][Next]_vars

(***************************************************************************)
(* The tasks and threads of a process that is up run, and the core keeps   *)
(* its contract.  A cancelled token ends the session.  The clock of the    *)
(* wait after SIGINT is driven by the worker threads of the runtime, which *)
(* a wedged core may hold one after the other in its mutex: then nothing   *)
(* is assumed of that wait.  No open, command, client or signal is obliged *)
(* to anything.                                                            *)
(***************************************************************************)
FairSpec ==
  /\ Spec
  /\ WF_vars(~(wedged /\ mainPc = "grace") /\ MainNext)
  /\ WF_vars(Monitor) /\ WF_vars(ServeNext)
  /\ WF_vars(token /\ StopServing)

-----------------------------------------------------------------------------
(* Properties.                                                             *)

TypeOK ==
  /\ DsnTypes
  /\ boot \in 1..MaxBoots
  /\ file \in Files
  /\ mainPc \in MainPc
  /\ code \in Code
  /\ sigint \in BOOLEAN
  /\ token \in BOOLEAN
  /\ monitor \in {"none", "polling", "returned"}
  /\ monitorStop \in BOOLEAN
  /\ grace \in {0} \cup Allowed["shutdown_total"]
  /\ servePc \in ServePc
  /\ primary \in BOOLEAN
  /\ result \in {"none", "ok", "failed"}
  /\ lifecycle \in {"Running", "Stopping", "Stopped"}
  /\ pending \cup handles \cup reported \cup uncertain \subseteq Open
  /\ wedged \in BOOLEAN
  /\ nextOpen \in 1..MaxOpens + 1
  /\ profileOf \in [Open -> Profiles]

\* A server that served and exits 0 stopped its core, and the report has nothing
\* uncertain: neither a racing SIGINT, a failed session, a panic nor the
\* deadline of the wait lets anything else pass for success (README.md:72).
ExitZeroIsVerified ==
  code = "0" /\ servePc # "none" =>
    lifecycle = "Stopped" /\ uncertain = {} /\ handles \subseteq reported /\ ~primary

\* Nor does it leave anything of an open behind: no DSN command of this process
\* still runs and no output file, which may hold a secret, is left.
CleanExitLeavesNoCommand ==
  code = "0" =>
    \A o \in Open :
      dsnPc[o] # "gone" =>
        dsnPc[o] \notin Resolving /\ command[o] # "running" /\ \A n \in Name : files[n] # o

\* Whatever is left behind by processes that were killed, an open takes its DSN
\* from the output of its own command (create_new in resolve_with_context).
DsnIsOwnOutput == \A o \in Open : readFrom[o] \in {o, NoOpen}

\* The process never allows a shutdown less than an open profile asks for
\* (ConfigFile::shutdown_total, computed once by main and once by the core).
GraceCoversProfiles ==
  Up => \A o \in pending \cup handles :
          ProfileConfigOf(file, profileOf[o])["shutdown_total"] <= grace

\* After SIGINT the process ends, whatever its session is doing, and even if a DSN
\* command cannot be killed (DESIGN.md:51), unless the core is wedged.
SigintEndsProcess == sigint /\ Up ~> mainPc = "exited" \/ wedged

\* At the end of input, or when the session fails, the process ends as well,
\* unless the core is wedged: nothing but the core bounds that wait.
StopEndsProcess == servePc = "shutdown" /\ Up ~> mainPc = "exited" \/ wedged

-----------------------------------------------------------------------------
(* What the documentation promises and the code does not keep.             *)

\* README.md:62 "Configuration rejects unknown fields and out-of-range values":
\* a server that serves has only profiles it can open.
LoadedProfilesAreUsable ==
  servePc # "none" =>
    \A p \in DOMAIN file.profiles : InRange(ProfileConfigOf(file, p))

=============================================================================
