# Verification of pg-mcp

TLA+ models of `postgres-mcp`, a stdio MCP server that gives a client explicit
PostgreSQL connections and transactions: what the models cover, what TLC checks
on small instances, and what TLAPS proves for every instance. Paths are
relative to `src/`; `core/` stands for `crates/postgres-mcp-core/src/` and
`app/` for `crates/postgres-mcp/src/`.

## 1. The system

A client opens *handles*. Behind each handle is one operating-system thread, the
*worker*, that owns one libpq connection. Tool calls are asynchronous tasks that
admit a request to the worker's bounded channel and wait for a one-shot reply.

| Component | State | Operations | Meets |
|---|---|---|---|
| Registry and dispatch (`core/worker.rs`: `Core`, `RegistryState`) | lifecycle, handle counter, pending opens, entries (published state, admission count, sender, join handle), frozen report | `open_database`, `list_handles`, seven calls on a handle through `dispatch`, `shutdown` | everything, through one mutex |
| Worker (`core/worker.rs`: `worker_loop`, `execute_operation`, `LibpqBackend`) | its connection, the request in hand | take a request, refuse or execute it, publish, reply, release; roll back and dispose on shutdown | the registry, its channel, the adapter |
| libpq adapter (`core/libpq.rs`) | `PGconn`, busy flag, first error, drain deadline | connect; send, flush, collect, poll; cancel and drain | the server; polls cancellation, stop and deadline |
| Catalog snapshot (`core/schema.rs`) | none between calls | BEGIN, three catalog queries, COMMIT or ROLLBACK | the adapter |
| Protocol (`core/protocol.rs`) | none | handle state, suggested moves, error and result envelopes, size limits | worker and tools |
| Configuration (`core/config.rs`) | profiles | layered overrides, validation, DSN command | opens |
| Tools (`app/tools.rs`) | none | decode arguments, one core call each, render | client |
| Process (`app/main.rs`, `app/lib.rs`) | signal flag, serve task | serve until end of input, SIGINT or failure, then one shutdown; exit codes | core |
| Release automation (`crates/xtask`) | GitHub release, tag, assets | validate, publish, verify | outside services |
| Build script (`core/build.rs`) | none | probe libpq, generate bindings | build |

What is hard about it:

* *Concurrency.* Opens, calls, workers and shutdown meet in a mutex, in bounded
  channels and in one-shot replies; some decisions are taken in two critical
  sections.
* *Three interruptions.* The caller's cancellation, the deadline and the
  process-wide stop may become true between any two steps of the adapter, and
  are looked at in some of them only.
* *A peer that owes nothing.* The server may answer, refuse, fall silent or go
  away, also between executing a COMMIT and answering it, and in the middle of an
  answer, where the adapter waits for it without a deadline.
* *State kept twice.* Published state follows native state; the schema
  observation follows the server's catalog; the moves suggested to clients
  follow the worker's preconditions.
* *Shutdown* under one aggregate deadline, whose report must neither leave out
  a handle nor call clean what is not.

What makes each part correct: admitted calls are answered and accounted for
(dispatch); nothing runs on a disposed connection (worker); the report is one,
complete and true (shutdown); published state is native state, verdicts on
transactions are true and COMMIT is never replayed (worker and adapter); an
observed schema is current (schema tracking); every call ends, unless the server
holds it inside libpq's blocking PQgetResult (adapter).
`PROJECT.json` lists the hazards one by one, at their lines.

## 2. Modules

| Module | Models | Lines it stands for |
|---|---|---|
| `CoreContract` | what the core promises its process, in seven actions | the same code as `CoreRegistry`, from outside |
| `CoreRegistry` | registry, opens, dispatch, workers, shutdown | `core/worker.rs` 287-1148, 1353-1413, 1843-1977 |
| `HandleProtocol` | published handle, moves, preconditions (constant operators) | `core/protocol.rs` 58-297, `core/worker.rs` 80-135, 286-324, 973-1038 |
| `HandleContract` | what a handle shows its client from one answer to the next (EXTENDS `HandleProtocol`) | the same code as `WorkerSession`, from outside |
| `WorkerSession` | one worker with its connection and server (EXTENDS `HandleProtocol`) | `core/worker.rs` 137-160, 1066-1857, `core/libpq.rs` 450-950, 997-1325, `core/schema.rs` 104-268 |
| `ProfileConfig` | layers of a configuration file, its checks, the shutdown total (constant operators) | `core/config.rs` 73-344 |
| `DsnCommand` | the command that yields a DSN | `core/config.rs` 353-459 |
| `ServerProcess` | main, signal bridge, serve task, exit codes (EXTENDS `DsnCommand`, `ProfileConfig`; INSTANCE of `CoreContract`) | `app/main.rs` 17-251, `app/lib.rs` 124-160 |
| `ResultCollector` | a query's result, kept row by row under its limits | `core/libpq.rs` 744-870, 997-1137, `core/protocol.rs` 1007-1069, 1206-1212 |
| `ReleasePublish` | publication of a release and the checks after it | `crates/xtask/src/main.rs` 220-250, 323-541, 544-722 |
| `CoreRegistryProofs`, `CoreAdmissionProofs`, `CoreContractProofs` | theorems about `CoreRegistry`; the second and third extend the first | |
| `WorkerSessionProofs`, `WorkerSessionContractProofs` | theorems about `WorkerSession`; the second extends the first | |
| `ResultCollectorProofs`, `ServerProcessProofs`, `ReleasePublishProofs` | theorems about the module of that name | |
| `MCRegistry`, `MCSession`, `MCResult`, `MCProcess`, `MCRelease` | instances for TLC | |

How they compose:

* `CoreRegistry` implements `CoreContract`; `ServerProcess` relies on
  `CoreContract` alone. So the process is checked with every core that keeps the
  contract, and the registry is shown to be one.
* `WorkerSession` implements `HandleContract`. `CoreRegistry` takes from the
  worker which connection states a call may leave. That calls into libpq end is
  not taken for granted: it is the premise `BackendCallsEnd` of
  `EveryCallAnswered`, and `EveryCallFinishes` of `WorkerSession` says what of the
  server it takes.
* `ServerProcess` runs its opens through the actions of `DsnCommand`, under the
  configuration of `ProfileConfig`.

The definitions called "Mutant" in the modules are not part of the specification:
each is a plausible bug of the definition after it, and the property it is
listed with in `PROJECT.json` is violated when it takes that definition's place.

### CoreRegistry

Variables follow `RegistryState` and the locals of the tasks. `lifecycle`,
`pending`, `handles`, `closed`, `published`, `admitted` and `frozen` are what
the mutex protects. Each actor has a program counter (`openPc`, `workerPc`,
`callPc`, `ownerPc`, `stopperPc`) whose steps are the stretches between two
points where another actor can be seen: one action per critical section,
channel operation, reply, thread start and end. `MutexFree` is a conjunct of
every action with a critical section, and `mutex` is set only by `AdmitClosed`,
the one section that never ends.

A handle is its number. `queue[h]` is the channel; `job[h]` the request in hand,
with its `AdmissionGuard`; `native[h]` what libpq says of the connection
("idle", "open", "lost" or "none"). What an operation does to the connection is
any result `RunOperation` allows; `WorkerSession` says which do occur. Three
kinds of call are told apart: `commit` for its unknown outcome, `close` for
ending the worker, and the rest ("op"). `InBackend` is a worker inside libpq, which
the server can hold there.

Shutdown is `BeginShutdown` (the critical section that makes the owner),
`SignalStop` (the token), the loop over handles (`SkipExpired`, `Inspect`,
`JoinClosed`, `SendShutdown`, `SendTimeout`, `TakeReply`, `GiveUpReply`),
`WaitForOpen` and `FreezeReport`. The aggregate deadline is one event,
`DeadlinePasses`, which may come at any moment.

Left out because the code cannot reach it, as the checks confirm or the code
shows: the failures of `try_send` in dispatch (`TrySendSucceeds`), the "missing"
stage (entries are never removed), `saturating_sub` at zero.

### CoreContract

Reservation, entry, abandonment, stop, freeze, and `Wedge`: the registry mutex
lost for good (finding 1), after which the core does nothing. `ImplementsContract`
in `CoreRegistry` maps the contract's `reported` to the handles the frozen report
covers, an open that was still awaited included, and `uncertain` to those it does
not call verified; `wedged` is a mutex held by a call. `KeepsContract` adds the contract's
fairness: a stop comes to its report unless the core is wedged.

### HandleProtocol and HandleContract

`HandleState` is `PublishedHandle::state`, `NextMoves` is `moves_for_state`,
`Accepted` is `operation_precondition`. `busy` is left out: every path of the
adapter has cleared it before a worker observes its connection.

`HandleContract` has `view`, what the client's last answer showed of its handle,
`listed`, what list_handles shows of it, and the outstanding call with its reply.
`Call` starts one. While it lasts, `Publishing` may change what is listed: the code
writes the entry in several critical sections, and a reader between them sees states
the answer takes back, but a schema as observed only if it was or is being read, and
the handle closed only at its end. Each answer is an action that carries
what is listed by then and says which view may follow: a refusal changes no
transaction, a schema that was read is the only way to an observation, a committed or rolled
back transaction leaves the handle idle, an unknown outcome leaves an observation
of nothing, and a handle that ended stays ended.

### WorkerSession

The worker takes one request after another (`Dequeue`); between them it is
"idle". The server is a set of actions with no fairness. The three flags of
`RequestContext` become true at any time; `Interrupted` is what `LibpqControl`
or, for commit, rollback and shutdown, `NoClientCancelControl` shows the
adapter.

`link` is the client's view of the connection: "ok"; "sent" while a command is
in progress; "undrained" when its results were abandoned; "bad" when libpq
found it broken; "none" after PQfinish. `Native` is PQtransactionStatus: the
server's last status only when the link is "ok", Active while results are
outstanding.

A command runs `Send`, `Flushed`, `Collect`, `Retrieve`. `Collect` is PQconsumeInput and
PQisBusy: nothing is there and the adapter polls (`Readable`, `Traffic`, `PollFails`),
or part of the answer is and it goes on to read. `Retrieve` is the loop of PQgetResult to
the final NULL. That loop blocks: it is taken when the answer is complete or the
connection lost, which is then one more result, an error; until then the worker is at
"read", where no deadline, cancellation or stop is looked at. `Overflow` and `RefuseCopy`
are what else a result may be there. `RefuseSend` (check_control), `SendFails`,
`AbandonFlush` (check_control inside flush_output), `FlushFails` and `DispatchCancel` are
the other ways out and around. A command ends in `Return` with "ok", "error" (outcome
known) or "unknown". cancel_and_drain is `FinishDrain` while nothing is there,
`StartClearing` when PQisBusy is 0, and `ClearResults`, which blocks in the same
way, the grace notwithstanding. An operation issues commands (`FirstCommand`,
`NextSchemaCommand`) and decides a verdict (the `Finish...` actions). The three
catalog statements of get_schema are one.

Publication is one action for each critical section that list_handles can look between:
`PublishResult` is what execute_operation writes, `PublishObservation` the
observation worker_loop always takes afterwards (or publish_closed), `PublishUnknown`
what an unknown outcome takes back, and `Reply` the answer. Sections that differ only in
schema_dirty, which is not shown, are one. A call's cancellation and deadline are not
looked at after its verdict, and left out from there.

`seen`, `untold`, `effect` and `commits` are history variables: the catalog
version the client last saw, whether direct DDL has since passed the worker by,
what became of a transaction during the last call, and the COMMITs sent for the
open transaction. `shown` is the entry at the last answer.

### ResultCollector

`collect_results` with its collector, for one statement in single-row mode:
`SingleTuple` is a row, `Completed` the TUPLES_OK or COMMAND_OK after the last,
`StatementFails`, `Interrupt` and `Lose` what may come instead, `Finish` the final
NULL. `Columns`, `AddRow` and `AddCommand` are consume_rows and consume_command,
which offer one column, row, tag or count at a time to `Keep`
(ensure_candidate_fits). Of the columns, which the code offers one by one, `AddColumns`
keeps the longest start that fits together with every shorter one. `Fits` is QueryResult::validate. A
text is its length and its length in JSON; the keys every result has are left out of
the byte limit. `ByteLimitAssumption` says that a limit admits the empty result, which
the smallest limit a profile may have (1024 bytes, `core/config.rs:39`) does.
`WorkerSession` has of all this that a result, or a command tag, may overflow.

### ProfileConfig

A layer is a function from limits to values or `Unset`; a file has `defaults`,
limits at its top level (`legacy`) and `profiles`. `Merge` is
`ConfigOverrides::merge`, `ValidateFile` is `ConfigFile::validate` with the
argument order the code has (finding 6), `ShutdownTotal` the longest total of
the usable profiles. Two limits stand for the thirteen, which the code treats
alike: one that nothing else reads, and the shutdown total, which `main` reads.

### DsnCommand

One open's `resolve_with_context`: `CreateOutput` (create_new under the name
`<pid>-<counter>`), `SpawnCommand` (its own process group), `StopPolling` (the
loop saw the end, cancellation, stop or the deadline), `Terminate` (`/bin/kill`
of the group, which may fail), `Reap` (child.wait), `ReadOutput`. The command
itself ends when it likes (`CommandExits`), and is not bound to obey a kill.
`LoseResolvers` is the end of the server process: programs counters vanish,
commands and files stay. Names come back because a later process may have the
same pid and counts from zero.

### ServerProcess

`mainPc` follows `main` and `run`: "start", the `select!` between the serve task
and the token ("select"), the wait after SIGINT ("grace"), the join of the
monitor ("join", "joining"), "exited". `Sigint` is the handler, `Monitor` the
thread that turns its flag into the token. `servePc` follows `serve_profiles`:
building the core, initialisation of the session, serving, `Core::shutdown`,
finished; `primary` is the session's own failure, which must survive a clean
shutdown. `ForceExit` is the end of the wait, which may never come while the core is
wedged (see Fairness), `ServePanics` a JoinError. `Killed`
may come at any moment, and `Restart` boots the next process.

### ReleasePublish

`release` is the one GitHub has for the tag; `seen` what the attempt last read
of it, which may be out of date when it acts. An attempt looks up, resumes or
refuses a draft (`Resumable`, `CompareNames`, `CompareAssets`), or creates one and
uploads asset by asset (`CreateDraft`, `Upload`, `Created`), checks it
(`CheckCreated`), edits it to be public (`Edit`, where the answer may differ from
the effect: `BelieveEdit`), confirms and verifies. `Fail` ends it anywhere.
Attempts do not overlap: that is an assumption, as the concurrency group of the release
workflow, which orders them, is not part of `src/`. People delete drafts and move the tag between any two steps, and edit the notes of a
draft while nothing publishes it. A build of a commit is
never the same bytes twice, which is the worst a rerun can meet.

## 3. Runs

| Run | Module | Instance | Question |
|---|---|---|---|
| `registry_safety` | MCRegistry | 2 profiles of one handle and channels of 1, 2 opens, 1 call, 2 shutdowns; symmetry in calls and shutdowns | report, handle limit and stop invariants; the contract |
| `registry_queue` | MCRegistry | 2 profiles (1 handle each; channels of 1 or 2), 1 open, 2 calls, 1 shutdown; fair | admission, disposal; a call ends if libpq's calls do, a shutdown whatever they do; the contract with its fairness |
| `registry_self_deadlock` | MCRegistry | 1 profile, limits 2, 1 open, 2 calls, 1 shutdown; fair | violated: a shutdown returns |
| `registry_late_open` | MCRegistry | 1 profile, 1 open, 1 call, 1 shutdown | violated: nothing is live after a verified report |
| `session` | MCSession | 1 catalog change, COMMIT and ROLLBACK also through query, tags that may overflow; fair | published state, moves, verdicts, replay, schema observation, disposal; the handle contract; termination, unless the server leaves an answer unfinished |
| `session_internal_snapshot` | MCSession | 1 catalog change, COMMIT and ROLLBACK also through query | violated: the snapshot's transaction is not the client's |
| `session_undrained` | MCSession | as before | violated: results are drained or the connection disposed of |
| `session_unfinished_answer` | MCSession | no catalog change, tags that fit; fair | violated: a call whose deadline passed ends |
| `result` | MCResult | 2 texts, up to 2 columns and 2 rows; limits of 1 or 2 columns, rows and cell bytes, 6 on bytes | what is retained, returned and refused |
| `process` | MCProcess | 3 files, 2 processes of one pid, one after the other, 1 open each; fair | exit codes, what is left behind, whose DSN an open gets, the end after SIGINT and at end of input |
| `config_masked` | MCProcess | 1 process, 1 open | violated: profiles that are served are within range |
| `release` | MCRelease | 3 assets, 2 commits, 2 builds of each, 3 attempts; symmetry in assets | what may be public, success, refusal, announcement |

`CHECK_DEADLOCK FALSE` everywhere: a behaviour in which every call of the
instance was made and the server stopped, the handle closed, the last process
exited, the last attempt or the one query ended has no next step, and the real system stops
too.

### Bounds

* Registry. `MaxOpens` bounds reservations in a behaviour, `Requests` and
  `Stoppers` the calls, each made at most once. Two opens let one race the stop
  while the other is published, wait in the report behind another, or, in one
  profile, be the one too many. Two calls are the least that fill a channel of
  one slot, queue behind a close, or find the handle closed; the profile with a
  channel of two queues them, and only one open is needed to race them. Two
  callers of shutdown are an owner and a waiter.
* Session. One `MaxCatalog` change distinguishes a current observation from a
  stale one. Calls are not bounded: the state is finite, and behaviours of any
  length are covered. (Two changes were also checked; they add nothing.)
* Result. Every result within the bounds is tried with every limit. Two columns
  let the first fit and the second not, which is what a later row trips over; two
  rows let one be refused and the next one fit. One text is longer than a cell may
  be, and longer in JSON than its bytes; the limits on bytes lie between the
  smallest result and one that is larger than all.
* Process. `MaxBoots` = 2 with a single pid is the case in which what a killed
  process left meets its successor; a third process meets nothing new. Each has
  one open (`OpensEach`); opens share only the core, which the contract speaks
  for, and the file counter. The three files are one that loads although a
  profile is out of range, one that is refused, and one without profiles.
* Release. Three attempts are an abandoned one, one that meets its draft, and
  one that meets what both left. Two commits and two builds distinguish another
  commit's assets from another build's. With three assets a draft can lack some
  and mix others.

Symmetry is used only in `registry_safety` and `release`, which have no liveness
property.

### Fairness

* `CoreRegistry`: weak fairness of each worker outside libpq, each call past its
  lookup, each caller of shutdown, the shutdown owner, and the aggregate
  deadline. Threads and tokio tasks run. Nothing is assumed of an open, which waits for
  the server and for the command that yields its DSN, nor of a worker inside
  libpq, which the server can hold in PQgetResult: `EveryCallAnswered` has the
  premise that such calls end, and the shutdown needs none, since its owner's deadline
  decides. Nobody is obliged to call, to drop a call, or to stop the server.
* `WorkerSession`: weak fairness of the worker and of the deadline, strong
  fairness of `PollFails` because poll_fd computes the remaining time before
  each wait, so traffic cannot keep a worker polling past its deadline. None
  for the server, the client or the stop. `EveryCallFinishes` has the premise that
  the worker is outside the PQgetResult loops (`Reading`) again and again, which is one
  on the server and the network: an answer that was begun is completed, or the
  connection ends.
* `ServerProcess`: weak fairness of `main`, of the monitor thread and of the
  serve task, whose core keeps its contract, and of the session's end once the
  token is cancelled. The exception is `main` in the wait after SIGINT while the core is
  wedged: the timeout (`app/main.rs:206`) is driven by the worker threads of the
  runtime (`app/main.rs:235`), and each of them may be blocked in the registry
  mutex (`core/worker.rs:763`, `:818`). None for opens, commands, clients, signals or
  kills.
* `ReleasePublish`: none; an attempt may fail for good.

## 4. What the checks show

Holding, on the instances above:

* No path leaks or doubles an admission slot, and a call past the admission
  check always finds room and a live worker (`AdmissionAccounting`,
  `TrySendSucceeds`); the Full and Closed branches of dispatch are dead code.
* Entries and reservations never exceed a profile's limit (`HandleLimitHolds`),
  and nothing is admitted once the lifecycle has left Running, although dispatch
  looks at it in two sections (`NothingAdmittedAfterStop`).
* Callers are answered also when a close, a late open or a shutdown comes first, as
  long as the mutex is not lost to the defect below: a shutdown whatever the server does
  (`EveryShutdownReturns`), a call if the calls into libpq end (`EveryCallAnswered`).
* The report is frozen once, shared, complete, and "verified" means the
  connection gone and the thread ended (`OneReport`, `ReportCoversRegistry`,
  `VerifiedMeansDisposed`); the registry is a core as `CoreContract` describes
  it (`ImplementsContract`, `KeepsContract`).
* Published state is the native one after every operation but a commit of
  unknown outcome, and every suggested move is accepted, except query on an
  open transaction whose observation was cleared (`PublishedIsNative`,
  `MovesAccepted`).
* Verdicts on commit and rollback are true, no COMMIT is sent twice for a
  transaction, and no usable connection with an open transaction is disposed of
  as a success (`VerdictsAreTrue`, `NeverReplayed`,
  `DisposalLeavesNoTransaction`). What a client sees of its handle changes only
  as `HandleContract` says, and so does what list_handles shows of it between two critical
  sections of a publication (`KeepsHandleContract`).
* The schema observation is never stale but for direct DDL that the worker is not
  told of, and then only until the next get_schema (`ObservedSchemaIsCurrent`).
  Two ways lead there: a COMMIT sent through query (get_schema, open_write, DDL,
  `COMMIT`: the handle is idle, observed and out of date), and DDL whose command
  tag is longer than cell_bytes, which fails with RESULT_LIMIT after it was
  executed. No document promises otherwise, so both are listed as hazards.
* Every operation ends, whatever the server does or omits before its answer begins, as
  long as it completes an answer it began or the connection ends (`EveryCallFinishes`).
  Without that premise a call may never end (finding 5).
* Nothing over a limit is ever retained, so the worker's second check of a result
  is never what refuses it; a result is returned whole or not at all; an overflow
  is reported as one, and only when the result is too large (`RetainedFits`,
  `OnlyWholeResults`, `OverflowIsNamed`, `RefusedResultsOverflow`), but for one
  byte: the tag is checked while the count of rows is still null, so a result of
  exactly the limit with a count of one digit is refused.
* A server exits 0 only after a report in which everything is verified, and then
  leaves no command and no output file of its opens (`ExitZeroIsVerified`,
  `CleanExitLeavesNoCommand`). A killed one leaves both, and its successor with
  the same pid never takes them for its own (`DsnIsOwnOutput`): create_new fails
  instead.
* The process waits at least as long as the longest shutdown it serves
  (`GraceCoversProfiles`). Unless the core is wedged it ends after SIGINT, whatever
  its session or a command does (`SigintEndsProcess`), and at the end of input
  (`StopEndsProcess`).
* Only whole releases of one build become public, by an attempt that holds that
  build; success means public; a draft that is refused differs from what the
  attempt would publish; and the tap hears only of assets built from the tagged
  commit, also when the tag moves in between (the properties of `release`).

Disagreements between the code and its documents, each with a run that shows it:

1. **Self-deadlock on a closed handle** (`core/worker.rs:772`): dispatch builds
   its failure with `for_handle`, which locks the registry it holds.
2. **A late open outlives a verified report** (`core/worker.rs:611`).
3. **get_schema leaves its transaction on the handle** (`core/schema.rs:137`):
   ROLLBACK obeys the interruption that made it necessary.
4. **Abandoned flush** (`core/libpq.rs:878`): results unread on a connection
   that stays in use.
5. **A deadline does not end a call whose answer is unfinished** (`core/libpq.rs:810`,
   and `:925` in the drain): results are retrieved by PQgetResult, which blocks, where
   README.md:98 says that "normal socket waits and cleanup are deadline-controlled" and
   DESIGN.md:47 that "grace expiry disposes to broken/unknown".
6. **Profiles validated behind the base** (`core/config.rs:311`): the base hides
   the limits that were to be checked.

Seen while modelling and not kept as a run: a signal handler that cannot be installed
(`app/main.rs:173`) or a core that cannot be built (`app/lib.rs:71`, `:128`) ends in exit
code 1, where README.md:72 has 2 for a failed start.

Without a document that says otherwise: a wedged core (finding 1) may keep
the process from ending after SIGINT too; a worker that
replied clean may be reported uncertain, because join_worker looks at its thread
once (`core/worker.rs:919`); a silent server's cancellation is never dispatched,
because poll_fd does not see it, and the connection is disposed of at the
deadline (`core/libpq.rs:1285`); DESIGN.md:25 has every end of a transaction
clear the schema observation and DESIGN.md:29 has rollbacks and row-only commits
keep it, as the code does.

## 5. What is proved

For every value of the constants, from the named assumptions of each module
alone:

| Module | Theorem | Property |
|---|---|---|
| `CoreRegistryProofs` | `TypeCorrect` | `TypeOK` |
| | `ReportIsShared` | `OneReport` |
| | `ReportIsComplete` | `ReportCoversRegistry` |
| | `AdmissionSuffices` | `TrySendSucceeds` |
| | `DisposalIsFinal` | `NoOperationAfterDisposal` |
| | `VerifiedIsDisposed` | `VerifiedMeansDisposed` |
| | `StopIsFinal` | `NothingAdmittedAfterStop` |
| `CoreAdmissionProofs` | `AdmissionIsAccounted` | `AdmissionAccounting` |
| `CoreContractProofs` | `RegistryKeepsContract` | `ImplementsContract` |
| | `LimitHolds` | `HandleLimitHolds` |
| `WorkerSessionProofs` | `SessionTypes` | `TypeOK` |
| | `MovesAreAccepted` | `MovesAccepted` |
| | `PublishedStateIsNative` | `PublishedIsNative` |
| | `VerdictsHold` | `VerdictsAreTrue` |
| | `CommitIsNeverReplayed` | `NeverReplayed` |
| | `ObservationIsCurrent` | `ObservedSchemaIsCurrent` |
| | `SuccessfulDisposal` | `DisposalLeavesNoTransaction` |
| `WorkerSessionContractProofs` | `SessionImplementsContract` | `KeepsHandleContract` |
| `ResultCollectorProofs` | `CollectorTypes` | `TypeOK` |
| | `RetainedAlwaysFits` | `RetainedFits` |
| | `SuccessIsWhole` | `OnlyWholeResults` |
| | `OverflowsAreNamed` | `OverflowIsNamed` |
| | `RefusalsAreDeserved` | `RefusedResultsOverflow` |
| `ServerProcessProofs` | `TypeCorrect` | `TypeOK` |
| | `ExitZeroVerified` | `ExitZeroIsVerified` |
| | `CleanExit` | `CleanExitLeavesNoCommand` |
| | `OwnOutput` | `DsnIsOwnOutput` |
| | `GraceCovers` | `GraceCoversProfiles` |
| `ReleasePublishProofs` | `TypeCorrect` | `TypeOK` |
| | `PublishedWhole` | `PublishedIsWhole` |
| | `SuccessPublished` | `SuccessIsPublished` |
| | `PublishedOwnBuild` | `PublishedIsOwnBuild` |
| | `RefusalJustified` | `RefusalMeansMismatch` |
| | `AnnouncedTagged` | `AnnouncedIsTagged` |

Few of these properties are inductive. The invariants they follow from, each
checked by TLC on the instances of section 3 before it was proved:

**Registry**: `IndInv`, the conjunction of

* `TypeInv`: `TypeOK` and what each worker's program counter says of the job
  it holds and of the outcome it carries, which the types need to be kept by a
  step.
* `ReportInv`: the shutdown owner's progress, the lifecycle and the frozen
  report together. The owner is idle exactly while Running, only a finished
  owner freezes a report, a caller of shutdown returns with the frozen one, and
  once Running is left every registered handle is on the owner's list or in the
  report, which is why no publication after the snapshot may add a handle.
* `HandleInv`: where a handle is in its life. Before its publication it has
  no traffic; its entry is closed exactly from the step in which its worker
  publishes the disposal; until then the worker owns a connection.
* `AdmissionInv`: the equality behind the admission count. While Running, the
  channel of a handle holds operations only, and `admitted` is their number plus
  the one the worker holds. A count below `Limit(h)` is then room in the
  channel.

`DisposedInv` adds, for `VerifiedIsDisposed`, what a worker's clean end says of
its connection and that only an ended worker is entered as verified. There is a
lemma for each part, with one step per action, and `PushReport` for the six ways
to push a report entry.

**Admission past the stop**: `AdmissionInv` speaks of a running server, whose channels
hold operations only. `AccountInv` drops that hypothesis: the channel of a handle that
was never registered holds at most the Shutdown a late open sends itself, and from
its registration to its end `admitted` is `Count` of its channel, the positions that
hold an operation, plus the one its worker has. `CountAppend`, `CountTail` and
`CountNone` say what a send, a receipt and an empty channel make of that number, by a
bijection of positions rather than by induction; a caller that gives up its reply, a
send that times out and the shutdown itself leave it alone.

**Contract and limit**: with `PendingInv` (an open has a reservation exactly
while it is between reserving and finishing), `ContractStep` maps each action of
the registry to one of the contract or to a stutter. The limit is a count:
`CountGrowsByOne` and `CountShrinks` bound the cardinalities that a reservation,
a publication and an end change.

**Session**: `IndInv`, thirteen parts with a lemma each. Which command is in flight,
what the server made of it and what the adapter believes are three things, and each
part relates two of them:

* `PhaseInv` and `WireInv`: a command belongs to its operation; the link is "sent"
  exactly while the adapter waits; a statement is unanswered or its answer waits. Without
  them an answer could be taken for that of another command.
* `TxInv`: what an answer says of the transaction. A COMMIT that was answered, even
  with an error, ended it.
* `StageInv`: where a publication is. The entry is what was shown (`shown`) until its
  first critical section; between two of them only this operation's own
  observation is given or taken back; a handle is closed only in the last one.
* `NativeInv` and `AdmitInv`: what was shown is the native state, or that of a lost
  commit, until the operation sends something, and what it sends was let through in that
  state. `MovesAreAccepted` adds to `NativeInv` a case analysis of
  `HandleProtocol`.
* `VerdictInv` and `EffectInv`: the verdict once decided, with what happened to the
  transaction from before the command is sent. `VerdictsHold` and
  `SuccessfulDisposal` follow.
* `CommitsInv`: once the COMMIT of a transaction went out, a connection that can be
  used is out of that transaction, so commit lets no second one through.
* `PendingInv`, `DirtyInv`, `SchemaInv`: DDL on its way from the server to the mark
  on the handle. Statements the adapter gave up on may still be executed; a change
  the client was not told of is marked, or is not yet reported, or can only be ended by
  the stop: a query that the stop cuts short leaves its DDL unmarked, and after the stop
  no commit is let through. Without that exception `DirtyInv` is false;
  `ObservedSchemaIsCurrent` holds because the commit it would need never comes.

The contract of the handle is a step simulation over that invariant: the start of an
operation is `Call`, each critical section of its publication is `Publishing` or shows
the same, `Reply` is the answer that its operation and verdict select, and `Stutters` says that the client
reads the same before and after every other step.

**Collector**: `IndInv` of `TypeOK` and

* `ColumnsInv`: the columns are a start of the statement's, neither none nor all only
  after an error. That is why a row never meets a number of columns that is not
  its own without an error before it, and no "shape" is ever returned.
* `PrefixInv`: until an error, what is retained is exactly what arrived; the tag and the
  count come last.
* `OutcomeInv`: what is returned is the error that stands, or the loss of the
  connection, or, without an error, the whole result.
* `RetainedFits`: every candidate passed `Fits` (`KeepStep`), and the first, the empty
  one, does by `ByteLimitAssumption`.
* `LimitInv`: the error "limit" stands only if the result overflows. A candidate that
  does not fit is a start of the result (`StartOverflows`), and a start has no
  more bytes than the whole (`BytesGrow`), so the whole does not fit either. That rests
  on the sums: `SumGrows` compares two of them, and `SumsExist` and `SumIsLast` show that
  the recursive function behind `Sum` is defined and what it computes. A tag that is
  still missing takes two bytes, no more than the quotes of any tag.

Where induction is needed, over the elements of a sum and for the longest start of
columns that fits (`FirstMissing`), it is replaced by the least number for which the
claim would fail (`LeastNumber`, from the well-foundedness of the natural numbers).

**Process**: `TypeOK` and

* `DsnInv`: an open has the file under its path from its creation until it
  finishes, and no other file is an open's unless its process was killed;
  a command runs only while its open waits for it, or was killed.
  `DsnIsOwnOutput` is part of it.
* `OpenInv`: opens not yet numbered run no command, one that resolves its DSN has
  a reservation, and those reserved or shown have a profile within range.
* `ExitInv`: how the exit code, the result of the serve task and the core's
  report determine one another. `ExitZeroIsVerified` and, with the two above,
  `CleanExitLeavesNoCommand` follow: a verified report has no open pending.
* `GraceInv`: the wait is the total of the file that was validated, which is at
  least that of each profile within range.

**Release**: `TypeOK`, `PublishedIsWhole`, `SuccessIsPublished` and

* `AttemptInv`: nothing is ever marked as a prerelease, an attempt under way has
  no outcome yet, and its bytes are a build of its commit.
* `PathInv`: what the step an attempt has reached says of the release: it is what
  the attempt read or it is gone; while assets go up it has only this build's;
  before the edit it is whole.

Every invariant and action property of a passing run has a theorem. Only model-checked
is liveness (`EveryCallAnswered`, `EveryShutdownReturns`, `EveryCallFinishes`,
`SigintEndsProcess`, `StopEndsProcess`, and the fairness of `KeepsContract`): the prover
has no rules for ENABLED and fairness.

## 6. Not modelled

* Envelope, error and schema encoding, canonical JSON, FFI ownership: data and
  memory, with no interleaving.
* The budgets of a schema (`core/protocol.rs` 1160-1200): one sum over a finished
  snapshot.
* `Connection::connect` has no module of its own: an open that fails or takes a
  connection is all the registry sees of it.
* `app/tools.rs`: one core call per tool, no state.
* A configuration without profiles (the DSN of the environment): it takes the
  same path as one profile.
* Of the release automation: building, packaging, archive inspection and the
  changelog, which are the local checks that may fail; several releases of one
  tag; the download directory a killed comparison leaves.
* `core/build.rs`: build-time I/O.
* Real time: deadlines are events without durations, so "within 25 ms" or the
  length of a grace cannot be stated, only that it ends.
* A worker thread that panics, and mutex poisoning that would follow.

## 7. Plan

Done: the registry and its contract, the worker session and its contract, the
result collector, the process with its DSN commands and configuration, the release;
the theorems of section 5. Left, in this order:

1. What one step of each liveness argument needs and the prover can check: that a
   quantity decreases and no step raises it again (the owner's list, the queue before
   a call), leaving to TLC only that the step is taken.
2. The operators of `HandleProtocol` and `ProfileConfig` by themselves: the moves of
   each state, and that a layer that is unset hides nothing.
