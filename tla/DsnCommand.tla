----------------------------- MODULE DsnCommand -----------------------------
(***************************************************************************)
(* The command that yields the DSN of an open (resolve_with_context in     *)
(* config.rs): its output file, its process group, the loop that polls it  *)
(* beside cancellation, stop and deadline, and its termination.  The       *)
(* commands and the files outlive a server process that goes away; a later *)
(* process may get the same pid, and its file counter starts again.        *)
(***************************************************************************)
EXTENDS Naturals

CONSTANTS
  MaxOpens,   \* bound: opens in a behaviour, over all server processes
  Pids,       \* process ids
  NoOpen      \* no owner

ASSUME DsnAssumption ==
  /\ MaxOpens \in Nat \ {0}
  /\ Pids # {}
  /\ NoOpen \notin 1..MaxOpens

Open == 1..MaxOpens

\* postgres-mcp-dsn-<pid>-<counter>
Name == Pids \X (0..MaxOpens - 1)

VARIABLES
  pid, counter,   \* of the server process; NEXT_DSN_FILE
  files,          \* name |-> open whose command writes the file there, or NoOpen
  path,           \* open |-> name of its output file
  dsnPc,          \* open |-> where resolve_with_context is
  interrupted,    \* open |-> cancelled, stopped or past its deadline
  command,        \* open |-> its process
  dsnResult,      \* open |-> what resolve_with_context returned
  readFrom        \* history: open |-> whose output it took for its DSN

dsnVars == <<pid, counter, files, path, dsnPc, interrupted, command, dsnResult,
             readFrom>>

DsnPc == {"none", "create", "spawn", "poll", "terminate", "reap", "finished", "gone"}
Resolving == {"create", "spawn", "poll", "terminate", "reap"}

\* "printed" ended well with a usable DSN; "useless" ended well with none, with
\* too much or with invalid text.
Exited == {"printed", "useless", "failed", "killed"}
CommandState == {"none", "running"} \cup Exited

DsnInit ==
  /\ pid \in Pids
  /\ counter = 0
  /\ files = [n \in Name |-> NoOpen]
  /\ path = [o \in Open |-> CHOOSE n \in Name : TRUE]
  /\ dsnPc = [o \in Open |-> "none"]
  /\ interrupted = [o \in Open |-> FALSE]
  /\ command = [o \in Open |-> "none"]
  /\ dsnResult = [o \in Open |-> "none"]
  /\ readFrom = [o \in Open |-> NoOpen]

\* resolve_with_context returns: TempOutput removes the file of its path.
Resolved(o, result) ==
  /\ dsnPc' = [dsnPc EXCEPT ![o] = "finished"]
  /\ dsnResult' = [dsnResult EXCEPT ![o] = result]
  /\ files' = [files EXCEPT ![path[o]] = NoOpen]
  /\ interrupted' = [interrupted EXCEPT ![o] = FALSE]

\* Takes the next name and opens it, `free` telling whether it may.
Create(o, name, free) ==
  /\ dsnPc[o] = "create"
  /\ counter' = counter + 1
  /\ \/ /\ free
        /\ path' = [path EXCEPT ![o] = name]
        /\ files' = [files EXCEPT ![name] = IF @ = NoOpen THEN o ELSE @]
        /\ dsnPc' = [dsnPc EXCEPT ![o] = "spawn"]
        /\ UNCHANGED <<dsnResult, interrupted>>
     \/ /\ dsnPc' = [dsnPc EXCEPT ![o] = "finished"]
        /\ dsnResult' = [dsnResult EXCEPT ![o] = "failed"]
        /\ interrupted' = [interrupted EXCEPT ![o] = FALSE]
        /\ UNCHANGED <<path, files>>
  /\ UNCHANGED <<pid, command, readFrom>>

\* Mutant: an existing file is opened and used.
CreateOrReuseOutput(o) == Create(o, <<pid, counter>>, TRUE)

\* create_new: a file left there is an error, as is any other failure to create
\* one, and no file is removed then.
CreateOutput(o) == Create(o, <<pid, counter>>, files[<<pid, counter>>] = NoOpen)

\* bash starts in a session of its own, or does not start.
SpawnCommand(o) ==
  /\ dsnPc[o] = "spawn"
  /\ \/ /\ command' = [command EXCEPT ![o] = "running"]
        /\ dsnPc' = [dsnPc EXCEPT ![o] = "poll"]
        /\ UNCHANGED <<files, dsnResult, interrupted>>
     \/ Resolved(o, "failed") /\ UNCHANGED command
  /\ UNCHANGED <<pid, counter, path, readFrom>>

\* The top of the loop: an interruption is looked for before the child is; or
\* try_wait itself fails.
StopPolling(o) ==
  /\ dsnPc[o] = "poll"
  /\ dsnPc' = [dsnPc EXCEPT ![o] = "terminate"]
  /\ \/ /\ interrupted[o]
        /\ dsnResult' = [dsnResult EXCEPT ![o] = "timeout"]
     \/ /\ ~interrupted[o]
        /\ dsnResult' = [dsnResult EXCEPT ![o] = "failed"]
  /\ UNCHANGED <<pid, counter, files, path, interrupted, command, readFrom>>

\* The child has ended: its status, then the file at the path, is looked at.
ReadOutput(o) ==
  LET owner == files[path[o]] IN
  /\ dsnPc[o] = "poll"
  /\ ~interrupted[o]
  /\ command[o] \in Exited
  /\ \/ /\ command[o] \in {"printed", "useless"}
        /\ owner # NoOpen
        /\ readFrom' = [readFrom EXCEPT ![o] = owner]
        /\ Resolved(o, IF command[owner] = "printed" THEN "dsn" ELSE "failed")
     \/ /\ command[o] \in {"failed", "killed"}
        /\ Resolved(o, "failed")
        /\ UNCHANGED readFrom
  /\ UNCHANGED <<pid, counter, path, command>>

\* Mutant: the interruption is reported without terminating the command.
LeaveCommand(o) ==
  /\ dsnPc[o] = "terminate"
  /\ Resolved(o, dsnResult[o])
  /\ UNCHANGED <<pid, counter, path, command, readFrom>>

\* TERM, 50 ms, KILL to the process group, through /bin/kill, which need not
\* succeed.
Terminate(o) ==
  /\ dsnPc[o] = "terminate"
  /\ dsnPc' = [dsnPc EXCEPT ![o] = "reap"]
  /\ \/ UNCHANGED command
     \/ /\ command[o] = "running"
        /\ command' = [command EXCEPT ![o] = "killed"]
  /\ UNCHANGED <<pid, counter, files, path, interrupted, dsnResult, readFrom>>

\* child.wait
Reap(o) ==
  /\ dsnPc[o] = "reap"
  /\ command[o] # "running"
  /\ Resolved(o, dsnResult[o])
  /\ UNCHANGED <<pid, counter, path, command, readFrom>>

ResolveStep(o) ==
  CreateOutput(o) \/ SpawnCommand(o) \/ StopPolling(o) \/ ReadOutput(o)
    \/ Terminate(o) \/ Reap(o)

\* The client's cancellation or the connection deadline.
Interrupt(o) ==
  /\ dsnPc[o] \in Resolving
  /\ ~interrupted[o]
  /\ interrupted' = [interrupted EXCEPT ![o] = TRUE]
  /\ UNCHANGED <<pid, counter, files, path, dsnPc, command, dsnResult, readFrom>>

\* The command is the operator's own program and runs as long as it likes.
CommandExits(o) ==
  /\ command[o] = "running"
  /\ \E status \in {"printed", "useless", "failed"} :
       command' = [command EXCEPT ![o] = status]
  /\ UNCHANGED <<pid, counter, files, path, dsnPc, interrupted, dsnResult, readFrom>>

\* Another process starts: whatever the last one was doing is over, except for
\* its commands and its files.
LoseResolvers ==
  /\ pid' \in Pids
  /\ counter' = 0
  /\ path' = [o \in Open |-> CHOOSE n \in Name : TRUE]
  /\ dsnPc' = [o \in Open |-> IF dsnPc[o] = "none" THEN "none" ELSE "gone"]
  /\ interrupted' = [o \in Open |-> FALSE]
  /\ dsnResult' = [o \in Open |-> "none"]
  /\ readFrom' = [o \in Open |-> NoOpen]
  /\ UNCHANGED <<files, command>>

DsnTypes ==
  /\ pid \in Pids
  /\ counter \in 0..MaxOpens
  /\ files \in [Name -> Open \cup {NoOpen}]
  /\ path \in [Open -> Name]
  /\ dsnPc \in [Open -> DsnPc]
  /\ interrupted \in [Open -> BOOLEAN]
  /\ command \in [Open -> CommandState]
  /\ dsnResult \in [Open -> {"none", "dsn", "failed", "timeout"}]
  /\ readFrom \in [Open -> Open \cup {NoOpen}]

=============================================================================
