--------------------------- MODULE HandleContract ---------------------------
(***************************************************************************)
(* What one handle promises the client that calls it, one call after       *)
(* another: which state the handle may show after each answer.  A client   *)
(* knows nothing else of the session.  WorkerSession implements it.        *)
(***************************************************************************)
EXTENDS HandleProtocol

VARIABLES
  view,   \* the HandleState in the last answer
  listed, \* the HandleState that list_handles shows
  call,   \* operation in progress, or "none"
  reply   \* answer to the last call, "none" before it

clientVars == <<view, listed, call, reply>>

ClosedView == [connection |-> "Closed", transaction |-> "Unknown",
               open |-> "null", observed |-> FALSE]

Views == {HandleState(entry) : entry \in PublishedHandle} \ {ClosedView}

Init ==
  /\ view = HandleState(FreshHandle)
  /\ listed = view
  /\ call = "none"
  /\ reply = "none"

\* The process stops a handle by a call of its own.
Call(o) ==
  /\ call = "none"
  /\ view # ClosedView
  /\ call' = o
  /\ reply' = "none"
  /\ UNCHANGED <<view, listed>>

\* While a call is in progress its publication goes through states that the
\* answer may take back; the schema is shown as observed only if it was, or to be
\* by this call, and nothing but its end shows a handle closed.
Publishing ==
  /\ call # "none"
  /\ \/ listed' = ClosedView /\ call \in {"close", "shutdown"}
     \/ /\ listed' \in Views
        /\ listed'.observed =>
             view.observed \/ (call = "get_schema" /\ listed'.transaction = "Idle")
  /\ UNCHANGED <<view, call, reply>>

\* An answer carries what list_handles already shows.
Answer(r) ==
  /\ call' = "none"
  /\ reply' = r
  /\ view' = listed
  /\ UNCHANGED listed

Shows(transactions) ==
  /\ view' \in Views
  /\ view'.connection = "Ok"
  /\ view'.transaction \in transactions

KeepsObservation == view'.observed = view.observed

\* Nothing was done.  What is shown changes only after an unknown commit, whose
\* handle is observed again.
Refused ==
  /\ call \notin {"none", "shutdown"}
  /\ Answer("refused")
  /\ view' \in Views
  /\ KeepsObservation
  /\ view.transaction # "Unknown" => view' = view

SchemaRead ==
  /\ call = "get_schema"
  /\ view.transaction = "Idle"
  /\ Answer("ok")
  /\ Shows({"Idle"})
  /\ view'.observed

\* Only a client that has seen the schema opens a transaction.
Opened ==
  /\ call \in {"open_read", "open_write"}
  /\ view.transaction = "Idle" /\ view.observed
  /\ Answer("ok")
  /\ Shows({"InTransaction"})
  /\ KeepsObservation

\* A statement may end the transaction it runs in.
Queried ==
  /\ call = "query"
  /\ view.transaction = "InTransaction" /\ view.observed
  /\ Answer("ok")
  /\ Shows({"InTransaction", "Idle"})
  /\ KeepsObservation

Committed ==
  /\ call = "commit"
  /\ view.transaction = "InTransaction"
  /\ Answer("ok")
  /\ Shows({"Idle"})
  /\ view'.observed => view.observed

RolledBack ==
  /\ call = "rollback"
  /\ \/ Answer("noop") /\ view.transaction = "Idle"
     \/ Answer("ok") /\ view.transaction \in {"InTransaction", "InError"}
  /\ Shows({"Idle"})
  /\ KeepsObservation

\* Commits do not fail: they are done, refused, or unknown.
Failed ==
  /\ call \notin {"none", "commit", "close", "shutdown"}
  /\ Answer("failed")
  /\ view' \in Views
  /\ KeepsObservation

\* The client has to look at the schema again; after a commit at the database.
OutcomeUnknown ==
  /\ call \notin {"none", "close", "shutdown"}
  /\ Answer("unknown")
  /\ view' \in Views
  /\ ~view'.observed
  /\ call = "commit" =>
       view'.connection = "Bad" /\ view'.transaction = "Unknown"

Ended ==
  /\ \/ call = "close" /\ Answer("ok")
     \/ call = "shutdown" /\ (Answer("verified") \/ Answer("uncertain"))
  /\ view' = ClosedView

Next ==
  \/ \E o \in Operations \cup {"shutdown"} : Call(o)
  \/ Publishing
  \/ Refused \/ SchemaRead \/ Opened \/ Queried \/ Committed \/ RolledBack
  \/ Failed \/ OutcomeUnknown \/ Ended

Spec == Init /\ [][Next]_clientVars

=============================================================================
