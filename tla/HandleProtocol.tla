--------------------------- MODULE HandleProtocol ---------------------------
(***************************************************************************)
(* What a handle shows its client (protocol.rs) and which operations its   *)
(* worker accepts in the state it published (operation_precondition in     *)
(* worker.rs): two tables kept in two files, that have to agree.           *)
(***************************************************************************)

Transactions == {"Idle", "Active", "InTransaction", "InError", "Unknown"}

\* BackendConnectionStatus, and the ConnectionStatus a client sees for it.
Connections == {"Ok", "Bad", "Unknown"}
Protocol(connection) == IF connection = "Ok" THEN "Ok" ELSE "Bad"

\* PublishedHandle, without the names.
PublishedHandle ==
  [connection : Connections, transaction : Transactions,
   observed : BOOLEAN, dirty : BOOLEAN, closed : BOOLEAN]

\* The state of a handle that has just been opened.
FreshHandle ==
  [connection |-> "Ok", transaction |-> "Idle",
   observed |-> FALSE, dirty |-> FALSE, closed |-> FALSE]

\* The nullable transaction_open.
TransactionOpen(transaction) ==
  CASE transaction = "Idle" -> "false"
    [] transaction \in {"InTransaction", "InError"} -> "true"
    [] OTHER -> "null"

\* PublishedHandle::state.  `busy` is left out: every path of the adapter has
\* cleared it by the time a worker observes its connection.
HandleState(entry) ==
  LET transaction == IF entry.closed THEN "Unknown" ELSE entry.transaction IN
  [connection  |-> IF entry.closed THEN "Closed" ELSE Protocol(entry.connection),
   transaction |-> transaction,
   open        |-> TransactionOpen(transaction),
   observed    |-> entry.observed /\ ~entry.closed]

Operations == {"get_schema", "open_read", "open_write", "query", "commit",
               "rollback", "close"}

\* next_moves of a consistent state.
NextMoves(state) ==
  CASE state.connection = "Closed" -> {}
    [] state.connection = "Bad" \/ state.transaction = "Unknown" -> {"close"}
    [] state.connection = "Ok" /\ state.transaction = "Active" -> {}
    [] state.connection = "Ok" /\ state.transaction = "InError" -> {"rollback"}
    [] state.connection = "Ok" /\ state.transaction = "InTransaction" ->
         {"query", "commit", "rollback"}
    [] state.connection = "Ok" /\ state.transaction = "Idle" ->
         {"get_schema", "close"}
           \cup (IF state.observed THEN {"open_read", "open_write"} ELSE {})

\* Mutant: rollback is taken for the end of a healthy transaction only.
RollsBackHealthy(transaction) == transaction = "InTransaction"

\* An idle rollback is an accepted no-op.
RollsBack(transaction) == transaction \notin {"Active", "Unknown"}

\* The operations operation_precondition lets through.
Accepted(entry) ==
  LET transaction == entry.transaction IN
  IF entry.closed THEN {} ELSE
    {op \in Operations :
       CASE op = "get_schema" -> transaction = "Idle"
         [] op \in {"open_read", "open_write"} ->
              entry.observed /\ transaction = "Idle"
         [] op = "query" -> entry.observed /\ transaction = "InTransaction"
         [] op = "commit" -> transaction = "InTransaction"
         [] op = "rollback" -> RollsBack(transaction)
         [] op = "close" -> transaction \notin {"InTransaction", "InError"}}

=============================================================================
