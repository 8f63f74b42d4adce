---------------------------- MODULE CoreContract ----------------------------
(***************************************************************************)
(* What Core promises the process that owns it, whatever its workers and   *)
(* callers do: handles are reserved and entered only while it runs, it is  *)
(* stopped once, and the report it then freezes covers every handle it     *)
(* still shows or still waits for.  CoreRegistry implements it             *)
(* (ImplementsContract, KeepsContract); ServerProcess relies on it.        *)
(***************************************************************************)

CONSTANT Handle

VARIABLES
  lifecycle,   \* "Running", "Stopping" or "Stopped"
  pending,     \* opens in progress
  handles,     \* handles the registry shows
  reported,    \* handles of the frozen report
  uncertain,   \* those it does not call verified
  wedged       \* a call holds the registry mutex and never releases it

coreVars == <<lifecycle, pending, handles, reported, uncertain, wedged>>

Init ==
  /\ lifecycle = "Running"
  /\ pending = {}
  /\ handles = {}
  /\ reported = {}
  /\ uncertain = {}
  /\ wedged = FALSE

Reserve(h) ==
  /\ ~wedged
  /\ lifecycle = "Running"
  /\ h \notin pending \cup handles
  /\ pending' = pending \cup {h}
  /\ UNCHANGED <<lifecycle, handles, reported, uncertain, wedged>>

\* An open ends in an entry, which only a running core makes, or in nothing.
Enter(h) ==
  /\ ~wedged
  /\ lifecycle = "Running"
  /\ h \in pending
  /\ pending' = pending \ {h}
  /\ handles' = handles \cup {h}
  /\ UNCHANGED <<lifecycle, reported, uncertain, wedged>>

Abandon(h) ==
  /\ ~wedged
  /\ h \in pending
  /\ pending' = pending \ {h}
  /\ UNCHANGED <<lifecycle, handles, reported, uncertain, wedged>>

\* A second call on a closed handle.
Wedge ==
  /\ ~wedged
  /\ lifecycle = "Running"
  /\ wedged' = TRUE
  /\ UNCHANGED <<lifecycle, pending, handles, reported, uncertain>>

Stop ==
  /\ ~wedged
  /\ lifecycle = "Running"
  /\ lifecycle' = "Stopping"
  /\ UNCHANGED <<pending, handles, reported, uncertain, wedged>>

\* Nothing the core still shows or waits for is missing from the report, and
\* an open still in progress is never called verified.
Freeze ==
  /\ ~wedged
  /\ lifecycle = "Stopping"
  /\ lifecycle' = "Stopped"
  /\ reported' \in SUBSET Handle
  /\ handles \cup pending \subseteq reported'
  /\ uncertain' \in SUBSET reported'
  /\ pending \subseteq uncertain'
  /\ UNCHANGED <<pending, handles, wedged>>

Next ==
  \/ \E h \in Handle : Reserve(h) \/ Enter(h) \/ Abandon(h)
  \/ Wedge \/ Stop \/ Freeze

Spec == Init /\ [][Next]_coreVars

\* A stop that was accepted comes to its report.
FairSpec == Spec /\ WF_coreVars(Freeze)

=============================================================================
