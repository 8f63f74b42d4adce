----------------------------- MODULE MCRegistry -----------------------------
(* Instances of CoreRegistry for TLC.                                      *)
EXTENDS CoreRegistry, TLC

CONSTANTS p1, p2

\* Profiles whose handles and requests are scarce.
OneProfile == {p1}
TwoProfiles == {p1, p2}
OneEach == [p \in Profiles |-> 1]
TwoEach == [p \in Profiles |-> 2]

\* A profile that refuses a second call, and one that queues it.
OneOrTwo == [p \in Profiles |-> IF p = p1 THEN 1 ELSE 2]

\* Calls are interchangeable, and so are the callers of shutdown.
Symmetry == Permutations(Requests) \cup Permutations(Stoppers)
=============================================================================
