------------------------------ MODULE MCProcess ------------------------------
(* Instances of ServerProcess for TLC.                                     *)
EXTENDS ServerProcess, TLC

\* Two limits within the range, of which the smaller is built in, and one out of
\* it.
Limits == [f \in Field |-> {1, 2}]
Least == [f \in Field |-> 1]
OutOfRange == 3

Nothing == [f \in Field |-> Unset]
Only(f, v) == [Nothing EXCEPT ![f] = v]

\* A file that loads: its top level puts right a default that is out of range, and
\* a profile asks for a longer shutdown beside one that is out of range.
Mixed == [defaults |-> Only("shutdown_total", OutOfRange),
          legacy |-> Only("shutdown_total", 1),
          profiles |-> "a" :> Only("shutdown_total", 2)
                       @@ "b" :> Only("shutdown_total", OutOfRange)]

\* Files that do not: a base out of range, no profile.
Refused == [defaults |-> Only("max_handles", OutOfRange), legacy |-> Nothing,
            profiles |-> "a" :> Only("max_handles", 1)]
Empty == [defaults |-> Nothing, legacy |-> Nothing, profiles |-> <<>>]

AllFiles == {Mixed, Refused, Empty}
=============================================================================
