------------------------------ MODULE MCResult ------------------------------
(* Instances of ResultCollector for TLC.                                   *)
EXTENDS ResultCollector, TLC

\* A digit, and a letter beside a character that is escaped.
Texts == {"7", "a\""}
Digits == {"7"}
Lengths == "7" :> 1 @@ "a\"" :> 2
JsonLengths == "7" :> 3 @@ "a\"" :> 5 @@ "null" :> 4
=============================================================================
