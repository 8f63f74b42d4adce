------------------------------ MODULE MCSession ------------------------------
(* Instances of WorkerSession for TLC.                                     *)
EXTENDS WorkerSession
=============================================================================
