------------------------------ MODULE MCSource ------------------------------
(***************************************************************************)
(* Instances of Source for TLC.                                            *)
(***************************************************************************)
EXTENDS Source

\* The next-state relation alone: safety needs no fairness.
SafetySpec == Init /\ [][Next]_vars
=============================================================================
