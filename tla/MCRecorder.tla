----------------------------- MODULE MCRecorder -----------------------------
(***************************************************************************)
(* Instances of Recorder for TLC: the second packet belongs to a stream    *)
(* that is not recorded, the third has no pts.                             *)
(***************************************************************************)
EXTENDS Recorder

SecondUnmapped == {2}
ThirdUntimed == {3}
=============================================================================
