---------------------------- MODULE MCTimestamps ----------------------------
(***************************************************************************)
(* Instances of Timestamps for TLC.                                        *)
(***************************************************************************)
EXTENDS Timestamps

MCStart == -2
MCSpeeds == {<<1, 1>>, <<2, 3>>}
MCRatios == {<<1, 1>>, <<1, 2>>}
MCOutput == <<2, 3>>
MCMicro == <<3, 2>>
=============================================================================
