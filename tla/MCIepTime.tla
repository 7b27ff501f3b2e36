----------------------------- MODULE MCIepTime -----------------------------
(* A counter that rolls over several times, for TLC.                       *)
EXTENDS IepTime
MCHostTimes == {0, 300}
=============================================================================
