----------------------------- MODULE MCPruClock -----------------------------
(* A counter of two bits and a host clock that is set at most once.        *)
EXTENDS PruClock
MCHostOffsets == {0, 60}
MCHostTimes == {h + MULT * t : h \in MCHostOffsets, t \in 0 .. MaxTicks}
=============================================================================
