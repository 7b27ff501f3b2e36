----------------------------- MODULE MCRBuffer -----------------------------
(* A small ring for TLC, used with every call width or, as the time        *)
(* synchronisation programs use it, with uint64 calls only.                *)
EXTENDS RBuffer
CONSTANTS v1, v2
VARIABLE timestamps     \* only uint64 calls are made

MCValue == {v1, v2}
MCBothWidths == {1, 2}

MCInit == Init /\ timestamps \in BOOLEAN
MCNext == /\ Next
          /\ timestamps => Len(wdata') # 1 /\ rn' # 1
          /\ UNCHANGED timestamps
MCSpec == MCInit /\ [][MCNext]_<<vars, timestamps>>

(* A timestamp is never torn or mismatched where only timestamps are sent. *)
OnlyWholeTimestamps == timestamps => WholeTimestamps
=============================================================================
