----------------------------- MODULE IdealClock -----------------------------
(***************************************************************************)
(* What the PRU's clock libraries promise: a count of nanoseconds that     *)
(* never loses a tick of the counter behind it, however far apart it is    *)
(* read and however often that counter rolls over, and that a              *)
(* synchronisation shifts so that the event both sides saw has the time    *)
(* the host gave it.                                                       *)
(***************************************************************************)
EXTENDS Integers

CONSTANTS MULT, SCALE,  \* MULT / SCALE nanoseconds a tick
          Start,        \* what the clock may read when it is started
          HostTimes     \* the times a host may give an event

VARIABLES elapsed,      \* ticks since the clock was started
          offset,       \* nanoseconds between the clock and its counter
          reading,      \* what the clock was last read as
          event         \* the local time of the event being synchronised on
idealVars == <<elapsed, offset, reading, event>>

NoEvent == -1
Now == (MULT * elapsed) \div SCALE + offset

Init == /\ elapsed = 0 /\ offset \in Start
        /\ reading = offset /\ event = NoEvent

Advance == elapsed' = elapsed + 1 /\ UNCHANGED <<offset, reading, event>>

Read == reading' = Now /\ UNCHANGED <<elapsed, offset, event>>

(* The event happens and its local time is noted.                          *)
NoteEvent == /\ event = NoEvent
             /\ reading' = Now /\ event' = Now
             /\ UNCHANGED <<elapsed, offset>>

(* The host's time of the event arrives.                                   *)
Align(host) == /\ event # NoEvent
               /\ offset' = offset + (host - event)
               /\ event' = NoEvent
               /\ UNCHANGED <<elapsed, reading>>

Next == Advance \/ Read \/ NoteEvent \/ \E host \in HostTimes : Align(host)

Spec == Init /\ [][Next]_idealVars
=============================================================================
