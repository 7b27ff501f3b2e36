------------------------------ MODULE PruTime ------------------------------
(***************************************************************************)
(* struct pru_time of "C lib/include/nesl_pru_time.h": absolute time in    *)
(* nanoseconds kept from a free-running hardware counter (the IEP timer)   *)
(* that rolls over, and adjusted to a host's timestamps.  The counter      *)
(* ticks between any two calls.  The client's use is that of the programs  *)
(* in C lib/examples: read at will; note the time of an event (T1), and    *)
(* when the host's time of it arrives (T2), adjust by T2 - T1.             *)
(*                                                                         *)
(* slew_cc is NULL, as both programs pass it.                              *)
(***************************************************************************)
EXTENDS Integers

CONSTANTS MULT, SCALE,  \* mult, and 2^shift: MULT / SCALE nanoseconds a tick
          COUNTER,      \* values of the counter, 2^bits
          U64,          \* values of a u64
          StartCounts,  \* counter values init_pru_time may find
          HostTimes,    \* timestamps the host may send
          MaxTicks      \* bound: ticks until the model stops

ASSUME RateAssumption == MULT \in Nat /\ SCALE \in Nat \ {0}
ASSUME CounterAssumption == COUNTER \in Nat /\ COUNTER >= 2
ASSUME StartAssumption == StartCounts \subseteq 0 .. COUNTER - 1
ASSUME TicksAssumption == MaxTicks \in Nat
(* A u64 holds every product of cyclecounter_cyc2ns, and every time the    *)
(* clock shows before the model stops.                                     *)
ASSUME WidthAssumption ==
  /\ U64 \in Nat
  /\ MULT * COUNTER + SCALE <= U64
  /\ \A t \in StartCounts \cup HostTimes : t \in Nat /\ t + MULT * MaxTicks < U64

VARIABLES cnt,          \* the hardware counter, IEP_CNT
          cycle_last, nsec, frac,     \* struct timecounter
          ts_pru,       \* T1 of the synchronisation under way, NoEvent if none
          reading,      \* what read_pru_time returned last
          ticks,        \* history: ticks since timecounter_init read the counter
          polled,       \* history: the value of ticks at the last read
          offset        \* history: the start value and all adjustments

tc == <<cycle_last, nsec, frac>>
vars == <<cnt, cycle_last, nsec, frac, ts_pru, reading, ticks, polled, offset>>

NoEvent == -1

(* timecounter_init: IEP_CNT is loaded as the start time, in ticks, before *)
(* cc->read loads it as the first cycle_last.                              *)
Init == /\ \E start, first \in StartCounts :
             /\ start <= first
             /\ nsec = start /\ cycle_last = first /\ cnt = first
        /\ frac = 0
        /\ ts_pru = NoEvent /\ reading = nsec
        /\ ticks = 0 /\ polled = 0 /\ offset = nsec

(* The counter rolls over.  "You should call this periodically": the       *)
(* client reads the clock before it has rolled over all the way.           *)
Tick == /\ ticks < MaxTicks
        /\ ticks - polled < COUNTER - 1
        /\ cnt' = (cnt + 1) % COUNTER
        /\ ticks' = ticks + 1
        /\ UNCHANGED <<tc, ts_pru, reading, polled, offset>>

(* (cycle_now - cycle_last) & mask                                         *)
CycleDelta == (cnt - cycle_last) % COUNTER
(* (ns * cc->mult) + *frac                                                 *)
Product == (CycleDelta * MULT + frac) % U64

timecounter_read ==
  /\ nsec' = (Product \div SCALE + nsec) % U64
  /\ frac' = Product % SCALE
  /\ cycle_last' = cnt
  /\ reading' = nsec'
  /\ polled' = ticks
  /\ UNCHANGED <<cnt, ticks, offset>>

read_pru_time == timecounter_read /\ UNCHANGED ts_pru

(* The client reads T1 and asserts the pin.                                *)
StartSync == /\ ts_pru = NoEvent
             /\ timecounter_read
             /\ ts_pru' = nsec'

(* Mutant: delta = -delta is missing, the clock only ever jumps ahead.     *)
AdjWithoutNegation(ts_host) ==
  /\ ts_pru # NoEvent
  /\ nsec' = (nsec + IF ts_host > ts_pru THEN ts_host - ts_pru
                                         ELSE ts_pru - ts_host) % U64
  /\ offset' = offset + (ts_host - ts_pru)
  /\ ts_pru' = NoEvent
  /\ UNCHANGED <<cnt, cycle_last, frac, reading, ticks, polled>>

(* T2 has arrived: the clock jumps by the signed difference.               *)
adj_pru_time(ts_host) ==
  /\ ts_pru # NoEvent
  /\ nsec' = (nsec + (ts_host - ts_pru)) % U64
  /\ offset' = offset + (ts_host - ts_pru)
  /\ ts_pru' = NoEvent
  /\ UNCHANGED <<cnt, cycle_last, frac, reading, ticks, polled>>

Next == \/ Tick \/ read_pru_time \/ StartSync
        \/ \E ts_host \in HostTimes : adj_pru_time(ts_host)

Spec == Init /\ [][Next]_vars

-----------------------------------------------------------------------------
Clock == INSTANCE IdealClock WITH
           Start <- StartCounts, elapsed <- ticks, event <- ts_pru

TypeOK == /\ cnt \in 0 .. COUNTER - 1 /\ cycle_last \in 0 .. COUNTER - 1
          /\ nsec \in 0 .. U64 - 1 /\ reading \in 0 .. U64 - 1
          /\ frac \in 0 .. SCALE - 1
          /\ ts_pru \in {NoEvent} \cup (0 .. U64 - 1)
          /\ polled \in 0 .. ticks /\ ticks \in 0 .. MaxTicks
          /\ offset \in Int

(* nsec and frac together account for every tick up to the last read, with *)
(* nothing lost where the counter rolled over or a fraction was cut off.   *)
Exact == nsec * SCALE + frac = MULT * polled + offset * SCALE

(* The counter is as far past cycle_last as ticks went by since the last   *)
(* read, once around at most: the difference modulo 2^bits is exact.       *)
CounterInv ==
  LET gap == ticks - polled IN
  /\ gap <= COUNTER - 1
  /\ cnt = IF cycle_last + gap < COUNTER THEN cycle_last + gap
                                         ELSE cycle_last + gap - COUNTER

(* T1 lies between the last adjustment and now, so that no adjustment      *)
(* takes nsec below zero or past the greatest timestamp.                   *)
SyncInv == /\ ts_pru # NoEvent => offset <= ts_pru /\ ts_pru <= nsec
           /\ \E t \in StartCounts \cup HostTimes : offset <= t

IInv == TypeOK /\ Exact /\ CounterInv /\ SyncInv

(* The clock is the ideal one: every reading is the time of all the ticks  *)
(* so far plus the adjustments, also while a synchronisation is under way. *)
ClockSpec == Clock!Spec
=============================================================================
