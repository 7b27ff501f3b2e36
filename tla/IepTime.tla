------------------------------ MODULE IepTime ------------------------------
(***************************************************************************)
(* struct iep_time of "C lib/include/nesl_pru_iep.h", the simpler clock    *)
(* measure_time_sync uses: 5 ns for every tick of the 32-bit IEP counter,  *)
(* plus an offset to the host's time.  The counter ticks between any two   *)
(* calls; a client reads at will, notes the time of an event (T1) and      *)
(* adjusts when the host's time of it (T2) arrives.                        *)
(***************************************************************************)
EXTENDS Integers

CONSTANTS TickNs,     \* nanoseconds a tick, 5 in IEP_CNT_TO_NS
          U32,        \* values of the counter and of a uint32_t, 2^32
          U64,        \* values of a uint64_t
          HostTimes,  \* timestamps the host may send
          MaxGap,     \* bound: ticks between two reads
          MaxTicks    \* bound: ticks until the model stops

ASSUME IepAssumption ==
  /\ TickNs \in Nat /\ U32 \in Nat \ {0} /\ U64 \in Nat
  /\ MaxTicks \in Nat /\ MaxGap \in 1 .. U32 - 1
  /\ HostTimes \subseteq Nat
  /\ \A t \in HostTimes \cup {0} : t + TickNs * MaxTicks < U64

(* A read comes before the products of the next one need more than 32 bits.*)
ASSUME ReadAssumption == TickNs * MaxGap < U32

VARIABLES cnt,                        \* the hardware counter, IEP_CNT
          ts_ns, last_iep_cnt, offset,  \* struct iep_time
          ts_pru,                     \* T1, NoEvent if no synchronisation is on
          reading,                    \* what iep_get_time returned last
          ticks,                      \* history: ticks since init_iep_time
          polled                      \* history: the value of ticks at the last read
vars == <<cnt, ts_ns, last_iep_cnt, offset, ts_pru, reading, ticks, polled>>

NoEvent == -1

(* init_iep_time restarts the timer and zeroes the counter.                *)
Init == /\ cnt = 0
        /\ ts_ns = 0 /\ last_iep_cnt = 0 /\ offset = 0
        /\ ts_pru = NoEvent /\ reading = 0
        /\ ticks = 0 /\ polled = 0

Tick == /\ ticks < MaxTicks
        /\ ticks - polled < MaxGap
        /\ cnt' = (cnt + 1) % U32
        /\ ticks' = ticks + 1
        /\ UNCHANGED <<ts_ns, last_iep_cnt, offset, ts_pru, reading, polled>>

(* A product of two uint32_t, cut to 32 bits before it is widened.         *)
IEP_CNT_TO_NS(count) == (count * TickNs) % U32

(* Mutant: a counter that rolled over is subtracted the wrong way around.  *)
AdvanceBackwards ==
  IF cnt < last_iep_cnt
    THEN IEP_CNT_TO_NS(last_iep_cnt - cnt)
    ELSE IEP_CNT_TO_NS(cnt - last_iep_cnt)

(* What a read adds.  On a rollover UINT32_MAX - last_iep_cnt + iep_cnt.   *)
AdvanceNs ==
  IF cnt < last_iep_cnt
    THEN IEP_CNT_TO_NS((U32 - 1 - last_iep_cnt) + cnt)
    ELSE IEP_CNT_TO_NS(cnt - last_iep_cnt)

ReadCounter ==
  /\ ts_ns' = (ts_ns + AdvanceNs) % U64
  /\ last_iep_cnt' = cnt
  /\ reading' = (ts_ns' + offset) % U64
  /\ polled' = ticks
  /\ UNCHANGED <<cnt, offset, ticks>>

iep_get_time == ReadCounter /\ UNCHANGED ts_pru

(* The client asserts its pin and reads T1.                                *)
StartSync == /\ ts_pru = NoEvent
             /\ ReadCounter
             /\ ts_pru' = reading'

iep_adj_time(ts_host) ==
  /\ ts_pru # NoEvent
  /\ offset' = offset + (ts_host - ts_pru)
  /\ ts_pru' = NoEvent
  /\ UNCHANGED <<cnt, ts_ns, last_iep_cnt, reading, ticks, polled>>

Next == \/ Tick \/ iep_get_time \/ StartSync
        \/ \E ts_host \in HostTimes : iep_adj_time(ts_host)

Spec == Init /\ [][Next]_vars

-----------------------------------------------------------------------------
(* "handles roll over checking": read often enough for its 32-bit products *)
(* (every 4.2 s), and however the reads are spaced, the clock with its     *)
(* adjustments is the ideal one, but for the tick that is lost every time  *)
(* the counter rolls over between two reads.                               *)
Clock == INSTANCE IdealClock WITH
           MULT <- TickNs, SCALE <- 1, Start <- {0},
           elapsed <- ticks - ticks \div U32, event <- ts_pru
ClockButForRollovers == Clock!Spec
=============================================================================
