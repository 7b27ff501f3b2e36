------------------------------ MODULE PruClock ------------------------------
(***************************************************************************)
(* The pru_clock program of C lib/examples/pru_clock: firmware that keeps  *)
(* a PruTime synchronised and writes it into shared memory all the time    *)
(* (pru_main.c), a host thread that polls it there, and one that sends the *)
(* captured time of the firmware's pulse (host_main.c).                    *)
(*                                                                         *)
(* The host's clock runs at the rate of the PRU's.  One thing at a time    *)
(* makes life harder (scenario): the polls, which may see half a store;    *)
(* the host's clock being set; or a failing read of the captured time.     *)
(***************************************************************************)
EXTENDS PruTime, Sequences

CONSTANTS SYNC_PERIOD_NS,
          WORD,           \* values of half a u64, of one memory access
          HostOffsets,    \* what the host's clock may be ahead of the tick count
          MaxSteps,       \* bound: how often it is set
          Capacity,       \* timestamps the ring has room for, 127
          MaxReadErrors   \* bound: how often read() on the PTP device fails

ASSUME ClockAssumption ==
  /\ SCALE = 1 /\ WORD \in Nat \ {0} /\ WORD * WORD = U64
  /\ SYNC_PERIOD_NS \in Nat /\ SYNC_PERIOD_NS + MULT * MaxTicks < U64
  /\ MaxSteps \in Nat /\ MaxReadErrors \in Nat /\ Capacity \in Nat \ {0}
  /\ HostOffsets \subseteq Nat
  /\ 0 \in HostTimes   \* what is sent when a read has failed
  /\ \A h \in HostOffsets, t \in 0 .. MaxTicks : h + MULT * t \in HostTimes

VARIABLES
  pru,               \* where the firmware is in main
  last_ts, first,
  data,              \* T2, NoData while status is not 0
  value,             \* the time it is about to store
  lo, hi,            \* the two words of *ts_mem
  ptp,               \* captured times that wait in the PTP device
  ring,              \* send_to_pru_rbuffer
  send, nano_ts,     \* where send_pru_thread is, and its local
  errors,            \* reads of the device that have failed
  poll, low,         \* where poll_time_thread is, and the word it has loaded
  scenario,          \* what the host does besides: it polls, sets its clock, or fails to read
  host,              \* the host clock's offset
  steps,             \* history: how often it was set
  pulseHost,         \* history: host when the last pulse was captured
  synced,            \* history: pulseHost at the last adjustment, None before
  syncTick, adjTick, \* history: ticks at the last decision to synchronise, adjustment
  early,             \* history: synchronisations within a period of the last
  written,           \* history: the time whose low word was stored last
  from, stable       \* history: the time low is of; the high word has not changed since

firmware == <<pru, last_ts, first, data, value>>
memory == <<lo, hi>>
sender == <<ring, send, nano_ts, errors>>
poller == <<poll, low>>
world == <<host, steps, scenario>>
syncs == <<pulseHost, synced, syncTick, adjTick, early>>
history == <<written, from, stable>>
allvars == <<vars, firmware, memory, ptp, sender, poller, world, syncs, history>>

NoData == -1

ClockInit ==
  /\ Init
  /\ pru = "loop" /\ last_ts = 0 /\ first = TRUE /\ data = NoData /\ value = 0
  /\ lo = 0 /\ hi = 0 /\ ptp = << >> /\ ring = << >>
  /\ send = "read" /\ nano_ts = 0 /\ errors = 0
  /\ poll = "lo" /\ low = 0 /\ written = 0 /\ from = 0 /\ stable = TRUE
  /\ scenario \in {"polls", "sets", "fails"} /\ host \in HostOffsets /\ steps = 0 /\ pulseHost = host
  /\ synced = NoData /\ syncTick = 0 /\ adjTick = 0 /\ early = 0

-----------------------------------------------------------------------------
(* The firmware.                                                           *)

(* if (((ts - last_ts) > SYNC_PERIOD_NS) || first), in a u64.              *)
(* Mutant: the difference is compared as a signed one.                     *)
DueSigned(ts) == first \/ ts - last_ts > SYNC_PERIOD_NS

Due(ts) == first \/ (ts - last_ts) % U64 > SYNC_PERIOD_NS

(* Mutant: last_ts is not set.                                             *)
DecideForgetful ==
  /\ pru = "loop"
  /\ read_pru_time
  /\ first' = FALSE
  /\ IF Due(nsec')
       THEN /\ pru' = "T1" /\ syncTick' = ticks
            /\ early' = early + (IF ~first /\ MULT * (ticks - syncTick) <= SYNC_PERIOD_NS
                                   THEN 1 ELSE 0)
       ELSE /\ pru' = "read" /\ UNCHANGED <<syncTick, early>>
  /\ UNCHANGED <<last_ts, data, value, memory, ptp, sender, poller, world, pulseHost,
                 synced, adjTick, history>>

Decide ==
  /\ pru = "loop"
  /\ read_pru_time
  /\ first' = FALSE
  /\ IF Due(nsec')
       THEN /\ last_ts' = nsec' /\ pru' = "T1" /\ syncTick' = ticks
            /\ early' = early + (IF ~first /\ MULT * (ticks - syncTick) <= SYNC_PERIOD_NS
                                   THEN 1 ELSE 0)
       ELSE /\ pru' = "read" /\ UNCHANGED <<last_ts, syncTick, early>>
  /\ UNCHANGED <<data, value, memory, ptp, sender, poller, world, pulseHost,
                 synced, adjTick, history>>

(* Mutant: T1 is the time the decision was made at.                        *)
PulseLate ==
  /\ pru = "T1"
  /\ ts_pru = NoEvent /\ timecounter_read /\ ts_pru' = last_ts
  /\ ptp' = Append(ptp, host + MULT * ticks)
  /\ pulseHost' = host /\ pru' = "await"
  /\ UNCHANGED <<last_ts, first, data, value, memory, sender, poller, world,
                 synced, syncTick, adjTick, early, history>>

(* T1 is read and the pin asserted; the device captures the edge.          *)
Pulse ==
  /\ pru = "T1"
  /\ StartSync
  /\ ptp' = Append(ptp, host + MULT * ticks)
  /\ pulseHost' = host /\ pru' = "await"
  /\ UNCHANGED <<last_ts, first, data, value, memory, sender, poller, world,
                 synced, syncTick, adjTick, early, history>>

(* Mutant: the wait for T2 does nothing else.                              *)
AwaitOnly ==
  /\ pru = "await"
  /\ ring # << >>
  /\ data' = Head(ring) /\ ring' = Tail(ring)
  /\ pru' = "read"
  /\ UNCHANGED <<vars, last_ts, first, value, memory, ptp, send, nano_ts, errors,
                 poller, world, syncs, history>>

(* rbuf_read_uint64, which may find nothing ...                            *)
Await ==
  /\ pru = "await"
  /\ IF ring = << >> THEN data' = NoData /\ UNCHANGED ring
                     ELSE data' = Head(ring) /\ ring' = Tail(ring)
  /\ pru' = "read"
  /\ UNCHANGED <<vars, last_ts, first, value, memory, ptp, send, nano_ts, errors,
                 poller, world, syncs, history>>

(* ... and in any case *ts_mem = read_pru_time(&time), in two words.       *)
ReadTime ==
  /\ pru = "read"
  /\ read_pru_time
  /\ value' = nsec' /\ pru' = "store lo"
  /\ UNCHANGED <<last_ts, first, data, memory, ptp, sender, poller, world, syncs, history>>

StoreLo ==
  /\ pru = "store lo"
  /\ lo' = value % WORD /\ pru' = "store hi"
  /\ written' = value
  /\ stable' = (poll = "hi" => stable /\ value \div WORD = from \div WORD)
  /\ UNCHANGED <<from, vars, last_ts, first, data, value, hi, ptp, sender, poller, world, syncs>>

(* Mutant: a high word that has not changed much is not stored.            *)
StoreHiSometimes ==
  /\ pru = "store hi"
  /\ hi' = (IF value \div WORD = hi + 1 THEN hi ELSE value \div WORD)
  /\ pru' = IF ts_pru = NoEvent THEN "loop" ELSE IF data = NoData THEN "await" ELSE "adjust"
  /\ UNCHANGED <<vars, last_ts, first, data, value, lo, ptp, sender, poller, world, syncs,
                 history>>

StoreHi ==
  /\ pru = "store hi"
  /\ hi' = value \div WORD
  /\ pru' = IF ts_pru = NoEvent THEN "loop" ELSE IF data = NoData THEN "await" ELSE "adjust"
  /\ UNCHANGED <<vars, last_ts, first, data, value, lo, ptp, sender, poller, world, syncs,
                 history>>

Adjust ==
  /\ pru = "adjust"
  /\ adj_pru_time(data)
  /\ synced' = pulseHost /\ adjTick' = ticks
  /\ pru' = "read" /\ data' = NoData
  /\ UNCHANGED <<last_ts, first, value, memory, ptp, sender, poller, world, pulseHost,
                 syncTick, early, history>>

-----------------------------------------------------------------------------
(* The host's threads.                                                     *)
SendRead ==
  /\ send = "read" /\ ptp # << >>
  /\ nano_ts' = Head(ptp) /\ ptp' = Tail(ptp) /\ send' = "write"
  /\ UNCHANGED <<vars, firmware, memory, ring, errors, poller, world, syncs, history>>

(* err is not looked at.                                                   *)
SendReadFails ==
  /\ send = "read" /\ errors < MaxReadErrors /\ scenario = "fails"
  /\ nano_ts' = 0 /\ errors' = errors + 1 /\ send' = "write"
  /\ UNCHANGED <<vars, firmware, memory, ptp, ring, poller, world, syncs, history>>

SendWrite ==
  /\ send = "write"
  /\ ring' = (IF Len(ring) < Capacity THEN Append(ring, nano_ts) ELSE ring)
  /\ send' = "read"
  /\ UNCHANGED <<vars, firmware, memory, ptp, nano_ts, errors, poller, world, syncs, history>>

PollLo ==
  /\ poll = "lo" /\ scenario = "polls"
  /\ low' = lo /\ poll' = "hi"
  /\ from' = written /\ stable' = (pru = "store hi" => written \div WORD = hi)
  /\ UNCHANGED <<written, vars, firmware, memory, ptp, sender, world, syncs>>

PollHi ==
  /\ poll = "hi"
  /\ poll' = "lo" /\ low' = 0 /\ from' = 0 /\ stable' = TRUE
  /\ UNCHANGED <<written, vars, firmware, memory, ptp, sender, world, syncs>>

-----------------------------------------------------------------------------
TickTock == Tick /\ UNCHANGED <<firmware, memory, ptp, sender, poller, world, syncs, history>>

(* The host's clock is set (external).                                     *)
SetHost ==
  /\ steps < MaxSteps /\ scenario = "sets"
  /\ host' \in HostOffsets \ {host} /\ steps' = steps + 1
  /\ UNCHANGED <<scenario, vars, firmware, memory, ptp, sender, poller, syncs, history>>

Firmware == Decide \/ Pulse \/ Await \/ ReadTime \/ StoreLo \/ StoreHi \/ Adjust
Send == SendRead \/ SendReadFails \/ SendWrite
Poll == PollLo \/ PollHi

ClockNext == Firmware \/ Send \/ Poll \/ TickTock \/ SetHost

(* The PRU runs; nothing is assumed of the host.                           *)
PruClockSpec == ClockInit /\ [][ClockNext]_allvars /\ WF_allvars(Firmware)

-----------------------------------------------------------------------------
(* As long as no read of the device fails, the clock shows the host's time *)
(* of the last pulse plus all ticks since, whatever the answer took and    *)
(* however often the counter has rolled over meanwhile.                    *)
SyncedToHost == synced # NoData /\ errors = 0 => offset = synced

(* The decision compares times from before and after an adjustment, so the *)
(* first jump, and each one after the host's clock was set, may cause one  *)
(* synchronisation that is not due; never two.                             *)
EarlySyncsSettle == errors = 0 => early <= 1 + steps

(* A jump back, the difference being unsigned, never makes the clock wait  *)
(* longer than a period after the adjustment, and two readings.            *)
NeverLate ==
  [][pru = "loop" /\ pru' = "read" =>
       MULT * (ticks - adjTick) <= SYNC_PERIOD_NS + 2 * MULT * (COUNTER - 1)]_allvars

(* A poll returns the time that was written last when it began, whole; or   *)
(* the high word was changed before it loaded that.                         *)
PolledIsWhole == poll = "hi" /\ stable => hi * WORD + low = from

(* "The PRU1 timestamp is continuously updated", also while an answer is   *)
(* awaited that never comes.                                               *)
ContinuouslyUpdated == []<>(pru = "store hi")
=============================================================================
