---------------------------- MODULE MeasureSync ----------------------------
(***************************************************************************)
(* The accuracy measurement of C lib/examples/measure_time_sync.  An       *)
(* external microcontroller drives two pins at once: the firmware          *)
(* (pru_main.c) polls one of them and sends its time of every rising edge, *)
(* the PTP device captures both edges of the other as channel 1, and       *)
(* channel 0 is the PRU's own synchronisation pulse.  Two host threads     *)
(* (host_main.c, host_qot.c) store the two times of an edge in             *)
(* last_pru_ts and last_host_ts, meet in ts_ready without a lock, and      *)
(* whichever finds both bits set prints a row.                             *)
(*                                                                         *)
(* Edges are numbered, the rising ones odd; the time of an edge is its     *)
(* number.  Each load and store of ts_ready is a step.  The clock itself   *)
(* is the subject of IepTime.                                              *)
(***************************************************************************)
EXTENDS Integers, Sequences, FiniteSets

CONSTANTS SAMPLES,        \* num_samples, 8000 in pru_main.c
          MaxSyncs,       \* bound: how often SYNC_PERIOD_NS passes
          StartEdges,     \* bound: edges while the firmware waits for the host
          MaxReadErrors   \* bound: how often read() on the PTP device fails

ASSUME MeasureAssumption ==
  /\ SAMPLES \in Nat \ {0} /\ MaxSyncs \in Nat \ {0}
  /\ StartEdges \in Nat /\ MaxReadErrors \in Nat

VARIABLES
  edge,           \* edges of the input so far
  startedLow,     \* the input was low when the PTP device was set up
  pru,            \* where the firmware is
  back,           \* where check_input_pin returns to
  input_high, num_samples,
  pulses,         \* synchronisation pulses sent
  used,           \* the T2s the clock was adjusted to
  ptp,            \* captured events that wait in the PTP device
  toPru, toHost,  \* the two rings
  evtout0, evtout1,
  at,             \* where each host thread is
  reg,            \* what each thread has loaded and not used yet
  event,          \* what qot_read_event_ts has returned: time and channel
  i,              \* edges of channel 1 so far, to skip the falling ones
  ts_ready, last_pru_ts, last_host_ts,
  rows,           \* what has been printed
  errors,         \* reads of the PTP device that have failed
  main, stop

firmware == <<pru, back, input_high, num_samples, pulses, used>>
meeting == <<ts_ready, last_pru_ts, last_host_ts, rows>>
reader == <<event, i, errors>>
process == <<main, stop>>
measureVars == <<edge, startedLow, firmware, ptp, toPru, toHost, evtout0, evtout1, at,
                 reg, reader, meeting, process>>

Threads == {"recv", "send"}
Bit(t) == IF t = "recv" THEN 1 ELSE 2
Or(a, b) == IF a \in {b, 3} THEN a ELSE a + b    \* | of two such numbers
Rising(e) == e % 2 = 1
High == Rising(edge)
ReadError == 0        \* what qot_read_event_ts returns when read() fails
EmptyEvent == [ts |-> ReadError, channel |-> 0]
Capacity == 127       \* timestamps a ring has room for

(* rbuf_write_uint64, whose status neither side looks at.                  *)
Put(q, ts) == IF Len(q) < Capacity THEN Append(q, ts) ELSE q

(* The PTP device is set up, the firmware is loaded and the threads run.   *)
MeasureInit ==
  /\ startedLow \in BOOLEAN /\ edge = IF startedLow THEN 0 ELSE 1
  /\ pru = "starting" /\ back = "loop" /\ input_high = FALSE
  /\ num_samples = SAMPLES /\ pulses = 0 /\ used = << >>
  /\ ptp = << >> /\ toPru = << >> /\ toHost = << >>
  /\ evtout0 = FALSE /\ evtout1 = FALSE
  /\ at = [t \in Threads |-> "test"] /\ reg = [t \in Threads |-> << >>]
  /\ event = EmptyEvent /\ i = 1 /\ errors = 0
  /\ ts_ready = 0 /\ last_pru_ts = 0 /\ last_host_ts = 0 /\ rows = << >>
  /\ main = "waiting" /\ stop = FALSE

-----------------------------------------------------------------------------
(* The world outside (external).                                           *)

(* Both threads have dealt with every edge there has been.                 *)
Handled == /\ toHost = << >> /\ ~evtout0 /\ pru # "trigger"
           /\ ptp = << >>
           /\ at["recv"] \in {"test", "wait"} /\ at["send"] \in {"test", "read"}

(* The microcontroller toggles the pins every 125 ms: the firmware, which  *)
(* polls every few microseconds, has seen the level by then, and the       *)
(* threads have done their work.                                           *)
Toggle ==
  /\ num_samples > 0 /\ Handled
  /\ IF pru = "starting" THEN edge < StartEdges ELSE input_high = High
  /\ edge' = edge + 1
  /\ ptp' = Append(ptp, [ts |-> edge', channel |-> 1])
  /\ UNCHANGED <<startedLow, firmware, toPru, toHost, evtout0, evtout1, at, reg,
                 reader, meeting, process>>

-----------------------------------------------------------------------------
(* The firmware.                                                           *)

firmwareIdle == <<edge, startedLow, at, reg, reader, meeting, process>>

(* WAIT_MS(1000) is over.                                                  *)
Start ==
  /\ pru = "starting" /\ pru' = "loop"
  /\ UNCHANGED <<back, input_high, num_samples, pulses, used, ptp, toPru, toHost,
                 evtout0, evtout1, firmwareIdle>>

Check(return) == pru' = "check" /\ back' = return

(* The first round, and those where SYNC_PERIOD_NS has passed, send a      *)
(* pulse, which the PTP device captures.                                   *)
Pulse ==
  /\ pru = "loop" /\ num_samples > 0 /\ pulses < MaxSyncs
  /\ pulses' = pulses + 1
  /\ ptp' = Append(ptp, [ts |-> pulses', channel |-> 0])
  /\ pru' = "await"
  /\ UNCHANGED <<back, input_high, num_samples, used, toPru, toHost, evtout0,
                 evtout1, firmwareIdle>>

NoPulse ==
  /\ pru = "loop" /\ num_samples > 0 /\ pulses > 0
  /\ Check("loop")
  /\ UNCHANGED <<input_high, num_samples, pulses, used, ptp, toPru, toHost, evtout0,
                 evtout1, firmwareIdle>>

(* do ... while(status): the pin is checked in every turn, the last one    *)
(* too, and the clock is adjusted to the time that came.                   *)
Await ==
  /\ pru = "await"
  /\ IF toPru = << >>
       THEN Check("await") /\ UNCHANGED <<used, toPru>>
       ELSE /\ used' = Append(used, Head(toPru)) /\ toPru' = Tail(toPru)
            /\ Check("adjusted")
  /\ UNCHANGED <<input_high, num_samples, pulses, ptp, toHost, evtout0, evtout1,
                 firmwareIdle>>

Adjusted ==
  /\ pru = "adjusted" /\ Check("loop")
  /\ UNCHANGED <<input_high, num_samples, pulses, used, ptp, toPru, toHost, evtout0,
                 evtout1, firmwareIdle>>

(* Mutant: a low input is not noticed.                                     *)
CheckNeverLow ==
  /\ pru = "check"
  /\ IF High /\ ~input_high
       THEN /\ toHost' = Put(toHost, edge) /\ num_samples' = num_samples - 1
            /\ pru' = "trigger"
       ELSE pru' = back /\ UNCHANGED <<toHost, num_samples>>
  /\ input_high' = (input_high \/ High)
  /\ UNCHANGED <<back, pulses, used, ptp, toPru, evtout0, evtout1, firmwareIdle>>

(* A rising edge is reported to the host; a falling one is only noted.     *)
check_input_pin ==
  /\ pru = "check"
  /\ IF High /\ ~input_high
       THEN /\ toHost' = Put(toHost, edge) /\ num_samples' = num_samples - 1
            /\ pru' = "trigger"
       ELSE pru' = back /\ UNCHANGED <<toHost, num_samples>>
  /\ input_high' = High
  /\ UNCHANGED <<back, pulses, used, ptp, toPru, evtout0, evtout1, firmwareIdle>>

(* TRIG_INTC(3)                                                            *)
Trigger ==
  /\ pru = "trigger"
  /\ evtout0' = TRUE /\ pru' = back
  /\ UNCHANGED <<back, input_high, num_samples, pulses, used, ptp, toPru, toHost,
                 evtout1, firmwareIdle>>

(* TRIG_INTC(4), then halt.                                                *)
terminate ==
  /\ pru = "loop" /\ num_samples <= 0
  /\ evtout1' = TRUE /\ pru' = "halted"
  /\ UNCHANGED <<back, input_high, num_samples, pulses, used, ptp, toPru, toHost,
                 evtout0, firmwareIdle>>

-----------------------------------------------------------------------------
(* What both host threads do with a time of theirs.                        *)

hostIdle == <<edge, startedLow, firmware, evtout1>>
Alive == main # "exited"
GoTo(t, place) == at' = [at EXCEPT ![t] = place]
Keep(t, value) == reg' = [reg EXCEPT ![t] = value]

TestStop(t) ==
  /\ Alive /\ at[t] = "test"
  /\ GoTo(t, IF stop THEN "done" ELSE IF t = "recv" THEN "wait" ELSE "read")
  /\ UNCHANGED <<hostIdle, ptp, toPru, toHost, evtout0, reg, reader, meeting, process>>

(* ts_ready |= bit: a load ...                                             *)
LoadReady(t) ==
  /\ Alive /\ at[t] = "load"
  /\ Keep(t, <<Or(ts_ready, Bit(t))>>) /\ GoTo(t, "store")
  /\ UNCHANGED <<hostIdle, ptp, toPru, toHost, evtout0, reader, meeting, process>>

(* ... and a store.                                                        *)
StoreReady(t) ==
  /\ Alive /\ at[t] = "store"
  /\ ts_ready' = reg[t][1] /\ Keep(t, << >>) /\ GoTo(t, "compare")
  /\ UNCHANGED <<hostIdle, ptp, toPru, toHost, evtout0, reader, last_pru_ts,
                 last_host_ts, rows, process>>

(* Where a thread goes on when it is done with a time.                     *)
After(t) == IF t = "recv" THEN "drain" ELSE "test"

(* Mutant: a thread that finds its own bit set prints.                     *)
CompareOwnBit(t) ==
  /\ Alive /\ at[t] = "compare"
  /\ GoTo(t, IF ts_ready \in {3, Bit(t)} THEN "reset" ELSE After(t))
  /\ UNCHANGED <<hostIdle, ptp, toPru, toHost, evtout0, reg, reader, meeting, process>>

(* if (ts_ready == 0x3)                                                    *)
Compare(t) ==
  /\ Alive /\ at[t] = "compare"
  /\ GoTo(t, IF ts_ready = 3 THEN "reset" ELSE After(t))
  /\ UNCHANGED <<hostIdle, ptp, toPru, toHost, evtout0, reg, reader, meeting, process>>

(* Mutant: the bits are not reset.                                         *)
NoReset(t) ==
  /\ Alive /\ at[t] = "reset"
  /\ GoTo(t, "columns")
  /\ UNCHANGED <<hostIdle, ptp, toPru, toHost, evtout0, reg, reader, meeting, process>>

Reset(t) ==
  /\ Alive /\ at[t] = "reset"
  /\ ts_ready' = 0 /\ GoTo(t, "columns")
  /\ UNCHANGED <<hostIdle, ptp, toPru, toHost, evtout0, reg, reader, last_pru_ts,
                 last_host_ts, rows, process>>

(* printf loads the two times for its columns (only one of them is another *)
(* thread's, so that their order does not matter) ...                      *)
LoadColumns(t) ==
  /\ Alive /\ at[t] = "columns"
  /\ Keep(t, <<last_host_ts, last_pru_ts>>) /\ GoTo(t, "print")
  /\ UNCHANGED <<hostIdle, ptp, toPru, toHost, evtout0, reader, meeting, process>>

(* ... and loads them once more for their difference.                      *)
PrintRow(t) ==
  /\ Alive /\ at[t] = "print"
  /\ rows' = Append(rows, [host |-> reg[t][1], pru |-> reg[t][2],
                           difference |-> last_pru_ts - last_host_ts])
  /\ Keep(t, << >>) /\ GoTo(t, After(t))
  /\ UNCHANGED <<hostIdle, ptp, toPru, toHost, evtout0, reader, ts_ready, last_pru_ts,
                 last_host_ts, process>>

Meet(t) == LoadReady(t) \/ StoreReady(t) \/ Compare(t) \/ Reset(t) \/ LoadColumns(t)
             \/ PrintRow(t)

-----------------------------------------------------------------------------
(* receive_pru_thread                                                      *)

RecvWait ==
  /\ Alive /\ at["recv"] = "wait" /\ evtout0
  /\ GoTo("recv", "clear")
  /\ UNCHANGED <<hostIdle, ptp, toPru, toHost, evtout0, reg, reader, meeting, process>>

RecvClear ==
  /\ Alive /\ at["recv"] = "clear"
  /\ evtout0' = FALSE /\ GoTo("recv", "drain")
  /\ UNCHANGED <<hostIdle, ptp, toPru, toHost, reg, reader, meeting, process>>

RecvDrain ==
  /\ Alive /\ at["recv"] = "drain"
  /\ IF toHost = << >>
       THEN GoTo("recv", "test") /\ UNCHANGED <<toHost, last_pru_ts>>
       ELSE /\ toHost' = Tail(toHost) /\ last_pru_ts' = Head(toHost)
            /\ GoTo("recv", "load")
  /\ UNCHANGED <<hostIdle, ptp, toPru, evtout0, reg, reader, ts_ready, last_host_ts,
                 rows, process>>

-----------------------------------------------------------------------------
(* send_pru_thread                                                         *)

(* qot_read_event_ts                                                       *)
SendRead ==
  /\ Alive /\ at["send"] = "read" /\ ptp # << >>
  /\ event' = Head(ptp) /\ ptp' = Tail(ptp)
  /\ GoTo("send", "dispatch")
  /\ UNCHANGED <<hostIdle, toPru, toHost, evtout0, reg, i, errors, meeting, process>>

(* read() fails: 0 is returned and channel, a local of the loop's body     *)
(* that was never given a value, is whatever its slot holds.  err is set   *)
(* and nobody looks at it.                                                 *)
SendReadFails ==
  /\ Alive /\ at["send"] = "read" /\ errors < MaxReadErrors
  /\ errors' = errors + 1
  /\ \E garbage \in {0, 1, 2} : event' = [ts |-> ReadError, channel |-> garbage]
  /\ GoTo("send", "dispatch")
  /\ UNCHANGED <<hostIdle, ptp, toPru, toHost, evtout0, reg, i, meeting, process>>

(* channel == 0: the time of the PRU's pulse goes to the PRU.              *)
SendSync ==
  /\ Alive /\ at["send"] = "dispatch" /\ event.channel = 0
  /\ event' = EmptyEvent
  /\ toPru' = Put(toPru, event.ts) /\ GoTo("send", "test")
  /\ UNCHANGED <<hostIdle, ptp, toHost, evtout0, reg, i, errors, meeting, process>>

(* Mutant: the falling edges are kept as well.                             *)
KeepBothEdges ==
  /\ Alive /\ at["send"] = "dispatch" /\ event.channel = 1
  /\ event' = EmptyEvent
  /\ i' = i + 1
  /\ last_host_ts' = event.ts /\ GoTo("send", "load")
  /\ UNCHANGED <<hostIdle, ptp, toPru, toHost, evtout0, reg, errors, ts_ready,
                 last_pru_ts, rows, process>>

(* channel == 1: if (i++ % 2) keeps every second edge.                     *)
SendEdge ==
  /\ Alive /\ at["send"] = "dispatch" /\ event.channel = 1
  /\ event' = EmptyEvent
  /\ i' = i + 1
  /\ IF i % 2 = 1 THEN last_host_ts' = event.ts /\ GoTo("send", "load")
                  ELSE UNCHANGED last_host_ts /\ GoTo("send", "test")
  /\ UNCHANGED <<hostIdle, ptp, toPru, toHost, evtout0, reg, errors, ts_ready,
                 last_pru_ts, rows, process>>

(* A channel that is neither: the event is dropped.                        *)
SendNeither ==
  /\ Alive /\ at["send"] = "dispatch" /\ event.channel \notin {0, 1}
  /\ event' = EmptyEvent
  /\ GoTo("send", "test")
  /\ UNCHANGED <<hostIdle, ptp, toPru, toHost, evtout0, reg, i, errors, meeting, process>>

-----------------------------------------------------------------------------
(* main: woken by PRU_EVTOUT_1, it sets stop and leaves.                   *)
mainIdle == <<hostIdle, ptp, toPru, toHost, evtout0, at, reg, reader, meeting>>

MainStop == /\ main = "waiting" /\ evtout1
            /\ stop' = TRUE /\ main' = "stopping"
            /\ UNCHANGED mainIdle

MainExit == /\ main = "stopping" /\ main' = "exited"
            /\ UNCHANGED <<stop, mainIdle>>

-----------------------------------------------------------------------------
Pru == Start \/ Pulse \/ NoPulse \/ Await \/ Adjusted \/ check_input_pin \/ Trigger
         \/ terminate
Receive == TestStop("recv") \/ RecvWait \/ RecvClear \/ RecvDrain \/ Meet("recv")
Send == TestStop("send") \/ SendRead \/ SendSync \/ SendEdge \/ SendNeither
          \/ Meet("send")
Main == MainStop \/ MainExit

MeasureNext == Toggle \/ Pru \/ Receive \/ Send \/ SendReadFails \/ Main

(* The PRU never stops executing, the kernel schedules every thread, and   *)
(* the microcontroller goes on toggling its pins.                          *)
MeasureSpec ==
  /\ MeasureInit /\ [][MeasureNext]_measureVars
  /\ WF_measureVars(Toggle) /\ WF_measureVars(Pru) /\ WF_measureVars(Main)
  /\ WF_measureVars(Receive) /\ WF_measureVars(Send)

-----------------------------------------------------------------------------
(* "The left column is the QoT timestamp, the middle column the PRU         *)
(* timestamp": a row's two times, and the two its difference was taken of, *)
(* are of the same edge or of neighbouring ones, and both have been taken. *)
(* No more can be said: the threads' unlocked use of ts_ready can lose a   *)
(* row, and from then on a bit stays set that lets either thread print its *)
(* own edge beside the other's last.  The times kept of both are two edges *)
(* apart at most, or exactly one if the input was high at the start, as    *)
(* the host's edges are then the falling ones.                             *)
Apart == IF startedLow THEN 2 ELSE 1
RowsAreNeighbours ==
  errors = 0 => \A n \in DOMAIN rows :
    /\ rows[n].host > 0 /\ rows[n].pru > 0
    /\ rows[n].host - rows[n].pru \in -Apart .. Apart
    /\ rows[n].difference \in -Apart .. Apart

(* However the two tests and resets of ts_ready interleave, a sample of    *)
(* the PRU is printed twice at most: by each thread once, or by the host's *)
(* at its own edge and again at the next, but never three times.           *)
RowsOf(e) == {n \in DOMAIN rows : rows[n].pru = e}
NoRowThrice ==
  errors = 0 => \A n \in DOMAIN rows : Cardinality(RowsOf(rows[n].pru)) <= 2

(* The events of the one device are told apart, as long as no read fails:  *)
(* every T2 the PRU adjusts to is the captured time of its own last pulse, *)
(* and ("Skip the falling edge timestamp") the times kept of the input are *)
(* all of rising edges, or all of falling ones if the input was high when  *)
(* the capture began.                                                      *)
EventsAreSorted ==
  errors = 0 =>
    /\ \A k \in DOMAIN used : used[k] = k
    /\ last_host_ts # 0 => (Rising(last_host_ts) <=> startedLow)

(* The run comes to its end: the firmware goes on counting samples while   *)
(* it waits for a T2, every T2 arrives, and main is told.  A read that     *)
(* fails does not get in the way of that.                                  *)
Terminates == <>(pru = "halted" /\ main = "exited")
=============================================================================
