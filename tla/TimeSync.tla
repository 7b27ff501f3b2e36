------------------------------ MODULE TimeSync ------------------------------
(***************************************************************************)
(* The time synchronisation program of C lib/examples/time_sync: firmware  *)
(* on the PRU (pru_main.c), a host process with three threads (host_main.c *)
(* and host_qot.c), two rings in shared memory, two PRU interrupts and the *)
(* PTP device that captures the time of the PRU's pulse.                   *)
(*                                                                         *)
(* Only 64-bit calls are made on each ring and each has one producer and   *)
(* one consumer, so a ring is a bounded queue of timestamps with atomic    *)
(* puts and takes, which is what RBuffer is proved to implement.           *)
(***************************************************************************)
EXTENDS Integers, Sequences

CONSTANTS ROUNDS,         \* messages the PRU sends, 30 in pru_main.c
          SYNC_EVERY,     \* rounds between synchronisations, 5
          Capacity,       \* timestamps a ring has room for, 127
          MaxReadErrors   \* bound: how often read() on the PTP device fails

ASSUME RoundAssumption ==
  /\ ROUNDS \in Nat \ {0} /\ SYNC_EVERY \in Nat \ {0}
  /\ Capacity \in Nat /\ ROUNDS <= Capacity /\ MaxReadErrors \in Nat

VARIABLES
  pru,       \* where the firmware is in its main loop
  i,         \* its loop counter
  pulses,    \* pulses the firmware has sent
  used,      \* the T2s it has adjusted its clock to, one for each sync
  edges,     \* pulses on the wire that are not captured yet
  ptp,       \* captured times that wait in the PTP device, named by pulse
  toPru,     \* send_to_pru_rbuffer
  toHost,    \* receive_from_pru_rbuffer
  evtout0,   \* PRU_EVTOUT_0 pending: there is a message
  evtout1,   \* PRU_EVTOUT_1 pending: the PRU is about to halt
  recv,      \* where receive_pru_thread is
  send,      \* where send_pru_thread is
  nano_ts,   \* the timestamp it is about to write
  errors,    \* reads of the PTP device that have failed
  printed,   \* what receive_pru_thread has printed
  main,      \* where main is: "waiting" for the PRU, "stopping" or "exited"
  stop

firmware == <<pru, i, pulses, used>>
sender == <<send, nano_ts, errors>>
receiver == <<recv, printed>>
vars == <<firmware, edges, ptp, toPru, toHost, evtout0, evtout1, receiver,
          sender, main, stop>>

ReadError == 0    \* qot_read_event_ts returns 0 when read() fails

(* The host has set up its side and started the firmware and the threads.  *)
Init ==
  /\ pru = "round" /\ i = ROUNDS /\ pulses = 0 /\ used = << >>
  /\ edges = << >> /\ ptp = << >>
  /\ toPru = << >> /\ toHost = << >>
  /\ evtout0 = FALSE /\ evtout1 = FALSE
  /\ recv = "test" /\ printed = << >>
  /\ send = "test" /\ nano_ts = ReadError /\ errors = 0
  /\ main = "waiting" /\ stop = FALSE

(* rbuf_write_uint64, whose status neither side looks at.                  *)
Put(q, m) == IF Len(q) < Capacity THEN Append(q, m) ELSE q

-----------------------------------------------------------------------------
(* The firmware.                                                           *)

(* while(i--): synchronise every SYNC_EVERY rounds, starting with a pulse. *)
NextRound ==
  /\ pru = "round" /\ i > 0
  /\ i' = i - 1
  /\ IF i' % SYNC_EVERY = 0
       THEN /\ pulses' = pulses + 1
            /\ edges' = Append(edges, pulses')
            /\ pru' = "await"
       ELSE /\ pru' = "send"
            /\ UNCHANGED <<pulses, edges>>
  /\ UNCHANGED <<used, ptp, toPru, toHost, evtout0, evtout1, receiver, sender,
                 main, stop>>

(* Mutant: the ring is read once instead of until it has a timestamp.      *)
AdjustWithoutWaiting ==
  /\ pru = "await"
  /\ used' = Append(used, IF toPru = << >> THEN ReadError ELSE Head(toPru))
  /\ toPru' = IF toPru = << >> THEN toPru ELSE Tail(toPru)
  /\ pru' = "send"
  /\ UNCHANGED <<i, pulses, edges, ptp, toHost, evtout0, evtout1, receiver, sender,
                 main, stop>>

(* do ... while(status): a timestamp has arrived, adjust to it.            *)
Adjust ==
  /\ pru = "await" /\ toPru # << >>
  /\ used' = Append(used, Head(toPru))
  /\ toPru' = Tail(toPru)
  /\ pru' = "send"
  /\ UNCHANGED <<i, pulses, edges, ptp, toHost, evtout0, evtout1, receiver, sender,
                 main, stop>>

(* Send the time, named by its round, to the host; a full ring drops it.   *)
SendTime ==
  /\ pru = "send"
  /\ toHost' = Put(toHost, i)
  /\ pru' = "trigger"
  /\ UNCHANGED <<i, pulses, used, edges, ptp, toPru, evtout0, evtout1, receiver,
                 sender, main, stop>>

(* TRIG_INTC(3), then a pause.                                             *)
Trigger ==
  /\ pru = "trigger"
  /\ evtout0' = TRUE
  /\ pru' = "round"
  /\ UNCHANGED <<i, pulses, used, edges, ptp, toPru, toHost, evtout1, receiver,
                 sender, main, stop>>

(* Mutant: the firmware halts and the host is not told.                    *)
HaltUntold ==
  /\ pru = "round" /\ i = 0
  /\ pru' = "halted"
  /\ UNCHANGED <<i, pulses, used, edges, ptp, toPru, toHost, evtout0, evtout1,
                 receiver, sender, main, stop>>

(* terminate: TRIG_INTC(4), then halt.                                     *)
terminate ==
  /\ pru = "round" /\ i = 0
  /\ evtout1' = TRUE
  /\ pru' = "halted"
  /\ UNCHANGED <<i, pulses, used, edges, ptp, toPru, toHost, evtout0, receiver,
                 sender, main, stop>>

-----------------------------------------------------------------------------
(* The PTP device (external): the edge is captured some time later.        *)
Capture ==
  /\ edges # << >>
  /\ ptp' = Append(ptp, Head(edges)) /\ edges' = Tail(edges)
  /\ UNCHANGED <<firmware, toPru, toHost, evtout0, evtout1, receiver, sender, main,
                 stop>>

-----------------------------------------------------------------------------
(* The host process; when main has returned its threads are gone.          *)
Alive == main # "exited"

hostIdle == <<firmware, edges>>

RecvTest ==
  /\ Alive /\ recv = "test"
  /\ recv' = IF stop THEN "done" ELSE "wait"
  /\ UNCHANGED <<hostIdle, ptp, toPru, toHost, evtout0, evtout1, printed, sender,
                 main, stop>>

(* prussdrv_pru_wait_event(PRU_EVTOUT_0) returns, the event still pending. *)
RecvWait ==
  /\ Alive /\ recv = "wait" /\ evtout0
  /\ recv' = "clear"
  /\ UNCHANGED <<hostIdle, ptp, toPru, toHost, evtout0, evtout1, printed, sender,
                 main, stop>>

(* prussdrv_pru_clear_event, before the ring is looked at.                 *)
RecvClear ==
  /\ Alive /\ recv = "clear"
  /\ evtout0' = FALSE
  /\ recv' = "drain"
  /\ UNCHANGED <<hostIdle, ptp, toPru, toHost, evtout1, printed, sender, main, stop>>

(* Mutant: one message is read for each interrupt.                         *)
RecvOneMessage ==
  /\ Alive /\ recv = "drain"
  /\ recv' = "test"
  /\ IF toHost = << >> THEN UNCHANGED <<toHost, printed>>
     ELSE toHost' = Tail(toHost) /\ printed' = Append(printed, Head(toHost))
  /\ UNCHANGED <<hostIdle, ptp, toPru, evtout0, evtout1, sender, main, stop>>

(* Mutant: what the call returned is printed before the status is tested.  *)
RecvPrintsUntested ==
  /\ Alive /\ recv = "drain"
  /\ IF toHost = << >>
       THEN /\ recv' = "test" /\ printed' = Append(printed, ReadError)
            /\ UNCHANGED toHost
       ELSE /\ toHost' = Tail(toHost) /\ printed' = Append(printed, Head(toHost))
            /\ UNCHANGED recv
  /\ UNCHANGED <<hostIdle, ptp, toPru, evtout0, evtout1, sender, main, stop>>

(* while(!status): print messages until the ring is empty.                 *)
RecvDrain ==
  /\ Alive /\ recv = "drain"
  /\ IF toHost = << >>
       THEN recv' = "test" /\ UNCHANGED <<toHost, printed>>
       ELSE /\ toHost' = Tail(toHost) /\ printed' = Append(printed, Head(toHost))
            /\ UNCHANGED recv
  /\ UNCHANGED <<hostIdle, ptp, toPru, evtout0, evtout1, sender, main, stop>>

SendTest ==
  /\ Alive /\ send = "test"
  /\ send' = IF stop THEN "done" ELSE "read"
  /\ UNCHANGED <<hostIdle, ptp, toPru, toHost, evtout0, evtout1, receiver, nano_ts,
                 errors, main, stop>>

(* qot_read_event_ts blocks until there is an event.                       *)
SendRead ==
  /\ Alive /\ send = "read" /\ ptp # << >>
  /\ nano_ts' = Head(ptp) /\ ptp' = Tail(ptp)
  /\ send' = "write"
  /\ UNCHANGED <<hostIdle, toPru, toHost, evtout0, evtout1, receiver, errors, main,
                 stop>>

(* read() fails: 0 is returned, and err, which is set, is not looked at.   *)
SendReadFails ==
  /\ Alive /\ send = "read" /\ errors < MaxReadErrors
  /\ errors' = errors + 1
  /\ nano_ts' = ReadError
  /\ send' = "write"
  /\ UNCHANGED <<hostIdle, ptp, toPru, toHost, evtout0, evtout1, receiver, main, stop>>

SendWrite ==
  /\ Alive /\ send = "write"
  /\ toPru' = Put(toPru, nano_ts)
  /\ send' = "test"
  /\ UNCHANGED <<hostIdle, ptp, toHost, evtout0, evtout1, receiver, nano_ts, errors,
                 main, stop>>

(* main is woken by PRU_EVTOUT_1 and sets stop ...                         *)
MainStop ==
  /\ main = "waiting" /\ evtout1
  /\ stop' = TRUE /\ main' = "stopping"
  /\ UNCHANGED <<hostIdle, ptp, toPru, toHost, evtout0, evtout1, receiver, sender>>

(* ... and leaves without joining its threads.                             *)
MainExit ==
  /\ main = "stopping"
  /\ main' = "exited"
  /\ UNCHANGED <<hostIdle, ptp, toPru, toHost, evtout0, evtout1, receiver, sender, stop>>

-----------------------------------------------------------------------------
Pru == NextRound \/ Adjust \/ SendTime \/ Trigger \/ terminate
ReceiveThread == RecvTest \/ RecvWait \/ RecvClear \/ RecvDrain
SendThread == SendTest \/ SendRead \/ SendWrite
Main == MainStop \/ MainExit

Next == Pru \/ Capture \/ ReceiveThread \/ SendThread \/ SendReadFails \/ Main

(* The PRU never stops executing, the kernel schedules every thread of the *)
(* process, and every edge is captured (P9_27 is wired to P8_10).          *)
Fairness == /\ WF_vars(Pru) /\ WF_vars(Capture) /\ WF_vars(ReceiveThread)
            /\ WF_vars(SendThread) /\ WF_vars(Main)

Spec == Init /\ [][Next]_vars /\ Fairness

-----------------------------------------------------------------------------
(* The receive thread never sleeps on a message whose interrupt is gone:   *)
(* whenever it is about to wait or waits with the ring not empty, the      *)
(* interrupt is pending or the PRU is about to raise it.                   *)
NoLostWakeup ==
  recv \in {"test", "wait"} /\ toHost # << >> => evtout0 \/ pru = "trigger"

(* "Calculates its offset simply by subtracting T2 minus T1": the T2 is    *)
(* the time of the very pulse T1 was read for as long as no read of the    *)
(* PTP device has failed.  A failing read shifts the pairing of pulses and *)
(* T2s by one, for good: a sync uses 0 or the T2 of an earlier pulse, never*)
(* of a later one, and it lags by no more than the reads that have failed. *)
LagIsErrors ==
  \A k \in DOMAIN used :
    used[k] \in (k - errors) .. k \/ (errors > 0 /\ used[k] = ReadError)

(* Rings that have room for all rounds lose nothing: what was printed and  *)
(* what waits to be printed is every time the PRU has sent, once, in order.*)
NoMessageLost ==
  printed \o toHost = [k \in 1 .. Len(printed) + Len(toHost) |-> ROUNDS - k]
  /\ Len(printed) + Len(toHost) = (ROUNDS - i) - (IF pru \in {"await", "send"} THEN 1 ELSE 0)

(* "This will continue for ~30 seconds and then we terminate": both sides  *)
(* come to their end, no handshake between the threads being stuck.        *)
Terminates == <>(pru = "halted" /\ main = "exited")
=============================================================================
