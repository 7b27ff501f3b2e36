-------------------------- MODULE MeasureSyncProofs -------------------------
(***************************************************************************)
(* What is proved of C lib/examples/measure_time_sync: first its clock,    *)
(* then the meeting of the host's two threads.                             *)
(*                                                                         *)
(* IepTime: read often enough for its products, the clock is the ideal one *)
(* but for a tick a rollover, for every rate, width and set of host times. *)
(*                                                                         *)
(* MeasureSync: for any number of samples, synchronisations and edges, as  *)
(* long as no read of the PTP device has failed, rows pair times of        *)
(* neighbouring edges, no sample is printed a third time, and the events   *)
(* of the device are told apart.                                           *)
(***************************************************************************)
EXTENDS IepTime, MeasureSync, SequenceTheorems, FiniteSetTheorems, TLAPS

-----------------------------------------------------------------------------
(* The clock.                                                              *)

(* How often the counter has rolled over in n ticks.                       *)
Turns(n) == n \div U32

(* iep_get_time loses one tick each time the counter rolls over, and no    *)
(* other.                                                                  *)
LagsOneTickPerRollover == ts_ns = TickNs * (polled - polled \div U32)

TypeInv ==
  /\ ticks \in 0 .. MaxTicks /\ polled \in 0 .. ticks
  /\ ts_ns \in Nat /\ offset \in Int /\ ts_pru \in Nat \cup {NoEvent}

(* The hardware counter and its copy show the ticks now, and at the last   *)
(* read, which is no more than MaxGap ticks ago.                           *)
CounterInv ==
  /\ cnt = ticks % U32 /\ last_iep_cnt = polled % U32
  /\ ticks - polled <= MaxGap

(* Adjustments keep the clock between zero and the latest host time.       *)
SyncInv ==
  /\ \E t \in HostTimes \cup {0} : offset <= t
  /\ ts_ns + offset >= 0
  /\ ts_pru # NoEvent => offset <= ts_pru /\ ts_pru <= ts_ns + offset

IInv == TypeInv /\ CounterInv /\ LagsOneTickPerRollover /\ SyncInv

-----------------------------------------------------------------------------
LEMMA Constants ==
  /\ TickNs \in Nat /\ U32 \in Nat \ {0} /\ U64 \in Nat
  /\ MaxTicks \in Nat /\ MaxGap \in Nat /\ MaxGap < U32
  /\ TickNs * MaxGap < U32 /\ TickNs * MaxTicks < U64
  /\ HostTimes \subseteq Nat
<1>1. 0 \in HostTimes \cup {0}
  OBVIOUS
<1>2. TickNs * MaxTicks \in Nat
  BY IepAssumption
<1>. QED  BY <1>1, <1>2, IepAssumption, ReadAssumption

LEMMA DivMod ==
  ASSUME NEW x \in Int, NEW s \in Nat \ {0}
  PROVE  /\ x = s * (x \div s) + (x % s)
         /\ x % s \in 0 .. s - 1 /\ x \div s \in Int
  OBVIOUS

LEMMA Division ==
  ASSUME NEW n \in Nat, NEW s \in Nat \ {0}
  PROVE  /\ n = s * (n \div s) + (n % s)
         /\ n % s \in 0 .. s - 1 /\ n \div s \in Nat
<1>0. n \in Int
  OBVIOUS
<1>1. n \div s \in Nat
  OBVIOUS
<1>. QED  BY <1>0, <1>1, DivMod, Zenon

(* A multiple that is not between 0 and s has a factor that is not either. *)
LEMMA Multiples ==
  ASSUME NEW d \in Int, NEW s \in Nat \ {0}
  PROVE  /\ s * d \in Int
         /\ d >= 2 => s * d >= 2 * s
         /\ d <= -1 => s * d <= -s
<1>1. s * d \in Int
  OBVIOUS
<1>2. ASSUME d >= 2 PROVE s * d >= 2 * s
  <2>1. s * (d - 2) >= 0  BY <1>2
  <2>2. s * (d - 2) = s * d - 2 * s  OBVIOUS
  <2>. QED  BY <2>1, <2>2, <1>1
<1>3. ASSUME d <= -1 PROVE s * d <= -s
  <2>1. s * (-1 - d) >= 0  BY <1>3
  <2>2. s * (-1 - d) = -s - s * d  OBVIOUS
  <2>. QED  BY <2>1, <2>2, <1>1
<1>. QED  BY <1>1, <1>2, <1>3

LEMMA Mono ==
  ASSUME NEW a \in Nat, NEW b \in Nat, NEW m \in Nat, a <= b
  PROVE  m * a <= m * b /\ m * a \in Nat
  OBVIOUS

LEMMA SmallMod ==
  ASSUME NEW n \in Nat, NEW x \in 0 .. n - 1
  PROVE  x % n = x
  OBVIOUS

LEMMA DivOne ==
  ASSUME NEW x \in Int
  PROVE  x \div 1 = x
  OBVIOUS

(* Fewer ticks than a turn further on, the counter has rolled over once or *)
(* not at all, and its two values tell which.                              *)
LEMMA TurnsBetween ==
  ASSUME NEW p \in Nat, NEW n \in Nat, NEW s \in Nat \ {0}, p <= n, n - p < s
  PROVE  /\ n % s >= p % s => /\ n \div s = p \div s
                              /\ (n % s) - (p % s) = n - p
         /\ n % s < p % s  => /\ n \div s = p \div s + 1
                              /\ (n % s) - (p % s) = n - p - s
<1>. DEFINE qp == p \div s
            rp == p % s
            qn == n \div s
            rn == n % s
<1>1. p = s * qp + rp /\ rp \in 0 .. s - 1 /\ qp \in Nat
  BY Division
<1>2. n = s * qn + rn /\ rn \in 0 .. s - 1 /\ qn \in Nat
  BY Division
<1>. HIDE DEF qp, rp, qn, rn
<1>3. s * (qn - qp) = (n - p) - (rn - rp)
  <2>1. s * (qn - qp) = s * qn - s * qp  BY <1>1, <1>2
  <2>2. s * qn \in Int /\ s * qp \in Int  BY <1>1, <1>2
  <2>. QED  BY <2>1, <2>2, <1>1, <1>2
<1>4. CASE qn - qp >= 2
  <2>1. s * (qn - qp) >= 2 * s  BY <1>4, <1>1, <1>2, Multiples
  <2>. QED  BY <2>1, <1>1, <1>2, <1>3
<1>5. CASE qn - qp <= -1
  <2>1. s * (qn - qp) <= -s  BY <1>5, <1>1, <1>2, Multiples
  <2>. QED  BY <2>1, <1>1, <1>2, <1>3
<1>6. CASE qn - qp = 1
  <2>1. rn - rp = n - p - s  BY <1>6, <1>1, <1>2, <1>3
  <2>2. rn < rp  BY <2>1, <1>1, <1>2
  <2>. QED  BY <2>1, <2>2, <1>6, <1>1, <1>2 DEF qp, rp, qn, rn
<1>7. CASE qn - qp = 0
  <2>1. rn - rp = n - p  BY <1>7, <1>1, <1>2, <1>3
  <2>2. rn >= rp  BY <2>1, <1>1, <1>2
  <2>. QED  BY <2>1, <2>2, <1>7, <1>1, <1>2 DEF qp, rp, qn, rn
<1>. QED  BY <1>1, <1>2, <1>4, <1>5, <1>6, <1>7

LEMMA NextMod ==
  ASSUME NEW p \in Nat, NEW s \in Nat, s > 1
  PROVE  ((p % s) + 1) % s = (p + 1) % s
<1>1. p % s \in 0 .. s - 1 /\ (p + 1) % s \in 0 .. s - 1
  <2>1. p + 1 \in Nat /\ s \in Nat \ {0}
    OBVIOUS
  <2>. QED  BY <2>1, Division
<1>2. /\ (p + 1) % s >= p % s => ((p + 1) % s) - (p % s) = 1
      /\ (p + 1) % s < p % s => ((p + 1) % s) - (p % s) = 1 - s
  <2>1. p + 1 \in Nat /\ s \in Nat \ {0} /\ p <= p + 1 /\ (p + 1) - p < s /\ (p + 1) - p = 1
    OBVIOUS
  <2>2. /\ (p + 1) % s >= p % s => ((p + 1) % s) - (p % s) = (p + 1) - p
        /\ (p + 1) % s < p % s => ((p + 1) % s) - (p % s) = (p + 1) - p - s
    BY <2>1, TurnsBetween, Zenon
  <2>. QED  BY <1>1, <2>1, <2>2
<1>3. CASE (p + 1) % s >= p % s
  <2>1. (p % s) + 1 = (p + 1) % s
    BY <1>1, <1>2, <1>3
  <2>. QED  BY <1>1, <2>1, SmallMod
<1>4. CASE (p + 1) % s < p % s
  <2>1. (p % s) + 1 = s /\ (p + 1) % s = 0
    BY <1>1, <1>2, <1>4
  <2>2. s % s = 0
    OBVIOUS
  <2>. QED  BY <2>1, <2>2
<1>. QED  BY <1>1, <1>3, <1>4

LEMMA Types ==
  ASSUME TypeInv
  PROVE  /\ ticks \in Nat /\ polled \in Nat /\ polled <= ticks /\ ticks <= MaxTicks
         /\ ts_ns \in Nat /\ offset \in Int /\ ts_pru \in Int
         /\ Turns(ticks) \in Nat /\ Turns(polled) \in Nat
<1>1. ticks \in Nat /\ polled \in Nat /\ polled <= ticks /\ ticks <= MaxTicks
  BY Constants DEF TypeInv
<1>. QED  BY <1>1, Constants, Division DEF TypeInv, Turns, NoEvent

(* A clock that lags by its turns shows no more than the ticks.            *)
LEMMA TurnsLag ==
  ASSUME NEW n \in Nat
  PROVE  n - Turns(n) \in 0 .. n
<1>1. n = U32 * Turns(n) + (n % U32) /\ n % U32 \in Nat /\ Turns(n) \in Nat
  BY Division, Constants DEF Turns
<1>2. U32 * Turns(n) >= Turns(n) /\ U32 * Turns(n) \in Nat
  <2>. DEFINE q == Turns(n)
  <2>1. q \in Nat /\ U32 - 1 \in Nat /\ U32 \in Int  BY <1>1, Constants
  <2>. HIDE DEF q
  <2>2. (U32 - 1) * q \in Nat  BY <2>1
  <2>3. U32 * q = (U32 - 1) * q + q  BY <2>1
  <2>. QED  BY <2>1, <2>2, <2>3 DEF q
<1>. QED  BY <1>1, <1>2

(* A read adds the ticks since the last one, less one if the counter has   *)
(* rolled over, and neither the product nor the sum overflows.             *)
LEMMA AdvanceExact ==
  ASSUME TypeInv, CounterInv
  PROVE  /\ AdvanceNs = TickNs * ((ticks - Turns(ticks)) - (polled - Turns(polled)))
         /\ AdvanceNs \in Nat
<1>. DEFINE gap == ticks - polled
            late == Turns(ticks) - Turns(polled)
<1>1. gap \in Nat /\ gap <= MaxGap /\ gap < U32
  BY Types, Constants DEF CounterInv
<1>2. /\ cnt >= last_iep_cnt => late = 0 /\ cnt - last_iep_cnt = gap
      /\ cnt < last_iep_cnt  => late = 1 /\ cnt - last_iep_cnt = gap - U32
      /\ cnt \in 0 .. U32 - 1 /\ last_iep_cnt \in 0 .. U32 - 1
  <2>1. ticks \in Nat /\ polled \in Nat /\ polled <= ticks /\ U32 \in Nat \ {0}
    BY Types, Constants
  <2>2. /\ cnt \in 0 .. U32 - 1 /\ last_iep_cnt \in 0 .. U32 - 1
        /\ Turns(ticks) \in Nat /\ Turns(polled) \in Nat
    BY <2>1, Division DEF CounterInv, Turns
  <2>3. /\ cnt >= last_iep_cnt => /\ Turns(ticks) = Turns(polled)
                                  /\ cnt - last_iep_cnt = gap
        /\ cnt < last_iep_cnt  => /\ Turns(ticks) = Turns(polled) + 1
                                  /\ cnt - last_iep_cnt = gap - U32
    BY <2>1, <1>1, TurnsBetween DEF CounterInv, Turns
  <2>. QED  BY <2>2, <2>3
<1>3. (ticks - Turns(ticks)) - (polled - Turns(polled)) = gap - late
  BY Types
<1>. HIDE DEF gap, late
<1>4. ASSUME NEW d \in Nat, d <= gap
      PROVE  IEP_CNT_TO_NS(d) = TickNs * d /\ TickNs * d \in Nat
  <2>1. TickNs * d <= TickNs * MaxGap /\ TickNs * d \in Nat
    BY <1>1, <1>4, Mono, Constants
  <2>2. d * TickNs \in 0 .. U32 - 1 /\ d * TickNs = TickNs * d
    BY <2>1, Constants
  <2>. QED  BY <2>1, <2>2, SmallMod, Constants DEF IEP_CNT_TO_NS
<1>5. CASE cnt < last_iep_cnt
  <2>1. (U32 - 1 - last_iep_cnt) + cnt = gap - 1 /\ late = 1 /\ gap - 1 \in Nat
    BY <1>1, <1>2, <1>5, Constants
  <2>2. AdvanceNs = IEP_CNT_TO_NS(gap - 1)
    BY <1>5, <2>1 DEF AdvanceNs
  <2>. QED  BY <2>1, <2>2, <1>1, <1>3, <1>4
<1>6. CASE ~(cnt < last_iep_cnt)
  <2>1. cnt - last_iep_cnt = gap /\ late = 0
    BY <1>2, <1>6, Constants
  <2>2. AdvanceNs = IEP_CNT_TO_NS(gap)
    BY <1>6, <2>1 DEF AdvanceNs
  <2>3. gap - late = gap  BY <2>1, <1>1
  <2>. QED  BY <2>2, <2>3, <1>1, <1>3, <1>4
<1>. QED  BY <1>5, <1>6

(* What a read leaves and returns.                                         *)
LEMMA ReadExact ==
  ASSUME IInv, ReadCounter
  PROVE  /\ ts_ns' = TickNs * (ticks - Turns(ticks))
         /\ ts_ns' \in Nat /\ ts_ns <= ts_ns'
         /\ reading' = ts_ns' + offset /\ reading' \in Nat
<1>. USE DEF IInv
<1>. DEFINE np == polled - Turns(polled)
            nt == ticks - Turns(ticks)
<1>1. np \in Nat /\ nt \in Nat /\ nt <= ticks /\ ticks <= MaxTicks
  BY Types, TurnsLag
<1>2. AdvanceNs = TickNs * (nt - np) /\ AdvanceNs \in Nat /\ ts_ns = TickNs * np
  BY AdvanceExact DEF LagsOneTickPerRollover, Turns
<1>. HIDE DEF np, nt
<1>3. ts_ns + AdvanceNs = TickNs * nt
  BY <1>1, <1>2, Constants
<1>4. TickNs * nt <= TickNs * MaxTicks /\ TickNs * nt \in Nat
  <2>1. TickNs \in Nat /\ MaxTicks \in Nat /\ nt <= MaxTicks
    BY <1>1, Types, Constants
  <2>. QED  BY <2>1, <1>1, Mono
<1>5. ts_ns' = TickNs * nt /\ ts_ns <= ts_ns'
  <2>1. ts_ns + AdvanceNs \in 0 .. U64 - 1
    BY <1>3, <1>4, Constants
  <2>2. ts_ns' = ts_ns + AdvanceNs
    BY <2>1, SmallMod, Constants DEF ReadCounter
  <2>. QED  BY <2>2, <1>2, <1>3, Types
<1>6. PICK t \in HostTimes \cup {0} : offset <= t
  BY DEF SyncInv
<1>7. t \in Nat /\ t + TickNs * MaxTicks < U64
  BY <1>6, IepAssumption
<1>8. ts_ns' + offset \in 0 .. U64 - 1
  <2>1. ts_ns + offset >= 0  BY DEF SyncInv
  <2>2. TickNs * MaxTicks \in Nat  BY Constants
  <2>. QED  BY <2>1, <2>2, <1>4, <1>5, <1>6, <1>7, Types, Constants
<1>9. reading' = ts_ns' + offset
  BY <1>8, SmallMod, Constants DEF ReadCounter
<1>. QED  BY <1>4, <1>5, <1>8, <1>9 DEF nt

-----------------------------------------------------------------------------
LEMMA InvInit == Init => IInv
<1>. SUFFICES ASSUME Init PROVE IInv
  OBVIOUS
<1>1. 0 \div U32 = 0 /\ 0 % U32 = 0
  BY Constants
<1>2. TickNs * (0 - 0) = 0
  BY Constants
<1>3. TypeInv
  BY Constants DEF Init, TypeInv
<1>4. CounterInv
  BY <1>1, Constants DEF Init, CounterInv
<1>5. LagsOneTickPerRollover
  BY <1>1, <1>2 DEF Init, LagsOneTickPerRollover
<1>6. SyncInv
  BY DEF Init, SyncInv
<1>. QED  BY <1>3, <1>4, <1>5, <1>6 DEF IInv

LEMMA TickKeepsInv == IInv /\ Tick => IInv'
<1>. SUFFICES ASSUME IInv, Tick PROVE IInv'
  OBVIOUS
<1>. USE DEF IInv
<1>1. UNCHANGED <<ts_ns, last_iep_cnt, offset, ts_pru, polled>>
  BY DEF Tick
<1>2. TypeInv'
  BY <1>1, Types, Constants DEF Tick, TypeInv
<1>3. cnt' = ticks' % U32
  <2>1. ticks \in Nat /\ U32 \in Nat /\ U32 > 1
    BY Types, IepAssumption
  <2>2. ((ticks % U32) + 1) % U32 = (ticks + 1) % U32
    BY <2>1, NextMod
  <2>. QED  BY <2>2 DEF Tick, CounterInv
<1>4. CounterInv'
  BY <1>1, <1>3, Types, Constants DEF Tick, CounterInv
<1>5. LagsOneTickPerRollover' /\ SyncInv'
  BY <1>1 DEF LagsOneTickPerRollover, SyncInv
<1>. QED  BY <1>2, <1>4, <1>5

LEMMA ReadKeepsInv ==
  ASSUME IInv, ReadCounter,
         \/ UNCHANGED ts_pru
         \/ ts_pru' = reading'
  PROVE  IInv'
<1>. USE DEF IInv
<1>1. /\ ts_ns' = TickNs * (ticks - Turns(ticks))
      /\ ts_ns' \in Nat /\ ts_ns <= ts_ns'
      /\ reading' = ts_ns' + offset /\ reading' \in Nat
  BY ReadExact
<1>2. last_iep_cnt' = cnt /\ polled' = ticks /\ UNCHANGED <<cnt, offset, ticks>>
  BY DEF ReadCounter
<1>3. TypeInv'
  BY <1>1, <1>2, Types DEF TypeInv
<1>4. CounterInv'
  BY <1>2, Types, Constants DEF CounterInv
<1>5. LagsOneTickPerRollover'
  BY <1>1, <1>2 DEF LagsOneTickPerRollover, Turns
<1>6. ts_pru' # NoEvent => offset <= ts_pru' /\ ts_pru' <= ts_ns' + offset
  BY <1>1, Types DEF SyncInv
<1>7. SyncInv'
  BY <1>1, <1>2, <1>6, Types DEF SyncInv
<1>. QED  BY <1>3, <1>4, <1>5, <1>7

LEMMA AdjKeepsInv ==
  ASSUME IInv, NEW ts_host \in HostTimes, iep_adj_time(ts_host)
  PROVE  IInv'
<1>. USE DEF IInv
<1>1. /\ offset' = offset + (ts_host - ts_pru) /\ ts_pru' = NoEvent
      /\ UNCHANGED <<cnt, ts_ns, last_iep_cnt, ticks, polled>>
      /\ ts_host \in Nat
  BY Constants DEF iep_adj_time
<1>2. offset <= ts_pru /\ ts_pru <= ts_ns + offset
  BY DEF iep_adj_time, SyncInv
<1>3. offset' \in Int /\ offset' <= ts_host /\ ts_ns + offset' >= 0
  BY <1>1, <1>2, Types
<1>4. TypeInv'
  BY <1>1, <1>3 DEF TypeInv
<1>5. CounterInv' /\ LagsOneTickPerRollover'
  BY <1>1 DEF CounterInv, LagsOneTickPerRollover
<1>6. SyncInv'
  BY <1>1, <1>3 DEF SyncInv
<1>. QED  BY <1>4, <1>5, <1>6

LEMMA InvNext == IInv /\ [Next]_vars => IInv'
<1>. SUFFICES ASSUME IInv, [Next]_vars PROVE IInv'
  OBVIOUS
<1>1. CASE Tick
  BY <1>1, TickKeepsInv
<1>2. CASE iep_get_time
  BY <1>2, ReadKeepsInv DEF iep_get_time
<1>3. CASE StartSync
  BY <1>3, ReadKeepsInv DEF StartSync
<1>4. ASSUME NEW ts_host \in HostTimes, iep_adj_time(ts_host) PROVE IInv'
  BY <1>4, AdjKeepsInv
<1>5. CASE UNCHANGED vars
  BY <1>5 DEF vars, IInv, TypeInv, CounterInv, LagsOneTickPerRollover, SyncInv
<1>. QED  BY <1>1, <1>2, <1>3, <1>4, <1>5 DEF Next

LEMMA Invariant == Spec => []IInv
  BY InvInit, InvNext, PTL DEF Spec

-----------------------------------------------------------------------------
(* iep_get_time loses one tick each time the counter rolls over and no      *)
(* other, for every rate and width, and every spacing of reads whose        *)
(* products fit 32 bits.                                                    *)
THEOREM LagIsRollovers == Spec => []LagsOneTickPerRollover
<1>1. IInv => LagsOneTickPerRollover  BY DEF IInv
<1>. QED  BY Invariant, <1>1, PTL

LEMMA ButInit == Init => Clock!Init
<1>1. 0 \div U32 = 0
  BY Constants
<1>. QED  BY <1>1 DEF Init, Clock!Init, Clock!NoEvent, NoEvent

LEMMA ButNext == IInv /\ [Next]_vars => [Clock!Next]_(Clock!idealVars)
<1>. SUFFICES ASSUME IInv, [Next]_vars PROVE [Clock!Next]_(Clock!idealVars)
  OBVIOUS
<1>. USE DEF Clock!NoEvent, NoEvent, IInv
<1>0. ASSUME ReadCounter PROVE reading' = Clock!Now
  <2>1. reading' = TickNs * (ticks - Turns(ticks)) + offset
    BY <1>0, ReadExact
  <2>2. TickNs * (ticks - Turns(ticks)) \in Int
    BY Types, Constants
  <2>. QED  BY <2>1, <2>2, DivOne DEF Clock!Now, Turns
<1>1. CASE Tick
  <2>1. ticks' = ticks + 1 /\ UNCHANGED <<offset, reading, ts_pru>>
    BY <1>1 DEF Tick
  <2>2. /\ ticks' % U32 >= ticks % U32 => Turns(ticks') = Turns(ticks)
        /\ ticks' % U32 < ticks % U32  => Turns(ticks') = Turns(ticks) + 1
    <3>. DEFINE n == ticks'
    <3>1. /\ ticks \in Nat /\ n \in Nat /\ ticks <= n /\ n - ticks < U32
          /\ U32 \in Nat \ {0}
      BY <2>1, Types, Constants, IepAssumption
    <3>. HIDE DEF n
    <3>2. /\ n % U32 >= ticks % U32 => n \div U32 = ticks \div U32
          /\ n % U32 < ticks % U32  => n \div U32 = (ticks \div U32) + 1
      BY <3>1, TurnsBetween, Zenon
    <3>. QED  BY <3>2 DEF n, Turns
  <2>3. ticks' % U32 \in Int /\ ticks % U32 \in Int /\ Turns(ticks) \in Nat
    <3>1. ticks \in Nat /\ ticks' \in Nat /\ U32 \in Nat \ {0}
      BY <2>1, Types, Constants
    <3>. QED  BY <3>1, Division DEF Turns
  <2>4. CASE Turns(ticks') = Turns(ticks)
    BY <2>1, <2>3, <2>4, Types DEF Turns, Clock!Next, Clock!Advance
  <2>5. CASE Turns(ticks') = Turns(ticks) + 1
    <3>1. ticks' - Turns(ticks') = ticks - Turns(ticks)
      BY <2>1, <2>3, <2>5, Types
    <3>. QED  BY <2>1, <3>1 DEF Turns, Clock!idealVars
  <2>. QED  BY <2>2, <2>3, <2>4, <2>5
<1>2. CASE iep_get_time
  <2>1. Clock!Read
    BY <1>0, <1>2 DEF iep_get_time, ReadCounter, Clock!Read
  <2>. QED  BY <2>1 DEF Clock!Next
<1>3. CASE StartSync
  <2>1. Clock!NoteEvent
    BY <1>0, <1>3 DEF StartSync, ReadCounter, Clock!NoteEvent
  <2>. QED  BY <2>1 DEF Clock!Next
<1>4. ASSUME NEW ts_host \in HostTimes, iep_adj_time(ts_host) PROVE Clock!Align(ts_host)
  BY <1>4 DEF iep_adj_time, Clock!Align
<1>5. CASE UNCHANGED vars
  BY <1>5 DEF vars, Clock!idealVars
<1>. QED  BY <1>1, <1>2, <1>3, <1>4, <1>5 DEF Next, Clock!Next

(* Adjustments included, the clock is the ideal clock of all ticks but      *)
(* those of the rollovers.                                                  *)
THEOREM IepTimeIsIdealButForRollovers == Spec => ClockButForRollovers
  BY ButInit, ButNext, Invariant, PTL DEF Spec, ClockButForRollovers, Clock!Spec

-----------------------------------------------------------------------------
(* The measurement: the places of the two threads, the types, and what is  *)
(* invariant as long as no read has failed.                                *)
Places == {"test", "done", "wait", "clear", "drain", "read", "dispatch",
           "load", "store", "compare", "reset", "columns", "print"}
Meeting == {"load", "store", "compare", "reset", "columns", "print"}
Event == [ts : Nat, channel : {0, 1, 2}]
Row == [host : Nat, pru : Nat, difference : Int]

FirmwareTypeOK ==
  /\ edge \in Nat /\ startedLow \in BOOLEAN
  /\ pru \in {"starting", "loop", "await", "check", "adjusted", "trigger", "halted"}
  /\ back \in {"loop", "await", "adjusted"} /\ input_high \in BOOLEAN
  /\ pulses \in Nat /\ used \in Seq(Nat)
QueuesTypeOK == /\ ptp \in Seq(Event) /\ toPru \in Seq(Nat) /\ toHost \in Seq(Nat)
                /\ event \in Event /\ i \in Nat /\ errors \in Nat
PlacesTypeOK == /\ at \in [Threads -> Places]
                /\ at["recv"] \notin {"read", "dispatch"}
                /\ at["send"] \notin {"wait", "clear", "drain"}
MeetingTypeOK ==
  /\ ts_ready \in 0 .. 3 /\ last_pru_ts \in Nat /\ last_host_ts \in Nat
  /\ rows \in Seq(Row) /\ DOMAIN reg = Threads
  /\ \A t \in Threads :
       /\ at[t] = "store" => \E v \in {Bit(t), 3} : reg[t] = <<v>>
       /\ at[t] = "print" => \E h, p \in Nat : reg[t] = <<h, p>>
MeasureTypeOK == FirmwareTypeOK /\ QueuesTypeOK /\ PlacesTypeOK /\ MeetingTypeOK

(* What is captured and not dealt with yet.  An edge comes when everything *)
(* before it has been, and a pulse when the one before has been answered.  *)
EdgeEvent == [ts |-> edge, channel |-> 1]
PulseEvent == [ts |-> pulses, channel |-> 0]
EdgeWaits == IF at["send"] = "dispatch" THEN event = EdgeEvent
             ELSE ptp # << >> /\ ptp[1] = EdgeEvent
PulseWaits == \/ at["send"] = "dispatch" /\ event = PulseEvent
              \/ ptp # << >> /\ ptp[Len(ptp)] = PulseEvent
DeviceInv ==
  IF at["send"] = "dispatch"
    THEN \/ event = EdgeEvent /\ ptp \in {<< >>, <<PulseEvent>>}
         \/ event = PulseEvent /\ ptp = << >>
    ELSE /\ event = EmptyEvent
         /\ ptp \in {<< >>, <<EdgeEvent>>, <<PulseEvent>>, <<EdgeEvent, PulseEvent>>}

(* The host has counted the edges that do not wait, and kept every second. *)
LastKept == IF startedLow
              THEN IF High THEN (IF EdgeWaits THEN edge - 2 ELSE edge) ELSE edge - 1
              ELSE IF High THEN edge - 1 ELSE (IF EdgeWaits THEN edge - 2 ELSE edge)
EdgesInv ==
  /\ i + (IF startedLow THEN 0 ELSE 1) = IF EdgeWaits THEN edge ELSE edge + 1
  /\ last_host_ts = IF LastKept < 0 THEN 0 ELSE LastKept
  /\ at["send"] \in Meeting => ~EdgeWaits /\ last_host_ts = edge /\ edge > 0

SamplesInv ==
  /\ pru = "starting" => ~input_high /\ last_pru_ts = 0
  /\ toHost = IF High /\ input_high /\ last_pru_ts # edge THEN <<edge>> ELSE << >>
  /\ last_pru_ts # 0 =>
       last_pru_ts = IF ~High THEN edge - 1
                     ELSE IF input_high /\ toHost = << >> THEN edge ELSE edge - 2
  /\ at["recv"] \in Meeting => last_pru_ts = edge /\ edge > 0

Awaiting == \/ pru = "await"
            \/ pru \in {"check", "trigger"} /\ back = "await"
PulsesInv ==
  /\ \A k \in DOMAIN used : used[k] = k
  /\ pulses = Len(used) + (IF Awaiting THEN 1 ELSE 0)
  /\ toPru = IF Awaiting /\ ~PulseWaits THEN <<pulses>> ELSE << >>
  /\ PulseWaits => Awaiting

Near(h, p) == h > 0 /\ p > 0 /\ h - p \in -Apart .. Apart
Taken(bits) == /\ bits \in {1, 3} => last_pru_ts > 0
               /\ bits \in {2, 3} => last_host_ts > 0
BitsInv ==
  /\ Taken(ts_ready)
  /\ \A t \in Threads :
       /\ at[t] = "store" => Taken(reg[t][1])
       /\ at[t] \in {"reset", "columns", "print"} => Taken(3)
       /\ at[t] = "print" => Near(reg[t][1], reg[t][2]) /\ reg[t][2] <= last_pru_ts
RowsInv == \A n \in DOMAIN rows :
  /\ Near(rows[n].host, rows[n].pru) /\ rows[n].pru <= last_pru_ts
  /\ rows[n].difference \in -Apart .. Apart

Printing(t, e) == IF at[t] = "print" /\ reg[t][2] = e THEN 1 ELSE 0
Printed(e) == Cardinality(RowsOf(e)) + Printing("recv", e) + Printing("send", e)
Ahead == startedLow /\ last_pru_ts > 0 /\ last_host_ts = last_pru_ts + 2
Deciding(t) == at[t] \in Meeting \ {"print"}
RecvPast == IF Deciding("recv") THEN 0 ELSE 1
SendPast == IF Deciding("send") \/ last_host_ts < last_pru_ts THEN 0 ELSE 1
PruBit == ts_ready \in {1, 3}
RecvHasPrinted ==
  IF at["recv"] = "columns" THEN Printed(last_pru_ts) = SendPast
  ELSE ~Deciding("recv") /\ Printed(last_pru_ts) = 1 + SendPast
AtMostTwice == \A e \in Nat : Printed(e) <= 2
PastOnce == ~Ahead => Printed(last_pru_ts) <= RecvPast + SendPast
BitIsGone ==
  startedLow /\ last_pru_ts > 0 /\ ~Ahead /\ RecvHasPrinted /\ PruBit =>
    (at["send"] = "compare" /\ ts_ready = 3) \/ at["send"] = "reset"
AheadInv ==
  Ahead => /\ Printed(last_pru_ts) = 2 => ~PruBit
           /\ Printed(last_pru_ts) = 2 /\ at["send"] = "store" => reg["send"][1] # 3
           /\ at["send"] \in {"reset", "columns"} => Printed(last_pru_ts) <= 1
           /\ at["send"] = "columns" => ~PruBit
TwiceInv == AtMostTwice /\ PastOnce /\ BitIsGone /\ AheadInv

MeasureInv ==
  /\ MeasureTypeOK
  /\ errors = 0 => /\ DeviceInv /\ EdgesInv /\ SamplesInv /\ PulsesInv
                   /\ BitsInv /\ RowsInv /\ TwiceInv

-----------------------------------------------------------------------------
LEMMA MeasureTypeInit == MeasureInit => MeasureTypeOK
<1>. SUFFICES ASSUME MeasureInit PROVE MeasureTypeOK
  OBVIOUS
<1>1. FirmwareTypeOK
  <2>1. edge \in Nat /\ pulses \in Nat /\ used \in Seq(Nat)
    BY DEF MeasureInit
  <2>2. startedLow \in BOOLEAN /\ input_high \in BOOLEAN
    BY DEF MeasureInit
  <2>. QED  BY <2>1, <2>2 DEF MeasureInit, FirmwareTypeOK
<1>2. QueuesTypeOK
  BY DEF MeasureInit, QueuesTypeOK, EmptyEvent, ReadError, Event
<1>3. PlacesTypeOK
  BY DEF MeasureInit, PlacesTypeOK, Places, Threads
<1>4. MeetingTypeOK
  BY DEF MeasureInit, MeetingTypeOK
<1>. QED  BY <1>1, <1>2, <1>3, <1>4 DEF MeasureTypeOK

(* Writing to a ring keeps its type.                                       *)
LEMMA PutType ==
  ASSUME NEW q \in Seq(Nat), NEW e \in Nat PROVE Put(q, e) \in Seq(Nat)
BY AppendProperties DEF Put

LEMMA TypeStepFirmware == ASSUME MeasureTypeOK, Toggle \/ Pru PROVE MeasureTypeOK'
<1>. USE DEF MeasureTypeOK
<1>1. PlacesTypeOK' /\ MeetingTypeOK'
  BY DEF Toggle, Pru, Start, Adjusted, Trigger, terminate, NoPulse, Pulse, Await,
         check_input_pin, firmwareIdle, meeting, PlacesTypeOK, MeetingTypeOK
<1>2. FirmwareTypeOK'
  <2>. USE DEF FirmwareTypeOK, Check
  <2>1. CASE Toggle \/ Start \/ Adjusted \/ Trigger \/ terminate \/ NoPulse \/ Pulse
    BY <2>1 DEF Toggle, firmware, Start, Adjusted, Trigger, terminate, NoPulse, Pulse,
                firmwareIdle
  <2>2. CASE Await
    <3>1. toPru # << >> => Append(used, Head(toPru)) \in Seq(Nat)
      BY AppendProperties, HeadTailProperties DEF QueuesTypeOK
    <3>. QED  BY <2>2, <3>1 DEF Await, firmwareIdle
  <2>3. CASE check_input_pin
    BY <2>3 DEF check_input_pin, firmwareIdle, High, Rising
  <2>. QED  BY <2>1, <2>2, <2>3 DEF Pru
<1>3. QueuesTypeOK'
  <2>. USE DEF QueuesTypeOK, reader
  <2>1. CASE Toggle \/ Pulse
    <3>1. \A e \in Nat, c \in {0, 1} :
            Append(ptp, [ts |-> e, channel |-> c]) \in Seq(Event)
      BY AppendProperties DEF Event
    <3>2. edge' \in Nat /\ pulses' \in Nat
      BY <1>2 DEF FirmwareTypeOK
    <3>. QED  BY <2>1, <3>1, <3>2 DEF Toggle, Pulse, firmwareIdle
  <2>2. CASE Start \/ Adjusted \/ Trigger \/ terminate \/ NoPulse
    BY <2>2 DEF Start, Adjusted, Trigger, terminate, NoPulse, firmwareIdle
  <2>3. CASE Await
    BY <2>3, HeadTailProperties DEF Await, firmwareIdle
  <2>4. CASE check_input_pin
    BY <2>4, PutType DEF check_input_pin, firmwareIdle, FirmwareTypeOK
  <2>. QED  BY <2>1, <2>2, <2>3, <2>4 DEF Pru
<1>. QED  BY <1>1, <1>2, <1>3

LEMMA TypeStepMeet ==
  ASSUME MeasureTypeOK, NEW t \in Threads, Meet(t) PROVE MeasureTypeOK'
<1>. USE DEF MeasureTypeOK
<1>1. FirmwareTypeOK' /\ QueuesTypeOK'
  BY DEF Meet, LoadReady, StoreReady, Compare, Reset, LoadColumns, PrintRow, hostIdle,
         firmware, reader, FirmwareTypeOK, QueuesTypeOK
<1>2. PlacesTypeOK'
  BY DEF Meet, LoadReady, StoreReady, Compare, Reset, LoadColumns, PrintRow, GoTo,
         After, PlacesTypeOK, Places, Threads
<1>3. MeetingTypeOK'
  <2>. USE DEF MeetingTypeOK, PlacesTypeOK, GoTo, Keep
  <2>1. CASE LoadReady(t)
    <3>1. Or(ts_ready, Bit(t)) \in {Bit(t), 3}
      BY DEF Or, Bit
    <3>. QED  BY <2>1, <3>1 DEF LoadReady, meeting
  <2>2. CASE StoreReady(t)
    <3>1. reg[t][1] \in 0 .. 3
      BY <2>2 DEF StoreReady, Bit
    <3>. QED  BY <2>2, <3>1 DEF StoreReady
  <2>3. CASE Compare(t) \/ Reset(t)
    BY <2>3 DEF Compare, Reset, meeting, After
  <2>4. CASE LoadColumns(t)
    BY <2>4 DEF LoadColumns, meeting
  <2>5. CASE PrintRow(t)
    <3>1. reg[t][1] \in Nat /\ reg[t][2] \in Nat
      BY <2>5 DEF PrintRow
    <3>2. rows' \in Seq(Row)
      BY <2>5, <3>1, AppendProperties DEF PrintRow, Row
    <3>. QED  BY <2>5, <3>2 DEF PrintRow, After
  <2>. QED  BY <2>1, <2>2, <2>3, <2>4, <2>5 DEF Meet
<1>. QED  BY <1>1, <1>2, <1>3

LEMMA TypeStepHost ==
  ASSUME MeasureTypeOK,
         \/ \E t \in Threads : TestStop(t)
         \/ RecvWait \/ RecvClear \/ RecvDrain
         \/ SendRead \/ SendReadFails \/ SendSync \/ SendEdge \/ SendNeither \/ Main
  PROVE  MeasureTypeOK'
<1>. USE DEF MeasureTypeOK, TestStop, RecvWait, RecvClear, RecvDrain, SendRead,
             SendReadFails, SendSync, SendEdge, SendNeither, Main, MainStop, MainExit,
             mainIdle, hostIdle
<1>1. FirmwareTypeOK'
  BY DEF FirmwareTypeOK, firmware
<1>2. PlacesTypeOK'
  BY DEF PlacesTypeOK, GoTo, Places, Threads
<1>3. QueuesTypeOK'
  <2>. USE DEF QueuesTypeOK, reader
  <2>1. EmptyEvent \in Event /\ \A c \in {0, 1, 2} : [ts |-> ReadError, channel |-> c] \in Event
    BY DEF EmptyEvent, ReadError, Event
  <2>2. CASE RecvDrain \/ SendRead
    BY <2>2, HeadTailProperties
  <2>3. CASE SendSync
    BY <2>1, <2>3, PutType DEF Event
  <2>4. CASE SendEdge \/ SendNeither \/ SendReadFails
    BY <2>1, <2>4
  <2>5. CASE (\E t \in Threads : TestStop(t)) \/ RecvWait \/ RecvClear \/ Main
    BY <2>5
  <2>. QED  BY <2>2, <2>3, <2>4, <2>5
<1>4. MeetingTypeOK'
  <2>. USE DEF MeetingTypeOK, PlacesTypeOK, GoTo, meeting
  <2>1. CASE RecvDrain
    BY <2>1, HeadTailProperties DEF QueuesTypeOK
  <2>2. CASE SendEdge
    <3>1. last_host_ts' \in Nat
      BY <2>2 DEF QueuesTypeOK, Event
    <3>2. \A t \in Threads : at'[t] \in {"store", "print"} => at'[t] = at[t]
      BY <2>2 DEF Threads
    <3>. QED  BY <2>2, <3>1, <3>2
  <2>3. CASE \/ \E t \in Threads : TestStop(t)
             \/ RecvWait \/ RecvClear
             \/ SendRead \/ SendReadFails \/ SendSync \/ SendNeither \/ Main
    <3>1. \A t \in Threads : at'[t] \in {"store", "print"} => at'[t] = at[t]
      BY <2>3 DEF Threads
    <3>2. UNCHANGED <<ts_ready, last_pru_ts, last_host_ts, rows, reg>>
      BY <2>3
    <3>. QED  BY <3>1, <3>2
  <2>. QED  BY <2>1, <2>2, <2>3
<1>. QED  BY <1>1, <1>2, <1>3, <1>4

LEMMA MeasureTypeStep ==
  ASSUME MeasureTypeOK, [MeasureNext]_measureVars PROVE MeasureTypeOK'
<1>1. CASE Toggle \/ Pru
  BY <1>1, TypeStepFirmware
<1>2. ASSUME NEW t \in Threads, Meet(t) PROVE MeasureTypeOK'
  BY <1>2, TypeStepMeet
<1>3. CASE \/ \E t \in Threads : TestStop(t)
           \/ RecvWait \/ RecvClear \/ RecvDrain
           \/ SendRead \/ SendReadFails \/ SendSync \/ SendEdge \/ SendNeither \/ Main
  BY <1>3, TypeStepHost
<1>4. CASE UNCHANGED measureVars
  BY <1>4 DEF MeasureTypeOK, FirmwareTypeOK, QueuesTypeOK, PlacesTypeOK, MeetingTypeOK,
              measureVars, firmware, process, reader, meeting
<1>. QED  BY <1>1, <1>2, <1>3, <1>4 DEF MeasureNext, Receive, Send, Threads

-----------------------------------------------------------------------------
LEMMA Parity == ASSUME NEW n \in Nat PROVE Rising(n + 1) <=> ~Rising(n)
BY DEF Rising

LEMMA Tuples ==
  ASSUME NEW a, NEW b
  PROVE  /\ <<a>> # << >> /\ <<a, b>> # << >> /\ <<a, b>>[1] = a /\ <<a>>[1] = a
         /\ Len(<<a>>) = 1 /\ Len(<<a, b>>) = 2 /\ <<a, b>>[2] = b
         /\ Head(<<a>>) = a /\ Tail(<<a>>) = << >>
         /\ Head(<<a, b>>) = a /\ Tail(<<a, b>>) = <<b>>
         /\ Append(<< >>, a) = <<a>> /\ Append(<<a>>, b) = <<a, b>>
<1>1. /\ <<a>> # << >> /\ <<a, b>> # << >> /\ <<a, b>>[1] = a /\ <<a>>[1] = a
      /\ Len(<<a>>) = 1 /\ Len(<<a, b>>) = 2 /\ <<a, b>>[2] = b
  OBVIOUS
<1>2. <<a>> \in Seq({a, b}) /\ <<a, b>> \in Seq({a, b})
  OBVIOUS
<1>3. Append(<< >>, a) = <<a>>
  OBVIOUS
<1>7. Append(<<a>>, b) = <<a, b>>
  <2>1. Append(<<a>>, b) \in Seq({a, b}) /\ Len(Append(<<a>>, b)) = 2
        /\ Append(<<a>>, b)[1] = a /\ Append(<<a>>, b)[2] = b
    BY <1>1, <1>2, AppendProperties
  <2>2. \A k \in 1 .. Len(Append(<<a>>, b)) : Append(<<a>>, b)[k] = <<a, b>>[k]
    <3>. SUFFICES ASSUME NEW k \in 1 .. 2 PROVE Append(<<a>>, b)[k] = <<a, b>>[k]
      BY <2>1
    <3>1. k = 1 \/ k = 2
      OBVIOUS
    <3>. QED  BY <1>1, <2>1, <3>1
  <2>3. Len(Append(<<a>>, b)) = Len(<<a, b>>)
    BY <1>1, <2>1
  <2>. QED  BY <1>2, <2>1, <2>2, <2>3, SeqEqual
<1>4. /\ Head(<<a>>) = a /\ Head(<<a, b>>) = a
  OBVIOUS
<1>5. Tail(<<a>>) = << >>
  BY <1>1, <1>2, HeadTailProperties, EmptySeq
<1>6. Tail(<<a, b>>) = <<b>>
  OBVIOUS
<1>. QED  BY <1>1, <1>3, <1>4, <1>5, <1>6, <1>7

LEMMA Channels ==
  ASSUME FirmwareTypeOK
  PROVE  /\ EdgeEvent.channel = 1 /\ PulseEvent.channel = 0 /\ EdgeEvent # PulseEvent
         /\ EdgeEvent.ts = edge /\ PulseEvent.ts = pulses
         /\ EdgeEvent \in Event /\ PulseEvent \in Event
BY DEF EdgeEvent, PulseEvent, Event, FirmwareTypeOK

(* What waits, in terms of where it does.                                  *)
LEMMA WhatWaits ==
  ASSUME FirmwareTypeOK, DeviceInv
  PROVE  /\ ptp \in {<< >>, <<EdgeEvent>>, <<PulseEvent>>, <<EdgeEvent, PulseEvent>>}
         /\ at["send"] = "dispatch" =>
              /\ event = IF EdgeWaits THEN EdgeEvent ELSE PulseEvent
              /\ ptp = IF EdgeWaits /\ PulseWaits THEN <<PulseEvent>> ELSE << >>
              /\ EdgeWaits \/ PulseWaits
         /\ at["send"] # "dispatch" =>
              /\ EdgeWaits /\ PulseWaits => ptp = <<EdgeEvent, PulseEvent>>
              /\ EdgeWaits /\ ~PulseWaits => ptp = <<EdgeEvent>>
              /\ ~EdgeWaits /\ PulseWaits => ptp = <<PulseEvent>>
              /\ ~EdgeWaits /\ ~PulseWaits => ptp = << >>
              /\ event = EmptyEvent
<1>1. EdgeEvent # PulseEvent
  BY Channels
<1>2. CASE at["send"] = "dispatch"
  <2>1. ptp \in {<< >>, <<PulseEvent>>}
    BY <1>2 DEF DeviceInv
  <2>2. CASE ptp = << >>
    BY <1>1, <1>2, <2>2, Tuples DEF DeviceInv, EdgeWaits, PulseWaits
  <2>3. CASE ptp = <<PulseEvent>>
    <3>1. event = EdgeEvent
      BY <1>2, <2>3, Tuples DEF DeviceInv
    <3>2. EdgeWaits /\ PulseWaits
      BY <1>2, <2>3, <3>1, Tuples DEF EdgeWaits, PulseWaits
    <3>. QED  BY <1>2, <2>3, <3>1, <3>2
  <2>. QED  BY <2>1, <2>2, <2>3
<1>3. CASE at["send"] # "dispatch"
  <2>1. /\ event = EmptyEvent
        /\ ptp \in {<< >>, <<EdgeEvent>>, <<PulseEvent>>, <<EdgeEvent, PulseEvent>>}
    BY <1>3 DEF DeviceInv
  <2>2. CASE ptp = << >>
    BY <1>3, <2>1, <2>2, Tuples DEF EdgeWaits, PulseWaits
  <2>3. CASE ptp = <<EdgeEvent>>
    BY <1>1, <1>3, <2>1, <2>3, Tuples DEF EdgeWaits, PulseWaits
  <2>4. CASE ptp = <<PulseEvent>>
    BY <1>1, <1>3, <2>1, <2>4, Tuples DEF EdgeWaits, PulseWaits
  <2>5. CASE ptp = <<EdgeEvent, PulseEvent>>
    BY <1>1, <1>3, <2>1, <2>5, Tuples DEF EdgeWaits, PulseWaits
  <2>. QED  BY <2>1, <2>2, <2>3, <2>4, <2>5
<1>. QED  BY <1>2, <1>3

(* The other way around.                                                   *)
Waits(e, p) ==
  IF at["send"] = "dispatch"
    THEN /\ e \/ p
         /\ event = IF e THEN EdgeEvent ELSE PulseEvent
         /\ ptp = IF e /\ p THEN <<PulseEvent>> ELSE << >>
    ELSE /\ event = EmptyEvent
         /\ ptp = IF e THEN IF p THEN <<EdgeEvent, PulseEvent>> ELSE <<EdgeEvent>>
                       ELSE IF p THEN <<PulseEvent>> ELSE << >>
LEMMA DeviceFrom ==
  \A e, p \in BOOLEAN :
    FirmwareTypeOK /\ Waits(e, p) => DeviceInv /\ (EdgeWaits <=> e) /\ (PulseWaits <=> p)
<1>. SUFFICES ASSUME NEW e \in BOOLEAN, NEW p \in BOOLEAN, FirmwareTypeOK, Waits(e, p)
              PROVE  DeviceInv /\ (EdgeWaits <=> e) /\ (PulseWaits <=> p)
  OBVIOUS
<1>. USE DEF Waits
<1>1. EdgeEvent # PulseEvent
  BY Channels
<1>2. CASE at["send"] = "dispatch"
  BY <1>1, <1>2, Tuples DEF DeviceInv, EdgeWaits, PulseWaits
<1>3. CASE at["send"] # "dispatch"
  <2>1. CASE e /\ p
    <3>1. ptp = <<EdgeEvent, PulseEvent>> /\ event = EmptyEvent
      BY <1>3, <2>1
    <3>2. ptp # << >> /\ ptp[1] = EdgeEvent /\ ptp[Len(ptp)] = PulseEvent
      BY <3>1, Tuples
    <3>. QED  BY <1>1, <1>3, <2>1, <3>1, <3>2 DEF DeviceInv, EdgeWaits, PulseWaits
  <2>2. CASE e /\ ~p
    <3>1. ptp = <<EdgeEvent>> /\ event = EmptyEvent
      BY <1>3, <2>2
    <3>2. ptp # << >> /\ ptp[1] = EdgeEvent /\ ptp[Len(ptp)] = EdgeEvent
      BY <3>1, Tuples
    <3>. QED  BY <1>1, <1>3, <2>2, <3>1, <3>2 DEF DeviceInv, EdgeWaits, PulseWaits
  <2>3. CASE ~e /\ p
    <3>1. ptp = <<PulseEvent>> /\ event = EmptyEvent
      BY <1>3, <2>3
    <3>2. ptp # << >> /\ ptp[1] = PulseEvent /\ ptp[Len(ptp)] = PulseEvent
      BY <3>1, Tuples
    <3>. QED  BY <1>1, <1>3, <2>3, <3>1, <3>2 DEF DeviceInv, EdgeWaits, PulseWaits
  <2>4. CASE ~e /\ ~p
    <3>1. ptp = << >> /\ event = EmptyEvent
      BY <1>3, <2>4
    <3>. QED  BY <1>3, <2>4, <3>1 DEF DeviceInv, EdgeWaits, PulseWaits
  <2>. QED  BY <2>1, <2>2, <2>3, <2>4
<1>. QED  BY <1>2, <1>3

LEMMA DeviceFromNext ==
  (\A e, p \in BOOLEAN :
    FirmwareTypeOK /\ Waits(e, p) => DeviceInv /\ (EdgeWaits <=> e) /\ (PulseWaits <=> p))'
BY DeviceFrom, PTL

-----------------------------------------------------------------------------
(* What a step leaves alone that changes neither the events nor where      *)
(* they are.                                                               *)
EventsStay ==
  /\ UNCHANGED <<edge, startedLow, pulses, ptp, event, i, last_host_ts>>
  /\ at'["send"] = "dispatch" <=> at["send"] = "dispatch"
  /\ at'["send"] \in Meeting => at["send"] \in Meeting

LEMMA EventsStayKeepsInv ==
  ASSUME DeviceInv, EdgesInv, EventsStay
  PROVE  DeviceInv' /\ EdgesInv' /\ EdgeWaits' = EdgeWaits /\ PulseWaits' = PulseWaits
<1>1. EdgeEvent' = EdgeEvent /\ PulseEvent' = PulseEvent /\ EmptyEvent' = EmptyEvent
  BY DEF EventsStay, EdgeEvent, PulseEvent, EmptyEvent, ReadError
<1>2. DeviceInv'
  BY <1>1 DEF EventsStay, DeviceInv
<1>3. EdgeWaits' = EdgeWaits /\ PulseWaits' = PulseWaits
  BY <1>1 DEF EventsStay, EdgeWaits, PulseWaits
<1>4. High' = High /\ LastKept' = LastKept
  BY <1>3 DEF EventsStay, LastKept, High, Rising
<1>. QED  BY <1>2, <1>3, <1>4 DEF EventsStay, EdgesInv

LEMMA ToggleEvents ==
  ASSUME MeasureTypeOK, DeviceInv, EdgesInv, Toggle
  PROVE  DeviceInv' /\ EdgesInv' /\ ~EdgeWaits /\ ~PulseWaits /\ ~PulseWaits'
<1>1. ptp = << >> /\ at["send"] \in {"test", "read"} /\ at' = at /\ event' = event
  BY DEF Toggle, Handled, reader
<1>2. ~EdgeWaits /\ ~PulseWaits /\ event = EmptyEvent
  BY <1>1 DEF EdgeWaits, PulseWaits, DeviceInv
<1>3. edge' = edge + 1 /\ edge \in Nat /\ i \in Nat /\ startedLow \in BOOLEAN
  BY DEF Toggle, MeasureTypeOK, FirmwareTypeOK, QueuesTypeOK
<1>4. ptp' = <<EdgeEvent'>>
  BY <1>1, Tuples DEF Toggle, EdgeEvent
<1>5. FirmwareTypeOK'
  BY MeasureTypeStep DEF MeasureNext, MeasureTypeOK
<1>6. Waits(TRUE, FALSE)'
  BY <1>1, <1>2, <1>4 DEF Waits, EmptyEvent, ReadError
<1>7. DeviceInv' /\ EdgeWaits' /\ ~PulseWaits'
  BY <1>5, <1>6, DeviceFromNext
<1>8. High' <=> ~High
  BY <1>3, Parity DEF High
<1>9. EdgesInv'
  <2>1. UNCHANGED <<i, startedLow, last_host_ts>>
    BY DEF Toggle, reader, meeting
  <2>2. LastKept' = LastKept
    BY <1>2, <1>3, <1>7, <1>8, <2>1 DEF LastKept
  <2>3. i' + (IF startedLow' THEN 0 ELSE 1) = edge'
    BY <1>2, <1>3, <2>1 DEF EdgesInv
  <2>. QED  BY <1>1, <1>7, <2>1, <2>2, <2>3 DEF EdgesInv, Meeting
<1>. QED  BY <1>2, <1>7, <1>9

(* The last pulse has been answered when the next one is sent.             *)
LEMMA PulseEvents ==
  ASSUME MeasureTypeOK, DeviceInv, EdgesInv, ~PulseWaits, Pulse
  PROVE  DeviceInv' /\ EdgesInv' /\ PulseWaits'
<1>1. /\ UNCHANGED <<edge, startedLow, event, i, last_host_ts, at>>
      /\ ptp' = Append(ptp, PulseEvent')
  BY DEF Pulse, firmwareIdle, reader, meeting, PulseEvent
<1>2. FirmwareTypeOK /\ FirmwareTypeOK'
  BY MeasureTypeStep DEF MeasureNext, Pru, MeasureTypeOK
<1>3. EdgeEvent' = EdgeEvent /\ EmptyEvent' = EmptyEvent
  BY <1>1 DEF EdgeEvent, EmptyEvent, ReadError
<1>4. PICK e \in BOOLEAN : e <=> EdgeWaits
  BY DEF EdgeWaits
<1>5. Waits(e, TRUE)'
  <2>1. CASE at["send"] = "dispatch"
    <3>1. EdgeWaits /\ event = EdgeEvent /\ ptp = << >>
      BY <1>2, <2>1, WhatWaits
    <3>. QED  BY <1>1, <1>3, <1>4, <2>1, <3>1, Tuples DEF Waits
  <2>2. CASE at["send"] # "dispatch"
    <3>1. ptp = (IF e THEN <<EdgeEvent>> ELSE << >>) /\ event = EmptyEvent
      BY <1>2, <1>4, <2>2, WhatWaits
    <3>2. ptp' = IF e THEN <<EdgeEvent, PulseEvent'>> ELSE <<PulseEvent'>>
      BY <1>1, <3>1, Tuples
    <3>. QED  BY <1>1, <1>3, <2>2, <3>1, <3>2 DEF Waits
  <2>. QED  BY <2>1, <2>2
<1>6. DeviceInv' /\ EdgeWaits' = EdgeWaits /\ PulseWaits'
  <2>1. DeviceInv' /\ (EdgeWaits' <=> e) /\ PulseWaits'
    BY <1>2, <1>5, DeviceFromNext
  <2>. QED  BY <1>4, <2>1 DEF EdgeWaits
<1>7. EdgesInv'
  <2>1. High' = High /\ LastKept' = LastKept
    BY <1>1, <1>6 DEF LastKept, High, Rising
  <2>. QED  BY <1>1, <1>6, <2>1 DEF EdgesInv
<1>. QED  BY <1>6, <1>7

LEMMA ReadEvents ==
  ASSUME MeasureTypeOK, DeviceInv, EdgesInv, SendRead
  PROVE  DeviceInv' /\ EdgesInv' /\ PulseWaits' = PulseWaits
<1>1. /\ UNCHANGED <<edge, startedLow, pulses, i, last_host_ts>>
      /\ event' = Head(ptp) /\ ptp' = Tail(ptp) /\ ptp # << >>
      /\ at["send"] = "read" /\ at'["send"] = "dispatch"
  BY DEF SendRead, hostIdle, firmware, meeting, GoTo, MeasureTypeOK, PlacesTypeOK, Threads
<1>2. FirmwareTypeOK /\ FirmwareTypeOK'
  BY MeasureTypeStep DEF MeasureNext, Send, MeasureTypeOK
<1>3. EdgeEvent' = EdgeEvent /\ PulseEvent' = PulseEvent
  BY <1>1 DEF EdgeEvent, PulseEvent
<1>4. PICK e \in BOOLEAN, p \in BOOLEAN : (e <=> EdgeWaits) /\ (p <=> PulseWaits)
  BY DEF EdgeWaits, PulseWaits
<1>5. Waits(e, p)'
  <2>1. ptp = IF e THEN IF p THEN <<EdgeEvent, PulseEvent>> ELSE <<EdgeEvent>>
                   ELSE IF p THEN <<PulseEvent>> ELSE << >>
    BY <1>1, <1>2, <1>4, WhatWaits
  <2>2. e \/ p
    BY <1>1, <2>1
  <2>3. /\ Head(ptp) = IF e THEN EdgeEvent ELSE PulseEvent
        /\ Tail(ptp) = IF e /\ p THEN <<PulseEvent>> ELSE << >>
    BY <2>1, <2>2, Tuples
  <2>. QED  BY <1>1, <1>3, <2>2, <2>3 DEF Waits
<1>6. DeviceInv' /\ EdgeWaits' = EdgeWaits /\ PulseWaits' = PulseWaits
  <2>1. DeviceInv' /\ (EdgeWaits' <=> e) /\ (PulseWaits' <=> p)
    BY <1>2, <1>5, DeviceFromNext
  <2>. QED  BY <1>4, <2>1 DEF EdgeWaits, PulseWaits
<1>7. EdgesInv'
  <2>1. High' = High /\ LastKept' = LastKept
    BY <1>1, <1>6 DEF LastKept, High, Rising
  <2>. QED  BY <1>1, <1>6, <2>1 DEF EdgesInv, Meeting
<1>. QED  BY <1>6, <1>7

(* The answer to a pulse is at hand only when no edge waits.               *)
LEMMA SyncEvents ==
  ASSUME MeasureTypeOK, DeviceInv, EdgesInv, SendSync
  PROVE  /\ DeviceInv' /\ EdgesInv' /\ PulseWaits /\ ~PulseWaits'
         /\ event = PulseEvent
<1>1. /\ UNCHANGED <<edge, startedLow, pulses, i, last_host_ts, ptp>>
      /\ event' = EmptyEvent /\ event.channel = 0
      /\ at["send"] = "dispatch" /\ at'["send"] = "test"
  BY DEF SendSync, hostIdle, firmware, meeting, GoTo, MeasureTypeOK, PlacesTypeOK, Threads
<1>2. FirmwareTypeOK /\ FirmwareTypeOK'
  BY MeasureTypeStep DEF MeasureNext, Send, MeasureTypeOK
<1>3. ~EdgeWaits /\ PulseWaits /\ ptp = << >> /\ event = PulseEvent
  BY <1>1, <1>2, WhatWaits, Channels
<1>4. Waits(FALSE, FALSE)'
  BY <1>1, <1>3 DEF Waits, EmptyEvent, ReadError
<1>5. DeviceInv' /\ ~EdgeWaits' /\ ~PulseWaits'
  BY <1>2, <1>4, DeviceFromNext
<1>6. High' = High /\ LastKept' = LastKept
  BY <1>1, <1>3, <1>5 DEF LastKept, High, Rising
<1>7. EdgesInv'
  BY <1>1, <1>3, <1>5, <1>6 DEF EdgesInv, Meeting
<1>. QED  BY <1>3, <1>5, <1>7

(* The edge at hand is the last one there was, and it is kept if it is a   *)
(* rising one, or a falling one if the first that was captured was.        *)
LEMMA EdgeEvents ==
  ASSUME MeasureTypeOK, DeviceInv, EdgesInv, SendEdge
  PROVE  /\ DeviceInv' /\ EdgesInv' /\ PulseWaits' = PulseWaits
         /\ IF High <=> startedLow
              THEN last_host_ts' = edge /\ at'["send"] = "load"
                   /\ last_host_ts = IF edge < 2 THEN 0 ELSE edge - 2
              ELSE last_host_ts' = last_host_ts /\ at'["send"] = "test"
<1>1. /\ UNCHANGED <<edge, startedLow, pulses, ptp>>
      /\ event' = EmptyEvent /\ event.channel = 1 /\ i' = i + 1
      /\ at["send"] = "dispatch"
  BY DEF SendEdge, hostIdle, firmware
<1>2. FirmwareTypeOK /\ FirmwareTypeOK'
  BY MeasureTypeStep DEF MeasureNext, Send, MeasureTypeOK
<1>3. edge \in Nat /\ i \in Nat /\ startedLow \in BOOLEAN
  BY DEF MeasureTypeOK, FirmwareTypeOK, QueuesTypeOK
<1>4. EdgeWaits /\ event.ts = edge
      /\ ptp = IF PulseWaits THEN <<PulseEvent>> ELSE << >>
  BY <1>1, <1>2, WhatWaits, Channels
<1>5. i + (IF startedLow THEN 0 ELSE 1) = edge
  BY <1>4 DEF EdgesInv
<1>6. i % 2 = 1 <=> (High <=> startedLow)
  <2>1. CASE startedLow
    BY <1>5, <2>1, <1>3 DEF High, Rising
  <2>2. CASE ~startedLow
    <3>1. edge = i + 1
      BY <1>3, <1>5, <2>2
    <3>. QED  BY <1>3, <2>2, <3>1, Parity DEF High, Rising
  <2>. QED  BY <2>1, <2>2
<1>7. IF High <=> startedLow
        THEN last_host_ts' = edge /\ at'["send"] = "load"
        ELSE last_host_ts' = last_host_ts /\ at'["send"] = "test"
  BY <1>4, <1>6 DEF SendEdge, GoTo, MeasureTypeOK, PlacesTypeOK, Threads
<1>8. last_host_ts = IF LastKept < 0 THEN 0 ELSE LastKept
  BY DEF EdgesInv
<1>9. (High <=> startedLow) => last_host_ts = IF edge < 2 THEN 0 ELSE edge - 2
  BY <1>3, <1>4, <1>8 DEF LastKept
<1>10. PICK p \in BOOLEAN : p <=> PulseWaits
  BY DEF PulseWaits
<1>11. Waits(FALSE, p)'
  BY <1>1, <1>4, <1>7, <1>10 DEF Waits, EmptyEvent, ReadError, PulseEvent
<1>12. DeviceInv' /\ ~EdgeWaits' /\ PulseWaits' = PulseWaits
  <2>1. DeviceInv' /\ ~EdgeWaits' /\ (PulseWaits' <=> p)
    BY <1>2, <1>11, DeviceFromNext
  <2>. QED  BY <1>10, <2>1 DEF PulseWaits
<1>13. High' = High
  BY <1>1 DEF High, Rising
<1>14. last_host_ts' = IF LastKept' < 0 THEN 0 ELSE LastKept'
  BY <1>1, <1>3, <1>4, <1>7, <1>8, <1>12, <1>13 DEF LastKept
<1>15. EdgesInv'
  <2>1. i' + (IF startedLow' THEN 0 ELSE 1) = edge' + 1
    BY <1>1, <1>3, <1>5
  <2>2. (High <=> startedLow) => edge > 0
    <3>1. High => edge > 0
      BY <1>3 DEF High, Rising
    <3>2. ~startedLow => edge > 0
      BY <1>3, <1>5
    <3>. QED  BY <3>1, <3>2
  <2>3. at'["send"] \in Meeting => last_host_ts' = edge' /\ edge' > 0
    BY <1>1, <1>7, <2>2 DEF Meeting
  <2>. QED  BY <1>12, <1>14, <2>1, <2>3 DEF EdgesInv
<1>. QED  BY <1>7, <1>9, <1>12, <1>15

-----------------------------------------------------------------------------
(* Which steps leave the events alone.                                     *)
LEMMA MeetMoves ==
  ASSUME MeasureTypeOK, NEW t \in Threads, Meet(t)
  PROVE  /\ UNCHANGED <<hostIdle, ptp, toPru, toHost, evtout0, reader, last_pru_ts,
                        last_host_ts, process>>
         /\ at[t] \in Meeting /\ at'[t] \in Meeting \cup {After(t)}
         /\ \A u \in Threads \ {t} : at'[u] = at[u] /\ reg'[u] = reg[u]
<1>. USE DEF GoTo, Keep, Meeting, MeasureTypeOK, PlacesTypeOK, MeetingTypeOK, meeting
<1>1. CASE LoadReady(t)
  BY <1>1 DEF LoadReady
<1>2. CASE StoreReady(t)
  BY <1>2 DEF StoreReady
<1>3. CASE Compare(t)
  BY <1>3 DEF Compare
<1>4. CASE Reset(t)
  BY <1>4 DEF Reset
<1>5. CASE LoadColumns(t)
  BY <1>5 DEF LoadColumns
<1>6. CASE PrintRow(t)
  BY <1>6 DEF PrintRow
<1>. QED  BY <1>1, <1>2, <1>3, <1>4, <1>5, <1>6 DEF Meet

(* A move of a thread between two times that it has taken.                 *)
Move == (\E t \in Threads : TestStop(t)) \/ RecvWait \/ RecvClear

LEMMA MoveMoves ==
  ASSUME MeasureTypeOK, Move
  PROVE  /\ UNCHANGED <<hostIdle, ptp, toPru, toHost, reg, reader, meeting, process>>
         /\ \A t \in Threads : \/ at'[t] = at[t]
                               \/ /\ at[t] \notin Meeting \cup {"dispatch"}
                                  /\ at'[t] \notin Meeting \cup {"dispatch"}
BY DEF Move, TestStop, RecvWait, RecvClear, GoTo, Meeting, MeasureTypeOK, PlacesTypeOK,
       Threads

LEMMA MeetEventsStay ==
  ASSUME MeasureTypeOK, NEW t \in Threads, Meet(t) PROVE EventsStay
<1>1. "send" \in Threads /\ After(t) \notin Meeting
  BY DEF Threads, After, Meeting
<1>2. CASE t = "send"
  BY <1>2, MeetMoves DEF EventsStay, hostIdle, firmware, reader, After, Meeting
<1>3. CASE t # "send"
  BY <1>1, <1>3, MeetMoves DEF EventsStay, hostIdle, firmware, reader
<1>. QED  BY <1>2, <1>3

LEMMA MoveEventsStay == ASSUME MeasureTypeOK, Move PROVE EventsStay
<1>1. "send" \in Threads
  BY DEF Threads
<1>. QED  BY <1>1, MoveMoves DEF EventsStay, hostIdle, firmware, reader, meeting

LEMMA DrainEventsStay == ASSUME MeasureTypeOK, RecvDrain PROVE EventsStay
BY DEF RecvDrain, EventsStay, hostIdle, firmware, reader, GoTo, MeasureTypeOK,
       PlacesTypeOK, Threads

LEMMA MainEventsStay == ASSUME Main PROVE EventsStay
BY DEF Main, MainStop, MainExit, mainIdle, hostIdle, firmware, reader, meeting, EventsStay

LEMMA FirmwareEventsStay ==
  ASSUME Start \/ NoPulse \/ Await \/ Adjusted \/ check_input_pin \/ Trigger \/ terminate
  PROVE  EventsStay
BY DEF Start, NoPulse, Await, Adjusted, check_input_pin, Trigger, terminate, firmwareIdle,
       reader, meeting, EventsStay

LEMMA EventsStep ==
  ASSUME MeasureTypeOK, DeviceInv, EdgesInv, PulsesInv, [MeasureNext]_measureVars,
         ~SendReadFails
  PROVE  DeviceInv' /\ EdgesInv'
<1>1. CASE Toggle
  BY <1>1, ToggleEvents
<1>2. CASE Pulse
  <2>1. ~PulseWaits
    BY <1>2 DEF Pulse, PulsesInv, Awaiting
  <2>. QED  BY <1>2, <2>1, PulseEvents
<1>3. CASE SendRead
  BY <1>3, ReadEvents
<1>4. CASE SendSync
  BY <1>4, SyncEvents
<1>5. CASE SendEdge
  BY <1>5, EdgeEvents
<1>6. CASE SendNeither
  <2>1. event \in {EdgeEvent, PulseEvent}
    BY <1>6 DEF SendNeither, DeviceInv
  <2>. QED  BY <1>6, <2>1, Channels DEF SendNeither, MeasureTypeOK
<1>7. CASE EventsStay
  BY <1>7, EventsStayKeepsInv
<1>8. CASE UNCHANGED measureVars
  BY <1>7, <1>8 DEF measureVars, EventsStay, firmware, reader, meeting
<1>. QED
  BY <1>1, <1>2, <1>3, <1>4, <1>5, <1>6, <1>7, <1>8, MeetEventsStay, MoveEventsStay,
     DrainEventsStay, MainEventsStay, FirmwareEventsStay
     DEF MeasureNext, Pru, Receive, Send, Move, Threads

-----------------------------------------------------------------------------
(* The samples.                                                            *)
SamplesStay ==
  /\ UNCHANGED <<edge, input_high, last_pru_ts, toHost>>
  /\ pru' = "starting" => pru = "starting"
  /\ at'["recv"] \in Meeting => at["recv"] \in Meeting

LEMMA SamplesStayKeepsInv == ASSUME SamplesInv, SamplesStay PROVE SamplesInv'
BY DEF SamplesInv, SamplesStay, High, Rising

LEMMA ToggleSamples == ASSUME MeasureTypeOK, SamplesInv, Toggle PROVE SamplesInv'
<1>1. /\ edge' = edge + 1 /\ toHost = << >> /\ at["recv"] \in {"test", "wait"}
      /\ IF pru = "starting" THEN TRUE ELSE input_high = High
      /\ UNCHANGED <<toHost, pru, input_high, last_pru_ts, at>>
  BY DEF Toggle, Handled, firmware, meeting
<1>2. edge \in Nat /\ last_pru_ts \in Nat /\ input_high \in BOOLEAN
  BY DEF MeasureTypeOK, FirmwareTypeOK, MeetingTypeOK
<1>3. High' <=> ~High
  BY <1>1, <1>2, Parity DEF High
<1>4. <<edge>> # << >>
  OBVIOUS
<1>5. CASE pru = "starting"
  BY <1>1, <1>3, <1>5 DEF SamplesInv, Meeting
<1>6. CASE pru # "starting" /\ High
  <2>1. last_pru_ts = edge
    BY <1>1, <1>4, <1>6 DEF SamplesInv
  <2>. QED  BY <1>1, <1>2, <1>3, <1>6, <2>1 DEF SamplesInv, Meeting
<1>7. CASE pru # "starting" /\ ~High
  <2>1. last_pru_ts # 0 => last_pru_ts = edge - 1
    BY <1>7 DEF SamplesInv
  <2>2. ~input_high' /\ High'
    BY <1>1, <1>3, <1>7
  <2>3. last_pru_ts' # 0 => last_pru_ts' = edge' - 2
    BY <1>1, <1>2, <2>1
  <2>. QED  BY <1>1, <1>7, <2>2, <2>3 DEF SamplesInv, Meeting
<1>. QED  BY <1>5, <1>6, <1>7

LEMMA CheckSamples ==
  ASSUME MeasureTypeOK, SamplesInv, check_input_pin PROVE SamplesInv'
<1>1. /\ UNCHANGED <<edge, last_pru_ts, at>> /\ input_high' = High /\ pru = "check"
  BY DEF check_input_pin, firmwareIdle, meeting
<1>2. /\ edge \in Nat /\ last_pru_ts \in Nat /\ input_high \in BOOLEAN
      /\ back # "starting"
  BY DEF MeasureTypeOK, FirmwareTypeOK, MeetingTypeOK
<1>3. High' = High /\ pru' # "starting"
  BY <1>1, <1>2 DEF High, Rising, check_input_pin
<1>4. CASE High /\ ~input_high
  <2>1. toHost = << >> /\ edge # 0
    BY <1>4 DEF SamplesInv, High, Rising
  <2>2. toHost' = <<edge>>
    BY <1>4, <2>1, Tuples DEF check_input_pin, Put, Capacity
  <2>3. last_pru_ts # 0 => last_pru_ts = edge - 2
    BY <1>4 DEF SamplesInv
  <2>4. last_pru_ts # edge /\ <<edge>> # << >>
    BY <1>2, <2>1, <2>3
  <2>. QED  BY <1>1, <1>3, <1>4, <2>1, <2>2, <2>3, <2>4 DEF SamplesInv
<1>5. CASE ~(High /\ ~input_high)
  <2>1. toHost' = toHost
    BY <1>5 DEF check_input_pin
  <2>. QED  BY <1>1, <1>2, <1>3, <1>5, <2>1 DEF SamplesInv
<1>. QED  BY <1>4, <1>5

LEMMA DrainSamples ==
  ASSUME MeasureTypeOK, SamplesInv, RecvDrain
  PROVE  /\ SamplesInv'
         /\ toHost # << >> =>
              /\ last_pru_ts' = edge /\ High /\ at'["recv"] = "load"
              /\ last_pru_ts # 0 => last_pru_ts = edge - 2
         /\ toHost = << >> => at'["recv"] = "test" /\ last_pru_ts' = last_pru_ts
<1>1. UNCHANGED <<edge, input_high, pru>>
  BY DEF RecvDrain, hostIdle, firmware
<1>2. High' = High
  BY <1>1 DEF High, Rising
<1>3. CASE toHost # << >>
  <2>1. toHost = <<edge>> /\ High /\ input_high
    BY <1>3 DEF SamplesInv
  <2>2. toHost' = << >> /\ last_pru_ts' = edge /\ at'["recv"] = "load"
    BY <1>3, <2>1, Tuples
       DEF RecvDrain, GoTo, MeasureTypeOK, PlacesTypeOK, Threads
  <2>3. pru # "starting" /\ (last_pru_ts # 0 => last_pru_ts = edge - 2)
    BY <1>3, <2>1 DEF SamplesInv
  <2>4. edge > 0
    BY <2>1 DEF High, Rising, MeasureTypeOK, FirmwareTypeOK
  <2>. QED  BY <1>1, <1>2, <1>3, <2>1, <2>2, <2>3, <2>4 DEF SamplesInv
<1>4. CASE toHost = << >>
  <2>1. at'["recv"] = "test" /\ UNCHANGED <<toHost, last_pru_ts>>
    BY <1>4 DEF RecvDrain, GoTo, MeasureTypeOK, PlacesTypeOK, Threads
  <2>. QED  BY <1>1, <1>4, <2>1, SamplesStayKeepsInv DEF SamplesStay, Meeting
<1>. QED  BY <1>3, <1>4

LEMMA SamplesStep ==
  ASSUME MeasureTypeOK, SamplesInv, [MeasureNext]_measureVars PROVE SamplesInv'
<1>. USE DEF SamplesStay
<1>1. CASE Toggle
  BY <1>1, ToggleSamples
<1>2. CASE check_input_pin
  BY <1>2, CheckSamples
<1>3. CASE RecvDrain
  BY <1>3, DrainSamples
<1>4. CASE Start \/ Pulse \/ NoPulse \/ Await \/ Adjusted \/ Trigger \/ terminate
  <2>1. UNCHANGED <<edge, input_high, last_pru_ts, toHost, at>>
    BY <1>4 DEF Start, Pulse, NoPulse, Await, Adjusted, Trigger, terminate, firmwareIdle,
                meeting
  <2>2. pru' # "starting"
    BY <1>4 DEF Start, Pulse, NoPulse, Await, Adjusted, Trigger, terminate, Check,
                MeasureTypeOK, FirmwareTypeOK
  <2>. QED  BY <2>1, <2>2, SamplesStayKeepsInv
<1>5. ASSUME NEW t \in Threads, Meet(t) PROVE SamplesInv'
  <2>1. "recv" \in Threads /\ After(t) \notin Meeting
    BY DEF Threads, After, Meeting
  <2>2. CASE t = "recv"
    BY <1>5, <2>2, MeetMoves, SamplesStayKeepsInv DEF hostIdle, firmware
  <2>3. CASE t # "recv"
    BY <1>5, <2>1, <2>3, MeetMoves, SamplesStayKeepsInv DEF hostIdle, firmware
  <2>. QED  BY <2>2, <2>3
<1>6. CASE Move
  <2>1. "recv" \in Threads
    BY DEF Threads
  <2>. QED  BY <1>6, <2>1, MoveMoves, SamplesStayKeepsInv DEF hostIdle, firmware, meeting
<1>7. CASE SendRead \/ SendReadFails \/ SendSync \/ SendEdge \/ SendNeither
  <2>1. UNCHANGED <<edge, input_high, last_pru_ts, toHost, pru>>
    BY <1>7 DEF SendRead, SendReadFails, SendSync, SendEdge, SendNeither, hostIdle,
                firmware, meeting
  <2>2. at'["recv"] = at["recv"]
    BY <1>7 DEF SendRead, SendReadFails, SendSync, SendEdge, SendNeither, GoTo,
                MeasureTypeOK, PlacesTypeOK, Threads
  <2>. QED  BY <2>1, <2>2, SamplesStayKeepsInv
<1>8. CASE Main
  BY <1>8, SamplesStayKeepsInv
     DEF Main, MainStop, MainExit, mainIdle, hostIdle, firmware, meeting
<1>9. CASE UNCHANGED measureVars
  BY <1>9, SamplesStayKeepsInv DEF measureVars, firmware, meeting
<1>. QED  BY <1>1, <1>2, <1>3, <1>4, <1>5, <1>6, <1>7, <1>8, <1>9
             DEF MeasureNext, Pru, Receive, Send, Move, Threads

-----------------------------------------------------------------------------
(* The synchronisation pulses.                                             *)
PulsesStay ==
  /\ UNCHANGED <<used, pulses, toPru>>
  /\ Awaiting' <=> Awaiting
  /\ PulseWaits' <=> PulseWaits

LEMMA PulsesStayKeepsInv == ASSUME PulsesInv, PulsesStay PROVE PulsesInv'
BY DEF PulsesInv, PulsesStay

LEMMA AwaitPulses ==
  ASSUME MeasureTypeOK, DeviceInv, EdgesInv, PulsesInv, Await PROVE PulsesInv'
<1>1. PulseWaits' = PulseWaits
  BY FirmwareEventsStay, EventsStayKeepsInv
<1>2. pru = "await" /\ Awaiting /\ pulses' = pulses
  BY DEF Await, Awaiting
<1>3. CASE toPru = << >>
  <2>1. UNCHANGED <<used, toPru>> /\ Awaiting'
    BY <1>3 DEF Await, Check, Awaiting
  <2>. QED  BY <1>1, <1>2, <1>3, <2>1, PulsesStayKeepsInv DEF PulsesStay
<1>4. CASE toPru # << >>
  <2>1. toPru = <<pulses>> /\ ~PulseWaits /\ pulses = Len(used) + 1
    BY <1>2, <1>4 DEF PulsesInv
  <2>2. toPru' = << >> /\ used' = Append(used, pulses) /\ ~Awaiting'
    BY <1>2, <1>4, <2>1, Tuples DEF Await, Check, Awaiting
  <2>3. used \in Seq(Nat) /\ pulses \in Nat
    BY DEF MeasureTypeOK, FirmwareTypeOK
  <2>4. /\ Len(used') = Len(used) + 1 /\ used'[Len(used) + 1] = pulses
        /\ DOMAIN used = 1 .. Len(used) /\ DOMAIN used' = 1 .. Len(used')
        /\ \A k \in 1 .. Len(used) : used'[k] = used[k]
    BY <2>2, <2>3, AppendProperties
  <2>5. \A k \in DOMAIN used' : used'[k] = k
    <3>1. \A k \in 1 .. Len(used) : used[k] = k
      BY <2>4 DEF PulsesInv
    <3>2. \A k \in 1 .. Len(used) + 1 : k \in 1 .. Len(used) \/ k = Len(used) + 1
      BY <2>1, <2>3
    <3>3. DOMAIN used' = 1 .. Len(used) + 1
      BY <2>4
    <3>. QED  BY <2>1, <2>4, <3>1, <3>2, <3>3
  <2>. QED  BY <1>1, <1>2, <2>1, <2>2, <2>4, <2>5 DEF PulsesInv
<1>. QED  BY <1>3, <1>4

LEMMA PulsesStep ==
  ASSUME MeasureTypeOK, DeviceInv, EdgesInv, PulsesInv, [MeasureNext]_measureVars,
         ~SendReadFails
  PROVE  PulsesInv'
<1>. USE DEF PulsesStay
<1>1. CASE Toggle
  <2>1. UNCHANGED <<used, pulses, toPru, pru, back>>
    BY <1>1 DEF Toggle, firmware
  <2>. QED  BY <1>1, <2>1, ToggleEvents, PulsesStayKeepsInv DEF Awaiting
<1>2. CASE Pulse
  <2>1. ~Awaiting /\ toPru = << >> /\ ~PulseWaits /\ pulses = Len(used)
    BY <1>2 DEF Pulse, PulsesInv, Awaiting, MeasureTypeOK, FirmwareTypeOK
  <2>2. PulseWaits' /\ Awaiting'
    BY <1>2, <2>1, PulseEvents DEF Pulse, Awaiting
  <2>. QED  BY <1>2, <2>1, <2>2 DEF Pulse, PulsesInv
<1>3. CASE Await
  BY <1>3, AwaitPulses
<1>4. CASE Start \/ NoPulse \/ Adjusted \/ check_input_pin \/ Trigger \/ terminate
  <2>1. PulseWaits' = PulseWaits
    BY <1>4, FirmwareEventsStay, EventsStayKeepsInv
  <2>2. Awaiting' <=> Awaiting
    BY <1>4 DEF Start, NoPulse, Adjusted, check_input_pin, Trigger, terminate, Check,
                Awaiting, MeasureTypeOK, FirmwareTypeOK
  <2>3. UNCHANGED <<used, pulses, toPru>>
    BY <1>4 DEF Start, NoPulse, Adjusted, check_input_pin, Trigger, terminate
  <2>. QED  BY <2>1, <2>2, <2>3, PulsesStayKeepsInv
<1>5. CASE SendSync
  <2>1. UNCHANGED <<used, pulses, pru, back>> /\ toPru' = Put(toPru, event.ts)
    BY <1>5 DEF SendSync, hostIdle, firmware
  <2>2. PulseWaits /\ ~PulseWaits' /\ event.ts = pulses
    BY <1>5, SyncEvents, Channels DEF MeasureTypeOK
  <2>3. Awaiting /\ toPru = << >> /\ toPru' = <<pulses>>
    BY <2>1, <2>2, Tuples DEF PulsesInv, Put, Capacity
  <2>. QED  BY <2>1, <2>2, <2>3 DEF PulsesInv, Awaiting
<1>6. CASE SendRead \/ SendEdge
  <2>1. UNCHANGED <<used, pulses, pru, back, toPru>>
    BY <1>6 DEF SendRead, SendEdge, hostIdle, firmware
  <2>. QED  BY <1>6, <2>1, ReadEvents, EdgeEvents, PulsesStayKeepsInv DEF Awaiting
<1>7. CASE SendNeither
  <2>1. event \in {EdgeEvent, PulseEvent}
    BY <1>7 DEF SendNeither, DeviceInv
  <2>. QED  BY <1>7, <2>1, Channels DEF SendNeither, MeasureTypeOK
<1>8. CASE EventsStay /\ UNCHANGED <<used, pru, back, toPru>>
  BY <1>8, EventsStayKeepsInv, PulsesStayKeepsInv DEF EventsStay, Awaiting
<1>9. CASE RecvDrain \/ Main \/ UNCHANGED measureVars
  <2>1. UNCHANGED <<used, pru, back, toPru>>
    BY <1>9 DEF RecvDrain, Main, MainStop, MainExit, mainIdle, hostIdle, measureVars,
                firmware
  <2>2. EventsStay
    BY <1>9, DrainEventsStay, MainEventsStay
       DEF measureVars, EventsStay, firmware, reader, meeting
  <2>. QED  BY <1>8, <2>1, <2>2
<1>10. ASSUME NEW t \in Threads, Meet(t) PROVE PulsesInv'
  BY <1>8, <1>10, MeetMoves, MeetEventsStay DEF hostIdle, firmware
<1>11. CASE Move
  BY <1>8, <1>11, MoveMoves, MoveEventsStay DEF hostIdle, firmware
<1>. QED  BY <1>1, <1>2, <1>3, <1>4, <1>5, <1>6, <1>7, <1>9, <1>10, <1>11
             DEF MeasureNext, Pru, Receive, Send, Move, Threads

-----------------------------------------------------------------------------
(* How far apart the two times are.                                        *)
LEMMA Distance ==
  ASSUME MeasureTypeOK, EdgesInv, SamplesInv
  PROVE  /\ last_pru_ts <= edge /\ last_host_ts <= edge
         /\ last_pru_ts > 0 /\ last_host_ts > 0 =>
              last_host_ts - last_pru_ts \in -Apart .. Apart
         /\ startedLow /\ last_pru_ts > 0 =>
              \/ last_host_ts \in {last_pru_ts - 2, last_pru_ts, last_pru_ts + 2}
              \/ last_pru_ts = 1 /\ last_host_ts = 0
         /\ Ahead => last_pru_ts = edge - 2 /\ at["recv"] \notin Meeting
<1>1. /\ edge \in Nat /\ startedLow \in BOOLEAN
      /\ last_pru_ts \in Nat /\ last_host_ts \in Nat
  BY DEF MeasureTypeOK, FirmwareTypeOK, MeetingTypeOK
<1>2. /\ High => edge > 0
      /\ last_pru_ts # 0 => last_pru_ts \in IF High THEN {edge, edge - 2} ELSE {edge - 1}
      /\ at["recv"] \in Meeting => last_pru_ts = edge
  BY <1>1 DEF SamplesInv, High, Rising
<1>3. last_host_ts = IF LastKept < 0 THEN 0 ELSE LastKept
  BY DEF EdgesInv
<1>4. last_pru_ts <= edge /\ last_host_ts <= edge
  BY <1>1, <1>2, <1>3 DEF LastKept
<1>5. /\ last_pru_ts > 0 /\ last_host_ts > 0 =>
           last_host_ts - last_pru_ts \in -Apart .. Apart
      /\ startedLow /\ last_pru_ts > 0 =>
           \/ last_host_ts \in {last_pru_ts - 2, last_pru_ts, last_pru_ts + 2}
           \/ last_pru_ts = 1 /\ last_host_ts = 0
  <2>1. CASE startedLow
    <3>1. /\ High => LastKept \in {edge, edge - 2}
          /\ ~High => LastKept = edge - 1
      BY <2>1 DEF LastKept
    <3>2. CASE High
      BY <1>1, <1>2, <1>3, <2>1, <3>1, <3>2 DEF Apart
    <3>3. CASE ~High
      BY <1>1, <1>2, <1>3, <2>1, <3>1, <3>3 DEF Apart
    <3>. QED  BY <3>2, <3>3
  <2>2. CASE ~startedLow
    <3>1. /\ High => LastKept = edge - 1
          /\ ~High => LastKept \in {edge, edge - 2}
      BY <2>2 DEF LastKept
    <3>2. CASE High
      BY <1>1, <1>2, <1>3, <2>2, <3>1, <3>2 DEF Apart
    <3>3. CASE ~High
      BY <1>1, <1>2, <1>3, <2>2, <3>1, <3>3 DEF Apart
    <3>. QED  BY <3>2, <3>3
  <2>. QED  BY <1>1, <2>1, <2>2
<1>6. ASSUME Ahead PROVE last_pru_ts = edge - 2 /\ at["recv"] \notin Meeting
  <2>1. startedLow /\ last_pru_ts > 0 /\ last_host_ts = last_pru_ts + 2
    BY <1>6 DEF Ahead
  <2>2. High => LastKept \in {edge, edge - 2}
    BY <2>1 DEF LastKept
  <2>3. ~High => LastKept = edge - 1
    BY <2>1 DEF LastKept
  <2>4. last_pru_ts = edge - 2
    BY <1>1, <1>2, <1>3, <2>1, <2>2, <2>3
  <2>. QED  BY <1>1, <1>2, <2>4
<1>. QED  BY <1>4, <1>5, <1>6

(* Both times grow, and a time that has been taken stays taken.            *)
LEMMA TimesGrow ==
  ASSUME MeasureTypeOK, DeviceInv, EdgesInv, SamplesInv, [MeasureNext]_measureVars
  PROVE  /\ last_pru_ts' >= last_pru_ts /\ last_host_ts' >= last_host_ts
         /\ startedLow' = startedLow
<1>1. /\ edge \in Nat /\ last_pru_ts \in Nat /\ last_host_ts \in Nat
  BY DEF MeasureTypeOK, FirmwareTypeOK, MeetingTypeOK
<1>2. CASE RecvDrain
  BY <1>1, <1>2, DrainSamples DEF RecvDrain, hostIdle
<1>3. CASE SendEdge
  BY <1>1, <1>3, EdgeEvents DEF SendEdge, hostIdle
<1>4. CASE UNCHANGED <<last_pru_ts, last_host_ts, startedLow>>
  BY <1>1, <1>4
<1>5. CASE Toggle \/ Pru
  BY <1>4, <1>5 DEF Toggle, Pru, Start, Adjusted, Trigger, terminate, NoPulse, Pulse,
                    Await, check_input_pin, firmwareIdle, meeting
<1>6. CASE \/ Move \/ SendRead \/ SendReadFails \/ SendSync \/ SendNeither \/ Main
           \/ UNCHANGED measureVars
  BY <1>4, <1>6 DEF Move, TestStop, RecvWait, RecvClear, SendRead, SendReadFails,
                    SendSync, SendNeither, Main, MainStop, MainExit, mainIdle, hostIdle,
                    meeting, measureVars
<1>7. ASSUME NEW t \in Threads, Meet(t)
      PROVE  UNCHANGED <<last_pru_ts, last_host_ts, startedLow>>
  BY <1>7, MeetMoves DEF hostIdle
<1>. QED  BY <1>2, <1>3, <1>4, <1>5, <1>6, <1>7
             DEF MeasureNext, Receive, Send, Move, Threads

-----------------------------------------------------------------------------
(* The bits and the rows.                                                  *)
Grow == /\ last_pru_ts' >= last_pru_ts /\ last_host_ts' >= last_host_ts
        /\ startedLow' = startedLow
BitsStay ==
  /\ UNCHANGED <<ts_ready, reg, rows>>
  /\ \A t \in Threads :
       at'[t] \in {"store", "reset", "columns", "print"} => at'[t] = at[t]

LEMMA TakenStays ==
  ASSUME MeasureTypeOK, MeasureTypeOK', Grow, NEW bits, Taken(bits)
  PROVE  Taken(bits)'
BY DEF Taken, Grow, MeasureTypeOK, MeetingTypeOK

LEMMA BitsStayKeepsInv ==
  ASSUME MeasureTypeOK, MeasureTypeOK', BitsInv, RowsInv, Grow, BitsStay
  PROVE  BitsInv' /\ RowsInv'
<1>1. \A bits : Taken(bits) => Taken(bits)'
  BY TakenStays
<1>2. \A h, p : Near(h, p)' = Near(h, p)
  BY DEF Near, Apart, Grow
<1>3. \A n \in DOMAIN rows : rows[n].pru \in Nat
  <2>1. rows \in Seq(Row)
    BY DEF MeasureTypeOK, MeetingTypeOK
  <2>2. \A n \in DOMAIN rows : rows[n] \in Row
    BY <2>1
  <2>. QED  BY <2>2 DEF Row
<1>4. \A t \in Threads : at[t] = "print" => reg[t][2] \in Nat
  BY DEF MeasureTypeOK, MeetingTypeOK
<1>5. last_pru_ts' >= last_pru_ts /\ last_pru_ts \in Nat /\ last_pru_ts' \in Nat
  BY DEF Grow, MeasureTypeOK, MeetingTypeOK
<1>6. Taken(ts_ready)'
  BY <1>1 DEF BitsInv, BitsStay, Taken
<1>7. ASSUME NEW t \in Threads
      PROVE  /\ at'[t] = "store" => Taken(reg[t][1])'
             /\ at'[t] \in {"reset", "columns", "print"} => Taken(3)'
             /\ at'[t] = "print" => Near(reg[t][1], reg[t][2])' /\ reg'[t][2] <= last_pru_ts'
  <2>1. at'[t] = "store" => Taken(reg[t][1])'
    BY <1>1 DEF BitsInv, BitsStay, Taken
  <2>2. at'[t] \in {"reset", "columns", "print"} => Taken(3)'
    BY <1>1 DEF BitsInv, BitsStay
  <2>3. at'[t] = "print" => Near(reg[t][1], reg[t][2])' /\ reg'[t][2] <= last_pru_ts'
    <3>1. at'[t] = "print" => Near(reg[t][1], reg[t][2]) /\ reg[t][2] <= last_pru_ts
      BY DEF BitsInv, BitsStay
    <3>2. reg' = reg /\ Near(reg[t][1], reg[t][2])' = Near(reg[t][1], reg[t][2])
      BY DEF BitsStay, Near, Apart, Grow
    <3>. QED  BY <1>4, <1>5, <3>1, <3>2 DEF BitsStay
  <2>. QED  BY <2>1, <2>2, <2>3
<1>8. RowsInv'
  <2>1. rows' = rows /\ Apart' = Apart
    BY DEF BitsStay, Grow, Apart
  <2>. QED  BY <1>3, <1>5, <2>1 DEF RowsInv, Near
<1>. QED  BY <1>6, <1>7, <1>8 DEF BitsInv

LEMMA MeetBits ==
  ASSUME MeasureTypeOK, MeasureTypeOK', EdgesInv, SamplesInv, BitsInv, RowsInv,
         NEW t \in Threads, Meet(t)
  PROVE  BitsInv' /\ RowsInv'
<1>1. /\ UNCHANGED <<last_pru_ts, last_host_ts, startedLow>>
      /\ at[t] \in Meeting
      /\ \A u \in Threads \ {t} : at'[u] = at[u] /\ reg'[u] = reg[u]
  BY MeetMoves DEF hostIdle
<1>2. last_pru_ts \in Nat /\ last_host_ts \in Nat /\ edge \in Nat /\ startedLow \in BOOLEAN
  BY DEF MeasureTypeOK, MeetingTypeOK, FirmwareTypeOK
<1>3. \A bits : Taken(bits)' <=> Taken(bits)
  BY <1>1 DEF Taken
<1>4. \A h, p : Near(h, p)' <=> Near(h, p)
  BY <1>1 DEF Near, Apart
<1>5. IF t = "recv" THEN last_pru_ts > 0 ELSE last_host_ts > 0
  BY <1>1 DEF SamplesInv, EdgesInv, Threads
<1>6. Taken(3) => /\ Near(last_host_ts, last_pru_ts)
                  /\ last_pru_ts - last_host_ts \in -Apart .. Apart
  <2>1. Taken(3) => last_pru_ts > 0 /\ last_host_ts > 0
    BY DEF Taken
  <2>2. Taken(3) => last_host_ts - last_pru_ts \in -Apart .. Apart
    BY <2>1, Distance
  <2>3. Apart \in Nat
    BY <1>2 DEF Apart
  <2>. QED  BY <1>2, <2>1, <2>2, <2>3 DEF Near
<1>7. /\ at' = [at EXCEPT ![t] = at'[t]] /\ at \in [Threads -> Places]
      /\ DOMAIN reg = Threads
  BY DEF Meet, LoadReady, StoreReady, Compare, Reset, LoadColumns, PrintRow, GoTo,
         MeasureTypeOK, PlacesTypeOK, MeetingTypeOK
<1>8. \A u \in Threads \ {t} :
        /\ at'[u] = "store" => Taken(reg'[u][1])
        /\ at'[u] \in {"reset", "columns", "print"} => Taken(3)
        /\ at'[u] = "print" => Near(reg'[u][1], reg'[u][2]) /\ reg'[u][2] <= last_pru_ts
  BY <1>1 DEF BitsInv
<1>9. ASSUME Taken(ts_ready'), RowsInv',
             at'[t] = "store" => Taken(reg'[t][1]),
             at'[t] \in {"reset", "columns", "print"} => Taken(3),
             at'[t] = "print" =>
               Near(reg'[t][1], reg'[t][2]) /\ reg'[t][2] <= last_pru_ts
      PROVE  BitsInv' /\ RowsInv'
  <2>1. Taken(ts_ready)' /\ Taken(3)' <=> Taken(ts_ready') /\ Taken(3)
    BY <1>1 DEF Taken
  <2>2. \A u \in Threads :
        /\ at'[u] = "store" => Taken(reg'[u][1])
        /\ at'[u] \in {"reset", "columns", "print"} => Taken(3)
        /\ at'[u] = "print" => Near(reg'[u][1], reg'[u][2]) /\ reg'[u][2] <= last_pru_ts
    BY <1>8, <1>9
  <2>3. \A u \in Threads :
        /\ at'[u] = "store" => Taken(reg[u][1])'
        /\ at'[u] \in {"reset", "columns", "print"} => Taken(3)'
        /\ at'[u] = "print" => Near(reg[u][1], reg[u][2])' /\ reg'[u][2] <= last_pru_ts'
    BY <1>1, <2>2 DEF Taken, Near, Apart
  <2>4. Taken(ts_ready)'
    BY <1>1, <1>9 DEF Taken
  <2>. QED  BY <1>9, <2>3, <2>4 DEF BitsInv
<1>10. UNCHANGED rows => RowsInv'
  BY <1>1 DEF RowsInv, Near, Apart
<1>11. CASE LoadReady(t)
  <2>1. ts_ready' = ts_ready /\ rows' = rows /\ at'[t] = "store"
        /\ reg'[t] = <<Or(ts_ready, Bit(t))>>
    BY <1>7, <1>11 DEF LoadReady, meeting, GoTo, Keep
  <2>2. Taken(Or(ts_ready, Bit(t)))
    BY <1>5 DEF Or, Bit, Taken, BitsInv, Threads, MeasureTypeOK, MeetingTypeOK
  <2>3. Taken(ts_ready)
    BY DEF BitsInv
  <2>. QED  BY <1>9, <1>10, <2>1, <2>2, <2>3
<1>12. CASE StoreReady(t)
  <2>1. ts_ready' = reg[t][1] /\ rows' = rows /\ at'[t] = "compare" /\ at[t] = "store"
    BY <1>7, <1>12 DEF StoreReady, GoTo
  <2>2. Taken(reg[t][1])
    BY <2>1 DEF BitsInv
  <2>. QED  BY <1>9, <1>10, <2>1, <2>2
<1>13. CASE Compare(t)
  <2>1. ts_ready' = ts_ready /\ rows' = rows /\ reg' = reg
        /\ at'[t] = IF ts_ready = 3 THEN "reset" ELSE After(t)
    BY <1>7, <1>13 DEF Compare, meeting, GoTo
  <2>2. Taken(ts_ready)
    BY DEF BitsInv
  <2>. QED  BY <1>9, <1>10, <2>1, <2>2 DEF After
<1>14. CASE Reset(t)
  <2>1. ts_ready' = 0 /\ rows' = rows /\ at'[t] = "columns" /\ at[t] = "reset"
    BY <1>7, <1>14 DEF Reset, GoTo
  <2>2. Taken(0) /\ Taken(3)
    BY <2>1 DEF BitsInv, Taken
  <2>. QED  BY <1>9, <1>10, <2>1, <2>2
<1>15. CASE LoadColumns(t)
  <2>1. ts_ready' = ts_ready /\ rows' = rows /\ at'[t] = "print" /\ at[t] = "columns"
        /\ reg'[t] = <<last_host_ts, last_pru_ts>>
    BY <1>7, <1>15 DEF LoadColumns, meeting, GoTo, Keep
  <2>2. Taken(ts_ready) /\ Taken(3)
    BY <2>1 DEF BitsInv
  <2>. QED  BY <1>2, <1>6, <1>9, <1>10, <2>1, <2>2
<1>16. CASE PrintRow(t)
  <2>1. ts_ready' = ts_ready /\ at'[t] = After(t) /\ at[t] = "print"
        /\ rows' = Append(rows, [host |-> reg[t][1], pru |-> reg[t][2],
                                 difference |-> last_pru_ts - last_host_ts])
    BY <1>7, <1>16 DEF PrintRow, GoTo
  <2>2. /\ Taken(ts_ready) /\ Taken(3)
        /\ Near(reg[t][1], reg[t][2]) /\ reg[t][2] <= last_pru_ts
    BY <2>1 DEF BitsInv
  <2>3. RowsInv'
    <3>1. rows \in Seq(Row)
      BY DEF MeasureTypeOK, MeetingTypeOK
    <3>2. /\ DOMAIN rows' = 1 .. Len(rows) + 1
          /\ \A n \in 1 .. Len(rows) : rows'[n] = rows[n]
          /\ rows'[Len(rows) + 1] = [host |-> reg[t][1], pru |-> reg[t][2],
                                     difference |-> last_pru_ts - last_host_ts]
      BY <2>1, <3>1, AppendProperties, MeasureTypeOK' DEF MeasureTypeOK, MeetingTypeOK
    <3>3. \A n \in 1 .. Len(rows) + 1 : n \in 1 .. Len(rows) \/ n = Len(rows) + 1
      BY <3>1
    <3>4. \A n \in 1 .. Len(rows) :
            /\ Near(rows'[n].host, rows'[n].pru) /\ rows'[n].pru <= last_pru_ts
            /\ rows'[n].difference \in -Apart .. Apart
      BY <3>1, <3>2 DEF RowsInv
    <3>5. /\ Near(rows'[Len(rows) + 1].host, rows'[Len(rows) + 1].pru)
          /\ rows'[Len(rows) + 1].pru <= last_pru_ts
          /\ rows'[Len(rows) + 1].difference \in -Apart .. Apart
      BY <1>6, <2>2, <3>2
    <3>6. \A n \in DOMAIN rows' :
            /\ Near(rows'[n].host, rows'[n].pru) /\ rows'[n].pru <= last_pru_ts
            /\ rows'[n].difference \in -Apart .. Apart
      BY <3>2, <3>3, <3>4, <3>5
    <3>. QED  BY <1>1, <3>6 DEF RowsInv, Near, Apart
  <2>. QED  BY <1>9, <2>1, <2>2, <2>3 DEF After
<1>. QED  BY <1>11, <1>12, <1>13, <1>14, <1>15, <1>16 DEF Meet

LEMMA BitsStep ==
  ASSUME MeasureTypeOK, DeviceInv, EdgesInv, SamplesInv, BitsInv, RowsInv,
         [MeasureNext]_measureVars
  PROVE  BitsInv' /\ RowsInv'
<1>1. MeasureTypeOK' /\ Grow
  BY MeasureTypeStep, TimesGrow DEF Grow
<1>2. ASSUME NEW t \in Threads, Meet(t) PROVE BitsInv' /\ RowsInv'
  BY <1>1, <1>2, MeetBits
<1>3. CASE Toggle \/ Pru \/ Main \/ UNCHANGED measureVars
  <2>1. UNCHANGED <<ts_ready, reg, rows, at>>
    BY <1>3 DEF Toggle, Pru, Start, Adjusted, Trigger, terminate, NoPulse, Pulse, Await,
                check_input_pin, firmwareIdle, meeting, Main, MainStop, MainExit,
                mainIdle, measureVars
  <2>. QED  BY <1>1, <2>1, BitsStayKeepsInv DEF BitsStay
<1>4. CASE Move \/ RecvDrain \/ SendRead \/ SendReadFails \/ SendSync \/ SendEdge
           \/ SendNeither
  <2>1. UNCHANGED <<ts_ready, reg, rows>>
    BY <1>4 DEF Move, TestStop, RecvWait, RecvClear, RecvDrain, SendRead, SendReadFails,
                SendSync, SendEdge, SendNeither, meeting
  <2>2. \A t \in Threads :
          at'[t] \in {"store", "reset", "columns", "print"} => at'[t] = at[t]
    BY <1>4 DEF Move, TestStop, RecvWait, RecvClear, RecvDrain, SendRead, SendReadFails,
                SendSync, SendEdge, SendNeither, GoTo, MeasureTypeOK, PlacesTypeOK,
                Threads
  <2>. QED  BY <1>1, <2>1, <2>2, BitsStayKeepsInv DEF BitsStay
<1>. QED  BY <1>2, <1>3, <1>4 DEF MeasureNext, Receive, Send, Move, Threads

-----------------------------------------------------------------------------
(* How often a sample is printed.                                          *)
WithPru(q, e) == {n \in DOMAIN q : q[n].pru = e}

LEMMA WithPruFinite ==
  ASSUME NEW q \in Seq(Row), NEW e
  PROVE  IsFiniteSet(WithPru(q, e)) /\ Cardinality(WithPru(q, e)) \in Nat
<1>1. WithPru(q, e) \subseteq 1 .. Len(q) /\ Len(q) \in Nat
  BY DEF WithPru
<1>2. IsFiniteSet(1 .. Len(q))
  BY <1>1, FS_Interval
<1>. QED  BY <1>1, <1>2, FS_Subset, FS_CardinalityType

(* One more row is one more row of its sample.                             *)
LEMMA AppendCounts ==
  ASSUME NEW q \in Seq(Row), NEW r \in Row, NEW e
  PROVE  Cardinality(WithPru(Append(q, r), e)) =
           Cardinality(WithPru(q, e)) + (IF r.pru = e THEN 1 ELSE 0)
<1>1. /\ DOMAIN q = 1 .. Len(q) /\ DOMAIN Append(q, r) = 1 .. Len(q) + 1
      /\ \A n \in 1 .. Len(q) : Append(q, r)[n] = q[n]
      /\ Append(q, r)[Len(q) + 1] = r
  BY AppendProperties
<1>2. \A n : n \in 1 .. Len(q) + 1 <=> n \in 1 .. Len(q) \/ n = Len(q) + 1
  BY LenProperties
<1>3. Len(q) + 1 \notin WithPru(q, e)
  BY <1>1, LenProperties DEF WithPru
<1>4. CASE r.pru = e
  <2>1. WithPru(Append(q, r), e) = WithPru(q, e) \cup {Len(q) + 1}
    BY <1>1, <1>2, <1>4 DEF WithPru
  <2>2. IsFiniteSet(WithPru(q, e))
    BY WithPruFinite
  <2>3. Cardinality(WithPru(q, e) \cup {Len(q) + 1}) = Cardinality(WithPru(q, e)) + 1
    BY <1>3, <2>2, FS_AddElement
  <2>. QED  BY <1>4, <2>1, <2>3
<1>5. CASE r.pru # e
  <2>1. WithPru(Append(q, r), e) = WithPru(q, e)
    BY <1>1, <1>2, <1>5 DEF WithPru
  <2>. QED  BY <1>5, <2>1, WithPruFinite
<1>. QED  BY <1>4, <1>5

LEMMA PrintedType ==
  ASSUME MeasureTypeOK, NEW e PROVE Printed(e) \in Nat
<1>1. RowsOf(e) = WithPru(rows, e) /\ rows \in Seq(Row)
  BY DEF RowsOf, WithPru, MeasureTypeOK, MeetingTypeOK
<1>. QED  BY <1>1, WithPruFinite DEF Printed, Printing

(* A sample that the PRU thread has not taken yet is not printed.          *)
LEMMA NotPrintedYet ==
  ASSUME MeasureTypeOK, BitsInv, RowsInv, NEW e \in Nat, e > last_pru_ts \/ e = 0
  PROVE  Printed(e) = 0
<1>1. rows \in Seq(Row) /\ last_pru_ts \in Nat
  BY DEF MeasureTypeOK, MeetingTypeOK
<1>2. \A n \in DOMAIN rows : rows[n].pru # e
  <2>1. \A n \in DOMAIN rows : rows[n] \in Row
    BY <1>1
  <2>2. \A n \in DOMAIN rows : rows[n].pru \in Nat
    BY <2>1 DEF Row
  <2>. QED  BY <1>1, <2>2 DEF RowsInv, Near
<1>3. RowsOf(e) = {}
  BY <1>2 DEF RowsOf
<1>4. \A t \in Threads : Printing(t, e) = 0
  <2>1. \A t \in Threads : at[t] = "print" => reg[t][2] \in Nat
    BY DEF MeasureTypeOK, MeetingTypeOK
  <2>2. \A t \in Threads : at[t] = "print" => reg[t][2] # e
    BY <1>1, <2>1 DEF BitsInv, Near
  <2>. QED  BY <2>2 DEF Printing
<1>. QED  BY <1>3, <1>4, FS_EmptySet DEF Printed, Threads

(* A row counts from the moment that its times have been loaded.           *)
LEMMA MeetPrinted ==
  ASSUME MeasureTypeOK, NEW t \in Threads, Meet(t), NEW e \in Nat
  PROVE  Printed(e)' =
           Printed(e) + (IF at[t] = "columns" /\ e = last_pru_ts THEN 1 ELSE 0)
<1>1. \A u \in Threads \ {t} : Printing(u, e)' = Printing(u, e)
  BY MeetMoves DEF Printing
<1>2. /\ at' = [at EXCEPT ![t] = at'[t]] /\ at \in [Threads -> Places]
      /\ DOMAIN reg = Threads /\ rows \in Seq(Row)
  BY DEF Meet, LoadReady, StoreReady, Compare, Reset, LoadColumns, PrintRow, GoTo,
         MeasureTypeOK, PlacesTypeOK, MeetingTypeOK
<1>3. Cardinality(WithPru(rows, e)) \in Nat
  BY <1>2, WithPruFinite
<1>4. Cardinality(WithPru(rows, e))' + Printing(t, e)' =
        Cardinality(WithPru(rows, e)) + Printing(t, e)
          + (IF at[t] = "columns" /\ e = last_pru_ts THEN 1 ELSE 0)
  <2>1. CASE LoadReady(t) \/ StoreReady(t) \/ Compare(t) \/ Reset(t)
    <3>1. /\ rows' = rows /\ at[t] \notin {"print", "columns"}
          /\ at'[t] \notin {"print", "columns"} \/ at'[t] = "columns"
      BY <1>2, <2>1 DEF LoadReady, StoreReady, Compare, Reset, GoTo, After, meeting
    <3>. QED  BY <1>3, <3>1 DEF Printing
  <2>2. CASE LoadColumns(t)
    <3>1. /\ rows' = rows /\ at[t] = "columns" /\ at'[t] = "print"
          /\ reg'[t] = <<last_host_ts, last_pru_ts>>
      BY <1>2, <2>2 DEF LoadColumns, GoTo, Keep, meeting
    <3>. QED  BY <1>3, <3>1 DEF Printing
  <2>3. CASE PrintRow(t)
    <3>. DEFINE row == [host |-> reg[t][1], pru |-> reg[t][2],
                        difference |-> last_pru_ts - last_host_ts]
    <3>1. /\ rows' = Append(rows, row) /\ at[t] = "print" /\ at'[t] # "print"
      BY <1>2, <2>3 DEF PrintRow, GoTo, After
    <3>2. row \in Row
      BY <3>1 DEF Row, MeasureTypeOK, MeetingTypeOK
    <3>3. Cardinality(WithPru(rows', e)) =
            Cardinality(WithPru(rows, e)) + (IF row.pru = e THEN 1 ELSE 0)
      BY <1>2, <3>1, <3>2, AppendCounts
    <3>4. Cardinality(WithPru(rows, e))' = Cardinality(WithPru(rows', e))
      BY DEF WithPru
    <3>. QED  BY <1>3, <3>1, <3>3, <3>4 DEF Printing
  <2>. QED  BY <2>1, <2>2, <2>3 DEF Meet
<1>5. /\ Printed(e) = Cardinality(WithPru(rows, e)) + Printing("recv", e) + Printing("send", e)
      /\ Printed(e)' = Cardinality(WithPru(rows, e))' + Printing("recv", e)' + Printing("send", e)'
  BY DEF Printed, RowsOf, WithPru
<1>6. Cardinality(WithPru(rows, e))' \in Nat
  <2>1. rows' \in Seq(Row)
    BY TypeStepMeet DEF MeasureTypeOK, MeetingTypeOK
  <2>2. Cardinality(WithPru(rows', e)) \in Nat
    BY <2>1, WithPruFinite
  <2>. QED  BY <2>2 DEF WithPru
<1>7. \A u : Printing(u, e) \in Nat /\ Printing(u, e)' \in Nat
  BY DEF Printing
<1>8. t = "recv" \/ t = "send"
  BY DEF Threads
<1>9. CASE t = "recv"
  BY <1>1, <1>3, <1>4, <1>5, <1>6, <1>7, <1>9 DEF Threads
<1>10. CASE t = "send"
  BY <1>1, <1>3, <1>4, <1>5, <1>6, <1>7, <1>10 DEF Threads
<1>. QED  BY <1>8, <1>9, <1>10

(* The steps of a thread that has a time.                                  *)
LEMMA MeetPlaces ==
  ASSUME MeasureTypeOK, NEW t \in Threads, Meet(t)
  PROVE  \/ /\ at[t] = "load" /\ at'[t] = "store" /\ ts_ready' = ts_ready
            /\ reg'[t][1] = Or(ts_ready, Bit(t))
         \/ at[t] = "store" /\ at'[t] = "compare" /\ ts_ready' = reg[t][1]
         \/ /\ at[t] = "compare" /\ ts_ready' = ts_ready
            /\ at'[t] = IF ts_ready = 3 THEN "reset" ELSE After(t)
         \/ at[t] = "reset" /\ at'[t] = "columns" /\ ts_ready' = 0
         \/ at[t] = "columns" /\ at'[t] = "print" /\ ts_ready' = ts_ready
         \/ at[t] = "print" /\ at'[t] = After(t) /\ ts_ready' = ts_ready
<1>1. DOMAIN at = Threads /\ DOMAIN reg = Threads
  BY DEF MeasureTypeOK, PlacesTypeOK, MeetingTypeOK
<1>. QED  BY <1>1 DEF Meet, LoadReady, StoreReady, Compare, Reset, LoadColumns, PrintRow,
                      GoTo, Keep, meeting

LEMMA SamplePrinted ==
  ASSUME MeasureTypeOK, UNCHANGED last_pru_ts
  PROVE  \E e \in Nat : /\ e = last_pru_ts
                        /\ Printed(last_pru_ts) = Printed(e)
                        /\ Printed(last_pru_ts)' = Printed(e)'
<1>1. last_pru_ts \in Nat
  BY DEF MeasureTypeOK, MeetingTypeOK
<1>2. PICK e \in Nat : e = last_pru_ts
  BY <1>1
<1>3. Printed(last_pru_ts) = Printed(e) /\ Printed(last_pru_ts)' = Printed(e)'
  BY <1>2 DEF Printed, RowsOf, Printing
<1>. QED  BY <1>2, <1>3

LEMMA MeetCounts ==
  ASSUME MeasureTypeOK, NEW t \in Threads, Meet(t)
  PROVE  /\ Printed(last_pru_ts) \in Nat
         /\ Printed(last_pru_ts)' =
              Printed(last_pru_ts) + (IF at[t] = "columns" THEN 1 ELSE 0)
<1>1. UNCHANGED last_pru_ts
  BY MeetMoves
<1>2. PICK e \in Nat : /\ e = last_pru_ts
                       /\ Printed(last_pru_ts) = Printed(e)
                       /\ Printed(last_pru_ts)' = Printed(e)'
  BY <1>1, SamplePrinted
<1>. QED  BY <1>2, PrintedType, MeetPrinted

LEMMA MeetAhead ==
  ASSUME MeasureTypeOK, EdgesInv, SamplesInv, NEW t \in Threads, Meet(t)
  PROVE  /\ UNCHANGED <<last_pru_ts, last_host_ts, startedLow>> /\ Ahead' = Ahead
         /\ at[t] \in Meeting
         /\ \A u \in Threads \ {t} : at'[u] = at[u] /\ reg'[u] = reg[u]
         /\ t = "recv" => ~Ahead
         /\ t = "send" => last_host_ts >= last_pru_ts
<1>1. /\ UNCHANGED <<last_pru_ts, last_host_ts, startedLow>> /\ at[t] \in Meeting
      /\ \A u \in Threads \ {t} : at'[u] = at[u] /\ reg'[u] = reg[u]
  BY MeetMoves DEF hostIdle
<1>2. t = "recv" => ~Ahead
  BY <1>1, Distance
<1>3. t = "send" => last_host_ts = edge /\ last_pru_ts <= edge
  BY <1>1, Distance DEF EdgesInv
<1>. QED
  BY <1>1, <1>2, <1>3 DEF Ahead, MeasureTypeOK, MeetingTypeOK, FirmwareTypeOK

(* A thread that is about to print a sample has not done so, and the other *)
(* has once at most.                                                       *)
LEMMA MeetTwice ==
  ASSUME MeasureTypeOK, EdgesInv, SamplesInv, TwiceInv, NEW t \in Threads, Meet(t)
  PROVE  AtMostTwice' /\ PastOnce'
<1>1. /\ UNCHANGED <<last_pru_ts, last_host_ts, startedLow>> /\ Ahead' = Ahead
      /\ \A u \in Threads \ {t} : at'[u] = at[u]
      /\ t = "recv" => ~Ahead
      /\ t = "send" => last_host_ts >= last_pru_ts
  BY MeetAhead
<1>2. PICK c \in Nat, d \in Nat :
        /\ c = Printed(last_pru_ts) /\ d = Printed(last_pru_ts)'
        /\ d = c + (IF at[t] = "columns" THEN 1 ELSE 0)
  BY MeetCounts
<1>3. last_pru_ts \in Nat /\ last_host_ts \in Nat
  BY DEF MeasureTypeOK, MeetingTypeOK
<1>4. ~Ahead => c <= RecvPast + SendPast
  BY <1>2 DEF TwiceInv, PastOnce
<1>5. t = "recv" \/ t = "send"
  BY DEF Threads
<1>6. at[t] = "columns" => c <= 1
  <2>1. CASE Ahead
    BY <1>1, <1>2, <1>5, <2>1 DEF TwiceInv, AheadInv
  <2>2. CASE ~Ahead
    BY <1>2, <1>4, <1>5, <2>2 DEF RecvPast, SendPast, Deciding, Meeting
  <2>. QED  BY <2>1, <2>2
<1>7. AtMostTwice'
  <2>1. \A e \in Nat : Printed(e)' <= 2
    <3>. SUFFICES ASSUME NEW e \in Nat PROVE Printed(e)' <= 2
      OBVIOUS
    <3>1. Printed(e) <= 2 /\ Printed(e) \in Nat
      BY PrintedType DEF TwiceInv, AtMostTwice
    <3>2. e = last_pru_ts => Printed(e) = c
      BY <1>2
    <3>3. Printed(e)' =
            Printed(e) + (IF at[t] = "columns" /\ e = last_pru_ts THEN 1 ELSE 0)
      BY MeetPrinted
    <3>. QED  BY <1>6, <3>1, <3>2, <3>3
  <2>. QED  BY <2>1 DEF AtMostTwice
<1>8. PastOnce'
  <2>1. ~Deciding(t)' \/ (Deciding(t)' /\ Deciding(t) /\ at[t] # "columns")
    BY MeetPlaces DEF Deciding, Meeting, After
  <2>2. at[t] = "columns" => Deciding(t) /\ ~Deciding(t)'
    BY MeetPlaces DEF Deciding, Meeting, After
  <2>3. \A u \in Threads \ {t} : Deciding(u)' = Deciding(u)
    BY <1>1 DEF Deciding
  <2>4. CASE t = "recv"
    <3>1. SendPast' = SendPast
      BY <1>1, <2>3, <2>4 DEF SendPast, Threads
    <3>2. RecvPast' >= RecvPast + (IF at[t] = "columns" THEN 1 ELSE 0)
      BY <2>1, <2>2, <2>4 DEF RecvPast
    <3>3. RecvPast \in Nat /\ RecvPast' \in Nat /\ SendPast \in Nat
      BY DEF RecvPast, SendPast
    <3>4. ~Ahead => d <= RecvPast' + SendPast'
      BY <1>2, <1>4, <3>1, <3>2, <3>3
    <3>. QED  BY <1>1, <1>2, <3>4 DEF PastOnce
  <2>5. CASE t = "send"
    <3>1. RecvPast' = RecvPast
      BY <1>1, <2>3, <2>5 DEF RecvPast, Threads
    <3>2. SendPast' >= SendPast + (IF at[t] = "columns" THEN 1 ELSE 0)
      BY <1>1, <1>3, <2>1, <2>2, <2>5 DEF SendPast
    <3>3. RecvPast \in Nat /\ SendPast' \in Nat /\ SendPast \in Nat
      BY DEF RecvPast, SendPast
    <3>4. ~Ahead => d <= RecvPast' + SendPast'
      BY <1>2, <1>4, <3>1, <3>2, <3>3
    <3>. QED  BY <1>1, <1>2, <3>4 DEF PastOnce
  <2>. QED  BY <1>5, <2>4, <2>5
<1>. QED  BY <1>7, <1>8

(* Once the PRU's thread has printed, its bit is gone, but for a host's    *)
(* thread that has both bits and will print and reset them.                *)
LEMMA RecvBit ==
  ASSUME MeasureTypeOK, EdgesInv, SamplesInv, TwiceInv, Meet("recv") PROVE BitIsGone'
<1>1. "recv" \in Threads /\ "send" \in Threads \ {"recv"}
  BY DEF Threads
<1>2. /\ UNCHANGED <<last_pru_ts, last_host_ts, startedLow>> /\ Ahead' = Ahead
      /\ at'["send"] = at["send"] /\ ~Ahead
  BY <1>1, MeetAhead
<1>3. PICK c \in Nat, d \in Nat :
        /\ c = Printed(last_pru_ts) /\ d = Printed(last_pru_ts)'
        /\ d = c + (IF at["recv"] = "columns" THEN 1 ELSE 0)
  BY <1>1, MeetCounts
<1>4. SendPast' = SendPast /\ SendPast \in Nat
  BY <1>2 DEF SendPast, Deciding
<1>5. c <= RecvPast + SendPast
  BY <1>2, <1>3 DEF TwiceInv, PastOnce
<1>6. SUFFICES ASSUME startedLow, last_pru_ts > 0, RecvHasPrinted', PruBit'
               PROVE  (at["send"] = "compare" /\ ts_ready' = 3) \/ at["send"] = "reset"
  BY <1>2 DEF BitIsGone
<1>7. IF at'["recv"] = "columns" THEN d = SendPast
      ELSE ~Deciding("recv")' /\ d = 1 + SendPast
  BY <1>3, <1>4, <1>6 DEF RecvHasPrinted
<1>8. PruBit <=> ts_ready \in {1, 3}
  BY DEF PruBit
<1>9. ts_ready' \in {1, 3}
  BY <1>6 DEF PruBit
<1>10. RecvHasPrinted /\ PruBit =>
         (at["send"] = "compare" /\ ts_ready = 3) \/ at["send"] = "reset"
  BY <1>2, <1>6 DEF TwiceInv, BitIsGone
<1>11. CASE at["recv"] \in {"load", "store", "reset"}
  <2>1. at'["recv"] \in {"store", "compare"} \/ ts_ready' = 0
    BY <1>1, <1>11, MeetPlaces
  <2>. QED  BY <1>7, <1>9, <2>1 DEF Deciding, Meeting
<1>12. CASE at["recv"] = "compare"
  <2>1. at'["recv"] \in {"reset", "drain"}
    BY <1>1, <1>12, MeetPlaces DEF After
  <2>2. RecvPast = 0 /\ d = c
    BY <1>3, <1>12 DEF RecvPast, Deciding, Meeting
  <2>. QED  BY <1>4, <1>5, <1>7, <2>1, <2>2 DEF Deciding, Meeting
<1>13. CASE at["recv"] \in {"columns", "print"}
  <2>1. at'["recv"] \in {"print", "drain"} /\ ts_ready' = ts_ready
    BY <1>1, <1>13, MeetPlaces DEF After
  <2>2. d = 1 + SendPast
    BY <1>7, <2>1
  <2>3. RecvHasPrinted
    BY <1>3, <1>4, <1>13, <2>2 DEF RecvHasPrinted, Deciding
  <2>. QED  BY <1>8, <1>9, <1>10, <2>1, <2>3
<1>. QED  BY <1>1, <1>11, <1>12, <1>13, MeetAhead DEF Meeting

LEMMA SendBit ==
  ASSUME MeasureTypeOK, EdgesInv, SamplesInv, TwiceInv, Meet("send") PROVE BitIsGone'
<1>1. "send" \in Threads /\ "recv" \in Threads \ {"send"}
  BY DEF Threads
<1>2. /\ UNCHANGED <<last_pru_ts, last_host_ts, startedLow>> /\ Ahead' = Ahead
      /\ at'["recv"] = at["recv"] /\ last_host_ts >= last_pru_ts
      /\ last_pru_ts \in Nat /\ last_host_ts \in Nat
  BY <1>1, MeetAhead DEF MeasureTypeOK, MeetingTypeOK
<1>3. PICK c \in Nat, d \in Nat :
        /\ c = Printed(last_pru_ts) /\ d = Printed(last_pru_ts)'
        /\ d = c + (IF at["send"] = "columns" THEN 1 ELSE 0)
  BY <1>1, MeetCounts
<1>4. /\ SendPast = IF Deciding("send") THEN 0 ELSE 1
      /\ SendPast' = IF Deciding("send")' THEN 0 ELSE 1
  BY <1>2 DEF SendPast
<1>5. Deciding("recv")' = Deciding("recv") /\ RecvPast' = RecvPast
  BY <1>2 DEF RecvPast, Deciding
<1>6. SUFFICES ASSUME startedLow, last_pru_ts > 0, ~Ahead, RecvHasPrinted', PruBit'
               PROVE  (at'["send"] = "compare" /\ ts_ready' = 3) \/ at'["send"] = "reset"
  BY <1>2 DEF BitIsGone
<1>7. c <= RecvPast + SendPast
  BY <1>3, <1>6 DEF TwiceInv, PastOnce
<1>8. IF at["recv"] = "columns" THEN d = SendPast'
      ELSE ~Deciding("recv") /\ d = 1 + SendPast'
  BY <1>2, <1>3, <1>5, <1>6 DEF RecvHasPrinted
<1>9. PruBit <=> ts_ready \in {1, 3}
  BY DEF PruBit
<1>10. ts_ready' \in {1, 3}
  BY <1>6 DEF PruBit
<1>11. RecvHasPrinted /\ PruBit =>
         (at["send"] = "compare" /\ ts_ready = 3) \/ at["send"] = "reset"
  BY <1>6 DEF TwiceInv, BitIsGone
<1>12. d - c = SendPast' - SendPast => RecvHasPrinted
  BY <1>3, <1>4, <1>8 DEF RecvHasPrinted
<1>13. CASE at["send"] = "load"
  <2>1. at'["send"] = "store" /\ ts_ready' = ts_ready
    BY <1>1, <1>13, MeetPlaces
  <2>2. RecvHasPrinted
    BY <1>3, <1>4, <1>12, <1>13, <2>1 DEF Deciding, Meeting
  <2>. QED  BY <1>9, <1>10, <1>11, <1>13, <2>1, <2>2
<1>14. CASE at["send"] = "store"
  <2>1. at'["send"] = "compare" /\ ts_ready' = reg["send"][1]
    BY <1>1, <1>14, MeetPlaces
  <2>2. reg["send"][1] \in {2, 3}
    BY <1>1, <1>14 DEF MeasureTypeOK, MeetingTypeOK, Bit
  <2>. QED  BY <1>10, <2>1, <2>2
<1>15. CASE at["send"] = "compare" /\ ts_ready = 3
  BY <1>1, <1>15, MeetPlaces
<1>16. CASE at["send"] = "compare" /\ ts_ready # 3
  <2>1. at'["send"] = "test" /\ SendPast = 0 /\ SendPast' = 1 /\ d = c
    BY <1>1, <1>3, <1>4, <1>16, MeetPlaces DEF After, Deciding, Meeting
  <2>2. IF Deciding("recv") THEN RecvPast = 0 ELSE RecvPast = 1
    BY DEF RecvPast
  <2>3. at["recv"] = "columns" => Deciding("recv")
    BY DEF Deciding, Meeting
  <2>. QED  BY <1>7, <1>8, <2>1, <2>2, <2>3
<1>17. CASE at["send"] = "reset"
  BY <1>1, <1>10, <1>17, MeetPlaces
<1>18. CASE at["send"] \in {"columns", "print"}
  <2>1. at'["send"] \in {"print", "test"} /\ ts_ready' = ts_ready
    BY <1>1, <1>18, MeetPlaces DEF After
  <2>2. RecvHasPrinted
    BY <1>3, <1>4, <1>12, <1>18, <2>1 DEF Deciding, Meeting
  <2>. QED  BY <1>9, <1>10, <1>11, <1>18, <2>1, <2>2
<1>. QED  BY <1>1, <1>13, <1>14, <1>15, <1>16, <1>17, <1>18, MeetAhead DEF Meeting

(* Nor does the host's thread print it a third time with its next edge.    *)
LEMMA MeetAheadInv ==
  ASSUME MeasureTypeOK, EdgesInv, SamplesInv, TwiceInv, NEW t \in Threads, Meet(t)
  PROVE  AheadInv'
<1>1. Ahead' = Ahead /\ (t = "recv" => ~Ahead)
  BY MeetAhead
<1>2. SUFFICES ASSUME Ahead PROVE AheadInv'
  BY <1>1 DEF AheadInv
<1>3. t = "send" /\ "send" \in Threads
  BY <1>1, <1>2 DEF Threads
<1>4. PICK c \in Nat, d \in Nat :
        /\ c = Printed(last_pru_ts) /\ d = Printed(last_pru_ts)'
        /\ d = c + (IF at["send"] = "columns" THEN 1 ELSE 0)
  BY <1>3, MeetCounts
<1>5. /\ c = 2 => ~PruBit
      /\ c = 2 /\ at["send"] = "store" => reg["send"][1] # 3
      /\ at["send"] \in {"reset", "columns"} => c <= 1
      /\ at["send"] = "columns" => ~PruBit
      /\ c <= 2
  BY <1>2, <1>4, MeetCounts DEF TwiceInv, AheadInv, AtMostTwice, MeasureTypeOK, MeetingTypeOK
<1>6. PruBit <=> ts_ready \in {1, 3}
  BY DEF PruBit
<1>7. /\ at["send"] = "store" => reg["send"][1] \in {2, 3}
      /\ ts_ready \in 0 .. 3
  BY <1>3 DEF MeasureTypeOK, MeetingTypeOK, Bit
<1>8. /\ d = 2 => ts_ready' \notin {1, 3}
      /\ d = 2 /\ at'["send"] = "store" => reg'["send"][1] # 3
      /\ at'["send"] \in {"reset", "columns"} => d <= 1
      /\ at'["send"] = "columns" => ts_ready' \notin {1, 3}
  BY <1>3, <1>4, <1>5, <1>6, <1>7, MeetPlaces DEF Or, Bit, After
<1>. QED  BY <1>4, <1>8 DEF AheadInv, PruBit

(* A step between two times changes no row, and so no count.               *)
TwiceStay ==
  /\ UNCHANGED <<startedLow, ts_ready, rows, reg>>
  /\ \A t \in Threads : at'[t] = at[t] \/ (at[t] \notin Meeting /\ at'[t] \notin Meeting)

LEMMA TwiceStayPrinted ==
  ASSUME TwiceStay, NEW e PROVE Printed(e)' = Printed(e)
BY DEF TwiceStay, Printed, RowsOf, Printing, Meeting, Threads

LEMMA TwiceStayKeepsInv ==
  ASSUME MeasureTypeOK, TwiceInv, TwiceStay, UNCHANGED <<last_pru_ts, last_host_ts>>
  PROVE  TwiceInv'
<1>1. Ahead' = Ahead /\ PruBit' = PruBit
  BY DEF TwiceStay, Ahead, PruBit
<1>2. \A t \in Threads : Deciding(t)' = Deciding(t)
  BY DEF TwiceStay, Deciding
<1>3. /\ \A p \in Meeting, t \in Threads : at'[t] = p <=> at[t] = p
      /\ "recv" \in Threads /\ "send" \in Threads
  BY DEF TwiceStay, Threads
<1>4. RecvPast' = RecvPast /\ SendPast' = SendPast
  BY <1>2, <1>3 DEF RecvPast, SendPast
<1>5. Printed(last_pru_ts)' = Printed(last_pru_ts)
  BY DEF TwiceStay, Printed, RowsOf, Printing, Meeting, Threads
<1>6. /\ at'["recv"] = "columns" <=> at["recv"] = "columns"
      /\ at'["send"] = "columns" <=> at["send"] = "columns"
      /\ at'["send"] = "compare" <=> at["send"] = "compare"
      /\ at'["send"] = "reset" <=> at["send"] = "reset"
      /\ at'["send"] = "store" <=> at["send"] = "store"
  BY <1>3 DEF Meeting
<1>7. AtMostTwice'
  BY TwiceStayPrinted DEF TwiceInv, AtMostTwice
<1>8. PastOnce'
  BY <1>1, <1>4, <1>5 DEF TwiceInv, PastOnce
<1>9. RecvHasPrinted' = RecvHasPrinted
  BY <1>2, <1>3, <1>4, <1>5, <1>6 DEF RecvHasPrinted
<1>10. BitIsGone'
  BY <1>1, <1>6, <1>9 DEF TwiceInv, BitIsGone, TwiceStay
<1>11. AheadInv'
  BY <1>1, <1>5, <1>6 DEF TwiceInv, AheadInv, TwiceStay
<1>. QED  BY <1>7, <1>8, <1>10, <1>11 DEF TwiceInv

(* A new sample has not been printed.                                      *)
LEMMA DrainTwice ==
  ASSUME MeasureTypeOK, MeasureTypeOK', EdgesInv, SamplesInv, BitsInv, RowsInv, TwiceInv,
         RecvDrain, toHost # << >>
  PROVE  TwiceInv'
<1>1. /\ UNCHANGED <<edge, startedLow, ts_ready, rows, reg, last_host_ts>>
      /\ at["recv"] = "drain" /\ at'["recv"] = "load" /\ at'["send"] = at["send"]
  BY DrainSamples DEF RecvDrain, hostIdle, GoTo, MeasureTypeOK, PlacesTypeOK, Threads
<1>2. /\ last_pru_ts' = edge /\ High
      /\ last_pru_ts # 0 => last_pru_ts = edge - 2
  BY DrainSamples
<1>3. /\ edge \in Nat /\ edge > 0 /\ last_pru_ts \in Nat
      /\ last_host_ts \in Nat /\ last_host_ts <= edge
  <2>1. edge \in Nat /\ last_pru_ts \in Nat /\ last_host_ts \in Nat
    BY DEF MeasureTypeOK, FirmwareTypeOK, MeetingTypeOK
  <2>2. edge > 0
    BY <1>2, <2>1 DEF High, Rising
  <2>. QED  BY <2>1, <2>2, Distance
<1>4. \A e \in Nat : Printed(e)' = Printed(e)
  BY <1>1 DEF Printed, RowsOf, Printing
<1>5. Printed(last_pru_ts)' = 0
  <2>1. PICK e \in Nat : e = edge
    BY <1>3
  <2>2. Printed(e) = 0
    BY <1>2, <1>3, <2>1, NotPrintedYet
  <2>3. Printed(e)' = 0 /\ last_pru_ts' = e
    BY <1>2, <1>4, <2>1, <2>2
  <2>. QED  BY <2>3 DEF Printed, RowsOf, Printing
<1>6. ~Ahead'
  BY <1>1, <1>2, <1>3 DEF Ahead
<1>7. AtMostTwice'
  BY <1>4 DEF TwiceInv, AtMostTwice
<1>8. PastOnce'
  BY <1>5 DEF PastOnce, RecvPast, SendPast
<1>9. ~RecvHasPrinted'
  BY <1>1 DEF RecvHasPrinted, Deciding, Meeting
<1>. QED  BY <1>6, <1>7, <1>8, <1>9 DEF TwiceInv, BitIsGone, AheadInv

(* The host's thread keeps a time: that of the sample the PRU's thread has *)
(* taken last, or of the one it has not taken yet.                         *)
LEMMA EdgeTwice ==
  ASSUME MeasureTypeOK, DeviceInv, EdgesInv, SamplesInv, BitsInv, RowsInv, TwiceInv,
         SendEdge, High <=> startedLow
  PROVE  TwiceInv'
<1>1. /\ UNCHANGED <<edge, startedLow, ts_ready, rows, reg, last_pru_ts>>
      /\ at["send"] = "dispatch" /\ at'["send"] = "load" /\ at'["recv"] = at["recv"]
      /\ last_host_ts' = edge /\ last_host_ts = IF edge < 2 THEN 0 ELSE edge - 2
  BY EdgeEvents DEF SendEdge, hostIdle, GoTo, MeasureTypeOK, PlacesTypeOK, Threads
<1>2. PICK c \in Nat : /\ c = Printed(last_pru_ts) /\ c = Printed(last_pru_ts)'
                       /\ last_pru_ts = 0 => c = 0
  <2>1. PICK e \in Nat : /\ e = last_pru_ts
                         /\ Printed(last_pru_ts) = Printed(e)
                         /\ Printed(last_pru_ts)' = Printed(e)'
    BY <1>1, SamplePrinted
  <2>2. Printed(e)' = Printed(e)
    BY <1>1 DEF Printed, RowsOf, Printing, Threads
  <2>3. Printed(e) \in Nat /\ (e = 0 => Printed(e) = 0)
    BY PrintedType, NotPrintedYet
  <2>. QED  BY <2>1, <2>2, <2>3
<1>3. /\ edge \in Nat /\ last_pru_ts \in Nat /\ startedLow \in BOOLEAN
      /\ last_pru_ts # 0 => last_pru_ts \in IF High THEN {edge, edge - 2} ELSE {edge - 1}
  BY DEF MeasureTypeOK, FirmwareTypeOK, MeetingTypeOK, SamplesInv
<1>4. ~Ahead
  BY <1>1, <1>3 DEF Ahead
<1>5. AtMostTwice'
  <2>1. \A e \in Nat : Printed(e)' = Printed(e)
    BY <1>1 DEF Printed, RowsOf, Printing, Threads
  <2>. QED  BY <2>1 DEF TwiceInv, AtMostTwice
<1>6. /\ RecvPast' = RecvPast /\ RecvPast \in {0, 1}
      /\ Deciding("recv")' = Deciding("recv") /\ PruBit' = PruBit
      /\ SendPast' = 0 /\ SendPast = IF last_host_ts < last_pru_ts THEN 0 ELSE 1
  BY <1>1 DEF RecvPast, SendPast, Deciding, Meeting, PruBit
<1>7. c <= RecvPast + SendPast
  BY <1>2, <1>4 DEF TwiceInv, PastOnce
<1>8. startedLow /\ last_pru_ts > 0 => ~(RecvHasPrinted /\ PruBit)
  BY <1>1, <1>4 DEF TwiceInv, BitIsGone
<1>9. CASE Ahead'
  <2>1. startedLow /\ last_pru_ts > 0 /\ last_pru_ts = edge - 2
    BY <1>1, <1>3, <1>9 DEF Ahead
  <2>2. at["recv"] \notin Meeting /\ SendPast = 1
    BY <1>1, <1>3, <1>6, <2>1 DEF SamplesInv
  <2>3. c = 2 => RecvHasPrinted
    BY <1>2, <2>2 DEF RecvHasPrinted, Deciding, Meeting
  <2>4. AheadInv'
    BY <1>1, <1>2, <1>6, <1>8, <2>1, <2>3 DEF AheadInv
  <2>. QED  BY <1>5, <1>9, <2>4 DEF TwiceInv, PastOnce, BitIsGone
<1>10. CASE ~Ahead'
  <2>1. last_pru_ts > 0 => SendPast = 0
    BY <1>1, <1>3, <1>6, <1>10 DEF Ahead
  <2>2. c <= RecvPast
    BY <1>2, <1>3, <1>6, <1>7, <2>1
  <2>3. PastOnce'
    BY <1>2, <1>6, <2>2 DEF PastOnce
  <2>4. last_pru_ts > 0 => (RecvHasPrinted' <=> RecvHasPrinted)
    BY <1>1, <1>2, <1>6, <2>1 DEF RecvHasPrinted
  <2>5. BitIsGone'
    BY <1>1, <1>6, <1>8, <2>4 DEF BitIsGone
  <2>. QED  BY <1>5, <1>10, <2>3, <2>5 DEF TwiceInv, AheadInv
<1>. QED  BY <1>9, <1>10

LEMMA TwiceStep ==
  ASSUME MeasureTypeOK, DeviceInv, EdgesInv, SamplesInv, BitsInv, RowsInv, TwiceInv,
         [MeasureNext]_measureVars
  PROVE  TwiceInv'
<1>1. CASE Meet("recv")
  BY <1>1, MeetTwice, RecvBit, MeetAheadInv DEF TwiceInv, Threads
<1>2. CASE Meet("send")
  BY <1>2, MeetTwice, SendBit, MeetAheadInv DEF TwiceInv, Threads
<1>3. CASE Toggle \/ Pru \/ Main \/ UNCHANGED measureVars
  <2>1. UNCHANGED <<startedLow, ts_ready, reg, rows, at, last_pru_ts, last_host_ts>>
    BY <1>3 DEF Toggle, Pru, Start, Adjusted, Trigger, terminate, NoPulse, Pulse, Await,
                check_input_pin, firmwareIdle, meeting, Main, MainStop, MainExit,
                mainIdle, hostIdle, measureVars
  <2>. QED  BY <2>1, TwiceStayKeepsInv DEF TwiceStay
<1>4. CASE Move
  BY <1>4, MoveMoves, TwiceStayKeepsInv DEF TwiceStay, hostIdle, meeting
<1>5. CASE RecvDrain /\ toHost # << >>
  BY <1>5, MeasureTypeStep, DrainTwice
<1>6. CASE SendEdge /\ (High <=> startedLow)
  BY <1>6, EdgeTwice
<1>7. CASE \/ RecvDrain /\ toHost = << >>
           \/ SendEdge /\ ~(High <=> startedLow)
           \/ SendRead \/ SendReadFails \/ SendSync \/ SendNeither
  <2>1. UNCHANGED <<startedLow, ts_ready, reg, rows, last_pru_ts, last_host_ts>>
    BY <1>7, EdgeEvents DEF RecvDrain, SendRead, SendReadFails, SendSync, SendEdge,
                            SendNeither, hostIdle, meeting
  <2>2. \A t \in Threads : at'[t] = at[t] \/ (at[t] \notin Meeting /\ at'[t] \notin Meeting)
    <3>1. CASE SendEdge /\ ~(High <=> startedLow)
      <4>1. at["send"] = "dispatch" /\ at'["send"] = "test"
        BY <3>1, EdgeEvents DEF SendEdge
      <4>2. at'["recv"] = at["recv"]
        BY <3>1 DEF SendEdge, GoTo, MeasureTypeOK, PlacesTypeOK, Threads
      <4>. QED  BY <4>1, <4>2 DEF Threads, Meeting
    <3>2. CASE \/ RecvDrain /\ toHost = << >>
               \/ SendRead \/ SendReadFails \/ SendSync \/ SendNeither
      BY <3>2 DEF RecvDrain, SendRead, SendReadFails, SendSync, SendNeither, GoTo,
                  MeasureTypeOK, PlacesTypeOK, Threads, Meeting
    <3>. QED  BY <1>7, <3>1, <3>2
  <2>. QED  BY <2>1, <2>2, TwiceStayKeepsInv DEF TwiceStay
<1>. QED  BY <1>1, <1>2, <1>3, <1>4, <1>5, <1>6, <1>7
             DEF MeasureNext, Receive, Send, Move, Threads

-----------------------------------------------------------------------------
LEMMA MeasureInvInit == MeasureInit => MeasureInv
<1>. SUFFICES ASSUME MeasureInit PROVE MeasureInv
  OBVIOUS
<1>. USE DEF MeasureInit
<1>1. MeasureTypeOK
  BY MeasureTypeInit
<1>2. startedLow \in BOOLEAN /\ edge = (IF startedLow THEN 0 ELSE 1) /\ (High <=> ~startedLow)
  BY DEF High, Rising
<1>3. at["recv"] = "test" /\ at["send"] = "test"
  BY DEF Threads
<1>4. ~EdgeWaits /\ ~PulseWaits /\ ~Awaiting
  BY <1>3 DEF EdgeWaits, PulseWaits, Awaiting
<1>5. DeviceInv
  BY <1>3 DEF DeviceInv
<1>6. EdgesInv
  BY <1>2, <1>3, <1>4 DEF EdgesInv, LastKept, Meeting
<1>7. SamplesInv
  BY <1>2, <1>3 DEF SamplesInv, Meeting
<1>8. PulsesInv
  BY <1>4 DEF PulsesInv
<1>9. BitsInv /\ RowsInv
  BY <1>3 DEF BitsInv, RowsInv, Taken, Threads
<1>10. \A e \in Nat : Printed(e) = 0
  BY <1>3, FS_EmptySet DEF Printed, RowsOf, Printing
<1>11. ~Ahead /\ ~PruBit
  BY DEF Ahead, PruBit
<1>12. TwiceInv
  BY <1>10, <1>11 DEF TwiceInv, AtMostTwice, PastOnce, BitIsGone, AheadInv, RecvPast, SendPast
<1>. QED  BY <1>1, <1>5, <1>6, <1>7, <1>8, <1>9, <1>12 DEF MeasureInv

(* As long as no read of the device has failed.                            *)
LEMMA NoErrorYet ==
  ASSUME MeasureTypeOK, [MeasureNext]_measureVars, errors' = 0
  PROVE  errors = 0 /\ ~SendReadFails
<1>1. errors \in Nat
  BY DEF MeasureTypeOK, QueuesTypeOK
<1>2. CASE SendReadFails
  BY <1>1, <1>2 DEF SendReadFails
<1>3. CASE ~SendReadFails
  <2>1. CASE Toggle \/ Pru \/ Main \/ UNCHANGED measureVars
    BY <1>3, <2>1 DEF Toggle, Pru, Start, Adjusted, Trigger, terminate, NoPulse, Pulse,
       Await, check_input_pin, firmwareIdle, reader, Main, MainStop, MainExit, mainIdle,
       measureVars
  <2>2. ASSUME NEW t \in Threads, Meet(t) PROVE errors' = errors
    BY <2>2, MeetMoves DEF reader
  <2>3. CASE Move
    BY <1>3, <2>3, MoveMoves DEF reader
  <2>4. CASE RecvDrain \/ SendRead \/ SendSync \/ SendEdge \/ SendNeither
    BY <1>3, <2>4 DEF RecvDrain, SendRead, SendSync, SendEdge, SendNeither, reader
  <2>. QED
    BY <1>3, <2>1, <2>2, <2>3, <2>4 DEF MeasureNext, Receive, Send, Move, Threads
<1>. QED  BY <1>2, <1>3

LEMMA MeasureInvStep ==
  ASSUME MeasureInv, [MeasureNext]_measureVars PROVE MeasureInv'
<1>1. MeasureTypeOK /\ MeasureTypeOK'
  BY MeasureTypeStep DEF MeasureInv
<1>2. SUFFICES ASSUME errors' = 0
               PROVE  /\ DeviceInv' /\ EdgesInv' /\ SamplesInv' /\ PulsesInv'
                      /\ BitsInv' /\ RowsInv' /\ TwiceInv'
  BY <1>1 DEF MeasureInv
<1>3. ~SendReadFails /\ errors = 0
  BY <1>1, <1>2, NoErrorYet
<1>4. DeviceInv /\ EdgesInv /\ SamplesInv /\ PulsesInv /\ BitsInv /\ RowsInv /\ TwiceInv
  BY <1>3 DEF MeasureInv
<1>5. DeviceInv' /\ EdgesInv'
  BY <1>1, <1>3, <1>4, EventsStep
<1>6. SamplesInv'
  BY <1>1, <1>4, SamplesStep
<1>7. PulsesInv'
  BY <1>1, <1>3, <1>4, PulsesStep
<1>8. BitsInv' /\ RowsInv'
  BY <1>1, <1>4, BitsStep
<1>9. TwiceInv'
  BY <1>1, <1>4, TwiceStep
<1>. QED  BY <1>5, <1>6, <1>7, <1>8, <1>9

THEOREM MeasureInvariant == MeasureSpec => []MeasureInv
BY MeasureInvInit, MeasureInvStep, PTL DEF MeasureSpec

(* A row's two times, and the two its difference was taken of, are of the  *)
(* same edge of the input or of neighbouring ones (host_main.c prints a    *)
(* row when both bits of ts_ready are set), whatever num_samples and       *)
(* however often the clock is synchronised.                                *)
THEOREM RowsPairNeighbours == MeasureSpec => []RowsAreNeighbours
<1>1. MeasureInv => RowsAreNeighbours
  BY DEF MeasureInv, RowsInv, Near, RowsAreNeighbours
<1>. QED  BY <1>1, MeasureInvariant, PTL

(* No sample of the PRU is printed a third time, however the loads and     *)
(* stores of ts_ready in the two host threads interleave.                  *)
THEOREM NoSampleThrice == MeasureSpec => []NoRowThrice
<1>1. ASSUME MeasureInv PROVE NoRowThrice
  <2>. SUFFICES ASSUME errors = 0, NEW n \in DOMAIN rows
                PROVE  Cardinality(RowsOf(rows[n].pru)) <= 2
    BY DEF NoRowThrice
  <2>1. MeasureTypeOK /\ AtMostTwice /\ rows \in Seq(Row)
    BY <1>1 DEF MeasureInv, TwiceInv, MeasureTypeOK, MeetingTypeOK
  <2>2. rows[n] \in Row
    BY <2>1
  <2>3. PICK e \in Nat : e = rows[n].pru
    BY <2>2 DEF Row
  <2>4. Printed(e) <= 2 /\ Cardinality(RowsOf(e)) \in Nat
    BY <2>1, WithPruFinite DEF AtMostTwice, RowsOf, WithPru
  <2>5. Cardinality(RowsOf(e)) <= 2
    BY <2>4 DEF Printed, Printing
  <2>. QED  BY <2>3, <2>5
<1>. QED  BY <1>1, MeasureInvariant, PTL

(* The two channels of the one device, and the rising and falling edges of *)
(* the second, are told apart (host_qot.c): the clock is adjusted to the   *)
(* times of its own pulses, in order, and the edges kept are of one kind.  *)
THEOREM EventsAreToldApart == MeasureSpec => []EventsAreSorted
<1>1. ASSUME MeasureInv PROVE EventsAreSorted
  <2>. SUFFICES ASSUME errors = 0
                PROVE  /\ \A k \in DOMAIN used : used[k] = k
                       /\ last_host_ts # 0 => (Rising(last_host_ts) <=> startedLow)
    BY DEF EventsAreSorted
  <2>1. PulsesInv /\ EdgesInv /\ edge \in Nat /\ startedLow \in BOOLEAN
    BY <1>1 DEF MeasureInv, MeasureTypeOK, FirmwareTypeOK
  <2>2. last_host_ts # 0 =>
          last_host_ts \in IF High <=> startedLow THEN {edge, edge - 2} ELSE {edge - 1}
    BY <2>1 DEF EdgesInv, LastKept
  <2>3. /\ Rising(edge - 1) <=> ~Rising(edge)
        /\ Rising(edge - 2) <=> Rising(edge)
    BY <2>1 DEF Rising
  <2>4. last_host_ts # 0 => (Rising(last_host_ts) <=> startedLow)
    BY <2>1, <2>2, <2>3 DEF High
  <2>. QED  BY <2>1, <2>4 DEF PulsesInv
<1>. QED  BY <1>1, MeasureInvariant, PTL
=============================================================================
