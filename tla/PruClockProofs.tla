--------------------------- MODULE PruClockProofs ---------------------------
(* The clock of PruTime is exact for every rate, shift and counter width,  *)
(* and so is that of the pru_clock program, whatever its host does.        *)
EXTENDS PruClock, SequenceTheorems, TLAPS

-----------------------------------------------------------------------------
(* Arithmetic with symbolic divisors and factors.                          *)

LEMMA DivMod ==
  ASSUME NEW x \in Int, NEW s \in Nat \ {0}
  PROVE  /\ x = s * (x \div s) + (x % s)
         /\ x % s \in 0 .. s - 1 /\ x \div s \in Int
  OBVIOUS

LEMMA DivUnique ==
  ASSUME NEW q \in Int, NEW r \in Int, NEW t \in Int, NEW u \in Int,
         NEW s \in Nat \ {0}, r \in 0 .. s - 1, u \in 0 .. s - 1,
         s * q + r = s * t + u
  PROVE  q = t
<1>1. s * (q - t) = u - r
  OBVIOUS
<1>2. CASE q - t >= 1
  <2>1. s * (q - t) >= s  BY <1>2
  <2>. QED  BY <2>1, <1>1
<1>3. CASE q - t <= -1
  <2>1. s * (q - t) <= -s  BY <1>3
  <2>. QED  BY <2>1, <1>1
<1>4. CASE q - t = 0
  BY <1>4
<1>. QED  BY <1>2, <1>3, <1>4

LEMMA Mono ==
  ASSUME NEW a \in Nat, NEW b \in Nat, NEW m \in Nat, a <= b
  PROVE  m * a <= m * b
  OBVIOUS

LEMMA Distribute ==
  ASSUME NEW a \in Int, NEW b \in Int, NEW m \in Int
  PROVE  m * (a + b) = m * a + m * b
  OBVIOUS

LEMMA SmallMod ==
  ASSUME NEW n \in Nat, NEW x \in 0 .. n - 1
  PROVE  x % n = x
  OBVIOUS

LEMMA WrapMod ==
  ASSUME NEW n \in Nat \ {0}, NEW x \in n .. 2 * n - 1
  PROVE  x % n = x - n
  OBVIOUS

(* One read: g ticks after a time n0 with fraction f that accounted for k. *)
LEMMA ReadArithmetic ==
  ASSUME NEW m \in Nat, NEW s \in Nat \ {0}, NEW g \in Nat, NEW k \in Nat,
         NEW f \in 0 .. s - 1, NEW n0 \in Int, NEW o \in Int,
         NEW x \in Nat, x = m * g + f,
         n0 * s + f = m * k + o * s
  PROVE  /\ x \div s \in Nat /\ x % s \in 0 .. s - 1
         /\ (x \div s + n0) * s + (x % s) = m * (g + k) + o * s
         /\ x \div s + n0 = (m * (g + k)) \div s + o
<1>. DEFINE q == x \div s
            r == x % s
            y == m * (g + k)
            qy == y \div s
            ry == y % s
<1>0. x \in Int
  OBVIOUS
<1>1. x = s * q + r /\ r \in 0 .. s - 1 /\ q \in Int
  BY <1>0, DivMod, Zenon
<1>2. q \in Nat
  OBVIOUS
<1>3. y \in Nat /\ y = m * g + m * k
  <2>1. m \in Nat /\ g + k \in Nat
    OBVIOUS
  <2>. QED  BY <2>1, Distribute, SMTT(30)
<1>4. y = s * qy + ry /\ ry \in 0 .. s - 1 /\ qy \in Int
  <2>1. y \in Int
    BY <1>3
  <2>. HIDE DEF y
  <2>. QED  BY <2>1, DivMod
<1>. HIDE DEF q, r, y, qy, ry
<1>5. (q + n0) * s = s * q + n0 * s
  BY <1>1
<1>6. (q + n0) * s + r = y + o * s
  <2>1. m * k + m * g = y /\ s * q + r = m * g + f /\ n0 * s + f = m * k + o * s
    BY <1>1, <1>3
  <2>2. s * q \in Int /\ n0 * s \in Int /\ m * k \in Int /\ m * g \in Int /\ o * s \in Int
    BY <1>1
  <2>. QED  BY <1>1, <1>3, <1>5, <2>1, <2>2
<1>7. s * (q + n0 - o) + r = s * qy + ry
  BY <1>1, <1>4, <1>6
<1>8. q + n0 - o = qy
  BY <1>1, <1>4, <1>7, DivUnique
<1>9. q + n0 = qy + o
  BY <1>1, <1>4, <1>8
<1>. QED  BY <1>1, <1>2, <1>6, <1>9 DEF q, r, y, qy, ry

-----------------------------------------------------------------------------
LEMMA Types ==
  ASSUME TypeOK
  PROVE  /\ MULT \in Nat /\ SCALE \in Nat \ {0} /\ U64 \in Nat /\ COUNTER \in Nat
         /\ cnt \in Nat /\ cycle_last \in Nat /\ nsec \in Nat /\ frac \in Nat
         /\ reading \in Nat /\ ts_pru \in Int /\ offset \in Int
         /\ ticks \in Nat /\ polled \in Nat /\ polled <= ticks /\ ticks <= MaxTicks
         /\ frac < SCALE
  BY RateAssumption, CounterAssumption, WidthAssumption, TicksAssumption
     DEF TypeOK, NoEvent

(* The masked difference is the number of ticks since the last read.       *)
LEMMA DeltaExact ==
  ASSUME TypeOK, CounterInv
  PROVE  CycleDelta = ticks - polled
<1>. DEFINE gap == ticks - polled
<1>1. /\ gap \in 0 .. COUNTER - 1
      /\ cnt = IF cycle_last + gap < COUNTER THEN cycle_last + gap
                                            ELSE cycle_last + gap - COUNTER
      /\ cycle_last \in 0 .. COUNTER - 1
  BY Types DEF CounterInv, TypeOK
<1>. HIDE DEF gap
<1>2. CASE cycle_last + gap < COUNTER
  <2>1. cnt - cycle_last = gap  BY <1>1, <1>2
  <2>. QED  BY <2>1, <1>1, SmallMod, CounterAssumption DEF CycleDelta, gap
<1>3. CASE ~(cycle_last + gap < COUNTER)
  <2>1. cnt - cycle_last = gap - COUNTER  BY <1>1, <1>3, CounterAssumption
  <2>2. (gap - COUNTER) % COUNTER = gap  BY <1>1, CounterAssumption
  <2>. QED  BY <2>1, <2>2 DEF CycleDelta, gap
<1>. QED  BY <1>2, <1>3

(* No product of a read overflows a u64.                                   *)
LEMMA ProductExact ==
  ASSUME TypeOK, CounterInv
  PROVE  /\ Product = MULT * (ticks - polled) + frac
         /\ Product \in Nat
<1>. DEFINE gap == ticks - polled
<1>1. gap \in Nat /\ gap <= COUNTER - 1 /\ CycleDelta = gap
  BY DeltaExact, Types DEF CounterInv
<1>. HIDE DEF gap
<1>2. MULT * gap <= MULT * COUNTER /\ MULT * gap \in Nat
  BY <1>1, Types, Mono
<1>3. gap * MULT + frac \in 0 .. U64 - 1
  BY <1>1, <1>2, Types, WidthAssumption
<1>4. (gap * MULT + frac) % U64 = gap * MULT + frac
  BY <1>3, Types, SmallMod
<1>. QED  BY <1>1, <1>3, <1>4, Types DEF Product, gap

(* Whatever accounts for all ticks fits a u64 until the model stops.       *)
LEMMA Fits ==
  ASSUME NEW n \in Int, NEW f \in Nat, NEW k \in Nat, NEW o \in Int, k <= MaxTicks,
         n * SCALE + f = MULT * k + o * SCALE,
         \E t \in StartCounts \cup HostTimes : o <= t
  PROVE  n < U64
<1>1. PICK t \in StartCounts \cup HostTimes : o <= t
  OBVIOUS
<1>2. t \in Nat /\ t + MULT * MaxTicks < U64
  BY WidthAssumption
<1>3. MULT * k \in Nat /\ MULT * k <= MULT * MaxTicks
  BY Mono, RateAssumption, TicksAssumption
<1>. DEFINE m == MULT * k
<1>4. n - o <= m
  <2>1. SCALE * (n - o) + f = m  BY RateAssumption
  <2>. HIDE DEF m
  <2>2. CASE n - o <= 0
    BY <2>2, <1>3 DEF m
  <2>3. CASE n - o > 0
    <3>1. n - o <= SCALE * (n - o)  BY <2>3, RateAssumption
    <3>. QED  BY <3>1, <2>1, <1>3, RateAssumption DEF m
  <2>. QED  BY <2>2, <2>3
<1>. HIDE DEF m
<1>. QED  BY <1>1, <1>2, <1>3, <1>4, RateAssumption, TicksAssumption, WidthAssumption DEF m

(* A read returns the time of all the ticks so far.                        *)
LEMMA ReadExact ==
  ASSUME IInv, timecounter_read
  PROVE  /\ nsec' \in 0 .. U64 - 1 /\ frac' \in 0 .. SCALE - 1
         /\ nsec' * SCALE + frac' = MULT * ticks + offset * SCALE
         /\ nsec <= nsec'
         /\ nsec' = (MULT * ticks) \div SCALE + offset
<1>. USE DEF IInv
<1>. DEFINE gap == ticks - polled
            x == Product
            n == x \div SCALE + nsec
<1>1. /\ gap \in Nat /\ x = MULT * gap + frac /\ x \in Nat /\ gap + polled = ticks
  BY ProductExact, Types
<1>2. /\ x \div SCALE \in Nat /\ x % SCALE \in 0 .. SCALE - 1
      /\ n * SCALE + (x % SCALE) = MULT * (gap + polled) + offset * SCALE
      /\ n = (MULT * (gap + polled)) \div SCALE + offset
  <2>1. nsec * SCALE + frac = MULT * polled + offset * SCALE  BY DEF Exact
  <2>2. frac \in 0 .. SCALE - 1  BY DEF TypeOK
  <2>3. MULT \in Nat /\ SCALE \in Nat \ {0} /\ polled \in Nat /\ nsec \in Int /\ offset \in Int
    BY Types
  <2>. DEFINE Claim == /\ x \div SCALE \in Nat /\ x % SCALE \in 0 .. SCALE - 1
                      /\ (x \div SCALE + nsec) * SCALE + (x % SCALE)
                           = MULT * (gap + polled) + offset * SCALE
                      /\ x \div SCALE + nsec = (MULT * (gap + polled)) \div SCALE + offset
  <2>4. gap \in Nat /\ x \in Nat /\ x = MULT * gap + frac  BY <1>1
  <2>. HIDE DEF gap, x
  <2>5. Claim
    BY <2>1, <2>2, <2>3, <2>4, ReadArithmetic, SMTT(60)
  <2>. QED  BY <2>5
<1>3. n \in Nat /\ nsec <= n
  BY <1>2, Types
<1>4. n < U64
  <2>1. \E t \in StartCounts \cup HostTimes : offset <= t  BY DEF SyncInv
  <2>2. n \in Int /\ x % SCALE \in Nat  BY <1>2, <1>3, RateAssumption
  <2>3. n * SCALE + (x % SCALE) = MULT * ticks + offset * SCALE  BY <1>1, <1>2
  <2>. HIDE DEF n, x, gap
  <2>. QED  BY <2>1, <2>2, <2>3, Fits, Types
<1>5. nsec' = n /\ frac' = x % SCALE
  BY <1>3, <1>4, SmallMod, Types DEF timecounter_read
<1>. QED  BY <1>1, <1>2, <1>3, <1>4, <1>5, Types

-----------------------------------------------------------------------------
(* The inductive invariant.                                                *)

LEMMA InvInit == Init => IInv
<1>. SUFFICES ASSUME Init PROVE IInv
  OBVIOUS
<1>1. PICK start \in StartCounts, count \in StartCounts :
        nsec = start /\ cycle_last = count /\ cnt = count
  BY DEF Init
<1>2. start \in Nat /\ start < U64 /\ count \in 0 .. COUNTER - 1
  <2>1. start \in Nat /\ start + MULT * MaxTicks < U64  BY WidthAssumption
  <2>2. MULT * MaxTicks \in Nat  BY RateAssumption, TicksAssumption
  <2>. QED  BY <2>1, <2>2, StartAssumption, WidthAssumption
<1>3. TypeOK
  BY <1>1, <1>2, RateAssumption, TicksAssumption, WidthAssumption DEF Init, TypeOK
<1>4. Exact
  BY <1>1, <1>2, RateAssumption DEF Init, Exact
<1>5. CounterInv
  BY <1>1, <1>2, CounterAssumption DEF Init, CounterInv
<1>6. SyncInv
  BY <1>1, <1>2 DEF Init, SyncInv
<1>. QED  BY <1>3, <1>4, <1>5, <1>6 DEF IInv

LEMMA TickKeepsInv == IInv /\ Tick => IInv'
<1>. SUFFICES ASSUME IInv, Tick PROVE IInv'
  OBVIOUS
<1>. USE DEF IInv
<1>1. UNCHANGED <<cycle_last, nsec, frac, ts_pru, reading, polled, offset>>
  BY DEF Tick, tc
<1>2. ticks' = ticks + 1 /\ ticks' \in 0 .. MaxTicks /\ polled \in 0 .. ticks'
      /\ ticks - polled < COUNTER - 1
  BY Types, TicksAssumption DEF Tick, TypeOK
<1>3. cnt' = IF cnt + 1 < COUNTER THEN cnt + 1 ELSE 0
  BY CounterAssumption DEF Tick, TypeOK
<1>4. CounterInv' /\ cnt' \in 0 .. COUNTER - 1
  BY <1>1, <1>2, <1>3, Types, CounterAssumption DEF CounterInv, TypeOK
<1>5. TypeOK'
  BY <1>1, <1>2, <1>4 DEF TypeOK
<1>6. Exact' /\ SyncInv'
  BY <1>1 DEF Exact, SyncInv
<1>. QED  BY <1>4, <1>5, <1>6

LEMMA ReadKeepsInv ==
  ASSUME IInv, timecounter_read,
         \/ UNCHANGED ts_pru
         \/ ts_pru = NoEvent /\ ts_pru' = nsec'
  PROVE  IInv'
<1>. USE DEF IInv
<1>1. /\ nsec' \in 0 .. U64 - 1 /\ frac' \in 0 .. SCALE - 1
      /\ nsec' * SCALE + frac' = MULT * ticks + offset * SCALE
      /\ nsec <= nsec'
      /\ nsec' = (MULT * ticks) \div SCALE + offset
  BY ReadExact
<1>2. /\ cycle_last' = cnt /\ reading' = nsec' /\ polled' = ticks
      /\ UNCHANGED <<cnt, ticks, offset>>
  BY DEF timecounter_read
<1>3. TypeOK'
  BY <1>1, <1>2, Types DEF TypeOK
<1>4. Exact'
  BY <1>1, <1>2 DEF Exact
<1>5. CounterInv'
  BY <1>2, Types, CounterAssumption DEF CounterInv, TypeOK
<1>6. offset <= nsec'
  <2>1. MULT * ticks \in Nat  BY Types
  <2>2. (MULT * ticks) \div SCALE \in Nat  BY <2>1, RateAssumption
  <2>. QED  BY <1>1, <2>2, Types
<1>7. ts_pru' # NoEvent => offset <= ts_pru' /\ ts_pru' <= nsec'
  <2>1. CASE UNCHANGED ts_pru
    BY <2>1, <1>1, Types DEF SyncInv
  <2>2. CASE ts_pru' = nsec'
    BY <2>2, <1>1, <1>6, Types
  <2>. QED  BY <2>1, <2>2
<1>8. SyncInv'
  BY <1>2, <1>7 DEF SyncInv
<1>. QED  BY <1>3, <1>4, <1>5, <1>8

(* A jump, forwards or backwards, lands within a u64.                      *)
LEMMA JumpExact ==
  ASSUME IInv, NEW ts_host \in HostTimes, adj_pru_time(ts_host)
  PROVE  /\ nsec' = nsec + (ts_host - ts_pru)
         /\ nsec' \in 0 .. U64 - 1
         /\ nsec' * SCALE + frac = MULT * polled + (offset + (ts_host - ts_pru)) * SCALE
         /\ offset + (ts_host - ts_pru) <= ts_host
<1>. USE DEF IInv
<1>. DEFINE d == ts_host - ts_pru
<1>1. /\ ts_pru \in Nat /\ offset <= ts_pru /\ ts_pru <= nsec /\ ts_host \in Nat
  BY WidthAssumption DEF adj_pru_time, SyncInv, TypeOK
<1>2. /\ d \in Int /\ nsec + d \in Nat /\ offset + d <= ts_host /\ offset + d \in Int
  BY <1>1, Types
<1>3. (nsec + d) * SCALE + frac = MULT * polled + (offset + d) * SCALE
  <2>1. nsec * SCALE + frac = MULT * polled + offset * SCALE  BY DEF Exact
  <2>2. /\ (nsec + d) * SCALE = nsec * SCALE + d * SCALE
        /\ (offset + d) * SCALE = offset * SCALE + d * SCALE
    BY <1>2, Types, Distribute
  <2>. HIDE DEF d
  <2>3. /\ nsec * SCALE \in Int /\ d * SCALE \in Int /\ offset * SCALE \in Int
        /\ MULT * polled \in Int /\ frac \in Int
    BY <1>2, Types
  <2>. QED  BY <2>1, <2>2, <2>3
<1>4. nsec + d < U64
  <2>1. \E t \in StartCounts \cup HostTimes : offset + d <= t  BY <1>2
  <2>2. polled \in Nat /\ polled <= MaxTicks  BY Types, TicksAssumption
  <2>3. nsec + d \in Int /\ frac \in Nat  BY <1>2, Types
  <2>. DEFINE n == nsec + d
              o == offset + d
  <2>4. /\ n \in Int /\ o \in Int /\ n * SCALE + frac = MULT * polled + o * SCALE
        /\ \E t \in StartCounts \cup HostTimes : o <= t
    BY <1>2, <1>3, <2>1
  <2>. HIDE DEF n, o, d
  <2>5. n < U64  BY <2>2, <2>3, <2>4, Fits
  <2>. QED  BY <2>5 DEF n
<1>5. nsec' = nsec + d
  <2>1. nsec' = (nsec + d) % U64  BY DEF adj_pru_time
  <2>2. nsec + d \in 0 .. U64 - 1  BY <1>2, <1>4, Types
  <2>. QED  BY <2>1, <2>2, Types, SmallMod
<1>. QED  BY <1>2, <1>3, <1>4, <1>5, Types

LEMMA AdjKeepsInv ==
  ASSUME IInv, NEW ts_host \in HostTimes, adj_pru_time(ts_host)
  PROVE  IInv'
<1>. USE DEF IInv
<1>1. /\ nsec' \in 0 .. U64 - 1
      /\ nsec' * SCALE + frac = MULT * polled + (offset + (ts_host - ts_pru)) * SCALE
      /\ offset + (ts_host - ts_pru) <= ts_host
  BY JumpExact
<1>2. /\ offset' = offset + (ts_host - ts_pru) /\ ts_pru' = NoEvent
      /\ UNCHANGED <<cnt, cycle_last, frac, reading, ticks, polled>>
  BY DEF adj_pru_time
<1>3. TypeOK'
  <2>1. offset' \in Int  BY <1>2, Types, WidthAssumption
  <2>. QED  BY <1>1, <1>2, <2>1 DEF TypeOK
<1>4. Exact'
  BY <1>1, <1>2 DEF Exact
<1>5. CounterInv'
  BY <1>2 DEF CounterInv
<1>6. SyncInv'
  <2>1. offset' <= ts_host /\ ts_pru' = NoEvent  BY <1>1, <1>2
  <2>. QED  BY <2>1 DEF SyncInv
<1>. QED  BY <1>3, <1>4, <1>5, <1>6

LEMMA InvNext == IInv /\ [Next]_vars => IInv'
<1>. SUFFICES ASSUME IInv, [Next]_vars PROVE IInv'
  OBVIOUS
<1>1. CASE Tick
  BY <1>1, TickKeepsInv
<1>2. CASE read_pru_time
  BY <1>2, ReadKeepsInv DEF read_pru_time
<1>3. CASE StartSync
  BY <1>3, ReadKeepsInv DEF StartSync
<1>4. ASSUME NEW ts_host \in HostTimes, adj_pru_time(ts_host) PROVE IInv'
  BY <1>4, AdjKeepsInv
<1>5. CASE UNCHANGED vars
  BY <1>5 DEF vars, IInv, TypeOK, Exact, CounterInv, SyncInv
<1>. QED  BY <1>1, <1>2, <1>3, <1>4, <1>5 DEF Next

LEMMA Invariant == Spec => []IInv
  BY InvInit, InvNext, PTL DEF Spec

-----------------------------------------------------------------------------
(* The struct keeps its types: in particular no time, and no product of a  *)
(* read, leaves a u64.                                                     *)
THEOREM TypeCorrect == Spec => []TypeOK
<1>1. IInv => TypeOK  BY DEF IInv
<1>. QED  BY Invariant, <1>1, PTL

(* nsec and frac account for every tick, whatever the rate, the shift and  *)
(* the width of the counter.                                               *)
THEOREM ClockExact == Spec => []Exact
<1>1. IInv => Exact  BY DEF IInv
<1>. QED  BY Invariant, <1>1, PTL

LEMMA IdealInit == Init => Clock!Init
  BY DEF Init, Clock!Init, Clock!NoEvent, NoEvent

LEMMA IdealNext == IInv /\ [Next]_vars => [Clock!Next]_(Clock!idealVars)
<1>. SUFFICES ASSUME IInv, [Next]_vars PROVE [Clock!Next]_(Clock!idealVars)
  OBVIOUS
<1>. USE DEF Clock!NoEvent, NoEvent
<1>1. CASE Tick
  BY <1>1 DEF Tick, tc, Clock!Next, Clock!Advance
<1>2. CASE read_pru_time
  <2>1. reading' = Clock!Now  BY <1>2, ReadExact DEF read_pru_time, timecounter_read, Clock!Now
  <2>2. Clock!Read  BY <1>2, <2>1 DEF read_pru_time, timecounter_read, Clock!Read
  <2>. QED  BY <2>2 DEF Clock!Next
<1>3. CASE StartSync
  <2>1. reading' = Clock!Now  BY <1>3, ReadExact DEF StartSync, timecounter_read, Clock!Now
  <2>2. Clock!NoteEvent  BY <1>3, <2>1 DEF StartSync, timecounter_read, Clock!NoteEvent
  <2>. QED  BY <2>2 DEF Clock!Next
<1>4. ASSUME NEW ts_host \in HostTimes, adj_pru_time(ts_host) PROVE Clock!Align(ts_host)
  BY <1>4 DEF adj_pru_time, Clock!Align
<1>5. CASE UNCHANGED vars
  BY <1>5 DEF vars, Clock!idealVars
<1>. QED  BY <1>1, <1>2, <1>3, <1>4, <1>5 DEF Next, Clock!Next

(* For every rate, shift, counter width and host, the clock is the ideal   *)
(* one as long as it is read once per rollover.                            *)
THEOREM PruTimeIsIdeal == Spec => ClockSpec
  BY IdealInit, IdealNext, Invariant, PTL DEF Spec, ClockSpec, Clock!Spec
-----------------------------------------------------------------------------
(* The pru_clock program: its inductive invariant.                         *)

ClockTypeOK ==
  /\ pru \in {"loop", "T1", "await", "read", "store lo", "store hi", "adjust"}
  /\ last_ts \in 0 .. U64 - 1 /\ value \in 0 .. U64 - 1 /\ first \in BOOLEAN
  /\ data \in HostTimes \cup {NoData} /\ nano_ts \in HostTimes
  /\ ptp \in Seq(HostTimes) /\ ring \in Seq(HostTimes)
  /\ send \in {"read", "write"} /\ poll \in {"lo", "hi"} /\ stable \in BOOLEAN
  /\ host \in HostOffsets /\ pulseHost \in HostOffsets
  /\ synced \in HostOffsets \cup {NoData}
  /\ syncTick \in 0 .. ticks /\ adjTick \in 0 .. ticks
  /\ steps \in Nat /\ errors \in Nat /\ early \in Nat
  /\ written \in 0 .. U64 - 1 /\ from \in 0 .. U64 - 1

(* Where the firmware is says whether a synchronisation is under way.      *)
ControlInv ==
  /\ pru \in {"loop", "T1"} => ts_pru = NoEvent
  /\ pru \in {"await", "adjust"} => ts_pru # NoEvent
  /\ data # NoData => ts_pru # NoEvent
  /\ pru = "await" => data = NoData
  /\ pru = "adjust" => data # NoData
  /\ first => pru = "loop"

(* What the host answers to the pulse under way.                           *)
Answer == pulseHost + (ts_pru - offset)

(* Unless a read has failed, the one answer to a pulse is in the device,   *)
(* with the sender, in the ring or with the firmware, and there is no other.*)
FlightInv == errors = 0 =>
  \/ ts_pru = NoEvent /\ Len(ptp) = 0 /\ send = "read" /\ Len(ring) = 0
  \/ /\ ts_pru # NoEvent
     /\ \/ Len(ptp) = 1 /\ ptp[1] = Answer /\ send = "read" /\ Len(ring) = 0 /\ data = NoData
        \/ Len(ptp) = 0 /\ send = "write" /\ nano_ts = Answer /\ Len(ring) = 0 /\ data = NoData
        \/ Len(ptp) = 0 /\ send = "read" /\ Len(ring) = 1 /\ ring[1] = Answer /\ data = NoData
        \/ Len(ptp) = 0 /\ send = "read" /\ Len(ring) = 0 /\ data = Answer

(* The two words are those of the time written last, but for the moment    *)
(* between their stores; a poll has the low word of an earlier one.        *)
WordInv ==
  /\ lo = written % WORD
  /\ IF pru = "store hi" THEN written = value ELSE hi = written \div WORD
  /\ poll = "hi" =>
       /\ low = from % WORD
       /\ stable => /\ hi = from \div WORD
                    /\ pru = "store hi" => value \div WORD = from \div WORD

(* An early synchronisation is paid for by a jump of the clock since the   *)
(* decision before; that by a pulse the host gave another offset than the  *)
(* last; and that by the host's clock having been set.                     *)
One(b) == IF b THEN 1 ELSE 0
Jumped == ~first /\ last_ts # MULT * syncTick + offset
EarlyInv == errors = 0 =>
  early + One(Jumped) + One(synced # pulseHost) + One(host # pulseHost) <= 1 + steps

(* How far the last adjustment left the clock ahead of the decision before *)
(* it.  If far behind, the unsigned difference makes the next decision due *)
(* unless it is within a period below 2^64, and then it stays that.        *)
Ahead == MULT * adjTick + offset - last_ts
Fresh == IF pru = "read" THEN polled <= adjTick ELSE polled - adjTick <= COUNTER - 1
Settled == Ahead >= -(2 * (MULT * (COUNTER - 1))) \/ U64 + Ahead <= SYNC_PERIOD_NS
LateInv == /\ 0 <= MULT * adjTick + offset
           /\ ~first /\ ts_pru = NoEvent /\ pru # "T1" => Fresh \/ Settled

BaseInv == IInv /\ ClockTypeOK /\ ControlInv
ClockInv == BaseInv /\ FlightInv /\ SyncedToHost /\ WordInv /\ EarlyInv /\ LateInv

-----------------------------------------------------------------------------
LEMMA ClockConstants ==
  /\ SCALE = 1 /\ WORD \in Nat \ {0} /\ U64 \in Nat /\ MULT \in Nat /\ COUNTER \in Nat
  /\ COUNTER >= 2 /\ MaxTicks \in Nat /\ Capacity \in Nat \ {0} /\ SYNC_PERIOD_NS \in Nat
  /\ 0 \in HostTimes /\ HostTimes \subseteq Nat /\ NoData \notin HostTimes
  /\ NoData = -1 /\ NoEvent = -1
  BY ClockAssumption, WidthAssumption, RateAssumption, CounterAssumption, TicksAssumption
     DEF NoData, NoEvent

(* A nanosecond time is exact where a tick is a whole number of them.      *)
LEMMA NsecIs ==
  ASSUME IInv
  PROVE  nsec = MULT * polled + offset
<1>1. nsec * 1 + frac = MULT * polled + offset * 1 /\ frac = 0
  BY ClockConstants DEF IInv, Exact, TypeOK
<1>2. nsec \in Int /\ offset \in Int /\ MULT * polled \in Int
  BY Types DEF IInv
<1>. QED  BY <1>1, <1>2

LEMMA ReadIs ==
  ASSUME IInv, timecounter_read
  PROVE  /\ nsec' = MULT * ticks + offset /\ nsec' \in 0 .. U64 - 1
         /\ polled' = ticks /\ UNCHANGED <<cnt, ticks, offset>>
<1>1. nsec' \in 0 .. U64 - 1 /\ nsec' = (MULT * ticks) \div SCALE + offset
  BY ReadExact
<1>2. (MULT * ticks) \div 1 = MULT * ticks
  BY Types DEF IInv
<1>. QED  BY <1>1, <1>2, ClockConstants DEF timecounter_read

(* What the device captures is a time the host may send.                   *)
LEMMA CaptureIs ==
  ASSUME IInv, NEW h \in HostOffsets
  PROVE  h + MULT * ticks \in HostTimes /\ h \in HostTimes /\ h \in Nat
<1>1. h + MULT * ticks \in HostTimes
  BY ClockAssumption DEF IInv, TypeOK
<1>2. h + MULT * 0 \in HostTimes /\ h \in Nat
  BY ClockAssumption, ClockConstants
<1>3. h + MULT * 0 = h
  BY <1>2, ClockConstants
<1>. QED  BY <1>1, <1>2, <1>3


-----------------------------------------------------------------------------
(* A step of the program is a step of its clock, or none.                  *)
LEMMA ClockStep == BaseInv /\ [ClockNext]_allvars => [Next]_vars
<1>. SUFFICES ASSUME BaseInv, [ClockNext]_allvars PROVE [Next]_vars
  OBVIOUS
<1>1. CASE Decide \/ ReadTime
  BY <1>1 DEF Decide, ReadTime, Next
<1>2. CASE Pulse
  BY <1>2 DEF Pulse, Next
<1>3. CASE Adjust
  <2>1. data \in HostTimes
    BY <1>3 DEF BaseInv, ClockTypeOK, ControlInv, Adjust
  <2>. QED  BY <1>3, <2>1 DEF Adjust, Next
<1>4. CASE TickTock
  BY <1>4 DEF TickTock, Next
<1>5. CASE Await \/ StoreLo \/ StoreHi
  BY <1>5 DEF Await, StoreLo, StoreHi
<1>6. CASE Send \/ Poll \/ SetHost \/ UNCHANGED allvars
  BY <1>6 DEF Send, SendRead, SendReadFails, SendWrite, Poll, PollLo, PollHi, SetHost, allvars
<1>. QED  BY <1>1, <1>2, <1>3, <1>4, <1>5, <1>6 DEF ClockNext, Firmware

LEMMA TicksGrow ==
  ASSUME IInv, [Next]_vars
  PROVE  ticks \in Nat /\ ticks' \in Nat /\ ticks <= ticks'
<1>1. ticks' \in {ticks, ticks + 1}
  BY DEF Next, Tick, read_pru_time, StartSync, timecounter_read, adj_pru_time, vars
<1>. QED  BY <1>1, Types DEF IInv

LEMMA BaseInit == ClockInit => BaseInv
<1>. SUFFICES ASSUME ClockInit PROVE BaseInv
  OBVIOUS
<1>1. IInv
  BY InvInit DEF ClockInit
<1>2. ClockTypeOK
  <2>1. << >> \in Seq(HostTimes)
    BY EmptySeq
  <2>2. ticks = 0
    BY DEF ClockInit, Init
  <2>. QED  BY <2>1, <2>2, ClockConstants, WidthAssumption, RateAssumption DEF ClockInit, ClockTypeOK
<1>3. ControlInv
  BY ClockConstants DEF ClockInit, ControlInv, Init
<1>. QED  BY <1>1, <1>2, <1>3 DEF BaseInv

LEMMA BaseNext == BaseInv /\ [ClockNext]_allvars => BaseInv'
<1>. SUFFICES ASSUME BaseInv, [ClockNext]_allvars PROVE BaseInv'
  OBVIOUS
<1>0. IInv /\ ClockTypeOK /\ ControlInv
  BY DEF BaseInv
<1>n. [Next]_vars
  BY ClockStep
<1>i. IInv'
  BY <1>0, <1>n, InvNext
<1>t. /\ ticks \in Nat /\ ticks' \in Nat /\ ticks <= ticks'
      /\ nsec' \in 0 .. U64 - 1
  BY <1>0, <1>n, <1>i, TicksGrow DEF IInv, TypeOK
<1>k. syncTick \in 0 .. ticks' /\ adjTick \in 0 .. ticks'
  <2>1. syncTick \in 0 .. ticks /\ adjTick \in 0 .. ticks
    BY <1>0 DEF ClockTypeOK
  <2>. QED  BY <1>t, <2>1
<1>f. /\ host \in HostOffsets /\ steps \in Nat /\ errors \in Nat /\ early \in Nat
      /\ written \in 0 .. U64 - 1 /\ last_ts \in 0 .. U64 - 1
      /\ ptp \in Seq(HostTimes) /\ ring \in Seq(HostTimes) /\ nano_ts \in HostTimes
  BY <1>0 DEF ClockTypeOK
<1>. USE DEF NoEvent, NoData
<1>1. CASE Decide
  <2>1. /\ pru = "loop" /\ pru' \in {"T1", "read"} /\ first' = FALSE
        /\ last_ts' \in {last_ts, nsec'} /\ syncTick' \in {syncTick, ticks}
        /\ early' \in {early, early + 1, early + 0}
        /\ UNCHANGED <<ts_pru, ticks, data, value, lo, hi, ptp, ring, send, nano_ts, errors, poll, low,
                       host, steps, scenario, pulseHost, synced, adjTick, written, from, stable>>
    BY <1>1 DEF Decide, read_pru_time, timecounter_read, memory, sender, poller, world, history
  <2>2. /\ last_ts' \in 0 .. U64 - 1 /\ syncTick' \in 0 .. ticks' /\ adjTick' \in 0 .. ticks'
        /\ early' \in Nat
    BY <1>t, <1>f, <1>k, <2>1
  <2>3. ClockTypeOK'
    BY <1>0, <2>1, <2>2 DEF ClockTypeOK
  <2>4. ControlInv'
    BY <1>0, <2>1 DEF ControlInv
  <2>. QED  BY <1>i, <2>3, <2>4 DEF BaseInv
<1>2. CASE Pulse
  <2>1. /\ pru = "T1" /\ pru' = "await" /\ ts_pru' = nsec' /\ pulseHost' = host
        /\ ptp' = Append(ptp, host + MULT * ticks)
        /\ UNCHANGED <<last_ts, first, ticks, data, value, lo, hi, ring, send, nano_ts, errors, poll, low,
                       host, steps, scenario, synced, syncTick, adjTick, early, written, from, stable>>
    BY <1>2 DEF Pulse, StartSync, timecounter_read, memory, sender, poller, world, history
  <2>2. ptp' \in Seq(HostTimes)
    <3>1. host + MULT * ticks \in HostTimes
      BY <1>0, <1>f, CaptureIs
    <3>. QED  BY <1>f, <2>1, <3>1, AppendProperties
  <2>3. ClockTypeOK'
    BY <1>0, <1>k, <2>1, <2>2 DEF ClockTypeOK
  <2>4. ControlInv'
    BY <1>0, <1>t, <2>1 DEF ControlInv
  <2>. QED  BY <1>i, <2>3, <2>4 DEF BaseInv
<1>3. CASE Await
  <2>1. /\ pru = "await" /\ pru' = "read"
        /\ UNCHANGED <<ts_pru, last_ts, first, ticks, value, lo, hi, ptp, send, nano_ts, errors, poll, low,
                       host, steps, scenario, pulseHost, synced, syncTick, adjTick, early,
                       written, from, stable>>
    BY <1>3 DEF Await, vars, memory, poller, world, syncs, history
  <2>2. data' \in HostTimes \cup {NoData} /\ ring' \in Seq(HostTimes)
    <3>1. CASE ring = << >>
      BY <1>3, <1>f, <3>1 DEF Await
    <3>2. CASE ring # << >>
      <4>1. data' = Head(ring) /\ ring' = Tail(ring)
        BY <1>3, <3>2 DEF Await
      <4>. QED  BY <1>f, <3>2, <4>1, HeadTailProperties
    <3>. QED  BY <3>1, <3>2
  <2>3. ClockTypeOK'
    BY <1>0, <1>k, <2>1, <2>2 DEF ClockTypeOK
  <2>4. ControlInv'
    BY <1>0, <2>1 DEF ControlInv
  <2>. QED  BY <1>i, <2>3, <2>4 DEF BaseInv
<1>4. CASE ReadTime
  <2>1. /\ pru = "read" /\ pru' = "store lo" /\ value' = nsec'
        /\ UNCHANGED <<ts_pru, last_ts, first, ticks, data, lo, hi, ptp, ring, send, nano_ts, errors, poll, low,
                       host, steps, scenario, pulseHost, synced, syncTick, adjTick, early,
                       written, from, stable>>
    BY <1>4 DEF ReadTime, read_pru_time, timecounter_read, memory, sender, poller, world, syncs, history
  <2>2. ClockTypeOK'
    BY <1>0, <1>t, <1>k, <2>1 DEF ClockTypeOK
  <2>3. ControlInv'
    BY <1>0, <2>1 DEF ControlInv
  <2>. QED  BY <1>i, <2>2, <2>3 DEF BaseInv
<1>5. CASE StoreLo
  <2>1. /\ pru = "store lo" /\ pru' = "store hi" /\ written' = value /\ stable' \in BOOLEAN
        /\ UNCHANGED <<ts_pru, last_ts, first, ticks, data, value, hi, ptp, ring, send, nano_ts, errors,
                       poll, low, host, steps, scenario, pulseHost, synced, syncTick, adjTick, early, from>>
    BY <1>0, <1>5 DEF StoreLo, vars, sender, poller, world, syncs, ClockTypeOK
  <2>2. ClockTypeOK'
    BY <1>0, <1>k, <2>1 DEF ClockTypeOK
  <2>3. ControlInv'
    BY <1>0, <2>1 DEF ControlInv
  <2>. QED  BY <1>i, <2>2, <2>3 DEF BaseInv
<1>6. CASE StoreHi
  <2>1. /\ pru = "store hi"
        /\ pru' = IF ts_pru = NoEvent THEN "loop" ELSE IF data = NoData THEN "await" ELSE "adjust"
        /\ UNCHANGED <<ts_pru, last_ts, first, ticks, data, value, lo, ptp, ring, send, nano_ts, errors, poll, low,
                       host, steps, scenario, pulseHost, synced, syncTick, adjTick, early,
                       written, from, stable>>
    BY <1>6 DEF StoreHi, vars, sender, poller, world, syncs, history
  <2>2. ClockTypeOK'
    BY <1>0, <1>k, <2>1 DEF ClockTypeOK
  <2>3. ControlInv'
    BY <1>0, <2>1 DEF ControlInv
  <2>. QED  BY <1>i, <2>2, <2>3 DEF BaseInv
<1>7. CASE Adjust
  <2>1. /\ pru = "adjust" /\ pru' = "read" /\ data' = NoData /\ ts_pru' = NoEvent
        /\ synced' = pulseHost /\ adjTick' = ticks
        /\ UNCHANGED <<last_ts, first, ticks, value, lo, hi, ptp, ring, send, nano_ts, errors, poll, low,
                       host, steps, scenario, pulseHost, syncTick, early, written, from, stable>>
    BY <1>7 DEF Adjust, adj_pru_time, memory, sender, poller, world, history
  <2>2. ClockTypeOK'
    BY <1>0, <1>t, <2>1 DEF ClockTypeOK
  <2>3. ControlInv'
    BY <1>0, <2>1 DEF ControlInv
  <2>. QED  BY <1>i, <2>2, <2>3 DEF BaseInv
<1>8. CASE Send
  <2>1. /\ UNCHANGED <<ts_pru, pru, last_ts, first, ticks, data, value, lo, hi, poll, low,
                       host, steps, scenario, pulseHost, synced, syncTick, adjTick, early,
                       written, from, stable>>
        /\ send' \in {"read", "write"}
    BY <1>8 DEF Send, SendRead, SendReadFails, SendWrite, vars, firmware, memory, poller, world,
                syncs, history
  <2>2. /\ nano_ts' \in HostTimes /\ ptp' \in Seq(HostTimes) /\ ring' \in Seq(HostTimes)
        /\ errors' \in Nat
    <3>1. CASE SendRead
      <4>1. Head(ptp) \in HostTimes /\ Tail(ptp) \in Seq(HostTimes)
        BY <1>0, <3>1, HeadTailProperties DEF SendRead, ClockTypeOK
      <4>. QED  BY <1>0, <3>1, <4>1 DEF SendRead, ClockTypeOK
    <3>2. CASE SendReadFails
      BY <1>f, <3>2, ClockConstants DEF SendReadFails
    <3>3. CASE SendWrite
      <4>1. Append(ring, nano_ts) \in Seq(HostTimes)
        BY <1>0, AppendProperties DEF ClockTypeOK
      <4>. QED  BY <1>0, <3>3, <4>1 DEF SendWrite, ClockTypeOK
    <3>. QED  BY <1>8, <3>1, <3>2, <3>3 DEF Send
  <2>3. ClockTypeOK'
    BY <1>0, <1>k, <2>1, <2>2 DEF ClockTypeOK
  <2>4. ControlInv'
    BY <1>0, <2>1 DEF ControlInv
  <2>. QED  BY <1>i, <2>3, <2>4 DEF BaseInv
<1>9. CASE Poll
  <2>1. /\ UNCHANGED <<ts_pru, pru, last_ts, first, ticks, data, value, lo, hi, ptp, ring, send, nano_ts,
                       errors, host, steps, scenario, pulseHost, synced, syncTick, adjTick, early, written>>
        /\ poll' \in {"lo", "hi"} /\ stable' \in BOOLEAN /\ from' \in {written, 0}
    BY <1>9 DEF Poll, PollLo, PollHi, vars, firmware, memory, sender, world, syncs
  <2>2. from' \in 0 .. U64 - 1
    <3>1. 0 \in 0 .. U64 - 1
      BY <1>f, ClockConstants
    <3>. QED  BY <1>f, <2>1, <3>1
  <2>3. ClockTypeOK'
    BY <1>0, <1>k, <2>1, <2>2 DEF ClockTypeOK
  <2>4. ControlInv'
    BY <1>0, <2>1 DEF ControlInv
  <2>. QED  BY <1>i, <2>3, <2>4 DEF BaseInv
<1>10. CASE TickTock \/ SetHost \/ UNCHANGED allvars
  <2>1. /\ UNCHANGED <<ts_pru, pru, last_ts, first, data, value, lo, hi, ptp, ring, send, nano_ts,
                       errors, poll, low, pulseHost, synced, syncTick, adjTick, early,
                       written, from, stable>>
        /\ host' \in HostOffsets \cup {host} /\ steps' \in {steps, steps + 1}
    BY <1>10 DEF TickTock, Tick, SetHost, allvars, vars, firmware, memory, sender, poller, world,
                 syncs, history
  <2>2. ClockTypeOK'
    <3>1. host' \in HostOffsets /\ steps' \in Nat
      BY <1>f, <2>1
    <3>. QED  BY <1>0, <1>k, <2>1, <3>1 DEF ClockTypeOK
  <2>3. ControlInv'
    BY <1>0, <2>1 DEF ControlInv
  <2>. QED  BY <1>i, <2>2, <2>3 DEF BaseInv
<1>. QED  BY <1>1, <1>2, <1>3, <1>4, <1>5, <1>6, <1>7, <1>8, <1>9, <1>10 DEF ClockNext, Firmware


-----------------------------------------------------------------------------
(* The answer under way.                                                   *)
LEMMA NoneOrSome ==
  ASSUME NEW S, NEW q \in Seq(S)
  PROVE  Len(q) \in Nat /\ (Len(q) = 0 <=> q = << >>)
  BY EmptySeq, LenProperties

LEMMA PutOne ==
  ASSUME NEW S, NEW q \in Seq(S), Len(q) = 0, NEW e \in S
  PROVE  Len(Append(q, e)) = 1 /\ Append(q, e)[1] = e
  BY AppendProperties

LEMMA TakeOne ==
  ASSUME NEW S, NEW q \in Seq(S), Len(q) = 1
  PROVE  q # << >> /\ Head(q) = q[1] /\ Len(Tail(q)) = 0
<1>1. q # << >>
  BY EmptySeq
<1>2. Len(Tail(q)) = 0
  BY <1>1, HeadTailProperties
<1>. QED  BY <1>1, <1>2, HeadTailProperties

LEMMA FlightInit == ClockInit => FlightInv
<1>1. Len(<< >>) = 0
  BY EmptySeq
<1>. QED  BY <1>1 DEF ClockInit, Init, FlightInv

LEMMA FlightNext == BaseInv /\ FlightInv /\ [ClockNext]_allvars => FlightInv'
<1>. SUFFICES ASSUME BaseInv, FlightInv, [ClockNext]_allvars, errors' = 0
              PROVE  FlightInv'
  BY DEF FlightInv
<1>0. IInv /\ ControlInv
  BY DEF BaseInv
<1>t. /\ ptp \in Seq(HostTimes) /\ ring \in Seq(HostTimes) /\ nano_ts \in HostTimes
      /\ errors \in Nat /\ Len(ptp) \in Nat /\ Len(ring) \in Nat
      /\ (Len(ptp) = 0 <=> ptp = << >>) /\ (Len(ring) = 0 <=> ring = << >>)
  BY NoneOrSome DEF BaseInv, ClockTypeOK
<1>n. NoData \notin HostTimes
  BY ClockConstants
<1>1. CASE Pulse
  <2>1. /\ pru = "T1" /\ ts_pru' = nsec' /\ pulseHost' = host
        /\ ptp' = Append(ptp, host + MULT * ticks) /\ timecounter_read
        /\ UNCHANGED <<offset, data, ring, send, nano_ts, errors>>
    BY <1>1 DEF Pulse, StartSync, timecounter_read, sender
  <2>2. nsec' = MULT * ticks + offset /\ nsec' \in 0 .. U64 - 1
    BY <1>0, <2>1, ReadIs
  <2>3. /\ ts_pru = NoEvent /\ data = NoData /\ Len(ptp) = 0 /\ send = "read" /\ Len(ring) = 0
    BY <2>1, <1>0 DEF FlightInv, ControlInv
  <2>4. host \in HostOffsets /\ host + MULT * ticks \in HostTimes /\ host \in Nat
    BY <1>0, CaptureIs DEF BaseInv, ClockTypeOK
  <2>5. Len(ptp') = 1 /\ ptp'[1] = host + MULT * ticks
    BY <1>t, <2>1, <2>3, <2>4, PutOne
  <2>6. Answer' = host + MULT * ticks
    <3>. DEFINE m == MULT * ticks
    <3>1. m \in Int /\ offset \in Int
      BY <1>0, Types DEF IInv
    <3>2. Answer' = pulseHost' + (ts_pru' - offset')
      BY DEF Answer
    <3>3. pulseHost' = host /\ offset' = offset /\ ts_pru' = m + offset
      BY <2>1, <2>2
    <3>. HIDE DEF m
    <3>4. Answer' = host + m
      BY <2>4, <3>1, <3>2, <3>3
    <3>. QED  BY <3>4 DEF m
  <2>7. ts_pru' # NoEvent
    BY <2>1, <2>2, ClockConstants
  <2>. QED  BY <2>1, <2>3, <2>5, <2>6, <2>7 DEF FlightInv
<1>2. CASE Await
  <2>1. /\ pru = "await" /\ errors = 0
        /\ \/ ring = << >> /\ data' = NoData /\ ring' = ring
           \/ ring # << >> /\ data' = Head(ring) /\ ring' = Tail(ring)
        /\ UNCHANGED <<ts_pru, offset, ptp, send, nano_ts, errors, pulseHost>>
    BY <1>2 DEF Await, vars, syncs
  <2>2. ts_pru # NoEvent /\ data = NoData /\ Answer' = Answer
    BY <1>0, <2>1 DEF ControlInv, Answer
  <2>3. CASE ring = << >>
    BY <1>t, <1>n, <2>1, <2>2, <2>3 DEF FlightInv
  <2>4. CASE ring # << >>
    <3>1. Len(ring) = 1 /\ ring[1] = Answer /\ Len(ptp) = 0 /\ send = "read"
      BY <1>t, <2>1, <2>2, <2>4 DEF FlightInv
    <3>2. data' = Answer /\ Len(ring') = 0
      BY <1>t, <2>1, <2>4, <3>1, TakeOne
    <3>. QED  BY <2>1, <2>2, <3>1, <3>2 DEF FlightInv
  <2>. QED  BY <2>3, <2>4
<1>3. CASE Adjust
  <2>1. /\ ts_pru' = NoEvent /\ data # NoData /\ errors = 0 /\ ts_pru # NoEvent
        /\ UNCHANGED <<ptp, ring, send>>
    BY <1>0, <1>3 DEF Adjust, adj_pru_time, sender, ControlInv
  <2>. QED  BY <2>1 DEF FlightInv
<1>4. CASE Send
  <2>1. UNCHANGED <<ts_pru, offset, pulseHost, data>> /\ Answer' = Answer
    BY <1>4 DEF Send, SendRead, SendReadFails, SendWrite, vars, firmware, syncs, Answer
  <2>2. CASE SendRead
    <3>1. /\ send = "read" /\ ptp # << >> /\ nano_ts' = Head(ptp) /\ ptp' = Tail(ptp)
          /\ send' = "write" /\ UNCHANGED <<ring, errors>>
      BY <2>2 DEF SendRead
    <3>2. ts_pru # NoEvent /\ Len(ptp) = 1 /\ ptp[1] = Answer /\ Len(ring) = 0 /\ data = NoData
      BY <1>t, <3>1 DEF FlightInv
    <3>3. nano_ts' = Answer /\ Len(ptp') = 0
      BY <1>t, <3>1, <3>2, TakeOne
    <3>. QED  BY <2>1, <3>1, <3>2, <3>3 DEF FlightInv
  <2>3. CASE SendReadFails
    <3>1. errors' = errors + 1
      BY <2>3 DEF SendReadFails
    <3>. QED  BY <1>t, <3>1
  <2>4. CASE SendWrite
    <3>1. /\ send = "write" /\ send' = "read" /\ UNCHANGED <<ptp, errors>>
          /\ ring' = IF Len(ring) < Capacity THEN Append(ring, nano_ts) ELSE ring
      BY <2>4 DEF SendWrite
    <3>2. ts_pru # NoEvent /\ Len(ptp) = 0 /\ nano_ts = Answer /\ Len(ring) = 0 /\ data = NoData
      BY <3>1 DEF FlightInv
    <3>3. ring' = Append(ring, nano_ts)
      BY <3>1, <3>2, ClockConstants
    <3>4. Len(ring') = 1 /\ ring'[1] = Answer
      BY <1>t, <3>2, <3>3, PutOne
    <3>. QED  BY <2>1, <3>1, <3>2, <3>4 DEF FlightInv
  <2>. QED  BY <1>4, <2>2, <2>3, <2>4 DEF Send
<1>5. CASE UNCHANGED <<ts_pru, offset, ptp, ring, send, nano_ts, data, errors, pulseHost>>
  BY <1>5 DEF FlightInv, Answer
<1>6. CASE Decide \/ ReadTime
  BY <1>5, <1>6 DEF Decide, ReadTime, read_pru_time, timecounter_read, sender, syncs
<1>7. CASE StoreLo \/ StoreHi
  BY <1>5, <1>7 DEF StoreLo, StoreHi, vars, sender, syncs
<1>8. CASE Poll \/ TickTock \/ SetHost \/ UNCHANGED allvars
  BY <1>5, <1>8 DEF Poll, PollLo, PollHi, TickTock, Tick, SetHost, allvars, vars, tc, firmware,
                    sender, syncs
<1>. QED  BY <1>1, <1>2, <1>3, <1>4, <1>6, <1>7, <1>8 DEF ClockNext, Firmware

-----------------------------------------------------------------------------
(* What an adjustment to the answer makes of the offset.                   *)
LEMMA AdjustIs ==
  ASSUME BaseInv, FlightInv, Adjust, errors = 0
  PROVE  offset' = pulseHost /\ synced' = pulseHost /\ pulseHost \in HostOffsets
<1>1. /\ data # NoData /\ ts_pru # NoEvent /\ offset' = offset + (data - ts_pru)
      /\ synced' = pulseHost
  BY DEF BaseInv, ControlInv, Adjust, adj_pru_time
<1>2. data = pulseHost + (ts_pru - offset)
  BY <1>1 DEF FlightInv, Answer
<1>3. pulseHost \in HostOffsets /\ pulseHost \in Nat /\ ts_pru \in Int /\ offset \in Int
  BY CaptureIs, Types DEF BaseInv, ClockTypeOK, IInv
<1>. QED  BY <1>1, <1>2, <1>3

(* No other step of the program changes the offset.                        *)
LEMMA OffsetIs ==
  ASSUME [ClockNext]_allvars
  PROVE  Adjust \/ UNCHANGED <<offset, synced>>
<1>1. CASE Decide \/ ReadTime \/ Pulse
  BY <1>1 DEF Decide, ReadTime, Pulse, StartSync, read_pru_time, timecounter_read, syncs
<1>2. CASE Await \/ StoreLo \/ StoreHi
  BY <1>2 DEF Await, StoreLo, StoreHi, vars, syncs
<1>3. CASE Send \/ Poll \/ TickTock \/ SetHost \/ UNCHANGED allvars
  BY <1>3 DEF Send, SendRead, SendReadFails, SendWrite, Poll, PollLo, PollHi, TickTock, Tick,
              SetHost, allvars, vars, syncs
<1>. QED  BY <1>1, <1>2, <1>3 DEF ClockNext, Firmware

LEMMA ErrorsGrow ==
  ASSUME BaseInv, [ClockNext]_allvars
  PROVE  errors \in Nat /\ (errors' = 0 => errors = 0)
<1>1. errors \in Nat
  BY DEF BaseInv, ClockTypeOK
<1>2. errors' \in {errors, errors + 1}
  BY DEF ClockNext, Firmware, Decide, Pulse, Await, ReadTime, StoreLo, StoreHi, Adjust, Send,
         SendRead, SendReadFails, SendWrite, Poll, PollLo, PollHi, TickTock, SetHost, sender, allvars
<1>. QED  BY <1>1, <1>2

LEMMA SyncedNext == BaseInv /\ FlightInv /\ SyncedToHost /\ [ClockNext]_allvars => SyncedToHost'
<1>. SUFFICES ASSUME BaseInv, FlightInv, SyncedToHost, [ClockNext]_allvars
              PROVE  SyncedToHost'
  OBVIOUS
<1>1. CASE Adjust
  BY <1>1, AdjustIs, ErrorsGrow DEF SyncedToHost
<1>2. CASE UNCHANGED <<offset, synced>>
  BY <1>2, ErrorsGrow DEF SyncedToHost
<1>. QED  BY <1>1, <1>2, OffsetIs


-----------------------------------------------------------------------------
(* The words of the time.                                                  *)
LEMMA WordInit == ClockInit => WordInv
<1>1. 0 % WORD = 0 /\ 0 \div WORD = 0
  BY ClockConstants, SmallMod
<1>. QED  BY <1>1 DEF ClockInit, WordInv

LEMMA WordNext == BaseInv /\ WordInv /\ [ClockNext]_allvars => WordInv'
<1>. SUFFICES ASSUME BaseInv, WordInv, [ClockNext]_allvars PROVE WordInv'
  OBVIOUS
<1>1. CASE StoreLo
  <2>1. /\ pru = "store lo" /\ pru' = "store hi" /\ lo' = value % WORD /\ written' = value
        /\ poll = "hi" => (stable' => stable /\ value \div WORD = from \div WORD)
        /\ UNCHANGED <<value, hi, poll, low, from>>
    BY <1>1 DEF StoreLo, vars, poller
  <2>. QED  BY <2>1 DEF WordInv
<1>2. CASE StoreHi
  <2>1. /\ pru = "store hi" /\ pru' # "store hi" /\ hi' = value \div WORD
        /\ UNCHANGED <<lo, written, poll, low, from, stable>>
    BY <1>2 DEF StoreHi, vars, poller, history
  <2>. QED  BY <2>1 DEF WordInv
<1>3. CASE PollLo
  <2>1. /\ low' = lo /\ poll' = "hi" /\ from' = written
        /\ stable' => (pru = "store hi" => written \div WORD = hi)
        /\ UNCHANGED <<pru, value, lo, hi, written>>
    BY <1>3 DEF PollLo, firmware, memory
  <2>. QED  BY <2>1 DEF WordInv
<1>4. CASE PollHi
  BY <1>4 DEF PollHi, firmware, memory, WordInv
<1>5. CASE pru # "store hi" /\ pru' # "store hi" /\ UNCHANGED <<memory, poller, history>>
  BY <1>5 DEF memory, poller, history, WordInv
<1>6. CASE Decide \/ Pulse \/ ReadTime \/ Adjust
  BY <1>5, <1>6 DEF Decide, Pulse, ReadTime, Adjust
<1>7. CASE Await
  BY <1>5, <1>7 DEF Await
<1>8. CASE UNCHANGED <<pru, value, memory, poller, history>>
  BY <1>8 DEF memory, poller, history, WordInv
<1>9. CASE Send \/ TickTock \/ SetHost \/ UNCHANGED allvars
  BY <1>8, <1>9 DEF Send, SendRead, SendReadFails, SendWrite, TickTock, SetHost, allvars, firmware
<1>. QED  BY <1>1, <1>2, <1>3, <1>4, <1>6, <1>7, <1>9 DEF ClockNext, Firmware, Poll

LEMMA InvWhole == BaseInv /\ WordInv => PolledIsWhole
<1>. SUFFICES ASSUME BaseInv, WordInv, poll = "hi", stable PROVE hi * WORD + low = from
  BY DEF PolledIsWhole
<1>1. low = from % WORD /\ hi = from \div WORD
  BY DEF WordInv
<1>2. from \in Int /\ WORD \in Nat \ {0}
  <2>1. from \in 0 .. U64 - 1
    BY DEF BaseInv, ClockTypeOK
  <2>. QED  BY <2>1, ClockConstants
<1>3. from = WORD * (from \div WORD) + (from % WORD) /\ from \div WORD \in Int
  BY <1>2, DivMod
<1>. DEFINE h == from \div WORD
            l == from % WORD
<1>4. l \in Int /\ h \in Int /\ from = WORD * h + l /\ hi = h /\ low = l
  BY <1>1, <1>2, <1>3, DivMod
<1>. HIDE DEF h, l
<1>. QED  BY <1>2, <1>4

-----------------------------------------------------------------------------
(* Early synchronisations.                                                 *)
LEMMA EarlyInit == ClockInit => EarlyInv
<1>. SUFFICES ASSUME ClockInit PROVE EarlyInv
  OBVIOUS
<1>1. early = 0 /\ steps = 0 /\ host = pulseHost /\ first
  BY DEF ClockInit
<1>2. One(Jumped) = 0 /\ One(host # pulseHost) = 0 /\ One(synced # pulseHost) \in {0, 1}
  BY <1>1 DEF One, Jumped
<1>. QED  BY <1>1, <1>2 DEF EarlyInv

(* The offset being that of the decision before, the difference is exact,  *)
(* and a decision that is due is not early.                                *)
LEMMA DueIsNotEarly ==
  ASSUME BaseInv, timecounter_read, Due(nsec'), ~Jumped, ~first
  PROVE  ~(MULT * (ticks - syncTick) <= SYNC_PERIOD_NS)
<1>. DEFINE m == MULT * ticks
            k == MULT * syncTick
<1>1. nsec' = m + offset /\ last_ts = k + offset
  BY ReadIs DEF BaseInv, Jumped
<1>2. /\ ticks \in Nat /\ syncTick \in Nat /\ syncTick <= ticks /\ ticks <= MaxTicks
      /\ offset \in Int /\ MULT \in Nat
  <2>1. syncTick \in 0 .. ticks
    BY DEF BaseInv, ClockTypeOK
  <2>. QED  BY <2>1, Types DEF BaseInv, IInv
<1>3. m \in Nat /\ k \in Nat /\ k <= m /\ m <= MULT * MaxTicks
  BY <1>2, Mono, ClockConstants
<1>4. MULT * (ticks - syncTick) = m - k
  BY <1>2
<1>5. m < U64
  <2>1. MULT * MaxTicks < U64 /\ MULT * MaxTicks \in Int
    BY ClockAssumption, ClockConstants
  <2>. QED  BY <1>3, <2>1, ClockConstants
<1>6. (nsec' - last_ts) % U64 > SYNC_PERIOD_NS
  BY DEF Due
<1>. HIDE DEF m, k
<1>7. nsec' - last_ts = m - k /\ m - k \in 0 .. U64 - 1
  BY <1>1, <1>2, <1>3, <1>5, ClockConstants
<1>8. m - k > SYNC_PERIOD_NS
  BY <1>6, <1>7, SmallMod, ClockConstants
<1>. QED  BY <1>3, <1>4, <1>8, ClockConstants

LEMMA EarlyNext ==
  BaseInv /\ FlightInv /\ SyncedToHost /\ EarlyInv /\ [ClockNext]_allvars => EarlyInv'
<1>. SUFFICES ASSUME BaseInv, FlightInv, SyncedToHost, EarlyInv, [ClockNext]_allvars,
                     errors' = 0
              PROVE  EarlyInv'
  BY DEF EarlyInv
<1>e. errors = 0
  BY ErrorsGrow
<1>t. early \in Nat /\ steps \in Nat /\ first \in BOOLEAN
  BY DEF BaseInv, ClockTypeOK
<1>i. early + One(Jumped) + One(synced # pulseHost) + One(host # pulseHost) <= 1 + steps
  BY <1>e DEF EarlyInv
<1>1. CASE Decide
  <2>1. /\ timecounter_read /\ ~first' /\ UNCHANGED <<synced, pulseHost, host, steps, offset>>
    BY <1>1 DEF Decide, read_pru_time, timecounter_read, world
  <2>2. CASE Due(nsec')
    <3>1. /\ last_ts' = nsec' /\ syncTick' = ticks
          /\ early' = early + IF ~first /\ MULT * (ticks - syncTick) <= SYNC_PERIOD_NS
                                THEN 1 ELSE 0
      BY <1>1, <2>2 DEF Decide
    <3>2. ~Jumped'
      BY <2>1, <3>1, ReadIs DEF Jumped, BaseInv
    <3>3. early' = early \/ (early' = early + 1 /\ Jumped)
      BY <1>t, <2>1, <2>2, <3>1, DueIsNotEarly
    <3>. QED  BY <1>t, <1>i, <2>1, <3>2, <3>3 DEF EarlyInv, One
  <2>3. CASE ~Due(nsec')
    <3>1. UNCHANGED <<last_ts, syncTick, early>> /\ ~first
      BY <1>1, <2>3 DEF Decide, Due
    <3>2. Jumped' <=> Jumped
      BY <2>1, <3>1 DEF Jumped
    <3>. QED  BY <1>t, <1>i, <2>1, <3>1, <3>2 DEF EarlyInv, One
  <2>. QED  BY <2>2, <2>3
<1>2. CASE Pulse
  <2>1. /\ pulseHost' = host
        /\ UNCHANGED <<first, last_ts, syncTick, offset, early, synced, host, steps>>
    BY <1>2 DEF Pulse, StartSync, timecounter_read, world
  <2>2. Jumped' <=> Jumped
    BY <2>1 DEF Jumped
  <2>. QED  BY <1>t, <1>i, <2>1, <2>2 DEF EarlyInv, One
<1>3. CASE Adjust
  <2>1. offset' = pulseHost /\ synced' = pulseHost /\ pulseHost \in HostOffsets
    BY <1>3, <1>e, AdjustIs
  <2>2. UNCHANGED <<first, last_ts, syncTick, early, pulseHost, host, steps>>
    BY <1>3 DEF Adjust, adj_pru_time, world
  <2>3. CASE offset = pulseHost
    <3>1. Jumped' <=> Jumped
      BY <2>1, <2>2, <2>3 DEF Jumped
    <3>. QED  BY <1>t, <1>i, <2>1, <2>2, <3>1 DEF EarlyInv, One
  <2>4. CASE offset # pulseHost
    <3>1. synced # pulseHost
      <4>1. pulseHost # NoData
        BY <2>1, CaptureIs, ClockConstants DEF BaseInv
      <4>. QED  BY <1>e, <2>4, <4>1 DEF SyncedToHost
    <3>. QED  BY <1>t, <1>i, <2>1, <2>2, <3>1 DEF EarlyInv, One
  <2>. QED  BY <2>3, <2>4
<1>4. CASE SetHost
  <2>1. /\ steps' = steps + 1
        /\ UNCHANGED <<first, last_ts, syncTick, offset, early, synced, pulseHost>>
    BY <1>4 DEF SetHost, vars, firmware, syncs
  <2>2. Jumped' <=> Jumped
    BY <2>1 DEF Jumped
  <2>. QED  BY <1>t, <1>i, <2>1, <2>2 DEF EarlyInv, One
<1>5. CASE UNCHANGED <<first, last_ts, syncTick, offset, early, synced, pulseHost, host, steps>>
  BY <1>5, <1>i DEF EarlyInv, Jumped
<1>6. CASE ReadTime \/ Await \/ StoreLo \/ StoreHi
  BY <1>5, <1>6 DEF ReadTime, read_pru_time, timecounter_read, Await, StoreLo, StoreHi, vars,
                    world, syncs
<1>7. CASE Send \/ Poll \/ TickTock \/ UNCHANGED allvars
  BY <1>5, <1>7 DEF Send, SendRead, SendReadFails, SendWrite, Poll, PollLo, PollHi, TickTock,
                    Tick, allvars, vars, firmware, world, syncs
<1>. QED  BY <1>1, <1>2, <1>3, <1>4, <1>6, <1>7 DEF ClockNext, Firmware

LEMMA InvSettles == BaseInv /\ EarlyInv => EarlySyncsSettle
<1>. SUFFICES ASSUME BaseInv, EarlyInv, errors = 0 PROVE early <= 1 + steps
  BY DEF EarlySyncsSettle
<1>1. early \in Nat /\ steps \in Nat
  BY DEF BaseInv, ClockTypeOK
<1>2. One(Jumped) \in 0 .. 1 /\ One(synced # pulseHost) \in 0 .. 1 /\ One(host # pulseHost) \in 0 .. 1
  BY DEF One
<1>. QED  BY <1>1, <1>2 DEF EarlyInv


-----------------------------------------------------------------------------
(* Late synchronisations.                                                  *)
LEMMA LateInit == ClockInit => LateInv
<1>. SUFFICES ASSUME ClockInit PROVE LateInv
  OBVIOUS
<1>1. IInv /\ adjTick = 0 /\ polled = 0 /\ first
  BY InvInit DEF ClockInit, Init
<1>2. nsec = offset /\ nsec \in Nat
  BY <1>1, Types DEF ClockInit, Init, IInv
<1>3. MULT * 0 + offset = offset
  BY <1>2, ClockConstants
<1>. QED  BY <1>1, <1>2, <1>3 DEF LateInv

(* What is known when a decision is made: the times, as the clock counts   *)
(* them, now and at the last adjustment.                                   *)
LEMMA DecisionIs ==
  ASSUME BaseInv, LateInv, pru = "loop", timecounter_read, ~first, ~Due(nsec')
  PROVE  /\ MULT * (ticks - adjTick) <= SYNC_PERIOD_NS + 2 * (MULT * (COUNTER - 1))
         /\ Settled
<1>. DEFINE m == MULT * ticks
            k == MULT * adjTick
            g == MULT * (COUNTER - 1)
            late == nsec' - last_ts
<1>c. /\ MULT \in Nat /\ COUNTER \in Nat /\ U64 \in Nat /\ SYNC_PERIOD_NS \in Nat
      /\ COUNTER - 1 \in Nat /\ MaxTicks \in Nat
  BY ClockConstants
<1>1. /\ ticks \in Nat /\ polled \in Nat /\ ticks <= MaxTicks /\ offset \in Int
      /\ adjTick \in Nat /\ adjTick <= ticks /\ last_ts \in 0 .. U64 - 1
      /\ ticks - polled <= COUNTER - 1
  <2>1. adjTick \in 0 .. ticks /\ last_ts \in 0 .. U64 - 1 /\ IInv
    BY DEF BaseInv, ClockTypeOK
  <2>. QED  BY <2>1, Types DEF IInv, CounterInv
<1>2. nsec' = m + offset /\ nsec' \in 0 .. U64 - 1
  BY ReadIs DEF BaseInv
<1>3. m \in Nat /\ k \in Nat /\ g \in Nat /\ k <= m /\ m <= MULT * MaxTicks
  BY <1>c, <1>1, Mono
<1>4. MULT * (ticks - adjTick) = m - k
  BY <1>c, <1>1
<1>5. MULT * MaxTicks + SYNC_PERIOD_NS < U64 /\ MULT * MaxTicks \in Nat
  BY <1>c, ClockAssumption
<1>6. Ahead = k + offset - last_ts /\ 0 <= k + offset
  BY DEF Ahead, LateInv
<1>7. late % U64 <= SYNC_PERIOD_NS
  <2>1. ~(late % U64 > SYNC_PERIOD_NS)
    BY DEF Due
  <2>. QED  BY <2>1, <1>c, <1>1, <1>2
<1>8. (polled - adjTick <= COUNTER - 1) \/ Settled
  BY DEF LateInv, Fresh, BaseInv, ControlInv
<1>9. polled - adjTick <= COUNTER - 1 => m - k <= 2 * g
  <2>. SUFFICES ASSUME polled - adjTick <= COUNTER - 1 PROVE m - k <= 2 * g
    OBVIOUS
  <2>1. ticks - adjTick \in Nat /\ ticks - adjTick <= 2 * (COUNTER - 1) /\ 2 * (COUNTER - 1) \in Nat
    BY <1>c, <1>1
  <2>2. MULT * (ticks - adjTick) <= MULT * (2 * (COUNTER - 1))
    BY <1>c, <2>1, Mono
  <2>3. MULT * (2 * (COUNTER - 1)) = 2 * g
    BY <1>c
  <2>. QED  BY <1>4, <2>2, <2>3
<1>s. Settled <=> (k + offset - last_ts >= -(2 * g) \/ U64 + (k + offset - last_ts) <= SYNC_PERIOD_NS)
  BY <1>6 DEF Settled
<1>d. late = m + offset - last_ts /\ late \in -(U64 - 1) .. U64 - 1
  BY <1>c, <1>1, <1>2
<1>. HIDE DEF m, k, g, late
<1>10. CASE late >= 0
  <2>1. late <= SYNC_PERIOD_NS
    <3>1. late \in 0 .. U64 - 1
      BY <1>c, <1>d, <1>10
    <3>. QED  BY <1>7, <1>c, <3>1, SmallMod
  <2>2. CASE m - k <= 2 * g
    BY <1>c, <1>1, <1>3, <1>4, <1>s, <1>d, <1>10, <2>2 DEF g
  <2>3. CASE ~(m - k <= 2 * g)
    <3>1. Settled
      BY <1>8, <1>9, <2>3
    <3>2. k + offset - last_ts >= -(2 * g)
      \* the other disjunct: the time since would not fit the model's ticks
      <4>1. m - k <= MULT * MaxTicks
        BY <1>3, <1>5
      <4>2. late <= (k + offset - last_ts) + MULT * MaxTicks
        BY <1>1, <1>3, <1>5, <1>d, <4>1
      <4>3. CASE U64 + (k + offset - last_ts) <= SYNC_PERIOD_NS
        BY <1>c, <1>1, <1>3, <1>5, <1>d, <1>10, <4>2, <4>3
      <4>. QED  BY <1>s, <3>1, <4>3
    <3>3. m - k <= SYNC_PERIOD_NS + 2 * g
      BY <1>c, <1>1, <1>3, <1>d, <2>1, <3>2
    <3>. QED  BY <1>4, <3>1, <3>3 DEF g
  <2>. QED  BY <2>2, <2>3
<1>11. CASE late < 0
  <2>1. late % U64 = U64 + late
    <3>1. U64 + late \in 0 .. U64 - 1
      BY <1>c, <1>d, <1>11
    <3>. QED  BY <1>c, <1>d, <3>1
  <2>2. U64 + late <= SYNC_PERIOD_NS
    BY <1>7, <2>1
  <2>3. Settled
    BY <1>c, <1>1, <1>3, <1>s, <1>d, <2>2
  <2>4. m - k <= SYNC_PERIOD_NS + 2 * g
    BY <1>c, <1>1, <1>3, <1>6, <1>d, <2>2
  <2>. QED  BY <1>4, <2>3, <2>4 DEF g
<1>. QED  BY <1>d, <1>10, <1>11, <1>c

LEMMA LateNext == BaseInv /\ LateInv /\ [ClockNext]_allvars => LateInv'
<1>. SUFFICES ASSUME BaseInv, LateInv, [ClockNext]_allvars PROVE LateInv'
  OBVIOUS
<1>0. IInv /\ IInv'
  BY BaseNext DEF BaseInv
<1>1. CASE Decide
  <2>1. /\ pru = "loop" /\ timecounter_read /\ UNCHANGED <<offset, adjTick>>
    BY <1>1 DEF Decide, read_pru_time, timecounter_read
  <2>2. CASE Due(nsec')
    BY <1>1, <2>1, <2>2 DEF Decide, LateInv
  <2>3. CASE ~Due(nsec')
    <3>1. ~first /\ Settled
      BY <2>1, <2>3, DecisionIs DEF Due
    <3>2. UNCHANGED last_ts
      BY <1>1, <2>3 DEF Decide
    <3>3. Settled'
      BY <2>1, <3>1, <3>2 DEF Settled, Ahead
    <3>. QED  BY <2>1, <3>3 DEF LateInv
  <2>. QED  BY <2>2, <2>3
<1>2. CASE Pulse
  <2>1. ts_pru' = nsec' /\ nsec' \in 0 .. U64 - 1 /\ UNCHANGED <<offset, adjTick>>
    BY <1>0, <1>2, ReadIs DEF Pulse, StartSync, timecounter_read
  <2>2. ts_pru' # NoEvent
    BY <2>1, ClockConstants
  <2>. QED  BY <2>1, <2>2 DEF LateInv
<1>3. CASE Await
  <2>1. /\ pru = "await" /\ UNCHANGED <<ts_pru, offset, adjTick>>
    BY <1>3 DEF Await, vars, syncs
  <2>. QED  BY <2>1 DEF LateInv, BaseInv, ControlInv
<1>4. CASE ReadTime
  <2>1. /\ pru = "read" /\ pru' = "store lo" /\ polled' = ticks
        /\ UNCHANGED <<first, ts_pru, offset, adjTick, last_ts>>
    BY <1>4 DEF ReadTime, read_pru_time, timecounter_read, syncs
  <2>2. CASE polled <= adjTick
    <3>1. ticks - polled <= COUNTER - 1 /\ ticks \in Nat /\ polled \in Nat
      BY <1>0, Types DEF IInv, CounterInv
    <3>2. adjTick \in 0 .. ticks
      BY DEF BaseInv, ClockTypeOK
    <3>3. ticks - adjTick <= COUNTER - 1
      BY <2>2, <3>1, <3>2, ClockConstants
    <3>. QED  BY <2>1, <3>3 DEF LateInv, Fresh
  <2>3. CASE ~(polled <= adjTick)
    BY <2>1, <2>3 DEF LateInv, Fresh, Settled, Ahead
  <2>. QED  BY <2>2, <2>3
<1>5. CASE StoreLo \/ StoreHi
  <2>1. /\ pru \notin {"read", "T1"} /\ pru' # "read"
        /\ UNCHANGED <<first, ts_pru, offset, adjTick, last_ts, polled>>
    BY <1>5 DEF StoreLo, StoreHi, vars, syncs
  <2>. QED  BY <2>1 DEF LateInv, Fresh, Settled, Ahead
<1>6. CASE Adjust
  <2>1. pru' = "read" /\ adjTick' = ticks /\ UNCHANGED <<ticks, polled>>
    BY <1>6 DEF Adjust, adj_pru_time
  <2>2. ticks \in Nat /\ polled \in Nat /\ polled <= ticks /\ MULT \in Nat
    BY <1>0, Types DEF IInv
  <2>3. nsec' = MULT * polled' + offset' /\ nsec' \in Nat /\ offset' \in Int
    <3>1. nsec' \in 0 .. U64 - 1 /\ offset' \in Int
      BY <1>0 DEF IInv, TypeOK
    <3>2. IInv'
      BY <1>0
    <3>3. nsec' * 1 + frac' = MULT * polled' + offset' * 1 /\ frac' = 0
      BY <3>2, ClockConstants DEF IInv, Exact, TypeOK
    <3>4. MULT * polled' \in Int /\ nsec' \in Nat
      BY <2>1, <2>2, <3>1, ClockConstants
    <3>. QED  BY <3>1, <3>3, <3>4
  <2>4. MULT * polled <= MULT * ticks /\ MULT * polled \in Int /\ MULT * ticks \in Int
    BY <2>2, Mono
  <2>5. 0 <= MULT * adjTick' + offset'
    BY <2>1, <2>3, <2>4
  <2>. QED  BY <2>1, <2>2, <2>5 DEF LateInv, Fresh
<1>7. CASE UNCHANGED <<pru, first, ts_pru, offset, adjTick, last_ts, polled>>
  BY <1>7 DEF LateInv, Fresh, Settled, Ahead
<1>8. CASE Send \/ Poll \/ TickTock \/ SetHost \/ UNCHANGED allvars
  BY <1>7, <1>8 DEF Send, SendRead, SendReadFails, SendWrite, Poll, PollLo, PollHi, TickTock,
                    Tick, SetHost, allvars, vars, firmware, syncs
<1>. QED  BY <1>1, <1>2, <1>3, <1>4, <1>5, <1>6, <1>8 DEF ClockNext, Firmware

-----------------------------------------------------------------------------
LEMMA ClockInvInit == ClockInit => ClockInv
<1>1. ClockInit => SyncedToHost
  BY DEF ClockInit, SyncedToHost
<1>. QED  BY <1>1, BaseInit, FlightInit, WordInit, EarlyInit, LateInit DEF ClockInv

LEMMA ClockInvNext == ClockInv /\ [ClockNext]_allvars => ClockInv'
  BY BaseNext, FlightNext, SyncedNext, WordNext, EarlyNext, LateNext DEF ClockInv

LEMMA ClockInvariant == PruClockSpec => []ClockInv
  BY ClockInvInit, ClockInvNext, PTL DEF PruClockSpec

(* Whatever the host does, also when its reads fail, the program uses its  *)
(* clock as the library wants it used: the clock is the ideal one.         *)
THEOREM PruClockIsIdeal == PruClockSpec => ClockSpec
<1>1. ClockInit => Init
  BY DEF ClockInit
<1>2. ClockInv /\ [ClockNext]_allvars => [Next]_vars
  BY ClockStep DEF ClockInv
<1>3. PruClockSpec => Spec
  BY <1>1, <1>2, ClockInvariant, PTL DEF PruClockSpec, Spec
<1>. QED  BY <1>3, PruTimeIsIdeal, PTL

(* As long as no read fails, every adjustment is to the answer to its own  *)
(* pulse: the clock shows the host's time of that pulse plus all ticks     *)
(* since, for every rate, width, capacity and number of clock settings.    *)
THEOREM ClockFollowsHost == PruClockSpec => []SyncedToHost
<1>1. ClockInv => SyncedToHost
  BY DEF ClockInv
<1>. QED  BY <1>1, ClockInvariant, PTL

(* A poll that no change of the high word fell into has a whole time,      *)
(* whatever the width of a word.                                           *)
THEOREM PollsAreWhole == PruClockSpec => []PolledIsWhole
<1>1. ClockInv => PolledIsWhole
  BY InvWhole DEF ClockInv
<1>. QED  BY <1>1, ClockInvariant, PTL

(* There is at most one synchronisation before it is due for the first     *)
(* jump, and one for every time the host's clock is set.                   *)
THEOREM EarlySyncsAreBounded == PruClockSpec => []EarlySyncsSettle
<1>1. ClockInv => EarlySyncsSettle
  BY InvSettles DEF ClockInv
<1>. QED  BY <1>1, ClockInvariant, PTL

(* No jump of the clock, and no difference that wraps, makes a decision    *)
(* come out not due longer than a period and two readings after the last   *)
(* adjustment.                                                             *)
THEOREM SyncsAreNeverLate == PruClockSpec => NeverLate
<1>1. ClockInv /\ [ClockNext]_allvars
        => [pru = "loop" /\ pru' = "read" =>
              MULT * (ticks - adjTick) <= SYNC_PERIOD_NS + 2 * MULT * (COUNTER - 1)]_allvars
  <2>. SUFFICES ASSUME ClockInv, [ClockNext]_allvars, pru = "loop", pru' = "read"
                PROVE  MULT * (ticks - adjTick) <= SYNC_PERIOD_NS + 2 * MULT * (COUNTER - 1)
    OBVIOUS
  <2>1. Decide
    BY DEF ClockNext, Firmware, Decide, Pulse, Await, ReadTime, StoreLo, StoreHi, Adjust, Send,
           SendRead, SendReadFails, SendWrite, Poll, PollLo, PollHi, TickTock, SetHost, allvars, firmware
  <2>2. timecounter_read /\ ~Due(nsec') /\ ~first
    BY <2>1 DEF Decide, read_pru_time, Due
  <2>3. MULT * (ticks - adjTick) <= SYNC_PERIOD_NS + 2 * (MULT * (COUNTER - 1))
    BY <2>2, DecisionIs DEF ClockInv
  <2>4. 2 * (MULT * (COUNTER - 1)) = 2 * MULT * (COUNTER - 1)
    BY ClockConstants
  <2>. QED  BY <2>3, <2>4
<1>. QED  BY <1>1, ClockInvariant, PTL DEF PruClockSpec, NeverLate
=============================================================================
