--------------------------- MODULE TimeSyncProofs ---------------------------
(* The safety of the time synchronisation program, for every number of     *)
(* rounds, every spacing of synchronisations and any number of failing     *)
(* reads.                                                                  *)
EXTENDS TimeSync, SequenceTheorems, TLAPS

TypeOK ==
  /\ pru \in {"round", "await", "send", "trigger", "halted"}
  /\ i \in 0 .. ROUNDS /\ pulses \in Nat /\ pulses <= ROUNDS - i
  /\ used \in Seq(Nat) /\ edges \in Seq(Nat) /\ ptp \in Seq(Nat)
  /\ toPru \in Seq(Nat) /\ toHost \in Seq(Int) /\ printed \in Seq(Int)
  /\ recv \in {"test", "wait", "clear", "drain", "done"}
  /\ send \in {"test", "read", "write", "done"}
  /\ nano_ts \in Nat /\ errors \in Nat

(* The queue holds the items that follow the first b, each one of those    *)
(* that may have its number.                                               *)
Follows(q, b, May) == \A k \in 1 .. Len(q) : q[k] \in May[b + k]

(* The messages are the rounds, counted down, first those that are printed *)
(* and then those in the ring.                                             *)
Times == [k \in Nat |-> {ROUNDS - k}]
MessagesInv ==
  /\ Follows(printed, 0, Times) /\ Follows(toHost, Len(printed), Times)
  /\ Len(printed) + Len(toHost) = (ROUNDS - i) - (IF pru \in {"await", "send"} THEN 1 ELSE 0)

(* The pulses whose time the sender has read, and those on the way to it,  *)
(* in order.                                                               *)
Taken == pulses - Len(edges) - Len(ptp)
Numbers == [k \in Nat |-> {k}]
PulsesInv ==
  /\ Taken \in Nat
  /\ Follows(ptp, Taken, Numbers) /\ Follows(edges, Taken + Len(ptp), Numbers)

(* The T2s that may be used for a pulse.  The ring has room for the T2 of  *)
(* every pulse; it drops one only when failing reads have filled it.       *)
Fits == [k \in Nat |-> ((k - errors) .. k)
                         \cup (IF errors > 0 THEN {ReadError} ELSE {})]
Sent == Len(used) + Len(toPru)
Stream == Sent + (IF send = "write" THEN 1 ELSE 0)
AnswersInv ==
  /\ Follows(used, 0, Fits) /\ Follows(toPru, Len(used), Fits)
  /\ send = "write" => nano_ts \in Fits[Sent + 1]
  /\ Stream <= Taken + errors
  /\ Stream = Taken + errors \/ Sent >= ROUNDS

IInv == TypeOK /\ MessagesInv /\ PulsesInv /\ AnswersInv

-----------------------------------------------------------------------------
(* A queue: what a put adds and what a take removes.                       *)
LEMMA PutLast ==
  ASSUME NEW S, NEW q \in Seq(S), NEW e \in S
  PROVE  /\ Append(q, e) \in Seq(S) /\ Len(q) \in Nat /\ Len(Append(q, e)) = Len(q) + 1
         /\ \A k \in 1 .. Len(q) : Append(q, e)[k] = q[k]
         /\ Append(q, e)[Len(q) + 1] = e
  BY AppendProperties, LenProperties

LEMMA TakeFirst ==
  ASSUME NEW S, NEW q \in Seq(S), q # << >>
  PROVE  /\ Tail(q) \in Seq(S) /\ Len(q) \in Nat \ {0} /\ Len(Tail(q)) = Len(q) - 1
         /\ \A k \in 1 .. Len(q) - 1 : Tail(q)[k] = q[k + 1]
         /\ Head(q) = q[1] /\ Head(q) \in S
  BY HeadTailProperties, LenProperties, EmptySeq

LEMMA PutFollows ==
  ASSUME NEW S, NEW q \in Seq(S), NEW e \in S, NEW b \in Nat, NEW May,
         Follows(q, b, May), e \in May[b + Len(q) + 1]
  PROVE  Follows(Append(q, e), b, May)
<1>. DEFINE p == Append(q, e)
<1>1. /\ Len(q) \in Nat /\ Len(p) = Len(q) + 1 /\ p[Len(q) + 1] = e
      /\ \A k \in 1 .. Len(q) : p[k] = q[k]
  BY PutLast
<1>. HIDE DEF p
<1>. SUFFICES ASSUME NEW k \in 1 .. Len(p) PROVE p[k] \in May[b + k]
  BY DEF Follows, p
<1>2. CASE k = Len(q) + 1
  <2>1. b + k = b + Len(q) + 1
    BY <1>1, <1>2
  <2>. QED  BY <1>1, <1>2, <2>1
<1>3. CASE k \in 1 .. Len(q)
  BY <1>1, <1>3 DEF Follows
<1>. QED  BY <1>1, <1>2, <1>3

LEMMA TakeFollows ==
  ASSUME NEW S, NEW q \in Seq(S), q # << >>, NEW b \in Nat, NEW May, Follows(q, b, May)
  PROVE  Head(q) \in May[b + 1] /\ Follows(Tail(q), b + 1, May)
<1>. DEFINE p == Tail(q)
<1>1. /\ Len(q) \in Nat \ {0} /\ Len(p) = Len(q) - 1 /\ Head(q) = q[1]
      /\ \A k \in 1 .. Len(q) - 1 : p[k] = q[k + 1]
  BY TakeFirst
<1>. HIDE DEF p
<1>2. Head(q) \in May[b + 1]
  <2>1. 1 \in 1 .. Len(q)
    BY <1>1
  <2>. QED  BY <1>1, <2>1 DEF Follows
<1>3. ASSUME NEW k \in 1 .. Len(p) PROVE p[k] \in May[b + 1 + k]
  <2>1. k \in 1 .. Len(q) - 1 /\ k + 1 \in 1 .. Len(q) /\ b + 1 + k = b + (k + 1)
    BY <1>1
  <2>2. p[k] = q[k + 1] /\ q[k + 1] \in May[b + (k + 1)]
    BY <1>1, <2>1 DEF Follows
  <2>. QED  BY <2>1, <2>2
<1>. QED  BY <1>2, <1>3 DEF Follows, p

LEMMA NoneFollows == ASSUME NEW b, NEW May PROVE Follows(<< >>, b, May)
<1>1. Len(<< >>) = 0
  BY EmptySeq
<1>2. 1 .. Len(<< >>) = {}
  BY <1>1
<1>. QED  BY <1>2 DEF Follows

(* What the type invariant says in arithmetic.                             *)
LEMMA Lengths ==
  ASSUME TypeOK
  PROVE  /\ Len(used) \in Nat /\ Len(edges) \in Nat /\ Len(ptp) \in Nat
         /\ Len(toPru) \in Nat /\ Len(toHost) \in Nat /\ Len(printed) \in Nat
         /\ i \in Nat /\ i <= ROUNDS /\ ROUNDS \in Nat /\ ROUNDS <= Capacity /\ Capacity \in Nat
         /\ pulses \in Nat /\ pulses <= ROUNDS - i /\ errors \in Nat
  BY LenProperties, RoundAssumption DEF TypeOK

LEMMA InvInit == Init => IInv
<1>. SUFFICES ASSUME Init PROVE IInv
  OBVIOUS
<1>0. Len(<< >>) = 0 /\ ROUNDS \in Nat
  BY EmptySeq, RoundAssumption
<1>1. TypeOK
  BY RoundAssumption, EmptySeq DEF Init, TypeOK, ReadError
<1>2. MessagesInv
  <2>1. Follows(printed, 0, Times) /\ Follows(toHost, Len(printed), Times)
    BY NoneFollows DEF Init
  <2>2. Len(printed) = 0 /\ Len(toHost) = 0 /\ i = ROUNDS /\ pru = "round"
    BY <1>0 DEF Init
  <2>3. Len(printed) + Len(toHost) = ROUNDS - i /\ pru \notin {"await", "send"}
    BY <1>0, <2>2
  <2>4. (ROUNDS - i) - 0 = ROUNDS - i
    BY <1>0, <2>2
  <2>. QED  BY <2>1, <2>3, <2>4 DEF MessagesInv
<1>3. Len(used) = 0 /\ Len(edges) = 0 /\ Len(ptp) = 0 /\ Len(toPru) = 0
      /\ pulses = 0 /\ errors = 0 /\ send = "test"
  BY <1>0 DEF Init
<1>4. PulsesInv
  <2>1. Follows(ptp, Taken, Numbers) /\ Follows(edges, Taken + Len(ptp), Numbers)
    BY NoneFollows DEF Init
  <2>2. Taken \in Nat
    BY <1>3 DEF Taken
  <2>. QED  BY <2>1, <2>2 DEF PulsesInv
<1>5. AnswersInv
  <2>1. Follows(used, 0, Fits) /\ Follows(toPru, Len(used), Fits)
    BY NoneFollows DEF Init
  <2>. QED  BY <1>3, <2>1 DEF AnswersInv, Taken, Sent, Stream
<1>. QED  BY <1>1, <1>2, <1>4, <1>5 DEF IInv

LEMMA TypeNext == IInv /\ [Next]_vars => TypeOK'
<1>. SUFFICES ASSUME IInv, [Next]_vars PROVE TypeOK'
  OBVIOUS
<1>. USE DEF IInv
<1>. USE RoundAssumption DEF TypeOK, firmware, sender, receiver, hostIdle, Put, ReadError
<1>1. CASE NextRound
  <2>1. i' = i - 1 /\ i > 0
    BY <1>1 DEF NextRound
  <2>2. CASE i' % SYNC_EVERY = 0
    <3>1. pulses' = pulses + 1 /\ edges' = Append(edges, pulses')
      BY <1>1, <2>2 DEF NextRound
    <3>2. edges' \in Seq(Nat)
      BY <3>1, PutLast
    <3>. QED  BY <1>1, <2>1, <2>2, <3>1, <3>2 DEF NextRound
  <2>3. CASE i' % SYNC_EVERY # 0
    BY <1>1, <2>1, <2>3 DEF NextRound
  <2>. QED  BY <2>2, <2>3
<1>2. CASE Adjust
  <2>1. Head(toPru) \in Nat /\ Tail(toPru) \in Seq(Nat)
    BY <1>2, TakeFirst DEF Adjust
  <2>2. Append(used, Head(toPru)) \in Seq(Nat)
    BY <2>1, PutLast
  <2>. QED  BY <1>2, <2>1, <2>2 DEF Adjust
<1>3. CASE SendTime
  <2>1. Append(toHost, i) \in Seq(Int)
    BY PutLast
  <2>. QED  BY <1>3, <2>1 DEF SendTime
<1>4. CASE Trigger
  BY <1>4 DEF Trigger
<1>5. CASE terminate
  BY <1>5 DEF terminate
<1>6. CASE Capture
  <2>1. Head(edges) \in Nat /\ Tail(edges) \in Seq(Nat)
    BY <1>6, TakeFirst DEF Capture
  <2>2. Append(ptp, Head(edges)) \in Seq(Nat)
    BY <2>1, PutLast
  <2>. QED  BY <1>6, <2>1, <2>2 DEF Capture
<1>7. CASE RecvTest \/ RecvWait \/ RecvClear
  BY <1>7 DEF RecvTest, RecvWait, RecvClear
<1>14. CASE RecvDrain
  <2>1. CASE toHost = << >>
    BY <1>14, <2>1 DEF RecvDrain
  <2>2. CASE toHost # << >>
    <3>1. Head(toHost) \in Int /\ Tail(toHost) \in Seq(Int)
      BY <2>2, TakeFirst
    <3>2. Append(printed, Head(toHost)) \in Seq(Int)
      BY <3>1, PutLast
    <3>. QED  BY <1>14, <2>2, <3>1, <3>2 DEF RecvDrain
  <2>. QED  BY <2>1, <2>2
<1>8. CASE SendTest
  BY <1>8 DEF SendTest
<1>9. CASE SendRead
  <2>1. Head(ptp) \in Nat /\ Tail(ptp) \in Seq(Nat)
    BY <1>9, TakeFirst DEF SendRead
  <2>. QED  BY <1>9, <2>1 DEF SendRead
<1>10. CASE SendReadFails
  BY <1>10 DEF SendReadFails
<1>11. CASE SendWrite
  <2>1. Append(toPru, nano_ts) \in Seq(Nat)
    BY PutLast
  <2>. QED  BY <1>11, <2>1 DEF SendWrite
<1>12. CASE Main
  BY <1>12 DEF Main, MainStop, MainExit
<1>13. CASE UNCHANGED vars
  BY <1>13 DEF vars
<1>. QED  BY <1>1, <1>2, <1>3, <1>4, <1>5, <1>6, <1>7, <1>8, <1>9, <1>10, <1>11, <1>12, <1>13, <1>14
          DEF Next, Pru, ReceiveThread, SendThread

LEMMA MessagesNext == IInv /\ [Next]_vars => MessagesInv'
<1>. SUFFICES ASSUME IInv, [Next]_vars PROVE MessagesInv'
  OBVIOUS
<1>. USE DEF MessagesInv, firmware, sender, receiver, hostIdle
<1>0. TypeOK /\ MessagesInv /\ PulsesInv /\ AnswersInv
  BY DEF IInv
<1>l. /\ Len(used) \in Nat /\ Len(edges) \in Nat /\ Len(ptp) \in Nat
      /\ Len(toPru) \in Nat /\ Len(toHost) \in Nat /\ Len(printed) \in Nat
      /\ i \in Nat /\ i <= ROUNDS /\ ROUNDS \in Nat /\ ROUNDS <= Capacity /\ Capacity \in Nat
      /\ pulses \in Nat /\ pulses <= ROUNDS - i /\ errors \in Nat
  BY <1>0, Lengths
<1>t. /\ used \in Seq(Nat) /\ edges \in Seq(Nat) /\ ptp \in Seq(Nat) /\ toPru \in Seq(Nat)
      /\ toHost \in Seq(Int) /\ printed \in Seq(Int) /\ nano_ts \in Nat /\ i \in Int
  BY <1>0 DEF TypeOK
<1>1. CASE NextRound
  <2>1. i' = i - 1 /\ i > 0 /\ pru = "round" /\ UNCHANGED <<toHost, printed>>
    BY <1>1 DEF NextRound
  <2>2. pru' \in {"await", "send"}
    BY <1>1 DEF NextRound
  <2>. QED  BY <1>0, <1>l, <2>1, <2>2 DEF Times
<1>2. CASE Adjust
  BY <1>0, <1>2 DEF Adjust, Times
<1>3. CASE SendTime
  <2>1. Len(toHost) < Capacity /\ pru = "send"
    BY <1>0, <1>3, <1>l DEF SendTime
  <2>2. toHost' = Append(toHost, i) /\ UNCHANGED <<printed, i>> /\ pru' = "trigger"
    BY <1>3, <2>1 DEF SendTime, Put
  <2>3. i \in Times[Len(printed) + Len(toHost) + 1]
    BY <1>0, <1>l, <2>1 DEF Times
  <2>4. Follows(toHost', Len(printed), Times)
    BY <1>0, <1>l, <1>t, <2>2, <2>3, PutFollows
  <2>5. Len(toHost') = Len(toHost) + 1
    BY <1>t, <2>2, PutLast
  <2>. QED  BY <1>0, <1>l, <2>1, <2>2, <2>4, <2>5 DEF Times
<1>4. CASE Trigger
  BY <1>0, <1>4 DEF Trigger, Times
<1>5. CASE terminate
  BY <1>0, <1>5 DEF terminate, Times
<1>6. CASE Capture
  BY <1>0, <1>6 DEF Capture, Times
<1>7. CASE RecvTest \/ RecvWait \/ RecvClear
  BY <1>0, <1>7 DEF RecvTest, RecvWait, RecvClear, Times
<1>8. CASE RecvDrain
  <2>1. UNCHANGED <<i, pru>>
    BY <1>8 DEF RecvDrain
  <2>2. CASE toHost = << >>
    BY <1>0, <1>8, <2>1, <2>2 DEF RecvDrain, Times
  <2>3. CASE toHost # << >>
    <3>1. printed' = Append(printed, Head(toHost)) /\ toHost' = Tail(toHost)
      BY <1>8, <2>3 DEF RecvDrain
    <3>2. Head(toHost) \in Times[Len(printed) + 1] /\ Follows(toHost', Len(printed) + 1, Times)
      BY <1>0, <1>l, <1>t, <2>3, <3>1, TakeFollows
    <3>3. Head(toHost) \in Int /\ Len(toHost') = Len(toHost) - 1
      BY <1>t, <2>3, <3>1, TakeFirst
    <3>4. Len(printed') = Len(printed) + 1
      BY <1>t, <3>1, <3>3, PutLast
    <3>5. Follows(printed', 0, Times)
      <4>1. 0 + Len(printed) + 1 = Len(printed) + 1
        BY <1>l
      <4>. QED  BY <1>0, <1>t, <3>1, <3>2, <3>3, <4>1, PutFollows
    <3>. QED  BY <1>0, <1>l, <2>1, <3>2, <3>3, <3>4, <3>5 DEF Times
  <2>. QED  BY <2>2, <2>3
<1>9. CASE SendThread \/ SendReadFails \/ Main
  BY <1>0, <1>9 DEF SendThread, SendTest, SendRead, SendWrite, SendReadFails, Main, MainStop,
              MainExit, Times
<1>10. CASE UNCHANGED vars
  BY <1>0, <1>10 DEF vars, Times
<1>. QED  BY <1>1, <1>2, <1>3, <1>4, <1>5, <1>6, <1>7, <1>8, <1>9, <1>10
          DEF Next, Pru, ReceiveThread

LEMMA PulsesNext == IInv /\ [Next]_vars => PulsesInv'
<1>. SUFFICES ASSUME IInv, [Next]_vars PROVE PulsesInv'
  OBVIOUS
<1>. USE DEF PulsesInv, Taken, firmware, sender, receiver, hostIdle
<1>0. TypeOK /\ MessagesInv /\ PulsesInv /\ AnswersInv
  BY DEF IInv
<1>l. /\ Len(used) \in Nat /\ Len(edges) \in Nat /\ Len(ptp) \in Nat
      /\ Len(toPru) \in Nat /\ Len(toHost) \in Nat /\ Len(printed) \in Nat
      /\ i \in Nat /\ i <= ROUNDS /\ ROUNDS \in Nat /\ ROUNDS <= Capacity /\ Capacity \in Nat
      /\ pulses \in Nat /\ pulses <= ROUNDS - i /\ errors \in Nat
  BY <1>0, Lengths
<1>t. /\ used \in Seq(Nat) /\ edges \in Seq(Nat) /\ ptp \in Seq(Nat) /\ toPru \in Seq(Nat)
      /\ toHost \in Seq(Int) /\ printed \in Seq(Int) /\ nano_ts \in Nat /\ i \in Int
  BY <1>0 DEF TypeOK
<1>1. CASE NextRound
  <2>1. UNCHANGED ptp
    BY <1>1 DEF NextRound
  <2>2. CASE i' % SYNC_EVERY = 0
    <3>1. pulses' = pulses + 1 /\ edges' = Append(edges, pulses + 1)
      BY <1>1, <2>2 DEF NextRound
    <3>2. Len(edges') = Len(edges) + 1
      BY <1>l, <1>t, <3>1, PutLast
    <3>3. pulses + 1 \in Numbers[Taken + Len(ptp) + Len(edges) + 1]
      BY <1>0, <1>l DEF Numbers
    <3>4. Follows(edges', Taken + Len(ptp), Numbers)
      <4>. DEFINE b == Taken + Len(ptp)
      <4>1. b \in Nat /\ Follows(edges, b, Numbers) /\ pulses + 1 \in Numbers[b + Len(edges) + 1]
            /\ pulses + 1 \in Nat
        BY <1>0, <1>l, <3>3
      <4>. HIDE DEF b
      <4>2. Follows(Append(edges, pulses + 1), b, Numbers)
        BY <1>t, <4>1, PutFollows
      <4>. QED  BY <3>1, <4>2 DEF b
    <3>5. Taken' = Taken
      BY <1>0, <1>l, <2>1, <3>1, <3>2
    <3>. QED  BY <1>0, <2>1, <3>4, <3>5 DEF Numbers
  <2>3. CASE i' % SYNC_EVERY # 0
    BY <1>0, <1>1, <2>1, <2>3 DEF NextRound, Numbers
  <2>. QED  BY <2>2, <2>3
<1>2. CASE Adjust \/ SendTime \/ Trigger \/ terminate
  BY <1>0, <1>2 DEF Adjust, SendTime, Trigger, terminate, Numbers
<1>3. CASE Capture
  <2>1. /\ ptp' = Append(ptp, Head(edges)) /\ edges' = Tail(edges) /\ edges # << >>
        /\ UNCHANGED pulses
    BY <1>3 DEF Capture
  <2>2. Head(edges) \in Numbers[Taken + Len(ptp) + 1]
        /\ Follows(edges', Taken + Len(ptp) + 1, Numbers)
    <3>. DEFINE b == Taken + Len(ptp)
    <3>1. b \in Nat /\ Follows(edges, b, Numbers)
      BY <1>0, <1>l
    <3>. HIDE DEF b
    <3>2. Head(edges) \in Numbers[b + 1] /\ Follows(edges', b + 1, Numbers)
      BY <1>t, <2>1, <3>1, TakeFollows
    <3>. QED  BY <3>2 DEF b
  <2>3. Head(edges) \in Nat /\ Len(edges') = Len(edges) - 1
    BY <1>t, <2>1, TakeFirst
  <2>4. Len(ptp') = Len(ptp) + 1
    BY <1>t, <2>1, <2>3, PutLast
  <2>5. Follows(ptp', Taken, Numbers)
    BY <1>0, <1>t, <2>1, <2>2, <2>3, PutFollows
  <2>6. Taken' = Taken /\ Taken + Len(ptp') = Taken + Len(ptp) + 1
    BY <1>0, <1>l, <2>1, <2>3, <2>4
  <2>. QED  BY <1>0, <2>2, <2>5, <2>6 DEF Numbers
<1>4. CASE SendRead
  <2>1. ptp' = Tail(ptp) /\ ptp # << >> /\ UNCHANGED <<pulses, edges>>
    BY <1>4 DEF SendRead
  <2>2. Follows(ptp', Taken + 1, Numbers)
    BY <1>0, <1>l, <1>t, <2>1, TakeFollows
  <2>3. Len(ptp') = Len(ptp) - 1
    BY <1>t, <2>1, TakeFirst
  <2>4. Taken' = Taken + 1 /\ Taken + 1 + Len(ptp') = Taken + Len(ptp)
    BY <1>0, <1>l, <2>1, <2>3
  <2>. QED  BY <1>0, <2>1, <2>2, <2>4 DEF Numbers
<1>5. CASE ReceiveThread \/ SendTest \/ SendWrite \/ SendReadFails \/ Main
  BY <1>0, <1>5 DEF ReceiveThread, RecvTest, RecvWait, RecvClear, RecvDrain, SendTest,
              SendWrite, SendReadFails, Main, MainStop, MainExit, Numbers
<1>6. CASE UNCHANGED vars
  BY <1>0, <1>6 DEF vars, Numbers
<1>. QED  BY <1>1, <1>2, <1>3, <1>4, <1>5, <1>6 DEF Next, Pru, SendThread

LEMMA AnswersNext == IInv /\ [Next]_vars => AnswersInv'
<1>. SUFFICES ASSUME IInv, [Next]_vars PROVE AnswersInv'
  OBVIOUS
<1>. USE DEF AnswersInv, Stream, Sent, Taken, firmware, sender, receiver, hostIdle
<1>0. TypeOK /\ MessagesInv /\ PulsesInv /\ AnswersInv
  BY DEF IInv
<1>l. /\ Len(used) \in Nat /\ Len(edges) \in Nat /\ Len(ptp) \in Nat
      /\ Len(toPru) \in Nat /\ Len(toHost) \in Nat /\ Len(printed) \in Nat
      /\ i \in Nat /\ i <= ROUNDS /\ ROUNDS \in Nat /\ ROUNDS <= Capacity /\ Capacity \in Nat
      /\ pulses \in Nat /\ pulses <= ROUNDS - i /\ errors \in Nat
  BY <1>0, Lengths
<1>t. /\ used \in Seq(Nat) /\ edges \in Seq(Nat) /\ ptp \in Seq(Nat) /\ toPru \in Seq(Nat)
      /\ toHost \in Seq(Int) /\ printed \in Seq(Int) /\ nano_ts \in Nat /\ i \in Int
  BY <1>0 DEF TypeOK
<1>f. UNCHANGED errors => Fits' = Fits
  BY DEF Fits
<1>1. CASE NextRound
  <2>1. UNCHANGED <<ptp, used, toPru, send, nano_ts, errors>>
    BY <1>1 DEF NextRound
  <2>2. Taken' = Taken
    <3>1. CASE i' % SYNC_EVERY = 0
      <4>1. pulses' = pulses + 1 /\ edges' = Append(edges, pulses + 1)
        BY <1>1, <3>1 DEF NextRound
      <4>2. Len(edges') = Len(edges) + 1
        BY <1>l, <1>t, <4>1, PutLast
      <4>. QED  BY <1>l, <2>1, <4>1, <4>2
    <3>2. CASE i' % SYNC_EVERY # 0
      BY <1>1, <2>1, <3>2 DEF NextRound
    <3>. QED  BY <3>1, <3>2
  <2>. QED  BY <1>0, <1>f, <2>1, <2>2
<1>2. CASE Adjust
  <2>1. /\ used' = Append(used, Head(toPru)) /\ toPru' = Tail(toPru) /\ toPru # << >>
        /\ UNCHANGED <<pulses, edges, ptp, send, nano_ts, errors>>
    BY <1>2 DEF Adjust
  <2>2. Head(toPru) \in Fits[Len(used) + 1] /\ Follows(toPru', Len(used) + 1, Fits)
    BY <1>0, <1>l, <1>t, <2>1, TakeFollows
  <2>3. Head(toPru) \in Nat /\ Len(toPru') = Len(toPru) - 1
    BY <1>t, <2>1, TakeFirst
  <2>4. Len(used') = Len(used) + 1
    BY <1>t, <2>1, <2>3, PutLast
  <2>5. Follows(used', 0, Fits)
    <3>1. 0 + Len(used) + 1 = Len(used) + 1
      BY <1>l
    <3>. QED  BY <1>0, <1>t, <2>1, <2>2, <2>3, <3>1, PutFollows
  <2>6. Sent' = Sent
    BY <1>l, <2>3, <2>4
  <2>. QED  BY <1>0, <1>f, <2>1, <2>2, <2>4, <2>5, <2>6
<1>3. CASE SendTime \/ Trigger \/ terminate
  BY <1>0, <1>f, <1>3 DEF SendTime, Trigger, terminate
<1>4. CASE Capture
  <2>1. /\ ptp' = Append(ptp, Head(edges)) /\ edges' = Tail(edges) /\ edges # << >>
        /\ UNCHANGED <<pulses, used, toPru, send, nano_ts, errors>>
    BY <1>4 DEF Capture
  <2>2. Head(edges) \in Nat /\ Len(edges') = Len(edges) - 1
    BY <1>t, <2>1, TakeFirst
  <2>3. Len(ptp') = Len(ptp) + 1
    BY <1>t, <2>1, <2>2, PutLast
  <2>4. Taken' = Taken
    BY <1>l, <2>1, <2>2, <2>3
  <2>. QED  BY <1>0, <1>f, <2>1, <2>4
<1>5. CASE SendRead
  <2>1. /\ nano_ts' = Head(ptp) /\ ptp' = Tail(ptp) /\ ptp # << >>
        /\ send = "read" /\ send' = "write"
        /\ UNCHANGED <<used, toPru, pulses, edges, errors>>
    BY <1>5 DEF SendRead
  <2>2. Len(ptp) \in Nat \ {0} /\ Len(ptp') = Len(ptp) - 1
    BY <1>t, <2>1, TakeFirst
  <2>3. Taken \in Nat /\ Taken + 1 <= ROUNDS
    BY <1>0, <1>l, <2>2 DEF PulsesInv
  <2>4. nano_ts' = Taken + 1
    <3>. HIDE DEF Taken
    <3>1. Follows(ptp, Taken, Numbers)
      BY <1>0 DEF PulsesInv
    <3>2. Head(ptp) \in Numbers[Taken + 1]
      BY <1>t, <2>1, <2>3, <3>1, TakeFollows
    <3>. QED  BY <2>1, <2>3, <3>2 DEF Numbers
  <2>5. Sent <= Taken + errors /\ (Sent = Taken + errors \/ Sent >= ROUNDS)
    BY <1>0, <1>l, <2>1, <2>3
  <2>6. nano_ts' \in Fits[Sent + 1]
    <3>. HIDE DEF AnswersInv
    <3>. DEFINE n == Sent + 1
                t == Taken + 1
    <3>1. n \in Nat /\ t \in Nat /\ errors \in Nat /\ n - errors <= t
      BY <1>l, <2>3, <2>5
    <3>2. t <= n
      BY <1>l, <2>3, <2>5
    <3>. HIDE DEF n, t
    <3>3. t \in Fits[n]
      BY <3>1, <3>2 DEF Fits
    <3>. QED  BY <2>4, <3>3 DEF n, t
  <2>. QED  BY <1>0, <1>f, <1>l, <2>1, <2>2, <2>6
<1>6. CASE SendReadFails
  <2>1. /\ nano_ts' = ReadError /\ errors' = errors + 1
        /\ send = "read" /\ send' = "write"
        /\ UNCHANGED <<used, toPru, pulses, edges, ptp>>
    BY <1>6 DEF SendReadFails
  <2>2. \A k \in Nat : Fits[k] \subseteq Fits'[k]
    BY <1>l, <2>1 DEF Fits, ReadError
  <2>3. Follows(used, 0, Fits') /\ Follows(toPru, Len(used), Fits')
    <3>1. ASSUME NEW k \in 1 .. Len(used) PROVE used[k] \in Fits'[0 + k]
      <4>1. used[k] \in Fits[0 + k] /\ 0 + k \in Nat
        BY <1>0, <1>l DEF Follows
      <4>. QED  BY <2>2, <4>1
    <3>2. ASSUME NEW k \in 1 .. Len(toPru) PROVE toPru[k] \in Fits'[Len(used) + k]
      <4>1. toPru[k] \in Fits[Len(used) + k] /\ Len(used) + k \in Nat
        BY <1>0, <1>l DEF Follows
      <4>. QED  BY <2>2, <4>1
    <3>. QED  BY <3>1, <3>2 DEF Follows
  <2>4. ReadError \in Fits'[Sent + 1]
    BY <1>l, <2>1 DEF Fits
  <2>. QED  BY <1>0, <1>l, <2>1, <2>3, <2>4
<1>7. CASE SendWrite
  <2>1. /\ toPru' = Put(toPru, nano_ts) /\ send = "write" /\ send' = "test"
        /\ UNCHANGED <<used, pulses, edges, ptp, nano_ts, errors>>
    BY <1>7 DEF SendWrite
  <2>2. CASE Len(toPru) < Capacity
    <3>1. toPru' = Append(toPru, nano_ts)
      BY <2>1, <2>2 DEF Put
    <3>2. Len(toPru') = Len(toPru) + 1
      BY <1>t, <3>1, PutLast
    <3>3. Follows(toPru', Len(used), Fits)
      BY <1>0, <1>l, <1>t, <2>1, <3>1, PutFollows
    <3>. QED  BY <1>0, <1>f, <1>l, <2>1, <3>2, <3>3
  <2>3. CASE ~(Len(toPru) < Capacity)
    <3>1. UNCHANGED toPru
      BY <2>1, <2>3 DEF Put
    <3>2. Sent >= ROUNDS
      BY <1>l, <2>3
    <3>. QED  BY <1>0, <1>f, <1>l, <2>1, <3>1, <3>2 DEF PulsesInv
  <2>. QED  BY <2>2, <2>3
<1>8. CASE SendTest
  BY <1>0, <1>f, <1>8 DEF SendTest
<1>9. CASE ReceiveThread \/ Main
  BY <1>0, <1>f, <1>9 DEF ReceiveThread, RecvTest, RecvWait, RecvClear, RecvDrain, Main,
              MainStop, MainExit
<1>10. CASE UNCHANGED vars
  BY <1>0, <1>f, <1>10 DEF vars
<1>. QED  BY <1>1, <1>2, <1>3, <1>4, <1>5, <1>6, <1>7, <1>8, <1>9, <1>10
          DEF Next, Pru, SendThread

LEMMA Invariant == Spec => []IInv
<1>1. IInv /\ [Next]_vars => IInv'
  BY TypeNext, MessagesNext, PulsesNext, AnswersNext DEF IInv
<1>. QED  BY InvInit, <1>1, PTL DEF Spec

-----------------------------------------------------------------------------
(* However the firmware's store and its interrupt, the clear and the drain *)
(* of the receive thread interleave, the thread never sleeps on a message. *)
THEOREM NeverAsleep == Spec => []NoLostWakeup
<1>1. Init => NoLostWakeup
  BY DEF Init, NoLostWakeup
<1>2. NoLostWakeup /\ [Next]_vars => NoLostWakeup'
  <2>. SUFFICES ASSUME NoLostWakeup, [Next]_vars PROVE NoLostWakeup'
    OBVIOUS
  <2>. USE DEF NoLostWakeup, firmware, sender, receiver, hostIdle
  <2>1. CASE Pru
    BY <2>1 DEF Pru, NextRound, Adjust, SendTime, Trigger, terminate
  <2>2. CASE ReceiveThread
    BY <2>2 DEF ReceiveThread, RecvTest, RecvWait, RecvClear, RecvDrain
  <2>3. CASE Capture \/ SendThread \/ SendReadFails \/ Main
    BY <2>3 DEF Capture, SendThread, SendTest, SendRead, SendWrite, SendReadFails, Main,
                MainStop, MainExit
  <2>4. CASE UNCHANGED vars
    BY <2>4 DEF vars
  <2>. QED  BY <2>1, <2>2, <2>3, <2>4 DEF Next
<1>. QED  BY <1>1, <1>2, PTL DEF Spec

(* Every time the PRU has sent is printed or in the ring, once and in      *)
(* order, for every number of rounds the ring has room for.                *)
THEOREM MessagesArrive == Spec => []NoMessageLost
<1>1. IInv => NoMessageLost
  <2>. SUFFICES ASSUME IInv PROVE NoMessageLost
    OBVIOUS
  <2>0. /\ TypeOK /\ MessagesInv /\ printed \in Seq(Int) /\ toHost \in Seq(Int)
        /\ Len(printed) \in Nat /\ Len(toHost) \in Nat /\ ROUNDS \in Nat
    BY Lengths DEF IInv, TypeOK
  <2>. DEFINE s == printed \o toHost
              n == Len(printed) + Len(toHost)
  <2>1. /\ s \in Seq(Int) /\ Len(s) = n /\ n \in Nat
        /\ \A k \in 1 .. n : s[k] = IF k <= Len(printed) THEN printed[k]
                                   ELSE toHost[k - Len(printed)]
    BY <2>0, ConcatProperties
  <2>2. s = [k \in 1 .. n |-> s[k]]
    BY <2>1, LenProperties
  <2>. HIDE DEF s, n
  <2>3. ASSUME NEW k \in 1 .. n PROVE s[k] = ROUNDS - k
    <3>1. CASE k <= Len(printed)
      <4>1. s[k] = printed[k]
        BY <2>1, <3>1
      <4>2. k \in 1 .. Len(printed) /\ 0 + k = k /\ k \in Nat
        BY <2>0, <2>1, <3>1
      <4>3. printed[k] \in Times[0 + k]
        BY <2>0, <4>2 DEF MessagesInv, Follows
      <4>. QED  BY <4>1, <4>2, <4>3 DEF Times
    <3>2. CASE ~(k <= Len(printed))
      <4>. DEFINE j == k - Len(printed)
      <4>1. j \in 1 .. Len(toHost) /\ Len(printed) + j = k /\ k \in Nat /\ s[k] = toHost[j]
        BY <2>0, <2>1, <3>2 DEF n
      <4>. HIDE DEF j
      <4>2. toHost[j] \in Times[Len(printed) + j]
        BY <2>0, <4>1 DEF MessagesInv, Follows
      <4>. QED  BY <4>1, <4>2 DEF Times
    <3>. QED  BY <3>1, <3>2
  <2>4. s = [k \in 1 .. n |-> ROUNDS - k]
    BY <2>2, <2>3
  <2>. QED  BY <2>0, <2>4 DEF NoMessageLost, MessagesInv, s, n
<1>. QED  BY <1>1, Invariant, PTL

(* A T2 is never of a later pulse and lags by no more than the reads that  *)
(* failed: with none, each pulse gets its own, however late the host is    *)
(* and even if failing reads fill the ring.                                *)
THEOREM AnswersFit == Spec => []LagIsErrors
<1>1. IInv => LagIsErrors
  <2>. SUFFICES ASSUME IInv, NEW k \in DOMAIN used
                PROVE  used[k] \in (k - errors) .. k \/ (errors > 0 /\ used[k] = ReadError)
    BY DEF LagIsErrors
  <2>1. k \in 1 .. Len(used) /\ 0 + k = k /\ k \in Nat
    BY LenProperties DEF IInv, TypeOK
  <2>2. used[k] \in Fits[0 + k]
    BY <2>1 DEF IInv, AnswersInv, Follows
  <2>. QED  BY <2>1, <2>2 DEF Fits
<1>. QED  BY <1>1, Invariant, PTL
=============================================================================
