--------------------------- MODULE RBufferProofs ---------------------------
(* Theorems about the ring of RBuffer, for every ring size, and about its  *)
(* use for timestamps only (the specification of MCRBuffer).               *)
EXTENDS MCRBuffer, SequenceTheorems, TLAPS

-----------------------------------------------------------------------------
(* Index arithmetic.                                                       *)

LEMMA IdxLow == ASSUME NEW x \in Slot PROVE RBUF_IDX(x) = x
  BY SizeAssumption DEF Slot, RBUF_IDX

LEMMA IdxHigh ==
  ASSUME NEW x \in RBUF_SIZE .. 2 * RBUF_SIZE - 1 PROVE RBUF_IDX(x) = x - RBUF_SIZE
  BY SizeAssumption DEF RBUF_IDX

LEMMA IdxType == ASSUME NEW x \in Int PROVE RBUF_IDX(x) \in Slot
  BY SizeAssumption DEF Slot, RBUF_IDX

(* The slot k places after slot x.                                         *)
LEMMA IdxPlus ==
  ASSUME NEW x \in Slot, NEW k \in 0 .. RBUF_SIZE
  PROVE  RBUF_IDX(x + k) = IF x + k < RBUF_SIZE THEN x + k ELSE x + k - RBUF_SIZE
<1>1. CASE x + k < RBUF_SIZE
  <2>1. x + k \in Slot  BY <1>1, SizeAssumption DEF Slot
  <2>. QED  BY <2>1, <1>1, IdxLow
<1>2. CASE x + k >= RBUF_SIZE
  <2>1. x + k \in RBUF_SIZE .. 2 * RBUF_SIZE - 1  BY <1>2, SizeAssumption DEF Slot
  <2>. QED  BY <2>1, <1>2, IdxHigh, SizeAssumption DEF Slot
<1>. QED  BY <1>1, <1>2, SizeAssumption DEF Slot

LEMMA IdxSlot ==
  ASSUME NEW x \in Slot, NEW k \in {0, 1, 2}
  PROVE  RBUF_IDX(x + k) \in Slot
  BY IdxType, SizeAssumption DEF Slot

(* Going round in two goes is going round at once.                         *)
LEMMA IdxIdx ==
  ASSUME NEW x \in Slot, NEW j \in 0 .. RBUF_SIZE, NEW k \in 0 .. RBUF_SIZE,
         j + k <= RBUF_SIZE
  PROVE  RBUF_IDX(RBUF_IDX(x + j) + k) = RBUF_IDX(x + j + k)
<1>1. /\ j + k \in 0 .. RBUF_SIZE /\ RBUF_IDX(x + j) \in Slot
      /\ x + (j + k) = x + j + k
  BY IdxType, SizeAssumption DEF Slot
<1>2. RBUF_IDX(x + (j + k))
        = IF x + (j + k) < RBUF_SIZE THEN x + (j + k) ELSE x + (j + k) - RBUF_SIZE
  BY <1>1, IdxPlus
<1>3. RBUF_IDX(x + j + k) = RBUF_IDX(x + (j + k))
  BY <1>1
<1>4. RBUF_IDX(x + j) = IF x + j < RBUF_SIZE THEN x + j ELSE x + j - RBUF_SIZE
  BY IdxPlus
<1>5. RBUF_IDX(RBUF_IDX(x + j) + k)
        = IF RBUF_IDX(x + j) + k < RBUF_SIZE THEN RBUF_IDX(x + j) + k
                                              ELSE RBUF_IDX(x + j) + k - RBUF_SIZE
  BY <1>1, IdxPlus
<1>. QED  BY <1>2, <1>3, <1>4, <1>5, SizeAssumption DEF Slot

(* Different distances lead to different slots.                            *)
LEMMA IdxInjective ==
  ASSUME NEW x \in Slot, NEW j \in 1 .. RBUF_SIZE, NEW k \in 1 .. RBUF_SIZE,
         RBUF_IDX(x + j) = RBUF_IDX(x + k)
  PROVE  j = k
<1>1. RBUF_IDX(x + j) = IF x + j < RBUF_SIZE THEN x + j ELSE x + j - RBUF_SIZE
  BY IdxPlus
<1>2. RBUF_IDX(x + k) = IF x + k < RBUF_SIZE THEN x + k ELSE x + k - RBUF_SIZE
  BY IdxPlus
<1>. QED  BY <1>1, <1>2, SizeAssumption DEF Slot

(* The shapes of what a producer writes.                                   *)
LEMMA WritesShape ==
  ASSUME NEW ws \in Writes
  PROVE /\ Len(ws) \in {1, 2}
        /\ ws \in Seq(Word)
        /\ ws # << >>
        /\ ws[1] \in Word
        /\ Len(ws) = 2 => ws[2] \in Word
<1>1. PICK v \in Value, width \in WriteWidths : ws = WordsOf(v, width)
  BY DEF Writes
<1>2. <<v, "lower">> \in Word /\ <<v, "upper">> \in Word
  BY DEF Word
<1>3. CASE width = 1
  <2>1. ws = << <<v, "lower">> >>  BY <1>1, <1>3 DEF WordsOf
  <2>. QED  BY <2>1, <1>2
<1>4. CASE width # 1
  <2>1. ws = << <<v, "lower">>, <<v, "upper">> >>  BY <1>1, <1>4 DEF WordsOf
  <2>. QED  BY <2>1, <1>2
<1>. QED  BY <1>3, <1>4

-----------------------------------------------------------------------------
(* The words between the two indices.                                      *)

LEMMA BetweenFacts ==
  ASSUME NEW x \in Slot, NEW y \in Slot
  PROVE  /\ Between(x, y) \in 0 .. RBUF_SIZE - 1
         /\ y = x <=> Between(x, y) = RBUF_SIZE - 1
         /\ RBUF_IDX(x + (Between(x, y) + 1)) = y
<1>1. Between(x, y) \in 0 .. RBUF_SIZE - 1
  BY SizeAssumption DEF Between, Slot
<1>2. y = x <=> Between(x, y) = RBUF_SIZE - 1
  BY SizeAssumption DEF Between, Slot
<1>3. RBUF_IDX(x + (Between(x, y) + 1)) = y
  <2>1. Between(x, y) + 1 \in 0 .. RBUF_SIZE  BY <1>1, SizeAssumption
  <2>2. RBUF_IDX(x + (Between(x, y) + 1))
          = IF x + (Between(x, y) + 1) < RBUF_SIZE
              THEN x + (Between(x, y) + 1) ELSE x + (Between(x, y) + 1) - RBUF_SIZE
    BY <2>1, IdxPlus
  <2>. QED  BY <2>2, SizeAssumption DEF Between, Slot
<1>. QED  BY <1>1, <1>2, <1>3

(* The producer's index moving away makes words unread ...                 *)
LEMMA BetweenAdvanceTo ==
  ASSUME NEW x \in Slot, NEW y \in Slot, NEW k \in 0 .. RBUF_SIZE,
         Between(x, y) + k <= RBUF_SIZE - 1
  PROVE  Between(x, RBUF_IDX(y + k)) = Between(x, y) + k
<1>1. RBUF_IDX(y + k) = IF y + k < RBUF_SIZE THEN y + k ELSE y + k - RBUF_SIZE
  BY IdxPlus
<1>. QED  BY <1>1, SizeAssumption DEF Between, Slot

(* ... and the consumer's index moving up to it makes them read.           *)
LEMMA BetweenAdvanceFrom ==
  ASSUME NEW x \in Slot, NEW y \in Slot, NEW k \in 0 .. RBUF_SIZE,
         k <= Between(x, y)
  PROVE  Between(RBUF_IDX(x + k), y) = Between(x, y) - k
<1>1. RBUF_IDX(x + k) = IF x + k < RBUF_SIZE THEN x + k ELSE x + k - RBUF_SIZE
  BY IdxPlus
<1>. QED  BY <1>1, SizeAssumption DEF Between, Slot

(* A slot of the producer lies beyond the unread ones.                     *)
LEMMA BeyondUnread ==
  ASSUME NEW x \in Slot, NEW y \in Slot, NEW k \in 0 .. RBUF_SIZE,
         Between(x, y) + k <= RBUF_SIZE - 1
  PROVE  RBUF_IDX(y + k) = RBUF_IDX(x + (Between(x, y) + 1 + k))
<1>1. /\ Between(x, y) \in 0 .. RBUF_SIZE - 1
      /\ Between(x, y) + 1 \in 0 .. RBUF_SIZE
      /\ RBUF_IDX(x + (Between(x, y) + 1)) = y
  BY BetweenFacts, SizeAssumption
<1>2. RBUF_IDX(RBUF_IDX(x + (Between(x, y) + 1)) + k)
        = RBUF_IDX(x + (Between(x, y) + 1) + k)
  <2>. DEFINE j == Between(x, y) + 1
  <2>1. j \in 0 .. RBUF_SIZE /\ j + k <= RBUF_SIZE  BY <1>1, SizeAssumption
  <2>. HIDE DEF j
  <2>2. RBUF_IDX(RBUF_IDX(x + j) + k) = RBUF_IDX(x + j + k)  BY <2>1, IdxIdx
  <2>. QED  BY <2>2 DEF j
<1>3. x + (Between(x, y) + 1) + k = x + (Between(x, y) + 1 + k)
  BY <1>1 DEF Slot
<1>. QED  BY <1>1, <1>2, <1>3

LEMMA ProducerSlotFree ==
  ASSUME NEW x \in Slot, NEW y \in Slot, NEW k \in 0 .. RBUF_SIZE,
         Between(x, y) + k < RBUF_SIZE,
         NEW n \in 1 .. Between(x, y)
  PROVE  RBUF_IDX(y + k) # RBUF_IDX(x + n)
<1>1. Between(x, y) \in 0 .. RBUF_SIZE - 1  BY BetweenFacts
<1>2. RBUF_IDX(y + k) = RBUF_IDX(x + (Between(x, y) + 1 + k))
  BY <1>1, BeyondUnread, SizeAssumption
<1>3. /\ Between(x, y) + 1 + k \in 1 .. RBUF_SIZE
      /\ n \in 1 .. RBUF_SIZE /\ n # Between(x, y) + 1 + k
  BY <1>1, SizeAssumption
<1>. QED  BY <1>2, <1>3, IdxInjective

-----------------------------------------------------------------------------
(* The shared struct and the callers' locals keep their types.             *)

LEMMA TypeInit == Init => TypeOK
  BY SizeAssumption, EmptySeq DEF Init, TypeOK, Slot

LEMMA TypeNext == IInv /\ [Next]_vars => TypeOK'
<1>. SUFFICES ASSUME IInv, [Next]_vars PROVE TypeOK'
  OBVIOUS
<1>. USE DEF TypeOK, IInv
<1>1. ASSUME NEW ws \in Writes, CallWrite(ws) PROVE TypeOK'
  BY <1>1 DEF CallWrite, consumerVars
<1>2. CASE WriteCheck
  BY <1>2 DEF WriteCheck, ReturnFull, consumerVars
<1>3. CASE WriteCheckSecond
  BY <1>3 DEF WriteCheckSecond, ReturnFull, consumerVars
<1>4. CASE WriteLower
  <2>1. wdata \in Writes  BY <1>4 DEF WriteLower, WriterInv
  <2>2. wdata[1] \in Word  BY <2>1, WritesShape
  <2>. QED  BY <1>4, <2>2 DEF WriteLower, consumerVars
<1>5. CASE WriteUpper
  <2>1. wdata \in Writes /\ Len(wdata) = 2  BY <1>5 DEF WriteUpper, WriterInv
  <2>2. wdata[2] \in Word  BY <2>1, WritesShape
  <2>. QED  BY <1>5, <2>2 DEF WriteUpper, consumerVars
<1>6. CASE WritePublish
  <2>1. wdata \in Writes  BY <1>6 DEF WritePublish, WriterInv
  <2>2. p' \in Slot  BY <1>6, <2>1, WritesShape, IdxType DEF WritePublish, Slot
  <2>. QED  BY <1>6, <2>2 DEF WritePublish, consumerVars
<1>7. ASSUME NEW n \in ReadWidths, CallRead(n) PROVE TypeOK'
  BY <1>7, EmptySeq DEF CallRead, producerVars
<1>8. CASE ReadCheck
  BY <1>8 DEF ReadCheck, ReturnEmpty, producerVars
<1>9. CASE ReadCheckSecond
  BY <1>9 DEF ReadCheckSecond, ReturnEmpty, producerVars
<1>10. CASE ReadLower
  <2>1. RBUF_IDX(c + 1) \in Slot  BY IdxSlot
  <2>2. rval' \in Seq(Word \cup {NoWord})  BY <1>10, <2>1 DEF ReadLower
  <2>. QED  BY <1>10, <2>2 DEF ReadLower, producerVars
<1>11. CASE ReadUpper
  <2>1. RBUF_IDX(RBUF_IDX(c + 1) + 1) \in Slot  BY IdxSlot
  <2>2. rval = <<buffer[RBUF_IDX(c + 1)]>> /\ RBUF_IDX(c + 1) \in Slot
    BY <1>11, IdxSlot DEF ReadUpper, ReaderInv
  <2>3. rval' \in Seq(Word \cup {NoWord})  BY <1>11, <2>1, <2>2 DEF ReadUpper
  <2>. QED  BY <1>11, <2>3 DEF ReadUpper, producerVars
<1>12. CASE ReadCommit
  <2>1. RBUF_IDX(c + 1) \in Slot  BY IdxSlot
  <2>2. RBUF_IDX(RBUF_IDX(c + 1) + 1) \in Slot  BY <2>1, IdxSlot
  <2>3. c' \in Slot  BY <1>12, <2>1, <2>2 DEF ReadCommit
  <2>. QED  BY <1>12, <2>3, EmptySeq DEF ReadCommit, producerVars
<1>13. CASE UNCHANGED vars
  BY <1>13 DEF vars
<1>. QED
  BY <1>1, <1>2, <1>3, <1>4, <1>5, <1>6, <1>7, <1>8, <1>9, <1>10, <1>11, <1>12,
     <1>13 DEF Next, Producer, Consumer

-----------------------------------------------------------------------------
(* The inductive invariant.                                                *)

(* Facts of the producer every step below uses.                            *)
LEMMA Geometry ==
  ASSUME TypeOK
  PROVE  /\ Unread \in 0 .. RBUF_SIZE - 1
         /\ p = c <=> Unread = RBUF_SIZE - 1
         /\ RBUF_IDX(p + 1) = c <=> Unread = RBUF_SIZE - 2
         /\ RBUF_IDX(c + 1) = p <=> Unread = 0
         /\ RBUF_IDX(RBUF_IDX(c + 1) + 1) = RBUF_IDX(c + 2)
         /\ RBUF_IDX(c + 2) = p <=> Unread = 1
<1>. USE DEF TypeOK, Unread
<1>1. 1 \in 0 .. RBUF_SIZE /\ 2 \in 0 .. RBUF_SIZE  BY SizeAssumption
<1>2. /\ RBUF_IDX(p + 1) = IF p + 1 < RBUF_SIZE THEN p + 1 ELSE p + 1 - RBUF_SIZE
      /\ RBUF_IDX(c + 1) = IF c + 1 < RBUF_SIZE THEN c + 1 ELSE c + 1 - RBUF_SIZE
      /\ RBUF_IDX(c + 2) = IF c + 2 < RBUF_SIZE THEN c + 2 ELSE c + 2 - RBUF_SIZE
  BY <1>1, IdxPlus
<1>3. Between(c, p) \in 0 .. RBUF_SIZE - 1 /\ (p = c <=> Between(c, p) = RBUF_SIZE - 1)
  BY BetweenFacts
<1>4. RBUF_IDX(RBUF_IDX(c + 1) + 1) = RBUF_IDX(c + 2)
  <2>1. RBUF_IDX(RBUF_IDX(c + 1) + 1) = RBUF_IDX(c + 1 + 1)
    BY <1>1, IdxIdx, SizeAssumption
  <2>. QED  BY <2>1 DEF Slot
<1>5. RBUF_IDX(p + 1) = c <=> Between(c, p) = RBUF_SIZE - 2
  BY <1>2, SizeAssumption DEF Between, Slot
<1>6. RBUF_IDX(c + 1) = p <=> Between(c, p) = 0
  BY <1>2, SizeAssumption DEF Between, Slot
<1>7. RBUF_IDX(c + 2) = p <=> Between(c, p) = 1
  BY <1>2, SizeAssumption DEF Between, Slot
<1>. QED  BY <1>3, <1>4, <1>5, <1>6, <1>7

LEMMA InvInit == Init => IInv
  BY TypeInit DEF Init, IInv, WriterInv, ReaderInv

(* A write in progress stores only to slots that hold nothing unread.      *)
LEMMA StoreOutside ==
  ASSUME TypeOK, NEW k \in {0, 1}, Unread + k < RBUF_SIZE - 1,
         NEW n \in 1 .. Unread
  PROVE  RBUF_IDX(p + k) # RBUF_IDX(c + n)
<1>1. /\ c \in Slot /\ p \in Slot /\ k \in 0 .. RBUF_SIZE
      /\ Between(c, p) + k < RBUF_SIZE /\ n \in 1 .. Between(c, p)
  <2>1. Between(c, p) \in 0 .. RBUF_SIZE - 1  BY BetweenFacts DEF TypeOK
  <2>. QED  BY <2>1, SizeAssumption DEF TypeOK, Unread
<1>. QED  BY <1>1, ProducerSlotFree

LEMMA ProducerKeepsWriterInv == IInv /\ Producer => WriterInv'
<1>. SUFFICES ASSUME IInv, Producer PROVE WriterInv'
  OBVIOUS
<1>. USE DEF IInv
<1>0. UNCHANGED c
  BY DEF Producer, CallWrite, WriteCheck, WriteCheckSecond, ReturnFull, WriteLower,
         WriteUpper, WritePublish, consumerVars
<1>1. ASSUME NEW ws \in Writes, CallWrite(ws) PROVE WriterInv'
  BY <1>1, WritesShape DEF CallWrite, WriterInv
<1>2. CASE WriteCheck
  <2>1. CASE p = c
    BY <1>2, <2>1 DEF WriteCheck, ReturnFull, WriterInv
  <2>2. CASE p # c
    <3>1. wdata \in Writes /\ Len(wdata) \in {1, 2}
      BY <1>2, WritesShape DEF WriteCheck, WriterInv, TypeOK
    <3>2. Unread' = Unread
      BY <1>2, <2>2, <1>0 DEF WriteCheck, Unread
    <3>3. Unread \in 0 .. RBUF_SIZE - 2
      BY <2>2, Geometry, SizeAssumption
    <3>4. /\ UNCHANGED <<buffer, p, wdata>> /\ wdata # << >>
          /\ wpc' = IF Len(wdata) = 2 THEN "check2" ELSE "lower"
      BY <1>2, <2>2 DEF WriteCheck, WriterInv
    <3>5. wpc' = "check2" => Len(wdata) = 2 /\ Unread < RBUF_SIZE - 1
      BY <3>3, <3>4, SizeAssumption
    <3>6. wpc' = "lower" => Unread + Len(wdata) <= RBUF_SIZE - 1
      <4>1. wpc' = "lower" => Len(wdata) = 1  BY <3>1, <3>4
      <4>2. Unread + 1 <= RBUF_SIZE - 1  BY <3>3, SizeAssumption
      <4>. QED  BY <4>1, <4>2
    <3>. QED  BY <3>2, <3>4, <3>5, <3>6 DEF WriterInv
  <2>. QED  BY <2>1, <2>2
<1>3. CASE WriteCheckSecond
  <2>1. CASE RBUF_IDX(p + 1) = c
    BY <1>3, <2>1 DEF WriteCheckSecond, ReturnFull, WriterInv
  <2>2. CASE RBUF_IDX(p + 1) # c
    <3>1. Unread' = Unread
      BY <1>3, <2>2, <1>0 DEF WriteCheckSecond, Unread
    <3>2. Unread \in 0 .. RBUF_SIZE - 3
      BY <1>3, <2>2, Geometry, SizeAssumption DEF WriteCheckSecond, WriterInv
    <3>3. /\ UNCHANGED <<buffer, p, wdata>> /\ wdata # << >> /\ Len(wdata) = 2
          /\ wpc' = "lower"
      BY <1>3, <2>2 DEF WriteCheckSecond, WriterInv
    <3>4. Unread + 2 <= RBUF_SIZE - 1
      BY <3>2, SizeAssumption
    <3>. QED  BY <3>1, <3>3, <3>4 DEF WriterInv
  <2>. QED  BY <2>1, <2>2
<1>4. CASE WriteLower
  <2>1. p \in Slot /\ buffer \in [Slot -> Word \cup {NoWord}]  BY DEF TypeOK
  <2>2. wdata \in Writes /\ Len(wdata) \in {1, 2}
    BY <1>4, WritesShape DEF WriteLower, WriterInv, TypeOK
  <2>3. Unread' = Unread  BY <1>4, <1>0 DEF WriteLower, Unread
  <2>. QED  BY <1>4, <2>1, <2>2, <2>3 DEF WriteLower, WriterInv
<1>5. CASE WriteUpper
  <2>1. /\ p \in Slot /\ RBUF_IDX(p + 1) \in Slot
        /\ buffer \in [Slot -> Word \cup {NoWord}]
    BY IdxSlot DEF TypeOK
  <2>2. RBUF_IDX(p + 1) # p
    <3>1. RBUF_IDX(p + 1) = IF p + 1 < RBUF_SIZE THEN p + 1 ELSE p + 1 - RBUF_SIZE
      BY <2>1, IdxPlus, SizeAssumption
    <3>. QED  BY <3>1, <2>1, SizeAssumption DEF Slot
  <2>3. Unread' = Unread  BY <1>5, <1>0 DEF WriteUpper, Unread
  <2>. QED  BY <1>5, <2>1, <2>2, <2>3 DEF WriteUpper, WriterInv
<1>6. CASE WritePublish
  BY <1>6 DEF WritePublish, WriterInv
<1>. QED  BY <1>1, <1>2, <1>3, <1>4, <1>5, <1>6 DEF Producer

(* The producer makes words unread and touches none that are.              *)
LEMMA ProducerFrame ==
  ASSUME IInv, Producer
  PROVE  /\ UNCHANGED consumerVars
         /\ Unread' >= Unread
         /\ \A n \in 1 .. Unread : buffer'[RBUF_IDX(c + n)] = buffer[RBUF_IDX(c + n)]
<1>. USE DEF IInv
<1>1. UNCHANGED consumerVars
  BY DEF Producer, CallWrite, WriteCheck, WriteCheckSecond, ReturnFull, WriteLower,
         WriteUpper, WritePublish
<1>0. c' = c /\ Unread \in 0 .. RBUF_SIZE - 1 /\ p \in Slot /\ c \in Slot
  BY <1>1, Geometry DEF consumerVars, TypeOK
<1>2. CASE UNCHANGED <<buffer, p>>
  BY <1>1, <1>2, <1>0 DEF Unread
<1>3. CASE WriteLower
  <2>1. wdata \in Writes /\ Len(wdata) \in {1, 2}
    BY <1>3, WritesShape DEF WriteLower, WriterInv, TypeOK
  <2>2. Unread < RBUF_SIZE - 1 /\ RBUF_IDX(p) = p
    BY <1>0, <1>3, <2>1, IdxLow, SizeAssumption DEF WriteLower, WriterInv
  <2>3. \A n \in 1 .. Unread : p # RBUF_IDX(c + n)
    <3>1. \A n \in 1 .. Unread : RBUF_IDX(p + 0) # RBUF_IDX(c + n)
      BY <1>0, <2>2, StoreOutside
    <3>. QED  BY <3>1, <2>2, <1>0, SizeAssumption DEF Slot
  <2>4. \A n \in 1 .. Unread : RBUF_IDX(c + n) \in Slot
    BY <1>0, IdxType, SizeAssumption DEF Slot
  <2>5. /\ buffer' = [buffer EXCEPT ![p] = wdata[1]] /\ DOMAIN buffer = Slot
        /\ Unread' = Unread
    BY <1>0, <1>3 DEF WriteLower, Unread, TypeOK
  <2>6. \A n \in 1 .. Unread : buffer'[RBUF_IDX(c + n)] = buffer[RBUF_IDX(c + n)]
    BY <2>3, <2>4, <2>5
  <2>. QED  BY <1>0, <1>1, <2>5, <2>6
<1>4. CASE WriteUpper
  <2>1. Unread + 1 < RBUF_SIZE - 1
    <3>1. Len(wdata) = 2 /\ Unread + Len(wdata) <= RBUF_SIZE - 1
      BY <1>4 DEF WriteUpper, WriterInv
    <3>. QED  BY <1>0, <3>1, SizeAssumption
  <2>2. \A n \in 1 .. Unread : RBUF_IDX(p + 1) # RBUF_IDX(c + n)
    BY <1>0, <2>1, StoreOutside
  <2>3. \A n \in 1 .. Unread : RBUF_IDX(c + n) \in Slot
    BY <1>0, IdxType, SizeAssumption DEF Slot
  <2>4. /\ buffer' = [buffer EXCEPT ![RBUF_IDX(p + 1)] = wdata[2]] /\ DOMAIN buffer = Slot
        /\ Unread' = Unread
    BY <1>0, <1>4 DEF WriteUpper, Unread, TypeOK
  <2>5. \A n \in 1 .. Unread : buffer'[RBUF_IDX(c + n)] = buffer[RBUF_IDX(c + n)]
    BY <2>2, <2>3, <2>4
  <2>. QED  BY <1>0, <1>1, <2>4, <2>5
<1>5. CASE WritePublish
  <2>1. wdata \in Writes /\ Len(wdata) \in {1, 2}
    BY <1>5, WritesShape DEF WritePublish, WriterInv, TypeOK
  <2>2. Unread + Len(wdata) <= RBUF_SIZE - 1
    BY <1>5 DEF WritePublish, WriterInv
  <2>3. Between(c, RBUF_IDX(p + Len(wdata))) = Between(c, p) + Len(wdata)
    BY <1>0, <2>1, <2>2, BetweenAdvanceTo, SizeAssumption DEF Unread
  <2>4. Unread' = Unread + Len(wdata)
    BY <1>0, <1>5, <2>3 DEF WritePublish, Unread
  <2>. QED  BY <1>0, <1>1, <1>5, <2>1, <2>4 DEF WritePublish
<1>. QED
  BY <1>2, <1>3, <1>4, <1>5
     DEF Producer, CallWrite, WriteCheck, WriteCheckSecond, ReturnFull

LEMMA ProducerKeepsReaderInv == IInv /\ Producer => ReaderInv'
<1>. SUFFICES ASSUME IInv, Producer PROVE ReaderInv'
  OBVIOUS
<1>1. /\ UNCHANGED consumerVars /\ Unread' >= Unread
      /\ \A n \in 1 .. Unread : buffer'[RBUF_IDX(c + n)] = buffer[RBUF_IDX(c + n)]
  BY ProducerFrame
<1>2. /\ Unread \in Nat /\ Unread' \in Nat /\ rn \in {0, 1, 2}
  <2>1. TypeOK /\ TypeOK'  BY TypeNext DEF IInv, Next
  <2>2. /\ c \in Slot /\ p \in Slot /\ c' \in Slot /\ p' \in Slot
    BY <2>1 DEF TypeOK
  <2>3. Between(c, p) \in Nat /\ Between(c', p') \in Nat
    BY <2>2, BetweenFacts, SizeAssumption
  <2>. QED  BY <2>1, <2>3, WidthAssumption DEF TypeOK, Unread
<1>3. rpc = "upper" => rval = <<buffer'[RBUF_IDX(c + 1)]>>
  BY <1>1, <1>2 DEF IInv, ReaderInv
<1>4. ASSUME rpc = "commit" PROVE rval = [k \in 1 .. rn |-> buffer'[RBUF_IDX(c + k)]]
  <2>1. /\ rval = [k \in 1 .. rn |-> buffer[RBUF_IDX(c + k)]]
        /\ Unread >= rn
    BY <1>4 DEF IInv, ReaderInv
  <2>2. \A k \in 1 .. rn : buffer'[RBUF_IDX(c + k)] = buffer[RBUF_IDX(c + k)]
    BY <1>1, <1>2, <2>1
  <2>. QED  BY <2>1, <2>2
<1>. QED  BY <1>1, <1>2, <1>3, <1>4 DEF IInv, ReaderInv, consumerVars

(* The consumer gives words back and changes nothing of the producer's.    *)
LEMMA ConsumerFrame ==
  ASSUME IInv, Consumer
  PROVE  UNCHANGED <<buffer, producerVars>> /\ Unread' <= Unread
<1>. USE DEF IInv
<1>1. UNCHANGED <<buffer, producerVars>>
  BY DEF Consumer, CallRead, ReadCheck, ReadCheckSecond, ReturnEmpty, ReadLower,
         ReadUpper, ReadCommit
<1>2. /\ p' = p /\ c \in Slot /\ p \in Slot /\ Unread \in Nat
  BY <1>1, Geometry, SizeAssumption DEF producerVars, TypeOK
<1>3. CASE UNCHANGED c
  BY <1>1, <1>2, <1>3 DEF Unread
<1>4. CASE ReadCommit
  <2>1. rn \in {1, 2} /\ rn <= Unread
    BY <1>4, WidthAssumption DEF ReadCommit, ReaderInv, TypeOK
  <2>2. c' = RBUF_IDX(c + rn)
    BY <1>4, <2>1, Geometry DEF ReadCommit
  <2>3. Between(RBUF_IDX(c + rn), p) = Between(c, p) - rn
    BY <1>2, <2>1, BetweenAdvanceFrom, SizeAssumption DEF Unread
  <2>4. Unread' = Unread - rn
    BY <1>2, <2>2, <2>3 DEF Unread
  <2>5. rn \in Nat  BY <2>1
  <2>6. Unread - rn <= Unread  BY <1>2, <2>5
  <2>. QED  BY <1>1, <2>4, <2>6
<1>. QED
  BY <1>3, <1>4, <1>1
     DEF Consumer, CallRead, ReadCheck, ReadCheckSecond, ReturnEmpty, ReadLower,
         ReadUpper

LEMMA ConsumerKeepsWriterInv == IInv /\ Consumer => WriterInv'
<1>. SUFFICES ASSUME IInv, Consumer PROVE WriterInv'
  OBVIOUS
<1>1. UNCHANGED <<buffer, producerVars>> /\ Unread' <= Unread
  BY ConsumerFrame
<1>2. /\ Unread \in Nat /\ Unread' \in Nat
  <2>1. TypeOK /\ TypeOK'  BY TypeNext DEF IInv, Next
  <2>2. /\ c \in Slot /\ p \in Slot /\ c' \in Slot /\ p' \in Slot
    BY <2>1 DEF TypeOK
  <2>3. Between(c, p) \in Nat /\ Between(c', p') \in Nat
    BY <2>2, BetweenFacts, SizeAssumption
  <2>. QED  BY <2>3 DEF Unread
<1>3. wpc = "check2" => Unread' < RBUF_SIZE - 1
  BY <1>1, <1>2, SizeAssumption DEF IInv, WriterInv
<1>4. ASSUME wpc \in {"lower", "upper", "publish"}
      PROVE  Unread' + Len(wdata) <= RBUF_SIZE - 1
  <2>1. wdata \in Writes /\ Unread + Len(wdata) <= RBUF_SIZE - 1
    BY <1>4 DEF IInv, WriterInv, TypeOK
  <2>2. Len(wdata) \in {1, 2}  BY <2>1, WritesShape
  <2>. QED  BY <2>1, <2>2, <1>1, <1>2, SizeAssumption
<1>. QED  BY <1>1, <1>3, <1>4 DEF IInv, WriterInv, producerVars

LEMMA ConsumerKeepsReaderInv == IInv /\ Consumer => ReaderInv'
<1>. SUFFICES ASSUME IInv, Consumer PROVE ReaderInv'
  OBVIOUS
<1>. USE DEF IInv
<1>0. /\ UNCHANGED <<buffer, p>> /\ Unread \in 0 .. RBUF_SIZE - 1
      /\ rn \in {0, 1, 2} /\ c \in Slot
  BY ConsumerFrame, Geometry, WidthAssumption DEF producerVars, TypeOK
<1>1. ASSUME NEW n \in ReadWidths, CallRead(n) PROVE ReaderInv'
  BY <1>1, WidthAssumption DEF CallRead, ReaderInv
<1>2. CASE ReadCheck
  <2>1. CASE RBUF_IDX(c + 1) = p
    BY <1>2, <2>1 DEF ReadCheck, ReturnEmpty, ReaderInv
  <2>2. CASE RBUF_IDX(c + 1) # p
    <3>1. Unread' = Unread /\ Unread >= 1
      BY <1>0, <1>2, <2>2, Geometry DEF ReadCheck, Unread
    <3>2. /\ UNCHANGED <<c, rn, rval>> /\ rn # 0
          /\ rpc' = IF rn = 2 THEN "check2" ELSE "lower"
      BY <1>2, <2>2 DEF ReadCheck, ReaderInv
    <3>. QED  BY <1>0, <3>1, <3>2 DEF ReaderInv
  <2>. QED  BY <2>1, <2>2
<1>3. CASE ReadCheckSecond
  <2>1. CASE RBUF_IDX(RBUF_IDX(c + 1) + 1) = p
    BY <1>3, <2>1 DEF ReadCheckSecond, ReturnEmpty, ReaderInv
  <2>2. CASE RBUF_IDX(RBUF_IDX(c + 1) + 1) # p
    <3>1. Unread' = Unread /\ Unread >= 1 /\ Unread # 1
      BY <1>0, <1>3, <2>2, Geometry DEF ReadCheckSecond, Unread, ReaderInv
    <3>2. UNCHANGED <<c, rn, rval>> /\ rn = 2 /\ rpc' = "lower"
      BY <1>3, <2>2 DEF ReadCheckSecond, ReaderInv
    <3>. QED  BY <1>0, <3>1, <3>2 DEF ReaderInv
  <2>. QED  BY <2>1, <2>2
<1>4. CASE ReadLower
  <2>1. Unread' = Unread  BY <1>0, <1>4 DEF ReadLower, Unread
  <2>2. /\ UNCHANGED <<c, rn, buffer>> /\ rn # 0 /\ Unread >= rn
        /\ rval' = <<buffer[RBUF_IDX(c + 1)]>>
        /\ rpc' = IF rn = 2 THEN "upper" ELSE "commit"
    BY <1>4 DEF ReadLower, ReaderInv
  <2>3. rn = 1 => <<buffer[RBUF_IDX(c + 1)]>> = [k \in 1 .. rn |-> buffer[RBUF_IDX(c + k)]]
    OBVIOUS
  <2>. QED  BY <1>0, <2>1, <2>2, <2>3 DEF ReaderInv
<1>5. CASE ReadUpper
  <2>1. Unread' = Unread  BY <1>0, <1>5 DEF ReadUpper, Unread
  <2>2. /\ UNCHANGED <<c, rn, buffer>> /\ rn = 2 /\ Unread >= rn /\ rpc' = "commit"
        /\ rval = <<buffer[RBUF_IDX(c + 1)]>>
        /\ rval' = <<rval[1], buffer[RBUF_IDX(c + 2)]>>
    BY <1>5, Geometry DEF ReadUpper, ReaderInv
  <2>3. rval' = <<buffer[RBUF_IDX(c + 1)], buffer[RBUF_IDX(c + 2)]>>
    BY <2>2
  <2>4. <<buffer[RBUF_IDX(c + 1)], buffer[RBUF_IDX(c + 2)]>>
          = [k \in 1 .. rn |-> buffer[RBUF_IDX(c + k)]]
    BY <2>2
  <2>. QED  BY <1>0, <2>1, <2>2, <2>3, <2>4 DEF ReaderInv
<1>6. CASE ReadCommit
  BY <1>6 DEF ReadCommit, ReaderInv
<1>. QED  BY <1>1, <1>2, <1>3, <1>4, <1>5, <1>6 DEF Consumer

LEMMA InvNext == IInv /\ [Next]_vars => IInv'
<1>. SUFFICES ASSUME IInv, [Next]_vars PROVE IInv'
  OBVIOUS
<1>1. TypeOK'  BY TypeNext
<1>2. CASE Producer
  BY <1>1, <1>2, ProducerKeepsWriterInv, ProducerKeepsReaderInv DEF IInv
<1>3. CASE Consumer
  BY <1>1, <1>3, ConsumerKeepsWriterInv, ConsumerKeepsReaderInv DEF IInv
<1>4. CASE UNCHANGED vars
  BY <1>4 DEF vars, IInv, TypeOK, WriterInv, ReaderInv, Unread
<1>. QED  BY <1>2, <1>3, <1>4 DEF Next

LEMMA Invariant == Spec => []IInv
  BY InvInit, InvNext, PTL DEF Spec

(* The shared struct and both callers' locals have their types: no index   *)
(* ever leaves the ring, whatever its size.                                *)
THEOREM TypeCorrect == Spec => []TypeOK
<1>1. IInv => TypeOK  BY DEF IInv
<1>. QED  BY Invariant, <1>1, PTL

(* No slot is stored by the producer while the consumer may load it, for   *)
(* every ring size and every mixture of 32- and 64-bit calls.              *)
THEOREM SlotsOwned == Spec => []SlotOwnership
<1>1. IInv => SlotOwnership
  <2>. SUFFICES ASSUME IInv PROVE SlotOwnership
    OBVIOUS
  <2>. USE DEF IInv
  <2>0. Unread \in 0 .. RBUF_SIZE - 1 /\ rn \in {0, 1, 2}
    BY Geometry, WidthAssumption DEF TypeOK
  <2>1. WriterSlots \cap UnreadSlots = {}
    <3>1. CASE wpc \notin {"lower", "upper", "publish"}
      BY <3>1 DEF WriterSlots
    <3>2. CASE wpc \in {"lower", "upper", "publish"}
      <4>1. wdata \in Writes /\ Unread + Len(wdata) <= RBUF_SIZE - 1
        BY <3>2 DEF WriterInv, TypeOK
      <4>2. Len(wdata) \in {1, 2}  BY <4>1, WritesShape
      <4>3. ASSUME NEW k \in 0 .. Len(wdata) - 1, NEW n \in 1 .. Unread
            PROVE  RBUF_IDX(p + k) # RBUF_IDX(c + n)
        <5>1. k \in {0, 1} /\ Unread + k < RBUF_SIZE - 1
          <6>1. CASE Len(wdata) = 1  BY <6>1, <2>0, <4>1, SizeAssumption
          <6>2. CASE Len(wdata) = 2  BY <6>2, <2>0, <4>1, SizeAssumption
          <6>. QED  BY <6>1, <6>2, <4>2
        <5>. QED  BY <5>1, StoreOutside
      <4>. QED  BY <3>2, <4>3 DEF WriterSlots, UnreadSlots
    <3>. QED  BY <3>1, <3>2
  <2>2. ReaderSlots \subseteq UnreadSlots
    BY <2>0 DEF ReaderSlots, UnreadSlots, ReaderInv
  <2>. QED  BY <2>1, <2>2 DEF SlotOwnership
<1>. QED  BY Invariant, <1>1, PTL

-----------------------------------------------------------------------------
(* The ring is a bounded queue.                                            *)

QueueShape ==
  /\ Queue \in Seq(Word \cup {NoWord})
  /\ Len(Queue) = Unread
  /\ \A k \in 1 .. Unread : Queue[k] = buffer[RBUF_IDX(c + k)]

LEMMA QueueFacts == TypeOK => QueueShape
<1>. SUFFICES ASSUME TypeOK PROVE QueueShape
  OBVIOUS
<1>1. Unread \in Nat /\ c \in Slot  BY Geometry, SizeAssumption DEF TypeOK
<1>2. ASSUME NEW k \in 1 .. Unread PROVE buffer[RBUF_IDX(c + k)] \in Word \cup {NoWord}
  <2>1. c + k \in Int  BY <1>1, SizeAssumption DEF Slot
  <2>. QED  BY <2>1, IdxType DEF TypeOK
<1>3. Queue \in [1 .. Unread -> Word \cup {NoWord}]
  BY <1>2 DEF Queue
<1>4. Queue \in Seq(Word \cup {NoWord})
  BY <1>1, <1>3, SeqDef
<1>5. Len(Queue) = Unread
  BY <1>1, <1>3, <1>4, LenProperties
<1>. QED  BY <1>4, <1>5 DEF Queue, QueueShape

LEMMA QueueUnchanged ==
  ASSUME IInv, Producer, UNCHANGED p
  PROVE  Queue' = Queue
<1>1. c' = c /\ Unread' = Unread
  BY ProducerFrame DEF consumerVars, Unread
<1>2. \A k \in 1 .. Unread : buffer'[RBUF_IDX(c + k)] = buffer[RBUF_IDX(c + k)]
  BY ProducerFrame
<1>. QED  BY <1>1, <1>2 DEF Queue

(* Publishing appends the words of the write.                              *)
LEMMA PublishPuts ==
  ASSUME IInv, WritePublish
  PROVE  Queue' = Queue \o wdata /\ Unread + Len(wdata) <= RBUF_SIZE - 1
<1>. USE DEF IInv
<1>. DEFINE S == Word \cup {NoWord}
<1>1. TypeOK'  BY TypeNext DEF Next, Producer
<1>2. /\ wdata \in Seq(S) /\ Len(wdata) \in {1, 2}
      /\ Unread + Len(wdata) <= RBUF_SIZE - 1
  <2>1. wdata \in Writes  BY DEF WritePublish, WriterInv, TypeOK
  <2>2. wdata \in Seq(Word) /\ Len(wdata) \in {1, 2}  BY <2>1, WritesShape
  <2>3. wdata \in Seq(S)  BY <2>2, SeqMonotonic
  <2>. QED  BY <2>2, <2>3 DEF WritePublish, WriterInv
<1>3. /\ Unread \in Nat /\ c \in Slot /\ p \in Slot /\ Len(wdata) \in 0 .. RBUF_SIZE
  <2>1. Unread \in Nat /\ c \in Slot /\ p \in Slot
    BY Geometry, SizeAssumption DEF TypeOK
  <2>. QED  BY <2>1, <1>2, SizeAssumption
<1>4. c' = c /\ buffer' = buffer
  BY DEF WritePublish, consumerVars
<1>5. Unread' = Unread + Len(wdata)
  <2>1. Between(c, RBUF_IDX(p + Len(wdata))) = Between(c, p) + Len(wdata)
    BY <1>2, <1>3, BetweenAdvanceTo DEF Unread
  <2>. QED  BY <2>1, <1>4 DEF WritePublish, Unread
<1>6. /\ Queue \in Seq(S) /\ Len(Queue) = Unread
      /\ \A k \in 1 .. Unread : Queue[k] = buffer[RBUF_IDX(c + k)]
  BY QueueFacts DEF QueueShape
<1>7. /\ Queue' \in Seq(S) /\ Len(Queue') = Unread + Len(wdata)
      /\ \A k \in 1 .. Unread + Len(wdata) : Queue'[k] = buffer[RBUF_IDX(c + k)]
  <2>1. /\ Queue' \in Seq(S) /\ Len(Queue') = Unread'
        /\ \A k \in 1 .. Unread' : Queue'[k] = buffer'[RBUF_IDX(c' + k)]
    <3>1. QueueShape'  BY <1>1, QueueFacts, PTL
    <3>. QED  BY <3>1 DEF QueueShape
  <2>. QED  BY <2>1, <1>4, <1>5
<1>8. /\ Queue \o wdata \in Seq(S) /\ Len(Queue \o wdata) = Unread + Len(wdata)
      /\ \A k \in 1 .. Unread + Len(wdata) :
           (Queue \o wdata)[k] = IF k <= Unread THEN Queue[k] ELSE wdata[k - Unread]
  BY <1>2, <1>6, ConcatProperties
<1>9. ASSUME NEW k \in 1 .. Unread + Len(wdata) PROVE Queue'[k] = (Queue \o wdata)[k]
  <2>1. CASE k <= Unread
    BY <2>1, <1>3, <1>6, <1>7, <1>8
  <2>2. CASE k = Unread + 1
    <3>1. RBUF_IDX(c + k) = p  BY <2>2, <1>3, BetweenFacts DEF Unread
    <3>2. buffer[p] = wdata[1]  BY DEF WritePublish, WriterInv
    <3>3. (Queue \o wdata)[k] = wdata[1]
      <4>1. ~(k <= Unread) /\ k - Unread = 1  BY <2>2, <1>3
      <4>. QED  BY <4>1, <1>8
    <3>. QED  BY <3>1, <3>2, <3>3, <1>7
  <2>3. CASE k = Unread + 2
    <3>1. Len(wdata) = 2  BY <2>3, <1>2, <1>3
    <3>2. RBUF_IDX(c + k) = RBUF_IDX(p + 1)
      <4>1. 1 \in 0 .. RBUF_SIZE /\ Between(c, p) + 1 <= RBUF_SIZE - 1
        BY <3>1, <1>2, <1>3, SizeAssumption DEF Unread
      <4>2. RBUF_IDX(p + 1) = RBUF_IDX(c + (Between(c, p) + 1 + 1))
        BY <4>1, <1>3, BeyondUnread
      <4>3. c + (Between(c, p) + 1 + 1) = c + k
        BY <2>3, <1>3 DEF Unread, Slot
      <4>. QED  BY <4>2, <4>3
    <3>3. buffer[RBUF_IDX(p + 1)] = wdata[2]  BY <3>1 DEF WritePublish, WriterInv
    <3>4. (Queue \o wdata)[k] = wdata[2]
      <4>1. ~(k <= Unread) /\ k - Unread = 2  BY <2>3, <1>3
      <4>. QED  BY <4>1, <1>8
    <3>. QED  BY <3>2, <3>3, <3>4, <1>7
  <2>4. k <= Unread \/ k = Unread + 1 \/ k = Unread + 2
    <3>1. CASE Len(wdata) = 1  BY <3>1, <1>3
    <3>2. CASE Len(wdata) = 2  BY <3>2, <1>3
    <3>. QED  BY <3>1, <3>2, <1>2
  <2>. QED  BY <2>1, <2>2, <2>3, <2>4
<1>10. Queue' = Queue \o wdata
  BY <1>7, <1>8, <1>9, SeqEqual
<1>. QED  BY <1>2, <1>10

(* Committing a read removes the words it loaded.                          *)
LEMMA CommitTakes ==
  ASSUME IInv, ReadCommit
  PROVE  /\ rn # 0 /\ Unread >= rn
         /\ Queue' = SubSeq(Queue, rn + 1, Len(Queue))
         /\ rval = SubSeq(Queue, 1, rn)
<1>. USE DEF IInv
<1>. DEFINE S == Word \cup {NoWord}
<1>1. TypeOK'  BY TypeNext DEF Next, Consumer
<1>2. rn \in {1, 2} /\ rn \in Nat /\ Unread >= rn
  BY WidthAssumption DEF ReadCommit, ReaderInv, TypeOK
<1>3. /\ Unread \in Nat /\ c \in Slot /\ p \in Slot /\ Unread <= RBUF_SIZE - 1
  BY Geometry, SizeAssumption DEF TypeOK
<1>4. p' = p /\ buffer' = buffer /\ c' = RBUF_IDX(c + rn)
  BY <1>2, Geometry DEF ReadCommit, producerVars
<1>5. rn \in 0 .. RBUF_SIZE  BY <1>2, <1>3, SizeAssumption
<1>6. Unread' = Unread - rn
  <2>1. Between(RBUF_IDX(c + rn), p) = Between(c, p) - rn
    BY <1>2, <1>3, <1>5, BetweenAdvanceFrom DEF Unread
  <2>. QED  BY <2>1, <1>4 DEF Unread
<1>7. /\ Queue \in Seq(S) /\ Len(Queue) = Unread
      /\ \A k \in 1 .. Unread : Queue[k] = buffer[RBUF_IDX(c + k)] /\ Queue[k] \in S
  BY QueueFacts, ElementOfSeq DEF QueueShape
<1>8. /\ Queue' \in Seq(S) /\ Len(Queue') = Unread - rn
      /\ \A k \in 1 .. Unread - rn : Queue'[k] = buffer[RBUF_IDX(c' + k)]
  <2>1. /\ Queue' \in Seq(S) /\ Len(Queue') = Unread'
        /\ \A k \in 1 .. Unread' : Queue'[k] = buffer'[RBUF_IDX(c' + k)]
    <3>1. QueueShape'  BY <1>1, QueueFacts, PTL
    <3>. QED  BY <3>1 DEF QueueShape
  <2>. QED  BY <2>1, <1>4, <1>6
<1>9. Queue' = SubSeq(Queue, rn + 1, Len(Queue))
  <2>. DEFINE T == SubSeq(Queue, rn + 1, Unread)
  <2>1. rn + 1 \in Int /\ Unread \in Int /\ \A i \in rn + 1 .. Unread : Queue[i] \in S
    BY <1>2, <1>3, <1>7
  <2>2. /\ T \in Seq(S)
        /\ Len(T) = IF rn + 1 <= Unread THEN Unread - (rn + 1) + 1 ELSE 0
        /\ \A i \in 1 .. Unread - (rn + 1) + 1 : T[i] = Queue[rn + 1 + i - 1]
    BY <2>1, SubSeqProperties
  <2>3. Len(T) = Unread - rn
    BY <2>2, <1>2, <1>3
  <2>4. ASSUME NEW i \in 1 .. Unread - rn PROVE Queue'[i] = T[i]
    <3>1. T[i] = Queue[rn + i] /\ rn + i \in 1 .. Unread /\ i \in 0 .. RBUF_SIZE
          /\ rn + i <= RBUF_SIZE /\ c + (rn + i) = c + rn + i
      <4>1. i \in 1 .. Unread - (rn + 1) + 1 /\ rn + 1 + i - 1 = rn + i
        BY <1>2, <1>3
      <4>. QED  BY <4>1, <2>2, <1>2, <1>3, SizeAssumption DEF Slot
    <3>2. T[i] = buffer[RBUF_IDX(c + rn + i)]  BY <3>1, <1>7
    <3>3. RBUF_IDX(RBUF_IDX(c + rn) + i) = RBUF_IDX(c + rn + i)
      BY <3>1, <1>3, <1>5, IdxIdx
    <3>. QED  BY <3>2, <3>3, <1>4, <1>8
  <2>. HIDE DEF T
  <2>5. Queue' = T  BY <2>2, <2>3, <2>4, <1>8, SeqEqual
  <2>. QED  BY <2>5, <1>7 DEF T
<1>10. rval = SubSeq(Queue, 1, rn)
  <2>. DEFINE T == SubSeq(Queue, 1, rn)
  <2>1. 1 \in Int /\ rn \in Int /\ \A i \in 1 .. rn : Queue[i] \in S
    BY <1>2, <1>3, <1>7
  <2>2. /\ T \in Seq(S)
        /\ Len(T) = IF 1 <= rn THEN rn - 1 + 1 ELSE 0
        /\ \A i \in 1 .. rn - 1 + 1 : T[i] = Queue[1 + i - 1]
    BY <2>1, SubSeqProperties
  <2>3. Len(T) = rn  BY <2>2, <1>2
  <2>4. rval = [k \in 1 .. rn |-> buffer[RBUF_IDX(c + k)]] /\ rval \in Seq(S)
    BY DEF ReadCommit, ReaderInv, TypeOK
  <2>5. Len(rval) = rn
    <3>1. DOMAIN rval = 1 .. rn  BY <2>4
    <3>. QED  BY <3>1, <2>4, <1>2, LenProperties
  <2>6. ASSUME NEW i \in 1 .. rn PROVE rval[i] = T[i]
    <3>1. T[i] = Queue[i] /\ i \in 1 .. Unread
      <4>1. i \in 1 .. rn - 1 + 1 /\ 1 + i - 1 = i  BY <1>2
      <4>. QED  BY <4>1, <2>2, <1>2, <1>3
    <3>. QED  BY <3>1, <2>4, <1>7
  <2>. HIDE DEF T
  <2>7. rval = T  BY <2>2, <2>3, <2>4, <2>5, <2>6, SeqEqual
  <2>. QED  BY <2>7 DEF T
<1>. QED  BY <1>2, <1>9, <1>10

LEMMA FifoInit == Init => Fifo!Init
<1>. SUFFICES ASSUME Init PROVE Fifo!Init
  OBVIOUS
<1>1. Unread = 0  BY SizeAssumption DEF Init, Unread, Between
<1>2. Queue = << >>
  <2>1. TypeOK  BY TypeInit
  <2>2. Queue \in Seq(Word \cup {NoWord}) /\ Len(Queue) = 0
    BY <1>1, <2>1, QueueFacts DEF QueueShape
  <2>. QED  BY <2>2, EmptySeq
<1>. QED  BY <1>2 DEF Init, Fifo!Init

LEMMA FifoNext == IInv /\ [Next]_vars => [Fifo!Next]_(Fifo!fifoVars)
<1>. SUFFICES ASSUME IInv, [Next]_vars PROVE [Fifo!Next]_(Fifo!fifoVars)
  OBVIOUS
<1>. USE DEF IInv
<1>0. /\ Len(Queue) = Unread /\ Unread \in 0 .. RBUF_SIZE - 1
  BY QueueFacts, Geometry DEF QueueShape
<1>1. ASSUME NEW ws \in Writes, CallWrite(ws) PROVE Fifo!InvokeWrite(ws)
  <2>1. Queue' = Queue  BY <1>1, QueueUnchanged DEF Producer, CallWrite
  <2>. QED  BY <1>1, <2>1 DEF CallWrite, consumerVars, Fifo!InvokeWrite, WriterInv
<1>2. ASSUME Producer, ReturnFull, wdata # << >>,
             Unread + Len(wdata) > RBUF_SIZE - 1
      PROVE  Fifo!Refuse
  <2>1. Queue' = Queue  BY <1>2, QueueUnchanged DEF ReturnFull
  <2>. QED  BY <1>0, <1>2, <2>1 DEF ReturnFull, consumerVars, Fifo!Refuse
<1>3. CASE WriteCheck
  <2>1. CASE p = c
    <3>1. wdata # << >> /\ wdata \in Writes  BY <1>3 DEF WriteCheck, WriterInv, TypeOK
    <3>2. Len(wdata) \in {1, 2}  BY <3>1, WritesShape
    <3>3. Unread = RBUF_SIZE - 1  BY <2>1, Geometry
    <3>4. Unread + Len(wdata) > RBUF_SIZE - 1
      <4>1. CASE Len(wdata) = 1  BY <4>1, <3>3, SizeAssumption
      <4>2. CASE Len(wdata) = 2  BY <4>2, <3>3, SizeAssumption
      <4>. QED  BY <4>1, <4>2, <3>2
    <3>5. ReturnFull /\ Producer  BY <1>3, <2>1 DEF WriteCheck, Producer
    <3>. QED  BY <1>2, <3>1, <3>4, <3>5 DEF Fifo!Next
  <2>2. CASE p # c
    <3>1. Queue' = Queue  BY <1>3, <2>2, QueueUnchanged DEF WriteCheck, Producer
    <3>. QED  BY <1>3, <2>2, <3>1 DEF WriteCheck, consumerVars, Fifo!fifoVars
  <2>. QED  BY <2>1, <2>2
<1>4. CASE WriteCheckSecond
  <2>1. CASE RBUF_IDX(p + 1) = c
    <3>1. wdata # << >> /\ Len(wdata) = 2  BY <1>4 DEF WriteCheckSecond, WriterInv
    <3>2. Unread = RBUF_SIZE - 2  BY <2>1, Geometry
    <3>3. Unread + Len(wdata) > RBUF_SIZE - 1  BY <3>1, <3>2, SizeAssumption
    <3>4. ReturnFull /\ Producer  BY <1>4, <2>1 DEF WriteCheckSecond, Producer
    <3>. QED  BY <1>2, <3>1, <3>3, <3>4 DEF Fifo!Next
  <2>2. CASE RBUF_IDX(p + 1) # c
    <3>1. Queue' = Queue  BY <1>4, <2>2, QueueUnchanged DEF WriteCheckSecond, Producer
    <3>. QED  BY <1>4, <2>2, <3>1 DEF WriteCheckSecond, consumerVars, Fifo!fifoVars
  <2>. QED  BY <2>1, <2>2
<1>5. CASE WriteLower
  <2>1. Queue' = Queue  BY <1>5, QueueUnchanged DEF WriteLower, Producer
  <2>. QED  BY <1>5, <2>1 DEF WriteLower, consumerVars, Fifo!fifoVars
<1>6. CASE WriteUpper
  <2>1. Queue' = Queue  BY <1>6, QueueUnchanged DEF WriteUpper, Producer
  <2>. QED  BY <1>6, <2>1 DEF WriteUpper, consumerVars, Fifo!fifoVars
<1>7. CASE WritePublish
  <2>1. Queue' = Queue \o wdata /\ Unread + Len(wdata) <= RBUF_SIZE - 1
    BY <1>7, PublishPuts
  <2>2. wdata # << >>  BY <1>7 DEF WritePublish, WriterInv
  <2>3. Fifo!Put
    BY <1>0, <1>7, <2>1, <2>2 DEF WritePublish, consumerVars, Fifo!Put
  <2>. QED  BY <2>3 DEF Fifo!Next
<1>8. ASSUME Consumer, UNCHANGED c PROVE Queue' = Queue
  BY <1>8, ConsumerFrame DEF producerVars, Queue, Unread
<1>9. ASSUME NEW n \in ReadWidths, CallRead(n) PROVE Fifo!InvokeRead(n)
  <2>1. Queue' = Queue  BY <1>8, <1>9 DEF Consumer, CallRead
  <2>. QED  BY <1>9, <2>1 DEF CallRead, producerVars, Fifo!InvokeRead, ReaderInv
<1>10. ASSUME Consumer, ReturnEmpty, rn # 0, Unread < rn PROVE Fifo!Empty
  <2>1. Queue' = Queue  BY <1>8, <1>10 DEF ReturnEmpty
  <2>. QED  BY <1>0, <1>10, <2>1 DEF ReturnEmpty, producerVars, Fifo!Empty
<1>11. CASE ReadCheck
  <2>1. CASE RBUF_IDX(c + 1) = p
    <3>1. rn \in {1, 2}  BY <1>11, WidthAssumption DEF ReadCheck, ReaderInv, TypeOK
    <3>2. Unread < rn  BY <2>1, <3>1, Geometry
    <3>3. ReturnEmpty /\ Consumer  BY <1>11, <2>1 DEF ReadCheck, Consumer
    <3>. QED  BY <1>10, <3>1, <3>2, <3>3 DEF Fifo!Next
  <2>2. CASE RBUF_IDX(c + 1) # p
    <3>1. Queue' = Queue  BY <1>8, <1>11, <2>2 DEF ReadCheck, Consumer
    <3>. QED  BY <1>11, <2>2, <3>1 DEF ReadCheck, producerVars, Fifo!fifoVars
  <2>. QED  BY <2>1, <2>2
<1>12. CASE ReadCheckSecond
  <2>1. CASE RBUF_IDX(RBUF_IDX(c + 1) + 1) = p
    <3>1. rn = 2 /\ Unread = 1
      BY <1>12, <2>1, Geometry DEF ReadCheckSecond, ReaderInv
    <3>2. ReturnEmpty /\ Consumer  BY <1>12, <2>1 DEF ReadCheckSecond, Consumer
    <3>. QED  BY <1>10, <3>1, <3>2 DEF Fifo!Next
  <2>2. CASE RBUF_IDX(RBUF_IDX(c + 1) + 1) # p
    <3>1. Queue' = Queue  BY <1>8, <1>12, <2>2 DEF ReadCheckSecond, Consumer
    <3>. QED  BY <1>12, <2>2, <3>1 DEF ReadCheckSecond, producerVars, Fifo!fifoVars
  <2>. QED  BY <2>1, <2>2
<1>13. CASE ReadLower
  <2>1. Queue' = Queue  BY <1>8, <1>13 DEF ReadLower, Consumer
  <2>. QED  BY <1>13, <2>1 DEF ReadLower, producerVars, Fifo!fifoVars
<1>14. CASE ReadUpper
  <2>1. Queue' = Queue  BY <1>8, <1>14 DEF ReadUpper, Consumer
  <2>. QED  BY <1>14, <2>1 DEF ReadUpper, producerVars, Fifo!fifoVars
<1>15. CASE ReadCommit
  <2>1. /\ rn # 0 /\ Unread >= rn
        /\ Queue' = SubSeq(Queue, rn + 1, Len(Queue))
        /\ rval = SubSeq(Queue, 1, rn)
    BY <1>15, CommitTakes
  <2>2. Fifo!Take
    BY <1>0, <1>15, <2>1 DEF ReadCommit, producerVars, Fifo!Take
  <2>. QED  BY <2>2 DEF Fifo!Next
<1>16. CASE UNCHANGED vars
  BY <1>16 DEF vars, Fifo!fifoVars, Queue, Unread
<1>. QED
  BY <1>1, <1>3, <1>4, <1>5, <1>6, <1>7, <1>9, <1>11, <1>12, <1>13, <1>14, <1>15,
     <1>16 DEF Next, Producer, Consumer, Fifo!Next

(* For every ring size, the ring under concurrent calls of its one producer *)
(* and its one consumer behaves as a bounded queue of RBUF_SIZE - 1 words.  *)
THEOREM RingIsFifo == Spec => FifoSpec
  BY FifoInit, FifoNext, Invariant, PTL DEF Spec, FifoSpec, Fifo!Spec
-----------------------------------------------------------------------------
(* Where only timestamps are written and read.                             *)

(* A queue of whole timestamps: lower and upper halves alternate, and      *)
(* neighbours are of one write.                                            *)
Paired(q) ==
  \E n \in Nat : /\ Len(q) = 2 * n
                 /\ \A j \in 1 .. n : \E v \in Value :
                      q[2 * j - 1] = <<v, "lower">> /\ q[2 * j] = <<v, "upper">>

WholeInv ==
  timestamps => /\ Len(wdata) # 1 /\ rn # 1
                /\ Paired(Queue)
                /\ WholeTimestamps

LEMMA TimestampShape ==
  ASSUME NEW ws \in Writes, Len(ws) # 1
  PROVE  \E v \in Value : ws = << <<v, "lower">>, <<v, "upper">> >>
<1>1. PICK v \in Value, width \in WriteWidths : ws = WordsOf(v, width)
  BY DEF Writes
<1>2. width # 1  BY <1>1 DEF WordsOf
<1>. QED  BY <1>1, <1>2 DEF WordsOf

(* A timestamp put after whole timestamps ...                              *)
LEMMA PairedPut ==
  ASSUME NEW S, NEW q \in Seq(S), NEW v \in Value, NEW ws \in Seq(S),
         ws = << <<v, "lower">>, <<v, "upper">> >>, Paired(q)
  PROVE  Paired(q \o ws)
<1>1. PICK n \in Nat : /\ Len(q) = 2 * n
                       /\ \A j \in 1 .. n : \E u \in Value :
                            q[2 * j - 1] = <<u, "lower">> /\ q[2 * j] = <<u, "upper">>
  BY DEF Paired
<1>2. Len(ws) = 2 /\ ws[1] = <<v, "lower">> /\ ws[2] = <<v, "upper">>
  OBVIOUS
<1>. DEFINE r == q \o ws
<1>3. /\ Len(r) = 2 * n + 2
      /\ \A i \in 1 .. 2 * n : r[i] = q[i]
      /\ r[2 * n + 1] = ws[1] /\ r[2 * n + 2] = ws[2]
  <2>1. /\ Len(r) = Len(q) + Len(ws)
        /\ \A i \in 1 .. Len(q) + Len(ws) :
             r[i] = IF i <= Len(q) THEN q[i] ELSE ws[i - Len(q)]
    BY ConcatProperties
  <2>2. /\ 2 * n + 1 \in 1 .. 2 * n + 2 /\ 2 * n + 2 \in 1 .. 2 * n + 2
        /\ 2 * n + 1 - 2 * n = 1 /\ 2 * n + 2 - 2 * n = 2
        /\ ~(2 * n + 1 <= 2 * n) /\ ~(2 * n + 2 <= 2 * n)
        /\ \A i \in 1 .. 2 * n : i \in 1 .. 2 * n + 2 /\ i <= 2 * n
    OBVIOUS
  <2>. HIDE DEF r
  <2>. QED  BY <2>1, <2>2, <1>1, <1>2
<1>. HIDE DEF r
<1>4. Len(r) = 2 * (n + 1) /\ n + 1 \in Nat
  BY <1>3
<1>5. ASSUME NEW j \in 1 .. n + 1
      PROVE  \E u \in Value : r[2 * j - 1] = <<u, "lower">> /\ r[2 * j] = <<u, "upper">>
  <2>1. CASE j \in 1 .. n
    <3>1. 2 * j - 1 \in 1 .. 2 * n /\ 2 * j \in 1 .. 2 * n  BY <2>1
    <3>. QED  BY <3>1, <2>1, <1>1, <1>3
  <2>2. CASE j = n + 1
    <3>1. 2 * j - 1 = 2 * n + 1 /\ 2 * j = 2 * n + 2  BY <2>2
    <3>. QED  BY <3>1, <1>2, <1>3
  <2>. QED  BY <2>1, <2>2
<1>6. Paired(r)
  BY <1>4, <1>5 DEF Paired
<1>. QED  BY <1>6 DEF r

(* ... and one taken from their front leave whole timestamps.              *)
LEMMA PairedTake ==
  ASSUME NEW S, NEW q \in Seq(S), Len(q) >= 2, Paired(q)
  PROVE  /\ Paired(SubSeq(q, 3, Len(q)))
         /\ \E v \in Value : SubSeq(q, 1, 2) = << <<v, "lower">>, <<v, "upper">> >>
<1>1. PICK n \in Nat : /\ Len(q) = 2 * n
                       /\ \A j \in 1 .. n : \E u \in Value :
                            q[2 * j - 1] = <<u, "lower">> /\ q[2 * j] = <<u, "upper">>
  BY DEF Paired
<1>2. n >= 1 /\ \A i \in 1 .. 2 * n : q[i] \in S
  <2>1. \A i \in 1 .. Len(q) : q[i] \in S  BY ElementOfSeq
  <2>. QED  BY <1>1, <2>1
<1>3. Paired(SubSeq(q, 3, Len(q)))
  <2>. DEFINE r == SubSeq(q, 3, 2 * n)
  <2>1. /\ Len(r) = IF 3 <= 2 * n THEN 2 * n - 3 + 1 ELSE 0
        /\ \A i \in 1 .. 2 * n - 3 + 1 : r[i] = q[3 + i - 1]
    <3>1. 3 \in Int /\ 2 * n \in Int /\ \A i \in 3 .. 2 * n : q[i] \in S  BY <1>2
    <3>. QED  BY <3>1, SubSeqProperties
  <2>. HIDE DEF r
  <2>2. Len(r) = 2 * (n - 1) /\ n - 1 \in Nat
    BY <2>1, <1>2
  <2>3. ASSUME NEW j \in 1 .. n - 1
        PROVE  \E u \in Value : r[2 * j - 1] = <<u, "lower">> /\ r[2 * j] = <<u, "upper">>
    <3>1. /\ 2 * j - 1 \in 1 .. 2 * n - 3 + 1 /\ 2 * j \in 1 .. 2 * n - 3 + 1
          /\ 3 + (2 * j - 1) - 1 = 2 * (j + 1) - 1 /\ 3 + 2 * j - 1 = 2 * (j + 1)
          /\ j + 1 \in 1 .. n
      BY <1>2
    <3>2. r[2 * j - 1] = q[2 * (j + 1) - 1] /\ r[2 * j] = q[2 * (j + 1)]
      BY <3>1, <2>1
    <3>. QED  BY <3>1, <3>2, <1>1
  <2>4. Paired(r)  BY <2>2, <2>3 DEF Paired
  <2>. QED  BY <2>4, <1>1 DEF r
<1>4. \E v \in Value : SubSeq(q, 1, 2) = << <<v, "lower">>, <<v, "upper">> >>
  <2>1. PICK v \in Value : q[1] = <<v, "lower">> /\ q[2] = <<v, "upper">>
    <3>1. 1 \in 1 .. n /\ 2 * 1 - 1 = 1 /\ 2 * 1 = 2  BY <1>2
    <3>. QED  BY <3>1, <1>1
  <2>. DEFINE r == SubSeq(q, 1, 2)
  <2>2. /\ r \in Seq(S) /\ Len(r) = 2
        /\ \A i \in 1 .. 2 : r[i] = q[1 + i - 1]
    <3>1. \A i \in 1 .. 2 : q[i] \in S  BY <1>2
    <3>. QED  BY <3>1, SubSeqProperties
  <2>3. r[1] = q[1] /\ r[2] = q[2]
    <3>1. 1 \in 1 .. 2 /\ 2 \in 1 .. 2 /\ 1 + 1 - 1 = 1 /\ 1 + 2 - 1 = 2  OBVIOUS
    <3>. HIDE DEF r
    <3>. QED  BY <2>2, <3>1
  <2>. HIDE DEF r
  <2>4. r = << r[1], r[2] >>  BY <2>2
  <2>5. r = << <<v, "lower">>, <<v, "upper">> >>  BY <2>1, <2>3, <2>4
  <2>. QED  BY <2>5 DEF r
<1>. QED  BY <1>3, <1>4

LEMMA WholeInit == MCInit => WholeInv
<1>. SUFFICES ASSUME MCInit PROVE WholeInv
  OBVIOUS
<1>1. Queue = << >> /\ wdata = << >> /\ rret = << >> /\ rn = 0
  BY FifoInit DEF MCInit, Init, Fifo!Init
<1>2. Paired(<< >>)
  <2>1. 0 \in Nat /\ Len(<< >>) = 2 * 0 /\ 1 .. 0 = {}  OBVIOUS
  <2>. QED  BY <2>1 DEF Paired
<1>. QED  BY <1>1, <1>2 DEF WholeInv, WholeTimestamps

LEMMA WholeNext == IInv /\ WholeInv /\ [MCNext]_<<vars, timestamps>> => WholeInv'
<1>. SUFFICES ASSUME IInv, WholeInv, [MCNext]_<<vars, timestamps>>, timestamps'
              PROVE  /\ Len(wdata') # 1 /\ rn' # 1
                     /\ Paired(Queue') /\ WholeTimestamps'
  BY DEF WholeInv
<1>1. /\ timestamps /\ [Next]_vars
      /\ Len(wdata) # 1 /\ rn # 1 /\ Paired(Queue) /\ WholeTimestamps
  BY DEF WholeInv, MCNext, vars
<1>2. Len(wdata') # 1 /\ rn' # 1
  BY <1>1 DEF MCNext, vars
<1>3. /\ Queue \in Seq(Word \cup {NoWord})
      /\ wdata \in {<< >>} \cup Writes
      /\ rn \in {0, 2}
  BY <1>1, QueueFacts, WidthAssumption DEF IInv, QueueShape, TypeOK
<1>4. CASE UNCHANGED <<Queue, rret>>
  BY <1>1, <1>2, <1>4 DEF WholeTimestamps
<1>5. CASE Queue' = Queue /\ rret' = << >>
  BY <1>1, <1>2, <1>5 DEF WholeTimestamps
<1>6. CASE Fifo!Put
  <2>1. wdata # << >> /\ Queue' = Queue \o wdata /\ rret' = rret
    BY <1>6 DEF Fifo!Put
  <2>2. PICK v \in Value : wdata = << <<v, "lower">>, <<v, "upper">> >>
    BY <1>1, <1>3, <2>1, TimestampShape
  <2>3. wdata \in Seq(Word \cup {NoWord})
    <3>1. wdata \in Seq(Word)  BY <1>3, <2>1, WritesShape
    <3>. QED  BY <3>1, SeqMonotonic
  <2>4. Paired(Queue')
    BY <1>1, <1>3, <2>1, <2>2, <2>3, PairedPut
  <2>. QED  BY <1>1, <1>2, <2>1, <2>4 DEF WholeTimestamps
<1>7. CASE Fifo!Take
  <2>1. /\ rn = 2 /\ Len(Queue) >= 2
        /\ Queue' = SubSeq(Queue, 3, Len(Queue))
        /\ rret' = SubSeq(Queue, 1, 2)
    BY <1>3, <1>7 DEF Fifo!Take
  <2>2. /\ Paired(SubSeq(Queue, 3, Len(Queue)))
        /\ \E v \in Value : SubSeq(Queue, 1, 2) = << <<v, "lower">>, <<v, "upper">> >>
    BY <1>1, <1>3, <2>1, PairedTake
  <2>3. WholeTimestamps'
    BY <2>1, <2>2 DEF WholeTimestamps, WordsOf
  <2>. QED  BY <1>2, <2>1, <2>2, <2>3
<1>8. [Fifo!Next]_(Fifo!fifoVars)
  BY <1>1, FifoNext
<1>. QED
  BY <1>4, <1>5, <1>6, <1>7, <1>8
     DEF Fifo!Next, Fifo!fifoVars, Fifo!InvokeWrite, Fifo!Refuse, Fifo!InvokeRead,
         Fifo!Empty

(* Where only 64-bit calls are made, every timestamp a read returns is the *)
(* two halves of one write, for every ring size and wherever in the ring   *)
(* the pair wraps around: no half is ever lost, and none is ever paired    *)
(* with another's.                                                         *)
THEOREM TimestampsAreWhole == MCSpec => []OnlyWholeTimestamps
<1>1. MCInit => Init  BY DEF MCInit
<1>2. [MCNext]_<<vars, timestamps>> => [Next]_vars  BY DEF MCNext, vars
<1>3. WholeInv => OnlyWholeTimestamps  BY DEF WholeInv, OnlyWholeTimestamps
<1>. QED
  BY <1>1, <1>2, <1>3, InvInit, InvNext, WholeInit, WholeNext, PTL DEF MCSpec

=============================================================================
