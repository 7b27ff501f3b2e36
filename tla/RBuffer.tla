------------------------------ MODULE RBuffer ------------------------------
(***************************************************************************)
(* struct rbuffer of "C lib/include/nesl_pru_rbuffer.h": a ring of 32-bit  *)
(* slots in the memory the PRU and the host share, with one producer and   *)
(* one consumer on different processors and no lock.  Every access to the  *)
(* shared words c, p and buffer[i] is a step of its own, so a call of one  *)
(* side interleaves with a call of the other at any access.                *)
(*                                                                         *)
(* c is the slot the consumer read last, p the slot the producer fills     *)
(* next.  Only the consumer stores c and only the producer stores p, so    *)
(* each side's local copy of its own index is the index itself; the other  *)
(* side's index is loaded again wherever the code loads it again.          *)
(***************************************************************************)
EXTENDS Integers, Sequences

CONSTANTS RBUF_SIZE,    \* slots in the ring, 256 in the source
          Value,        \* the numbers a producer sends
          NoWord,       \* what memset leaves in a slot
          WriteWidths,  \* 1: uint32 writes are made, 2: uint64 writes are
          ReadWidths    \* 1: uint32 reads are made, 2: uint64 reads are

(* A uint64 is stored as its lower and then its upper 32 bits.             *)
Word == Value \X {"lower", "upper"}

ASSUME SizeAssumption == RBUF_SIZE \in Nat /\ RBUF_SIZE >= 2
ASSUME WidthAssumption == WriteWidths \subseteq {1, 2} /\ ReadWidths \subseteq {1, 2}
ASSUME NoWordAssumption == NoWord \notin Word

VARIABLES buffer, c, p,   \* the shared struct
          wpc,            \* where the producer is in its write
          wdata,          \* the words the write was called with
          wret,           \* the last write's return value: 0 is "ok", -1 "full"
          rpc,            \* where the consumer is in its read
          rn,             \* the words the read was called for
          rval,           \* the words the read has loaded so far
          rret            \* the words the last read returned, <<>> if status is -1

producerVars == <<p, wpc, wdata, wret>>
consumerVars == <<c, rpc, rn, rval, rret>>
vars == <<buffer, c, p, wpc, wdata, wret, rpc, rn, rval, rret>>

Slot == 0 .. RBUF_SIZE - 1
RBUF_IDX(i) == i % RBUF_SIZE

(* The word sequences of the two write calls.                              *)
WordsOf(v, width) ==
  IF width = 1 THEN << <<v, "lower">> >> ELSE << <<v, "lower">>, <<v, "upper">> >>
Writes == {WordsOf(v, width) : v \in Value, width \in WriteWidths}

Init == /\ buffer = [i \in Slot |-> NoWord]
        /\ c = 0 /\ p = 1
        /\ wpc = "idle" /\ wdata = << >> /\ wret = "none"
        /\ rpc = "idle" /\ rn = 0 /\ rval = << >> /\ rret = << >>

-----------------------------------------------------------------------------
(* rbuf_write_uint32 and rbuf_write_uint64.                                *)

CallWrite(ws) ==
  /\ wpc = "idle"
  /\ wpc' = "check" /\ wdata' = ws /\ wret' = "none"
  /\ UNCHANGED <<buffer, p, consumerVars>>

ReturnFull ==
  /\ wpc' = "idle" /\ wdata' = << >> /\ wret' = "full"
  /\ UNCHANGED <<buffer, p, consumerVars>>

(* if (p != rbuf->c                                                        *)
WriteCheck ==
  /\ wpc = "check"
  /\ IF p = c
       THEN ReturnFull
       ELSE /\ wpc' = IF Len(wdata) = 2 THEN "check2" ELSE "lower"
            /\ UNCHANGED <<buffer, p, wdata, wret, consumerVars>>

(* Mutant: the room for the upper half is not checked.                     *)
WriteCheckSecondDropped ==
  /\ wpc = "check2"
  /\ wpc' = "lower"
  /\ UNCHANGED <<buffer, p, wdata, wret, consumerVars>>

(* && RBUF_IDX(p+1) != rbuf->c), the uint64 call's second load of c.       *)
WriteCheckSecond ==
  /\ wpc = "check2"
  /\ IF RBUF_IDX(p + 1) = c
       THEN ReturnFull
       ELSE /\ wpc' = "lower"
            /\ UNCHANGED <<buffer, p, wdata, wret, consumerVars>>

WriteLower ==
  /\ wpc = "lower"
  /\ buffer' = [buffer EXCEPT ![p] = wdata[1]]
  /\ wpc' = IF Len(wdata) = 2 THEN "upper" ELSE "publish"
  /\ UNCHANGED <<p, wdata, wret, consumerVars>>

WriteUpper ==
  /\ wpc = "upper"
  /\ buffer' = [buffer EXCEPT ![RBUF_IDX(p + 1)] = wdata[2]]
  /\ wpc' = "publish"
  /\ UNCHANGED <<p, wdata, wret, consumerVars>>

(* Mutant: a uint64 is published as one word.                              *)
WritePublishOneWord ==
  /\ wpc = "publish"
  /\ p' = RBUF_IDX(p + 1)
  /\ wpc' = "idle" /\ wdata' = << >> /\ wret' = "ok"
  /\ UNCHANGED <<buffer, consumerVars>>

WritePublish ==
  /\ wpc = "publish"
  /\ p' = RBUF_IDX(p + Len(wdata))
  /\ wpc' = "idle" /\ wdata' = << >> /\ wret' = "ok"
  /\ UNCHANGED <<buffer, consumerVars>>

-----------------------------------------------------------------------------
(* rbuf_read_uint32 and rbuf_read_uint64.                                  *)

CallRead(n) ==
  /\ rpc = "idle"
  /\ rpc' = "check" /\ rn' = n /\ rval' = << >> /\ rret' = << >>
  /\ UNCHANGED <<buffer, c, producerVars>>

ReturnEmpty ==
  /\ rpc' = "idle" /\ rn' = 0
  /\ UNCHANGED <<buffer, c, rval, rret, producerVars>>

(* c = RBUF_IDX(rbuf->c+1); if (c != rbuf->p                               *)
ReadCheck ==
  /\ rpc = "check"
  /\ IF RBUF_IDX(c + 1) = p
       THEN ReturnEmpty
       ELSE /\ rpc' = IF rn = 2 THEN "check2" ELSE "lower"
            /\ UNCHANGED <<buffer, c, rn, rval, rret, producerVars>>

(* Mutant: one unread word is taken for a whole uint64.                    *)
ReadCheckSecondDropped ==
  /\ rpc = "check2"
  /\ rpc' = "lower"
  /\ UNCHANGED <<buffer, c, rn, rval, rret, producerVars>>

(* && RBUF_IDX(c+1) != rbuf->p), the uint64 call's second load of p.       *)
ReadCheckSecond ==
  /\ rpc = "check2"
  /\ IF RBUF_IDX(RBUF_IDX(c + 1) + 1) = p
       THEN ReturnEmpty
       ELSE /\ rpc' = "lower"
            /\ UNCHANGED <<buffer, c, rn, rval, rret, producerVars>>

ReadLower ==
  /\ rpc = "lower"
  /\ rval' = <<buffer[RBUF_IDX(c + 1)]>>
  /\ rpc' = IF rn = 2 THEN "upper" ELSE "commit"
  /\ UNCHANGED <<buffer, c, rn, rret, producerVars>>

ReadUpper ==
  /\ rpc = "upper"
  /\ rval' = <<rval[1], buffer[RBUF_IDX(RBUF_IDX(c + 1) + 1)]>>
  /\ rpc' = "commit"
  /\ UNCHANGED <<buffer, c, rn, rret, producerVars>>

ReadCommit ==
  /\ rpc = "commit"
  /\ c' = IF rn = 2 THEN RBUF_IDX(RBUF_IDX(c + 1) + 1) ELSE RBUF_IDX(c + 1)
  /\ rpc' = "idle" /\ rn' = 0 /\ rval' = << >> /\ rret' = rval
  /\ UNCHANGED <<buffer, producerVars>>

-----------------------------------------------------------------------------
Producer == \/ \E ws \in Writes : CallWrite(ws)
            \/ WriteCheck \/ WriteCheckSecond
            \/ WriteLower \/ WriteUpper \/ WritePublish

Consumer == \/ \E n \in ReadWidths : CallRead(n)
            \/ ReadCheck \/ ReadCheckSecond
            \/ ReadLower \/ ReadUpper \/ ReadCommit

Next == Producer \/ Consumer

Spec == Init /\ [][Next]_vars

-----------------------------------------------------------------------------
(* The words published and not yet consumed, and how many there are.       *)
Between(from, to) == IF to > from THEN to - from - 1 ELSE to - from - 1 + RBUF_SIZE
Unread == Between(c, p)
Queue == [k \in 1 .. Unread |-> buffer[RBUF_IDX(c + k)]]

Fifo == INSTANCE BoundedFifo WITH
          Capacity <- RBUF_SIZE - 1, Reads <- ReadWidths,
          queue <- Queue, wcall <- wdata, rcall <- rn

(* The type invariant of the shared struct and of both callers' locals.    *)
TypeOK ==
  /\ buffer \in [Slot -> Word \cup {NoWord}]
  /\ c \in Slot /\ p \in Slot
  /\ wpc \in {"idle", "check", "check2", "lower", "upper", "publish"}
  /\ wdata \in {<< >>} \cup Writes
  /\ wret \in {"none", "ok", "full"}
  /\ rpc \in {"idle", "check", "check2", "lower", "upper", "commit"}
  /\ rn \in {0} \cup ReadWidths
  /\ rval \in Seq(Word \cup {NoWord}) /\ rret \in Seq(Word \cup {NoWord})

(* No slot is stored by the producer while the consumer may load it: the   *)
(* producer's pending stores fall on slots that are not published, and the *)
(* consumer's pending loads on slots that are.  This is what lets the two  *)
(* processors share the ring without a lock.                               *)
WriterSlots == IF wpc \in {"lower", "upper", "publish"}
                 THEN {RBUF_IDX(p + k) : k \in 0 .. Len(wdata) - 1} ELSE {}
ReaderSlots == IF rpc \in {"lower", "upper", "commit"}
                 THEN {RBUF_IDX(c + k) : k \in 1 .. rn} ELSE {}
UnreadSlots == {RBUF_IDX(c + k) : k \in 1 .. Unread}
SlotOwnership == /\ WriterSlots \cap UnreadSlots = {}
                 /\ ReaderSlots \subseteq UnreadSlots

(* Why slots are owned: what each side has established by the time it is   *)
(* where it is in its call, and what the other side, which only ever moves *)
(* its index away, cannot take back.                                       *)
WriterInv ==
  /\ wpc = "idle" <=> wdata = << >>
  /\ wpc = "check2" => Len(wdata) = 2 /\ Unread < RBUF_SIZE - 1
  /\ wpc \in {"lower", "upper", "publish"} => Unread + Len(wdata) <= RBUF_SIZE - 1
  /\ wpc = "upper" => Len(wdata) = 2
  /\ wpc \in {"upper", "publish"} => buffer[p] = wdata[1]
  /\ wpc = "publish" /\ Len(wdata) = 2 => buffer[RBUF_IDX(p + 1)] = wdata[2]

ReaderInv ==
  /\ rpc = "idle" <=> rn = 0
  /\ rpc = "check2" => rn = 2 /\ Unread >= 1
  /\ rpc \in {"lower", "upper", "commit"} => Unread >= rn
  /\ rpc = "upper" => rn = 2 /\ rval = <<buffer[RBUF_IDX(c + 1)]>>
  /\ rpc = "commit" => rval = [k \in 1 .. rn |-> buffer[RBUF_IDX(c + k)]]

IInv == TypeOK /\ WriterInv /\ ReaderInv

(* When only uint64 calls are made, as the time synchronisation programs   *)
(* do, every timestamp a read returns is the lower and the upper half of   *)
(* one write, however the two calls interleave and wherever the pair wraps *)
(* around the end of the ring.                                             *)
WholeTimestamps == rret # << >> => \E v \in Value : rret = WordsOf(v, 2)

(* The ring implements the bounded queue of RBUF_SIZE - 1 words: words     *)
(* come out once, in the order they went in, a write is refused only when  *)
(* the ring is full, a read comes back empty only when it is.              *)
FifoSpec == Fifo!Spec
=============================================================================
