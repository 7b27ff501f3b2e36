---------------------------- MODULE BoundedFifo ----------------------------
(***************************************************************************)
(* What a struct rbuffer promises to its one producer and its one          *)
(* consumer: a first-in first-out queue of 32-bit words with room for      *)
(* Capacity words.  Each call is invoked, takes effect at one instant and  *)
(* returns.  A write puts all its words or none, and is refused only when  *)
(* they do not fit at that instant; a read takes all the words it asks for *)
(* or none, and comes back empty only when they are not there.             *)
(***************************************************************************)
EXTENDS Naturals, Sequences

CONSTANTS Word,      \* the values a slot can be given by a write
          Capacity,  \* words the queue has room for
          Writes,    \* the word sequences a producer may write
          Reads      \* the numbers of words a consumer may ask for

VARIABLES queue,     \* words written and not yet read, oldest first
          wcall,     \* words of the write under way, <<>> when there is none
          wret,      \* what the last write returned: "none", "ok" or "full"
          rcall,     \* words asked for by the read under way, 0 if none
          rret       \* what the last read returned: "none", or the words

fifoVars == <<queue, wcall, wret, rcall, rret>>

Init == /\ queue = << >>
        /\ wcall = << >>  /\ wret = "none"
        /\ rcall = 0      /\ rret = << >>

(* The producer calls rbuf_write_uint32 or rbuf_write_uint64.              *)
InvokeWrite(ws) ==
  /\ wcall = << >>
  /\ wcall' = ws /\ wret' = "none"
  /\ UNCHANGED <<queue, rcall, rret>>

(* The write succeeds: all its words are visible to the consumer at once.  *)
Put ==
  /\ wcall # << >>
  /\ Len(queue) + Len(wcall) <= Capacity
  /\ queue' = queue \o wcall
  /\ wcall' = << >> /\ wret' = "ok"
  /\ UNCHANGED <<rcall, rret>>

(* The write is refused, and only for lack of room.                        *)
Refuse ==
  /\ wcall # << >>
  /\ Len(queue) + Len(wcall) > Capacity
  /\ wcall' = << >> /\ wret' = "full"
  /\ UNCHANGED <<queue, rcall, rret>>

(* The consumer calls rbuf_read_uint32 or rbuf_read_uint64.                *)
InvokeRead(n) ==
  /\ rcall = 0
  /\ rcall' = n /\ rret' = << >>
  /\ UNCHANGED <<queue, wcall, wret>>

(* The read takes the oldest words, in order.                              *)
Take ==
  /\ rcall # 0
  /\ Len(queue) >= rcall
  /\ queue' = SubSeq(queue, rcall + 1, Len(queue))
  /\ rcall' = 0 /\ rret' = SubSeq(queue, 1, rcall)
  /\ UNCHANGED <<wcall, wret>>

(* The read finds too few words and takes none.                            *)
Empty ==
  /\ rcall # 0
  /\ Len(queue) < rcall
  /\ rcall' = 0
  /\ UNCHANGED <<queue, wcall, wret, rret>>

Next == \/ \E ws \in Writes : InvokeWrite(ws)
        \/ Put
        \/ Refuse
        \/ \E n \in Reads : InvokeRead(n)
        \/ Take
        \/ Empty

Spec == Init /\ [][Next]_fifoVars
=============================================================================
