------------------------ MODULE LoaderRestartProofs ------------------------
(* The safety of a print statement, for every set of values, every number  *)
(* of arguments the RAM has room for and every number of statements: first *)
(* of one program with one loader, as PrintChannel has them, then when     *)
(* loaders are killed, any number of them.                                 *)
EXTENDS LoaderRestart, SequenceTheorems, TLAPS

(*************************** PrintChannel ***************************)

TypeOK ==
  /\ ram \in [0 .. MaxArgs + 1 -> Nat] /\ ram[1] \in 0 .. MaxArgs
  /\ pru \in {"top", "run", "status", "argc", "loop", "wait", "halted"}
  /\ stack \in Seq(Nat) /\ left \in Nat /\ to \in Nat
  /\ sent \in Seq(Seq(Nat)) /\ output \in Seq(Seq(Nat)) /\ line \in Seq(Nat)
  /\ loader \in {"poll", "second_poll", "argc", "args", "ack", "done"}
  /\ num_args \in 0 .. MaxArgs

(* The arguments of the print statement under way.                         *)
Args == sent[Len(sent)]

(* PRINT: what is still on the stack and what has been copied from it.     *)
InPrint == pru \in {"status", "argc", "loop", "wait"}
Uncopied == IF pru = "status" THEN Len(Args) ELSE left
ProgramInv ==
  /\ pru = "top" => Len(sent) = 0
  /\ pru \in {"run", "halted"} => Len(stack) = 0
  /\ InPrint =>
       /\ Len(sent) # 0 /\ Len(Args) \in 1 .. MaxArgs /\ Uncopied \in 0 .. Len(Args)
       /\ \A j \in 1 .. Uncopied : stack[j] = Args[Len(Args) - j + 1]
  /\ pru = "status" => Len(stack) = Len(Args) + 1 /\ stack[Len(Args) + 1] = Len(Args)
  /\ pru = "argc" => left = Len(Args) /\ to = 1
  /\ pru = "loop" => left # 0 /\ to = Len(Args) - left + 2
  /\ pru = "wait" => left = 0
  /\ pru \in {"argc", "loop", "wait"} => Len(stack) = left
  /\ pru \in {"loop", "wait"} =>
       ram[1] = Len(Args) /\ \A j \in 1 .. Len(Args) - left : ram[j + 1] = Args[j]

(* The status word, where the loader is and the lines it owes.             *)
Polling == {"poll", "second_poll"}
RendezvousInv ==
  /\ pru \in {"top", "run"} =>
       ram[0] = StatusIdle /\ loader \in Polling /\ Len(output) = Len(sent)
  /\ pru = "status" =>
       ram[0] = StatusIdle /\ loader \in Polling /\ Len(output) + 1 = Len(sent)
  /\ pru \in {"argc", "loop", "wait"} =>
       \/ /\ ram[0] = StatusPrint /\ loader \in Polling \cup {"argc", "args"}
          /\ Len(output) + 1 = Len(sent)
       \/ ram[0] = StatusPrint /\ loader = "ack" /\ Len(output) = Len(sent)
       \/ ram[0] = StatusIdle /\ loader \in Polling /\ Len(output) = Len(sent)
  /\ pru = "halted" =>
       /\ ram[0] = StatusTerminate /\ loader \in Polling \cup {"done"}
       /\ Len(output) = Len(sent)

(* A line none of which was read too soon is, so far, that of the call.    *)
ReadingInv ==
  /\ loader = "argc" => Len(line) = 0
  /\ loader = "args" => Len(line) <= num_args
  /\ loader = "args" /\ Len(output) + 1 \notin early =>
       /\ pru = "wait" /\ num_args = Len(Args)
       /\ \A j \in 1 .. Len(line) : line[j] = Args[j]
  /\ \A k \in 1 .. Len(output) : k \notin early => output[k] = sent[k]

IInv == TypeOK /\ ProgramInv /\ RendezvousInv /\ ReadingInv

-----------------------------------------------------------------------------
(* The stack: what is pushed and what is popped.                           *)
LEMMA WhatIsPushed ==
  ASSUME NEW n \in 1 .. MaxArgs, NEW args \in [1 .. n -> Values]
  PROVE  /\ args \in Seq(Nat) /\ Len(args) = n
         /\ Pushed(args) \in Seq(Nat) /\ Len(Pushed(args)) = n + 1
         /\ Pushed(args)[n + 1] = n
         /\ \A j \in 1 .. n : Pushed(args)[j] = args[n - j + 1]
<1>. DEFINE back == Reverse(args)
            count == <<n>>
<1>1. n \in Nat /\ n # 0 /\ args \in [1 .. n -> Nat]
  <2>1. MaxArgs \in Nat /\ Values \subseteq Nat
    BY PrintAssumption
  <2>2. \A k \in 1 .. n : args[k] \in Nat
    BY <2>1
  <2>. QED  BY <2>1, <2>2
<1>2. args \in Seq(Nat) /\ Len(args) = n
  BY <1>1
<1>3. back = [k \in 1 .. n |-> args[n - k + 1]]
  BY <1>2 DEF Reverse
<1>4. back \in Seq(Nat) /\ Len(back) = n
  <2>1. \A k \in 1 .. n : args[n - k + 1] \in Nat
    BY <1>1
  <2>. QED  BY <1>1, <1>3, <2>1
<1>5. count \in Seq(Nat) /\ Len(count) = 1 /\ count[1] = n
  BY <1>1
<1>6. Pushed(args) = back \o count
  BY <1>2 DEF Pushed
<1>. HIDE DEF back, count
<1>7. /\ Pushed(args) \in Seq(Nat) /\ Len(Pushed(args)) = n + 1
      /\ \A k \in 1 .. n + 1 : Pushed(args)[k] = IF k <= n THEN back[k] ELSE count[k - n]
  <2>1. /\ back \o count \in Seq(Nat) /\ Len(back \o count) = Len(back) + Len(count)
        /\ \A k \in 1 .. Len(back) + Len(count) :
             (back \o count)[k] = IF k <= Len(back) THEN back[k] ELSE count[k - Len(back)]
    BY <1>4, <1>5, ConcatProperties
  <2>. QED  BY <1>4, <1>5, <1>6, <2>1
<1>8. Pushed(args)[n + 1] = n
  BY <1>1, <1>5, <1>7
<1>9. ASSUME NEW j \in 1 .. n PROVE Pushed(args)[j] = args[n - j + 1]
  <2>1. j \in 1 .. n + 1 /\ j <= n
    BY <1>1
  <2>. QED  BY <1>3, <1>7, <2>1
<1>. QED  BY <1>2, <1>7, <1>8, <1>9

LEMMA WhatIsPopped ==
  ASSUME NEW q \in Seq(Nat), Len(q) # 0
  PROVE  /\ Len(q) \in Nat \ {0} /\ Last(q) = q[Len(q)] /\ Last(q) \in Nat
         /\ Front(q) \in Seq(Nat) /\ Len(Front(q)) = Len(q) - 1
         /\ \A j \in 1 .. Len(q) - 1 : Front(q)[j] = q[j]
<1>1. Len(q) \in Nat \ {0} /\ \A j \in 1 .. Len(q) : q[j] \in Nat
  BY LenProperties, ElementOfSeq
<1>2. \A j \in 1 .. Len(q) - 1 : q[j] \in Nat
  BY <1>1
<1>. DEFINE n == Len(q) - 1
            f == SubSeq(q, 1, n)
<1>3. /\ f \in Seq(Nat)
      /\ Len(f) = IF 1 <= n THEN n - 1 + 1 ELSE 0
      /\ \A j \in 1 .. n - 1 + 1 : f[j] = q[1 + j - 1]
  BY <1>1, <1>2, SubSeqProperties
<1>n. n \in Nat
  BY <1>1
<1>f. Front(q) = f
  BY DEF Front
<1>. HIDE DEF n, f
<1>4. ASSUME NEW j \in 1 .. n PROVE f[j] = q[j]
  <2>1. j \in 1 .. n - 1 + 1 /\ 1 + j - 1 = j
    BY <1>n
  <2>. QED  BY <1>3, <2>1
<1>5. Len(f) = n
  BY <1>3, <1>n
<1>6. Last(q) = q[Len(q)] /\ Last(q) \in Nat
  <2>1. Len(q) \in 1 .. Len(q)
    BY <1>1
  <2>. QED  BY <1>1, <2>1 DEF Last
<1>. QED  BY <1>1, <1>3, <1>4, <1>5, <1>6, <1>f DEF n

LEMMA WhatIsAppended ==
  ASSUME NEW S, NEW q \in Seq(S), NEW e \in S
  PROVE  /\ Append(q, e) \in Seq(S) /\ Len(q) \in Nat /\ Len(Append(q, e)) = Len(q) + 1
         /\ \A k \in 1 .. Len(q) : Append(q, e)[k] = q[k]
         /\ Append(q, e)[Len(q) + 1] = e
  BY AppendProperties, LenProperties

(* What the type invariant says of lengths.                                *)
LEMMA Lengths ==
  ASSUME TypeOK
  PROVE  /\ Len(stack) \in Nat /\ Len(sent) \in Nat /\ Len(output) \in Nat
         /\ Len(line) \in Nat /\ num_args \in Nat /\ MaxArgs \in Nat /\ MaxArgs # 0
         /\ Len(sent) # 0 => Args \in Seq(Nat) /\ Len(Args) \in Nat
<1>1. /\ Len(stack) \in Nat /\ Len(sent) \in Nat /\ Len(output) \in Nat
      /\ Len(line) \in Nat /\ num_args \in Nat /\ MaxArgs \in Nat /\ MaxArgs # 0
  BY LenProperties, PrintAssumption DEF TypeOK
<1>2. ASSUME Len(sent) # 0 PROVE Args \in Seq(Nat) /\ Len(Args) \in Nat
  <2>1. Len(sent) \in 1 .. Len(sent)
    BY <1>1, <1>2
  <2>2. Args \in Seq(Nat)
    BY <2>1, ElementOfSeq DEF TypeOK, Args
  <2>. QED  BY <2>2, LenProperties
<1>. QED  BY <1>1, <1>2

LEMMA InvInit == Init => IInv
<1>. SUFFICES ASSUME Init PROVE IInv
  OBVIOUS
<1>0. Len(<< >>) = 0 /\ MaxArgs \in Nat /\ MaxArgs # 0
  BY EmptySeq, PrintAssumption
<1>1. /\ pru = "top" /\ loader = "poll" /\ ram[0] = 0
      /\ Len(sent) = 0 /\ Len(output) = 0
  BY <1>0 DEF Init
<1>2. TypeOK
  <2>1. << >> \in Seq(Nat) /\ <<0>> \in Seq(Nat)
    BY EmptySeq
  <2>2. ram \in [0 .. MaxArgs + 1 -> Nat] /\ ram[1] \in 0 .. MaxArgs
    BY <1>0 DEF Init
  <2>3. sent \in Seq(Seq(Nat)) /\ output \in Seq(Seq(Nat)) /\ line \in Seq(Nat)
    BY EmptySeq DEF Init
  <2>4. stack \in Seq(Nat) /\ left \in Nat /\ to \in Nat
    BY <2>1 DEF Init
  <2>5. num_args \in 0 .. MaxArgs
    BY <1>0 DEF Init
  <2>. QED  BY <1>1, <2>2, <2>3, <2>4, <2>5 DEF TypeOK
<1>3. ProgramInv
  BY <1>1 DEF ProgramInv, InPrint
<1>4. RendezvousInv
  BY <1>1 DEF RendezvousInv, Polling, StatusIdle
<1>5. ReadingInv
  BY <1>1 DEF ReadingInv
<1>. QED  BY <1>2, <1>3, <1>4, <1>5 DEF IInv

(* The shared RAM as each store leaves it.                                 *)
LEMMA Store ==
  ASSUME NEW f \in [0 .. MaxArgs + 1 -> Nat], NEW w \in 0 .. MaxArgs + 1, NEW e \in Nat
  PROVE  /\ [f EXCEPT ![w] = e] \in [0 .. MaxArgs + 1 -> Nat]
         /\ [f EXCEPT ![w] = e][w] = e
         /\ \A v \in 0 .. MaxArgs + 1 : v # w => [f EXCEPT ![w] = e][v] = f[v]
  OBVIOUS

(* What a call does, in terms of the call's arguments.                     *)
LEMMA CallIs ==
  ASSUME IInv, CallPrint
  PROVE  \E n \in 1 .. MaxArgs : \E args \in [1 .. n -> Values] :
           /\ args \in Seq(Nat) /\ Len(args) = n /\ n \in Nat
           /\ sent' = Append(sent, args) /\ Len(sent') = Len(sent) + 1 /\ Args' = args
           /\ sent' \in Seq(Seq(Nat)) /\ \A k \in 1 .. Len(sent) : sent'[k] = sent[k]
           /\ stack' \in Seq(Nat) /\ Len(stack') = n + 1 /\ stack'[n + 1] = n
           /\ \A j \in 1 .. n : stack'[j] = args[n - j + 1]
<1>0. stack \in Seq(Nat) /\ sent \in Seq(Seq(Nat)) /\ Len(stack) = 0 /\ pru = "run"
  BY DEF IInv, TypeOK, ProgramInv, CallPrint
<1>1. PICK n \in 1 .. MaxArgs : \E args \in [1 .. n -> Values] :
        stack' = stack \o Pushed(args) /\ sent' = Append(sent, args)
  BY DEF CallPrint
<1>2. PICK args \in [1 .. n -> Values] :
        stack' = stack \o Pushed(args) /\ sent' = Append(sent, args)
  BY <1>1
<1>3. /\ args \in Seq(Nat) /\ Len(args) = n
      /\ Pushed(args) \in Seq(Nat) /\ Len(Pushed(args)) = n + 1
      /\ Pushed(args)[n + 1] = n
      /\ \A j \in 1 .. n : Pushed(args)[j] = args[n - j + 1]
  BY WhatIsPushed
<1>4. /\ sent' \in Seq(Seq(Nat)) /\ Len(sent) \in Nat /\ Len(sent') = Len(sent) + 1
      /\ \A k \in 1 .. Len(sent) : sent'[k] = sent[k]
      /\ sent'[Len(sent) + 1] = args
  BY <1>0, <1>2, <1>3, WhatIsAppended
<1>5. stack = << >>
  BY <1>0, EmptySeq
<1>6. stack' = Pushed(args)
  BY <1>2, <1>3, <1>5, ConcatEmptySeq
<1>7. Args' = args
  BY <1>4 DEF Args
<1>. QED  BY <1>2, <1>3, <1>4, <1>6, <1>7, PrintAssumption

LEMMA TypeNext == IInv /\ [Next]_vars => TypeOK'
<1>. SUFFICES ASSUME IInv, [Next]_vars PROVE TypeOK'
  OBVIOUS
<1>0. TypeOK /\ ProgramInv /\ RendezvousInv /\ ReadingInv
  BY DEF IInv
<1>l. /\ Len(stack) \in Nat /\ Len(sent) \in Nat /\ Len(output) \in Nat
      /\ Len(line) \in Nat /\ num_args \in Nat /\ MaxArgs \in Nat /\ MaxArgs # 0
      /\ Len(sent) # 0 => Args \in Seq(Nat) /\ Len(Args) \in Nat
  BY <1>0, Lengths
<1>t. /\ ram \in [0 .. MaxArgs + 1 -> Nat] /\ ram[1] \in 0 .. MaxArgs
      /\ stack \in Seq(Nat) /\ left \in Nat /\ to \in Nat
      /\ sent \in Seq(Seq(Nat)) /\ output \in Seq(Seq(Nat)) /\ line \in Seq(Nat)
  BY <1>0 DEF TypeOK
<1>. USE DEF TypeOK, program, linux, StatusIdle, StatusPrint, StatusTerminate
<1>1. CASE Begin
  BY <1>0, <1>1, EmptySeq DEF Begin
<1>2. CASE CallPrint
  BY <1>0, <1>2, CallIs DEF CallPrint
<1>3. CASE PrintStatus
  <2>1. Len(stack) # 0
    BY <1>0, <1>3, <1>l DEF PrintStatus, ProgramInv, InPrint
  <2>2. left' \in Nat /\ stack' \in Seq(Nat)
    BY <1>3, <1>t, <2>1, WhatIsPopped DEF PrintStatus
  <2>3. ram' \in [0 .. MaxArgs + 1 -> Nat] /\ ram'[1] = ram[1]
    BY <1>3, <1>l, <1>t, Store DEF PrintStatus
  <2>. QED  BY <1>0, <1>3, <2>2, <2>3 DEF PrintStatus
<1>4. CASE PrintArgc
  <2>1. to = 1 /\ left \in 0 .. MaxArgs
    BY <1>0, <1>4, <1>l DEF PrintArgc, ProgramInv, InPrint, Uncopied
  <2>2. ram' \in [0 .. MaxArgs + 1 -> Nat] /\ ram'[1] = left
    BY <1>4, <1>l, <1>t, <2>1, Store DEF PrintArgc
  <2>. QED  BY <1>0, <1>4, <2>1, <2>2 DEF PrintArgc
<1>5. CASE PrintLoop
  <2>1. Len(stack) = left /\ left # 0 /\ left <= Len(Args) /\ Len(Args) \in 1 .. MaxArgs
        /\ to = Len(Args) - left + 2
    BY <1>0, <1>5, <1>l DEF PrintLoop, ProgramInv, InPrint, Uncopied
  <2>2. to \in 2 .. MaxArgs + 1
    BY <1>l, <1>t, <2>1
  <2>3. Last(stack) \in Nat /\ stack' \in Seq(Nat)
    BY <1>5, <1>t, <2>1, WhatIsPopped DEF PrintLoop
  <2>4. ram' \in [0 .. MaxArgs + 1 -> Nat] /\ ram'[1] = ram[1]
    <3>1. ram' = [ram EXCEPT ![to] = Last(stack)]
      BY <1>5 DEF PrintLoop
    <3>2. to \in 0 .. MaxArgs + 1 /\ 1 \in 0 .. MaxArgs + 1 /\ to # 1
      BY <1>l, <2>2
    <3>. QED  BY <1>t, <2>3, <3>1, <3>2, Store
  <2>5. to' = to + 1 /\ left' = left - 1 /\ pru' \in {"loop", "wait"}
        /\ UNCHANGED <<sent, linux>>
    BY <1>5 DEF PrintLoop
  <2>6. to' \in Nat /\ left' \in Nat
    BY <1>t, <2>1, <2>5
  <2>. QED  BY <1>0, <2>3, <2>4, <2>5, <2>6
<1>6. CASE PrintWait
  BY <1>0, <1>6 DEF PrintWait
<1>7. CASE End
  <2>1. ram' \in [0 .. MaxArgs + 1 -> Nat] /\ ram'[1] = ram[1]
    BY <1>7, <1>l, <1>t, Store DEF End
  <2>. QED  BY <1>0, <1>7, <2>1 DEF End
<1>8. CASE PollPrint
  BY <1>0, <1>8, EmptySeq DEF PollPrint
<1>9. CASE PollTerminate
  BY <1>0, <1>9 DEF PollTerminate
<1>10. CASE ReadArgc
  BY <1>0, <1>10 DEF ReadArgc
<1>11. CASE ReadArg
  <2>1. ram[2 + Len(line)] \in Nat
    <3>1. Len(line) < num_args /\ num_args \in 0 .. MaxArgs
      BY <1>0, <1>11 DEF ReadArg
    <3>2. 2 + Len(line) \in 0 .. MaxArgs + 1
      BY <1>l, <3>1
    <3>. QED  BY <1>t, <3>2
  <2>2. line' \in Seq(Nat)
    BY <1>11, <1>t, <2>1, WhatIsAppended DEF ReadArg
  <2>. QED  BY <1>0, <1>11, <2>2 DEF ReadArg
<1>12. CASE EndLine
  <2>1. output' \in Seq(Seq(Nat))
    BY <1>12, <1>t, WhatIsAppended DEF EndLine
  <2>. QED  BY <1>0, <1>12, <2>1 DEF EndLine
<1>13. CASE Acknowledge
  <2>1. ram' \in [0 .. MaxArgs + 1 -> Nat] /\ ram'[1] = ram[1]
    BY <1>13, <1>l, <1>t, Store DEF Acknowledge
  <2>. QED  BY <1>0, <1>13, <2>1 DEF Acknowledge
<1>14. CASE UNCHANGED vars
  BY <1>0, <1>14 DEF vars
<1>. QED  BY <1>1, <1>2, <1>3, <1>4, <1>5, <1>6, <1>7, <1>8, <1>9, <1>10, <1>11, <1>12,
             <1>13, <1>14 DEF Next, Pru, Loader

LEMMA ProgramNext == IInv /\ [Next]_vars => ProgramInv'
<1>. SUFFICES ASSUME IInv, [Next]_vars PROVE ProgramInv'
  OBVIOUS
<1>0. TypeOK /\ ProgramInv /\ RendezvousInv /\ ReadingInv
  BY DEF IInv
<1>l. /\ Len(stack) \in Nat /\ Len(sent) \in Nat /\ Len(output) \in Nat
      /\ Len(line) \in Nat /\ num_args \in Nat /\ MaxArgs \in Nat /\ MaxArgs # 0
      /\ Len(sent) # 0 => Args \in Seq(Nat) /\ Len(Args) \in Nat
  BY <1>0, Lengths
<1>t. /\ ram \in [0 .. MaxArgs + 1 -> Nat] /\ ram[1] \in 0 .. MaxArgs
      /\ stack \in Seq(Nat) /\ left \in Nat /\ to \in Nat
      /\ sent \in Seq(Seq(Nat)) /\ output \in Seq(Seq(Nat)) /\ line \in Seq(Nat)
  BY <1>0 DEF TypeOK
<1>. USE DEF program, linux, StatusIdle, StatusPrint, StatusTerminate
<1>1. CASE Begin
  BY <1>0, <1>1, EmptySeq DEF Begin, ProgramInv, InPrint
<1>2. CASE CallPrint
  <2>1. pru' = "status"
    BY <1>2 DEF CallPrint
  <2>2. PICK n \in 1 .. MaxArgs : \E args \in [1 .. n -> Values] :
          /\ Len(args) = n /\ n \in Nat /\ Len(sent') = Len(sent) + 1 /\ Args' = args
          /\ Len(stack') = n + 1 /\ stack'[n + 1] = n
          /\ \A j \in 1 .. n : stack'[j] = args[n - j + 1]
    BY <1>2, CallIs
  <2>3. /\ Len(Args') = n /\ n \in Nat /\ Len(sent') # 0
        /\ Len(stack') = n + 1 /\ stack'[n + 1] = n
        /\ \A j \in 1 .. n : stack'[j] = Args'[n - j + 1]
    BY <1>l, <2>2
  <2>4. Uncopied' = n /\ n \in 0 .. n
    BY <2>1, <2>3 DEF Uncopied
  <2>. QED  BY <2>1, <2>3, <2>4 DEF ProgramInv, InPrint
<1>3. CASE PrintStatus
  <2>1. /\ pru = "status" /\ pru' = "argc" /\ to' = 1 /\ left' = Last(stack)
        /\ stack' = Front(stack) /\ sent' = sent
    BY <1>3 DEF PrintStatus
  <2>2. /\ Len(sent) # 0 /\ Len(Args) \in 1 .. MaxArgs /\ Args' = Args
        /\ Len(stack) = Len(Args) + 1 /\ stack[Len(Args) + 1] = Len(Args)
        /\ \A j \in 1 .. Len(Args) : stack[j] = Args[Len(Args) - j + 1]
    BY <1>0, <2>1 DEF ProgramInv, InPrint, Uncopied, Args
  <2>3. /\ left' = Len(Args) /\ Len(stack') = Len(Args)
        /\ \A j \in 1 .. Len(stack) - 1 : stack'[j] = stack[j]
    <3>1. Len(stack) # 0
      BY <1>l, <2>2
    <3>2. /\ Last(stack) = stack[Len(stack)] /\ Len(Front(stack)) = Len(stack) - 1
          /\ \A j \in 1 .. Len(stack) - 1 : Front(stack)[j] = stack[j]
      BY <1>t, <3>1, WhatIsPopped
    <3>. QED  BY <1>l, <2>1, <2>2, <3>2
  <2>4. \A j \in 1 .. left' : stack'[j] = Args[Len(Args) - j + 1]
    BY <1>l, <2>2, <2>3
  <2>5. Uncopied' = left' /\ left' \in 0 .. Len(Args)
    BY <1>l, <2>1, <2>2, <2>3 DEF Uncopied
  <2>. QED  BY <2>1, <2>2, <2>3, <2>4, <2>5 DEF ProgramInv, InPrint
<1>4. CASE PrintArgc
  <2>1. /\ pru = "argc" /\ pru' = "loop" /\ ram' = [ram EXCEPT ![to] = left] /\ to' = to + 1
        /\ UNCHANGED <<stack, left, sent>>
    BY <1>4 DEF PrintArgc
  <2>2. /\ Len(sent) # 0 /\ Len(Args) \in 1 .. MaxArgs /\ Args' = Args
        /\ Uncopied = left /\ Uncopied' = left /\ left = Len(Args) /\ to = 1 /\ Len(stack) = left
        /\ left # 0
        /\ \A j \in 1 .. left : stack[j] = Args[Len(Args) - j + 1]
    BY <1>0, <1>l, <2>1 DEF ProgramInv, InPrint, Uncopied, Args
  <2>3. ram'[1] = left
    BY <1>l, <1>t, <2>1, <2>2, Store
  <2>4. to' = Len(Args) - left + 2 /\ 1 .. Len(Args) - left = {} /\ left \in 0 .. Len(Args)
    BY <1>l, <2>1, <2>2
  <2>. QED  BY <2>1, <2>2, <2>3, <2>4 DEF ProgramInv, InPrint
<1>5. CASE PrintLoop
  <2>1. /\ pru = "loop" /\ ram' = [ram EXCEPT ![to] = Last(stack)]
        /\ stack' = Front(stack) /\ to' = to + 1 /\ left' = left - 1
        /\ pru' = IF left' # 0 THEN "loop" ELSE "wait"
        /\ sent' = sent
    BY <1>5 DEF PrintLoop
  <2>. DEFINE n == Len(Args)
  <2>2. /\ Len(sent) # 0 /\ n \in 1 .. MaxArgs /\ n \in Nat /\ Args' = Args
        /\ Len(stack) = left /\ left \in 1 .. n /\ to = n - left + 2 /\ ram[1] = n
        /\ Uncopied = left /\ Uncopied' = left'
    BY <1>0, <1>l, <2>1 DEF ProgramInv, InPrint, Uncopied, Args
  <2>3. /\ \A j \in 1 .. left : stack[j] = Args[n - j + 1]
        /\ \A j \in 1 .. n - left : ram[j + 1] = Args[j]
    BY <1>0, <2>1, <2>2 DEF ProgramInv, InPrint
  <2>. HIDE DEF n
  <2>4. /\ Len(stack') = left' /\ Last(stack) = stack[left] /\ Last(stack) \in Nat
        /\ \A j \in 1 .. left - 1 : stack'[j] = stack[j]
    <3>1. Len(stack) # 0
      BY <2>2
    <3>2. /\ Last(stack) = stack[Len(stack)] /\ Len(Front(stack)) = Len(stack) - 1
          /\ \A j \in 1 .. Len(stack) - 1 : Front(stack)[j] = stack[j]
          /\ Last(stack) \in Nat
      BY <1>t, <3>1, WhatIsPopped
    <3>. QED  BY <2>1, <2>2, <3>2
  <2>5. to \in 2 .. MaxArgs + 1 /\ left' \in 0 .. n
    BY <1>l, <2>1, <2>2
  <2>6. /\ ram'[to] = Last(stack)
        /\ \A v \in 0 .. MaxArgs + 1 : v # to => ram'[v] = ram[v]
    <3>1. to \in 0 .. MaxArgs + 1
      BY <1>l, <2>5
    <3>. QED  BY <1>t, <2>1, <2>4, <3>1, Store
  <2>7. ASSUME NEW j \in 1 .. left' PROVE stack'[j] = Args[n - j + 1]
    <3>1. j \in 1 .. left - 1 /\ j \in 1 .. left
      BY <2>1, <2>2
    <3>. QED  BY <2>3, <2>4, <3>1
  <2>8. ram'[1] = n
    <3>1. 1 \in 0 .. MaxArgs + 1 /\ 1 # to
      BY <1>l, <2>5
    <3>. QED  BY <2>2, <2>6, <3>1
  <2>9. ASSUME NEW j \in 1 .. n - left' PROVE ram'[j + 1] = Args[j]
    <3>1. CASE j + 1 = to
      <4>1. j = n - left + 1 /\ left \in 1 .. left
        BY <2>2, <3>1
      <4>2. stack[left] = Args[n - left + 1]
        BY <2>3, <4>1
      <4>. QED  BY <2>4, <2>6, <3>1, <4>1, <4>2
    <3>2. CASE j + 1 # to
      <4>1. j \in 1 .. n - left /\ j + 1 \in 0 .. MaxArgs + 1
        BY <1>l, <2>1, <2>2, <3>2
      <4>. QED  BY <2>3, <2>6, <3>2, <4>1
    <3>. QED  BY <3>1, <3>2
  <2>10. pru' = "loop" => to' = n - left' + 2
    BY <2>1, <2>2
  <2>. QED  BY <2>1, <2>2, <2>4, <2>5, <2>7, <2>8, <2>9, <2>10 DEF ProgramInv, InPrint, n
<1>6. CASE PrintWait
  BY <1>0, <1>6, <1>t, <1>l DEF PrintWait, ProgramInv, InPrint
<1>7. CASE End
  BY <1>0, <1>7 DEF End, ProgramInv, InPrint
<1>8. CASE PollPrint \/ PollTerminate \/ ReadArgc \/ ReadArg \/ EndLine
  <2>1. UNCHANGED <<ram, program>>
    BY <1>8 DEF PollPrint, PollTerminate, ReadArgc, ReadArg, EndLine
  <2>. QED  BY <1>0, <2>1 DEF ProgramInv, InPrint, Uncopied, Args
<1>9. CASE Acknowledge
  <2>1. ram' = [ram EXCEPT ![0] = 0] /\ UNCHANGED program
    BY <1>9 DEF Acknowledge
  <2>2. \A v \in 1 .. MaxArgs + 1 : ram'[v] = ram[v]
    BY <1>l, <1>t, <2>1
  <2>3. pru \in {"loop", "wait"} =>
          ram'[1] = Len(Args) /\ \A j \in 1 .. Len(Args) - left : ram'[j + 1] = Args[j]
    <3>. SUFFICES ASSUME pru \in {"loop", "wait"}
                  PROVE  ram'[1] = Len(Args)
                         /\ \A j \in 1 .. Len(Args) - left : ram'[j + 1] = Args[j]
      OBVIOUS
    <3>1. /\ Len(Args) \in 1 .. MaxArgs /\ ram[1] = Len(Args)
          /\ \A j \in 1 .. Len(Args) - left : ram[j + 1] = Args[j]
      BY <1>0 DEF ProgramInv, InPrint
    <3>2. ASSUME NEW j \in 1 .. Len(Args) - left PROVE ram'[j + 1] = Args[j]
      <4>1. j + 1 \in 1 .. MaxArgs + 1
        BY <1>l, <1>t, <3>1
      <4>. QED  BY <2>2, <3>1, <4>1
    <3>3. 1 \in 1 .. MaxArgs + 1
      BY <1>l
    <3>. QED  BY <2>2, <3>1, <3>2, <3>3
  <2>. QED  BY <1>0, <2>1, <2>3 DEF ProgramInv, InPrint, Uncopied, Args
<1>10. CASE UNCHANGED vars
  BY <1>0, <1>10 DEF vars, ProgramInv, InPrint, Uncopied, Args
<1>. QED  BY <1>1, <1>2, <1>3, <1>4, <1>5, <1>6, <1>7, <1>8, <1>9, <1>10
          DEF Next, Pru, Loader

LEMMA RendezvousNext == IInv /\ [Next]_vars => RendezvousInv'
<1>. SUFFICES ASSUME IInv, [Next]_vars PROVE RendezvousInv'
  OBVIOUS
<1>0. TypeOK /\ ProgramInv /\ RendezvousInv /\ ReadingInv
  BY DEF IInv
<1>l. /\ Len(stack) \in Nat /\ Len(sent) \in Nat /\ Len(output) \in Nat
      /\ Len(line) \in Nat /\ num_args \in Nat /\ MaxArgs \in Nat /\ MaxArgs # 0
      /\ Len(sent) # 0 => Args \in Seq(Nat) /\ Len(Args) \in Nat
  BY <1>0, Lengths
<1>t. /\ ram \in [0 .. MaxArgs + 1 -> Nat] /\ ram[1] \in 0 .. MaxArgs
      /\ stack \in Seq(Nat) /\ left \in Nat /\ to \in Nat
      /\ sent \in Seq(Seq(Nat)) /\ output \in Seq(Seq(Nat)) /\ line \in Seq(Nat)
  BY <1>0 DEF TypeOK
<1>. USE DEF RendezvousInv, Polling, program, linux, StatusIdle, StatusPrint, StatusTerminate
<1>1. CASE Begin
  BY <1>0, <1>1 DEF Begin
<1>2. CASE CallPrint
  <2>1. Len(sent') = Len(sent) + 1
    BY <1>2, CallIs
  <2>. QED  BY <1>0, <1>2, <1>l, <2>1 DEF CallPrint
<1>3. CASE PrintStatus
  <2>1. ram'[0] = 1
    BY <1>3, <1>l, <1>t DEF PrintStatus
  <2>. QED  BY <1>0, <1>3, <2>1 DEF PrintStatus
<1>4. CASE PrintArgc \/ PrintLoop
  <2>1. pru \in {"argc", "loop"} /\ pru' \in {"loop", "wait"} /\ UNCHANGED <<loader, output, sent>>
    BY <1>4 DEF PrintArgc, PrintLoop
  <2>2. to # 0
    <3>1. CASE pru = "argc"
      BY <1>0, <3>1 DEF ProgramInv
    <3>2. CASE pru = "loop"
      <4>1. to = Len(Args) - left + 2 /\ left \in 0 .. Len(Args) /\ Len(Args) \in Nat
        BY <1>0, <1>l, <3>2 DEF ProgramInv, InPrint, Uncopied
      <4>. QED  BY <1>t, <4>1
    <3>. QED  BY <2>1, <3>1, <3>2
  <2>3. \/ ram' = [ram EXCEPT ![to] = left]
        \/ ram' = [ram EXCEPT ![to] = Last(stack)]
    BY <1>4 DEF PrintArgc, PrintLoop
  <2>4. ram'[0] = ram[0]
    <3>1. 0 \in 0 .. MaxArgs + 1
      BY <1>l
    <3>2. ram \in [0 .. MaxArgs + 1 -> Nat]
      BY <1>t
    <3>. QED  BY <2>2, <2>3, <3>1, <3>2
  <2>. QED  BY <1>0, <2>1, <2>4
<1>5. CASE PrintWait
  BY <1>0, <1>5 DEF PrintWait
<1>6. CASE End
  <2>1. ram'[0] = 2
    BY <1>6, <1>l, <1>t DEF End
  <2>. QED  BY <1>0, <1>6, <2>1 DEF End
<1>7. CASE PollPrint
  BY <1>0, <1>7 DEF PollPrint
<1>8. CASE PollTerminate
  BY <1>0, <1>8 DEF PollTerminate
<1>9. CASE ReadArgc
  BY <1>0, <1>9 DEF ReadArgc, TypeOK
<1>10. CASE ReadArg
  BY <1>0, <1>10 DEF ReadArg
<1>11. CASE EndLine
  <2>1. Len(output') = Len(output) + 1
    BY <1>11, <1>t, WhatIsAppended DEF EndLine
  <2>. QED  BY <1>0, <1>11, <1>l, <2>1 DEF EndLine, TypeOK
<1>12. CASE Acknowledge
  <2>1. ram'[0] = 0
    BY <1>12, <1>l, <1>t DEF Acknowledge
  <2>. QED  BY <1>0, <1>12, <2>1 DEF Acknowledge, TypeOK
<1>13. CASE UNCHANGED vars
  BY <1>0, <1>13 DEF vars
<1>. QED  BY <1>1, <1>2, <1>3, <1>4, <1>5, <1>6, <1>7, <1>8, <1>9, <1>10, <1>11, <1>12, <1>13
          DEF Next, Pru, Loader

LEMMA ReadingNext == IInv /\ [Next]_vars => ReadingInv'
<1>. SUFFICES ASSUME IInv, [Next]_vars PROVE ReadingInv'
  OBVIOUS
<1>0. TypeOK /\ ProgramInv /\ RendezvousInv /\ ReadingInv
  BY DEF IInv
<1>l. /\ Len(stack) \in Nat /\ Len(sent) \in Nat /\ Len(output) \in Nat
      /\ Len(line) \in Nat /\ num_args \in Nat /\ MaxArgs \in Nat /\ MaxArgs # 0
      /\ Len(sent) # 0 => Args \in Seq(Nat) /\ Len(Args) \in Nat
  BY <1>0, Lengths
<1>t. /\ ram \in [0 .. MaxArgs + 1 -> Nat] /\ ram[1] \in 0 .. MaxArgs
      /\ stack \in Seq(Nat) /\ left \in Nat /\ to \in Nat
      /\ sent \in Seq(Seq(Nat)) /\ output \in Seq(Seq(Nat)) /\ line \in Seq(Nat)
  BY <1>0 DEF TypeOK
<1>. USE DEF ReadingInv, program, linux
<1>1. CASE Begin
  BY <1>0, <1>1 DEF Begin, Args
<1>2. CASE CallPrint
  <2>1. /\ pru = "run" /\ UNCHANGED linux /\ loader \in Polling /\ Len(output) = Len(sent)
    BY <1>0, <1>2 DEF CallPrint, RendezvousInv
  <2>2. \A k \in 1 .. Len(sent) : sent'[k] = sent[k]
    BY <1>2, CallIs
  <2>. QED  BY <1>0, <2>1, <2>2 DEF Polling
<1>3. CASE PrintStatus \/ PrintArgc \/ PrintLoop
  <2>1. pru # "wait" /\ UNCHANGED <<linux, sent>>
    BY <1>3 DEF PrintStatus, PrintArgc, PrintLoop
  <2>. QED  BY <1>0, <2>1
<1>4. CASE PrintWait
  <2>1. loader \in Polling /\ UNCHANGED <<linux, sent>>
    BY <1>0, <1>4 DEF PrintWait, RendezvousInv, Polling, StatusIdle, StatusPrint
  <2>. QED  BY <1>0, <2>1 DEF Polling
<1>5. CASE End
  BY <1>0, <1>5 DEF End
<1>6. CASE PollPrint
  <2>1. Len(line') = 0
    BY <1>6, EmptySeq DEF PollPrint
  <2>. QED  BY <1>0, <1>6, <2>1 DEF PollPrint
<1>7. CASE PollTerminate
  BY <1>0, <1>7 DEF PollTerminate
<1>8. CASE ReadArgc
  <2>1. /\ loader = "argc" /\ Len(line) = 0 /\ num_args' = ram[1] /\ loader' = "args"
        /\ UNCHANGED <<line, output, program>>
    BY <1>0, <1>8 DEF ReadArgc
  <2>2. 1 .. Len(line) = {} /\ Len(line) <= ram[1]
    BY <1>t, <2>1
  <2>3. Len(output) + 1 \notin early' => pru = "wait" /\ ram[1] = Len(Args)
    BY <1>0, <1>8 DEF ReadArgc, NoteRead, ProgramInv
  <2>4. early \subseteq early'
    BY <1>8 DEF ReadArgc, NoteRead
  <2>. QED  BY <1>0, <2>1, <2>2, <2>3, <2>4 DEF Args
<1>9. CASE ReadArg
  <2>1. /\ loader = "args" /\ loader' = "args" /\ Len(line) < num_args
        /\ line' = Append(line, ram[2 + Len(line)]) /\ UNCHANGED <<num_args, output, program>>
    BY <1>9 DEF ReadArg
  <2>2. ram[2 + Len(line)] \in Nat
    <3>1. 2 + Len(line) \in 0 .. MaxArgs + 1
      BY <1>0, <1>l, <2>1 DEF TypeOK
    <3>. QED  BY <1>t, <3>1
  <2>3. /\ Len(line') = Len(line) + 1 /\ line'[Len(line) + 1] = ram[2 + Len(line)]
        /\ \A k \in 1 .. Len(line) : line'[k] = line[k]
    BY <1>t, <2>1, <2>2, WhatIsAppended
  <2>4. early \subseteq early' /\ (Len(output) + 1 \notin early' => pru = "wait")
    BY <1>9 DEF ReadArg, NoteRead
  <2>5. ASSUME Len(output) + 1 \notin early'
        PROVE  /\ pru = "wait" /\ num_args = Len(Args)
               /\ \A j \in 1 .. Len(line') : line'[j] = Args[j]
    <3>1. /\ pru = "wait" /\ num_args = Len(Args) /\ left = 0
          /\ \A j \in 1 .. Len(line) : line[j] = Args[j]
          /\ \A j \in 1 .. Len(Args) - left : ram[j + 1] = Args[j]
      BY <1>0, <2>1, <2>4, <2>5 DEF ProgramInv
    <3>2. ASSUME NEW j \in 1 .. Len(line') PROVE line'[j] = Args[j]
      <4>1. CASE j = Len(line) + 1
        <5>1. j \in 1 .. Len(Args) - left /\ j + 1 = 2 + Len(line)
          BY <1>l, <2>1, <3>1, <4>1
        <5>. QED  BY <2>3, <3>1, <4>1, <5>1
      <4>2. CASE j \in 1 .. Len(line)
        BY <2>3, <3>1, <4>2
      <4>. QED  BY <1>l, <2>3, <4>1, <4>2
    <3>. QED  BY <3>1, <3>2
  <2>6. Len(line') <= num_args
    BY <1>l, <2>1, <2>3
  <2>. QED  BY <1>0, <2>1, <2>4, <2>5, <2>6 DEF Args
<1>10. CASE EndLine
  <2>1. /\ loader = "args" /\ loader' = "ack" /\ Len(line) = num_args
        /\ output' = Append(output, line) /\ UNCHANGED <<early, sent>>
    BY <1>10 DEF EndLine
  <2>2. /\ Len(output') = Len(output) + 1 /\ output'[Len(output) + 1] = line
        /\ \A k \in 1 .. Len(output) : output'[k] = output[k]
    BY <1>t, <2>1, WhatIsAppended
  <2>3. Len(output) + 1 = Len(sent) /\ Len(sent) # 0
    BY <1>0, <1>l, <2>1 DEF RendezvousInv, Polling, TypeOK
  <2>4. ASSUME NEW k \in 1 .. Len(output'), k \notin early PROVE output'[k] = sent[k]
    <3>1. CASE k = Len(output) + 1
      <4>1. /\ Len(line) = Len(Args) /\ \A j \in 1 .. Len(line) : line[j] = Args[j]
            /\ Args \in Seq(Nat) /\ line \in Seq(Nat)
        BY <1>0, <1>l, <1>t, <2>1, <2>3, <2>4, <3>1
      <4>2. line = Args
        BY <4>1, SeqEqual
      <4>. QED  BY <2>2, <2>3, <3>1, <4>2 DEF Args
    <3>2. CASE k \in 1 .. Len(output)
      BY <1>0, <2>2, <2>4, <3>2
    <3>. QED  BY <1>l, <2>2, <3>1, <3>2
  <2>. QED  BY <2>1, <2>4
<1>11. CASE Acknowledge
  BY <1>0, <1>11 DEF Acknowledge
<1>12. CASE UNCHANGED vars
  BY <1>0, <1>12 DEF vars, Args
<1>. QED  BY <1>1, <1>2, <1>3, <1>4, <1>5, <1>6, <1>7, <1>8, <1>9, <1>10, <1>11, <1>12
          DEF Next, Pru, Loader

LEMMA InvNext == IInv /\ [Next]_vars => IInv'
  BY TypeNext, ProgramNext, RendezvousNext, ReadingNext DEF IInv

LEMMA Invariant == Spec => []IInv
  BY InvInit, InvNext, PTL DEF Spec

(* What the invariant is for.                                              *)
LEMMA InvBalanced == IInv => StackBalanced
<1>. SUFFICES ASSUME IInv PROVE StackBalanced
  OBVIOUS
<1>1. stack \in Seq(Nat)
  BY DEF IInv, TypeOK
<1>2. pru \in {"run", "halted"} => Len(stack) = 0
  BY DEF IInv, ProgramInv
<1>3. pru = "loop" => left = Len(stack) /\ left # 0
  BY DEF IInv, ProgramInv
<1>. QED  BY <1>1, <1>2, <1>3, EmptySeq DEF StackBalanced

LEMMA InvOneLine == IInv => OneLinePerPrint
<1>. SUFFICES ASSUME IInv PROVE OneLinePerPrint
  OBVIOUS
<1>1. TypeOK /\ Len(output) \in Nat /\ Len(sent) \in Nat
  BY Lengths DEF IInv
<1>2. Len(output) = Len(sent) \/ Len(output) + 1 = Len(sent)
  BY <1>1 DEF IInv, RendezvousInv, TypeOK
<1>3. pru \in {"run", "halted"} => Len(output) = Len(sent)
  BY DEF IInv, RendezvousInv
<1>. QED  BY <1>1, <1>2, <1>3 DEF OneLinePerPrint

LEMMA InvLateReads == IInv => LateReadsAreRight
<1>. SUFFICES ASSUME IInv, NEW k \in DOMAIN output, k \notin early
              PROVE  output[k] = sent[k]
  BY DEF LateReadsAreRight
<1>1. k \in 1 .. Len(output)
  BY LenProperties DEF IInv, TypeOK
<1>. QED  BY <1>1 DEF IInv, ReadingInv

-----------------------------------------------------------------------------
(* However many arguments the print statements of a program have, none of  *)
(* them leaves anything on the stack, and none takes what is below.        *)
THEOREM StackIsBalanced == Spec => []StackBalanced
  BY InvBalanced, Invariant, PTL

(* However PRINT's stores and the loader's polls and loads interleave, a   *)
(* print returns when one line is out, and the program ends after that.    *)
THEOREM PrintIsARendezvous == Spec => []OneLinePerPrint
  BY InvOneLine, Invariant, PTL

(* A line no word of which was loaded before PRINT had stored its last     *)
(* shows the statement's arguments in the order of the source: what        *)
(* compile, PRINT_LOOP and the loader each reverse or count comes out even.*)
THEOREM LateLinesAreRight == Spec => []LateReadsAreRight
  BY InvLateReads, Invariant, PTL

-----------------------------------------------------------------------------
(*************************** LoaderRestart **************************)

(* Types, also while no loader runs or one is starting: a program that was *)
(* left running writes what its own PRINT would.  r2, which counts below 0 *)
(* in a program that runs away, is an integer.                             *)
RestartTypeOK ==
  /\ ram \in [0 .. MaxArgs + 1 -> Nat] /\ ram[1] \in 0 .. MaxArgs
  /\ pru \in {"top", "run", "status", "argc", "loop", "wait", "halted"}
  /\ stack \in Seq(Nat) /\ left \in Int /\ to \in Nat
  /\ sent \in Seq(Seq(Nat)) /\ output \in Seq(Seq(Nat)) /\ line \in Seq(Nat)
  /\ loader \in {"poll", "second_poll", "argc", "args", "ack", "done", "killed", "memset"}
  /\ num_args \in 0 .. MaxArgs
  /\ clean \in BOOLEAN

(* The stack without reference to the statement it was filled by, which is *)
(* of no loader's record when that has been restarted meanwhile.  An argc  *)
(* is that of what lies below it or has been cleared; in the second case   *)
(* the loop, which never counts to 0 then, pops no argument it cannot      *)
(* store.                                                                  *)
StackInv ==
  /\ pru \in {"run", "halted", "wait"} => Len(stack) = 0
  /\ pru = "status" =>
       \E n \in 1 .. MaxArgs : Len(stack) = n + 1 /\ stack[n + 1] \in {0, n}
  /\ pru = "argc" => /\ to = 1 /\ Len(stack) <= MaxArgs
                     /\ left = 0 \/ left = Len(stack)
  /\ pru = "loop" => /\ to >= 2 /\ to + Len(stack) <= MaxArgs + 2
                     /\ left <= 0 \/ left = Len(stack)
  /\ pru = "wait" => left = 0

(* The argc of a program that no memset has met is still what was pushed.  *)
ArgcKept ==
  /\ pru = "status" => stack[Len(stack)] # 0
  /\ pru \in {"argc", "loop"} => left = Len(stack) /\ left # 0
OwnInv == Executing => ArgcKept

(* A loader that starts has printed nothing.                               *)
StartInv ==
  /\ loader \in {"killed", "memset"} => Len(line) = 0 /\ num_args = 0
  /\ loader = "memset" => Len(output) = 0

(* From a clean start on, program and loader are as if there had been no   *)
(* other.                                                                  *)
CleanInv == clean /\ Executing => IInv

RestartInv == RestartTypeOK /\ StackInv /\ OwnInv /\ StartInv /\ CleanInv

-----------------------------------------------------------------------------
LEMMA RestartInvInit == RestartInit => RestartInv
<1>. SUFFICES ASSUME RestartInit PROVE RestartInv
  OBVIOUS
<1>1. IInv
  BY InvInit DEF RestartInit
<1>2. pru = "top" /\ loader = "poll" /\ unread = {} /\ clean = TRUE
  BY DEF RestartInit, Init
<1>3. RestartTypeOK
  BY <1>1, <1>2 DEF IInv, TypeOK, RestartTypeOK
<1>4. StackInv /\ OwnInv /\ StartInv /\ CleanInv
  BY <1>1, <1>2 DEF StackInv, OwnInv, ArgcKept, StartInv, CleanInv
<1>. QED  BY <1>3, <1>4 DEF RestartInv

(* What a step of a program keeps, whatever loader it may have.            *)
LEMMA ProgramStep ==
  ASSUME RestartTypeOK, StackInv, CallPrint \/ End \/ Pru \/ PrintBelow
  PROVE  /\ ram' \in [0 .. MaxArgs + 1 -> Nat] /\ ram'[1] \in 0 .. MaxArgs
         /\ pru' \in {"top", "run", "status", "argc", "loop", "wait", "halted"}
         /\ stack' \in Seq(Nat) /\ left' \in Int /\ to' \in Nat
         /\ sent' \in Seq(Seq(Nat)) /\ UNCHANGED linux
         /\ StackInv' /\ (ArgcKept => ArgcKept')
<1>m. MaxArgs \in Nat /\ MaxArgs # 0
  BY PrintAssumption
<1>l. Len(stack) \in Nat /\ Len(sent) \in Nat
  BY LenProperties DEF RestartTypeOK
<1>t. /\ ram \in [0 .. MaxArgs + 1 -> Nat] /\ ram[1] \in 0 .. MaxArgs
      /\ stack \in Seq(Nat) /\ left \in Int /\ to \in Nat /\ sent \in Seq(Seq(Nat))
  BY DEF RestartTypeOK
<1>. USE DEF StatusIdle, StatusPrint, StatusTerminate
<1>1. CASE Begin
  <2>1. stack' \in Seq(Nat) /\ Len(stack') = 0 /\ pru' = "run"
    BY <1>1, EmptySeq DEF Begin
  <2>. QED  BY <1>t, <1>1, <2>1 DEF Begin, StackInv, ArgcKept
<1>2. CASE CallPrint
  <2>0. Len(stack) = 0 /\ pru' = "status" /\ UNCHANGED <<ram, left, to, linux>>
    BY <1>2 DEF CallPrint, StackInv
  <2>1. PICK n \in 1 .. MaxArgs : \E args \in [1 .. n -> Values] :
          stack' = stack \o Pushed(args) /\ sent' = Append(sent, args)
    BY <1>2 DEF CallPrint
  <2>2. PICK args \in [1 .. n -> Values] :
          stack' = stack \o Pushed(args) /\ sent' = Append(sent, args)
    BY <2>1
  <2>3. /\ args \in Seq(Nat) /\ Pushed(args) \in Seq(Nat)
        /\ Len(Pushed(args)) = n + 1 /\ Pushed(args)[n + 1] = n
    BY WhatIsPushed
  <2>4. stack' = Pushed(args)
    BY <1>t, <2>0, <2>2, <2>3, EmptySeq, ConcatEmptySeq
  <2>5. sent' \in Seq(Seq(Nat))
    BY <1>t, <2>2, <2>3, WhatIsAppended
  <2>6. stack'[Len(stack')] = n /\ n # 0
    BY <1>m, <2>3, <2>4
  <2>. QED  BY <1>t, <2>0, <2>3, <2>4, <2>5, <2>6 DEF StackInv, ArgcKept
<1>3. CASE PrintStatus
  <2>1. /\ pru' = "argc" /\ to' = 1 /\ left' = Last(stack) /\ stack' = Front(stack)
        /\ ram' = [ram EXCEPT ![0] = 1] /\ UNCHANGED <<sent, linux>>
    BY <1>3 DEF PrintStatus
  <2>2. PICK n \in 1 .. MaxArgs : Len(stack) = n + 1 /\ stack[n + 1] \in {0, n}
    BY <1>3 DEF PrintStatus, StackInv
  <2>3. /\ Last(stack) = stack[Len(stack)] /\ Last(stack) \in {0, n}
        /\ Front(stack) \in Seq(Nat) /\ Len(Front(stack)) = n
    <3>1. Len(stack) # 0 /\ Len(stack) - 1 = n
      BY <1>m, <2>2
    <3>2. /\ Last(stack) = stack[Len(stack)] /\ Front(stack) \in Seq(Nat)
          /\ Len(Front(stack)) = Len(stack) - 1
      BY <1>t, <3>1, WhatIsPopped
    <3>. QED  BY <2>2, <3>1, <3>2
  <2>4. ram' \in [0 .. MaxArgs + 1 -> Nat] /\ ram'[1] = ram[1]
    BY <1>m, <1>t, <2>1, Store
  <2>5. left' \in {0, n} /\ left' \in Int /\ to' \in Nat /\ stack' \in Seq(Nat)
        /\ Len(stack') = n /\ n <= MaxArgs
    BY <1>m, <2>1, <2>3
  <2>6. StackInv'
    BY <2>1, <2>5 DEF StackInv
  <2>7. ArgcKept => ArgcKept'
    BY <1>3, <2>1, <2>3, <2>5 DEF PrintStatus, ArgcKept
  <2>. QED  BY <1>t, <2>1, <2>4, <2>5, <2>6, <2>7
<1>4. CASE PrintArgc
  <2>1. /\ pru = "argc" /\ pru' = "loop" /\ to' = to + 1 /\ ram' = [ram EXCEPT ![to] = left]
        /\ UNCHANGED <<stack, left, sent, linux>>
    BY <1>4 DEF PrintArgc
  <2>2. /\ to = 1 /\ left \in 0 .. MaxArgs /\ Len(stack) <= MaxArgs
        /\ left = 0 \/ left = Len(stack)
    BY <1>m, <1>l, <2>1 DEF StackInv
  <2>3. ram' \in [0 .. MaxArgs + 1 -> Nat] /\ ram'[1] = left
    <3>1. to \in 0 .. MaxArgs + 1 /\ left \in Nat
      BY <1>m, <2>2
    <3>. QED  BY <1>t, <2>1, <2>2, <3>1, Store
  <2>4. StackInv'
    BY <1>m, <1>l, <2>1, <2>2 DEF StackInv
  <2>5. ArgcKept => ArgcKept'
    BY <2>1 DEF ArgcKept
  <2>. QED  BY <1>m, <1>t, <2>1, <2>2, <2>3, <2>4, <2>5
<1>5. CASE PrintLoop
  <2>1. /\ ram' = [ram EXCEPT ![to] = Last(stack)]
        /\ stack' = Front(stack) /\ to' = to + 1 /\ left' = left - 1
        /\ pru' = IF left' # 0 THEN "loop" ELSE "wait"
        /\ UNCHANGED <<sent, linux>>
    BY <1>5 DEF PrintLoop
  <2>2. /\ pru = "loop" /\ to >= 2 /\ to + Len(stack) <= MaxArgs + 2 /\ Len(stack) # 0
        /\ left <= 0 \/ left = Len(stack)
    BY <1>5, <1>t, EmptySeq DEF PrintLoop, StackInv
  <2>3. Last(stack) \in Nat /\ stack' \in Seq(Nat) /\ Len(stack') = Len(stack) - 1
    BY <1>t, <2>1, <2>2, WhatIsPopped
  <2>4. to \in 0 .. MaxArgs + 1 /\ 1 \in 0 .. MaxArgs + 1 /\ to # 1
    BY <1>m, <1>l, <1>t, <2>2
  <2>5. ram' \in [0 .. MaxArgs + 1 -> Nat] /\ ram'[1] = ram[1]
    BY <1>t, <2>1, <2>3, <2>4, Store
  <2>6. /\ to' \in Nat /\ left' \in Int /\ to' >= 2 /\ to' + Len(stack') <= MaxArgs + 2
        /\ left' <= 0 \/ left' = Len(stack')
    <3>. DEFINE n == Len(stack)
                m == Len(stack')
    <3>1. /\ n \in Nat /\ m = n - 1 /\ to' = to + 1 /\ left' = left - 1
          /\ to >= 2 /\ to + n <= MaxArgs + 2
          /\ left <= 0 \/ left = n
      BY <1>l, <2>1, <2>2, <2>3
    <3>. HIDE DEF n, m
    <3>2. to' \in Nat /\ left' \in Int /\ to' >= 2 /\ to' + m <= MaxArgs + 2
      BY <1>m, <1>t, <3>1
    <3>3. left' <= 0 \/ left' = m
      BY <1>t, <3>1
    <3>. QED  BY <3>2, <3>3 DEF m
  <2>7. pru' \in {"loop", "wait"} /\ (pru' = "loop" => left' # 0) /\ (pru' = "wait" => left' = 0)
    BY <2>1
  <2>8. pru' = "wait" => Len(stack') = 0
    BY <1>l, <1>t, <2>1, <2>2, <2>3, <2>7
  <2>9. StackInv'
    BY <2>6, <2>7, <2>8 DEF StackInv
  <2>10. ArgcKept => ArgcKept'
    BY <1>l, <1>t, <2>1, <2>2, <2>3, <2>7 DEF ArgcKept
  <2>. QED  BY <1>t, <2>1, <2>3, <2>5, <2>6, <2>7, <2>9, <2>10
<1>6. CASE PrintWait
  BY <1>t, <1>6 DEF PrintWait, StackInv, ArgcKept
<1>7. CASE End
  <2>1. ram' \in [0 .. MaxArgs + 1 -> Nat] /\ ram'[1] = ram[1]
    BY <1>m, <1>t, <1>7, Store DEF End
  <2>. QED  BY <1>t, <1>7, <2>1 DEF End, StackInv, ArgcKept
<1>8. CASE PrintBelow
  <2>1. PICK word \in Values \cup {0} : ram' = [ram EXCEPT ![to] = word]
    BY <1>8 DEF PrintBelow
  <2>2. /\ pru = "loop" /\ Len(stack) = 0 /\ to \in 0 .. MaxArgs + 1
        /\ to' = to + 1 /\ left' = left - 1 /\ UNCHANGED <<pru, stack, sent, linux>>
    BY <1>t, <1>8, EmptySeq DEF PrintBelow
  <2>3. to >= 2 /\ left <= 0
    BY <1>t, <2>2 DEF StackInv
  <2>4. ram' \in [0 .. MaxArgs + 1 -> Nat] /\ ram'[1] = ram[1]
    <3>1. word \in Nat /\ 1 \in 0 .. MaxArgs + 1 /\ to # 1
      BY <1>m, <2>3, PrintAssumption
    <3>. QED  BY <1>t, <2>1, <2>2, <3>1, Store
  <2>5. to' \in Nat /\ to' >= 2 /\ to' <= MaxArgs + 2 /\ left' \in Int /\ left' <= 0
    BY <1>m, <1>t, <2>2, <2>3
  <2>6. StackInv'
    BY <1>m, <2>2, <2>5 DEF StackInv
  <2>7. ~ArgcKept
    BY <2>2 DEF ArgcKept
  <2>. QED  BY <1>t, <2>2, <2>4, <2>5, <2>6, <2>7
<1>. QED  BY <1>1, <1>2, <1>3, <1>4, <1>5, <1>6, <1>7, <1>8 DEF Pru

(* What a step of a loader that is at work keeps.                          *)
LEMMA LoaderStep ==
  ASSUME RestartTypeOK, Loader
  PROVE  /\ ram' \in [0 .. MaxArgs + 1 -> Nat] /\ ram'[1] \in 0 .. MaxArgs
         /\ output' \in Seq(Seq(Nat)) /\ line' \in Seq(Nat) /\ num_args' \in 0 .. MaxArgs
         /\ loader \notin {"killed", "memset"}
         /\ loader' \in {"poll", "second_poll", "argc", "args", "ack", "done"}
         /\ UNCHANGED program
<1>m. MaxArgs \in Nat /\ MaxArgs # 0
  BY PrintAssumption
<1>t. /\ ram \in [0 .. MaxArgs + 1 -> Nat] /\ ram[1] \in 0 .. MaxArgs
      /\ output \in Seq(Seq(Nat)) /\ line \in Seq(Nat) /\ Len(line) \in Nat
      /\ num_args \in 0 .. MaxArgs
  BY LenProperties DEF RestartTypeOK
<1>. USE DEF StatusIdle, StatusPrint, StatusTerminate
<1>1. CASE PollPrint
  BY <1>t, <1>1, EmptySeq DEF PollPrint
<1>2. CASE PollTerminate
  BY <1>t, <1>2 DEF PollTerminate
<1>3. CASE ReadArgc
  BY <1>t, <1>3 DEF ReadArgc
<1>4. CASE ReadArg
  <2>1. ram[2 + Len(line)] \in Nat
    <3>0. Len(line) < num_args
      BY <1>4 DEF ReadArg
    <3>1. 2 + Len(line) \in 0 .. MaxArgs + 1
      BY <1>m, <1>t, <3>0
    <3>. QED  BY <1>t, <3>1
  <2>2. line' \in Seq(Nat)
    BY <1>4, <1>t, <2>1, WhatIsAppended DEF ReadArg
  <2>. QED  BY <1>t, <1>4, <2>2 DEF ReadArg
<1>5. CASE EndLine
  <2>1. output' \in Seq(Seq(Nat))
    BY <1>5, <1>t, WhatIsAppended DEF EndLine
  <2>. QED  BY <1>t, <1>5, <2>1 DEF EndLine
<1>6. CASE Acknowledge
  <2>1. ram' \in [0 .. MaxArgs + 1 -> Nat] /\ ram'[1] = ram[1]
    BY <1>m, <1>t, <1>6, Store DEF Acknowledge
  <2>. QED  BY <1>t, <1>6, <2>1 DEF Acknowledge
<1>. QED  BY <1>1, <1>2, <1>3, <1>4, <1>5, <1>6 DEF Loader

(* As long as its loader is at work, a program that started clean is one   *)
(* of PrintChannel.                                                        *)
LEMMA CleanStep ==
  ASSUME CleanInv, [Next]_vars, UNCHANGED clean, Executing' => Executing
  PROVE  CleanInv'
  BY InvNext DEF CleanInv

LEMMA RestartInvNext == RestartInv /\ [RestartNext]_allvars => RestartInv'
<1>. SUFFICES ASSUME RestartInv, [RestartNext]_allvars PROVE RestartInv'
  OBVIOUS
<1>0. RestartTypeOK /\ StackInv /\ OwnInv /\ StartInv /\ CleanInv
  BY DEF RestartInv
<1>m. MaxArgs \in Nat /\ MaxArgs # 0
  BY PrintAssumption
<1>e. << >> \in Seq(Nat) /\ << >> \in Seq(Seq(Nat)) /\ Len(<< >>) = 0
  BY EmptySeq
<1>1. CASE Kill
  <2>1. /\ loader' = "killed" /\ num_args' = 0 /\ line' = << >> /\ unread' = {}
        /\ UNCHANGED <<ram, pru, stack, left, to, sent, output, clean>>
    BY <1>1 DEF Kill, program
  <2>2. RestartTypeOK'
    BY <1>0, <1>m, <1>e, <2>1 DEF RestartTypeOK
  <2>3. StackInv' /\ OwnInv' /\ StartInv' /\ CleanInv'
    BY <1>0, <1>e, <2>1 DEF StackInv, OwnInv, StartInv, CleanInv, Executing
  <2>. QED  BY <2>2, <2>3 DEF RestartInv
<1>2. CASE Start
  <2>1. /\ loader' = "memset" /\ output' = << >> /\ sent' = << >> /\ loader = "killed"
        /\ UNCHANGED <<ram, pru, stack, left, to, num_args, line, clean>>
    BY <1>2 DEF Start
  <2>2. RestartTypeOK'
    BY <1>0, <1>e, <2>1 DEF RestartTypeOK
  <2>3. StackInv' /\ OwnInv' /\ StartInv' /\ CleanInv'
    BY <1>0, <1>e, <2>1 DEF StackInv, OwnInv, StartInv, CleanInv, Executing
  <2>. QED  BY <2>2, <2>3 DEF RestartInv
<1>3. CASE Memset
  <2>1. /\ loader = "memset" /\ UNCHANGED <<pru, left, to, sent>>
        /\ UNCHANGED <<loader, num_args, line, output, early, clean>>
    BY <1>3 DEF Memset, linux
  <2>2. PICK w : /\ ram' = [v \in DOMAIN ram |-> IF v = w THEN 0 ELSE ram[v]]
                 /\ stack' = [i \in DOMAIN stack |->
                                IF StackWord(i) = w THEN 0 ELSE stack[i]]
    BY <1>3 DEF Memset
  <2>3. ram' \in [0 .. MaxArgs + 1 -> Nat] /\ ram'[1] \in 0 .. MaxArgs
    <3>1. ram \in [0 .. MaxArgs + 1 -> Nat] /\ ram[1] \in 0 .. MaxArgs
      BY <1>0 DEF RestartTypeOK
    <3>2. 1 \in 0 .. MaxArgs + 1 /\ 0 \in 0 .. MaxArgs
      BY <1>m
    <3>. QED  BY <2>2, <3>1, <3>2
  <2>4. /\ stack' \in Seq(Nat) /\ Len(stack') = Len(stack)
        /\ \A i \in 1 .. Len(stack) : stack'[i] \in {0, stack[i]}
    <3>1. /\ Len(stack) \in Nat /\ DOMAIN stack = 1 .. Len(stack)
          /\ \A i \in 1 .. Len(stack) : stack[i] \in Nat
      BY <1>0, LenProperties, ElementOfSeq DEF RestartTypeOK
    <3>2. /\ stack' = [i \in 1 .. Len(stack) |->
                         IF StackWord(i) = w THEN 0 ELSE stack[i]]
          /\ \A i \in 1 .. Len(stack) :
               (IF StackWord(i) = w THEN 0 ELSE stack[i]) \in Nat
      BY <2>2, <3>1
    <3>. QED  BY <3>1, <3>2
  <2>5. RestartTypeOK'
    BY <1>0, <2>1, <2>3, <2>4 DEF RestartTypeOK
  <2>6. StackInv'
    <3>1. ASSUME pru = "status"
          PROVE  \E n \in 1 .. MaxArgs : Len(stack') = n + 1 /\ stack'[n + 1] \in {0, n}
      <4>1. PICK n \in 1 .. MaxArgs : Len(stack) = n + 1 /\ stack[n + 1] \in {0, n}
        BY <1>0, <3>1 DEF StackInv
      <4>2. n + 1 \in 1 .. Len(stack)
        BY <1>m, <4>1
      <4>. QED  BY <2>4, <4>1, <4>2
    <3>. QED  BY <1>0, <2>1, <2>4, <3>1 DEF StackInv
  <2>7. OwnInv' /\ StartInv' /\ CleanInv'
    BY <1>0, <2>1 DEF OwnInv, StartInv, CleanInv, Executing
  <2>. QED  BY <2>5, <2>6, <2>7 DEF RestartInv
<1>4. CASE Execute
  <2>1. /\ loader = "memset" /\ loader' = "poll" /\ pru' = "top" /\ left' = 0 /\ to' = 0
        /\ sent' = << >> /\ clean' = (ram[0] = StatusIdle)
        /\ UNCHANGED <<ram, stack, num_args, line, output, early>>
    BY <1>4 DEF Execute
  <2>2. RestartTypeOK'
    BY <1>0, <1>e, <2>1 DEF RestartTypeOK
  <2>3. StackInv' /\ OwnInv' /\ StartInv'
    BY <2>1 DEF StackInv, OwnInv, ArgcKept, StartInv
  <2>4. Len(output') = 0 /\ Len(sent') = 0
    BY <1>0, <1>e, <2>1 DEF StartInv
  <2>5. ASSUME clean' PROVE IInv'
    <3>1. ram'[0] = StatusIdle
      BY <2>1, <2>5
    <3>2. TypeOK'
      BY <2>1, <2>2 DEF RestartTypeOK, TypeOK
    <3>3. ProgramInv'
      BY <2>1, <2>4 DEF ProgramInv, InPrint
    <3>4. RendezvousInv'
      BY <2>1, <2>4, <3>1 DEF RendezvousInv, Polling
    <3>5. ReadingInv'
      BY <2>1, <2>4 DEF ReadingInv
    <3>. QED  BY <3>2, <3>3, <3>4, <3>5 DEF IInv
  <2>. QED  BY <2>2, <2>3, <2>5 DEF RestartInv, CleanInv
<1>5. CASE Program
  <2>1. /\ CallPrint \/ End \/ Pru \/ PrintBelow
        /\ UNCHANGED <<kills, unread, clean>>
    BY <1>5 DEF Program, starting
  <2>2. /\ ram' \in [0 .. MaxArgs + 1 -> Nat] /\ ram'[1] \in 0 .. MaxArgs
        /\ pru' \in {"top", "run", "status", "argc", "loop", "wait", "halted"}
        /\ stack' \in Seq(Nat) /\ left' \in Int /\ to' \in Nat
        /\ sent' \in Seq(Seq(Nat)) /\ UNCHANGED linux
        /\ StackInv' /\ (ArgcKept => ArgcKept')
    BY <1>0, <2>1, ProgramStep
  <2>3. UNCHANGED <<loader, num_args, line, output>>
    BY <2>2 DEF linux
  <2>4. RestartTypeOK' /\ StartInv'
    BY <1>0, <2>1, <2>2, <2>3 DEF RestartTypeOK, StartInv
  <2>5. Executing' <=> Executing
    BY <2>3 DEF Executing
  <2>6. OwnInv'
    BY <1>0, <2>2, <2>5 DEF OwnInv
  <2>7. CleanInv'
    <3>1. CASE CallPrint \/ End \/ Pru
      BY <1>0, <2>1, <2>5, <3>1, CleanStep DEF Next
    <3>2. CASE PrintBelow
      <4>1. Len(stack) = 0 /\ pru = "loop"
        BY <1>0, <3>2, EmptySeq DEF PrintBelow, RestartTypeOK
      <4>2. ~Executing
        BY <1>0, <4>1 DEF OwnInv, ArgcKept
      <4>. QED  BY <2>5, <4>2 DEF CleanInv
    <3>. QED  BY <2>1, <3>1, <3>2
  <2>. QED  BY <2>2, <2>4, <2>6, <2>7 DEF RestartInv
<1>6. CASE LoaderRuns
  <2>1. Loader /\ UNCHANGED <<kills, unread, clean>>
    BY <1>6 DEF LoaderRuns, starting
  <2>2. /\ ram' \in [0 .. MaxArgs + 1 -> Nat] /\ ram'[1] \in 0 .. MaxArgs
        /\ output' \in Seq(Seq(Nat)) /\ line' \in Seq(Nat) /\ num_args' \in 0 .. MaxArgs
        /\ loader \notin {"killed", "memset"}
        /\ loader' \in {"poll", "second_poll", "argc", "args", "ack", "done"}
        /\ UNCHANGED program
    BY <1>0, <2>1, LoaderStep
  <2>3. UNCHANGED <<pru, stack, left, to, sent>>
    BY <2>2 DEF program
  <2>4. RestartTypeOK' /\ StartInv'
    BY <1>0, <2>1, <2>2, <2>3 DEF RestartTypeOK, StartInv
  <2>5. StackInv' /\ OwnInv'
    BY <1>0, <2>2, <2>3 DEF StackInv, OwnInv, ArgcKept, Executing
  <2>6. CleanInv'
    <3>1. Next /\ (Executing' => Executing)
      BY <2>1, <2>2 DEF Next, Executing
    <3>. QED  BY <1>0, <2>1, <3>1, CleanStep
  <2>. QED  BY <2>4, <2>5, <2>6 DEF RestartInv
<1>7. CASE UNCHANGED allvars
  <2>1. /\ UNCHANGED vars /\ UNCHANGED <<kills, unread, clean>>
        /\ UNCHANGED <<ram, pru, stack, left, to, sent>>
        /\ UNCHANGED <<loader, num_args, line, output>>
    BY <1>7 DEF allvars, vars, starting, program, linux
  <2>2. RestartTypeOK' /\ StartInv' /\ StackInv' /\ OwnInv'
    BY <1>0, <2>1 DEF RestartTypeOK, StartInv, StackInv, OwnInv, ArgcKept, Executing
  <2>3. CleanInv'
    BY <1>0, <2>1, CleanStep DEF Executing
  <2>. QED  BY <2>2, <2>3 DEF RestartInv
<1>. QED  BY <1>1, <1>2, <1>3, <1>4, <1>5, <1>6, <1>7 DEF RestartNext

LEMMA RestartInvariant == RestartSpec => []RestartInv
  BY RestartInvInit, RestartInvNext, PTL DEF RestartSpec

-----------------------------------------------------------------------------
(* Whatever loaders are killed, and wherever the programs they leave run   *)
(* away to when the RAM is cleared under them, a program that its loader   *)
(* has started, and no loader since has met, leaves nothing on the stack   *)
(* and takes nothing from below it.                                        *)
THEOREM StackStaysBalanced == RestartSpec => []StackStaysItsOwn
<1>1. RestartInv => StackStaysItsOwn
  <2>. SUFFICES ASSUME RestartInv, Executing PROVE StackBalanced
    BY DEF StackStaysItsOwn
  <2>1. stack \in Seq(Nat) /\ (pru \in {"run", "halted"} => Len(stack) = 0)
    BY DEF RestartInv, RestartTypeOK, StackInv
  <2>2. pru = "loop" => left = Len(stack) /\ left # 0
    BY DEF RestartInv, OwnInv, ArgcKept
  <2>. QED  BY <2>1, <2>2, EmptySeq DEF StackBalanced
<1>. QED  BY <1>1, RestartInvariant, PTL

(* A program that finds the RAM as its loader has cleared it prints one    *)
(* line for each print, however many loaders were killed before its own.   *)
THEOREM CleanStartsPrint == RestartSpec => []CleanStartPrintsAll
<1>1. RestartInv => CleanStartPrintsAll
  BY InvOneLine DEF RestartInv, CleanInv, CleanStartPrintsAll
<1>. QED  BY <1>1, RestartInvariant, PTL

(* ... and those of its lines that were not read too soon are right.       *)
THEOREM CleanStartsRead == RestartSpec => []CleanReadsAreRight
<1>1. RestartInv => CleanReadsAreRight
  BY InvLateReads DEF RestartInv, CleanInv, CleanReadsAreRight
<1>. QED  BY <1>1, RestartInvariant, PTL
-----------------------------------------------------------------------------
(* How far a loader and a program that did not start clean can get apart.  *)
Holding == loader \in {"argc", "args", "ack"}
Waiting == pru \in {"argc", "loop", "wait"}

(* Acknowledgements less returns of PRINT: the line being acknowledged is  *)
(* already printed, the print under way already counted.                   *)
Extra == Len(output) - Len(sent) - (IF loader = "ack" THEN 1 ELSE 0)
           + (IF Waiting \/ pru = "status" THEN 1 ELSE 0)

(* A line of the program before is either still to be taken (nothing is    *)
(* ahead), or the loader has taken it and is one acknowledgement ahead for *)
(* good, or a print of the new program was released by it.                 *)
GhostInv == Executing =>
  /\ Waiting /\ ram[0] = 0 => ~Holding /\ Extra \in 1 .. 2
  /\ Waiting /\ ram[0] # 0 => ram[0] = 1 /\ Extra \in 0 .. 1
  /\ ~Waiting => Extra \in 0 .. 1
  /\ ~Waiting /\ (Holding \/ ram[0] = 1) => Extra = 0

LEMMA GhostInit == RestartInit => GhostInv
<1>. SUFFICES ASSUME RestartInit PROVE GhostInv
  OBVIOUS
<1>1. /\ pru = "top" /\ loader = "poll" /\ ram[0] = 0
      /\ Len(sent) = 0 /\ Len(output) = 0
  BY EmptySeq, PrintAssumption DEF RestartInit, Init
<1>. QED  BY <1>1 DEF GhostInv, Extra, Holding, Waiting

(* A statement of the program ...                                          *)
LEMMA GhostProgram ==
  ASSUME RestartTypeOK, StackInv, GhostInv, CallPrint \/ End \/ Pru \/ PrintBelow,
         loader # "done"
  PROVE  GhostInv'
<1>m. MaxArgs \in Nat /\ MaxArgs # 0
  BY PrintAssumption
<1>t. /\ ram \in [0 .. MaxArgs + 1 -> Nat] /\ Len(output) \in Nat /\ Len(sent) \in Nat
      /\ sent \in Seq(Seq(Nat)) /\ 0 \in 0 .. MaxArgs + 1
  BY <1>m, LenProperties DEF RestartTypeOK
<1>. USE DEF StatusIdle, StatusPrint, StatusTerminate, GhostInv, Extra, Holding, Waiting, Executing
<1>1. CASE Begin
  BY <1>t, <1>1 DEF Begin, linux
<1>2. CASE CallPrint
  <2>1. /\ pru = "run" /\ pru' = "status" /\ UNCHANGED <<ram, loader, output>>
    BY <1>2 DEF CallPrint, linux
  <2>2. Len(sent') = Len(sent) + 1
    <3>1. PICK n \in 1 .. MaxArgs : \E args \in [1 .. n -> Values] :
            sent' = Append(sent, args)
      BY <1>2 DEF CallPrint
    <3>2. PICK args \in [1 .. n -> Values] : sent' = Append(sent, args)
      BY <3>1
    <3>3. args \in Seq(Nat)
      BY WhatIsPushed
    <3>. QED  BY <1>t, <3>2, <3>3, WhatIsAppended
  <2>. QED  BY <1>t, <2>1, <2>2
<1>3. CASE PrintStatus
  <2>1. /\ pru = "status" /\ pru' = "argc" /\ ram' = [ram EXCEPT ![0] = 1]
        /\ UNCHANGED <<sent, loader, output>>
    BY <1>3 DEF PrintStatus, linux
  <2>2. ram'[0] = 1
    BY <1>t, <2>1
  <2>. QED  BY <1>t, <2>1, <2>2
<1>4. CASE PrintArgc
  <2>1. /\ pru = "argc" /\ pru' = "loop" /\ ram' = [ram EXCEPT ![to] = left]
        /\ to = 1 /\ UNCHANGED <<sent, loader, output>>
    BY <1>4 DEF PrintArgc, linux, StackInv
  <2>2. ram'[0] = ram[0]
    BY <1>t, <2>1
  <2>. QED  BY <1>t, <2>1, <2>2
<1>5. CASE PrintLoop
  <2>1. /\ pru = "loop" /\ pru' \in {"loop", "wait"} /\ ram' = [ram EXCEPT ![to] = Last(stack)]
        /\ to >= 2 /\ to \in Nat /\ UNCHANGED <<sent, loader, output>>
    BY <1>5 DEF PrintLoop, linux, StackInv, RestartTypeOK
  <2>2. ram'[0] = ram[0]
    BY <1>t, <2>1
  <2>. QED  BY <1>t, <2>1, <2>2
<1>6. CASE PrintWait
  BY <1>t, <1>6 DEF PrintWait, linux
<1>7. CASE End
  <2>1. /\ pru = "run" /\ pru' = "halted" /\ ram' = [ram EXCEPT ![0] = 2]
        /\ UNCHANGED <<sent, loader, output>>
    BY <1>7 DEF End, linux
  <2>2. ram'[0] = 2
    BY <1>t, <2>1
  <2>. QED  BY <1>t, <2>1, <2>2
<1>8. CASE PrintBelow
  <2>1. /\ pru = "loop" /\ to \in DOMAIN ram /\ to >= 2 /\ to \in Nat
        /\ UNCHANGED <<pru, sent, loader, output>>
        /\ \E word : ram' = [ram EXCEPT ![to] = word]
    BY <1>8 DEF PrintBelow, linux, StackInv, RestartTypeOK
  <2>2. ram'[0] = ram[0]
    BY <1>t, <2>1
  <2>. QED  BY <1>t, <2>1, <2>2
<1>. QED  BY <1>1, <1>2, <1>3, <1>4, <1>5, <1>6, <1>7, <1>8 DEF Pru

(* ... and a step of its loader.                                           *)
LEMMA GhostLoader ==
  ASSUME RestartTypeOK, GhostInv, Loader
  PROVE  GhostInv'
<1>m. MaxArgs \in Nat /\ MaxArgs # 0
  BY PrintAssumption
<1>t. /\ ram \in [0 .. MaxArgs + 1 -> Nat] /\ Len(output) \in Nat /\ Len(sent) \in Nat
      /\ output \in Seq(Seq(Nat)) /\ line \in Seq(Nat) /\ 0 \in 0 .. MaxArgs + 1
  BY <1>m, LenProperties DEF RestartTypeOK
<1>. USE DEF StatusIdle, StatusPrint, StatusTerminate, GhostInv, Extra, Holding, Waiting,
             Executing, program
<1>1. CASE PollPrint
  BY <1>t, <1>1 DEF PollPrint
<1>2. CASE PollTerminate
  BY <1>t, <1>2 DEF PollTerminate
<1>3. CASE ReadArgc
  BY <1>t, <1>3 DEF ReadArgc
<1>4. CASE ReadArg
  BY <1>t, <1>4 DEF ReadArg
<1>5. CASE EndLine
  <2>1. /\ loader = "args" /\ loader' = "ack" /\ UNCHANGED <<ram, pru, sent>>
        /\ Len(output') = Len(output) + 1
    BY <1>t, <1>5, WhatIsAppended DEF EndLine
  <2>. QED  BY <1>t, <2>1
<1>6. CASE Acknowledge
  <2>1. /\ loader = "ack" /\ loader' = "poll" /\ UNCHANGED <<pru, sent, output>>
        /\ ram'[0] = 0
    BY <1>t, <1>6 DEF Acknowledge
  <2>. QED  BY <1>t, <2>1
<1>. QED  BY <1>1, <1>2, <1>3, <1>4, <1>5, <1>6 DEF Loader

LEMMA GhostNext == RestartInv /\ GhostInv /\ [RestartNext]_allvars => GhostInv'
<1>. SUFFICES ASSUME RestartInv, GhostInv, [RestartNext]_allvars PROVE GhostInv'
  OBVIOUS
<1>0. RestartTypeOK /\ StackInv /\ StartInv
  BY DEF RestartInv
<1>1. CASE Kill \/ Start
  BY <1>1 DEF Kill, Start, GhostInv, Executing
<1>2. CASE Memset
  BY <1>2 DEF Memset, linux, GhostInv, Executing
<1>3. CASE Execute
  <2>1. /\ loader' = "poll" /\ pru' = "top" /\ Len(output') = 0 /\ Len(sent') = 0
    BY <1>0, <1>3, EmptySeq DEF Execute, StartInv
  <2>. QED  BY <2>1 DEF GhostInv, Extra, Holding, Waiting
<1>4. CASE Program
  BY <1>0, <1>4, GhostProgram DEF Program
<1>5. CASE LoaderRuns
  BY <1>0, <1>5, GhostLoader DEF LoaderRuns
<1>6. CASE UNCHANGED allvars
  BY <1>6 DEF allvars, vars, program, linux, GhostInv, Extra, Holding, Waiting, Executing
<1>. QED  BY <1>1, <1>2, <1>3, <1>4, <1>5, <1>6 DEF RestartNext

(* Whatever the program before writes between memset and exec, the prints  *)
(* of the new one and its lines are never more than one apart.             *)
THEOREM AtMostOneGhost == RestartSpec => []OneGhostAtMost
<1>1. RestartInv /\ GhostInv => OneGhostAtMost
  <2>. SUFFICES ASSUME RestartTypeOK, GhostInv, Executing
                PROVE  Len(output) \in Len(sent) - 1 .. Len(sent) + 1
    BY DEF RestartInv, OneGhostAtMost
  <2>1. Len(output) \in Nat /\ Len(sent) \in Nat
    BY LenProperties DEF RestartTypeOK
  <2>. QED  BY <2>1 DEF GhostInv, Extra, Holding, Waiting
<1>. QED  BY <1>1, GhostInit, GhostNext, RestartInvariant, PTL DEF RestartSpec
=============================================================================
