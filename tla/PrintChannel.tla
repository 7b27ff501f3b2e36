---------------------------- MODULE PrintChannel ----------------------------
(***************************************************************************)
(* The print statement of a Cyclops program: compiled code pushes the      *)
(* arguments and calls PRINT (grammar.tpl, compiler.js), which copies them *)
(* to the first words of the PRU's data RAM and waits; the loader on the   *)
(* Linux side (pru_loader.c) polls that RAM, prints and acknowledges.      *)
(* Every access to the shared RAM is a step of its own.                    *)
(***************************************************************************)
EXTENDS Integers, SequencesExt

CONSTANTS Values,     \* what an argument may be
          MaxArgs,    \* bound: arguments of one print statement
          MaxPrints   \* bound: print statements executed

ASSUME PrintAssumption ==
  Values \subseteq Nat /\ MaxArgs \in Nat \ {0} /\ MaxPrints \in Nat

VARIABLES
  ram,      \* words 0 .. MaxArgs + 1 of the data RAM: status, argc, arguments
  pru,      \* the next instruction of the program, by name
  stack,    \* what is on the stack r1 points to, the top last
  left,     \* r2 in PRINT: arguments still to be copied
  to,       \* r4 in PRINT: the word it writes next
  loader,   \* where the loader is
  num_args, line,   \* what it has read of the message
  output,   \* the lines it has printed
  sent,     \* history: the arguments of every print statement so far
  early     \* history: the lines read from before PRINT had written them all

program == <<pru, stack, left, to, sent>>
linux == <<loader, num_args, line, output, early>>
vars == <<ram, program, linux>>

StatusIdle == 0       \* values of the status word
StatusPrint == 1
StatusTerminate == 2

(* The loader has cleared the RAM and started the program; what r1 points  *)
(* to is left over from the program before.                                *)
Init ==
  /\ ram = [w \in 0 .. MaxArgs + 1 |-> 0]
  /\ pru = "top" /\ stack \in {<< >>, <<0>>} /\ left = 0 /\ to = 0 /\ sent = << >>
  /\ loader = "poll" /\ num_args = 0 /\ line = << >> /\ output = << >>
  /\ early = {}

-----------------------------------------------------------------------------
(* The PRU.                                                                *)

(* Mutant: r1 is left as it was.                                           *)
BeginWithOldStack ==
  /\ pru = "top"
  /\ pru' = "run"
  /\ UNCHANGED <<ram, stack, left, to, sent, linux>>

(* TOP: the counters are switched on and r1 is set to the bottom of the    *)
(* stack.                                                                  *)
Begin ==
  /\ pru = "top"
  /\ stack' = << >> /\ pru' = "run"
  /\ UNCHANGED <<ram, left, to, sent, linux>>

(* Mutant: the arguments are pushed in the order they are written.         *)
PushedInOrder(args) == args \o <<Len(args)>>

(* The statement pushes its last argument first, and argc last.            *)
Pushed(args) == Reverse(args) \o <<Len(args)>>

CallPrint ==
  /\ pru = "run" /\ Len(sent) < MaxPrints
  /\ \E n \in 1 .. MaxArgs : \E args \in [1 .. n -> Values] :
       /\ stack' = stack \o Pushed(args)
       /\ sent' = Append(sent, args)
  /\ pru' = "status"
  /\ UNCHANGED <<ram, left, to, linux>>

(* Pop argc; the status word is the first word written ...                 *)
PrintStatus ==
  /\ pru = "status"
  /\ left' = Last(stack) /\ stack' = Front(stack)
  /\ ram' = [ram EXCEPT ![0] = StatusPrint]
  /\ to' = 1
  /\ pru' = "argc"
  /\ UNCHANGED <<sent, linux>>

(* ... then the number of arguments ...                                    *)
PrintArgc ==
  /\ pru = "argc"
  /\ ram' = [ram EXCEPT ![to] = left]
  /\ to' = to + 1
  /\ pru' = "loop"
  /\ UNCHANGED <<stack, left, sent, linux>>

(* ... then PRINT_LOOP pops and writes the arguments, one at least: r2 is  *)
(* tested after it has been counted down.                                  *)
PrintLoop ==
  /\ pru = "loop" /\ stack # << >>
  /\ ram' = [ram EXCEPT ![to] = Last(stack)]
  /\ stack' = Front(stack) /\ to' = to + 1 /\ left' = left - 1
  /\ pru' = IF left' # 0 THEN "loop" ELSE "wait"
  /\ UNCHANGED <<sent, linux>>

(* Mutant: PRINT returns without waiting for the loader.                   *)
PrintReturnsAtOnce ==
  /\ pru = "wait"
  /\ pru' = "run"
  /\ UNCHANGED <<ram, stack, left, to, sent, linux>>

(* Mutant: PRINT waits for the word after the status word.                 *)
PrintWaitsForArgc ==
  /\ pru = "wait" /\ ram[1] = StatusIdle
  /\ pru' = "run"
  /\ UNCHANGED <<ram, stack, left, to, sent, linux>>

(* PRINT_WAIT: return when the status word is zero again.                  *)
PrintWait ==
  /\ pru = "wait" /\ ram[0] = StatusIdle
  /\ pru' = "run"
  /\ UNCHANGED <<ram, stack, left, to, sent, linux>>

(* END: the program's last statement has been executed.                    *)
End ==
  /\ pru = "run"
  /\ ram' = [ram EXCEPT ![0] = StatusTerminate]
  /\ pru' = "halted"
  /\ UNCHANGED <<stack, left, to, sent, linux>>

-----------------------------------------------------------------------------
(* The loader.                                                             *)

(* The line of the print call under way was read from too soon.            *)
NoteRead == early' = IF pru = "wait" THEN early ELSE early \cup {Len(output) + 1}

(* The first test of the poll: is the status word 1, print?                *)
PollPrint ==
  /\ loader = "poll"
  /\ loader' = IF ram[0] = StatusPrint THEN "argc" ELSE "second_poll"
  /\ line' = << >>
  /\ UNCHANGED <<ram, program, num_args, output, early>>

(* The second, which loads the word again: is it 2, terminate?             *)
PollTerminate ==
  /\ loader = "second_poll"
  /\ loader' = IF ram[0] = StatusTerminate THEN "done" ELSE "poll"
  /\ UNCHANGED <<ram, program, num_args, line, output, early>>

ReadArgc ==
  /\ loader = "argc"
  /\ num_args' = ram[1] /\ NoteRead
  /\ loader' = "args"
  /\ UNCHANGED <<ram, program, line, output>>

ReadArg ==
  /\ loader = "args" /\ Len(line) < num_args
  /\ line' = Append(line, ram[2 + Len(line)]) /\ NoteRead
  /\ UNCHANGED <<ram, program, loader, num_args, output>>

(* All arguments are printed: end the line.                                *)
EndLine ==
  /\ loader = "args" /\ Len(line) = num_args
  /\ output' = Append(output, line)
  /\ loader' = "ack"
  /\ UNCHANGED <<ram, program, num_args, line, early>>

(* p is set back to the status word, and that is cleared.                  *)
Acknowledge ==
  /\ loader = "ack"
  /\ ram' = [ram EXCEPT ![0] = StatusIdle]
  /\ loader' = "poll"
  /\ UNCHANGED <<program, num_args, line, output, early>>

-----------------------------------------------------------------------------
Pru == Begin \/ PrintStatus \/ PrintArgc \/ PrintLoop \/ PrintWait
Loader == PollPrint \/ PollTerminate \/ ReadArgc \/ ReadArg \/ EndLine
            \/ Acknowledge

Next == CallPrint \/ End \/ Pru \/ Loader

(* A program may compute for ever, but PRINT is executed once it is called *)
(* and Linux keeps scheduling the loader's polling loop.                   *)
Spec == Init /\ [][Next]_vars /\ WF_vars(Pru) /\ WF_vars(Loader)

-----------------------------------------------------------------------------
(* PRINT leaves the stack as deep as it found it, however many arguments   *)
(* it was given, and pops nothing from below: a long-running program's     *)
(* stack does not creep, and PRINT_LOOP always comes to its end.           *)
StackBalanced ==
  /\ pru \in {"run", "halted"} => stack = << >>
  /\ pru = "loop" => left = Len(stack) /\ left # 0

(* A print is a rendezvous: it returns only when its line, and one line    *)
(* only, is out, so that no print overtakes or overwrites another and the  *)
(* termination signal is never seen before the last line is printed.       *)
OneLinePerPrint ==
  /\ Len(output) \in {Len(sent), Len(sent) - 1}
  /\ pru \in {"run", "halted"} => Len(output) = Len(sent)

(* A line the loader began to read after PRINT had written its last word   *)
(* shows the arguments of that print statement, in the order of the source.*)
LateReadsAreRight == \A k \in DOMAIN output : k \notin early => output[k] = sent[k]
=============================================================================
