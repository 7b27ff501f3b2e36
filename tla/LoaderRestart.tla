--------------------------- MODULE LoaderRestart ---------------------------
(***************************************************************************)
(* The print channel when a loader is killed: nothing stops the PRU, which *)
(* goes on with its program.  The next loader clears the RAM, status word  *)
(* and stack alike, which looks like an acknowledgement to that program or *)
(* makes it run away, and only then stops the PRU and loads another        *)
(* (pru_loader.c).  PrintChannel has the steps of both sides in between.   *)
(***************************************************************************)
EXTENDS PrintChannel

CONSTANTS MaxKills    \* bound: loaders that are killed

ASSUME KillAssumption == MaxKills \in Nat

VARIABLES kills,
          unread,   \* words the loader has still to clear
          clean     \* history: the RAM was clear when the program was started

starting == <<kills, unread, clean>>
allvars == <<vars, starting>>

RestartInit == Init /\ kills = 0 /\ unread = {} /\ clean = TRUE

-----------------------------------------------------------------------------
(* The loader is killed, with the server that started it, at any point of  *)
(* its work; what it was about to do is forgotten.                         *)
Kill ==
  /\ loader # "done" /\ kills < MaxKills
  /\ kills' = kills + 1
  /\ loader' = "killed" /\ num_args' = 0 /\ line' = << >> /\ unread' = {}
  /\ UNCHANGED <<ram, program, output, early, clean>>

(* The stack lies above the message area in the same RAM; this is the word *)
(* of its i-th entry.                                                      *)
StackWord(i) == MaxArgs + 1 + i
StackWords == {StackWord(i) : i \in 1 .. MaxArgs + 1}

(* The next is started, with an output of its own.                         *)
Start ==
  /\ loader = "killed"
  /\ loader' = "memset" /\ unread' = DOMAIN ram \cup StackWords
  /\ output' = << >> /\ sent' = << >> /\ early' = {}
  /\ UNCHANGED <<ram, pru, stack, left, to, num_args, line, kills, clean>>

(* memset of the data RAM, a word at a time and from the beginning, the    *)
(* stack of the program in the PRU included: its words in any order, so    *)
(* that the pushes of a statement, which CallPrint does at once, may each  *)
(* come before or after the clearing of the word.                          *)
Memset ==
  /\ loader = "memset"
  /\ \E w \in unread :
       /\ w = Min(unread) \/ unread \subseteq StackWords
       /\ ram' = [v \in DOMAIN ram |-> IF v = w THEN 0 ELSE ram[v]]
       /\ stack' = [i \in DOMAIN stack |-> IF StackWord(i) = w THEN 0 ELSE stack[i]]
       /\ unread' = unread \ {w}
  /\ UNCHANGED <<pru, left, to, sent, linux, kills, clean>>

(* PRINT_LOOP when argc was cleared before it was popped: r2 is counted    *)
(* down from 0, which wraps, so that the loop goes on.  It pops what the   *)
(* statement has pushed (PrintLoop), then the words that lie below, clear  *)
(* ones or what such a loop has scattered, and writes on.  A left of -k    *)
(* stands for 2^32 - k; the model follows it to the end of the message     *)
(* area.                                                                   *)
PrintBelow ==
  /\ pru = "loop" /\ stack = << >> /\ to \in DOMAIN ram
  /\ \E word \in Values \cup {0} : ram' = [ram EXCEPT ![to] = word]
  /\ to' = to + 1 /\ left' = left - 1
  /\ UNCHANGED <<pru, stack, sent, linux>>

(* prussdrv_exec_program: the PRU is stopped, loaded and started.          *)
Execute ==
  /\ loader = "memset" /\ unread = {}
  /\ clean' = (ram[0] = StatusIdle)
  /\ pru' = "top" /\ left' = 0 /\ to' = 0
  /\ sent' = << >>
  /\ loader' = "poll"
  /\ UNCHANGED <<ram, stack, num_args, line, output, early, kills, unread>>

(* The program in the PRU, until the loader that sees it terminate (or     *)
(* thinks so) disables the PRU.                                            *)
Program == /\ loader # "done"
           /\ CallPrint \/ End \/ Pru \/ PrintBelow
           /\ UNCHANGED starting

LoaderRuns == Loader /\ UNCHANGED starting

RestartNext == Kill \/ Start \/ Memset \/ Execute \/ Program \/ LoaderRuns

(* Fairness as in PrintChannel, of the loader from its start on.  Nobody   *)
(* need start one.                                                         *)
RestartSpec ==
  /\ RestartInit /\ [][RestartNext]_allvars
  /\ WF_allvars(Pru /\ Program) /\ WF_allvars(Memset \/ Execute \/ LoaderRuns)

-----------------------------------------------------------------------------
Executing == loader \notin {"killed", "memset"}

(* A program's stack stays balanced from the step that starts it until its *)
(* loader is killed and the next one clears the RAM: what programs before  *)
(* have left on the stack or scattered below it, running away, and how     *)
(* they were interrupted, does not reach it.                               *)
StackStaysItsOwn == Executing => StackBalanced

(* A program that finds the RAM as its loader has cleared it prints as if  *)
(* there had been no other before: one line for each print ...             *)
CleanStartPrintsAll == clean /\ Executing => OneLinePerPrint

(* ... which, read after PRINT's last word, shows the print's arguments.   *)
CleanReadsAreRight == clean /\ Executing => LateReadsAreRight

(* One that does not, because the program before wrote to it between       *)
(* memset and exec, gets that program's line as its own or has one of its  *)
(* prints released by it: they are one line apart, whatever follows.       *)
OneGhostAtMost ==
  Executing => Len(output) \in Len(sent) - 1 .. Len(sent) + 1

(* Neither side is kept waiting by what a loader before has left: a print  *)
(* returns, unless the loader is killed too, or ended by mistake, and the  *)
(* loader ends when the program has, unless the RAM was not clear, where   *)
(* acknowledging the old program's line may erase the new one's end.       *)
NobodyIsStuck ==
  /\ (pru = "wait" /\ Executing) ~> (pru # "wait" \/ loader \in {"killed", "done"})
  /\ (pru = "halted" /\ Executing /\ clean) ~> loader \in {"killed", "done"}
=============================================================================
