------------------------------ MODULE Compiler ------------------------------
(***************************************************************************)
(* The Cyclops compiler: the actions of the grammar (views/grammar.tpl),   *)
(* which the parser runs while it reads a program, and the code around     *)
(* them (static/compiler.js).  The program is not a text here: each step   *)
(* reads whatever the grammar allows next, so the behaviours are all       *)
(* programs of up to MaxSize statements and factors.                       *)
(*                                                                         *)
(* The actions of an expression run when its operands have been read, that *)
(* is in postfix order: vals holds the operands read and not yet combined. *)
(* What the emitted code does to the registers is done to R as it is       *)
(* emitted, along the path that falls through all branches; only labels    *)
(* and jumps are kept as code, in asm.                                     *)
(***************************************************************************)
EXTENDS Integers, Sequences, FiniteSets

CONSTANTS base_free_reg, base_tmp_reg,  \* 5 and 25
          last_tmp_reg,                 \* 29
          Symbols,                      \* names of variables
          InputPins, OutputPins,        \* pins of pin_map with an input, an output
          Word, Literals, Ticks,        \* registers' values, those in programs, the counter's
          Alu(_, _, _),                 \* what the opcodes compute
          Less(_, _),                   \* < on words
          MaxSize, MaxOperands          \* bounds

Keywords == {"while", "if", "print", "pulse"}
Pins == InputPins \cup OutputPins

ASSUME RegisterAssumption ==
  /\ base_free_reg \in Nat /\ base_tmp_reg \in Nat /\ last_tmp_reg \in Nat
  /\ 4 < base_free_reg /\ base_free_reg <= base_tmp_reg
  /\ base_tmp_reg <= last_tmp_reg + 1
ASSUME DataAssumption ==
  /\ Symbols \cap Keywords = {} /\ "tick" \notin Symbols
  /\ Word # {} /\ Literals \subseteq Word /\ Ticks \subseteq Word
  /\ MaxSize \in Nat /\ MaxOperands \in Nat
  /\ \A op \in {"+", "-", "&", "|"}, a \in Word, b \in Word : Alu(op, a, b) \in Word
  /\ \A a \in Word, b \in Word : Less(a, b) \in BOOLEAN

VARIABLES
  reg_var_map, free_reg, tmp_reg, loop_cnt, pin_settings,  \* the initializer's
  asm,       \* window.asm_out_buf: its labels and jumps
  asm_src,   \* what compile() returned
  pc,        \* the rule the parser is in
  target,    \* what an Assignment assigns to
  vals,      \* the operands read
  fold,      \* the loop over tail an Expression or Term is in
  blocks,    \* the blocks that are open, by keyword and label number
  R,         \* the registers, as the code so far leaves them
  env,       \* history: the values the program means its variables to have
  used, meant,  \* history: the values last used, and those that were meant
  pinUses,   \* history: the pins used so far, and in which direction
  bare,      \* history: the ifs whose else has no braces
  size

alloc == <<reg_var_map, free_reg, env>>
code == <<asm, loop_cnt, asm_src>>
pins == <<pin_settings, pinUses>>
log == <<used, meant>>
vars == <<alloc, tmp_reg, code, pins, pc, target, vals, fold, blocks, R, log, bare, size>>

Registers == 2 .. last_tmp_reg
NoFold == [lhs |-> << >>]
Junk == CHOOSE v \in Word : TRUE
IntOp(v) == [type |-> "int", value |-> v, means |-> v]
RegOp(r, v) == [type |-> "reg", value |-> r, means |-> v]

Lbl(n, part) == [op |-> "label", n |-> n, part |-> part]
Jump(n, part) == [op |-> "jump", n |-> n, part |-> part]

Init ==
  /\ reg_var_map = << >> /\ free_reg = base_free_reg /\ env = << >>
  /\ tmp_reg = base_tmp_reg /\ loop_cnt = 0
  /\ pin_settings = << >> /\ pinUses = {}
  /\ asm = << >> /\ asm_src = << >> /\ pc = "Statement" /\ target = << >> /\ vals = << >>
  /\ fold = NoFold /\ blocks = << >> /\ bare = {} /\ size = 0
  /\ R = [r \in Registers |-> Junk]
  /\ used = << >> /\ meant = << >>

(* throw: parse() is left, and the exception is all that compile's caller  *)
(* gets to see.                                                            *)
Throw(message) ==
  /\ pc' = message
  /\ UNCHANGED <<alloc, tmp_reg, code, pins, target, vals, fold, blocks, R, log, bare>>

-----------------------------------------------------------------------------
(* assign_reg: the register of a symbol, a new one if it has none.         *)
NewReg(symbol) ==
  /\ free_reg' = free_reg + 1
  /\ reg_var_map' = [s \in DOMAIN reg_var_map \cup {symbol} |->
                       IF s = symbol THEN free_reg ELSE reg_var_map[s]]
  /\ env' = [s \in DOMAIN reg_var_map \cup {symbol} |->
               IF s = symbol THEN R[free_reg] ELSE env[s]]

(* Mutant: the first temporary register is given to a variable, too.       *)
assign_reg_one_more(symbol) ==
  IF symbol \in DOMAIN reg_var_map THEN UNCHANGED alloc
  ELSE free_reg <= base_tmp_reg /\ NewReg(symbol)

assign_reg(symbol) ==
  IF symbol \in DOMAIN reg_var_map THEN UNCHANGED alloc
  ELSE free_reg < base_tmp_reg /\ NewReg(symbol)

OutOfRegisters(symbol) ==
  /\ symbol \notin DOMAIN reg_var_map /\ free_reg >= base_tmp_reg
  /\ Throw("out of registers")

(* assign_tmp_reg and assign_tmp_reg_imm find n registers, or throw.       *)
TmpRegs(n) == tmp_reg + n - 1 <= last_tmp_reg
OutOfTmpRegs(n) == ~TmpRegs(n) /\ Throw("out of tmp registers")

(* assign_pin: a pin has the direction of its first use.                   *)
(* Mutant: the last use decides.                                           *)
ConflictIgnored(pin, dir) == FALSE

Conflict(pin, dir) == pin \in DOMAIN pin_settings /\ pin_settings[pin] # dir

assign_pin(pin, dir) ==
  /\ pin_settings' = [q \in DOMAIN pin_settings \cup {pin} |->
                        IF q = pin THEN dir ELSE pin_settings[q]]

-----------------------------------------------------------------------------
(* Factor, Term and Expression.                                            *)
InExpression ==
  /\ pc \in {"Assignment", "Print", "CondExpression"} /\ fold = NoFold

More == size < MaxSize /\ size' = size + 1
Operand == InExpression /\ More /\ Len(vals) < MaxOperands

Integer ==
  /\ Operand
  /\ \E v \in Literals : vals' = Append(vals, IntOp(v))
  /\ UNCHANGED <<alloc, tmp_reg, code, pins, pc, target, fold, blocks, R, log, bare>>

Identifier(x) ==
  /\ Operand
  /\ \/ /\ assign_reg(x)
        /\ vals' = Append(vals, RegOp(reg_var_map'[x], env'[x]))
        /\ UNCHANGED <<tmp_reg, code, pins, pc, target, fold, blocks, R, log, bare>>
     \/ OutOfRegisters(x)

(* tick, the cycle counter                                                 *)
Tick ==
  /\ Operand
  /\ \/ /\ TmpRegs(1) /\ tmp_reg' = tmp_reg + 1
        /\ \E v \in Ticks : /\ R' = [R EXCEPT ![tmp_reg] = v]
                            /\ vals' = Append(vals, RegOp(tmp_reg, v))
        /\ UNCHANGED <<alloc, code, pins, pc, target, fold, blocks, log, bare>>
     \/ OutOfTmpRegs(1)

(* The operands of a chain of operators have been read: the action takes a *)
(* register for the result ...                                             *)
Chain(ops) ==
  LET rest == Len(vals) - Len(ops) - 1
      tail == [k \in 1 .. Len(ops) |-> [op |-> ops[k], rhs |-> vals[rest + 1 + k]]]
  IN  /\ vals' = SubSeq(vals, 1, rest)
      /\ fold' = [lhs |-> vals[rest + 1], treg |-> tmp_reg, tail |-> tail]

(* Mutant: the register of the result is found, but not taken.             *)
ExpressionPeeks(ops) ==
  /\ InExpression /\ Len(vals) > Len(ops) /\ TmpRegs(1) /\ Chain(ops)
  /\ UNCHANGED <<tmp_reg, alloc, code, pins, pc, target, blocks, R, log, bare, size>>

Expression(ops) ==
  /\ InExpression /\ Len(vals) > Len(ops)
  /\ \/ /\ TmpRegs(1) /\ tmp_reg' = tmp_reg + 1
        /\ Chain(ops)
        /\ UNCHANGED <<alloc, code, pins, pc, target, blocks, R, log, bare, size>>
     \/ OutOfTmpRegs(1) /\ UNCHANGED size

(* ... and goes through tail.  An immediate on the left of a register is   *)
(* moved to the next register, which is not taken.                         *)
Combine(lhs, op, rhs) ==
  LET Of(regs, o) == IF o.type = "int" THEN o.value ELSE regs[o.value]
      moved == [R EXCEPT ![tmp_reg] = lhs.value]
  IN  IF lhs.type = "int" /\ rhs.type = "reg"
        THEN [moved EXCEPT ![fold.treg] = Alu(op, lhs.value, Of(moved, rhs))]
        ELSE [R EXCEPT ![fold.treg] = Alu(op, Of(R, lhs), Of(R, rhs))]

ExpressionLoop ==
  /\ fold # NoFold
  /\ LET lhs == fold.lhs
         op == Head(fold.tail).op
         rhs == Head(fold.tail).rhs
         result == RegOp(fold.treg, Alu(op, lhs.means, rhs.means))
         imm == lhs.type = "int" /\ rhs.type = "reg"
     IN  \/ /\ imm => TmpRegs(1)
            /\ R' = Combine(lhs, op, rhs)
            /\ IF Len(fold.tail) = 1
                 THEN fold' = NoFold /\ vals' = Append(vals, result)
                 ELSE /\ fold' = [fold EXCEPT !.lhs = result, !.tail = Tail(fold.tail)]
                      /\ UNCHANGED vals
            /\ UNCHANGED <<alloc, tmp_reg, code, pins, pc, target, blocks, log, bare, size>>
         \/ imm /\ OutOfTmpRegs(1) /\ UNCHANGED size

-----------------------------------------------------------------------------
(* Statements.  The parser tries every statement as an Assignment first,   *)
(* and Identifier takes a keyword for a name: the keyword gets a register. *)
AtStatement == pc = "Statement" /\ More

StartAssignment(t) ==
  /\ AtStatement
  /\ \/ /\ IF t \in Symbols THEN assign_reg(t) ELSE UNCHANGED alloc
        /\ pc' = "Assignment" /\ target' = t
        /\ UNCHANGED <<tmp_reg, code, pins, vals, fold, blocks, R, log, bare>>
     \/ t \in Symbols /\ OutOfRegisters(t)

Stored(o) == IF o.type = "int" THEN o.value ELSE R[o.value]
Log(u, m) == used' = u /\ meant' = m

reset_tmp_regs == tmp_reg' = base_tmp_reg
EndStatement == pc' = "Statement" /\ vals' = << >> /\ target' = << >>

AssignVariable(rhs) ==
  /\ target \in Symbols
  /\ R' = [R EXCEPT ![reg_var_map[target]] = Stored(rhs)]
  /\ env' = [env EXCEPT ![target] = rhs.means]
  /\ reset_tmp_regs /\ EndStatement
  /\ UNCHANGED <<reg_var_map, free_reg, code, pins, fold, blocks, log, bare>>

AssignTick(rhs) ==
  /\ target = "tick"
  /\ LET n == IF rhs.type = "int" THEN 2 ELSE 1
     IN  \/ /\ TmpRegs(n)
            /\ R' = [r \in Registers |-> CASE r = tmp_reg -> Junk
                                           [] n = 2 /\ r = tmp_reg + 1 -> rhs.value
                                           [] OTHER -> R[r]]
            /\ Log(<<IF n = 2 THEN rhs.value ELSE R'[rhs.value]>>, <<rhs.means>>)
            /\ reset_tmp_regs /\ EndStatement
            /\ UNCHANGED <<alloc, code, pins, fold, blocks, bare>>
         \/ OutOfTmpRegs(n)

AssignPin(rhs) ==
  /\ target \in Pins
  /\ CASE rhs.type # "int" -> Throw("not an integer literal")
       [] rhs.type = "int" /\ target \notin OutputPins -> Throw("cannot be used for output")
       [] rhs.type = "int" /\ target \in OutputPins /\ Conflict(target, "output") ->
            Throw("input and output")
       [] OTHER -> /\ assign_pin(target, "output")
                   /\ pinUses' = pinUses \cup {<<target, "output">>}
                   /\ reset_tmp_regs /\ EndStatement
                   /\ UNCHANGED <<alloc, code, fold, blocks, R, log, bare>>

Assignment ==
  /\ pc = "Assignment" /\ InExpression /\ Len(vals) = 1
  /\ AssignVariable(vals[1]) \/ AssignTick(vals[1]) \/ AssignPin(vals[1])
  /\ UNCHANGED size

StartPrint ==
  /\ AtStatement
  /\ \/ /\ assign_reg("print") /\ pc' = "Print"
        /\ UNCHANGED <<tmp_reg, code, pins, target, vals, fold, blocks, R, log, bare>>
     \/ OutOfRegisters("print")

(* The arguments are pushed from the last to the first, integers by way of *)
(* the next temporary register; then argc, and the call of PRINT, which    *)
(* uses r2 to r4.                                                          *)
PrintArguments ==
  /\ pc = "Print" /\ InExpression /\ vals # << >>
  /\ \/ /\ TmpRegs(1)
        /\ LET Overwritten(k) == vals[k].type = "reg" /\ vals[k].value = tmp_reg
                                 /\ \E j \in k + 1 .. Len(vals) : vals[j].type = "int"
           IN  Log([k \in DOMAIN vals |-> IF Overwritten(k) THEN << >> ELSE Stored(vals[k])],
                   [k \in DOMAIN vals |-> vals[k].means])
        /\ R' = [r \in Registers |->
                   IF r \in {2, 3, 4, tmp_reg} THEN Junk ELSE R[r]]
        /\ EndStatement
        /\ UNCHANGED <<alloc, tmp_reg, code, pins, fold, blocks, bare>>
     \/ OutOfTmpRegs(1)
  /\ UNCHANGED size

(* pulse(pin, duration): a loop of its own, with two temporary registers.  *)
Pulse(pin) ==
  /\ AtStatement
  /\ \/ /\ assign_reg("pulse")
        /\ pin \in OutputPins /\ TmpRegs(2) /\ ~Conflict(pin, "output")
        /\ assign_pin(pin, "output") /\ pinUses' = pinUses \cup {<<pin, "output">>}
        /\ asm' = asm \o <<Lbl(loop_cnt, ""), Jump(loop_cnt, "END"), Jump(loop_cnt, ""),
                           Lbl(loop_cnt, "END")>>
        /\ loop_cnt' = loop_cnt + 1
        /\ R' = [R EXCEPT ![tmp_reg] = Junk,
                          ![tmp_reg + 1] = Junk]
        /\ UNCHANGED <<tmp_reg, asm_src, pc, target, vals, fold, blocks, log, bare>>
     \/ OutOfRegisters("pulse")
     \/ pin \notin OutputPins /\ Throw("cannot be used for output")
     \/ OutOfTmpRegs(2)
     \/ Conflict(pin, "output") /\ Throw("input and output")

(* While and If_key put a label before the condition.                      *)
StartBlock(keyword) ==
  /\ AtStatement
  /\ \/ /\ assign_reg(keyword)
        /\ asm' = Append(asm, Lbl(loop_cnt, ""))
        /\ blocks' = Append(blocks, [key |-> keyword, n |-> loop_cnt])
        /\ pc' = "CondExpression"
        /\ UNCHANGED <<tmp_reg, loop_cnt, asm_src, pins, target, vals, fold, R, log, bare>>
     \/ OutOfRegisters(keyword)

(* The branch to the end of the block, if the condition does not hold.     *)
Branch ==
  /\ asm' = Append(asm, Jump(loop_cnt, "END")) /\ loop_cnt' = loop_cnt + 1
  /\ EndStatement /\ UNCHANGED asm_src

CondPin(pin) ==
  /\ pc = "CondExpression" /\ vals = << >> /\ fold = NoFold
  /\ \/ /\ pin \in InputPins /\ ~Conflict(pin, "input")
        /\ assign_pin(pin, "input") /\ pinUses' = pinUses \cup {<<pin, "input">>}
        /\ Branch
        /\ UNCHANGED <<alloc, tmp_reg, fold, blocks, R, log, bare>>
     \/ pin \notin InputPins /\ Throw("cannot be used for input")
     \/ pin \in InputPins /\ Conflict(pin, "input") /\ Throw("input and output")
  /\ UNCHANGED size

(* qbXX label, rhs, lhs branches if lhs XX rhs.                            *)
Jumps(opcode, lhs, rhs) ==
  CASE opcode = "qble" -> ~Less(rhs, lhs)
    [] opcode = "qbge" -> ~Less(lhs, rhs)
    [] opcode = "qblt" -> Less(lhs, rhs)
    [] opcode = "qbgt" -> Less(rhs, lhs)
    [] opcode = "qbne" -> lhs # rhs

Relations == {">", "<", ">=", "<=", "=="}
Opcode == [op \in Relations |->
             CASE op = ">" -> "qble" [] op = "<" -> "qbge" [] op = ">=" -> "qblt"
               [] op = "<=" -> "qbgt" [] op = "==" -> "qbne"]

Holds(op, a, b) ==
  CASE op = ">" -> Less(b, a) [] op = "<" -> Less(a, b) [] op = ">=" -> ~Less(a, b)
    [] op = "<=" -> ~Less(b, a) [] op = "==" -> a = b

(* Integers go through temporary registers, which are given back; those    *)
(* that the operands' own expressions have taken are not.                  *)
CondExpression(op) ==
  /\ pc = "CondExpression" /\ InExpression /\ Len(vals) = 2
  /\ LET lhs == vals[1]
         rhs == vals[2]
         n == Cardinality({k \in {1, 2} : vals[k].type = "int"})
         regs == [r \in Registers |->
                    CASE lhs.type = "int" /\ r = tmp_reg -> lhs.value
                      [] rhs.type = "int" /\ r = tmp_reg + n - 1 -> rhs.value
                      [] OTHER -> R[r]]
         Reg(o, r) == IF o.type = "int" THEN r ELSE o.value
     IN  \/ /\ n = 0 \/ TmpRegs(n)
            /\ R' = regs
            /\ Log(<<Jumps(Opcode[op], regs[Reg(lhs, tmp_reg)], regs[Reg(rhs, tmp_reg + n - 1)])>>,
                   <<~Holds(op, lhs.means, rhs.means)>>)
            /\ Branch
            /\ UNCHANGED <<alloc, tmp_reg, pins, fold, blocks, bare>>
         \/ n > 0 /\ OutOfTmpRegs(n)
  /\ UNCHANGED size

-----------------------------------------------------------------------------
(* The end of a block.                                                     *)
Top == blocks[Len(blocks)]
Pop == SubSeq(blocks, 1, Len(blocks) - 1)
ElseBlock == Append(Pop, [key |-> "else", n |-> Top.n])

EndLoop ==
  /\ Top.key = "while"
  /\ asm' = asm \o <<Jump(Top.n, ""), Lbl(Top.n, "END")>>
  /\ blocks' = Pop /\ UNCHANGED bare

(* No else; a block without one is taken for the else part all the same.   *)
EndIf ==
  /\ Top.key = "if"
  /\ asm' = Append(asm, Lbl(Top.n, "END"))
  /\ blocks' \in {Pop, ElseBlock} /\ UNCHANGED bare

(* else, with the braces or, as the grammar allows, without.               *)
Else ==
  /\ Top.key = "if"
  /\ asm' = asm \o <<Jump(Top.n, "ELSE_END"), Lbl(Top.n, "END")>>
  /\ \/ blocks' = ElseBlock /\ UNCHANGED bare
     \/ blocks' = Pop /\ bare' = bare \cup {Top.n}

(* Mutant: the label after the else part is left out.                      *)
EndElseUnlabelled ==
  /\ Top.key = "else"
  /\ blocks' = Pop /\ UNCHANGED <<asm, bare>>

EndElse ==
  /\ Top.key = "else"
  /\ asm' = Append(asm, Lbl(Top.n, "ELSE_END"))
  /\ blocks' = Pop /\ UNCHANGED bare

CloseBlock ==
  /\ pc = "Statement" /\ blocks # << >>
  /\ EndLoop \/ EndIf \/ Else \/ EndElse
  /\ UNCHANGED <<alloc, tmp_reg, loop_cnt, asm_src, pins, pc, target, vals, fold, R, log, size>>

(* The program has been read, compile() puts its result together: a line   *)
(* for every pin that was assigned, then the code.                         *)
compile ==
  /\ pc = "Statement" /\ blocks = << >>
  /\ pc' = "compiled"
  /\ asm_src' = [pin_configs |-> pin_settings, code |-> asm] /\ asm' = << >>
  /\ UNCHANGED <<alloc, tmp_reg, loop_cnt, pins, target, vals, fold, blocks, R, log, bare, size>>

-----------------------------------------------------------------------------
Chains == UNION {[1 .. n -> ops] : n \in 1 .. MaxOperands - 1,
                                   ops \in {{"+", "-"}, {"&", "|"}}}

Factor == Integer \/ Tick \/ \E x \in Symbols : Identifier(x)
Combining == ExpressionLoop \/ \E ops \in Chains : Expression(ops)
Starting == \/ \E t \in Symbols \cup Pins \cup {"tick"} : StartAssignment(t)
            \/ StartPrint \/ \E pin \in Pins : Pulse(pin)
            \/ \E keyword \in {"while", "if"} : StartBlock(keyword)
Ending == \/ Assignment \/ PrintArguments \/ CloseBlock \/ compile
          \/ \E pin \in Pins : CondPin(pin)
          \/ \E op \in Relations : CondExpression(op)

Next == Factor \/ Combining \/ Starting \/ Ending

Spec == Init /\ [][Next]_vars

-----------------------------------------------------------------------------
(* Whatever statements come between, each variable's register holds what    *)
(* the program last assigned to it: no register is given to two names, and  *)
(* no temporary, print or pulse overwrites one (assign_reg and the          *)
(* temporary registers).                                                    *)
VariablesKept == \A x \in DOMAIN reg_var_map : R[reg_var_map[x]] = env[x]

(* What is printed, stored into the cycle counter or branched on is the     *)
(* value of the expression in the program, however operands and immediates  *)
(* share the temporary registers while it is computed.                      *)
EveryUseIsMeant == used = meant

(* The code can be assembled: no label is defined twice, although nested    *)
(* blocks draw their numbers from one counter, first for the label and      *)
(* later for the branch; and in what compile() returns every branch has its *)
(* label, except the one over an else part without braces.                  *)
LabelsResolve ==
  /\ \A i, j \in DOMAIN asm : asm[i].op = "label" /\ asm[i] = asm[j] => i = j
  /\ pc = "compiled" =>
       \A i \in DOMAIN asm_src.code :
         LET c == asm_src.code[i]
         IN  c.op = "jump" => \/ \E j \in DOMAIN asm_src.code : asm_src.code[j] = Lbl(c.n, c.part)
                              \/ c.part = "ELSE_END" /\ c.n \in bare

(* The lines that set up the pins name every pin the code uses, in the one  *)
(* direction it is used in (README.md:121).                                 *)
PinsAreConfigured ==
  pc = "compiled" =>
    pinUses = {<<p, asm_src.pin_configs[p]>> : p \in DOMAIN asm_src.pin_configs}

(* README.md:119: temporary registers are scoped to the current statement.  *)
TempsScoped == pc = "Statement" => tmp_reg = base_tmp_reg
=============================================================================
