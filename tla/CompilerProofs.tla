--------------------------- MODULE CompilerProofs ---------------------------
(* The compiler for any number of registers, any names, pins and word      *)
(* width, any opcodes, and programs and expressions of any length.         *)
EXTENDS Compiler, SequenceTheorems, FiniteSetTheorems, TLAPS

(* An operand as the grammar's actions pass it on, and one step of a tail. *)
Value == [type : {"int", "reg"}, value : Word \cup Registers, means : Word]
Op == {"+", "-", "&", "|"}
Pair == [op : Op, rhs : Value]
Fold == [lhs : Value, treg : Registers, tail : Seq(Pair)]
Label == [op : {"label", "jump"}, n : Nat, part : {"", "END", "ELSE_END"}]
Block == [key : {"while", "if", "else"}, n : Nat]

RegistersType ==
  /\ free_reg \in base_free_reg .. base_tmp_reg
  /\ tmp_reg \in base_tmp_reg .. last_tmp_reg + 1
  /\ DOMAIN reg_var_map \subseteq Symbols \cup Keywords
  /\ reg_var_map \in [DOMAIN reg_var_map -> base_free_reg .. free_reg - 1]
  /\ env \in [DOMAIN reg_var_map -> Word]
  /\ R \in [Registers -> Word]
  /\ vals \in Seq(Value)
  /\ fold = NoFold \/ fold \in Fold

(* No two names have the same register, an assignment's target has one,    *)
(* and each holds its variable's value.                                    *)
NamesInv ==
  /\ \A x, y \in DOMAIN reg_var_map : reg_var_map[x] = reg_var_map[y] => x = y
  /\ pc = "Assignment" /\ target \in Symbols => target \in DOMAIN reg_var_map
  /\ VariablesKept

(* An operand is worth what the program means, and its register is below   *)
(* top.                                                                    *)
Right(o, top) ==
  IF o.type = "int" THEN o.value = o.means
  ELSE o.value \in base_free_reg .. top - 1 /\ R[o.value] = o.means

(* While a chain is combined its result's register lies above those of all *)
(* operands still to be used.                                              *)
OperandsInv ==
  /\ \A k \in 1 .. Len(vals) : Right(vals[k], tmp_reg)
  /\ fold # NoFold =>
       /\ fold.treg \in base_tmp_reg .. tmp_reg - 1
       /\ Len(fold.tail) >= 1
       /\ Right(fold.lhs, fold.treg + 1)
       /\ \A k \in 1 .. Len(fold.tail) : Right(fold.tail[k].rhs, fold.treg)
       /\ \A k \in 1 .. Len(vals) : Right(vals[k], fold.treg)

ExpressionsInv == RegistersType /\ NamesInv /\ OperandsInv /\ EveryUseIsMeant

(* The pins' table is the uses so far.                                     *)
PinsInv ==
  /\ pinUses = {<<p, pin_settings[p]>> : p \in DOMAIN pin_settings}
  /\ PinsAreConfigured

(* Labels: which the code has, none of them twice; ...                     *)
CodeType == asm \in Seq(Label) /\ loop_cnt \in Nat /\ blocks \in Seq(Block)

Lines(s) == {s[i] : i \in 1 .. Len(s)}
Has(n, part) == Lbl(n, part) \in Lines(asm)
OnceIn(s) == \A i, j \in 1 .. Len(s) : s[i].op = "label" /\ s[i] = s[j] => i = j

(* ... which numbers have been drawn, the one of a block that begins being *)
(* counted with its branch; ...                                            *)
Reading == {"Statement", "Assignment", "Print"}
NumbersInv ==
  /\ \A c \in Lines(asm) : c.op = "label" =>
       /\ c.n <= loop_cnt /\ (pc \in Reading => c.n < loop_cnt)
       /\ c.n = loop_cnt => c.part = ""
  /\ \A b \in 1 .. Len(blocks) :
       /\ blocks[b].n <= loop_cnt
       /\ pc \in Reading \/ b # Len(blocks) => blocks[b].n < loop_cnt
  /\ pc = "CondExpression" =>
       blocks # << >> /\ Top.n = loop_cnt /\ Top.key \in {"while", "if"}

(* ... which labels an open block still owes; ...                          *)
BlocksInv ==
  /\ \A a, b \in 1 .. Len(blocks) : blocks[a].n = blocks[b].n => a = b
  /\ \A b \in 1 .. Len(blocks) :
       /\ blocks[b].key \in {"while", "if"} => Has(blocks[b].n, "")
       /\ blocks[b].key \in {"while", "if"} => ~Has(blocks[b].n, "END")
       /\ ~Has(blocks[b].n, "ELSE_END")

(* ... and where each jump goes, at once or in the end.                    *)
Opens(n, keys) == \E b \in 1 .. Len(blocks) : blocks[b].n = n /\ blocks[b].key \in keys
Lands(c) == \/ Has(c.n, c.part)
            \/ c.part = "END" /\ Opens(c.n, {"while", "if"})
            \/ c.part = "ELSE_END" /\ (c.n \in bare \/ Opens(c.n, {"else"}))
JumpsInv == \A c \in Lines(asm) : c.op = "jump" => Lands(c)

LabelsInv ==
  CodeType /\ OnceIn(asm) /\ NumbersInv /\ BlocksInv /\ JumpsInv /\ LabelsResolve

-----------------------------------------------------------------------------
(* Arithmetic and shapes.                                                  *)
LEMMA RegisterFacts ==
  ASSUME RegistersType
  PROVE  /\ base_free_reg \in Nat /\ base_tmp_reg \in Nat /\ last_tmp_reg \in Nat
         /\ free_reg \in Nat /\ tmp_reg \in Nat
         /\ 4 < base_free_reg /\ base_free_reg <= free_reg /\ free_reg <= base_tmp_reg
         /\ base_tmp_reg <= tmp_reg /\ tmp_reg <= last_tmp_reg + 1
         /\ \A r \in Int : r \in Registers <=> 2 <= r /\ r <= last_tmp_reg
<1>1. free_reg \in base_free_reg .. base_tmp_reg /\ tmp_reg \in base_tmp_reg .. last_tmp_reg + 1
  BY DEF RegistersType
<1>. QED  BY <1>1, RegisterAssumption DEF Registers

LEMMA Operands ==
  /\ \A v \in Word : IntOp(v) \in Value /\ IntOp(v).type = "int"
                     /\ IntOp(v).value = v /\ IntOp(v).means = v
  /\ \A r \in Registers, v \in Word :
       RegOp(r, v) \in Value /\ RegOp(r, v).type = "reg"
       /\ RegOp(r, v).value = r /\ RegOp(r, v).means = v
  BY DEF IntOp, RegOp, Value

LEMMA JunkIsWord == Junk \in Word
  BY DataAssumption DEF Junk

(* What a variable's register is, before and after assign_reg.             *)
LEMMA NameFacts ==
  ASSUME ExpressionsInv, NEW x \in DOMAIN reg_var_map
  PROVE  /\ reg_var_map[x] \in base_free_reg .. free_reg - 1
         /\ reg_var_map[x] \in Registers
         /\ env[x] \in Word /\ R[reg_var_map[x]] = env[x]
<1>1. RegistersType /\ VariablesKept
  BY DEF ExpressionsInv, NamesInv
<1>2. reg_var_map \in [DOMAIN reg_var_map -> base_free_reg .. free_reg - 1]
      /\ env \in [DOMAIN reg_var_map -> Word]
  BY <1>1 DEF RegistersType
<1>. QED  BY <1>1, <1>2, RegisterFacts DEF VariablesKept

LEMMA NamesGrow ==
  ASSUME ExpressionsInv, NEW x \in Symbols \cup Keywords, assign_reg(x)
  PROVE  /\ free_reg' \in base_free_reg .. base_tmp_reg
         /\ x \in DOMAIN reg_var_map' /\ DOMAIN reg_var_map \subseteq DOMAIN reg_var_map'
         /\ DOMAIN reg_var_map' \subseteq Symbols \cup Keywords
         /\ reg_var_map' \in [DOMAIN reg_var_map' -> base_free_reg .. free_reg' - 1]
         /\ env' \in [DOMAIN reg_var_map' -> Word]
         /\ \A y, z \in DOMAIN reg_var_map' : reg_var_map'[y] = reg_var_map'[z] => y = z
         /\ \A y \in DOMAIN reg_var_map' : R[reg_var_map'[y]] = env'[y]
<1>1. RegistersType /\ NamesInv
  BY DEF ExpressionsInv
<1>2. \A y, z \in DOMAIN reg_var_map : reg_var_map[y] = reg_var_map[z] => y = z
  BY <1>1 DEF NamesInv
<1>3. \A y \in DOMAIN reg_var_map :
         /\ reg_var_map[y] \in base_free_reg .. free_reg - 1
         /\ env[y] \in Word /\ R[reg_var_map[y]] = env[y]
  BY NameFacts
<1>4. DOMAIN reg_var_map \subseteq Symbols \cup Keywords
  BY <1>1 DEF RegistersType
<1>5. CASE x \in DOMAIN reg_var_map
  <2>1. free_reg' = free_reg /\ reg_var_map' = reg_var_map /\ env' = env
    BY <1>5 DEF assign_reg, alloc
  <2>2. reg_var_map \in [DOMAIN reg_var_map -> base_free_reg .. free_reg - 1]
        /\ env \in [DOMAIN reg_var_map -> Word]
        /\ free_reg \in base_free_reg .. base_tmp_reg
    BY <1>1 DEF RegistersType
  <2>. QED  BY <2>1, <2>2, <1>2, <1>3, <1>4, <1>5
<1>6. CASE x \notin DOMAIN reg_var_map
  <2>. DEFINE D == DOMAIN reg_var_map \cup {x}
  <2>1. free_reg < base_tmp_reg /\ free_reg' = free_reg + 1
        /\ reg_var_map' = [s \in D |-> IF s = x THEN free_reg ELSE reg_var_map[s]]
        /\ env' = [s \in D |-> IF s = x THEN R[free_reg] ELSE env[s]]
    BY <1>6 DEF assign_reg, NewReg
  <2>2. free_reg' \in base_free_reg .. base_tmp_reg /\ free_reg \in Registers
    BY <2>1, <1>1, RegisterFacts
  <2>3. R[free_reg] \in Word
    BY <2>2, <1>1 DEF RegistersType
  <2>4. DOMAIN reg_var_map' = D
    BY <2>1
  <2>5. \A s \in D : reg_var_map'[s] = (IF s = x THEN free_reg ELSE reg_var_map[s])
                     /\ env'[s] = (IF s = x THEN R[free_reg] ELSE env[s])
    BY <2>1
  <2>. HIDE DEF D
  <2>6. \A s \in D : s = x \/ s \in DOMAIN reg_var_map
    BY DEF D
  <2>7. \A s \in D : reg_var_map'[s] \in base_free_reg .. free_reg' - 1
                     /\ env'[s] \in Word /\ R[reg_var_map'[s]] = env'[s]
    BY <2>1, <2>2, <2>3, <2>5, <2>6, <1>1, <1>3, RegisterFacts
  <2>8. \A y, z \in D : reg_var_map'[y] = reg_var_map'[z] => y = z
    BY <2>5, <2>6, <1>1, <1>2, <1>3, RegisterFacts
  <2>9. reg_var_map' \in [D -> base_free_reg .. free_reg' - 1]
    <3>1. reg_var_map' = [s \in D |-> reg_var_map'[s]]
      BY <2>1
    <3>. QED  BY <3>1, <2>7
  <2>10. env' \in [D -> Word]
    <3>1. env' = [s \in D |-> env'[s]]
      BY <2>1
    <3>. QED  BY <3>1, <2>7
  <2>11. x \in D /\ DOMAIN reg_var_map \subseteq D /\ D \subseteq Symbols \cup Keywords
    BY <1>4 DEF D
  <2>. QED  BY <2>2, <2>4, <2>7, <2>8, <2>9, <2>10, <2>11
<1>. QED  BY <1>5, <1>6

-----------------------------------------------------------------------------
(* Expressions.  Steps that leave the registers alone, throws among them.  *)
LEMMA NothingRead ==
  ASSUME ExpressionsInv, UNCHANGED <<alloc, tmp_reg, vals, fold, R, log>>,
         (pc' = pc /\ target' = target) \/ pc' # "Assignment"
  PROVE  ExpressionsInv'
<1>1. RegistersType'
  BY DEF ExpressionsInv, RegistersType, alloc
<1>2. NamesInv'
  BY DEF ExpressionsInv, NamesInv, VariablesKept, alloc
<1>3. OperandsInv'
  BY DEF ExpressionsInv, OperandsInv, Right
<1>4. EveryUseIsMeant'
  BY DEF ExpressionsInv, EveryUseIsMeant, log
<1>. QED  BY <1>1, <1>2, <1>3, <1>4 DEF ExpressionsInv

LEMMA Throws ==
  ASSUME ExpressionsInv, NEW message, message # "Assignment", Throw(message)
  PROVE  ExpressionsInv'
  BY NothingRead DEF Throw

LEMMA OutOfTmp ==
  ASSUME ExpressionsInv, NEW n, OutOfTmpRegs(n)
  PROVE  ExpressionsInv'
<1>1. Throw("out of tmp registers") /\ "out of tmp registers" # "Assignment"
  BY DEF OutOfTmpRegs
<1>. QED  BY <1>1, Throws

LEMMA OutOf ==
  ASSUME ExpressionsInv, NEW x, OutOfRegisters(x)
  PROVE  ExpressionsInv'
<1>1. Throw("out of registers") /\ "out of registers" # "Assignment"
  BY DEF OutOfRegisters
<1>. QED  BY <1>1, Throws

LEMMA SameNames ==
  ASSUME RegistersType, alloc' = alloc, tmp_reg' \in base_tmp_reg .. last_tmp_reg + 1,
         R' \in [Registers -> Word], vals' \in Seq(Value), fold' = NoFold \/ fold' \in Fold
  PROVE  RegistersType'
<1>1. free_reg' = free_reg /\ reg_var_map' = reg_var_map /\ env' = env
  BY DEF alloc
<1>2. /\ free_reg \in base_free_reg .. base_tmp_reg
      /\ DOMAIN reg_var_map \subseteq Symbols \cup Keywords
      /\ reg_var_map \in [DOMAIN reg_var_map -> base_free_reg .. free_reg - 1]
      /\ env \in [DOMAIN reg_var_map -> Word]
  BY DEF RegistersType
<1>. QED  BY <1>1, <1>2 DEF RegistersType

LEMMA LongerRange ==
  \A a \in Int, b \in Int, c \in Int : b <= c => \A r \in a .. b - 1 : r \in a .. c - 1
OBVIOUS

(* An operand is read.                                                     *)
LEMMA Push ==
  ASSUME ExpressionsInv, fold' = NoFold, tmp_reg' \in Int, tmp_reg <= tmp_reg',
         \A r \in base_free_reg .. tmp_reg - 1 : R'[r] = R[r],
         \E o \in Value :
           /\ vals' = Append(vals, o)
           /\ IF o.type = "int" THEN o.value = o.means
              ELSE o.value \in base_free_reg .. tmp_reg' - 1 /\ R'[o.value] = o.means
  PROVE  vals' \in Seq(Value) /\ OperandsInv'
<1>1. PICK o \in Value :
        /\ vals' = Append(vals, o)
        /\ IF o.type = "int" THEN o.value = o.means
           ELSE o.value \in base_free_reg .. tmp_reg' - 1 /\ R'[o.value] = o.means
  OBVIOUS
<1>2. vals \in Seq(Value) /\ RegistersType
  BY DEF ExpressionsInv, RegistersType
<1>3. /\ vals' \in Seq(Value) /\ Len(vals') = Len(vals) + 1 /\ Len(vals) \in Nat
      /\ \A k \in 1 .. Len(vals) : vals'[k] = vals[k]
      /\ vals'[Len(vals) + 1] = o
  BY <1>1, <1>2, AppendProperties, LenProperties
<1>4. \A k \in 1 .. Len(vals) : Right(vals[k], tmp_reg)
  BY DEF ExpressionsInv, OperandsInv
<1>5. ASSUME NEW k \in 1 .. Len(vals') PROVE Right(vals[k], tmp_reg)'
  <2>1. CASE k = Len(vals) + 1
    BY <2>1, <1>1, <1>3 DEF Right
  <2>2. CASE k \in 1 .. Len(vals)
    <3>1. Right(vals[k], tmp_reg) /\ vals'[k] = vals[k]
      BY <2>2, <1>3, <1>4
    <3>2. \A r \in base_free_reg .. tmp_reg - 1 : r \in base_free_reg .. tmp_reg' - 1
      <4>1. base_free_reg \in Int /\ tmp_reg \in Int
        BY <1>2, RegisterFacts
      <4>. QED  BY <4>1, LongerRange
    <3>. QED  BY <3>1, <3>2 DEF Right
  <2>. QED  BY <2>1, <2>2, <1>3
<1>. QED  BY <1>3, <1>5 DEF OperandsInv

LEMMA IntegerStep == ASSUME ExpressionsInv, Integer PROVE ExpressionsInv'
<1>1. PICK v \in Literals : vals' = Append(vals, IntOp(v))
  BY DEF Integer
<1>2. UNCHANGED <<alloc, tmp_reg, pc, target, fold, R, log>> /\ fold = NoFold
  BY DEF Integer, Operand, InExpression
<1>3. RegistersType /\ NamesInv /\ EveryUseIsMeant
  BY DEF ExpressionsInv
<1>4. vals' \in Seq(Value) /\ OperandsInv'
  <2>1. IntOp(v) \in Value /\ IntOp(v).type = "int" /\ IntOp(v).value = IntOp(v).means
    BY Operands, DataAssumption
  <2>. QED  BY <1>1, <1>2, <1>3, <2>1, Push, RegisterFacts
<1>5. RegistersType'
  BY <1>2, <1>3, <1>4 DEF RegistersType, alloc
<1>6. NamesInv' /\ EveryUseIsMeant'
  BY <1>2, <1>3 DEF NamesInv, VariablesKept, EveryUseIsMeant, alloc, log
<1>. QED  BY <1>4, <1>5, <1>6 DEF ExpressionsInv

LEMMA IdentifierStep ==
  ASSUME ExpressionsInv, NEW x \in Symbols, Identifier(x) PROVE ExpressionsInv'
<1>1. CASE OutOfRegisters(x)
  BY <1>1, OutOf
<1>2. CASE /\ assign_reg(x)
           /\ vals' = Append(vals, RegOp(reg_var_map'[x], env'[x]))
           /\ UNCHANGED <<tmp_reg, code, pins, pc, target, fold, blocks, R, log, bare>>
  <2>1. fold = NoFold
    BY DEF Identifier, Operand, InExpression
  <2>2. RegistersType /\ NamesInv /\ EveryUseIsMeant
    BY DEF ExpressionsInv
  <2>3. /\ free_reg' \in base_free_reg .. base_tmp_reg
        /\ x \in DOMAIN reg_var_map' /\ DOMAIN reg_var_map \subseteq DOMAIN reg_var_map'
        /\ DOMAIN reg_var_map' \subseteq Symbols \cup Keywords
        /\ reg_var_map' \in [DOMAIN reg_var_map' -> base_free_reg .. free_reg' - 1]
        /\ env' \in [DOMAIN reg_var_map' -> Word]
        /\ \A y, z \in DOMAIN reg_var_map' : reg_var_map'[y] = reg_var_map'[z] => y = z
        /\ \A y \in DOMAIN reg_var_map' : R[reg_var_map'[y]] = env'[y]
    BY <1>2, NamesGrow
  <2>4. reg_var_map'[x] \in base_free_reg .. free_reg' - 1 /\ env'[x] \in Word
    BY <2>3
  <2>5. reg_var_map'[x] \in Registers /\ reg_var_map'[x] \in base_free_reg .. tmp_reg - 1
    BY <2>2, <2>3, <2>4, RegisterFacts
  <2>6. \E o \in Value : /\ vals' = Append(vals, o) /\ o.type = "reg"
                         /\ o.value = reg_var_map'[x] /\ o.means = env'[x]
    BY <1>2, <2>4, <2>5, Operands
  <2>7. vals' \in Seq(Value) /\ OperandsInv'
    <3>1. PICK o \in Value : /\ vals' = Append(vals, o) /\ o.type = "reg"
                            /\ o.value = reg_var_map'[x] /\ o.means = env'[x]
      BY <2>6
    <3>2. IF o.type = "int" THEN o.value = o.means
          ELSE o.value \in base_free_reg .. tmp_reg' - 1 /\ R'[o.value] = o.means
      BY <1>2, <2>3, <2>5, <3>1
    <3>3. tmp_reg' = tmp_reg /\ tmp_reg \in Int /\ R' = R /\ fold' = NoFold
      BY <1>2, <2>1, <2>2, RegisterFacts
    <3>. QED  BY <3>1, <3>2, <3>3, Push
  <2>8. RegistersType'
    BY <1>2, <2>1, <2>2, <2>3, <2>7 DEF RegistersType
  <2>9. NamesInv'
    BY <1>2, <2>2, <2>3 DEF NamesInv, VariablesKept
  <2>10. EveryUseIsMeant'
    BY <1>2, <2>2 DEF EveryUseIsMeant, log
  <2>. QED  BY <2>7, <2>8, <2>9, <2>10 DEF ExpressionsInv
<1>. QED  BY <1>1, <1>2 DEF Identifier

(* A temporary register is written that no operand uses, nor a variable.   *)
LEMMA VariablesUntouched ==
  ASSUME ExpressionsInv, alloc' = alloc, \A r \in base_free_reg .. base_tmp_reg - 1 : R'[r] = R[r],
         (pc' = pc /\ target' = target) \/ pc' # "Assignment"
  PROVE  NamesInv'
<1>1. \A x \in DOMAIN reg_var_map : reg_var_map[x] \in base_free_reg .. base_tmp_reg - 1
  BY NameFacts, RegisterFacts DEF ExpressionsInv
<1>2. reg_var_map' = reg_var_map /\ env' = env
  BY DEF alloc
<1>3. NamesInv
  BY DEF ExpressionsInv
<1>. QED  BY <1>1, <1>2, <1>3 DEF NamesInv, VariablesKept

LEMMA TickStep == ASSUME ExpressionsInv, Tick PROVE ExpressionsInv'
<1>1. CASE OutOfTmpRegs(1)
  BY <1>1, OutOfTmp
<1>2. CASE /\ TmpRegs(1) /\ tmp_reg' = tmp_reg + 1
           /\ \E v \in Ticks : /\ R' = [R EXCEPT ![tmp_reg] = v]
                               /\ vals' = Append(vals, RegOp(tmp_reg, v))
           /\ UNCHANGED <<alloc, code, pins, pc, target, fold, blocks, log, bare>>
  <2>1. PICK v \in Ticks : /\ R' = [R EXCEPT ![tmp_reg] = v]
                          /\ vals' = Append(vals, RegOp(tmp_reg, v))
    BY <1>2
  <2>2. fold = NoFold /\ fold' = NoFold
    BY <1>2 DEF Tick, Operand, InExpression
  <2>3. RegistersType /\ NamesInv /\ EveryUseIsMeant
    BY DEF ExpressionsInv
  <2>4. tmp_reg <= last_tmp_reg /\ tmp_reg \in Registers /\ v \in Word
    BY <1>2, <2>3, RegisterFacts, DataAssumption DEF TmpRegs
  <2>5. R \in [Registers -> Word]
    BY <2>3 DEF RegistersType
  <2>6. /\ R' \in [Registers -> Word] /\ R'[tmp_reg] = v
        /\ \A r \in Registers : r # tmp_reg => R'[r] = R[r]
    BY <2>1, <2>4, <2>5
  <2>7. \A r \in base_free_reg .. tmp_reg - 1 : R'[r] = R[r]
    BY <2>3, <2>4, <2>6, RegisterFacts
  <2>8. vals' \in Seq(Value) /\ OperandsInv'
    <3>1. PICK o \in Value : /\ vals' = Append(vals, o) /\ o.type = "reg"
                            /\ o.value = tmp_reg /\ o.means = v
      BY <2>1, <2>4, Operands
    <3>2. IF o.type = "int" THEN o.value = o.means
          ELSE o.value \in base_free_reg .. tmp_reg' - 1 /\ R'[o.value] = o.means
      BY <1>2, <2>3, <2>6, <3>1, RegisterFacts
    <3>3. tmp_reg' \in Int /\ tmp_reg <= tmp_reg'
      BY <1>2, <2>3, RegisterFacts
    <3>. QED  BY <2>2, <2>7, <3>1, <3>2, <3>3, Push
  <2>9. RegistersType'
    <3>1. tmp_reg' \in base_tmp_reg .. last_tmp_reg + 1
      BY <1>2, <2>3, <2>4, RegisterFacts
    <3>2. /\ free_reg' = free_reg /\ reg_var_map' = reg_var_map /\ env' = env
          /\ R' \in [Registers -> Word] /\ vals' \in Seq(Value) /\ fold' = NoFold
      BY <1>2, <2>2, <2>6, <2>8 DEF alloc
    <3>. QED  BY <2>3, <3>1, <3>2 DEF RegistersType
  <2>10. NamesInv'
    BY <1>2, <2>3, <2>7, RegisterFacts, VariablesUntouched
  <2>11. EveryUseIsMeant'
    BY <1>2, <2>3 DEF EveryUseIsMeant, log
  <2>. QED  BY <2>8, <2>9, <2>10, <2>11 DEF ExpressionsInv
<1>. QED  BY <1>1, <1>2 DEF Tick

LEMMA ChainOps ==
  ASSUME NEW ops \in Chains
  PROVE  /\ Len(ops) \in Nat /\ 1 <= Len(ops)
         /\ \A k \in 1 .. Len(ops) : ops[k] \in Op
<1>1. PICK n \in 1 .. MaxOperands - 1, S \in {{"+", "-"}, {"&", "|"}} : ops \in [1 .. n -> S]
  BY DEF Chains
<1>2. n \in Nat /\ 1 <= n /\ S \subseteq Op
  BY <1>1, DataAssumption DEF Op
<1>3. ops \in Seq(S)
  BY <1>1, <1>2
<1>4. Len(ops) = n
  BY <1>1, <1>2, <1>3, LenProperties
<1>. QED  BY <1>1, <1>2, <1>4

(* A chain's operands leave the stack of operands for the loop's record.   *)
LEMMA ChainStep ==
  ASSUME ExpressionsInv, NEW ops \in Chains, Expression(ops)
  PROVE  ExpressionsInv'
<1>1. CASE OutOfTmpRegs(1)
  BY <1>1, OutOfTmp
<1>2. CASE /\ TmpRegs(1) /\ tmp_reg' = tmp_reg + 1 /\ Chain(ops)
           /\ UNCHANGED <<alloc, code, pins, pc, target, blocks, R, log, bare, size>>
  <2>. DEFINE rest == Len(vals) - Len(ops) - 1
              tail == [k \in 1 .. Len(ops) |-> [op |-> ops[k], rhs |-> vals[rest + 1 + k]]]
  <2>1. vals' = SubSeq(vals, 1, rest)
        /\ fold' = [lhs |-> vals[rest + 1], treg |-> tmp_reg, tail |-> tail]
    BY <1>2 DEF Chain
  <2>2. RegistersType /\ NamesInv /\ EveryUseIsMeant /\ vals \in Seq(Value)
    BY DEF ExpressionsInv, RegistersType
  <2>3. /\ Len(vals) \in Nat /\ Len(ops) \in Nat /\ 1 <= Len(ops) /\ Len(ops) < Len(vals)
        /\ \A k \in 1 .. Len(vals) : vals[k] \in Value /\ Right(vals[k], tmp_reg)
    BY <2>2, ChainOps, LenProperties, ElementOfSeq DEF Expression, ExpressionsInv, OperandsInv
  <2>4. rest \in Nat /\ rest + 1 \in 1 .. Len(vals) /\ rest + 1 + Len(ops) = Len(vals)
    BY <2>3
  <2>5. /\ vals' \in Seq(Value) /\ Len(vals') = rest
        /\ \A k \in 1 .. rest : vals'[k] = vals[k]
    <3>. HIDE DEF rest
    <3>1. rest \in Int /\ 1 \in Int /\ \A k \in 1 .. rest : vals[k] \in Value
      BY <2>3, <2>4
    <3>2. /\ SubSeq(vals, 1, rest) \in Seq(Value)
          /\ Len(SubSeq(vals, 1, rest)) = IF 1 <= rest THEN rest - 1 + 1 ELSE 0
          /\ \A i \in 1 .. rest - 1 + 1 : SubSeq(vals, 1, rest)[i] = vals[1 + i - 1]
      BY <3>1, SubSeqProperties
    <3>. QED  BY <2>1, <2>4, <3>1, <3>2
  <2>. HIDE DEF rest
  <2>6. \A k \in 1 .. Len(ops) : rest + 1 + k \in 1 .. Len(vals)
    BY <2>3, <2>4
  <2>7. /\ tail \in Seq(Pair) /\ Len(tail) = Len(ops)
        /\ \A k \in 1 .. Len(ops) : tail[k].rhs = vals[rest + 1 + k]
    <3>1. \A k \in 1 .. Len(ops) : [op |-> ops[k], rhs |-> vals[rest + 1 + k]] \in Pair
      BY <2>3, <2>6, ChainOps DEF Pair
    <3>2. tail \in [1 .. Len(ops) -> Pair]
      BY <3>1
    <3>3. tail \in Seq(Pair)
      BY <2>3, <3>2
    <3>4. Len(tail) = Len(ops)
      BY <2>3, <3>2, <3>3, LenProperties
    <3>. QED  BY <3>3, <3>4
  <2>. HIDE DEF tail
  <2>8. tmp_reg <= last_tmp_reg /\ tmp_reg \in Registers /\ tmp_reg \in Int
    BY <1>2, <2>2, RegisterFacts DEF TmpRegs
  <2>9. fold' \in Fold /\ fold'.lhs = vals[rest + 1] /\ fold'.treg = tmp_reg /\ fold'.tail = tail
    BY <2>1, <2>3, <2>4, <2>7, <2>8 DEF Fold
  <2>10. \A k \in 1 .. Len(vals) : (vals[k].type = "int" /\ vals[k].value = vals[k].means)
           \/ /\ vals[k].type # "int" /\ vals[k].value \in base_free_reg .. tmp_reg - 1
              /\ R'[vals[k].value] = vals[k].means
    BY <1>2, <2>3 DEF Right
  <2>11. OperandsInv'
    <3>1. \A k \in 1 .. Len(vals') : Right(vals[k], tmp_reg)' /\ Right(vals[k], fold.treg)'
      BY <1>2, <2>3, <2>4, <2>5, <2>8, <2>9, <2>10, RegisterAssumption DEF Right
    <3>2. Right(fold.lhs, fold.treg + 1)'
      BY <1>2, <2>4, <2>8, <2>9, <2>10, RegisterAssumption DEF Right
    <3>3. ASSUME NEW k \in 1 .. Len(fold'.tail) PROVE Right(fold.tail[k].rhs, fold.treg)'
      <4>1. fold'.tail[k].rhs = vals[rest + 1 + k] /\ rest + 1 + k \in 1 .. Len(vals)
        BY <2>6, <2>7, <2>9
      <4>. QED  BY <2>8, <2>9, <2>10, <4>1 DEF Right
    <3>4. fold'.treg \in base_tmp_reg .. tmp_reg' - 1 /\ Len(fold'.tail) >= 1
      BY <1>2, <2>2, <2>3, <2>7, <2>9, RegisterFacts
    <3>. QED  BY <3>1, <3>2, <3>3, <3>4 DEF OperandsInv
  <2>12. RegistersType'
    <3>1. tmp_reg' \in base_tmp_reg .. last_tmp_reg + 1
      BY <1>2, <2>2, <2>8, RegisterFacts
    <3>2. R' \in [Registers -> Word]
      BY <1>2, <2>2 DEF RegistersType
    <3>. QED  BY <1>2, <2>2, <2>5, <2>9, <3>1, <3>2, SameNames
  <2>13. NamesInv' /\ EveryUseIsMeant'
    BY <1>2, <2>2 DEF NamesInv, VariablesKept, EveryUseIsMeant, alloc, log
  <2>. QED  BY <2>11, <2>12, <2>13 DEF ExpressionsInv
<1>. QED  BY <1>1, <1>2 DEF Expression

(* The next operation of a chain.                                          *)
LEMMA CombineIs ==
  ASSUME ExpressionsInv, fold # NoFold,
         fold.lhs.type = "int" /\ Head(fold.tail).rhs.type = "reg" => TmpRegs(1)
  PROVE  LET lhs == fold.lhs
             op == Head(fold.tail).op
             rhs == Head(fold.tail).rhs
             result == Alu(op, lhs.means, rhs.means)
         IN  /\ result \in Word
             /\ Combine(lhs, op, rhs) \in [Registers -> Word]
             /\ Combine(lhs, op, rhs)[fold.treg] = result
             /\ \A r \in base_free_reg .. tmp_reg - 1 : r # fold.treg =>
                  Combine(lhs, op, rhs)[r] = R[r]
<1>. DEFINE lhs == fold.lhs
            op == Head(fold.tail).op
            rhs == Head(fold.tail).rhs
            result == Alu(op, lhs.means, rhs.means)
<1>1. RegistersType /\ fold \in Fold /\ R \in [Registers -> Word]
  BY DEF ExpressionsInv, RegistersType
<1>2. /\ fold.treg \in base_tmp_reg .. tmp_reg - 1 /\ Right(lhs, fold.treg + 1)
      /\ Len(fold.tail) >= 1
      /\ \A k \in 1 .. Len(fold.tail) : Right(fold.tail[k].rhs, fold.treg)
  BY DEF ExpressionsInv, OperandsInv
<1>3. fold.tail \in Seq(Pair) /\ lhs \in Value /\ fold.treg \in Registers
  BY <1>1 DEF Fold
<1>4. Len(fold.tail) \in Nat /\ Head(fold.tail) = fold.tail[1] /\ fold.tail[1] \in Pair
  BY <1>2, <1>3, LenProperties, ElementOfSeq
<1>5. rhs = fold.tail[1].rhs /\ rhs \in Value /\ op \in Op /\ Right(rhs, fold.treg)
  BY <1>2, <1>4 DEF Pair
<1>. HIDE DEF lhs, op, rhs
<1>6. result \in Word
  BY <1>3, <1>5, DataAssumption DEF Value, Op
<1>7. /\ lhs.type = "int" => lhs.value = lhs.means
      /\ lhs.type = "reg" => lhs.value \in base_free_reg .. fold.treg /\ R[lhs.value] = lhs.means
      /\ rhs.type = "int" => rhs.value = rhs.means
      /\ rhs.type = "reg" => rhs.value \in base_free_reg .. fold.treg - 1
                             /\ R[rhs.value] = rhs.means
      /\ lhs.type \in {"int", "reg"} /\ rhs.type \in {"int", "reg"} /\ lhs.means \in Word
  <2>1. lhs.type \in {"int", "reg"} /\ rhs.type \in {"int", "reg"} /\ lhs.means \in Word
    BY <1>3, <1>5 DEF Value
  <2>2. fold.treg \in Int /\ fold.treg + 1 - 1 = fold.treg
    BY <1>1, <1>2, RegisterFacts
  <2>3. "int" # "reg"
    OBVIOUS
  <2>. QED  BY <1>2, <1>5, <2>1, <2>2, <2>3 DEF Right
<1>8. CASE lhs.type = "int" /\ rhs.type = "reg"
  <2>. DEFINE moved == [R EXCEPT ![tmp_reg] = lhs.value]
  <2>1. tmp_reg \in Registers /\ tmp_reg \in Int
    <3>1. TmpRegs(1)
      BY <1>8 DEF lhs, rhs
    <3>. QED  BY <3>1, <1>1, RegisterFacts DEF TmpRegs
  <2>2. /\ moved \in [Registers -> Word]
        /\ \A r \in Registers : r # tmp_reg => moved[r] = R[r]
    BY <1>1, <1>7, <1>8, <2>1
  <2>3. rhs.value # tmp_reg /\ rhs.value \in Registers
    BY <1>1, <1>2, <1>3, <1>7, <1>8, <2>1, RegisterFacts
  <2>4. moved[rhs.value] = rhs.means
    BY <1>7, <1>8, <2>2, <2>3
  <2>5. Combine(lhs, op, rhs) = [moved EXCEPT ![fold.treg] = result]
    BY <1>7, <1>8, <2>4 DEF Combine
  <2>. HIDE DEF moved, result
  <2>6. \A r \in base_free_reg .. tmp_reg - 1 : r \in Registers /\ r # tmp_reg
    BY <1>1, <2>1, RegisterFacts
  <2>7. [moved EXCEPT ![fold.treg] = result] \in [Registers -> Word]
    BY <1>3, <1>6, <2>2
  <2>8. /\ [moved EXCEPT ![fold.treg] = result][fold.treg] = result
        /\ \A r \in Registers : r # fold.treg =>
             [moved EXCEPT ![fold.treg] = result][r] = moved[r]
    BY <1>3, <2>2
  <2>9. /\ Combine(lhs, op, rhs) \in [Registers -> Word]
        /\ Combine(lhs, op, rhs)[fold.treg] = result
        /\ \A r \in base_free_reg .. tmp_reg - 1 : r # fold.treg => Combine(lhs, op, rhs)[r] = R[r]
    BY <2>2, <2>5, <2>6, <2>7, <2>8
  <2>. QED  BY <1>6, <2>9 DEF result, lhs, op, rhs
<1>9. CASE ~(lhs.type = "int" /\ rhs.type = "reg")
  <2>1. Combine(lhs, op, rhs) = [R EXCEPT ![fold.treg] = result]
    BY <1>7, <1>9 DEF Combine
  <2>2. \A r \in base_free_reg .. tmp_reg - 1 : r \in Registers
    BY <1>1, RegisterFacts
  <2>. HIDE DEF result
  <2>3. /\ Combine(lhs, op, rhs) \in [Registers -> Word]
        /\ Combine(lhs, op, rhs)[fold.treg] = result
        /\ \A r \in base_free_reg .. tmp_reg - 1 : r # fold.treg => Combine(lhs, op, rhs)[r] = R[r]
    BY <1>1, <1>3, <1>6, <2>1, <2>2
  <2>. QED  BY <1>6, <2>3 DEF result, lhs, op, rhs
<1>. QED  BY <1>8, <1>9

LEMMA LoopStep == ASSUME ExpressionsInv, ExpressionLoop PROVE ExpressionsInv'
<1>. DEFINE lhs == fold.lhs
            op == Head(fold.tail).op
            rhs == Head(fold.tail).rhs
            value == Alu(op, lhs.means, rhs.means)
            result == RegOp(fold.treg, value)
            imm == lhs.type = "int" /\ rhs.type = "reg"
<1>1. CASE OutOfTmpRegs(1)
  BY <1>1, OutOfTmp
<1>2. CASE /\ imm => TmpRegs(1)
           /\ R' = Combine(lhs, op, rhs)
           /\ IF Len(fold.tail) = 1
                THEN fold' = NoFold /\ vals' = Append(vals, result)
                ELSE /\ fold' = [fold EXCEPT !.lhs = result, !.tail = Tail(fold.tail)]
                     /\ UNCHANGED vals
           /\ UNCHANGED <<alloc, tmp_reg, code, pins, pc, target, blocks, log, bare, size>>
  <2>1. fold # NoFold
    BY DEF ExpressionLoop
  <2>2. /\ value \in Word /\ R' \in [Registers -> Word] /\ R'[fold.treg] = value
        /\ \A r \in base_free_reg .. tmp_reg - 1 : r # fold.treg => R'[r] = R[r]
    BY <1>2, <2>1, CombineIs
  <2>3. RegistersType /\ fold \in Fold /\ vals \in Seq(Value) /\ NamesInv /\ EveryUseIsMeant
    BY <2>1 DEF ExpressionsInv, RegistersType
  <2>4. fold.treg \in Registers /\ fold.tail \in Seq(Pair)
        /\ fold = [lhs |-> fold.lhs, treg |-> fold.treg, tail |-> fold.tail]
    BY <2>3 DEF Fold
  <2>. HIDE DEF value
  <2>5. result \in Value /\ result.type = "reg" /\ result.value = fold.treg /\ result.means = value
    BY <2>2, <2>4, Operands
  <2>. HIDE DEF result, imm, lhs, op, rhs
  <2>6. /\ fold.treg \in base_tmp_reg .. tmp_reg - 1 /\ fold.treg \in Int /\ tmp_reg \in Int
        /\ Len(fold.tail) >= 1 /\ base_free_reg <= base_tmp_reg
        /\ \A k \in 1 .. Len(fold.tail) : Right(fold.tail[k].rhs, fold.treg)
        /\ \A k \in 1 .. Len(vals) : Right(vals[k], fold.treg)
    BY <2>1, <2>3, RegisterFacts DEF ExpressionsInv, OperandsInv
  <2>7. \A r \in base_free_reg .. fold.treg - 1 : R'[r] = R[r]
    BY <2>2, <2>6
  <2>8. tmp_reg' = tmp_reg /\ tmp_reg \in base_tmp_reg .. last_tmp_reg + 1
    BY <1>2, <2>3 DEF RegistersType
  <2>9. base_free_reg \in Int /\ base_tmp_reg \in Int
    BY RegisterAssumption
  <2>10. \A r \in base_free_reg .. base_tmp_reg - 1 : R'[r] = R[r]
    BY <2>6, <2>7, <2>9
  <2>11. NamesInv' /\ EveryUseIsMeant'
    BY <1>2, <2>3, <2>10, VariablesUntouched DEF EveryUseIsMeant, log
  <2>12. CASE Len(fold.tail) = 1
    <3>1. fold' = NoFold /\ vals' = Append(vals, result)
      BY <1>2, <2>12
    <3>2. /\ vals' \in Seq(Value) /\ Len(vals') = Len(vals) + 1 /\ Len(vals) \in Nat
          /\ \A k \in 1 .. Len(vals) : vals'[k] = vals[k]
          /\ vals'[Len(vals) + 1] = result
      BY <2>3, <2>5, <3>1, AppendProperties, LenProperties
    <3>3. ASSUME NEW k \in 1 .. Len(vals') PROVE Right(vals[k], tmp_reg)'
      <4>1. CASE k = Len(vals) + 1
        BY <2>2, <2>5, <2>6, <2>8, <2>9, <3>2, <4>1 DEF Right
      <4>2. CASE k \in 1 .. Len(vals)
        <5>1. Right(vals[k], fold.treg) /\ vals'[k] = vals[k]
          BY <2>6, <3>2, <4>2
        <5>. QED  BY <2>6, <2>7, <2>8, <2>9, <5>1 DEF Right
      <4>. QED  BY <3>2, <4>1, <4>2
    <3>4. OperandsInv'
      BY <3>1, <3>3 DEF OperandsInv
    <3>5. RegistersType'
      BY <1>2, <2>2, <2>3, <2>8, <3>1, <3>2, SameNames
    <3>. QED  BY <2>11, <3>4, <3>5 DEF ExpressionsInv
  <2>13. CASE Len(fold.tail) # 1
    <3>1. fold' = [fold EXCEPT !.lhs = result, !.tail = Tail(fold.tail)] /\ vals' = vals
      BY <1>2, <2>13
    <3>2. fold' = [lhs |-> result, treg |-> fold.treg, tail |-> Tail(fold.tail)]
      BY <2>4, <3>1
    <3>3. /\ Tail(fold.tail) \in Seq(Pair) /\ Len(Tail(fold.tail)) = Len(fold.tail) - 1
          /\ \A k \in 1 .. Len(Tail(fold.tail)) : Tail(fold.tail)[k] = fold.tail[k + 1]
          /\ Len(fold.tail) \in Nat
      <4>1. fold.tail # << >>
        BY <2>6
      <4>. QED  BY <2>4, <4>1, HeadTailProperties, LenProperties
    <3>4. fold' \in Fold /\ fold'.lhs = result /\ fold'.treg = fold.treg
          /\ fold'.tail = Tail(fold.tail)
      BY <2>4, <2>5, <3>2, <3>3 DEF Fold
    <3>5. \A k \in 1 .. Len(vals') : Right(vals[k], tmp_reg)' /\ Right(vals[k], fold.treg)'
      BY <2>6, <2>7, <2>8, <2>9, <3>1, <3>4 DEF Right
    <3>6. Right(fold.lhs, fold.treg + 1)'
      BY <2>2, <2>5, <2>6, <2>9, <3>4 DEF Right
    <3>7. ASSUME NEW k \in 1 .. Len(fold'.tail) PROVE Right(fold.tail[k].rhs, fold.treg)'
      <4>1. fold'.tail[k] = fold.tail[k + 1] /\ k + 1 \in 1 .. Len(fold.tail)
        BY <3>3, <3>4
      <4>2. Right(fold.tail[k + 1].rhs, fold.treg)
        BY <2>6, <4>1
      <4>. QED  BY <2>7, <2>9, <3>4, <4>1, <4>2 DEF Right
    <3>8. fold'.treg \in base_tmp_reg .. tmp_reg' - 1 /\ Len(fold'.tail) >= 1
      <4>1. Len(fold.tail) \in Nat /\ Len(fold.tail) >= 1 /\ Len(fold.tail) # 1
        BY <2>6, <2>13, <3>3
      <4>2. \A n \in Nat : n >= 1 /\ n # 1 => n - 1 >= 1
        OBVIOUS
      <4>3. Len(fold'.tail) >= 1
        BY <3>3, <3>4, <4>1, <4>2
      <4>. QED  BY <2>6, <2>8, <3>4, <4>3
    <3>9. OperandsInv'
      BY <3>5, <3>6, <3>7, <3>8 DEF OperandsInv
    <3>10. RegistersType'
      BY <1>2, <2>2, <2>3, <2>8, <3>1, <3>4, SameNames
    <3>. QED  BY <2>11, <3>9, <3>10 DEF ExpressionsInv
  <2>. QED  BY <2>12, <2>13
<1>. QED  BY <1>1, <1>2 DEF ExpressionLoop

-----------------------------------------------------------------------------
(* Statements.  A statement begins or ends with no operands.               *)
LEMMA NoOperands ==
  ASSUME vals' = << >>, fold' = NoFold
  PROVE  vals' \in Seq(Value) /\ OperandsInv'
<1>1. vals' \in Seq(Value) /\ Len(vals') = 0
  BY EmptySeq
<1>. QED  BY <1>1 DEF OperandsInv

(* A statement takes a name and leaves the variables' registers alone.     *)
LEMMA NamesNext ==
  ASSUME ExpressionsInv, NEW x \in Symbols \cup Keywords, assign_reg(x),
         UNCHANGED <<tmp_reg, vals, fold, log>>,
         R' \in [Registers -> Word], \A r \in base_free_reg .. tmp_reg - 1 : R'[r] = R[r],
         \/ pc' # "Assignment"
         \/ target' = x
         \/ (pc' = pc /\ target' = target)
  PROVE  ExpressionsInv'
<1>1. RegistersType /\ NamesInv /\ EveryUseIsMeant /\ OperandsInv
  BY DEF ExpressionsInv
<1>2. /\ free_reg' \in base_free_reg .. base_tmp_reg
      /\ x \in DOMAIN reg_var_map' /\ DOMAIN reg_var_map \subseteq DOMAIN reg_var_map'
      /\ DOMAIN reg_var_map' \subseteq Symbols \cup Keywords
      /\ reg_var_map' \in [DOMAIN reg_var_map' -> base_free_reg .. free_reg' - 1]
      /\ env' \in [DOMAIN reg_var_map' -> Word]
      /\ \A y, z \in DOMAIN reg_var_map' : reg_var_map'[y] = reg_var_map'[z] => y = z
      /\ \A y \in DOMAIN reg_var_map' : R[reg_var_map'[y]] = env'[y]
  BY NamesGrow
<1>3. RegistersType'
  <2>1. tmp_reg' \in base_tmp_reg .. last_tmp_reg + 1 /\ vals' \in Seq(Value)
        /\ (fold' = NoFold \/ fold' \in Fold)
    BY <1>1 DEF RegistersType
  <2>. QED  BY <1>2, <2>1 DEF RegistersType
<1>4. NamesInv'
  <2>1. \A y \in DOMAIN reg_var_map' : reg_var_map'[y] \in base_free_reg .. tmp_reg - 1
    BY <1>1, <1>2, RegisterFacts
  <2>2. VariablesKept'
    BY <1>2, <2>1 DEF VariablesKept
  <2>. QED  BY <1>1, <1>2, <2>2 DEF NamesInv
<1>5. OperandsInv'
  <2>1. \A k \in 1 .. Len(vals) : Right(vals[k], tmp_reg)
    BY <1>1 DEF OperandsInv
  <2>2. \A k \in 1 .. Len(vals) : Right(vals[k], tmp_reg)'
    BY <2>1 DEF Right
  <2>3. ASSUME fold # NoFold
        PROVE  /\ Right(fold.lhs, fold.treg + 1)'
               /\ \A k \in 1 .. Len(fold.tail) : Right(fold.tail[k].rhs, fold.treg)'
               /\ \A k \in 1 .. Len(vals) : Right(vals[k], fold.treg)'
    <3>1. fold.treg \in base_tmp_reg .. tmp_reg - 1 /\ Right(fold.lhs, fold.treg + 1)
          /\ (\A k \in 1 .. Len(fold.tail) : Right(fold.tail[k].rhs, fold.treg))
          /\ (\A k \in 1 .. Len(vals) : Right(vals[k], fold.treg))
      BY <1>1, <2>3 DEF OperandsInv
    <3>2. fold.treg \in Int /\ fold.treg <= tmp_reg - 1 /\ tmp_reg \in Int /\ base_free_reg \in Int
      BY <1>1, <3>1, RegisterFacts
    <3>3. /\ \A r \in base_free_reg .. fold.treg - 1 : R'[r] = R[r]
          /\ \A r \in base_free_reg .. fold.treg + 1 - 1 : R'[r] = R[r]
      BY <3>2
    <3>4. /\ \A k \in 1 .. Len(vals) : Right(vals[k], fold.treg)'
          /\ \A k \in 1 .. Len(fold.tail) : Right(fold.tail[k].rhs, fold.treg)'
      BY <3>1, <3>3 DEF Right
    <3>5. Right(fold.lhs, fold.treg + 1)'
      BY <3>1, <3>3 DEF Right
    <3>. QED  BY <3>4, <3>5
  <2>. QED  BY <1>1, <2>2, <2>3 DEF OperandsInv
<1>6. EveryUseIsMeant'
  BY <1>1 DEF EveryUseIsMeant, log
<1>. QED  BY <1>3, <1>4, <1>5, <1>6 DEF ExpressionsInv

LEMMA StartAssignmentStep ==
  ASSUME ExpressionsInv, NEW t \in Symbols \cup Pins \cup {"tick"}, StartAssignment(t)
  PROVE  ExpressionsInv'
<1>1. CASE OutOfRegisters(t)
  BY <1>1, OutOf
<1>2. CASE /\ IF t \in Symbols THEN assign_reg(t) ELSE UNCHANGED alloc
           /\ pc' = "Assignment" /\ target' = t
           /\ UNCHANGED <<tmp_reg, code, pins, vals, fold, blocks, R, log, bare>>
  <2>1. R \in [Registers -> Word]
    BY DEF ExpressionsInv, RegistersType
  <2>2. CASE t \in Symbols
    BY <1>2, <2>1, <2>2, NamesNext
  <2>3. CASE t \notin Symbols
    <3>1. RegistersType' /\ OperandsInv' /\ EveryUseIsMeant'
      BY <1>2, <2>3 DEF ExpressionsInv, RegistersType, OperandsInv, Right, EveryUseIsMeant, alloc, log
    <3>2. NamesInv'
      BY <1>2, <2>3 DEF ExpressionsInv, NamesInv, VariablesKept, alloc
    <3>. QED  BY <3>1, <3>2 DEF ExpressionsInv
  <2>. QED  BY <2>2, <2>3
<1>. QED  BY <1>1, <1>2 DEF StartAssignment

LEMMA StartPrintStep == ASSUME ExpressionsInv, StartPrint PROVE ExpressionsInv'
<1>1. CASE OutOfRegisters("print")
  BY <1>1, OutOf
<1>2. CASE /\ assign_reg("print") /\ pc' = "Print"
           /\ UNCHANGED <<tmp_reg, code, pins, target, vals, fold, blocks, R, log, bare>>
  <2>1. R \in [Registers -> Word] /\ "print" \in Symbols \cup Keywords /\ "Print" # "Assignment"
    BY DEF ExpressionsInv, RegistersType, Keywords
  <2>. QED  BY <1>2, <2>1, NamesNext
<1>. QED  BY <1>1, <1>2 DEF StartPrint

LEMMA StartBlockStep ==
  ASSUME ExpressionsInv, NEW keyword \in {"while", "if"}, StartBlock(keyword)
  PROVE  ExpressionsInv'
<1>1. CASE OutOfRegisters(keyword)
  BY <1>1, OutOf
<1>2. CASE /\ assign_reg(keyword)
           /\ pc' = "CondExpression"
           /\ UNCHANGED <<tmp_reg, loop_cnt, asm_src, pins, target, vals, fold, R, log, bare>>
  <2>1. R \in [Registers -> Word] /\ keyword \in Symbols \cup Keywords
        /\ "CondExpression" # "Assignment"
    BY DEF ExpressionsInv, RegistersType, Keywords
  <2>. QED  BY <1>2, <2>1, NamesNext
<1>. QED  BY <1>1, <1>2 DEF StartBlock

LEMMA PulseStep ==
  ASSUME ExpressionsInv, NEW pin \in Pins, Pulse(pin) PROVE ExpressionsInv'
<1>1. CASE OutOfRegisters("pulse")
  BY <1>1, OutOf
<1>2. CASE Throw("cannot be used for output") \/ Throw("input and output")
  <2>1. "cannot be used for output" # "Assignment" /\ "input and output" # "Assignment"
    OBVIOUS
  <2>. QED  BY <1>2, <2>1, Throws
<1>3. CASE OutOfTmpRegs(2)
  BY <1>3, OutOfTmp
<1>4. CASE /\ assign_reg("pulse") /\ TmpRegs(2)
           /\ R' = [R EXCEPT ![tmp_reg] = Junk, ![tmp_reg + 1] = Junk]
           /\ UNCHANGED <<tmp_reg, asm_src, pc, target, vals, fold, blocks, log, bare>>
  <2>1. RegistersType /\ R \in [Registers -> Word] /\ "pulse" \in Symbols \cup Keywords
    BY DEF ExpressionsInv, RegistersType, Keywords
  <2>2. tmp_reg \in Registers /\ tmp_reg + 1 \in Registers /\ tmp_reg \in Int /\ base_free_reg \in Int
    BY <1>4, <2>1, RegisterFacts DEF TmpRegs
  <2>3. R' \in [Registers -> Word]
    BY <1>4, <2>1, <2>2, JunkIsWord
  <2>4. \A r \in base_free_reg .. tmp_reg - 1 : r \in Registers /\ r # tmp_reg /\ r # tmp_reg + 1
    BY <2>1, <2>2, RegisterFacts
  <2>5. \A r \in base_free_reg .. tmp_reg - 1 : R'[r] = R[r]
    BY <1>4, <2>1, <2>2, <2>4
  <2>. QED  BY <1>4, <2>1, <2>3, <2>5, NamesNext
<1>. QED  BY <1>1, <1>2, <1>3, <1>4 DEF Pulse

(* The end of a statement: no operand is left, so only the variables'      *)
(* registers matter.                                                       *)
LEMMA StatementEnds ==
  ASSUME ExpressionsInv, alloc' = alloc, tmp_reg' \in base_tmp_reg .. last_tmp_reg + 1,
         EndStatement, fold = NoFold, fold' = fold,
         R' \in [Registers -> Word], \A r \in base_free_reg .. base_tmp_reg - 1 : R'[r] = R[r],
         used' = meant'
  PROVE  ExpressionsInv'
<1>1. vals' = << >> /\ fold' = NoFold /\ pc' = "Statement" /\ "Statement" # "Assignment"
  BY DEF EndStatement
<1>2. vals' \in Seq(Value) /\ OperandsInv'
  BY <1>1, NoOperands
<1>3. RegistersType
  BY DEF ExpressionsInv
<1>4. RegistersType'
  BY <1>1, <1>2, <1>3, SameNames
<1>5. NamesInv'
  BY <1>1, VariablesUntouched
<1>. QED  BY <1>2, <1>4, <1>5 DEF ExpressionsInv, EveryUseIsMeant

(* What an operand of the statement is worth.                              *)
LEMMA StoredIs ==
  ASSUME ExpressionsInv, NEW k \in 1 .. Len(vals)
  PROVE  /\ vals[k] \in Value /\ Stored(vals[k]) = vals[k].means /\ vals[k].means \in Word
         /\ vals[k].type = "int" => vals[k].value = vals[k].means
         /\ vals[k].type # "int" => /\ vals[k].type = "reg"
                                    /\ vals[k].value \in base_free_reg .. tmp_reg - 1
                                    /\ vals[k].value \in Registers
                                    /\ R[vals[k].value] = vals[k].means
<1>1. RegistersType /\ vals \in Seq(Value) /\ Right(vals[k], tmp_reg)
  BY DEF ExpressionsInv, RegistersType, OperandsInv
<1>2. vals[k] \in Value
  BY <1>1, ElementOfSeq
<1>3. vals[k].means \in Word /\ vals[k].type \in {"int", "reg"}
  BY <1>2 DEF Value
<1>4. CASE vals[k].type = "int"
  BY <1>1, <1>2, <1>3, <1>4 DEF Right, Stored
<1>5. CASE vals[k].type # "int"
  <2>1. vals[k].value \in base_free_reg .. tmp_reg - 1 /\ R[vals[k].value] = vals[k].means
    BY <1>1, <1>5 DEF Right
  <2>2. vals[k].value \in Registers
    BY <1>1, <2>1, RegisterFacts
  <2>3. Stored(vals[k]) = R[vals[k].value]
    BY <1>5 DEF Stored
  <2>. QED  BY <1>2, <1>3, <1>5, <2>1, <2>2, <2>3
<1>. QED  BY <1>4, <1>5

LEMMA ResetTmp == RegistersType => base_tmp_reg \in base_tmp_reg .. last_tmp_reg + 1
  BY RegisterFacts

LEMMA AssignmentStep == ASSUME ExpressionsInv, Assignment PROVE ExpressionsInv'
<1>1. /\ pc = "Assignment" /\ fold = NoFold /\ 1 \in 1 .. Len(vals)
      /\ RegistersType /\ NamesInv /\ EveryUseIsMeant /\ R \in [Registers -> Word]
  BY DEF Assignment, InExpression, ExpressionsInv, RegistersType
<1>. DEFINE rhs == vals[1]
<1>2. /\ Stored(rhs) = rhs.means /\ rhs.means \in Word
      /\ rhs.type = "int" => rhs.value = rhs.means
      /\ rhs.type # "int" => /\ rhs.value \in base_free_reg .. tmp_reg - 1
                             /\ rhs.value \in Registers /\ R[rhs.value] = rhs.means
  BY <1>1, StoredIs
<1>. HIDE DEF rhs
<1>3. base_free_reg \in Int /\ base_tmp_reg \in Int /\ tmp_reg \in Int /\ base_tmp_reg <= tmp_reg
      /\ \A r \in base_free_reg .. tmp_reg - 1 : r \in Registers
  BY <1>1, RegisterFacts
<1>4. CASE AssignVariable(rhs)
  <2>1. /\ target \in Symbols /\ reg_var_map' = reg_var_map /\ free_reg' = free_reg
        /\ R' = [R EXCEPT ![reg_var_map[target]] = rhs.means]
        /\ env' = [env EXCEPT ![target] = rhs.means]
        /\ tmp_reg' = base_tmp_reg /\ vals' = << >> /\ pc' = "Statement"
        /\ fold' = NoFold /\ log' = log
    BY <1>1, <1>2, <1>4 DEF AssignVariable, reset_tmp_regs, EndStatement
  <2>2. target \in DOMAIN reg_var_map
    BY <1>1, <2>1 DEF NamesInv
  <2>3. reg_var_map[target] \in Registers
    BY <2>2, NameFacts
  <2>4. R' \in [Registers -> Word]
    BY <1>1, <1>2, <2>1
  <2>5. env \in [DOMAIN reg_var_map -> Word] /\ DOMAIN env = DOMAIN reg_var_map
    BY <1>1 DEF RegistersType
  <2>6. env' \in [DOMAIN reg_var_map -> Word]
    BY <1>2, <2>1, <2>2, <2>5
  <2>7. vals' \in Seq(Value) /\ OperandsInv'
    BY <2>1, NoOperands
  <2>8. RegistersType'
    <3>1. tmp_reg' \in base_tmp_reg .. last_tmp_reg + 1
      BY <1>1, <2>1, ResetTmp
    <3>2. /\ free_reg \in base_free_reg .. base_tmp_reg
          /\ DOMAIN reg_var_map \subseteq Symbols \cup Keywords
          /\ reg_var_map \in [DOMAIN reg_var_map -> base_free_reg .. free_reg - 1]
      BY <1>1 DEF RegistersType
    <3>. QED  BY <2>1, <2>4, <2>6, <2>7, <3>1, <3>2 DEF RegistersType
  <2>9. ASSUME NEW x \in DOMAIN reg_var_map PROVE R'[reg_var_map[x]] = env'[x]
    <3>1. CASE x = target
      BY <1>1, <2>1, <2>2, <2>3, <2>5, <3>1
    <3>2. CASE x # target
      <4>1. reg_var_map[x] # reg_var_map[target]
        BY <1>1, <2>2, <3>2 DEF NamesInv
      <4>2. reg_var_map[x] \in Registers /\ R[reg_var_map[x]] = env[x]
        BY NameFacts
      <4>. QED  BY <1>1, <2>1, <2>3, <2>5, <3>2, <4>1, <4>2
    <3>. QED  BY <3>1, <3>2
  <2>10. NamesInv'
    BY <1>1, <2>1, <2>9 DEF NamesInv, VariablesKept
  <2>11. EveryUseIsMeant'
    BY <1>1, <2>1 DEF EveryUseIsMeant, log
  <2>. QED  BY <2>7, <2>8, <2>10, <2>11 DEF ExpressionsInv
<1>5. CASE AssignTick(rhs)
  <2>. DEFINE n == IF rhs.type = "int" THEN 2 ELSE 1
  <2>1. CASE OutOfTmpRegs(n)
    BY <2>1, OutOfTmp
  <2>2. CASE /\ TmpRegs(n)
             /\ R' = [r \in Registers |-> CASE r = tmp_reg -> Junk
                                            [] n = 2 /\ r = tmp_reg + 1 -> rhs.value
                                            [] OTHER -> R[r]]
             /\ Log(<<IF n = 2 THEN rhs.value ELSE R'[rhs.value]>>, <<rhs.means>>)
             /\ reset_tmp_regs /\ EndStatement
             /\ UNCHANGED <<alloc, code, pins, fold, blocks, bare>>
    <3>1. n \in {1, 2} /\ (n = 2 <=> rhs.type = "int")
      OBVIOUS
    <3>. HIDE DEF n
    <3>2. R' \in [Registers -> Word]
      <4>1. n = 2 => rhs.value \in Word
        BY <1>2, <3>1
      <4>2. \A r \in Registers : (CASE r = tmp_reg -> Junk
                                    [] n = 2 /\ r = tmp_reg + 1 -> rhs.value
                                    [] OTHER -> R[r]) \in Word
        BY <1>1, <4>1, JunkIsWord
      <4>. QED  BY <2>2, <4>2
    <3>3. \A r \in base_free_reg .. tmp_reg - 1 : R'[r] = R[r]
      BY <1>3, <2>2
    <3>4. \A r \in base_free_reg .. base_tmp_reg - 1 : R'[r] = R[r]
      BY <1>3, <3>3
    <3>5. used' = meant'
      <4>1. CASE n = 2
        BY <1>2, <2>2, <3>1, <4>1 DEF Log
      <4>2. CASE n = 1
        BY <1>2, <2>2, <3>1, <3>3, <4>2 DEF Log
      <4>. QED  BY <3>1, <4>1, <4>2
    <3>6. tmp_reg' \in base_tmp_reg .. last_tmp_reg + 1
      BY <1>1, <2>2, ResetTmp DEF reset_tmp_regs
    <3>. QED  BY <1>1, <2>2, <3>2, <3>4, <3>5, <3>6, StatementEnds
  <2>. QED  BY <1>5, <2>1, <2>2 DEF AssignTick
<1>6. CASE AssignPin(rhs)
  <2>1. CASE \/ Throw("not an integer literal") \/ Throw("cannot be used for output")
             \/ Throw("input and output")
    <3>1. /\ "not an integer literal" # "Assignment" /\ "cannot be used for output" # "Assignment"
          /\ "input and output" # "Assignment"
      OBVIOUS
    <3>. QED  BY <2>1, <3>1, Throws
  <2>2. CASE /\ reset_tmp_regs /\ EndStatement
             /\ UNCHANGED <<alloc, code, fold, blocks, R, log, bare>>
    <3>1. tmp_reg' \in base_tmp_reg .. last_tmp_reg + 1
      BY <1>1, <2>2, ResetTmp DEF reset_tmp_regs
    <3>2. used' = meant'
      BY <1>1, <2>2 DEF EveryUseIsMeant, log
    <3>. QED  BY <1>1, <2>2, <3>1, <3>2, StatementEnds
  <2>. QED  BY <1>6, <2>1, <2>2 DEF AssignPin
<1>. QED  BY <1>4, <1>5, <1>6 DEF Assignment, rhs

LEMMA PrintStep == ASSUME ExpressionsInv, PrintArguments PROVE ExpressionsInv'
<1>1. CASE OutOfTmpRegs(1)
  BY <1>1, OutOfTmp
<1>2. CASE /\ TmpRegs(1)
           /\ LET Overwritten(k) == vals[k].type = "reg" /\ vals[k].value = tmp_reg
                                    /\ \E j \in k + 1 .. Len(vals) : vals[j].type = "int"
              IN  Log([k \in DOMAIN vals |-> IF Overwritten(k) THEN << >> ELSE Stored(vals[k])],
                      [k \in DOMAIN vals |-> vals[k].means])
           /\ R' = [r \in Registers |-> IF r \in {2, 3, 4, tmp_reg} THEN Junk ELSE R[r]]
           /\ EndStatement
           /\ UNCHANGED <<alloc, tmp_reg, code, pins, fold, blocks, bare>>
  <2>1. /\ fold = NoFold /\ RegistersType /\ vals \in Seq(Value) /\ R \in [Registers -> Word]
        /\ tmp_reg \in base_tmp_reg .. last_tmp_reg + 1
    BY DEF PrintArguments, InExpression, ExpressionsInv, RegistersType
  <2>2. DOMAIN vals = 1 .. Len(vals)
    BY <2>1, LenProperties
  <2>3. \A k \in DOMAIN vals : vals[k].type = "reg" => vals[k].value # tmp_reg
    BY <2>1, <2>2, StoredIs, RegisterFacts
  <2>4. used' = meant'
    BY <1>2, <2>2, <2>3, StoredIs DEF Log
  <2>5. R' \in [Registers -> Word]
    BY <1>2, <2>1, JunkIsWord
  <2>6. \A r \in base_free_reg .. base_tmp_reg - 1 : r \in Registers /\ r \notin {2, 3, 4, tmp_reg}
    BY <2>1, RegisterFacts
  <2>7. \A r \in base_free_reg .. base_tmp_reg - 1 : R'[r] = R[r]
    BY <1>2, <2>6
  <2>. QED  BY <1>2, <2>1, <2>4, <2>5, <2>7, StatementEnds
<1>. QED  BY <1>1, <1>2 DEF PrintArguments

LEMMA CondPinStep ==
  ASSUME ExpressionsInv, NEW pin \in Pins, CondPin(pin) PROVE ExpressionsInv'
<1>1. CASE Throw("cannot be used for input") \/ Throw("input and output")
  <2>1. "cannot be used for input" # "Assignment" /\ "input and output" # "Assignment"
    OBVIOUS
  <2>. QED  BY <1>1, <2>1, Throws
<1>2. CASE Branch /\ UNCHANGED <<alloc, tmp_reg, fold, blocks, R, log, bare>>
  <2>1. /\ EndStatement /\ fold = NoFold /\ R \in [Registers -> Word]
        /\ tmp_reg \in base_tmp_reg .. last_tmp_reg + 1 /\ EveryUseIsMeant
    BY <1>2 DEF CondPin, Branch, ExpressionsInv, RegistersType
  <2>. QED  BY <1>2, <2>1, StatementEnds DEF EveryUseIsMeant, log
<1>. QED  BY <1>1, <1>2 DEF CondPin

(* The branch is taken when the condition does not hold.                   *)
LEMMA JumpsUnlessHolds ==
  ASSUME NEW op \in Relations, NEW a \in Word, NEW b \in Word
  PROVE  Jumps(Opcode[op], a, b) = ~Holds(op, a, b)
<1>1. Less(a, b) \in BOOLEAN /\ Less(b, a) \in BOOLEAN
  BY DataAssumption
<1>2. CASE op = ">"
  <2>1. Opcode[op] = "qble"
    BY <1>2 DEF Opcode
  <2>. QED  BY <1>1, <1>2, <2>1 DEF Jumps, Holds
<1>3. CASE op = "<"
  <2>1. Opcode[op] = "qbge"
    BY <1>3 DEF Opcode
  <2>. QED  BY <1>1, <1>3, <2>1 DEF Jumps, Holds
<1>4. CASE op = ">="
  <2>1. Opcode[op] = "qblt"
    BY <1>4 DEF Opcode
  <2>. QED  BY <1>1, <1>4, <2>1 DEF Jumps, Holds
<1>5. CASE op = "<="
  <2>1. Opcode[op] = "qbgt"
    BY <1>5 DEF Opcode
  <2>. QED  BY <1>1, <1>5, <2>1 DEF Jumps, Holds
<1>6. CASE op = "=="
  <2>1. Opcode[op] = "qbne"
    BY <1>6 DEF Opcode
  <2>. QED  BY <1>1, <1>6, <2>1 DEF Jumps, Holds
<1>. QED  BY <1>2, <1>3, <1>4, <1>5, <1>6 DEF Relations

LEMMA HowMany ==
  ASSUME NEW P1 \in BOOLEAN, NEW P2 \in BOOLEAN
  PROVE  Cardinality({k \in {1, 2} : IF k = 1 THEN P1 ELSE P2}) =
           (IF P1 THEN 1 ELSE 0) + (IF P2 THEN 1 ELSE 0)
<1>. DEFINE S == {k \in {1, 2} : IF k = 1 THEN P1 ELSE P2}
            m == (IF P1 THEN 1 ELSE 0) + (IF P2 THEN 1 ELSE 0)
<1>1. CASE P1 /\ P2
  <2>1. S = {1} \cup {2} /\ m = 2
    BY <1>1
  <2>. HIDE DEF S, m
  <2>2. IsFiniteSet({1}) /\ Cardinality({1}) = 1 /\ 2 \notin {1}
    BY FS_Singleton
  <2>3. Cardinality({1} \cup {2}) = 1 + 1
    BY <2>2, FS_AddElement
  <2>4. Cardinality(S) = m
    BY <2>1, <2>3
  <2>. QED  BY <2>4 DEF S, m
<1>2. CASE P1 # P2
  <2>1. (S = {1} \/ S = {2}) /\ m = 1
    BY <1>2
  <2>. HIDE DEF S, m
  <2>2. Cardinality({1}) = 1 /\ Cardinality({2}) = 1
    BY FS_Singleton
  <2>3. Cardinality(S) = m
    BY <2>1, <2>2
  <2>. QED  BY <2>3 DEF S, m
<1>3. CASE ~P1 /\ ~P2
  <2>1. S = {} /\ m = 0
    BY <1>3
  <2>. HIDE DEF S, m
  <2>2. Cardinality(S) = m
    BY <2>1, FS_EmptySet
  <2>. QED  BY <2>2 DEF S, m
<1>. QED  BY <1>1, <1>2, <1>3

LEMMA CondExpressionStep ==
  ASSUME ExpressionsInv, NEW op \in Relations, CondExpression(op) PROVE ExpressionsInv'
<1>. DEFINE lhs == vals[1]
            rhs == vals[2]
            n == Cardinality({k \in {1, 2} : vals[k].type = "int"})
            regs == [r \in Registers |->
                       CASE lhs.type = "int" /\ r = tmp_reg -> lhs.value
                         [] rhs.type = "int" /\ r = tmp_reg + n - 1 -> rhs.value
                         [] OTHER -> R[r]]
            Reg(o, r) == IF o.type = "int" THEN r ELSE o.value
<1>1. CASE OutOfTmpRegs(n)
  BY <1>1, OutOfTmp
<1>2. CASE /\ n = 0 \/ TmpRegs(n)
           /\ R' = regs
           /\ Log(<<Jumps(Opcode[op], regs[Reg(lhs, tmp_reg)], regs[Reg(rhs, tmp_reg + n - 1)])>>,
                  <<~Holds(op, lhs.means, rhs.means)>>)
           /\ Branch
           /\ UNCHANGED <<alloc, tmp_reg, pins, fold, blocks, bare>>
  <2>1. /\ fold = NoFold /\ 1 \in 1 .. Len(vals) /\ 2 \in 1 .. Len(vals)
        /\ RegistersType /\ R \in [Registers -> Word]
        /\ tmp_reg \in base_tmp_reg .. last_tmp_reg + 1
    BY DEF CondExpression, InExpression, ExpressionsInv, RegistersType
  <2>2. /\ lhs.means \in Word /\ rhs.means \in Word
        /\ lhs.type = "int" => lhs.value = lhs.means
        /\ lhs.type # "int" => /\ lhs.value \in base_free_reg .. tmp_reg - 1
                               /\ lhs.value \in Registers /\ R[lhs.value] = lhs.means
        /\ rhs.type = "int" => rhs.value = rhs.means
        /\ rhs.type # "int" => /\ rhs.value \in base_free_reg .. tmp_reg - 1
                               /\ rhs.value \in Registers /\ R[rhs.value] = rhs.means
    BY <2>1, StoredIs
  <2>3. n = (IF lhs.type = "int" THEN 1 ELSE 0) + (IF rhs.type = "int" THEN 1 ELSE 0)
    <3>1. {k \in {1, 2} : vals[k].type = "int"} =
            {k \in {1, 2} : IF k = 1 THEN lhs.type = "int" ELSE rhs.type = "int"}
      OBVIOUS
    <3>2. (lhs.type = "int") \in BOOLEAN /\ (rhs.type = "int") \in BOOLEAN
      OBVIOUS
    <3>. QED  BY <3>1, <3>2, HowMany
  <2>4. /\ tmp_reg \in Int /\ base_tmp_reg <= tmp_reg /\ base_free_reg \in Int /\ base_tmp_reg \in Int
        /\ base_free_reg <= base_tmp_reg
        /\ \A r \in base_free_reg .. tmp_reg - 1 : r \in Registers
    BY <2>1, RegisterFacts
  <2>5. /\ n >= 1 => tmp_reg \in Registers
        /\ n = 2 => tmp_reg + 1 \in Registers
    <3>1. /\ tmp_reg \in Nat /\ last_tmp_reg \in Nat /\ 2 <= tmp_reg
          /\ \A r \in Int : r \in Registers <=> 2 <= r /\ r <= last_tmp_reg
      BY <2>1, RegisterFacts
    <3>2. n = 0 \/ tmp_reg + n - 1 <= last_tmp_reg
      BY <1>2 DEF TmpRegs
    <3>3. n \in {0, 1, 2}
      BY <2>3
    <3>. HIDE DEF n
    <3>. QED  BY <3>1, <3>2, <3>3
  <2>. HIDE DEF n, lhs, rhs
  <2>6. regs \in [Registers -> Word]
    <3>1. \A r \in Registers :
            (CASE lhs.type = "int" /\ r = tmp_reg -> lhs.value
               [] rhs.type = "int" /\ r = tmp_reg + n - 1 -> rhs.value
               [] OTHER -> R[r]) \in Word
      <4>1. (lhs.type = "int" => lhs.value \in Word) /\ (rhs.type = "int" => rhs.value \in Word)
        BY <2>2
      <4>. QED  BY <2>1, <4>1
    <3>. QED  BY <3>1
  <2>7. \A r \in base_free_reg .. tmp_reg - 1 : regs[r] = R[r]
    <3>1. lhs.type = "int" \/ rhs.type = "int" => n >= 1
      BY <2>3
    <3>2. n \in Int
      BY <2>3
    <3>. QED  BY <2>4, <3>1, <3>2
  <2>8. regs[Reg(lhs, tmp_reg)] = lhs.means
    <3>1. CASE lhs.type = "int"
      <4>1. n >= 1 /\ tmp_reg \in Registers
        BY <2>3, <2>5, <3>1
      <4>2. rhs.type = "int" => tmp_reg # tmp_reg + n - 1
        BY <2>3, <2>4, <3>1
      <4>3. Reg(lhs, tmp_reg) = tmp_reg /\ regs[tmp_reg] = lhs.value
        BY <3>1, <4>1, <4>2
      <4>. HIDE DEF regs, Reg
      <4>. QED  BY <2>2, <3>1, <4>3
    <3>2. CASE lhs.type # "int"
      <4>1. Reg(lhs, tmp_reg) = lhs.value
        BY <3>2
      <4>. HIDE DEF regs, Reg
      <4>. QED  BY <2>2, <2>7, <3>2, <4>1
    <3>. QED  BY <3>1, <3>2
  <2>9. regs[Reg(rhs, tmp_reg + n - 1)] = rhs.means
    <3>1. CASE rhs.type = "int" /\ lhs.type = "int"
      <4>1. n = 2 /\ tmp_reg + n - 1 = tmp_reg + 1 /\ tmp_reg + 1 # tmp_reg
        BY <2>3, <2>4, <3>1
      <4>2. Reg(rhs, tmp_reg + 1) = tmp_reg + 1 /\ regs[tmp_reg + 1] = rhs.value
        BY <2>5, <3>1, <4>1
      <4>. HIDE DEF regs, Reg
      <4>. QED  BY <2>2, <3>1, <4>1, <4>2
    <3>2. CASE rhs.type = "int" /\ lhs.type # "int"
      <4>1. n = 1 /\ tmp_reg + n - 1 = tmp_reg
        BY <2>3, <2>4, <3>2
      <4>2. Reg(rhs, tmp_reg) = tmp_reg /\ regs[tmp_reg] = rhs.value
        <5>1. tmp_reg \in Registers
          BY <2>5, <4>1
        <5>. QED  BY <3>2, <4>1, <5>1
      <4>. HIDE DEF regs, Reg
      <4>. QED  BY <2>2, <3>2, <4>1, <4>2
    <3>3. CASE rhs.type # "int"
      <4>1. Reg(rhs, tmp_reg + n - 1) = rhs.value
        BY <3>3
      <4>. HIDE DEF regs, Reg
      <4>. QED  BY <2>2, <2>7, <3>3, <4>1
    <3>. QED  BY <3>1, <3>2, <3>3
  <2>. HIDE DEF regs, Reg
  <2>10. used' = meant'
    BY <1>2, <2>2, <2>8, <2>9, JumpsUnlessHolds DEF Log
  <2>11. \A r \in base_free_reg .. base_tmp_reg - 1 : R'[r] = R[r]
    BY <1>2, <2>4, <2>7
  <2>12. EndStatement
    BY <1>2 DEF Branch
  <2>. QED  BY <1>2, <2>1, <2>6, <2>10, <2>11, <2>12, StatementEnds
<1>. QED  BY <1>1, <1>2 DEF CondExpression

LEMMA ExpressionsNext == ExpressionsInv /\ [Next]_vars => ExpressionsInv'
<1>. SUFFICES ASSUME ExpressionsInv, [Next]_vars PROVE ExpressionsInv'
  OBVIOUS
<1>1. CASE Factor
  BY <1>1, IntegerStep, TickStep, IdentifierStep DEF Factor
<1>2. CASE Combining
  BY <1>2, LoopStep, ChainStep DEF Combining
<1>3. CASE Starting
  BY <1>3, StartAssignmentStep, StartPrintStep, PulseStep, StartBlockStep DEF Starting
<1>4. CASE Ending
  <2>1. CASE CloseBlock
    BY <2>1, NothingRead DEF CloseBlock
  <2>2. CASE compile
    <3>1. "compiled" # "Assignment"
      OBVIOUS
    <3>. QED  BY <2>2, <3>1, NothingRead DEF compile
  <2>. QED  BY <1>4, <2>1, <2>2, AssignmentStep, PrintStep, CondPinStep, CondExpressionStep DEF Ending
<1>5. CASE UNCHANGED vars
  BY <1>5, NothingRead DEF vars
<1>. QED  BY <1>1, <1>2, <1>3, <1>4, <1>5 DEF Next

LEMMA ExpressionsInit == Init => ExpressionsInv
<1>. SUFFICES ASSUME Init PROVE ExpressionsInv
  OBVIOUS
<1>1. reg_var_map = << >> /\ env = << >> /\ vals = << >> /\ fold = NoFold
      /\ free_reg = base_free_reg /\ tmp_reg = base_tmp_reg /\ pc = "Statement"
      /\ R = [r \in Registers |-> Junk] /\ used = << >> /\ meant = << >>
  BY DEF Init
<1>2. DOMAIN reg_var_map = {}
  BY <1>1
<1>3. reg_var_map \in [{} -> base_free_reg .. free_reg - 1] /\ env \in [{} -> Word]
  BY <1>1
<1>4. free_reg \in base_free_reg .. base_tmp_reg /\ tmp_reg \in base_tmp_reg .. last_tmp_reg + 1
  BY <1>1, RegisterAssumption
<1>5. R \in [Registers -> Word]
  BY <1>1, JunkIsWord
<1>6. vals \in Seq(Value) /\ Len(vals) = 0
  BY <1>1, EmptySeq
<1>7. RegistersType
  BY <1>1, <1>2, <1>3, <1>4, <1>5, <1>6 DEF RegistersType
<1>8. NamesInv
  BY <1>1, <1>2 DEF NamesInv, VariablesKept
<1>9. OperandsInv
  BY <1>1, <1>6 DEF OperandsInv
<1>. QED  BY <1>1, <1>7, <1>8, <1>9 DEF ExpressionsInv, EveryUseIsMeant

(* For any number of registers and any program, no statement disturbs the  *)
(* register of a variable it does not assign to.                           *)
THEOREM VariablesAreKept == Spec => []VariablesKept
<1>1. ExpressionsInv => VariablesKept
  BY DEF ExpressionsInv, NamesInv
<1>. QED  BY <1>1, ExpressionsInit, ExpressionsNext, PTL DEF Spec

(* For any program, what is printed, branched on or stored into the        *)
(* counter is the value of its expression, however temporary registers and *)
(* immediates were mixed.                                                  *)
THEOREM UsesAreMeant == Spec => []EveryUseIsMeant
<1>1. ExpressionsInv => EveryUseIsMeant
  BY DEF ExpressionsInv
<1>. QED  BY <1>1, ExpressionsInit, ExpressionsNext, PTL DEF Spec

-----------------------------------------------------------------------------
(* Pins.                                                                   *)
LEMMA PinAssigned ==
  ASSUME PinsInv, NEW pin, NEW dir, ~Conflict(pin, dir), assign_pin(pin, dir),
         pinUses' = pinUses \cup {<<pin, dir>>}, pc' # "compiled"
  PROVE  PinsInv'
<1>1. pinUses = {<<p, pin_settings[p]>> : p \in DOMAIN pin_settings}
  BY DEF PinsInv
<1>2. DOMAIN pin_settings' = DOMAIN pin_settings \cup {pin} /\ pin_settings'[pin] = dir
  BY DEF assign_pin
<1>3. \A p \in DOMAIN pin_settings : pin_settings'[p] = pin_settings[p]
  BY DEF assign_pin, Conflict
<1>4. pinUses' = {<<p, pin_settings'[p]>> : p \in DOMAIN pin_settings'}
  BY <1>1, <1>2, <1>3
<1>. QED  BY <1>4 DEF PinsInv, PinsAreConfigured

LEMMA PinsKept ==
  ASSUME PinsInv, pins' = pins, asm_src' = asm_src, pc' = pc \/ pc' # "compiled"
  PROVE  PinsInv'
  BY DEF PinsInv, PinsAreConfigured, pins

LEMMA ThrowKeepsPins ==
  ASSUME PinsInv, NEW message, message # "compiled", Throw(message)
  PROVE  PinsInv'
  BY PinsKept DEF Throw, code

LEMMA PinsNext == PinsInv /\ [Next]_vars => PinsInv'
<1>. SUFFICES ASSUME PinsInv, [Next]_vars PROVE PinsInv'
  OBVIOUS
<1>1. /\ "out of registers" # "compiled" /\ "out of tmp registers" # "compiled"
      /\ "not an integer literal" # "compiled" /\ "cannot be used for output" # "compiled"
      /\ "cannot be used for input" # "compiled" /\ "input and output" # "compiled"
      /\ "Statement" # "compiled" /\ "Assignment" # "compiled" /\ "Print" # "compiled"
      /\ "CondExpression" # "compiled"
  OBVIOUS
<1>2. ASSUME NEW n, OutOfTmpRegs(n) PROVE PinsInv'
  BY <1>1, <1>2, ThrowKeepsPins DEF OutOfTmpRegs
<1>3. ASSUME NEW x, OutOfRegisters(x) PROVE PinsInv'
  BY <1>1, <1>3, ThrowKeepsPins DEF OutOfRegisters
<1>4. CASE Factor
  <2>1. CASE Integer
    BY <2>1, PinsKept DEF Integer, code
  <2>2. CASE Tick
    BY <1>2, <2>2, PinsKept DEF Tick, code
  <2>3. ASSUME NEW x \in Symbols, Identifier(x) PROVE PinsInv'
    BY <1>3, <2>3, PinsKept DEF Identifier, code
  <2>. QED  BY <1>4, <2>1, <2>2, <2>3 DEF Factor
<1>5. CASE Combining
  <2>1. CASE ExpressionLoop
    BY <1>2, <2>1, PinsKept DEF ExpressionLoop, code
  <2>2. ASSUME NEW ops \in Chains, Expression(ops) PROVE PinsInv'
    BY <1>2, <2>2, PinsKept DEF Expression, code
  <2>. QED  BY <1>5, <2>1, <2>2 DEF Combining
<1>6. CASE Starting
  <2>1. ASSUME NEW t \in Symbols \cup Pins \cup {"tick"}, StartAssignment(t) PROVE PinsInv'
    BY <1>1, <1>3, <2>1, PinsKept DEF StartAssignment, code
  <2>2. CASE StartPrint
    BY <1>1, <1>3, <2>2, PinsKept DEF StartPrint, code
  <2>3. ASSUME NEW pin \in Pins, Pulse(pin) PROVE PinsInv'
    <3>1. pc = "Statement"
      BY <2>3 DEF Pulse, AtStatement
    <3>2. CASE /\ assign_pin(pin, "output") /\ pinUses' = pinUses \cup {<<pin, "output">>}
               /\ ~Conflict(pin, "output")
               /\ UNCHANGED <<tmp_reg, asm_src, pc, target, vals, fold, blocks, log, bare>>
      BY <1>1, <3>1, <3>2, PinAssigned
    <3>. QED  BY <1>1, <1>2, <1>3, <2>3, <3>2, ThrowKeepsPins DEF Pulse
  <2>4. ASSUME NEW keyword \in {"while", "if"}, StartBlock(keyword) PROVE PinsInv'
    BY <1>1, <1>3, <2>4, PinsKept DEF StartBlock
  <2>. QED  BY <1>6, <2>1, <2>2, <2>3, <2>4 DEF Starting
<1>7. CASE Ending
  <2>1. CASE Assignment
    <3>1. CASE AssignVariable(vals[1])
      BY <1>1, <3>1, PinsKept DEF AssignVariable, EndStatement, code
    <3>2. CASE AssignTick(vals[1])
      BY <1>1, <1>2, <3>2, PinsKept DEF AssignTick, EndStatement, code
    <3>3. CASE AssignPin(vals[1])
      <4>1. CASE \/ Throw("not an integer literal") \/ Throw("cannot be used for output")
                 \/ Throw("input and output")
        BY <1>1, <4>1, ThrowKeepsPins
      <4>2. CASE /\ ~Conflict(target, "output")
                 /\ assign_pin(target, "output") /\ pinUses' = pinUses \cup {<<target, "output">>}
                 /\ EndStatement
        BY <1>1, <4>2, PinAssigned DEF EndStatement
      <4>. QED  BY <3>3, <4>1, <4>2 DEF AssignPin
    <3>. QED  BY <2>1, <3>1, <3>2, <3>3 DEF Assignment
  <2>2. CASE PrintArguments
    BY <1>1, <1>2, <2>2, PinsKept DEF PrintArguments, EndStatement, code
  <2>3. CASE CloseBlock
    BY <2>3, PinsKept DEF CloseBlock
  <2>4. CASE compile
    BY <2>4 DEF compile, PinsInv, PinsAreConfigured, pins
  <2>5. ASSUME NEW pin \in Pins, CondPin(pin) PROVE PinsInv'
    <3>1. CASE /\ ~Conflict(pin, "input") /\ assign_pin(pin, "input")
               /\ pinUses' = pinUses \cup {<<pin, "input">>}
               /\ Branch
      BY <1>1, <3>1, PinAssigned DEF Branch, EndStatement
    <3>. QED  BY <1>1, <2>5, <3>1, ThrowKeepsPins DEF CondPin
  <2>6. ASSUME NEW op \in Relations, CondExpression(op) PROVE PinsInv'
    BY <1>1, <1>2, <2>6, PinsKept DEF CondExpression, Branch, EndStatement
  <2>. QED  BY <1>7, <2>1, <2>2, <2>3, <2>4, <2>5, <2>6 DEF Ending
<1>8. CASE UNCHANGED vars
  BY <1>8, PinsKept DEF vars, code
<1>. QED  BY <1>4, <1>5, <1>6, <1>7, <1>8 DEF Next

(* For any pins and any program, what compile() says of the pins is every  *)
(* use of them, one direction each.                                        *)
THEOREM PinsAreSaid == Spec => []PinsAreConfigured
<1>1. Init => PinsInv
  BY DEF Init, PinsInv, PinsAreConfigured
<1>2. PinsInv => PinsAreConfigured
  BY DEF PinsInv
<1>. QED  BY <1>1, <1>2, PinsNext, PTL DEF Spec

-----------------------------------------------------------------------------
(* Labels.                                                                 *)
LEMMA LinesConcat ==
  ASSUME NEW s \in Seq(Label), NEW t \in Seq(Label)
  PROVE  /\ s \o t \in Seq(Label)
         /\ Lines(s \o t) = Lines(s) \cup Lines(t)
         /\ Lines(s) \subseteq Label
         /\ OnceIn(s) /\ OnceIn(t) /\ (\A c \in Lines(s) \cap Lines(t) : c.op # "label")
              => OnceIn(s \o t)
<1>. DEFINE u == s \o t
<1>1. /\ u \in Seq(Label) /\ Len(u) = Len(s) + Len(t)
      /\ \A i \in 1 .. Len(s) + Len(t) : u[i] = IF i <= Len(s) THEN s[i] ELSE t[i - Len(s)]
  BY ConcatProperties
<1>2. Len(s) \in Nat /\ Len(t) \in Nat
  BY LenProperties
<1>. HIDE DEF u
<1>3. /\ \A i \in 1 .. Len(s) : i \in 1 .. Len(u) /\ u[i] = s[i]
      /\ \A i \in 1 .. Len(t) : Len(s) + i \in 1 .. Len(u) /\ u[Len(s) + i] = t[i]
      /\ \A i \in 1 .. Len(u) : \/ i \in 1 .. Len(s) /\ u[i] = s[i]
                                \/ i - Len(s) \in 1 .. Len(t) /\ u[i] = t[i - Len(s)]
  <2>1. \A i \in 1 .. Len(s) : i \in 1 .. Len(u) /\ u[i] = s[i]
    BY <1>1, <1>2
  <2>2. \A i \in 1 .. Len(t) : Len(s) + i \in 1 .. Len(u) /\ u[Len(s) + i] = t[i]
    <3>. SUFFICES ASSUME NEW i \in 1 .. Len(t)
                  PROVE  Len(s) + i \in 1 .. Len(u) /\ u[Len(s) + i] = t[i]
      OBVIOUS
    <3>1. /\ Len(s) + i \in 1 .. Len(s) + Len(t)
          /\ ~(Len(s) + i <= Len(s)) /\ Len(s) + i - Len(s) = i
      BY <1>2
    <3>. QED  BY <1>1, <3>1
  <2>3. ASSUME NEW i \in 1 .. Len(u), ~(i <= Len(s))
        PROVE  i - Len(s) \in 1 .. Len(t) /\ u[i] = t[i - Len(s)]
    BY <1>1, <1>2, <2>3
  <2>4. ASSUME NEW i \in 1 .. Len(u), i <= Len(s)
        PROVE  i \in 1 .. Len(s) /\ u[i] = s[i]
    BY <1>1, <1>2, <2>4
  <2>. QED  BY <2>1, <2>2, <2>3, <2>4
<1>4. Lines(u) = Lines(s) \cup Lines(t)
  <2>1. Lines(u) \subseteq Lines(s) \cup Lines(t)
    BY <1>3 DEF Lines
  <2>2. Lines(s) \subseteq Lines(u)
    <3>1. \A i \in 1 .. Len(s) : \E k \in 1 .. Len(u) : u[k] = s[i]
      BY <1>3, Zenon
    <3>. QED  BY <3>1 DEF Lines
  <2>3. Lines(t) \subseteq Lines(u)
    <3>1. \A i \in 1 .. Len(t) : \E k \in 1 .. Len(u) : u[k] = t[i]
      BY <1>3, Zenon
    <3>. QED  BY <3>1 DEF Lines
  <2>. QED  BY <2>1, <2>2, <2>3
<1>5. Lines(s) \subseteq Label
  BY ElementOfSeq DEF Lines
<1>6. ASSUME OnceIn(s), OnceIn(t), \A c \in Lines(s) \cap Lines(t) : c.op # "label"
      PROVE  OnceIn(u)
  <2>. SUFFICES ASSUME NEW i \in 1 .. Len(u), NEW j \in 1 .. Len(u),
                       u[i].op = "label", u[i] = u[j]
                PROVE  i = j
    BY DEF OnceIn
  <2>1. CASE i \in 1 .. Len(s) /\ u[i] = s[i] /\ j \in 1 .. Len(s) /\ u[j] = s[j]
    BY <1>6, <2>1 DEF OnceIn
  <2>2. CASE /\ i - Len(s) \in 1 .. Len(t) /\ u[i] = t[i - Len(s)]
             /\ j - Len(s) \in 1 .. Len(t) /\ u[j] = t[j - Len(s)]
    <3>1. i - Len(s) = j - Len(s)
      BY <1>6, <2>2 DEF OnceIn
    <3>. QED  BY <1>2, <3>1, <1>1
  <2>3. CASE i \in 1 .. Len(s) /\ u[i] = s[i] /\ j - Len(s) \in 1 .. Len(t) /\ u[j] = t[j - Len(s)]
    <3>1. u[i] \in Lines(s) /\ u[i] \in Lines(t)
      BY <2>3 DEF Lines
    <3>. QED  BY <1>6, <3>1
  <2>4. CASE j \in 1 .. Len(s) /\ u[j] = s[j] /\ i - Len(s) \in 1 .. Len(t) /\ u[i] = t[i - Len(s)]
    <3>1. u[i] \in Lines(s) /\ u[i] \in Lines(t)
      BY <2>4 DEF Lines
    <3>. QED  BY <1>6, <3>1
  <2>. QED  BY <1>3, <2>1, <2>2, <2>3, <2>4
<1>. QED  BY <1>1, <1>4, <1>5, <1>6 DEF u

LEMMA LineIs ==
  /\ \A n \in Nat, part \in {"", "END", "ELSE_END"} :
       /\ Lbl(n, part) \in Label /\ Lbl(n, part).op = "label"
       /\ Lbl(n, part).n = n /\ Lbl(n, part).part = part
       /\ Jump(n, part) \in Label /\ Jump(n, part).op = "jump"
       /\ Jump(n, part).n = n /\ Jump(n, part).part = part
  /\ \A c \in Label : /\ c.n \in Nat /\ c.part \in {"", "END", "ELSE_END"}
                      /\ c.op \in {"label", "jump"}
                      /\ c.op = "label" => c = Lbl(c.n, c.part)
<1>1. ASSUME NEW n \in Nat, NEW part \in {"", "END", "ELSE_END"}
      PROVE  /\ Lbl(n, part) \in Label /\ Lbl(n, part).op = "label"
             /\ Lbl(n, part).n = n /\ Lbl(n, part).part = part
             /\ Jump(n, part) \in Label /\ Jump(n, part).op = "jump"
             /\ Jump(n, part).n = n /\ Jump(n, part).part = part
  BY DEF Lbl, Jump, Label
<1>2. ASSUME NEW c \in Label
      PROVE  /\ c.n \in Nat /\ c.part \in {"", "END", "ELSE_END"} /\ c.op \in {"label", "jump"}
             /\ c.op = "label" => c = Lbl(c.n, c.part)
  <2>1. c = [op |-> c.op, n |-> c.n, part |-> c.part]
    BY DEF Label
  <2>2. c.n \in Nat /\ c.part \in {"", "END", "ELSE_END"} /\ c.op \in {"label", "jump"}
    BY DEF Label
  <2>. QED  BY <2>1, <2>2 DEF Lbl
<1>. QED  BY <1>1, <1>2

LEMMA OneLine ==
  ASSUME NEW a \in Label
  PROVE  <<a>> \in Seq(Label) /\ Lines(<<a>>) = {a} /\ OnceIn(<<a>>)
<1>1. <<a>> \in Seq(Label) /\ Len(<<a>>) = 1 /\ <<a>>[1] = a
  OBVIOUS
<1>. QED  BY <1>1 DEF Lines, OnceIn

LEMMA TwoLines ==
  ASSUME NEW a \in Label, NEW b \in Label, a # b
  PROVE  <<a, b>> \in Seq(Label) /\ Lines(<<a, b>>) = {a, b} /\ OnceIn(<<a, b>>)
<1>1. <<a, b>> \in Seq(Label) /\ Len(<<a, b>>) = 2 /\ <<a, b>>[1] = a /\ <<a, b>>[2] = b
  OBVIOUS
<1>. QED  BY <1>1 DEF Lines, OnceIn

LEMMA FourLines ==
  ASSUME NEW a \in Label, NEW b \in Label, NEW c \in Label, NEW d \in Label,
         b.op = "jump", c.op = "jump", a # d
  PROVE  /\ <<a, b, c, d>> \in Seq(Label) /\ Lines(<<a, b, c, d>>) = {a, b, c, d}
         /\ OnceIn(<<a, b, c, d>>)
<1>. DEFINE s == <<a, b, c, d>>
<1>1. /\ s \in Seq(Label) /\ Len(s) = 4
      /\ s[1] = a /\ s[2] = b /\ s[3] = c /\ s[4] = d
  OBVIOUS
<1>. HIDE DEF s
<1>2. \A i \in 1 .. 4 : i = 1 \/ i = 2 \/ i = 3 \/ i = 4
  OBVIOUS
<1>3. Lines(s) = {a, b, c, d}
  BY <1>1, <1>2 DEF Lines
<1>4. OnceIn(s)
  BY <1>1, <1>2 DEF OnceIn
<1>. QED  BY <1>1, <1>3, <1>4 DEF s

(* Steps that emit neither label nor jump.                                 *)
Messages == {"out of registers", "out of tmp registers", "not an integer literal",
             "cannot be used for output", "cannot be used for input", "input and output"}
Quiet == /\ UNCHANGED <<code, blocks, bare>>
         /\ \/ pc' = pc
            \/ pc \in Reading /\ pc' \in Reading
            \/ pc' \in Messages

LEMMA QuietSteps == LabelsInv /\ Quiet => LabelsInv'
<1>. SUFFICES ASSUME LabelsInv, Quiet PROVE LabelsInv'
  OBVIOUS
<1>1. asm' = asm /\ loop_cnt' = loop_cnt /\ asm_src' = asm_src /\ blocks' = blocks /\ bare' = bare
  BY DEF Quiet, code
<1>2. /\ pc' \in Reading => pc \in Reading
      /\ pc' = "CondExpression" => pc = "CondExpression"
      /\ pc' = "compiled" => pc = "compiled"
  BY DEF Quiet, Reading, Messages
<1>3. CodeType' /\ OnceIn(asm)' /\ BlocksInv' /\ JumpsInv'
  <2>1. CodeType' /\ OnceIn(asm)'
    BY <1>1 DEF LabelsInv, CodeType, OnceIn
  <2>2. Lines(asm)' = Lines(asm)
    BY <1>1 DEF Lines
  <2>3. \A n, part : Has(n, part)' <=> Has(n, part)
    BY <2>2 DEF Has, Lbl
  <2>4. \A n, keys : Opens(n, keys)' <=> Opens(n, keys)
    BY <1>1 DEF Opens
  <2>5. BlocksInv'
    BY <1>1, <2>3 DEF LabelsInv, BlocksInv
  <2>6. JumpsInv'
    BY <1>1, <2>2, <2>3, <2>4 DEF LabelsInv, JumpsInv, Lands
  <2>. QED  BY <2>1, <2>5, <2>6
<1>4. NumbersInv'
  BY <1>1, <1>2 DEF LabelsInv, NumbersInv, Lines, Top
<1>5. LabelsResolve'
  BY <1>1, <1>2 DEF LabelsInv, LabelsResolve
<1>. QED  BY <1>3, <1>4, <1>5 DEF LabelsInv

(* The stack of blocks.                                                    *)
LEMMA BlockIs ==
  ASSUME LabelsInv, NEW b \in 1 .. Len(blocks)
  PROVE  blocks[b] \in Block /\ blocks[b].n \in Nat /\ blocks[b].key \in {"while", "if", "else"}
<1>1. blocks \in Seq(Block)
  BY DEF LabelsInv, CodeType
<1>2. blocks[b] \in Block
  BY <1>1, ElementOfSeq
<1>. QED  BY <1>2 DEF Block

LEMMA TopAndPop ==
  ASSUME LabelsInv, blocks # << >>
  PROVE  /\ Len(blocks) \in Nat /\ Len(blocks) >= 1
         /\ Top = blocks[Len(blocks)] /\ Top.n \in Nat /\ Top.key \in {"while", "if", "else"}
         /\ Pop \in Seq(Block) /\ Len(Pop) = Len(blocks) - 1
         /\ \A i \in 1 .. Len(blocks) - 1 : Pop[i] = blocks[i]
         /\ ElseBlock \in Seq(Block) /\ Len(ElseBlock) = Len(blocks)
         /\ \A i \in 1 .. Len(blocks) - 1 : ElseBlock[i] = blocks[i]
         /\ ElseBlock[Len(blocks)] = [key |-> "else", n |-> Top.n]
<1>1. blocks \in Seq(Block)
  BY DEF LabelsInv, CodeType
<1>2. Len(blocks) \in Nat /\ Len(blocks) >= 1
  BY <1>1, EmptySeq
<1>3. Top = blocks[Len(blocks)] /\ Top.n \in Nat /\ Top.key \in {"while", "if", "else"}
  BY <1>2, BlockIs DEF Top
<1>. DEFINE m == Len(blocks) - 1
<1>4. m \in Nat /\ m \in Int /\ Len(blocks) = m + 1
  BY <1>2
<1>5. \A i \in 1 .. m : blocks[i] \in Block
  BY <1>1, <1>2, BlockIs
<1>6. Pop = SubSeq(blocks, 1, m)
  BY DEF Pop
<1>. HIDE DEF m
<1>7. /\ Pop \in Seq(Block)
      /\ Len(Pop) = IF 1 <= m THEN m - 1 + 1 ELSE 0
      /\ \A i \in 1 .. m - 1 + 1 : Pop[i] = blocks[1 + i - 1]
  BY <1>4, <1>5, <1>6, SubSeqProperties
<1>8. Len(Pop) = m /\ \A i \in 1 .. m : Pop[i] = blocks[i]
  BY <1>4, <1>7
<1>9. [key |-> "else", n |-> Top.n] \in Block
  BY <1>3 DEF Block
<1>10. /\ ElseBlock \in Seq(Block) /\ Len(ElseBlock) = m + 1
       /\ \A i \in 1 .. m : ElseBlock[i] = Pop[i]
       /\ ElseBlock[m + 1] = [key |-> "else", n |-> Top.n]
  BY <1>7, <1>8, <1>9, AppendProperties DEF ElseBlock
<1>. QED  BY <1>2, <1>3, <1>4, <1>7, <1>8, <1>10 DEF m

(* What the code has, before and after more of it is emitted.              *)
LEMMA Emitted ==
  ASSUME LabelsInv, NEW t \in Seq(Label), asm' = asm \o t, OnceIn(t),
         \A c \in Lines(t) : c.op = "label" => ~Has(c.n, c.part)
  PROVE  /\ asm' \in Seq(Label) /\ OnceIn(asm)'
         /\ Lines(asm)' = Lines(asm) \cup Lines(t) /\ Lines(asm)' \subseteq Label
         /\ \A n, part : Has(n, part)' <=> (Has(n, part) \/ Lbl(n, part) \in Lines(t))
         /\ (\A i, j \in DOMAIN asm : asm[i].op = "label" /\ asm[i] = asm[j] => i = j)'
<1>1. asm \in Seq(Label) /\ OnceIn(asm)
  BY DEF LabelsInv, CodeType
<1>2. Lines(t) \subseteq Label
  BY LinesConcat
<1>3. ASSUME NEW c \in Lines(asm) \cap Lines(t), c.op = "label" PROVE FALSE
  <2>1. c = Lbl(c.n, c.part)
    BY <1>2, <1>3, LineIs
  <2>2. ~Has(c.n, c.part)
    BY <1>3
  <2>. QED  BY <2>1, <2>2 DEF Has
<1>4. /\ asm' \in Seq(Label) /\ OnceIn(asm')
      /\ Lines(asm') = Lines(asm) \cup Lines(t) /\ Lines(asm) \subseteq Label
  BY <1>1, <1>3, LinesConcat
<1>5. \A n, part : Has(n, part)' <=> (Has(n, part) \/ Lbl(n, part) \in Lines(t))
  BY <1>4 DEF Has, Lbl
<1>6. DOMAIN asm' = 1 .. Len(asm')
  BY <1>4, LenProperties
<1>7. (\A i, j \in DOMAIN asm : asm[i].op = "label" /\ asm[i] = asm[j] => i = j)'
  BY <1>4, <1>6 DEF OnceIn
<1>. QED  BY <1>2, <1>4, <1>5, <1>7

LEMMA Below ==
  ASSUME LabelsInv, pc \in Reading
  PROVE  /\ \A c \in Lines(asm) : c.op = "label" => c.n \in Nat /\ c.n < loop_cnt
         /\ \A b \in 1 .. Len(blocks) : blocks[b].n \in Nat /\ blocks[b].n < loop_cnt
         /\ \A part : ~Has(loop_cnt, part)
<1>1. NumbersInv /\ asm \in Seq(Label) /\ loop_cnt \in Nat
  BY DEF LabelsInv, CodeType
<1>2. \A c \in Lines(asm) : c.op = "label" => c.n < loop_cnt
  BY <1>1 DEF NumbersInv
<1>3. \A b \in 1 .. Len(blocks) : blocks[b].n < loop_cnt
  BY <1>1 DEF NumbersInv
<1>4. \A c \in Lines(asm) : c.n \in Nat
  BY <1>1, LineIs, LinesConcat
<1>5. ASSUME NEW part, Has(loop_cnt, part) PROVE FALSE
  <2>1. Lbl(loop_cnt, part) \in Lines(asm)
    BY <1>5 DEF Has
  <2>2. Lbl(loop_cnt, part).op = "label" /\ Lbl(loop_cnt, part).n = loop_cnt
    BY DEF Lbl
  <2>3. \E c \in Lines(asm) : c.op = "label" /\ c.n = loop_cnt
    BY <2>1, <2>2
  <2>. QED  BY <1>1, <1>2, <2>3
<1>. QED  BY <1>2, <1>3, <1>4, <1>5, BlockIs

(* pulse's loop has both labels and both jumps.                            *)
PulseCode == <<Lbl(loop_cnt, ""), Jump(loop_cnt, "END"), Jump(loop_cnt, ""),
               Lbl(loop_cnt, "END")>>

LEMMA PulseCodeIs ==
  ASSUME loop_cnt \in Nat
  PROVE  /\ PulseCode \in Seq(Label) /\ OnceIn(PulseCode)
         /\ \A c \in Lines(PulseCode) :
              /\ c \in Label /\ c.n = loop_cnt
              /\ c.op = "jump" => Lbl(c.n, c.part) \in Lines(PulseCode)
<1>. DEFINE a == Lbl(loop_cnt, "")  b == Jump(loop_cnt, "END")
            c == Jump(loop_cnt, "")  d == Lbl(loop_cnt, "END")
<1>1. /\ a \in Label /\ a.n = loop_cnt /\ a.op = "label" /\ a.part = ""
      /\ b \in Label /\ b.n = loop_cnt /\ b.op = "jump" /\ b.part = "END"
      /\ c \in Label /\ c.n = loop_cnt /\ c.op = "jump" /\ c.part = ""
      /\ d \in Label /\ d.n = loop_cnt /\ d.op = "label" /\ d.part = "END"
  BY DEF Lbl, Jump, Label
<1>2. Lbl(b.n, b.part) = d /\ Lbl(c.n, c.part) = a
  BY <1>1
<1>3. PulseCode = <<a, b, c, d>>
  BY DEF PulseCode
<1>. HIDE DEF a, b, c, d
<1>4. /\ <<a, b, c, d>> \in Seq(Label) /\ Lines(<<a, b, c, d>>) = {a, b, c, d}
      /\ OnceIn(<<a, b, c, d>>)
  BY <1>1, FourLines
<1>5. PulseCode \in Seq(Label) /\ OnceIn(PulseCode) /\ Lines(PulseCode) = {a, b, c, d}
  BY <1>3, <1>4
<1>. QED  BY <1>1, <1>2, <1>5

LEMMA PulseLines ==
  ASSUME LabelsInv, pc = "Statement", asm' = asm \o PulseCode, loop_cnt' = loop_cnt + 1,
         UNCHANGED <<asm_src, pc, blocks, bare>>
  PROVE  LabelsInv'
<1>1. /\ loop_cnt \in Nat /\ blocks \in Seq(Block) /\ pc \in Reading
      /\ pc # "compiled" /\ pc # "CondExpression" /\ NumbersInv /\ BlocksInv /\ JumpsInv
  BY DEF LabelsInv, CodeType, Reading
<1>2. /\ PulseCode \in Seq(Label) /\ OnceIn(PulseCode)
      /\ \A c \in Lines(asm) : c.op = "label" => c.n < loop_cnt
      /\ \A b \in 1 .. Len(blocks) : blocks[b].n < loop_cnt
  BY <1>1, Below, PulseCodeIs
<1>3. \A c \in Lines(PulseCode) : c \in Label /\ c.n = loop_cnt
  BY <1>1, PulseCodeIs
<1>4. \A c \in Lines(PulseCode) : c.op = "jump" => Lbl(c.n, c.part) \in Lines(PulseCode)
  BY <1>1, PulseCodeIs
<1>5. \A part : ~Has(loop_cnt, part)
  BY <1>1, Below
<1>6. \A c \in Lines(PulseCode) : c.op = "label" => ~Has(c.n, c.part)
  BY <1>3, <1>5
<1>7. /\ asm' \in Seq(Label) /\ OnceIn(asm)'
      /\ Lines(asm)' = Lines(asm) \cup Lines(PulseCode) /\ Lines(asm)' \subseteq Label
  BY <1>2, <1>6, Emitted
<1>8. \A k, part : Has(k, part)' <=> (Has(k, part) \/ Lbl(k, part) \in Lines(PulseCode))
  BY <1>2, <1>6, Emitted
<1>9. (\A i, j \in DOMAIN asm : asm[i].op = "label" /\ asm[i] = asm[j] => i = j)'
  BY <1>2, <1>6, Emitted
<1>10. CodeType'
  BY <1>1, <1>7 DEF CodeType
<1>11. NumbersInv'
  <2>1. ASSUME NEW c \in Lines(asm)', c.op = "label" PROVE c.n < loop_cnt' /\ c.n \in Nat
    <3>1. c \in Label /\ c.n \in Nat
      BY <1>7, LineIs
    <3>2. CASE c \in Lines(asm)
      BY <1>1, <1>2, <2>1, <3>1, <3>2
    <3>3. CASE c \in Lines(PulseCode)
      BY <1>1, <1>3, <3>3
    <3>. QED  BY <1>7, <3>1, <3>2, <3>3
  <2>2. \A b \in 1 .. Len(blocks) : blocks[b].n < loop_cnt' /\ blocks[b].n \in Nat
    BY <1>1, <1>2, BlockIs
  <2>3. \A b \in 1 .. Len(blocks) : blocks[b].n <= loop_cnt'
    BY <1>1, <2>2
  <2>4. \A c \in Lines(asm)' : c.op = "label" => c.n <= loop_cnt' /\ c.n # loop_cnt'
    BY <1>1, <2>1
  <2>. QED  BY <1>1, <2>1, <2>2, <2>3, <2>4 DEF NumbersInv
<1>12. \A b \in 1 .. Len(blocks) : blocks[b].n # loop_cnt
  BY <1>1, <1>2, BlockIs
<1>13. \A k, part : k # loop_cnt => Lbl(k, part) \notin Lines(PulseCode)
  BY <1>3 DEF Lbl
<1>14. BlocksInv'
  BY <1>1, <1>8, <1>12, <1>13 DEF BlocksInv
<1>15. JumpsInv'
  <2>1. \A k, keys : Opens(k, keys)' <=> Opens(k, keys)
    BY DEF Opens
  <2>2. ASSUME NEW c \in Lines(asm)', c.op = "jump" PROVE Lands(c)'
    <3>1. CASE c \in Lines(asm)
      BY <1>1, <1>8, <2>1, <2>2, <3>1 DEF JumpsInv, Lands
    <3>2. CASE c \in Lines(PulseCode)
      BY <1>4, <1>8, <2>2, <3>2 DEF Lands
    <3>. QED  BY <1>7, <3>1, <3>2
  <2>. QED  BY <2>2 DEF JumpsInv
<1>16. LabelsResolve'
  BY <1>1, <1>9 DEF LabelsResolve
<1>. QED  BY <1>7, <1>10, <1>11, <1>14, <1>15, <1>16 DEF LabelsInv

(* While, If_key: the label of a number that is drawn with the branch.     *)
BlockBegins(keyword) ==
  /\ asm' = Append(asm, Lbl(loop_cnt, ""))
  /\ blocks' = Append(blocks, [key |-> keyword, n |-> loop_cnt])
  /\ pc' = "CondExpression" /\ UNCHANGED <<loop_cnt, asm_src, bare>>

LEMMA Pushed ==
  ASSUME NEW s \in Seq(Block), NEW e \in Block, NEW t, t = Append(s, e)
  PROVE  /\ t \in Seq(Block) /\ Len(s) \in Nat /\ Len(t) = Len(s) + 1
         /\ \A b \in 1 .. Len(s) : t[b] = s[b]
         /\ t[Len(t)] = e
<1>1. Len(s) \in Nat
  BY LenProperties
<1>2. /\ t \in Seq(Block) /\ Len(t) = Len(s) + 1
      /\ \A b \in 1 .. Len(s) : t[b] = s[b]
      /\ t[Len(s) + 1] = e
  BY AppendProperties
<1>. QED  BY <1>1, <1>2

LEMMA BlockStarts ==
  ASSUME LabelsInv, pc = "Statement", NEW keyword \in {"while", "if"}, BlockBegins(keyword)
  PROVE  LabelsInv'
<1>. DEFINE b0 == [key |-> keyword, n |-> loop_cnt]
            l == Lbl(loop_cnt, "")
<1>0. /\ loop_cnt' = loop_cnt /\ asm_src' = asm_src /\ bare' = bare
      /\ pc' = "CondExpression" /\ asm' = Append(asm, l) /\ blocks' = Append(blocks, b0)
  BY DEF BlockBegins
<1>1. /\ loop_cnt \in Nat /\ asm \in Seq(Label) /\ blocks \in Seq(Block) /\ pc \in Reading
      /\ pc' \notin Reading /\ pc' # "compiled" /\ BlocksInv /\ JumpsInv
  BY <1>0 DEF LabelsInv, CodeType, Reading
<1>2. /\ l \in Label /\ l.n = loop_cnt /\ l.op = "label" /\ l.part = ""
      /\ b0 \in Block /\ b0.n = loop_cnt /\ b0.key \in {"while", "if"}
  BY <1>1 DEF Lbl, Label, Block
<1>9. \A k, part : Lbl(k, part) = l <=> (k = loop_cnt /\ part = "")
  BY DEF Lbl
<1>. HIDE DEF l, b0
<1>3. /\ \A c \in Lines(asm) : c.op = "label" => c.n \in Nat /\ c.n < loop_cnt
      /\ \A b \in 1 .. Len(blocks) : blocks[b].n \in Nat /\ blocks[b].n < loop_cnt
  BY <1>1, Below
<1>4. \A part : ~Has(loop_cnt, part)
  BY <1>1, Below
<1>5. asm' = asm \o <<l>>
  BY <1>0, <1>1, <1>2, AppendIsConcat
<1>6. <<l>> \in Seq(Label) /\ Lines(<<l>>) = {l} /\ OnceIn(<<l>>)
  BY <1>2, OneLine
<1>7. \A c \in Lines(<<l>>) : c.op = "label" => ~Has(c.n, c.part)
  BY <1>2, <1>4, <1>6
<1>8. /\ asm' \in Seq(Label) /\ OnceIn(asm)'
      /\ Lines(asm)' = Lines(asm) \cup {l} /\ Lines(asm)' \subseteq Label
      /\ \A k, part : Has(k, part)' <=> (Has(k, part) \/ Lbl(k, part) = l)
      /\ (\A i, j \in DOMAIN asm : asm[i].op = "label" /\ asm[i] = asm[j] => i = j)'
  BY <1>5, <1>6, <1>7, Emitted
<1>10. /\ blocks' \in Seq(Block) /\ Len(blocks) \in Nat /\ Len(blocks') = Len(blocks) + 1
       /\ \A b \in 1 .. Len(blocks) : blocks'[b] = blocks[b]
       /\ blocks'[Len(blocks')] = b0
  <2>1. blocks \in Seq(Block) /\ b0 \in Block
    BY <1>1, <1>2
  <2>2. blocks' = Append(blocks, b0)
    BY <1>0
  <2>3. \A t : t = Append(blocks, b0) =>
          /\ t \in Seq(Block) /\ Len(blocks) \in Nat /\ Len(t) = Len(blocks) + 1
          /\ \A b \in 1 .. Len(blocks) : t[b] = blocks[b]
          /\ t[Len(t)] = b0
    BY <2>1, Pushed
  <2>. QED  BY <2>2, <2>3, Zenon
<1>11. /\ \A b \in 1 .. Len(blocks') : b \in 1 .. Len(blocks) \/ b = Len(blocks')
       /\ \A b \in 1 .. Len(blocks) : b \in 1 .. Len(blocks')
  <2>1. Len(blocks) \in Nat /\ Len(blocks') = Len(blocks) + 1
    BY <1>10
  <2>. QED  BY <2>1
<1>17. loop_cnt <= loop_cnt /\ \A k \in Nat : k < loop_cnt => k <= loop_cnt /\ k # loop_cnt
  BY <1>1
<1>12. CodeType'
  BY <1>0, <1>1, <1>8, <1>10 DEF CodeType
<1>13. NumbersInv'
  <2>1. \A c \in Lines(asm)' : c.op = "label" =>
          c.n <= loop_cnt /\ (c.n = loop_cnt => c.part = "")
    <3>1. \A c \in Lines(asm) : c.op = "label" => c.n <= loop_cnt /\ c.n # loop_cnt
      BY <1>3, <1>17
    <3>. QED  BY <1>2, <1>8, <1>17, <3>1, Zenon
  <2>2. \A b \in 1 .. Len(blocks') : /\ blocks'[b].n <= loop_cnt
                                     /\ b # Len(blocks') => blocks'[b].n < loop_cnt
    <3>1. \A b \in 1 .. Len(blocks) : blocks[b].n <= loop_cnt
      BY <1>3, <1>17
    <3>. QED  BY <1>2, <1>3, <1>10, <1>11, <1>17, <3>1, Zenon
  <2>3. Top' = b0 /\ blocks' # << >>
    BY <1>10, AppendProperties DEF Top
  <2>. QED  BY <1>0, <1>1, <1>2, <2>1, <2>2, <2>3 DEF NumbersInv
<1>14. BlocksInv'
  <2>1. \A b \in 1 .. Len(blocks) : blocks'[b] = blocks[b] /\ blocks[b].n # loop_cnt
    BY <1>3, <1>10, <1>17
  <2>4. \A a, b \in 1 .. Len(blocks) : blocks[a].n = blocks[b].n => a = b
    BY <1>1 DEF BlocksInv
  <2>2. \A a, b \in 1 .. Len(blocks') : blocks'[a].n = blocks'[b].n => a = b
    <3>. SUFFICES ASSUME NEW a \in 1 .. Len(blocks'), NEW b \in 1 .. Len(blocks'),
                         blocks'[a].n = blocks'[b].n
                  PROVE  a = b
      OBVIOUS
    <3>1. CASE a \in 1 .. Len(blocks) /\ b \in 1 .. Len(blocks)
      BY <2>1, <2>4, <3>1, Zenon
    <3>2. CASE a \in 1 .. Len(blocks) /\ b = Len(blocks')
      BY <1>2, <1>10, <2>1, <3>2, Zenon
    <3>3. CASE b \in 1 .. Len(blocks) /\ a = Len(blocks')
      BY <1>2, <1>10, <2>1, <3>3, Zenon
    <3>. QED  BY <1>11, <3>1, <3>2, <3>3, Zenon
  <2>3. \A k, part : Lbl(k, part) \in Lines(asm') <=>
                      (Has(k, part) \/ (k = loop_cnt /\ part = ""))
    BY <1>8, <1>9, Zenon DEF Has
  <2>5. ASSUME NEW b \in 1 .. Len(blocks')
        PROVE  /\ blocks'[b].key \in {"while", "if"} => Lbl(blocks'[b].n, "") \in Lines(asm')
               /\ blocks'[b].key \in {"while", "if"} => Lbl(blocks'[b].n, "END") \notin Lines(asm')
               /\ Lbl(blocks'[b].n, "ELSE_END") \notin Lines(asm')
    <3>1. CASE b \in 1 .. Len(blocks)
      <4>1. /\ blocks[b].key \in {"while", "if"} => Has(blocks[b].n, "")
            /\ blocks[b].key \in {"while", "if"} => ~Has(blocks[b].n, "END")
            /\ ~Has(blocks[b].n, "ELSE_END")
        BY <1>1, <3>1 DEF BlocksInv
      <4>. QED  BY <2>1, <2>3, <3>1, <4>1, Zenon
    <3>2. CASE b = Len(blocks')
      <4>1. "END" # "" /\ "ELSE_END" # ""
        OBVIOUS
      <4>. QED  BY <1>2, <1>4, <1>10, <2>3, <3>2, <4>1, Zenon
    <3>. QED  BY <1>11, <3>1, <3>2
  <2>. QED  BY <2>2, <2>5, Zenon DEF BlocksInv, Has
<1>15. JumpsInv'
  <2>2. \A k, keys : Opens(k, keys) => Opens(k, keys)'
    BY <1>10, <1>11, Zenon DEF Opens
  <2>3. ASSUME NEW c \in Lines(asm)', c.op = "jump" PROVE Lands(c)'
    BY <1>0, <1>1, <1>2, <1>8, <1>9, <2>2, <2>3 DEF JumpsInv, Lands
  <2>. QED  BY <2>3 DEF JumpsInv
<1>16. LabelsResolve'
  BY <1>1, <1>8 DEF LabelsResolve
<1>. QED  BY <1>8, <1>12, <1>13, <1>14, <1>15, <1>16 DEF LabelsInv

(* The branch over the block that begins draws the number.                 *)
LEMMA BranchIs ==
  ASSUME LabelsInv, pc = "CondExpression", Branch, UNCHANGED <<blocks, bare>>
  PROVE  LabelsInv'
<1>. DEFINE j == Jump(loop_cnt, "END")
<1>1. /\ loop_cnt \in Nat /\ asm \in Seq(Label) /\ blocks \in Seq(Block)
      /\ loop_cnt' = loop_cnt + 1 /\ pc' = "Statement" /\ asm' = Append(asm, j)
      /\ NumbersInv /\ BlocksInv /\ JumpsInv
  BY DEF LabelsInv, CodeType, Branch, EndStatement
<1>2. j \in Label /\ j.n = loop_cnt /\ j.op = "jump" /\ j.part = "END"
  BY <1>1 DEF Jump, Label
<1>3. asm' = asm \o <<j>> /\ <<j>> \in Seq(Label) /\ Lines(<<j>>) = {j} /\ OnceIn(<<j>>)
  BY <1>1, <1>2, AppendIsConcat, OneLine
<1>. HIDE DEF j
<1>4. /\ asm' \in Seq(Label) /\ OnceIn(asm)'
      /\ Lines(asm)' = Lines(asm) \cup {j} /\ Lines(asm)' \subseteq Label
      /\ \A k, part : Has(k, part)' <=> (Has(k, part) \/ Lbl(k, part) = j)
      /\ (\A i, k \in DOMAIN asm : asm[i].op = "label" /\ asm[i] = asm[k] => i = k)'
  BY <1>2, <1>3, Emitted
<1>5. \A k, part : Has(k, part)' <=> Has(k, part)
  BY <1>2, <1>4 DEF Lbl
<1>6. CodeType'
  BY <1>1, <1>4 DEF CodeType
<1>7. NumbersInv'
  <2>1. \A c \in Lines(asm) : c.op = "label" => c.n <= loop_cnt /\ c.n \in Nat
    <3>1. \A c \in Lines(asm) : c.n \in Nat
      BY <1>1, LinesConcat, LineIs
    <3>. QED  BY <1>1, <3>1 DEF NumbersInv
  <2>2. \A b \in 1 .. Len(blocks) : blocks[b].n <= loop_cnt /\ blocks[b].n \in Nat
    BY <1>1, BlockIs DEF NumbersInv
  <2>3. \A k \in Nat : k <= loop_cnt => k <= loop_cnt' /\ k < loop_cnt' /\ k # loop_cnt'
    BY <1>1
  <2>4. \A c \in Lines(asm)' : c.op = "label" => c.n < loop_cnt' /\ c.n <= loop_cnt' /\ c.n # loop_cnt'
    BY <1>2, <1>4, <2>1, <2>3
  <2>5. \A b \in 1 .. Len(blocks) : blocks[b].n < loop_cnt' /\ blocks[b].n <= loop_cnt'
    BY <2>2, <2>3
  <2>. QED  BY <1>1, <2>4, <2>5 DEF NumbersInv
<1>8. BlocksInv'
  BY <1>1, <1>5 DEF BlocksInv
<1>9. JumpsInv'
  <2>1. \A k, keys : Opens(k, keys)' <=> Opens(k, keys)
    BY DEF Opens
  <2>2. Opens(loop_cnt, {"while", "if"})
    <3>1. blocks # << >> /\ Top.n = loop_cnt /\ Top.key \in {"while", "if"}
      BY <1>1 DEF NumbersInv
    <3>2. Len(blocks) \in 1 .. Len(blocks) /\ Top = blocks[Len(blocks)]
      BY <3>1, TopAndPop
    <3>. QED  BY <3>1, <3>2 DEF Opens
  <2>3. ASSUME NEW c \in Lines(asm)', c.op = "jump" PROVE Lands(c)'
    <3>1. CASE c = j
      BY <1>2, <2>1, <2>2, <3>1 DEF Lands
    <3>2. CASE c \in Lines(asm)
      BY <1>1, <1>5, <2>1, <2>3, <3>2 DEF JumpsInv, Lands
    <3>. QED  BY <1>4, <3>1, <3>2
  <2>. QED  BY <2>3 DEF JumpsInv
<1>10. LabelsResolve'
  BY <1>1, <1>4 DEF LabelsResolve
<1>. QED  BY <1>4, <1>6, <1>7, <1>8, <1>9, <1>10 DEF LabelsInv

(* The end of a block emits the one label that its branches still wait     *)
(* for, and takes it from the open ones or turns it into its else part.    *)
Closes(n, part, t) ==
  /\ n = Top.n /\ part = IF Top.key = "else" THEN "ELSE_END" ELSE "END"
  /\ asm' = asm \o t /\ UNCHANGED <<loop_cnt, asm_src, pc>>
  /\ t \in Seq(Label) /\ OnceIn(t)
  /\ \A k, p : Lbl(k, p) \in Lines(t) <=> (k = n /\ p = part)
  /\ \A c \in Lines(t) : c.op = "jump" =>
       /\ c.n = n
       /\ \/ c.part = "" /\ Has(n, "")
          \/ c.part = "ELSE_END" /\ (n \in bare' \/ blocks' = ElseBlock)
  /\ \/ blocks' = Pop
     \/ Top.key # "else" /\ blocks' = ElseBlock
  /\ bare \subseteq bare'

(* Each block that is left is an old one, or the last one's else part.     *)
LEMMA BlocksLeft ==
  ASSUME LabelsInv, blocks # << >>,
         \/ blocks' = Pop
         \/ Top.key # "else" /\ blocks' = ElseBlock
  PROVE  /\ blocks' \in Seq(Block)
         /\ \A b \in 1 .. Len(blocks') :
              /\ b \in 1 .. Len(blocks)
              /\ \/ blocks'[b] = blocks[b] /\ b # Len(blocks)
                 \/ /\ b = Len(blocks) /\ blocks' = ElseBlock /\ Top.key # "else"
                    /\ blocks'[b] = [key |-> "else", n |-> Top.n]
         /\ \A b \in 1 .. Len(blocks) : b # Len(blocks) =>
              b \in 1 .. Len(blocks') /\ blocks'[b] = blocks[b]
         /\ blocks' = ElseBlock =>
              /\ Len(blocks) \in 1 .. Len(blocks')
              /\ blocks'[Len(blocks)] = [key |-> "else", n |-> Top.n]
<1>. DEFINE m == Len(blocks)
            e == [key |-> "else", n |-> Top.n]
<1>1. /\ m \in Nat /\ m >= 1
      /\ Pop \in Seq(Block) /\ Len(Pop) = m - 1 /\ \A i \in 1 .. m - 1 : Pop[i] = blocks[i]
      /\ ElseBlock \in Seq(Block) /\ Len(ElseBlock) = m
      /\ \A i \in 1 .. m - 1 : ElseBlock[i] = blocks[i]
      /\ ElseBlock[m] = e
  BY TopAndPop
<1>. HIDE DEF m, e
<1>2. /\ \A b \in 1 .. m : b # m => b \in 1 .. m - 1
      /\ \A b \in 1 .. m - 1 : b \in 1 .. m /\ b # m
      /\ m \in 1 .. m
  BY <1>1
<1>3. ASSUME blocks' = Pop
      PROVE  /\ blocks' \in Seq(Block) /\ Len(blocks') = m - 1 /\ blocks' # ElseBlock
             /\ \A i \in 1 .. m - 1 : blocks'[i] = blocks[i]
  <2>1. m - 1 # m
    BY <1>1
  <2>. QED  BY <1>1, <1>3, <2>1, Zenon
<1>4. ASSUME blocks' = ElseBlock
      PROVE  /\ blocks' \in Seq(Block) /\ Len(blocks') = m
             /\ \A i \in 1 .. m - 1 : blocks'[i] = blocks[i]
             /\ blocks'[m] = e
  BY <1>1, <1>4, Zenon
<1>5. CASE blocks' = Pop
  BY <1>2, <1>3, <1>5, Zenon DEF m, e
<1>6. CASE Top.key # "else" /\ blocks' = ElseBlock
  BY <1>2, <1>4, <1>6, Zenon DEF m, e
<1>. QED  BY <1>5, <1>6

LEMMA CloseKeeps ==
  ASSUME LabelsInv, pc = "Statement", blocks # << >>, NEW n, NEW P, NEW t, Closes(n, P, t)
  PROVE  LabelsInv'
<1>. DEFINE m == Len(blocks)
            e == [key |-> "else", n |-> n]
<1>n. /\ n = Top.n
      /\ Top.key = "else" => P = "ELSE_END"
      /\ Top.key # "else" => P = "END"
  BY DEF Closes
<1>1. /\ loop_cnt \in Nat /\ asm \in Seq(Label) /\ pc \in Reading /\ pc # "CondExpression"
      /\ pc # "compiled" /\ NumbersInv /\ BlocksInv /\ JumpsInv
  BY DEF LabelsInv, CodeType, Reading
<1>2. /\ asm' = asm \o t /\ loop_cnt' = loop_cnt /\ asm_src' = asm_src /\ pc' = pc
      /\ t \in Seq(Label) /\ OnceIn(t) /\ bare \subseteq bare'
      /\ \A k, p : Lbl(k, p) \in Lines(t) <=> (k = n /\ p = P)
      /\ \A c \in Lines(t) : c.op = "jump" =>
           /\ c.n = n
           /\ \/ c.part = "" /\ Has(n, "")
              \/ c.part = "ELSE_END" /\ (n \in bare' \/ blocks' = ElseBlock)
      /\ blocks' = Pop \/ (Top.key # "else" /\ blocks' = ElseBlock)
  BY DEF Closes
<1>3. /\ blocks' \in Seq(Block)
      /\ \A b \in 1 .. Len(blocks') :
           /\ b \in 1 .. m
           /\ \/ blocks'[b] = blocks[b] /\ b # m
              \/ b = m /\ Top.key # "else" /\ blocks'[b] = e
      /\ \A b \in 1 .. m : b # m => b \in 1 .. Len(blocks') /\ blocks'[b] = blocks[b]
      /\ blocks' = ElseBlock => m \in 1 .. Len(blocks') /\ blocks'[m] = e
  BY <1>n, <1>2, BlocksLeft
<1>4. /\ m \in 1 .. m /\ Top = blocks[m] /\ Top.key \in {"while", "if", "else"}
      /\ e.key = "else" /\ e.n = n
  BY <1>n, TopAndPop
<1>5. /\ \A c \in Lines(asm) : c.op = "label" => c.n \in Nat /\ c.n < loop_cnt
      /\ \A b \in 1 .. m : blocks[b].n \in Nat /\ blocks[b].n < loop_cnt
  BY <1>1, Below
<1>7. ~Has(n, P) /\ ~Has(n, "ELSE_END")
  <2>1. /\ blocks[m].key \in {"while", "if"} => ~Has(blocks[m].n, "END")
        /\ ~Has(blocks[m].n, "ELSE_END")
    BY <1>1, <1>4 DEF BlocksInv
  <2>. QED  BY <1>n, <1>4, <2>1, Zenon
<1>8. n \in Nat /\ n < loop_cnt
  BY <1>n, <1>4, <1>5
<1>. HIDE DEF m, e
<1>9. \A c \in Lines(t) : c.op = "label" => c.n = n /\ ~Has(c.n, c.part)
  <2>1. \A c \in Lines(t) : c.op = "label" => Lbl(c.n, c.part) \in Lines(t)
    <3>1. Lines(t) \subseteq Label
      BY <1>2, LinesConcat
    <3>. QED  BY <3>1, LineIs, Zenon
  <2>. QED  BY <1>2, <1>7, <2>1, Zenon
<1>10. /\ asm' \in Seq(Label) /\ OnceIn(asm)'
       /\ Lines(asm)' = Lines(asm) \cup Lines(t) /\ Lines(asm)' \subseteq Label
       /\ (\A i, j \in DOMAIN asm : asm[i].op = "label" /\ asm[i] = asm[j] => i = j)'
       /\ \A k, part : Has(k, part)' <=> (Has(k, part) \/ Lbl(k, part) \in Lines(t))
  BY <1>2, <1>9, Emitted
<1>11. \A k, part : Has(k, part)' <=> (Has(k, part) \/ (k = n /\ part = P))
  BY <1>2, <1>10, Zenon
<1>12. CodeType'
  BY <1>1, <1>2, <1>3, <1>10 DEF CodeType
<1>13. \A b \in 1 .. Len(blocks') : b \in 1 .. m /\ blocks'[b].n = blocks[b].n
  BY <1>n, <1>3, <1>4, Zenon
<1>14. NumbersInv'
  <2>1. \A k \in Nat : k < loop_cnt => k <= loop_cnt /\ k # loop_cnt
    BY <1>1
  <2>2. ASSUME NEW c \in Lines(asm)', c.op = "label"
        PROVE  c.n < loop_cnt /\ c.n <= loop_cnt /\ c.n # loop_cnt
    <3>1. CASE c \in Lines(asm)
      BY <1>5, <2>1, <2>2, <3>1, Zenon
    <3>2. CASE c \in Lines(t)
      BY <1>8, <1>9, <2>1, <2>2, <3>2, Zenon
    <3>. QED  BY <1>10, <3>1, <3>2
  <2>3. \A b \in 1 .. Len(blocks') : blocks'[b].n < loop_cnt /\ blocks'[b].n <= loop_cnt
    BY <1>5, <1>13, <2>1, Zenon
  <2>. QED  BY <1>1, <1>2, <2>2, <2>3, Zenon DEF NumbersInv
<1>15. BlocksInv'
  <2>1. \A a, b \in 1 .. m : blocks[a].n = blocks[b].n => a = b
    BY <1>1 DEF BlocksInv, m
  <2>2. \A a, b \in 1 .. Len(blocks') : blocks'[a].n = blocks'[b].n => a = b
    BY <1>13, <2>1, Zenon
  <2>3. \A k, part : Lbl(k, part) \in Lines(asm') <=> (Has(k, part) \/ (k = n /\ part = P))
    BY <1>11, Zenon DEF Has
  <2>4. ASSUME NEW b \in 1 .. Len(blocks')
        PROVE  /\ blocks'[b].key \in {"while", "if"} => Lbl(blocks'[b].n, "") \in Lines(asm')
               /\ blocks'[b].key \in {"while", "if"} => Lbl(blocks'[b].n, "END") \notin Lines(asm')
               /\ Lbl(blocks'[b].n, "ELSE_END") \notin Lines(asm')
    <3>1. CASE blocks'[b] = blocks[b] /\ b # m
      <4>1. b \in 1 .. m /\ blocks[b].n # n
        BY <1>n, <1>4, <1>13, <2>1, <3>1, Zenon
      <4>2. /\ blocks[b].key \in {"while", "if"} => Has(blocks[b].n, "")
            /\ blocks[b].key \in {"while", "if"} => ~Has(blocks[b].n, "END")
            /\ ~Has(blocks[b].n, "ELSE_END")
        BY <1>1, <4>1 DEF BlocksInv, m
      <4>. QED  BY <2>3, <3>1, <4>1, <4>2, Zenon
    <3>2. CASE b = m /\ Top.key # "else" /\ blocks'[b] = e
      <4>1. "else" \notin {"while", "if"} /\ "END" # "ELSE_END"
        OBVIOUS
      <4>. QED  BY <1>4, <1>n, <1>7, <2>3, <3>2, <4>1, Zenon
    <3>. QED  BY <1>3, <3>1, <3>2
  <2>. QED  BY <2>2, <2>4, Zenon DEF BlocksInv, Has
<1>16. JumpsInv'
  <2>1. \A k, part : Has(k, part) => Has(k, part)'
    BY <1>11
  <2>2. Has(n, P)'
    BY <1>11
  <2>3. ASSUME NEW k, NEW keys, Opens(k, keys), k # n PROVE Opens(k, keys)'
    <3>1. PICK b \in 1 .. m : blocks[b].n = k /\ blocks[b].key \in keys
      BY <2>3 DEF Opens, m
    <3>2. b # m
      BY <1>n, <1>4, <2>3, <3>1, Zenon
    <3>. QED  BY <1>3, <3>1, <3>2, Zenon DEF Opens
  <2>4. ASSUME NEW keys, Opens(n, keys) PROVE Top.key \in keys
    <3>1. PICK b \in 1 .. m : blocks[b].n = n /\ blocks[b].key \in keys
      BY <2>4 DEF Opens, m
    <3>2. b = m
      BY <1>n, <1>1, <1>4, <3>1 DEF BlocksInv, m
    <3>. QED  BY <1>4, <3>1, <3>2, Zenon
  <2>5. ASSUME NEW c \in Lines(asm), c.op = "jump" PROVE Lands(c)'
    <3>1. Lands(c)
      BY <1>1, <2>5 DEF JumpsInv
    <3>2. CASE Has(c.n, c.part)
      BY <2>1, <3>2, Zenon DEF Lands
    <3>3. CASE c.part = "END" /\ Opens(c.n, {"while", "if"})
      <4>1. CASE c.n = n
        <5>1. Top.key # "else"
          BY <2>4, <3>3, <4>1
        <5>. QED  BY <1>n, <2>2, <3>3, <4>1, <5>1, Zenon DEF Lands
      <4>2. CASE c.n # n
        BY <2>3, <3>3, <4>2, Zenon DEF Lands
      <4>. QED  BY <4>1, <4>2
    <3>4. CASE c.part = "ELSE_END" /\ Opens(c.n, {"else"})
      <4>1. CASE c.n = n
        <5>1. Top.key = "else"
          BY <2>4, <3>4, <4>1
        <5>. QED  BY <1>n, <2>2, <3>4, <4>1, <5>1, Zenon DEF Lands
      <4>2. CASE c.n # n
        BY <2>3, <3>4, <4>2, Zenon DEF Lands
      <4>. QED  BY <4>1, <4>2
    <3>5. CASE c.part = "ELSE_END" /\ c.n \in bare
      BY <1>2, <3>5, Zenon DEF Lands
    <3>. QED  BY <3>1, <3>2, <3>3, <3>4, <3>5 DEF Lands
  <2>6. ASSUME NEW c \in Lines(t), c.op = "jump" PROVE Lands(c)'
    <3>1. c.n = n
      BY <1>2, <2>6
    <3>2. CASE c.part = "" /\ Has(n, "")
      BY <2>1, <3>1, <3>2, Zenon DEF Lands
    <3>3. CASE c.part = "ELSE_END" /\ n \in bare'
      BY <3>1, <3>3, Zenon DEF Lands
    <3>4. CASE c.part = "ELSE_END" /\ blocks' = ElseBlock
      <4>1. m \in 1 .. Len(blocks') /\ blocks'[m].n = n /\ blocks'[m].key \in {"else"}
        BY <1>3, <1>4, <3>4
      <4>2. Opens(n, {"else"})'
        BY <4>1, Zenon DEF Opens
      <4>. QED  BY <3>1, <3>4, <4>2, Zenon DEF Lands
    <3>. QED  BY <1>2, <2>6, <3>2, <3>3, <3>4
  <2>. QED  BY <1>10, <2>5, <2>6 DEF JumpsInv
<1>17. LabelsResolve'
  BY <1>1, <1>2, <1>10 DEF LabelsResolve
<1>. QED  BY <1>10, <1>12, <1>14, <1>15, <1>16, <1>17 DEF LabelsInv

LEMMA CloseBlockStep == ASSUME LabelsInv, CloseBlock PROVE LabelsInv'
<1>1. /\ pc = "Statement" /\ blocks # << >>
      /\ EndLoop \/ EndIf \/ Else \/ EndElse
      /\ UNCHANGED <<loop_cnt, asm_src, pc>>
  BY DEF CloseBlock
<1>2. PICK n : n = Top.n
  OBVIOUS
<1>3. /\ Len(blocks) \in Nat /\ Len(blocks) >= 1
      /\ n \in Nat /\ Top = blocks[Len(blocks)]
  BY <1>1, <1>2, TopAndPop
<1>4. Len(blocks) \in 1 .. Len(blocks) /\ asm \in Seq(Label)
  BY <1>3 DEF LabelsInv, CodeType
<1>. DEFINE l(part) == Lbl(n, part)
            j(part) == Jump(n, part)
<1>5. \A part \in {"", "END", "ELSE_END"} :
        /\ l(part) \in Label /\ j(part) \in Label /\ l(part) # j(part)
        /\ l(part).op = "label" /\ j(part).op = "jump" /\ j(part).n = n /\ j(part).part = part
  BY <1>3 DEF Lbl, Jump, Label
<1>6. \A k, p, part : Lbl(k, p) = l(part) <=> (k = n /\ p = part)
  BY DEF Lbl
<1>7. \A k, p, part : Lbl(k, p) # j(part)
  BY DEF Lbl, Jump
<1>. HIDE DEF l, j
<1>8. ASSUME EndLoop PROVE \E part, t : Closes(n, part, t)
  <2>. DEFINE t == <<j(""), l("END")>>
  <2>1. Top.key = "while" /\ asm' = asm \o t /\ blocks' = Pop /\ bare' = bare
    BY <1>2, <1>8 DEF EndLoop, l, j
  <2>2. t \in Seq(Label) /\ Lines(t) = {j(""), l("END")} /\ OnceIn(t)
    BY <1>5, TwoLines
  <2>3. Has(n, "")
    BY <1>2, <1>3, <1>4, <2>1 DEF LabelsInv, BlocksInv
  <2>. HIDE DEF t
  <2>4. \A k, p : Lbl(k, p) \in Lines(t) <=> (k = n /\ p = "END")
    <3>1. ASSUME NEW k, NEW p PROVE Lbl(k, p) \in Lines(t) <=> Lbl(k, p) = l("END")
      BY <1>7, <2>2
    <3>. QED  BY <1>6, <3>1
  <2>5. \A c \in Lines(t) : c.op = "jump" => c.n = n /\ c.part = "" /\ Has(n, "")
    BY <1>5, <2>2, <2>3
  <2>6. Closes(n, "END", t)
    BY <1>1, <1>2, <2>1, <2>2, <2>4, <2>5 DEF Closes
  <2>. QED  BY <2>6
<1>9. ASSUME EndIf PROVE \E part, t : Closes(n, part, t)
  <2>. DEFINE t == <<l("END")>>
  <2>1. /\ Top.key = "if" /\ asm' = Append(asm, l("END"))
        /\ blocks' \in {Pop, ElseBlock} /\ bare' = bare
    BY <1>2, <1>9 DEF EndIf, l
  <2>2. t \in Seq(Label) /\ Lines(t) = {l("END")} /\ OnceIn(t)
    BY <1>5, OneLine
  <2>3. asm' = asm \o t
    BY <1>4, <1>5, <2>1, AppendIsConcat
  <2>. HIDE DEF t
  <2>4. \A k, p : Lbl(k, p) \in Lines(t) <=> (k = n /\ p = "END")
    BY <1>6, <2>2, Zenon
  <2>5. \A c \in Lines(t) : c.op # "jump"
    BY <1>5, <2>2
  <2>6. Closes(n, "END", t)
    BY <1>1, <1>2, <2>1, <2>2, <2>3, <2>4, <2>5 DEF Closes
  <2>. QED  BY <2>6
<1>10. ASSUME Else PROVE \E part, t : Closes(n, part, t)
  <2>. DEFINE t == <<j("ELSE_END"), l("END")>>
  <2>1. /\ Top.key = "if" /\ asm' = asm \o t /\ bare \subseteq bare'
        /\ blocks' = ElseBlock \/ (blocks' = Pop /\ n \in bare')
    BY <1>2, <1>10 DEF Else, l, j
  <2>2. t \in Seq(Label) /\ Lines(t) = {j("ELSE_END"), l("END")} /\ OnceIn(t)
    BY <1>5, TwoLines
  <2>. HIDE DEF t
  <2>4. \A k, p : Lbl(k, p) \in Lines(t) <=> (k = n /\ p = "END")
    <3>1. ASSUME NEW k, NEW p PROVE Lbl(k, p) \in Lines(t) <=> Lbl(k, p) = l("END")
      BY <1>7, <2>2
    <3>. QED  BY <1>6, <3>1
  <2>5. \A c \in Lines(t) : c.op = "jump" => c.n = n /\ c.part = "ELSE_END"
    BY <1>5, <2>2
  <2>6. Closes(n, "END", t)
    BY <1>1, <1>2, <2>1, <2>2, <2>4, <2>5 DEF Closes
  <2>. QED  BY <2>6
<1>11. ASSUME EndElse PROVE \E part, t : Closes(n, part, t)
  <2>. DEFINE t == <<l("ELSE_END")>>
  <2>1. /\ Top.key = "else" /\ asm' = Append(asm, l("ELSE_END"))
        /\ blocks' = Pop /\ bare' = bare
    BY <1>2, <1>11 DEF EndElse, l
  <2>2. t \in Seq(Label) /\ Lines(t) = {l("ELSE_END")} /\ OnceIn(t)
    BY <1>5, OneLine
  <2>3. asm' = asm \o t
    BY <1>4, <1>5, <2>1, AppendIsConcat
  <2>. HIDE DEF t
  <2>4. \A k, p : Lbl(k, p) \in Lines(t) <=> (k = n /\ p = "ELSE_END")
    BY <1>6, <2>2, Zenon
  <2>5. \A c \in Lines(t) : c.op # "jump"
    BY <1>5, <2>2
  <2>6. Closes(n, "ELSE_END", t)
    BY <1>1, <1>2, <2>1, <2>2, <2>3, <2>4, <2>5 DEF Closes
  <2>. QED  BY <2>6
<1>. QED  BY <1>1, <1>8, <1>9, <1>10, <1>11, CloseKeeps

(* compile: no block is open, so every branch has landed.                  *)
LEMMA CompileStep == ASSUME LabelsInv, compile PROVE LabelsInv'
<1>1. /\ pc = "Statement" /\ blocks = << >> /\ pc' = "compiled" /\ asm' = << >>
      /\ asm_src'.code = asm /\ loop_cnt' = loop_cnt /\ blocks' = blocks /\ bare' = bare
  BY DEF compile, pins
<1>2. asm \in Seq(Label) /\ loop_cnt \in Nat /\ JumpsInv
  BY DEF LabelsInv, CodeType
<1>3. Lines(<< >>) = {} /\ OnceIn(<< >>)
  BY DEF Lines, OnceIn
<1>4. CodeType'
  BY <1>1, <1>2 DEF LabelsInv, CodeType
<1>5. Lines(asm)' = {} /\ OnceIn(asm)'
  BY <1>1, <1>3, Zenon
<1>6. \A b \in 1 .. Len(blocks') : FALSE
  BY <1>1
<1>7. NumbersInv' /\ BlocksInv' /\ JumpsInv'
  <2>1. pc' \notin Reading /\ pc' # "CondExpression"
    BY <1>1 DEF Reading
  <2>. QED  BY <1>5, <1>6, <2>1, Zenon DEF NumbersInv, BlocksInv, JumpsInv
<1>8. ASSUME NEW i \in DOMAIN asm, asm[i].op = "jump"
      PROVE  \/ \E j \in DOMAIN asm : asm[j] = Lbl(asm[i].n, asm[i].part)
             \/ asm[i].part = "ELSE_END" /\ asm[i].n \in bare
  <2>1. DOMAIN asm = 1 .. Len(asm)
    BY <1>2, LenProperties
  <2>2. asm[i] \in Lines(asm)
    BY <2>1 DEF Lines
  <2>3. Lands(asm[i])
    BY <1>2, <1>8, <2>2 DEF JumpsInv
  <2>4. \A k, keys : ~Opens(k, keys)
    BY <1>1 DEF Opens
  <2>. QED  BY <2>1, <2>3, <2>4 DEF Lands, Has, Lines
<1>9. LabelsResolve'
  <2>1. DOMAIN asm' = {}
    BY <1>1
  <2>. QED  BY <1>1, <1>8, <2>1 DEF LabelsResolve, Lbl
<1>. QED  BY <1>4, <1>5, <1>7, <1>9 DEF LabelsInv

(* Everything else emits nothing, or throws.                               *)
LEMMA ThrowIsQuiet ==
  ASSUME NEW message \in Messages, Throw(message) PROVE Quiet
BY DEF Throw, Quiet

LEMMA ExpressionsAreQuiet == Factor \/ Combining => Quiet
<1>1. "out of registers" \in Messages /\ "out of tmp registers" \in Messages
  BY DEF Messages
<1>2. \A n : OutOfTmpRegs(n) => Quiet
  BY <1>1, ThrowIsQuiet DEF OutOfTmpRegs
<1>3. Integer => Quiet
  BY DEF Integer, Quiet
<1>4. Tick => Quiet
  BY <1>2 DEF Tick, Quiet, code
<1>5. ASSUME NEW x, Identifier(x) PROVE Quiet
  BY <1>1, <1>5, ThrowIsQuiet DEF Identifier, OutOfRegisters, Quiet
<1>6. ExpressionLoop => Quiet
  BY <1>2 DEF ExpressionLoop, Quiet, code
<1>7. ASSUME NEW ops, Expression(ops) PROVE Quiet
  BY <1>2, <1>7 DEF Expression, Quiet, code
<1>. QED  BY <1>3, <1>4, <1>5, <1>6, <1>7 DEF Factor, Combining

LEMMA StatementsAreQuiet ==
  /\ \A t : StartAssignment(t) => Quiet
  /\ StartPrint \/ Assignment \/ PrintArguments => Quiet
<1>1. /\ "out of registers" \in Messages /\ "out of tmp registers" \in Messages
      /\ "not an integer literal" \in Messages /\ "cannot be used for output" \in Messages
      /\ "input and output" \in Messages
      /\ "Statement" \in Reading /\ "Assignment" \in Reading /\ "Print" \in Reading
  BY DEF Messages, Reading
<1>2. \A n : OutOfTmpRegs(n) => Quiet
  BY <1>1, ThrowIsQuiet DEF OutOfTmpRegs
<1>3. \A s : OutOfRegisters(s) => Quiet
  BY <1>1, ThrowIsQuiet DEF OutOfRegisters
<1>4. ASSUME NEW t, StartAssignment(t) PROVE Quiet
  BY <1>1, <1>3, <1>4 DEF StartAssignment, AtStatement, Quiet
<1>5. StartPrint => Quiet
  BY <1>1, <1>3 DEF StartPrint, AtStatement, Quiet
<1>6. ASSUME PrintArguments PROVE Quiet
  BY <1>1, <1>2, <1>6 DEF PrintArguments, EndStatement, Quiet
<1>7. ASSUME Assignment PROVE Quiet
  <2>1. pc \in Reading
    BY <1>1, <1>7 DEF Assignment
  <2>2. ASSUME NEW o, AssignVariable(o) PROVE Quiet
    BY <1>1, <2>1, <2>2 DEF AssignVariable, EndStatement, Quiet
  <2>3. ASSUME NEW o, AssignTick(o) PROVE Quiet
    BY <1>1, <1>2, <2>1, <2>3 DEF AssignTick, EndStatement, Quiet
  <2>4. ASSUME NEW o, AssignPin(o) PROVE Quiet
    <3>1. CASE \E message \in Messages : Throw(message)
      BY <3>1, ThrowIsQuiet
    <3>2. CASE EndStatement /\ UNCHANGED <<alloc, code, fold, blocks, R, log, bare>>
      BY <1>1, <2>1, <3>2 DEF EndStatement, Quiet
    <3>. QED  BY <1>1, <2>4, <3>1, <3>2 DEF AssignPin
  <2>. QED  BY <1>7, <2>2, <2>3, <2>4 DEF Assignment
<1>. QED  BY <1>4, <1>5, <1>6, <1>7

LEMMA PulseLabels == ASSUME LabelsInv, NEW pin, Pulse(pin) PROVE LabelsInv'
<1>1. /\ "out of registers" \in Messages /\ "out of tmp registers" \in Messages
      /\ "cannot be used for output" \in Messages /\ "input and output" \in Messages
  BY DEF Messages
<1>2. CASE /\ asm' = asm \o PulseCode /\ loop_cnt' = loop_cnt + 1
           /\ UNCHANGED <<asm_src, pc, blocks, bare>>
  BY <1>2, PulseLines DEF Pulse, AtStatement
<1>3. CASE \E message \in Messages : Throw(message)
  BY <1>3, ThrowIsQuiet, QuietSteps
<1>. QED  BY <1>1, <1>2, <1>3 DEF Pulse, OutOfRegisters, OutOfTmpRegs, PulseCode

LEMMA StartBlockLabels ==
  ASSUME LabelsInv, NEW keyword \in {"while", "if"}, StartBlock(keyword) PROVE LabelsInv'
<1>1. CASE BlockBegins(keyword)
  BY <1>1, BlockStarts DEF StartBlock, AtStatement
<1>2. CASE OutOfRegisters(keyword)
  BY <1>2, ThrowIsQuiet, QuietSteps DEF OutOfRegisters, Messages
<1>. QED  BY <1>1, <1>2 DEF StartBlock, BlockBegins

LEMMA ConditionLabels ==
  ASSUME LabelsInv,
         \/ \E pin \in Pins : CondPin(pin)
         \/ \E op \in Relations : CondExpression(op)
  PROVE  LabelsInv'
<1>1. /\ "out of tmp registers" \in Messages
      /\ "cannot be used for input" \in Messages /\ "input and output" \in Messages
  BY DEF Messages
<1>2. CASE pc = "CondExpression" /\ Branch /\ UNCHANGED <<blocks, bare>>
  BY <1>2, BranchIs
<1>3. CASE \E message \in Messages : Throw(message)
  BY <1>3, ThrowIsQuiet, QuietSteps
<1>4. ASSUME NEW pin, CondPin(pin) PROVE LabelsInv'
  BY <1>1, <1>2, <1>3, <1>4 DEF CondPin
<1>5. ASSUME NEW op, CondExpression(op) PROVE LabelsInv'
  BY <1>1, <1>2, <1>3, <1>5 DEF CondExpression, OutOfTmpRegs
<1>. QED  BY <1>4, <1>5

LEMMA LabelsNext == LabelsInv /\ [Next]_vars => LabelsInv'
<1>. SUFFICES ASSUME LabelsInv, [Next]_vars PROVE LabelsInv'
  OBVIOUS
<1>1. CASE Factor \/ Combining
  BY <1>1, ExpressionsAreQuiet, QuietSteps
<1>2. ASSUME Starting PROVE LabelsInv'
  <2>1. CASE StartPrint \/ \E t \in Symbols \cup Pins \cup {"tick"} : StartAssignment(t)
    BY <2>1, StatementsAreQuiet, QuietSteps
  <2>2. CASE \E pin \in Pins : Pulse(pin)
    BY <2>2, PulseLabels
  <2>3. CASE \E keyword \in {"while", "if"} : StartBlock(keyword)
    BY <2>3, StartBlockLabels
  <2>. QED  BY <1>2, <2>1, <2>2, <2>3 DEF Starting
<1>3. ASSUME Ending PROVE LabelsInv'
  <2>1. CASE Assignment \/ PrintArguments
    BY <2>1, StatementsAreQuiet, QuietSteps
  <2>2. CASE CloseBlock \/ compile
    BY <2>2, CloseBlockStep, CompileStep
  <2>3. CASE \/ \E pin \in Pins : CondPin(pin)
             \/ \E op \in Relations : CondExpression(op)
    BY <2>3, ConditionLabels
  <2>. QED  BY <1>3, <2>1, <2>2, <2>3 DEF Ending
<1>4. CASE UNCHANGED vars
  BY <1>4, QuietSteps DEF vars, Quiet
<1>. QED  BY <1>1, <1>2, <1>3, <1>4 DEF Next

LEMMA LabelsInit == Init => LabelsInv
<1>. SUFFICES ASSUME Init PROVE LabelsInv
  OBVIOUS
<1>1. asm = << >> /\ blocks = << >> /\ loop_cnt = 0 /\ pc = "Statement"
  BY DEF Init
<1>2. Lines(asm) = {} /\ OnceIn(asm)
  BY <1>1 DEF Lines, OnceIn
<1>3. CodeType /\ \A b \in 1 .. Len(blocks) : FALSE
  BY <1>1 DEF CodeType
<1>4. LabelsResolve
  BY <1>1 DEF LabelsResolve
<1>. QED  BY <1>1, <1>2, <1>3, <1>4 DEF LabelsInv, NumbersInv, BlocksInv, JumpsInv

(* What compile() returns can be assembled, whatever the program: no label *)
(* is there twice and every branch has its label, except the one over an   *)
(* else part without braces.                                               *)
THEOREM LabelsAreResolved == Spec => []LabelsResolve
<1>1. LabelsInv => LabelsResolve
  BY DEF LabelsInv
<1>. QED  BY <1>1, LabelsInit, LabelsNext, PTL DEF Spec
=============================================================================
