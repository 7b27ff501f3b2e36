----------------------------- MODULE PinProofs -----------------------------
(* Safety of what changes pins: first the scripts and the kernel module,   *)
(* for every number of scripts and whatever pin lines their programs have, *)
(* then the pinmux web server, for every number of pages and pins.         *)
EXTENDS PinPirate, Pinmux, SequenceTheorems, FiniteSetTheorems, TLAPS

Building == {"cp", "cp2", "cc", "ld", "ld2"}
Built == {"pins", "pasm", "exec"} \cup Open
Places == Building \cup Built \cup {"ran", "failed", "refused"}

(* The texts in the buffer are mixed, but they are texts of numbers.       *)
TypeOK ==
  /\ at \in [Scripts -> Places] /\ line \in [Scripts -> Nat \ {0}]
  /\ reading \in [Scripts -> {1, 2}] /\ register \in [Scripts -> Seq(Int)]
  /\ source \in {"none", "partial", "whole"}
  /\ loader \in [by : Scripts \cup {Nothing}, is : {"none", "partial", "whole"}]
  /\ message \in [1 .. 2 -> Int] /\ mux = [o \in Numbers |-> mux[o]]
  /\ \A s \in Scripts :
       /\ at[s] \in Open => HasLine(s)
       /\ at[s] \in {"copy", "copy2", "parse"} => Len(register[s]) = reading[s] - 1
       /\ at[s] \in {"check", "write"} => Len(register[s]) = 2
       /\ at[s] \notin Open => Len(register[s]) = 0 /\ reading[s] = 1

(* What CheckBounds has tested is what writeb uses.                        *)
BoundsInv ==
  /\ \A s \in Scripts :
       at[s] = "write" => register[s][1] < IO_SIZE /\ register[s][2] < VALUES
  /\ WritesAreInBounds

(* Alone, a script has the only mapping; between two opens there is none.  *)
MappingInv ==
  ~overlapped =>
    /\ ~faulted
    /\ \A s, t \in Scripts : at[s] \in Open /\ at[t] \in Open => s = t
    /\ \A s \in Scripts : at[s] \in Open => mapped = {pinmux_io_base}
    /\ (\A s \in Scripts : at[s] \notin Open) => mapped = {}

(* Alone, what a script has copied and built is what it compiles and runs. *)
LoaderInv ==
  ~crossed =>
    /\ \A s, t \in Scripts : Started(s) /\ Started(t) => s = t
    /\ \A s \in Scripts :
         /\ at[s] # "failed"
         /\ at[s] = "cc" => source = "whole"
         /\ at[s] = "ld2" => loader.by = s
         /\ at[s] \in Built => loader = [by |-> s, is |-> "whole"]

(* Alone, a script writes what its line says, and what was written stays.  *)
Line(s) == Lines[s][line[s]]
Configured(l) == InBounds(l) /\ Undisputed(l) => mux[l[1]] = l[2]
LineInv(s) ==
  /\ at[s] = "copy2" => message[1] = Text(Line(s)[reading[s]])[1]
  /\ at[s] = "parse" => message = Text(Line(s)[reading[s]])
  /\ reading[s] = 2 => register[s][1] = Line(s)[1]
  /\ at[s] \in {"check", "write"} => reading[s] = 2 /\ register[s][2] = Line(s)[2]
DoneInv(s) ==
  \A k \in 1 .. Len(Lines[s]) :
    k < line[s] \/ (k = line[s] /\ at[s] = "release") => Configured(Lines[s][k])
PinsInv ==
  /\ mapErrors \in Nat
  /\ \A s \in Scripts : at[s] \in {"pasm", "exec", "ran"} => ~HasLine(s)
  /\ ~overlapped /\ mapErrors = 0 => \A s \in Scripts : LineInv(s) /\ DoneInv(s)

IInv == TypeOK /\ BoundsInv /\ MappingInv /\ LoaderInv /\ PinsInv

-----------------------------------------------------------------------------
(* The numbers of the pin lines, and their texts, are integers.            *)
LEMMA Texts ==
  ASSUME NEW s \in Scripts, NEW k \in {1, 2}, NEW r \in {1, 2}, NEW l \in Nat \ {0},
         l <= Len(Lines[s])
  PROVE  Text(Lines[s][l][r])[k] \in Int
<1>. DEFINE n == Lines[s][l][r]
<1>1. Base \in Nat \ {0} /\ Lines[s] \in Seq(Numbers \X Numbers)
  BY PinAssumption
<1>2. l \in 1 .. Len(Lines[s])
  BY <1>1, LenProperties
<1>3. Lines[s][l] \in Numbers \X Numbers
  BY <1>1, <1>2, ElementOfSeq
<1>4. n \in Int
  BY <1>3 DEF Numbers
<1>. HIDE DEF n
<1>5. n \div Base \in Int /\ n % Base \in Int
  BY <1>1, <1>4
<1>. QED  BY <1>5 DEF Text, n

LEMMA InvInit == Init => IInv
<1>. SUFFICES ASSUME Init PROVE IInv
  OBVIOUS
<1>0. /\ \A s \in Scripts : at[s] = "cp" /\ register[s] = << >> /\ reading[s] = 1
      /\ Len(<< >>) = 0 /\ << >> \in Seq(Int) /\ Len(<< >>) = 0
  BY EmptySeq DEF Init
<1>1. TypeOK
  <2>1. message \in [1 .. 2 -> Int] /\ mux = [o \in Numbers |-> mux[o]]
    BY DEF Init
  <2>2. /\ at \in [Scripts -> Places] /\ line \in [Scripts -> Nat \ {0}]
        /\ reading \in [Scripts -> {1, 2}] /\ register \in [Scripts -> Seq(Int)]
    BY <1>0 DEF Init, Places, Building
  <2>3. /\ source \in {"none", "partial", "whole"}
        /\ loader \in [by : Scripts \cup {Nothing}, is : {"none", "partial", "whole"}]
    BY DEF Init
  <2>4. \A s \in Scripts : Len(register[s]) = 0 /\ reading[s] = 1 /\ at[s] \notin Open
    BY <1>0 DEF Open
  <2>. QED  BY <2>1, <2>2, <2>3, <2>4 DEF TypeOK, Open
<1>2. BoundsInv
  BY <1>0 DEF BoundsInv, WritesAreInBounds, Init
<1>3. MappingInv
  BY <1>0 DEF MappingInv, Open, Init
<1>4. LoaderInv
  BY <1>0 DEF LoaderInv, Started, Built, Open
<1>5. PinsInv
  <2>1. mapErrors = 0 /\ \A s \in Scripts : line[s] = 1
    BY DEF Init
  <2>2. ASSUME NEW s \in Scripts PROVE LineInv(s) /\ DoneInv(s)
    BY <1>0, <2>1 DEF LineInv, DoneInv
  <2>. QED  BY <1>0, <2>1, <2>2 DEF PinsInv
<1>. QED  BY <1>1, <1>2, <1>3, <1>4, <1>5 DEF IInv

LEMMA TypeStep ==
  ASSUME IInv, NEW s \in Scripts, Step(s)
  PROVE  TypeOK'
<1>0. TypeOK
  BY DEF IInv
<1>. USE DEF TypeOK, Places, Building, Built, Open, GoTo, NextLine, HasLine, driver, tmp, history,
             script
<1>1. CASE CopySource(s)
  BY <1>0, <1>1 DEF CopySource
<1>2. CASE CopyDone(s)
  BY <1>0, <1>2 DEF CopyDone
<1>3. CASE Compile(s)
  BY <1>0, <1>3 DEF Compile
<1>4. CASE Link(s)
  BY <1>0, <1>4 DEF Link
<1>5. CASE LinkDone(s)
  BY <1>0, <1>5 DEF LinkDone
<1>6. CASE dev_open(s)
  BY <1>0, <1>6 DEF dev_open
<1>7. CASE OpenFails(s)
  <2>1. /\ line' = [line EXCEPT ![s] = line[s] + 1]
        /\ pinmux_io_base' = Nothing /\ mapErrors' = mapErrors + 1
        /\ at[s] = "pins"
        /\ UNCHANGED <<at, reading, register, source, loader, mapped, message, mux,
                       faulted, crossed>>
    BY <1>7 DEF OpenFails
  <2>2. /\ line' \in [Scripts -> Nat \ {0}]
        /\ \A t \in Scripts : at[t] \in Open => line'[t] = line[t]
    BY <1>0, <2>1
  <2>3. \A t \in Scripts : at'[t] \in Open => HasLine(t)'
    BY <1>0, <2>1, <2>2
  <2>. QED  BY <1>0, <2>1, <2>2, <2>3
<1>8. ASSUME NEW k \in {1, 2}, NEW next \in {"copy2", "parse"}, at[s] \in {"copy", "copy2"},
             CopyMessage(s, k, next)
      PROVE  TypeOK'
  <2>1. Text(Lines[s][line[s]][reading[s]])[k] \in Int
    BY <1>0, <1>8, Texts
  <2>2. message' \in [1 .. 2 -> Int]
    BY <1>0, <1>8, <2>1 DEF CopyMessage
  <2>. QED  BY <1>0, <1>8, <2>2 DEF CopyMessage
<1>9. CASE CopyFirst(s)
  BY <1>8, <1>9 DEF CopyFirst
<1>10. CASE CopySecond(s)
  BY <1>8, <1>10 DEF CopySecond
<1>11. CASE read_message(s)
  <2>. DEFINE e == kstrtol(message)
  <2>1. e \in Int
    BY <1>0, PinAssumption DEF kstrtol
  <2>. HIDE DEF e
  <2>2. register' = [register EXCEPT ![s] = Append(@, e)] /\ at[s] = "parse"
    BY <1>11 DEF read_message, e
  <2>3. /\ Append(register[s], e) \in Seq(Int)
        /\ Len(Append(register[s], e)) = reading[s]
    <3>1. register[s] \in Seq(Int) /\ Len(register[s]) = reading[s] - 1 /\ reading[s] \in {1, 2}
      BY <1>0, <2>2
    <3>2. Append(register[s], e) \in Seq(Int) /\ Len(Append(register[s], e)) = Len(register[s]) + 1
      BY <2>1, <3>1, AppendProperties
    <3>. QED  BY <3>1, <3>2
  <2>4. register' \in [Scripts -> Seq(Int)] /\ Len(register'[s]) = reading[s]
        /\ \A t \in Scripts \ {s} : register'[t] = register[t]
    BY <1>0, <2>2, <2>3
  <2>5. /\ UNCHANGED <<line, source, loader, message, mux>>
        /\ \/ reading[s] = 1 /\ reading' = [reading EXCEPT ![s] = 2] /\ at' = [at EXCEPT ![s] = "copy"]
           \/ reading[s] # 1 /\ reading' = reading /\ at' = [at EXCEPT ![s] = "check"]
    BY <1>11 DEF read_message
  <2>6. /\ at' \in [Scripts -> Places] /\ reading' \in [Scripts -> {1, 2}]
        /\ \A t \in Scripts \ {s} : at'[t] = at[t] /\ reading'[t] = reading[t]
        /\ \/ at'[s] = "copy" /\ reading'[s] = 2 /\ reading[s] = 1
           \/ at'[s] = "check" /\ reading'[s] = 2 /\ reading[s] = 2
    <3>1. at \in [Scripts -> Places] /\ reading \in [Scripts -> {1, 2}]
          /\ "copy" \in Places /\ "check" \in Places
      BY <1>0
    <3>. HIDE DEF TypeOK, Places
    <3>2. CASE reading[s] = 1
      BY <2>5, <3>1, <3>2
    <3>3. CASE reading[s] = 2
      BY <2>5, <3>1, <3>3
    <3>. QED  BY <3>1, <3>2, <3>3
  <2>7. ASSUME NEW t \in Scripts
        PROVE  /\ at'[t] \in Open => line'[t] <= Len(Lines[t])
               /\ at'[t] \in {"copy", "copy2", "parse"} => Len(register'[t]) = reading'[t] - 1
               /\ at'[t] \in {"check", "write"} => Len(register'[t]) = 2
               /\ at'[t] \notin Open => Len(register'[t]) = 0 /\ reading'[t] = 1
    <3>1. CASE t = s
      <4>1. line'[s] <= Len(Lines[s])
        BY <1>0, <2>2, <2>5
      <4>2. CASE at'[s] = "copy" /\ reading'[s] = 2 /\ reading[s] = 1
        BY <2>4, <3>1, <4>1, <4>2
      <4>3. CASE at'[s] = "check" /\ reading'[s] = 2 /\ reading[s] = 2
        BY <2>4, <3>1, <4>1, <4>3
      <4>. QED  BY <2>6, <4>2, <4>3
    <3>2. CASE t # s
      BY <1>0, <2>4, <2>5, <2>6, <3>2
    <3>. QED  BY <3>1, <3>2
  <2>. QED  BY <1>0, <2>4, <2>5, <2>6, <2>7
<1>12. CASE ParseFails(s)
  BY <1>0, <1>12 DEF ParseFails
<1>13. CASE CheckBounds(s)
  BY <1>0, <1>13 DEF CheckBounds
<1>14. CASE writeb(s)
  <2>1. mux' = [o \in Numbers |-> mux'[o]]
    BY <1>0, <1>14 DEF writeb
  <2>. QED  BY <1>0, <1>14, <2>1 DEF writeb
<1>15. CASE dev_release(s)
  <2>1. << >> \in Seq(Int) /\ Len(<< >>) = 0
    BY EmptySeq
  <2>2. line[s] + 1 \in Nat \ {0}
    BY <1>0
  <2>. QED  BY <1>0, <1>15, <2>1, <2>2 DEF dev_release
<1>16. CASE PinsDone(s)
  BY <1>0, <1>16 DEF PinsDone
<1>17. CASE Pasm(s)
  BY <1>0, <1>17 DEF Pasm, Assemble, AssembleFails
<1>18. CASE RunLoader(s)
  BY <1>0, <1>18 DEF RunLoader
<1>. QED  BY <1>1, <1>2, <1>3, <1>4, <1>5, <1>6, <1>7, <1>9, <1>10, <1>11, <1>12, <1>13,
             <1>14, <1>15, <1>16, <1>17, <1>18 DEF Step, Build, Device

LEMMA BoundsStep ==
  ASSUME IInv, NEW s \in Scripts, Step(s)
  PROVE  BoundsInv'
<1>0. TypeOK /\ BoundsInv
  BY DEF IInv
<1>t. at \in [Scripts -> Places] /\ register \in [Scripts -> Seq(Int)]
  BY <1>0 DEF TypeOK
<1>. USE DEF BoundsInv, WritesAreInBounds, GoTo, driver, tmp, history, script
<1>1. CASE Build(s) \/ PinsDone(s) \/ Pasm(s) \/ RunLoader(s)
  <2>1. UNCHANGED <<register, mux>> /\ \E place : place # "write" /\ GoTo(s, place)
    BY <1>1 DEF Build, CopySource, CopyDone, Compile, Link, LinkDone, PinsDone, Pasm,
                Assemble, AssembleFails, RunLoader
  <2>. QED  BY <1>0, <1>t, <2>1
<1>2. CASE dev_open(s) \/ CopyFirst(s) \/ CopySecond(s) \/ ParseFails(s)
  <2>1. UNCHANGED <<register, mux>> /\ \E place : place # "write" /\ GoTo(s, place)
    BY <1>2 DEF dev_open, CopyFirst, CopySecond, CopyMessage, ParseFails
  <2>. QED  BY <1>0, <1>t, <2>1
<1>3. CASE OpenFails(s)
  BY <1>0, <1>3 DEF OpenFails
<1>4. CASE read_message(s) \/ dev_release(s)
  <2>1. /\ UNCHANGED mux /\ \A t \in Scripts \ {s} : register'[t] = register[t] /\ at'[t] = at[t]
        /\ at'[s] # "write"
    BY <1>t, <1>4 DEF read_message, dev_release
  <2>. QED  BY <1>0, <2>1
<1>5. CASE CheckBounds(s)
  <2>1. at[s] = "check" /\ UNCHANGED <<register, mux>>
        /\ GoTo(s, IF register[s][1] >= IO_SIZE \/ register[s][2] >= VALUES
                     THEN "release" ELSE "write")
    BY <1>5 DEF CheckBounds
  <2>2. register[s][1] \in Int /\ register[s][2] \in Int
    BY <1>0, <1>t, <2>1, ElementOfSeq DEF TypeOK
  <2>3. IO_SIZE \in Int /\ VALUES \in Int
    BY PinAssumption DEF Numbers
  <2>4. at'[s] = "write" => register[s][1] < IO_SIZE /\ register[s][2] < VALUES
    BY <1>t, <2>1, <2>2, <2>3
  <2>. QED  BY <1>0, <1>t, <2>1, <2>4
<1>6. CASE writeb(s)
  <2>1. /\ register[s][1] < IO_SIZE /\ register[s][2] < VALUES /\ register' = register
        /\ GoTo(s, "release")
        /\ \/ mux' = [mux EXCEPT ![register[s][1]] = register[s][2]]
           \/ mux' = mux
    BY <1>0, <1>6 DEF writeb
  <2>2. \A o \in Numbers : mux'[o] = mux[o] \/ (o = register[s][1] /\ mux'[o] = register[s][2])
    BY <1>0, <2>1 DEF TypeOK
  <2>. QED  BY <1>0, <1>t, <2>1, <2>2
<1>. QED  BY <1>1, <1>2, <1>3, <1>4, <1>5, <1>6 DEF Step, Device

LEMMA MappingStep ==
  ASSUME IInv, NEW s \in Scripts, Step(s)
  PROVE  MappingInv'
<1>0. TypeOK /\ MappingInv
  BY DEF IInv
<1>t. at \in [Scripts -> Places]
  BY <1>0 DEF TypeOK
<1>. USE DEF MappingInv, GoTo, driver, tmp, history, script
<1>1. CASE Build(s) \/ PinsDone(s) \/ Pasm(s) \/ RunLoader(s)
  <2>1. /\ UNCHANGED <<driver, overlapped>> /\ at[s] \notin Open
        /\ \E place : place \notin Open /\ GoTo(s, place)
    BY <1>1 DEF Build, CopySource, CopyDone, Compile, Link, LinkDone, PinsDone, Pasm,
                Assemble, AssembleFails, RunLoader, Open
  <2>2. \A t \in Scripts : at'[t] \in Open <=> at[t] \in Open
    BY <1>t, <2>1
  <2>. QED  BY <1>0, <2>1, <2>2
<1>2. CASE CopyFirst(s) \/ CopySecond(s) \/ read_message(s) \/ ParseFails(s) \/ CheckBounds(s)
  <2>1. /\ UNCHANGED <<pinmux_io_base, mapped, faulted, overlapped>> /\ at[s] \in Open
        /\ \E place : place \in Open /\ GoTo(s, place)
    BY <1>2 DEF CopyFirst, CopySecond, CopyMessage, read_message, ParseFails, CheckBounds, Open
  <2>2. \A t \in Scripts : at'[t] \in Open <=> at[t] \in Open
    BY <1>t, <2>1
  <2>. QED  BY <1>0, <2>1, <2>2
<1>3. CASE dev_open(s)
  <2>1. /\ pinmux_io_base' = Mapping /\ mapped' = mapped \cup {Mapping} /\ GoTo(s, "copy")
        /\ UNCHANGED faulted /\ (~overlapped' => ~overlapped /\ OpenFiles = {})
    BY <1>3 DEF dev_open
  <2>2. ~overlapped' => \A t \in Scripts : at[t] \notin Open
    BY <2>1 DEF OpenFiles
  <2>3. ~overlapped' => mapped = {} /\ ~faulted
    BY <1>0, <2>1, <2>2
  <2>4. \A t \in Scripts : at'[t] \in Open => at[t] \in Open \/ t = s
    BY <1>t, <2>1
  <2>5. at'[s] \in Open
    BY <1>t, <2>1 DEF Open
  <2>6. ~overlapped' => mapped' = {pinmux_io_base'}
    BY <2>1, <2>3
  <2>. QED  BY <2>1, <2>2, <2>3, <2>4, <2>5, <2>6
<1>4. CASE OpenFails(s)
  <2>1. /\ UNCHANGED <<at, mapped, faulted>> /\ (~overlapped' => ~overlapped /\ OpenFiles = {})
    BY <1>4 DEF OpenFails
  <2>2. ~overlapped' => \A t \in Scripts : at[t] \notin Open
    BY <2>1 DEF OpenFiles
  <2>. QED  BY <1>0, <2>1, <2>2
<1>5. CASE writeb(s)
  <2>1. /\ UNCHANGED <<pinmux_io_base, mapped, overlapped>> /\ at[s] \in Open
        /\ GoTo(s, "release") /\ (pinmux_io_base \in mapped => UNCHANGED faulted)
    BY <1>5 DEF writeb, Open
  <2>2. \A t \in Scripts : at'[t] \in Open <=> at[t] \in Open
    BY <1>t, <2>1 DEF Open
  <2>3. ~overlapped => UNCHANGED faulted
    BY <1>0, <2>1
  <2>. QED  BY <1>0, <2>1, <2>2, <2>3
<1>6. CASE dev_release(s)
  <2>1. /\ mapped' = mapped \ {pinmux_io_base} /\ GoTo(s, "pins") /\ at[s] \in Open
        /\ UNCHANGED <<faulted, overlapped>>
    BY <1>6 DEF dev_release, Open
  <2>2. at'[s] \notin Open /\ \A t \in Scripts \ {s} : at'[t] = at[t]
    BY <1>t, <2>1 DEF Open
  <2>3. ~overlapped => mapped' = {} /\ \A t \in Scripts : at'[t] \notin Open
    BY <1>0, <2>1, <2>2
  <2>. QED  BY <1>0, <2>1, <2>3
<1>. QED  BY <1>1, <1>2, <1>3, <1>4, <1>5, <1>6 DEF Step, Device

LEMMA LoaderStep ==
  ASSUME IInv, NEW s \in Scripts, Step(s)
  PROVE  LoaderInv'
<1>0. TypeOK /\ LoaderInv
  BY DEF IInv
<1>t. /\ at \in [Scripts -> Places]
      /\ loader \in [by : Scripts \cup {Nothing}, is : {"none", "partial", "whole"}]
  BY <1>0 DEF TypeOK
<1>. USE DEF LoaderInv, Started, Built, Open, GoTo, driver, tmp, history, script
<1>1. CASE CopySource(s)
  <2>1. /\ at' = [at EXCEPT ![s] = "cp2"] /\ UNCHANGED loader
        /\ ~crossed' => ~crossed /\ \A t \in Scripts \ {s} : ~Started(t)
    BY <1>1 DEF CopySource
  <2>. QED  BY <1>0, <1>t, <2>1
<1>2. CASE CopyDone(s)
  BY <1>0, <1>t, <1>2 DEF CopyDone
<1>3. CASE Compile(s)
  BY <1>0, <1>t, <1>3 DEF Compile
<1>4. CASE Link(s)
  BY <1>0, <1>t, <1>4 DEF Link
<1>5. CASE LinkDone(s)
  <2>1. ~crossed => loader' = [by |-> s, is |-> "whole"]
    BY <1>0, <1>t, <1>5 DEF LinkDone
  <2>. QED  BY <1>0, <1>t, <1>5, <2>1 DEF LinkDone
<1>6. CASE Device(s) \/ PinsDone(s) \/ Assemble(s)
  <2>1. /\ UNCHANGED <<source, loader, crossed>> /\ at[s] \in Built
        /\ \E place : place \in Built /\ at' = [at EXCEPT ![s] = place]
    <3>1. CASE dev_open(s) \/ CopyFirst(s) \/ CopySecond(s) \/ read_message(s)
      BY <3>1 DEF dev_open, CopyFirst, CopySecond, CopyMessage, read_message
    <3>2. CASE OpenFails(s)
      <4>1. at' = [at EXCEPT ![s] = "pins"]
        BY <1>t, <3>2 DEF OpenFails
      <4>. QED  BY <3>2, <4>1 DEF OpenFails
    <3>3. CASE ParseFails(s) \/ CheckBounds(s) \/ writeb(s) \/ dev_release(s)
      BY <3>3 DEF ParseFails, CheckBounds, writeb, dev_release
    <3>4. CASE PinsDone(s) \/ Assemble(s)
      BY <3>4 DEF PinsDone, Assemble
    <3>. QED  BY <1>6, <3>1, <3>2, <3>3, <3>4 DEF Device
  <2>. QED  BY <1>0, <1>t, <2>1
<1>7. CASE AssembleFails(s)
  BY <1>0, <1>t, <1>7 DEF AssembleFails
<1>8. CASE RunLoader(s)
  BY <1>0, <1>t, <1>8 DEF RunLoader
<1>. QED  BY <1>1, <1>2, <1>3, <1>4, <1>5, <1>6, <1>7, <1>8 DEF Step, Build, Pasm

(* The number that is read from its text.                                  *)
LEMMA Number == ASSUME NEW n \in Numbers PROVE kstrtol(Text(n)) = n
<1>1. Base \in Nat \ {0} /\ n \in Int
  BY PinAssumption DEF Numbers
<1>2. Text(n)[1] = n \div Base /\ Text(n)[2] = n % Base
  BY DEF Text
<1>3. \A b \in Nat \ {0}, m \in Int : b * (m \div b) + (m % b) = m
  OBVIOUS
<1>. QED  BY <1>1, <1>2, <1>3 DEF kstrtol

LEMMA LineType ==
  ASSUME NEW s \in Scripts, NEW k \in 1 .. Len(Lines[s])
  PROVE  Lines[s][k] \in Numbers \X Numbers /\ Lines[s][k][1] \in Numbers /\ Lines[s][k][2] \in Numbers
<1>1. Lines[s] \in Seq(Numbers \X Numbers)
  BY PinAssumption
<1>2. Lines[s][k] \in Numbers \X Numbers
  BY <1>1, ElementOfSeq
<1>. QED  BY <1>2

(* A line that is written leaves the others configured, unless they are    *)
(* disputed.                                                               *)
LEMMA WrittenKeeps ==
  ASSUME TypeOK, NEW s \in Scripts, NEW k \in 1 .. Len(Lines[s]), InBounds(Lines[s][k]),
         mux' = [mux EXCEPT ![Lines[s][k][1]] = Lines[s][k][2]],
         NEW t \in Scripts, NEW j \in 1 .. Len(Lines[t]),
         Configured(Lines[t][j]) \/ (t = s /\ j = k)
  PROVE  Configured(Lines[t][j])'
<1>. DEFINE l == Lines[s][k]
            m == Lines[t][j]
<1>1. l[1] \in Numbers /\ m[1] \in Numbers
  BY LineType
<1>2. DOMAIN mux = Numbers
  BY DEF TypeOK
<1>3. mux'[m[1]] = IF m[1] = l[1] THEN l[2] ELSE mux[m[1]]
  BY <1>1, <1>2
<1>4. ASSUME InBounds(m), Undisputed(m) PROVE mux'[m[1]] = m[2]
  <2>1. CASE m[1] = l[1]
    <3>1. l[2] = m[2]
      BY <1>4, <2>1 DEF Undisputed
    <3>. QED  BY <1>3, <2>1, <3>1
  <2>2. CASE m[1] # l[1]
    <3>1. Configured(m)
      BY <2>2
    <3>. QED  BY <1>3, <1>4, <2>2, <3>1 DEF Configured
  <2>. QED  BY <2>1, <2>2
<1>. QED  BY <1>4 DEF Configured

LEMMA PinsStep ==
  ASSUME IInv, NEW s \in Scripts, Step(s)
  PROVE  PinsInv'
<1>0. TypeOK /\ MappingInv /\ PinsInv /\ TypeOK'
  BY TypeStep DEF IInv
<1>t. /\ at \in [Scripts -> Places] /\ line \in [Scripts -> Nat \ {0}]
      /\ reading \in [Scripts -> {1, 2}] /\ register \in [Scripts -> Seq(Int)]
      /\ message \in [1 .. 2 -> Int]
  BY <1>0 DEF TypeOK
<1>. USE DEF GoTo, driver, tmp, history, script
(* A script that does not have the device open.                            *)
<1>a. ASSUME NEW t \in Scripts, at'[t] \notin Open PROVE LineInv(t)'
  <2>1. reading'[t] = 1 /\ at'[t] \notin {"copy2", "parse", "check", "write"}
    BY <1>0, <1>a DEF TypeOK, Open
  <2>. QED  BY <2>1 DEF LineInv
<1>n. mapErrors \in Nat
  BY <1>0 DEF PinsInv
(* The cases below prove the rest for each script.                         *)
<1>q. ASSUME UNCHANGED mapErrors,
             ~overlapped' => ~overlapped,
             \A t \in Scripts : at'[t] \in {"pasm", "exec", "ran"} => ~HasLine(t)',
             ~overlapped' /\ mapErrors = 0 => \A t \in Scripts : LineInv(t)' /\ DoneInv(t)'
      PROVE  PinsInv'
  BY <1>0, <1>n, <1>q DEF PinsInv
<1>1. CASE Build(s) \/ PinsDone(s) \/ Pasm(s) \/ RunLoader(s)
  <2>1. /\ UNCHANGED <<line, reading, register, message, mux, mapErrors, overlapped>>
        /\ at[s] \notin Open /\ at[s] \notin {"ran"}
        /\ \E place : /\ place \notin Open /\ at' = [at EXCEPT ![s] = place]
                     /\ \/ place \notin {"pasm", "exec", "ran"}
                        \/ ~HasLine(s) \/ at[s] \in {"pasm", "exec", "ran"}
    BY <1>1 DEF Build, CopySource, CopyDone, Compile, Link, LinkDone, PinsDone, Pasm,
                Assemble, AssembleFails, RunLoader, Open
  <2>2. /\ at'[s] \notin Open /\ \A t \in Scripts \ {s} : at'[t] = at[t]
        /\ \/ at'[s] \notin {"pasm", "exec", "ran"}
           \/ ~HasLine(s) \/ at[s] \in {"pasm", "exec", "ran"}
    <3>1. PICK place : /\ place \notin Open /\ at' = [at EXCEPT ![s] = place]
                       /\ \/ place \notin {"pasm", "exec", "ran"}
                          \/ ~HasLine(s) \/ at[s] \in {"pasm", "exec", "ran"}
      BY <2>1
    <3>2. at'[s] = place /\ \A t \in Scripts \ {s} : at'[t] = at[t]
      BY <1>t, <3>1
    <3>. QED  BY <3>1, <3>2
  <2>3. \A t \in Scripts : at'[t] \in {"pasm", "exec", "ran"} => ~HasLine(t)'
    BY <1>0, <2>1, <2>2 DEF PinsInv, HasLine
  <2>4. ASSUME ~overlapped, mapErrors = 0, NEW t \in Scripts PROVE LineInv(t)' /\ DoneInv(t)'
    <3>1. LineInv(t) /\ DoneInv(t)
      BY <1>0, <2>4 DEF PinsInv
    <3>2. CASE t = s
      <4>1. LineInv(t)'
        BY <1>a, <2>2, <3>2
      <4>2. at'[t] # "release"
        BY <2>2, <3>2 DEF Open
      <4>3. DoneInv(t)'
        BY <2>1, <3>1, <4>2 DEF DoneInv, Configured
      <4>. QED  BY <4>1, <4>3
    <3>3. CASE t # s
      <4>1. at'[t] = at[t]
        BY <2>2, <3>3
      <4>. QED  BY <2>1, <3>1, <4>1 DEF LineInv, Line, DoneInv, Configured
    <3>. QED  BY <3>2, <3>3
  <2>. QED  BY <2>1, <2>3, <2>4, <1>q
<1>2. CASE OpenFails(s)
  <2>1. /\ mapErrors' = mapErrors + 1 /\ at' = at /\ at[s] = "pins"
        /\ line' = [line EXCEPT ![s] = line[s] + 1]
    BY <1>2 DEF OpenFails, NextLine
  <2>2. mapErrors' \in Nat /\ mapErrors' # 0
    BY <1>n, <2>1
  <2>3. ASSUME NEW t \in Scripts, at'[t] \in {"pasm", "exec", "ran"} PROVE ~HasLine(t)'
    <3>1. t # s /\ line'[t] = line[t] /\ ~HasLine(t)
      BY <1>0, <1>t, <2>1, <2>3 DEF PinsInv
    <3>. QED  BY <3>1 DEF HasLine
  <2>. QED  BY <2>2, <2>3 DEF PinsInv
(* The steps of the script that has the device open, or opens it.          *)
<1>3. ASSUME UNCHANGED mapErrors,
             ~overlapped' => ~overlapped /\ \A t \in Scripts \ {s} : at[t] \notin Open,
             \A t \in Scripts \ {s} : at'[t] = at[t] /\ line'[t] = line[t],
             at'[s] \notin {"pasm", "exec", "ran"},
             ~overlapped /\ ~overlapped' /\ mapErrors = 0 =>
               /\ \A t \in Scripts, j \in Nat \ {0} :
                    j <= Len(Lines[t]) /\ Configured(Lines[t][j]) => Configured(Lines[t][j])'
               /\ LineInv(s) /\ DoneInv(s) => LineInv(s)' /\ DoneInv(s)'
      PROVE  PinsInv'
  <2>1. \A t \in Scripts : at'[t] \in {"pasm", "exec", "ran"} => ~HasLine(t)'
    BY <1>0, <1>3 DEF PinsInv, HasLine
  <2>2. ASSUME ~overlapped', mapErrors = 0, NEW t \in Scripts PROVE LineInv(t)' /\ DoneInv(t)'
    <3>1. LineInv(t) /\ DoneInv(t) /\ LineInv(s) /\ DoneInv(s)
      BY <1>0, <1>3, <2>2 DEF PinsInv
    <3>2. CASE t = s
      BY <1>3, <2>2, <3>1, <3>2
    <3>3. CASE t # s
      <4>1. /\ at[t] \notin Open /\ at'[t] = at[t] /\ line'[t] = line[t]
            /\ \A j \in Nat \ {0} :
                 j <= Len(Lines[t]) /\ Configured(Lines[t][j]) => Configured(Lines[t][j])'
        BY <1>3, <2>2, <3>3
      <4>2. at'[t] \notin Open
        BY <4>1
      <4>3. LineInv(t)'
        BY <1>a, <4>2
      <4>4. ASSUME NEW j \in 1 .. Len(Lines[t]), j < line'[t] \/ (j = line'[t] /\ at'[t] = "release")
            PROVE  Configured(Lines[t][j])'
        <5>1. Configured(Lines[t][j])
          BY <3>1, <4>1, <4>4 DEF DoneInv
        <5>2. Len(Lines[t]) \in Nat
          BY PinAssumption, LenProperties
        <5>3. j \in Nat \ {0} /\ j <= Len(Lines[t])
          BY <5>2
        <5>. QED  BY <4>1, <5>1, <5>3
      <4>. QED  BY <4>3, <4>4 DEF DoneInv
    <3>. QED  BY <3>2, <3>3
  <2>. QED  BY <1>3, <2>1, <2>2, <1>q
<1>4. CASE dev_open(s)
  <2>1. /\ UNCHANGED <<line, reading, register, message, mux, mapErrors>>
        /\ ~overlapped' => ~overlapped /\ OpenFiles = {}
        /\ at' = [at EXCEPT ![s] = "copy"]
    BY <1>4 DEF dev_open
  <2>2. at'[s] = "copy" /\ \A t \in Scripts \ {s} : at'[t] = at[t] /\ line'[t] = line[t]
    BY <1>t, <2>1
  <2>3. ~overlapped' => \A t \in Scripts : at[t] \notin Open
    BY <2>1 DEF OpenFiles
  <2>4. \A l : Configured(l) => Configured(l)'
    BY <2>1 DEF Configured
  <2>5. LineInv(s) /\ DoneInv(s) => LineInv(s)' /\ DoneInv(s)'
    BY <2>1, <2>2, <2>4 DEF LineInv, Line, DoneInv
  <2>. QED  BY <1>3, <2>1, <2>2, <2>3, <2>4, <2>5
(* The script's line, while it has the device open.                        *)
<1>. DEFINE n == Line(s)[reading[s]]
<1>h. ASSUME at[s] \in Open
      PROVE  /\ line[s] \in 1 .. Len(Lines[s])
             /\ n \in Numbers /\ Line(s)[1] \in Numbers /\ Line(s)[2] \in Numbers
             /\ ~overlapped => \A t \in Scripts \ {s} : at[t] \notin Open
  <2>1. HasLine(s)
    BY <1>0, <1>h DEF TypeOK
  <2>2. Len(Lines[s]) \in Nat
    BY PinAssumption, LenProperties
  <2>3. line[s] \in 1 .. Len(Lines[s])
    BY <1>t, <2>1, <2>2 DEF HasLine
  <2>4. Line(s)[1] \in Numbers /\ Line(s)[2] \in Numbers
    BY <2>3, LineType DEF Line
  <2>5. n \in Numbers
    BY <1>t, <2>4
  <2>6. ~overlapped => \A t \in Scripts \ {s} : at[t] \notin Open
    BY <1>0, <1>h DEF MappingInv
  <2>. QED  BY <2>3, <2>4, <2>5, <2>6
<1>5. CASE CopyFirst(s)
  <2>1. /\ UNCHANGED <<line, reading, register, mux, mapErrors, overlapped>>
        /\ at[s] = "copy" /\ at' = [at EXCEPT ![s] = "copy2"]
        /\ message' = [message EXCEPT ![1] = Text(n)[1]]
    BY <1>5 DEF CopyFirst, CopyMessage, Line
  <2>2. at'[s] = "copy2" /\ \A t \in Scripts \ {s} : at'[t] = at[t] /\ line'[t] = line[t]
    BY <1>t, <2>1
  <2>3. at[s] \in Open /\ message'[1] = Text(n)[1]
    BY <1>t, <2>1 DEF Open
  <2>4. \A l : Configured(l) => Configured(l)'
    BY <2>1 DEF Configured
  <2>5. LineInv(s) /\ DoneInv(s) => LineInv(s)' /\ DoneInv(s)'
    BY <2>1, <2>2, <2>3, <2>4 DEF LineInv, Line, DoneInv
  <2>. QED  BY <1>3, <1>h, <2>1, <2>2, <2>3, <2>4, <2>5
<1>6. CASE CopySecond(s)
  <2>1. /\ UNCHANGED <<line, reading, register, mux, mapErrors, overlapped>>
        /\ at[s] = "copy2" /\ at' = [at EXCEPT ![s] = "parse"]
        /\ message' = [message EXCEPT ![2] = Text(n)[2]]
    BY <1>6 DEF CopySecond, CopyMessage, Line
  <2>2. at'[s] = "parse" /\ \A t \in Scripts \ {s} : at'[t] = at[t] /\ line'[t] = line[t]
    BY <1>t, <2>1
  <2>3. at[s] \in Open
    BY <2>1 DEF Open
  <2>4. \A l : Configured(l) => Configured(l)'
    BY <2>1 DEF Configured
  <2>5. LineInv(s) => message' = Text(n)
    <3>. SUFFICES ASSUME LineInv(s) PROVE message' = Text(n)
      OBVIOUS
    <3>1. message[1] = Text(n)[1]
      BY <2>1 DEF LineInv
    <3>2. message' = [k \in 1 .. 2 |-> IF k = 2 THEN Text(n)[2] ELSE message[k]]
      BY <1>t, <2>1
    <3>3. message' = << Text(n)[1], Text(n)[2] >>
      BY <3>1, <3>2
    <3>. QED  BY <3>3 DEF Text
  <2>6. LineInv(s) /\ DoneInv(s) => LineInv(s)' /\ DoneInv(s)'
    BY <2>1, <2>2, <2>4, <2>5 DEF LineInv, Line, DoneInv
  <2>. QED  BY <1>3, <1>h, <2>1, <2>2, <2>3, <2>4, <2>6
<1>7. CASE read_message(s)
  <2>1. /\ UNCHANGED <<line, mux, mapErrors, overlapped>> /\ at[s] = "parse"
        /\ register' = [register EXCEPT ![s] = Append(register[s], kstrtol(message))]
        /\ \/ /\ reading[s] = 1 /\ reading' = [reading EXCEPT ![s] = 2]
              /\ at' = [at EXCEPT ![s] = "copy"]
           \/ /\ reading[s] = 2 /\ reading' = reading
              /\ at' = [at EXCEPT ![s] = "check"]
    BY <1>t, <1>7 DEF read_message
  <2>2. at'[s] \in {"copy", "check"} /\ \A t \in Scripts \ {s} : at'[t] = at[t] /\ line'[t] = line[t]
    BY <1>t, <2>1
  <2>3. at[s] \in Open
    BY <2>1 DEF Open
  <2>4. \A l : Configured(l) => Configured(l)'
    BY <2>1 DEF Configured
  <2>5. ASSUME LineInv(s) PROVE LineInv(s)'
    <3>1. n \in Numbers /\ n \in Int
      BY <1>h, <2>3 DEF Numbers
    <3>2. kstrtol(message) = n
      <4>1. message = Text(n)
        BY <2>1, <2>5 DEF LineInv
      <4>. QED  BY <3>1, <4>1, Number
    <3>3. /\ register[s] \in Seq(Int) /\ Len(register[s]) = reading[s] - 1
          /\ register'[s] = Append(register[s], n)
      BY <1>0, <1>t, <2>1, <3>2 DEF TypeOK
    <3>4. CASE reading[s] = 1
      <4>1. Len(register[s]) = 0
        BY <3>3, <3>4
      <4>2. register'[s][1] = n
        BY <3>1, <3>3, <4>1, AppendProperties
      <4>3. reading'[s] = 2 /\ at'[s] = "copy" /\ Line(s)' = Line(s) /\ n = Line(s)[1]
        BY <1>t, <2>1, <3>4 DEF Line
      <4>. QED  BY <4>2, <4>3 DEF LineInv
    <3>5. CASE reading[s] = 2
      <4>1. Len(register[s]) = 1
        BY <3>3, <3>5
      <4>2. register'[s][1] = register[s][1] /\ register'[s][2] = n
        BY <3>1, <3>3, <4>1, AppendProperties
      <4>3. reading'[s] = 2 /\ at'[s] = "check" /\ Line(s)' = Line(s) /\ n = Line(s)[2]
        BY <1>t, <2>1, <3>5 DEF Line
      <4>4. register[s][1] = Line(s)[1]
        BY <2>5, <3>5 DEF LineInv
      <4>. QED  BY <4>2, <4>3, <4>4 DEF LineInv
    <3>. QED  BY <1>t, <3>4, <3>5
  <2>6. DoneInv(s) => DoneInv(s)'
    BY <2>1, <2>2, <2>4 DEF DoneInv
  <2>. QED  BY <1>3, <1>h, <2>1, <2>2, <2>3, <2>4, <2>5, <2>6
<1>8. CASE ParseFails(s)
  <2>1. /\ UNCHANGED <<line, mux, mapErrors, overlapped>> /\ at[s] = "parse"
        /\ message # Text(n) /\ at' = [at EXCEPT ![s] = "release"]
    BY <1>8 DEF ParseFails, Line
  <2>2. at'[s] = "release" /\ \A t \in Scripts \ {s} : at'[t] = at[t] /\ line'[t] = line[t]
    BY <1>t, <2>1
  <2>3. at[s] \in Open
    BY <2>1 DEF Open
  <2>4. ~LineInv(s)
    BY <2>1 DEF LineInv
  <2>5. \A l : Configured(l) => Configured(l)'
    BY <2>1 DEF Configured
  <2>. QED  BY <1>3, <1>h, <2>1, <2>2, <2>3, <2>4, <2>5
<1>9. CASE CheckBounds(s)
  <2>1. /\ UNCHANGED <<line, reading, register, message, mux, mapErrors, overlapped>>
        /\ at[s] = "check"
        /\ at' = [at EXCEPT ![s] = IF register[s][1] >= IO_SIZE \/ register[s][2] >= VALUES
                                     THEN "release" ELSE "write"]
    BY <1>9 DEF CheckBounds
  <2>2. at'[s] \in {"release", "write"} /\ \A t \in Scripts \ {s} : at'[t] = at[t] /\ line'[t] = line[t]
    BY <1>t, <2>1
  <2>3. at[s] \in Open
    BY <2>1 DEF Open
  <2>4. \A l : Configured(l) => Configured(l)'
    BY <2>1 DEF Configured
  <2>5. ASSUME LineInv(s) PROVE at'[s] = "release" => ~InBounds(Line(s))
    <3>1. register[s][1] = Line(s)[1] /\ register[s][2] = Line(s)[2]
      BY <2>1, <2>5 DEF LineInv
    <3>2. /\ Line(s)[1] \in Int /\ Line(s)[2] \in Int /\ IO_SIZE \in Int /\ VALUES \in Int
      BY <1>h, <2>3, PinAssumption DEF Numbers
    <3>3. at'[s] = "release" => Line(s)[1] >= IO_SIZE \/ Line(s)[2] >= VALUES
      BY <1>t, <2>1, <3>1
    <3>. QED  BY <3>2, <3>3 DEF InBounds
  <2>6. LineInv(s) => LineInv(s)'
    BY <2>1, <2>2 DEF LineInv, Line
  <2>7. LineInv(s) /\ DoneInv(s) => DoneInv(s)'
    BY <2>1, <2>2, <2>4, <2>5 DEF DoneInv, Configured, Line
  <2>. QED  BY <1>3, <1>h, <2>1, <2>2, <2>3, <2>4, <2>6, <2>7
<1>10. CASE writeb(s)
  <2>1. /\ UNCHANGED <<line, reading, register, message, mapErrors, overlapped>>
        /\ at[s] = "write" /\ at' = [at EXCEPT ![s] = "release"]
        /\ pinmux_io_base \in mapped => mux' = [mux EXCEPT ![register[s][1]] = register[s][2]]
    BY <1>10 DEF writeb
  <2>2. at'[s] = "release" /\ \A t \in Scripts \ {s} : at'[t] = at[t] /\ line'[t] = line[t]
    BY <1>t, <2>1
  <2>3. at[s] \in Open
    BY <2>1 DEF Open
  <2>4. ASSUME ~overlapped, LineInv(s)
        PROVE  /\ mux' = [mux EXCEPT ![Line(s)[1]] = Line(s)[2]] /\ InBounds(Line(s))
    <3>1. register[s][1] = Line(s)[1] /\ register[s][2] = Line(s)[2]
      BY <2>1, <2>4 DEF LineInv
    <3>2. pinmux_io_base \in mapped
      BY <1>0, <2>3, <2>4 DEF MappingInv
    <3>3. register[s][1] < IO_SIZE /\ register[s][2] < VALUES
      BY <2>1 DEF IInv, BoundsInv
    <3>. QED  BY <2>1, <3>1, <3>2, <3>3 DEF InBounds
  <2>5. ASSUME ~overlapped, LineInv(s), NEW t \in Scripts, NEW j \in 1 .. Len(Lines[t]),
               Configured(Lines[t][j]) \/ (t = s /\ j = line[s])
        PROVE  Configured(Lines[t][j])'
    <3>1. line[s] \in 1 .. Len(Lines[s])
      BY <1>h, <2>3
    <3>2. mux' = [mux EXCEPT ![Lines[s][line[s]][1]] = Lines[s][line[s]][2]]
          /\ InBounds(Lines[s][line[s]])
      BY <2>4, <2>5 DEF Line
    <3>. QED  BY <1>0, <2>5, <3>1, <3>2, WrittenKeeps
  <2>6. LineInv(s) => LineInv(s)'
    BY <2>1, <2>2 DEF LineInv, Line
  <2>7. ~overlapped /\ LineInv(s) /\ DoneInv(s) => DoneInv(s)'
    <3>. SUFFICES ASSUME ~overlapped, LineInv(s), DoneInv(s), NEW j \in 1 .. Len(Lines[s]),
                         j < line[s] \/ j = line[s]
                  PROVE  Configured(Lines[s][j])'
      BY <2>1 DEF DoneInv
    <3>1. Configured(Lines[s][j]) \/ j = line[s]
      BY DEF DoneInv
    <3>. QED  BY <2>5, <3>1
  <2>8. ~overlapped /\ LineInv(s) =>
          \A t \in Scripts, j \in Nat \ {0} :
            j <= Len(Lines[t]) /\ Configured(Lines[t][j]) => Configured(Lines[t][j])'
    <3>. SUFFICES ASSUME ~overlapped, LineInv(s), NEW t \in Scripts, NEW j \in Nat \ {0},
                         j <= Len(Lines[t]), Configured(Lines[t][j])
                  PROVE  Configured(Lines[t][j])'
      OBVIOUS
    <3>1. Len(Lines[t]) \in Nat
      BY PinAssumption, LenProperties
    <3>2. j \in 1 .. Len(Lines[t])
      BY <3>1
    <3>. QED  BY <2>5, <3>2
  <2>9. ~overlapped /\ mapErrors = 0 => LineInv(s)
    BY <1>0 DEF PinsInv
  <2>. QED  BY <1>3, <1>h, <2>1, <2>2, <2>3, <2>6, <2>7, <2>8, <2>9
<1>11. CASE dev_release(s)
  <2>1. /\ UNCHANGED <<mux, mapErrors, overlapped>> /\ at[s] = "release"
        /\ at' = [at EXCEPT ![s] = "pins"] /\ line' = [line EXCEPT ![s] = line[s] + 1]
        /\ reading' = [reading EXCEPT ![s] = 1]
    BY <1>11 DEF dev_release, NextLine
  <2>2. /\ at'[s] = "pins" /\ line'[s] = line[s] + 1 /\ line[s] \in Nat
        /\ \A t \in Scripts \ {s} : at'[t] = at[t] /\ line'[t] = line[t]
    BY <1>t, <2>1
  <2>3. at[s] \in Open /\ at'[s] \notin Open
    BY <2>1, <2>2 DEF Open
  <2>4. \A l : Configured(l) => Configured(l)'
    BY <2>1 DEF Configured
  <2>5. LineInv(s)'
    BY <1>a, <2>3
  <2>6. DoneInv(s) => DoneInv(s)'
    <3>. SUFFICES ASSUME DoneInv(s), NEW j \in 1 .. Len(Lines[s]), j < line[s] + 1
                  PROVE  Configured(Lines[s][j])'
      BY <2>2 DEF DoneInv
    <3>1. j < line[s] \/ j = line[s]
      BY <2>2
    <3>. QED  BY <2>1, <2>4, <3>1 DEF DoneInv
  <2>. QED  BY <1>3, <1>h, <2>1, <2>2, <2>3, <2>4, <2>5, <2>6
<1>. QED  BY <1>1, <1>2, <1>4, <1>5, <1>6, <1>7, <1>8, <1>9, <1>10, <1>11 DEF Step, Device

LEMMA Invariant == Spec => []IInv
<1>1. IInv /\ [Next]_vars => IInv'
  <2>. SUFFICES ASSUME IInv, [Next]_vars PROVE IInv'
    OBVIOUS
  <2>1. ASSUME NEW s \in Scripts, Step(s) PROVE IInv'
    BY <2>1, TypeStep, BoundsStep, MappingStep, LoaderStep, PinsStep DEF IInv
  <2>2. CASE UNCHANGED vars
    <3>1. TypeOK' /\ BoundsInv' /\ MappingInv' /\ LoaderInv'
      BY <2>2 DEF vars, script, tmp, driver, history, IInv, TypeOK, HasLine, BoundsInv,
                  WritesAreInBounds, MappingInv, LoaderInv, Started
    <3>2. PinsInv'
      BY <2>2 DEF vars, script, driver, history, IInv, PinsInv, HasLine, LineInv, Line, DoneInv,
                  Configured
    <3>. QED  BY <3>1, <3>2 DEF IInv
  <2>. QED  BY <2>1, <2>2 DEF Next
<1>. QED  BY InvInit, <1>1, PTL DEF Spec

-----------------------------------------------------------------------------
(* Whatever becomes of the numbers' texts when any number of writers use   *)
(* the one buffer, the driver writes no register and no value it must not. *)
THEOREM NoWriteOutOfBounds == Spec => []WritesAreInBounds
<1>1. IInv => WritesAreInBounds
  BY DEF IInv, BoundsInv
<1>. QED  BY <1>1, Invariant, PTL

(* Any number of writers that do not overlap, and failing opens among them,*)
(* leave no mapping behind and use none that is gone.                      *)
THEOREM MappingsComeBack == Spec => []MappingsAreKept
<1>1. IInv => MappingsAreKept
  <2>. SUFFICES ASSUME IInv, ~overlapped
                PROVE  ~faulted /\ Cardinality(mapped) = Cardinality(OpenFiles)
    BY DEF MappingsAreKept
  <2>. USE DEF IInv, MappingInv
  <2>1. CASE \A s \in Scripts : at[s] \notin Open
    <3>1. OpenFiles = {} /\ mapped = {}
      BY <2>1 DEF OpenFiles
    <3>. QED  BY <3>1
  <2>2. CASE \E s \in Scripts : at[s] \in Open
    <3>1. PICK s \in Scripts : at[s] \in Open
      BY <2>2
    <3>2. OpenFiles = {s} /\ mapped = {pinmux_io_base}
      BY <3>1 DEF OpenFiles
    <3>. QED  BY <3>2, FS_Singleton
  <2>. QED  BY <2>1, <2>2
<1>. QED  BY <1>1, Invariant, PTL

(* A script that has been alone since its cp never fails for a source or a *)
(* loader that is missing, half written or another's: if pasm takes its    *)
(* program, it executes the loader it has built.                           *)
THEOREM AloneTheLoaderRuns == Spec => []LoaderIsExecuted
<1>1. IInv => LoaderIsExecuted
  BY DEF IInv, LoaderInv, LoaderIsExecuted, Built
<1>. QED  BY <1>1, Invariant, PTL

(* For any pin lines: once a script whose writes have all had the device   *)
(* to themselves comes to run its program, and no mapping has failed, each *)
(* of its pins is configured as its line says, unless the line is out of   *)
(* bounds or another line says otherwise.                                  *)
THEOREM PinsAreConfiguredAsSaid == Spec => []PinsAreSet
<1>1. IInv => PinsAreSet
  <2>. SUFFICES ASSUME IInv, ~overlapped, mapErrors = 0,
                       NEW s \in Scripts, at[s] \in {"pasm", "exec", "ran"},
                       NEW k \in 1 .. Len(Lines[s]),
                       InBounds(Lines[s][k]), Undisputed(Lines[s][k])
                PROVE  mux[Lines[s][k][1]] = Lines[s][k][2]
    BY DEF PinsAreSet
  <2>1. ~HasLine(s) /\ DoneInv(s)
    BY DEF IInv, PinsInv
  <2>2. Len(Lines[s]) \in Nat /\ line[s] \in Nat
    BY PinAssumption, LenProperties DEF IInv, TypeOK
  <2>3. k < line[s]
    BY <2>1, <2>2 DEF HasLine
  <2>. QED  BY <2>1, <2>3 DEF DoneInv, Configured
<1>. QED  BY <1>1, Invariant, PTL
-----------------------------------------------------------------------------
(* Pinmux: the registers of the pins, the forms and the post under way.    *)
PinmuxTypeOK ==
  /\ registers \in [Pins -> Configs] /\ enabled \in BOOLEAN
  /\ DOMAIN shown = Pages /\ touched \in [Pages -> SUBSET Pins]
  /\ \A g \in Pages : shown[g] # None => shown[g].mux \in [Pins -> Configs]
  /\ server \in {"idle", "decide", "compile", "load"}
  /\ server = "idle" => post = None /\ pins = NoPins /\ failed = None
  /\ server # "idle" =>
       /\ post \in [page : Pages, mux : [Pins -> Configs], pruss : BOOLEAN,
                    shown : [Pins -> Configs]]
       /\ \E S \in SUBSET Looked : pins \in [S -> Configs]
  /\ \E S \in SUBSET Looked : dtbo.pins \in [S -> Configs]
  /\ dtbo.okay \in BOOLEAN /\ errors \in Nat

(* What a page shows is how the pins are, but for those that others have   *)
(* written since.                                                          *)
ShownInv == \A g \in Pages : shown[g] # None =>
              \A p \in Pins \ touched[g] : registers[p] = shown[g].mux[p]

(* So it is with the form of a post; and of the pins that are looked at    *)
(* those it selects are the only ones that its form would change.          *)
PostInv == server # "idle" =>
  /\ shown[post.page] = None
  /\ \A p \in DOMAIN pins : pins[p] = post.mux[p]
  /\ \A p \in Pins \ touched[post.page] :
       /\ registers[p] = post.shown[p]
       /\ p \in Looked \ DOMAIN pins => registers[p] = post.mux[p]

(* What is loaded is what the post has selected, unless dtc has failed.    *)
OverlayInv ==
  /\ server \in {"decide", "compile"} => failed = None
  /\ server = "load" /\ failed = None => dtbo = Overlay(pins, post.pruss)

PinmuxInv == PinmuxTypeOK /\ ShownInv /\ PostInv /\ OverlayInv

-----------------------------------------------------------------------------
LEMMA PinmuxInvInit == PinmuxInit => PinmuxInv
<1>. SUFFICES ASSUME PinmuxInit PROVE PinmuxInv
  OBVIOUS
<1>1. dtbo.pins = NoPins /\ dtbo.okay = TRUE
  BY DEF PinmuxInit, Overlay
<1>2. NoPins \in [{} -> Configs]
  BY DEF NoPins
<1>3. PinmuxTypeOK
  BY <1>1, <1>2 DEF PinmuxInit, PinmuxTypeOK
<1>. QED  BY <1>3 DEF PinmuxInit, PinmuxInv, ShownInv, PostInv, OverlayInv

(* route_pinmux                                                            *)
LEMMA GetKeepsInv == ASSUME PinmuxInv, NEW g \in Pages, Get(g) PROVE PinmuxInv'
<1>. USE DEF PinmuxInv, PinmuxTypeOK, Get, kernel, route, bounds
<1>1. shown' = [shown EXCEPT ![g] = Table] /\ touched' = [touched EXCEPT ![g] = {}]
  OBVIOUS
<1>2. Table.mux = registers
  BY DEF Table
<1>3. PinmuxTypeOK'
  BY <1>1, <1>2
<1>4. ShownInv'
  <2>. SUFFICES ASSUME NEW h \in Pages, shown'[h] # None,
                       NEW p \in Pins \ touched'[h]
                PROVE  registers'[p] = shown'[h].mux[p]
    BY DEF ShownInv
  <2>1. CASE h = g
    BY <1>1, <1>2, <2>1
  <2>2. CASE h # g
    BY <1>1, <2>2 DEF ShownInv
  <2>. QED  BY <2>1, <2>2
<1>. QED  BY <1>3, <1>4 DEF PostInv, OverlayInv

(* The registers are read once more, so a pin that others have written     *)
(* since the form was made is selected too if it differs now.              *)
LEMMA SelectKeepsInv == ASSUME PinmuxInv, NEW g \in Pages, Select(g) PROVE PinmuxInv'
<1>. USE DEF PinmuxInv, PinmuxTypeOK
<1>1. PICK m \in [Pins -> Configs], enable_pruss \in BOOLEAN :
        post' = [page |-> g, mux |-> m, pruss |-> enable_pruss, shown |-> shown[g].mux]
  BY DEF Select
<1>2. /\ server = "idle" /\ shown[g] # None /\ server' = "decide"
      /\ pins' = Differing(post') /\ shown' = [shown EXCEPT ![g] = None]
      /\ UNCHANGED <<registers, enabled, slot, dtbo, touched, failed, errors>>
  BY DEF Select, kernel, marks
<1>3. /\ post'.page = g /\ post'.mux = m /\ post'.pruss = enable_pruss
      /\ post'.shown = shown[g].mux
  BY <1>1
<1>4. pins' = [p \in {q \in Looked : m[q] # registers[q]} |-> m[p]]
  BY <1>2, <1>3 DEF Differing
<1>5. Looked \subseteq Pins
  BY PinmuxAssumption DEF Looked, Pins
<1>6. PinmuxTypeOK'
  <2>0. \A h \in Pages : shown'[h] # None => shown'[h] = shown[h]
    BY <1>2
  <2>1. post' \in [page : Pages, mux : [Pins -> Configs], pruss : BOOLEAN,
                   shown : [Pins -> Configs]]
    BY <1>1, <1>2
  <2>2. \E S \in SUBSET Looked : pins' \in [S -> Configs]
    <3>. DEFINE S == {q \in Looked : m[q] # registers[q]}
    <3>1. S \in SUBSET Looked /\ \A q \in S : m[q] \in Configs
      BY <1>1, <1>5
    <3>2. pins' \in [S -> Configs]
      BY <1>4, <3>1
    <3>. QED  BY <3>1, <3>2
  <2>. QED  BY <1>2, <2>0, <2>1, <2>2
<1>7. ShownInv'
  BY <1>2 DEF ShownInv
<1>8. PostInv'
  <2>1. \A p \in DOMAIN pins' : pins'[p] = post'.mux[p]
    BY <1>3, <1>4
  <2>2. \A p \in Looked \ DOMAIN pins' : registers'[p] = post'.mux[p]
    BY <1>2, <1>3, <1>4
  <2>3. \A p \in Pins \ touched'[g] : registers'[p] = post'.shown[p]
    BY <1>2, <1>3 DEF ShownInv
  <2>. QED  BY <1>2, <1>3, <2>1, <2>2, <2>3 DEF PostInv
<1>9. OverlayInv'
  BY <1>2 DEF OverlayInv
<1>. QED  BY <1>6, <1>7, <1>8, <1>9

(* An answer that leaves the registers alone.                              *)
LEMMA AnswerKeepsInv ==
  ASSUME PinmuxInv, Answer, UNCHANGED <<registers, dtbo, shown, touched>>,
         enabled' \in BOOLEAN, errors' \in Nat
  PROVE  PinmuxInv'
BY DEF PinmuxInv, PinmuxTypeOK, ShownInv, PostInv, OverlayInv, Answer

LEMMA UnloadKeepsInv == ASSUME PinmuxInv, Unload PROVE PinmuxInv'
BY DEF PinmuxInv, PinmuxTypeOK, ShownInv, PostInv, OverlayInv, Unload, bounds, marks

LEMMA CompileKeepsInv ==
  ASSUME PinmuxInv, CompileOverlay \/ CompileFails PROVE PinmuxInv'
<1>1. CASE CompileOverlay
  <2>. USE DEF PinmuxInv, PinmuxTypeOK, ShownInv, PostInv, OverlayInv, bounds, marks
  <2>1. dtbo' = Overlay(pins, post.pruss) /\ dtbo'.pins = pins /\ dtbo'.okay = post.pruss
    BY <1>1 DEF CompileOverlay, Overlay
  <2>2. server = "compile" /\ server' = "load"
    BY <1>1 DEF CompileOverlay
  <2>3. PinmuxTypeOK'
    BY <1>1, <2>1, <2>2 DEF CompileOverlay
  <2>. QED  BY <1>1, <2>1, <2>2, <2>3 DEF CompileOverlay
<1>2. CASE CompileFails
  <2>1. None # "dtc"
    BY PinmuxAssumption
  <2>2. UNCHANGED <<registers, enabled, slot, dtbo, post, pins, shown, touched>>
    BY <1>2 DEF CompileFails, kernel
  <2>3. /\ server = "compile" /\ server' = "load" /\ failed' = "dtc"
        /\ errors' = errors + 1
    BY <1>2 DEF CompileFails
  <2>4. PinmuxTypeOK'
    <3>. USE DEF PinmuxInv, PinmuxTypeOK
    <3>1. /\ errors' \in Nat /\ server' # "idle"
          /\ server' \in {"idle", "decide", "compile", "load"}
      BY <2>3
    <3>2. /\ \E S \in SUBSET Looked : dtbo'.pins \in [S -> Configs]
          /\ dtbo'.okay \in BOOLEAN
      BY <2>2
    <3>3. \A g \in Pages : shown'[g] # None => shown'[g].mux \in [Pins -> Configs]
      BY <2>2
    <3>4. /\ post' \in [page : Pages, mux : [Pins -> Configs], pruss : BOOLEAN,
                        shown : [Pins -> Configs]]
          /\ \E S \in SUBSET Looked : pins' \in [S -> Configs]
      BY <2>2, <2>3
    <3>. QED  BY <2>2, <3>1, <3>2, <3>3, <3>4
  <2>5. ShownInv' /\ PostInv'
    BY <2>2, <2>3 DEF PinmuxInv, ShownInv, PostInv
  <2>. QED  BY <2>1, <2>3, <2>4, <2>5 DEF PinmuxInv, OverlayInv
<1>. QED  BY <1>1, <1>2

(* The pins an overlay has configured are written by another for every     *)
(* page but the one that has posted, which shows no table now.             *)
LEMMA LoadKeepsInv == ASSUME PinmuxInv, Load PROVE PinmuxInv'
<1>. USE DEF PinmuxInv, PinmuxTypeOK, Load, Answer, bounds
<1>. DEFINE applied == IF dtbo.okay THEN DOMAIN dtbo.pins ELSE {}
<1>1. /\ registers' = [p \in Pins |-> IF p \in applied THEN dtbo.pins[p]
                                                       ELSE registers[p]]
      /\ touched' = [g \in Pages |-> IF g = post.page THEN touched[g]
                                                      ELSE touched[g] \cup applied]
  OBVIOUS
<1>2. Looked \subseteq Pins
  BY PinmuxAssumption DEF Looked, Pins
<1>3. applied \subseteq Pins /\ \A p \in applied : dtbo.pins[p] \in Configs
  BY <1>2
<1>4. PinmuxTypeOK'
  <2>1. registers' \in [Pins -> Configs] /\ touched' \in [Pages -> SUBSET Pins]
    BY <1>1, <1>3
  <2>. QED  BY <2>1
<1>5. ShownInv'
  <2>. SUFFICES ASSUME NEW h \in Pages, shown'[h] # None,
                       NEW p \in Pins \ touched'[h]
                PROVE  registers'[p] = shown'[h].mux[p]
    BY DEF ShownInv
  <2>1. h # post.page
    BY DEF PostInv
  <2>2. p \notin applied /\ p \in Pins \ touched[h]
    BY <1>1, <2>1
  <2>. QED  BY <1>1, <2>2 DEF ShownInv
<1>. QED  BY <1>4, <1>5 DEF PostInv, OverlayInv

LEMMA WriteKeepsInv == ASSUME PinmuxInv, ForeignWrite PROVE PinmuxInv'
<1>. USE DEF PinmuxInv, PinmuxTypeOK
<1>1. PICK p \in Pins, c \in Configs :
        /\ registers' = [registers EXCEPT ![p] = c]
        /\ touched' = [g \in Pages |-> touched[g] \cup {p}]
  BY DEF ForeignWrite
<1>2. UNCHANGED <<enabled, slot, dtbo, server, post, pins, shown, failed, errors>>
  BY DEF ForeignWrite, route
<1>3. PinmuxTypeOK'
  <2>1. registers' \in [Pins -> Configs] /\ touched' \in [Pages -> SUBSET Pins]
    BY <1>1
  <2>. QED  BY <1>2, <2>1
<1>4. \A g \in Pages : \A q \in Pins \ touched'[g] :
        q \in Pins \ touched[g] /\ registers'[q] = registers[q]
  BY <1>1
<1>5. ShownInv'
  BY <1>2, <1>4 DEF ShownInv
<1>6. PostInv'
  BY <1>2, <1>4 DEF PostInv
<1>. QED  BY <1>2, <1>3, <1>5, <1>6 DEF OverlayInv

LEMMA PinmuxInvariant == PinmuxSpec => []PinmuxInv
<1>1. PinmuxInv /\ [PinmuxNext]_pinmuxVars => PinmuxInv'
  <2>. SUFFICES ASSUME PinmuxInv, [PinmuxNext]_pinmuxVars PROVE PinmuxInv'
    OBVIOUS
  <2>1. ASSUME NEW g \in Pages, Get(g) PROVE PinmuxInv'
    BY <2>1, GetKeepsInv
  <2>2. ASSUME NEW g \in Pages, Select(g) PROVE PinmuxInv'
    BY <2>2, SelectKeepsInv
  <2>3. CASE NothingToDo \/ LoadFails
    <3>1. Answer /\ UNCHANGED <<registers, enabled, dtbo, shown, touched>>
      BY <2>3 DEF NothingToDo, LoadFails, kernel
    <3>2. enabled' \in BOOLEAN /\ errors' \in Nat
      BY <2>3, <3>1 DEF NothingToDo, LoadFails, bounds, PinmuxInv, PinmuxTypeOK
    <3>. QED  BY <3>1, <3>2, AnswerKeepsInv
  <2>4. CASE Unload
    BY <2>4, UnloadKeepsInv
  <2>5. CASE CompileOverlay \/ CompileFails
    BY <2>5, CompileKeepsInv
  <2>6. CASE Load
    BY <2>6, LoadKeepsInv
  <2>7. CASE ForeignWrite
    BY <2>7, WriteKeepsInv
  <2>8. CASE UNCHANGED pinmuxVars
    BY <2>8 DEF PinmuxInv, PinmuxTypeOK, ShownInv, PostInv, OverlayInv, pinmuxVars,
                kernel, route, bounds, marks
  <2>. QED  BY <2>1, <2>2, <2>3, <2>4, <2>5, <2>6, <2>7, <2>8 DEF PinmuxNext
<1>. QED  BY <1>1, PinmuxInvInit, PTL DEF PinmuxSpec

-----------------------------------------------------------------------------
(* An answer is given by three steps, one of which is a failure.           *)
LEMMA Answers ==
  ASSUME PinmuxInv, PinmuxNext, Answered
  PROVE  server # "idle" /\ (NothingToDo \/ Load \/ LoadFails)
BY DEF PinmuxInv, PinmuxTypeOK, Answered, PinmuxNext, Get, Select, Unload,
       CompileOverlay, CompileFails, ForeignWrite, route

(* A pin of the form that nobody else has written is set as the form says, *)
(* or as it was, if the form says that.                                    *)
LEMMA LoadApplies ==
  ASSUME PinmuxInv, Load, failed = None
  PROVE  /\ enabled' = post.pruss
         /\ \A p \in Pins \ ByOthers :
              registers'[p] = IF post.pruss /\ p \in DOMAIN pins THEN post.mux[p]
                                                                 ELSE registers[p]
         /\ ByOthers = touched[post.page]
<1>1. dtbo.pins = pins /\ dtbo.okay = post.pruss
  BY DEF PinmuxInv, OverlayInv, Load, Overlay
<1>2. post.page \in Pages /\ \A p \in DOMAIN pins : pins[p] = post.mux[p]
  BY DEF PinmuxInv, PinmuxTypeOK, PostInv, Load
<1>. QED  BY <1>1, <1>2 DEF Load, ByOthers

(* A post that meets no failure leaves the board as its form shows it,     *)
(* however pins are written by others meanwhile, for any number of pages,  *)
(* posts, pins and failures of other posts.                                *)
THEOREM FormsAreApplied == PinmuxSpec => FormIsApplied
<1>1. PinmuxInv /\ [PinmuxNext]_pinmuxVars =>
        [Answered /\ failed = None /\ errors' = errors =>
           /\ enabled' = post.pruss
           /\ enabled' => \A p \in Looked \ ByOthers :
                            registers'[p] = post.mux[p]]_pinmuxVars
  <2>. SUFFICES ASSUME PinmuxInv, PinmuxNext, Answered, failed = None, errors' = errors
                PROVE  /\ enabled' = post.pruss
                       /\ enabled' => \A p \in Looked \ ByOthers :
                                        registers'[p] = post.mux[p]
    OBVIOUS
  <2>1. Looked \subseteq Pins
    BY PinmuxAssumption DEF Looked, Pins
  <2>2. server # "idle" /\ (NothingToDo \/ Load \/ LoadFails)
    BY Answers
  <2>3. \A p \in (Looked \ touched[post.page]) \ DOMAIN pins : registers[p] = post.mux[p]
    BY <2>1, <2>2 DEF PinmuxInv, PostInv
  <2>4. CASE NothingToDo
    BY <2>3, <2>4 DEF NothingToDo, AnythingDiffers, kernel, ByOthers
  <2>5. CASE Load
    BY <2>1, <2>3, <2>5, LoadApplies
  <2>6. CASE LoadFails
    BY <2>6 DEF LoadFails, PinmuxInv, PinmuxTypeOK
  <2>. QED  BY <2>2, <2>4, <2>5, <2>6
<1>. QED  BY <1>1, PinmuxInvariant, PTL DEF FormIsApplied, PinmuxSpec

(* A pin the user has not changed, and nobody else, is as the page showed  *)
(* it after every answer, that to a post that could not be loaded too,     *)
(* unless dtc has failed.                                                  *)
THEOREM OtherPinsAreKept == PinmuxSpec => OthersAreKept
<1>1. PinmuxInv /\ [PinmuxNext]_pinmuxVars =>
        [Answered /\ failed = None =>
           \A p \in Pins \ ByOthers :
             post.mux[p] = post.shown[p] => registers'[p] = post.shown[p]]_pinmuxVars
  <2>. SUFFICES ASSUME PinmuxInv, PinmuxNext, Answered, failed = None,
                       NEW p \in Pins \ ByOthers, post.mux[p] = post.shown[p]
                PROVE  registers'[p] = post.shown[p]
    OBVIOUS
  <2>1. server # "idle" /\ (NothingToDo \/ Load \/ LoadFails)
    BY Answers
  <2>2. p \in Pins \ touched[post.page] => registers[p] = post.shown[p]
    BY <2>1 DEF PinmuxInv, PostInv
  <2>3. CASE NothingToDo \/ LoadFails
    BY <2>2, <2>3 DEF NothingToDo, LoadFails, kernel, ByOthers
  <2>4. CASE Load
    BY <2>2, <2>4, LoadApplies
  <2>. QED  BY <2>1, <2>3, <2>4
<1>. QED  BY <1>1, PinmuxInvariant, PTL DEF OthersAreKept, PinmuxSpec
=============================================================================
