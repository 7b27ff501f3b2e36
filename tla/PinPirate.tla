----------------------------- MODULE PinPirate -----------------------------
(***************************************************************************)
(* Cyclops IDE/term-proj/scripts/compile-pru.sh, which each PRU's worker   *)
(* runs for a program, and driver/pin-pirate.c, the kernel module it       *)
(* writes the program's pin lines to, one open, write and release of       *)
(* /dev/pinpirate for each line.  Two workers run their scripts at any     *)
(* time.  They share the directory _tmp, where each script builds the      *)
(* loader anew, and in the module the mapping of the pin registers and the *)
(* buffer that a number's text is copied to.  The kernel module is loaded; *)
(* without it a script passes its pin lines over.                          *)
(*                                                                         *)
(* A number's text is two characters, copied one at a time, so that the    *)
(* texts of two callers can mix.  The module's calls are system calls of   *)
(* different processes and interleave anywhere.                            *)
(***************************************************************************)
EXTENDS Integers, Sequences, FiniteSets

CONSTANTS Scripts,       \* the PRUs whose worker runs a script
          Lines,         \* Lines[s]: the pin lines of the program, <<offset, value>>
          Digit,         \* 0 .. base - 1: the characters of a number's text
          IO_SIZE,       \* PINMUX_IO_SIZE: where the mapped registers end
          VALUES,        \* 128: register values are below it
          MaxMapErrors,  \* bound: how often ioremap fails
          Nothing

Base == Cardinality(Digit)
Numbers == 0 .. Base * Base - 1
Text(n) == <<n \div Base, n % Base>>
kstrtol(text) == Base * text[1] + text[2]

ASSUME PinAssumption ==
  /\ Base \in Nat \ {0} /\ Digit = 0 .. Base - 1
  /\ IO_SIZE \in Numbers /\ VALUES \in Numbers
  /\ Lines \in [Scripts -> Seq(Numbers \X Numbers)] /\ MaxMapErrors \in Nat
  /\ Nothing \notin Numbers \cup Digit

VARIABLES
  at,             \* where each script is
  line,           \* the pin line it is at
  reading,        \* the number its dev_write reads: 1 the offset, 2 the value
  register,       \* the numbers it has read
  source,         \* _tmp/pru_loader.c: "none", "partial" or "whole"
  loader,         \* _tmp/pru_loader: who writes or wrote it, and how far it is
  pinmux_io_base, \* the module's mapping
  mapped,         \* the mappings there are
  message,        \* the module's buffer
  mux,            \* the pin registers
  mapErrors,
  faulted,        \* a write went through a mapping that is gone
  overlapped,     \* /dev/pinpirate was opened while it was open
  crossed         \* a script was started while another was not done building

script == <<at, line, reading, register>>
tmp == <<source, loader>>
driver == <<pinmux_io_base, mapped, message, mux, mapErrors, faulted>>
history == <<overlapped, crossed>>
vars == <<script, tmp, driver, history>>

Open == {"copy", "copy2", "parse", "check", "write", "release"}
OpenFiles == {s \in Scripts : at[s] \in Open}

(* _tmp may be fresh or hold what an earlier script built.                 *)
Init ==
  /\ at = [s \in Scripts |-> "cp"] /\ line = [s \in Scripts |-> 1]
  /\ reading = [s \in Scripts |-> 1] /\ register = [s \in Scripts |-> << >>]
  /\ \/ source = "none" /\ loader = [by |-> Nothing, is |-> "none"]
     \/ source = "whole" /\ loader = [by |-> Nothing, is |-> "whole"]
  /\ pinmux_io_base = Nothing /\ mapped = {} /\ message = <<0, 0>>
  /\ mux = [o \in Numbers |-> Nothing] /\ mapErrors = 0 /\ faulted = FALSE
  /\ overlapped = FALSE /\ crossed = FALSE

GoTo(s, place) == at' = [at EXCEPT ![s] = place]

-----------------------------------------------------------------------------
(* Building the loader.                                                    *)

Started(s) == at[s] \notin {"cp", "ran", "failed", "refused"}

(* cp opens and truncates the copy ...                                     *)
CopySource(s) ==
  /\ at[s] = "cp"
  /\ source' = "partial" /\ GoTo(s, "cp2")
  /\ crossed' = (crossed \/ \E other \in Scripts \ {s} : Started(other))
  /\ UNCHANGED <<line, reading, register, loader, driver, overlapped>>

(* Mutant: gcc does not wait for cp.                                       *)
CopyInBackground(s) ==
  /\ at[s] = "cp2"
  /\ GoTo(s, "cc")
  /\ UNCHANGED <<line, reading, register, tmp, driver, history>>

(* ... and writes it.                                                      *)
CopyDone(s) ==
  /\ at[s] = "cp2"
  /\ source' = "whole" /\ GoTo(s, "cc")
  /\ UNCHANGED <<line, reading, register, loader, driver, history>>

(* gcc reads the copy; half a file does not compile and the script exits.  *)
Compile(s) ==
  /\ at[s] = "cc"
  /\ GoTo(s, IF source = "whole" THEN "ld" ELSE "failed")
  /\ UNCHANGED <<line, reading, register, tmp, driver, history>>

(* The linker unlinks the old loader and writes a new one ...              *)
Link(s) ==
  /\ at[s] = "ld"
  /\ loader' = [by |-> s, is |-> "partial"] /\ GoTo(s, "ld2")
  /\ UNCHANGED <<line, reading, register, source, driver, history>>

(* ... of which nothing is seen if another linker has unlinked it since.   *)
LinkDone(s) ==
  /\ at[s] = "ld2"
  /\ loader' = IF loader.by = s THEN [loader EXCEPT !.is = "whole"] ELSE loader
  /\ GoTo(s, "pins")
  /\ UNCHANGED <<line, reading, register, source, driver, history>>

-----------------------------------------------------------------------------
(* The pin lines: echo line > /dev/pinpirate.                              *)

HasLine(s) == line[s] <= Len(Lines[s])
NextLine(s) == line' = [line EXCEPT ![s] = @ + 1]

Mapping == CHOOSE m \in 1 .. Cardinality(mapped) + 1 : m \notin mapped

(* Mutant: a mapping that is there is not made again.                      *)
OpenMapsOnce(s) ==
  /\ at[s] = "pins" /\ HasLine(s)
  /\ overlapped' = (overlapped \/ OpenFiles # {})
  /\ IF pinmux_io_base = Nothing
       THEN pinmux_io_base' = Mapping /\ mapped' = mapped \cup {Mapping}
       ELSE UNCHANGED <<pinmux_io_base, mapped>>
  /\ GoTo(s, "copy")
  /\ UNCHANGED <<line, reading, register, tmp, message, mux, mapErrors, faulted, crossed>>

(* dev_open maps the registers; the mapping of an open before is forgotten.*)
dev_open(s) ==
  /\ at[s] = "pins" /\ HasLine(s)
  /\ overlapped' = (overlapped \/ OpenFiles # {})
  /\ pinmux_io_base' = Mapping /\ mapped' = mapped \cup {Mapping}
  /\ GoTo(s, "copy")
  /\ UNCHANGED <<line, reading, register, tmp, message, mux, mapErrors, faulted, crossed>>

(* ioremap fails: echo cannot open the device and xargs goes on.           *)
OpenFails(s) ==
  /\ at[s] = "pins" /\ HasLine(s) /\ mapErrors < MaxMapErrors
  /\ overlapped' = (overlapped \/ OpenFiles # {})
  /\ pinmux_io_base' = Nothing /\ mapErrors' = mapErrors + 1
  /\ NextLine(s)
  /\ UNCHANGED <<at, reading, register, tmp, mapped, message, mux, faulted, crossed>>

(* read_message copies a number's text to the buffer ...                   *)
CopyMessage(s, k, next) ==
  /\ message' = [message EXCEPT ![k] = Text(Lines[s][line[s]][reading[s]])[k]]
  /\ GoTo(s, next)
  /\ UNCHANGED <<line, reading, register, tmp, pinmux_io_base, mapped, mux, mapErrors,
                 faulted, history>>
CopyFirst(s) == at[s] = "copy" /\ CopyMessage(s, 1, "copy2")
CopySecond(s) == at[s] = "copy2" /\ CopyMessage(s, 2, "parse")

(* Mutant: the second number is looked for where the first one is.         *)
ParseFirstAgain(s) ==
  /\ at[s] = "parse"
  /\ register' = [register EXCEPT ![s] = Append(@, IF reading[s] = 1 THEN kstrtol(message)
                                                   ELSE @[1])]
  /\ IF reading[s] = 1 THEN reading' = [reading EXCEPT ![s] = 2] /\ GoTo(s, "copy")
                       ELSE UNCHANGED reading /\ GoTo(s, "check")
  /\ UNCHANGED <<line, tmp, driver, history>>

(* ... and converts what the buffer then holds; first the offset, then the *)
(* value.                                                                  *)
read_message(s) ==
  /\ at[s] = "parse"
  /\ register' = [register EXCEPT ![s] = Append(@, kstrtol(message))]
  /\ IF reading[s] = 1 THEN reading' = [reading EXCEPT ![s] = 2] /\ GoTo(s, "copy")
                       ELSE UNCHANGED reading /\ GoTo(s, "check")
  /\ UNCHANGED <<line, tmp, driver, history>>

(* A mixture of two texts need not be a number.                            *)
ParseFails(s) ==
  /\ at[s] = "parse" /\ message # Text(Lines[s][line[s]][reading[s]])
  /\ GoTo(s, "release")
  /\ UNCHANGED <<line, reading, register, tmp, driver, history>>

(* Mutant: only the value is looked at.                                    *)
CheckValueOnly(s) ==
  /\ at[s] = "check"
  /\ GoTo(s, IF register[s][2] >= VALUES THEN "release" ELSE "write")
  /\ UNCHANGED <<line, reading, register, tmp, driver, history>>

(* An offset or a value out of bounds is logged, and the write succeeds.   *)
CheckBounds(s) ==
  /\ at[s] = "check"
  /\ GoTo(s, IF register[s][1] >= IO_SIZE \/ register[s][2] >= VALUES
               THEN "release" ELSE "write")
  /\ UNCHANGED <<line, reading, register, tmp, driver, history>>

(* writeb: through a mapping that is gone it is a fault in the kernel.     *)
writeb(s) ==
  /\ at[s] = "write"
  /\ IF pinmux_io_base \in mapped
       THEN mux' = [mux EXCEPT ![register[s][1]] = register[s][2]] /\ UNCHANGED faulted
       ELSE faulted' = TRUE /\ UNCHANGED mux
  /\ GoTo(s, "release")
  /\ UNCHANGED <<line, reading, register, tmp, pinmux_io_base, mapped, message,
                 mapErrors, history>>

(* dev_release unmaps what is now the mapping, whoever's open made it.     *)
dev_release(s) ==
  /\ at[s] = "release"
  /\ mapped' = mapped \ {pinmux_io_base}
  /\ NextLine(s) /\ GoTo(s, "pins")
  /\ reading' = [reading EXCEPT ![s] = 1] /\ register' = [register EXCEPT ![s] = << >>]
  /\ UNCHANGED <<tmp, pinmux_io_base, message, mux, mapErrors, faulted, history>>

-----------------------------------------------------------------------------
(* pasm, which works on files of this PRU's own, and the loader.           *)

PinsDone(s) ==
  /\ at[s] = "pins" /\ ~HasLine(s)
  /\ GoTo(s, "pasm")
  /\ UNCHANGED <<line, reading, register, tmp, driver, history>>

Assemble(s) ==
  /\ at[s] = "pasm"
  /\ GoTo(s, "exec")
  /\ UNCHANGED <<line, reading, register, tmp, driver, history>>

(* The program is not one pasm accepts, as the user has edited it or as    *)
(* the compiler has written it: the script exits, its pins configured.     *)
AssembleFails(s) ==
  /\ at[s] = "pasm"
  /\ GoTo(s, "refused")
  /\ UNCHANGED <<line, reading, register, tmp, driver, history>>

(* A loader that is not whole, or not there, cannot be executed.           *)
RunLoader(s) ==
  /\ at[s] = "exec"
  /\ GoTo(s, IF loader.is = "whole" THEN "ran" ELSE "failed")
  /\ UNCHANGED <<line, reading, register, tmp, driver, history>>

-----------------------------------------------------------------------------
Build(s) == CopySource(s) \/ CopyDone(s) \/ Compile(s) \/ Link(s) \/ LinkDone(s)
Device(s) == \/ dev_open(s) \/ OpenFails(s) \/ CopyFirst(s) \/ CopySecond(s)
             \/ read_message(s) \/ ParseFails(s) \/ CheckBounds(s) \/ writeb(s)
             \/ dev_release(s)
Pasm(s) == Assemble(s) \/ AssembleFails(s)
Step(s) == Build(s) \/ Device(s) \/ PinsDone(s) \/ Pasm(s) \/ RunLoader(s)

Next == \E s \in Scripts : Step(s)

Spec == Init /\ [][Next]_vars

-----------------------------------------------------------------------------
(* Whatever two writers do to each other's text, no register outside the   *)
(* mapped ones is written and none gets a value of more than seven bits:   *)
(* the bounds are tested on the numbers that are used.                     *)
WritesAreInBounds ==
  \A o \in Numbers : mux[o] # Nothing => o < IO_SIZE /\ mux[o] < VALUES

(* As long as no two scripts had the device open at once, at any point of  *)
(* their runs, every write goes through a mapping that is there, also      *)
(* after an open that failed, and every mapping is given back ...          *)
MappingsAreKept ==
  ~overlapped => ~faulted /\ Cardinality(mapped) = Cardinality(OpenFiles)

(* ... and when a script comes to assemble and run its program, the pins   *)
(* of the program are configured as its lines say, those apart whose       *)
(* offset or value is out of bounds, which are passed over in silence, and *)
(* those that a line of this or of another program gives another value.    *)
InBounds(l) == l[1] < IO_SIZE /\ l[2] < VALUES
Undisputed(l) ==
  \A t \in Scripts : \A j \in 1 .. Len(Lines[t]) :
    InBounds(Lines[t][j]) /\ Lines[t][j][1] = l[1] => Lines[t][j][2] = l[2]
PinsAreSet ==
  ~overlapped /\ mapErrors = 0 =>
    \A s \in Scripts : at[s] \in {"pasm", "exec", "ran"} =>
      \A k \in 1 .. Len(Lines[s]) :
        InBounds(Lines[s][k]) /\ Undisputed(Lines[s][k]) =>
          mux[Lines[s][k][1]] = Lines[s][k][2]

(* A script that nobody has started another beside, between its cp and the *)
(* execution of the loader, and whose program pasm accepts, executes the   *)
(* loader it has built itself: what was left in _tmp by scripts before,    *)
(* those that pasm has ended among them, is no hindrance.                  *)
LoaderIsExecuted ==
  ~crossed => \A s \in Scripts :
    at[s] # "failed" /\ (at[s] = "exec" => loader = [by |-> s, is |-> "whole"])
=============================================================================
