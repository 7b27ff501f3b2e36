------------------------------- MODULE Pinmux -------------------------------
(***************************************************************************)
(* The pinmux web server, web/start.py: a form that shows how each pin is  *)
(* multiplexed, and a route that makes an overlay of the pins that differ, *)
(* compiles it and loads it through the cape manager.  The server handles  *)
(* one request at a time; between its steps, and while a form is open,     *)
(* others change pins: other forms, and the IDE through /dev/pinpirate.    *)
(***************************************************************************)
EXTENDS Integers, FiniteSets

CONSTANTS LastPin,     \* the pins the form has fields for are 1 .. LastPin, 46
          Configs,     \* values of a pin's register
          Pages,       \* browsers
          MaxPosts, MaxWrites, MaxErrors,  \* bounds: posts, foreign writes, failures
          None

ASSUME PinmuxAssumption ==
  /\ LastPin \in Nat \ {0} /\ Configs # {} /\ None \notin Configs \cup {"dtc"}
  /\ MaxPosts \in Nat /\ MaxWrites \in Nat /\ MaxErrors \in Nat

VARIABLES
  registers,  \* of the pins
  enabled,    \* pruss_enabled(): there is a uio device of the PRU subsystem
  slot,       \* the overlay that is loaded, None if none is
  dtbo,       \* the compiled overlay in /lib/firmware
  shown,      \* the table a page's form was made of, None while it waits for one
  server,     \* where the route of the post is
  post,       \* the form it was sent, by which page, and what that was made of
  pins,       \* the pins it has selected, with their new configuration
  posts, writes, errors,   \* how many there were
  touched,    \* history: pins others have written since the page's form was made
  failed      \* history: the command of the post that has failed, None if none has

route == <<server, post, pins>>
kernel == <<registers, enabled, slot, dtbo>>
bounds == <<posts, writes, errors>>
marks == <<touched, failed>>
pinmuxVars == <<kernel, shown, route, bounds, marks>>

Pins == 1 .. LastPin
Overlay(selected, okay) == [pins |-> selected, okay |-> okay]
NoPins == [p \in {} |-> None]
Table == [mux |-> registers, pruss |-> enabled]

(* The board has booted; activate-pruss.sh may have switched the PRU       *)
(* subsystem on, by an overlay of the same name.                           *)
PinmuxInit ==
  /\ registers \in [Pins -> Configs] /\ enabled \in BOOLEAN
  /\ dtbo = Overlay(NoPins, TRUE)
  /\ slot = IF enabled THEN dtbo ELSE None
  /\ shown = [g \in Pages |-> None]
  /\ server = "idle" /\ post = None /\ pins = NoPins
  /\ posts = 0 /\ writes = 0 /\ errors = 0
  /\ touched = [g \in Pages |-> {}] /\ failed = None

-----------------------------------------------------------------------------
(* route_pinmux: read_pin_status, and the table as a form.                 *)
Get(g) ==
  /\ server = "idle" /\ shown[g] = None
  /\ shown' = [shown EXCEPT ![g] = Table]
  /\ touched' = [touched EXCEPT ![g] = {}]
  /\ UNCHANGED <<kernel, route, bounds, failed>>

-----------------------------------------------------------------------------
(* route_pinmux_post.                                                      *)

(* for i in range(1, 46)                                                   *)
Looked == 1 .. LastPin - 1

(* Mutant: the list of pins is not made anew for each post.                *)
PinsAccumulate(f) ==
  [p \in {q \in Looked : f.mux[q] # registers[q]} \cup DOMAIN pins |->
     IF p \in Looked /\ f.mux[p] # registers[p] THEN f.mux[p] ELSE pins[p]]

(* The pins whose fields differ from the registers as they are now, not    *)
(* from the table the form was made of.                                    *)
Differing(f) == [p \in {q \in Looked : f.mux[q] # registers[q]} |-> f.mux[p]]

(* The user has changed the form and applies it: read_pin_status again and *)
(* select.  The page waits for the answer.                                 *)
Select(g) ==
  /\ server = "idle" /\ shown[g] # None /\ posts < MaxPosts
  /\ \E m \in [Pins -> Configs], enable_pruss \in BOOLEAN :
       post' = [page |-> g, mux |-> m, pruss |-> enable_pruss, shown |-> shown[g].mux]
  /\ pins' = Differing(post')
  /\ server' = "decide"
  /\ posts' = posts + 1
  /\ shown' = [shown EXCEPT ![g] = None]
  /\ UNCHANGED <<kernel, writes, errors, marks>>

Answer == /\ server' = "idle" /\ post' = None /\ pins' = NoPins /\ failed' = None

(* Mutant: only pins count as a change.                                    *)
PinsDiffer == DOMAIN pins # {}

(* if pins or pruss_enabled() != enable_pruss                              *)
AnythingDiffers == DOMAIN pins # {} \/ enabled # post.pruss

NothingToDo ==
  /\ server = "decide" /\ ~AnythingDiffers
  /\ Answer
  /\ UNCHANGED <<kernel, shown, bounds, touched>>

(* unload_slot: the PRU subsystem goes, the registers keep their values.   *)
Unload ==
  /\ server = "decide" /\ AnythingDiffers
  /\ slot' = None /\ enabled' = FALSE
  /\ server' = "compile"
  /\ UNCHANGED <<registers, dtbo, post, pins, shown, bounds, marks>>

(* Mutant: the pins of the overlay that was loaded stay in the new one.    *)
CompileWithOldPins ==
  /\ server = "compile"
  /\ dtbo' = Overlay([p \in DOMAIN pins \cup DOMAIN dtbo.pins |->
                       IF p \in DOMAIN pins THEN pins[p] ELSE dtbo.pins[p]], post.pruss)
  /\ server' = "load"
  /\ UNCHANGED <<registers, enabled, slot, post, pins, shown, bounds, marks>>

(* Write the overlay's source and call dtc ...                             *)
CompileOverlay ==
  /\ server = "compile"
  /\ dtbo' = Overlay(pins, post.pruss)
  /\ server' = "load"
  /\ UNCHANGED <<registers, enabled, slot, post, pins, shown, bounds, marks>>

(* ... whose failure is not noticed: what it made the last time is there.  *)
CompileFails ==
  /\ server = "compile" /\ errors < MaxErrors
  /\ errors' = errors + 1 /\ failed' = "dtc"
  /\ server' = "load"
  /\ UNCHANGED <<kernel, post, pins, shown, posts, writes, touched>>

(* load_slot: the kernel enables the subsystem, if the overlay says so,    *)
(* and then configures the pins for it.                                    *)
Load ==
  /\ server = "load"
  /\ slot' = dtbo /\ enabled' = dtbo.okay
  /\ LET applied == IF dtbo.okay THEN DOMAIN dtbo.pins ELSE {} IN
       /\ registers' = [p \in Pins |-> IF p \in applied THEN dtbo.pins[p]
                                                     ELSE registers[p]]
       /\ touched' = [g \in Pages |-> IF g = post.page THEN touched[g]
                                                      ELSE touched[g] \cup applied]
  /\ Answer
  /\ UNCHANGED <<dtbo, shown, bounds>>

(* The cape manager refuses it: an IOError, and no redirect.               *)
LoadFails ==
  /\ server = "load" /\ errors < MaxErrors
  /\ errors' = errors + 1
  /\ Answer
  /\ UNCHANGED <<kernel, shown, posts, writes, touched>>

(* A program of the IDE has pins of its own (PinPirate).                   *)
ForeignWrite ==
  /\ writes < MaxWrites
  /\ \E p \in Pins, c \in Configs :
       /\ registers' = [registers EXCEPT ![p] = c]
       /\ touched' = [g \in Pages |-> touched[g] \cup {p}]
  /\ writes' = writes + 1
  /\ UNCHANGED <<enabled, slot, dtbo, route, shown, posts, errors, failed>>

PinmuxNext ==
  \/ \E g \in Pages : Get(g) \/ Select(g)
  \/ NothingToDo \/ Unload \/ CompileOverlay \/ CompileFails \/ Load \/ LoadFails
  \/ ForeignWrite

PinmuxSpec == PinmuxInit /\ [][PinmuxNext]_pinmuxVars

-----------------------------------------------------------------------------
Answered == post # None /\ post' = None
ByOthers == touched'[post.page]

(* A post that meets no failure leaves the board as its form shows it: the *)
(* PRU subsystem, and, if that is on, every pin that is looked at and that *)
(* nobody else has written since the form was made.                        *)
FormIsApplied ==
  [][Answered /\ failed = None /\ errors' = errors =>
       /\ enabled' = post.pruss
       /\ enabled' => \A p \in Looked \ ByOthers : registers'[p] = post.mux[p]]_pinmuxVars

(* A pin the user has not changed, and nobody else since, is as the page   *)
(* showed it, also when the PRU subsystem was switched or could not be     *)
(* loaded again.  Only a dtc that fails brings back pins of an old overlay.*)
OthersAreKept ==
  [][Answered /\ failed = None =>
       \A p \in Pins \ ByOthers :
         post.mux[p] = post.shown[p] => registers'[p] = post.shown[p]]_pinmuxVars
=============================================================================
