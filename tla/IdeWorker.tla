----------------------------- MODULE IdeWorker -----------------------------
(***************************************************************************)
(* The server side of the IDE for one PRU: the web server's routes         *)
(* (start.py), which answer one request at a time, and the worker process  *)
(* (pru_process.py), which assembles and runs what was posted.  The two    *)
(* share a manager's dictionary; every get and every assignment on it is a *)
(* call of its own, and a step here.                                       *)
(***************************************************************************)
EXTENDS Naturals, Sequences

CONSTANTS Kinds,        \* the routes clients use
          Texts, Empty, \* the sources they post, and the empty one
          Patience,     \* {TRUE}: clients wait until a source is taken, {FALSE}: not
          MaxRequests,  \* bound: requests posted
          None          \* Python's None

ASSUME KindAssumption ==
  /\ Empty \in Texts
  /\ Kinds \subseteq {"assemble", "run", "stop"}
  /\ MaxRequests \in Nat /\ Patience \subseteq BOOLEAN
  /\ None \notin {"assemble", "run", "stop"} /\ None \notin 1 .. MaxRequests

VARIABLES
  req, src,   \* shared['req0'] and shared['src0']; a source is its request's number
  route,      \* the route whose second assignment is due, None if there is none
  posts,      \* history: the requests so far
  worker,     \* the worker's next step
  source,     \* its local src
  process,    \* the source its last child runs, None if process is not bound
  alive,      \* that child has not ended
  started,    \* history: the sources for which a child was started, and how
  patient     \* whether this behaviour's clients wait

shared == <<req, src>>
web == <<route, posts, patient>>
child == <<process, alive>>
vars == <<shared, web, worker, source, child, started>>

Init ==
  /\ req = None /\ src = None
  /\ route = None /\ posts = << >> /\ patient \in Patience
  /\ worker = "top" /\ source = None
  /\ process = None /\ alive = FALSE
  /\ started = << >>

-----------------------------------------------------------------------------
(* Nothing waits to be taken and the worker is not between two looks at it.*)
Settled == src = None /\ worker \in {"top", "stop?", "readline", "dead"}

(* The routes: shared['req'] first, shared['src'] second.  An empty source *)
(* is as false as None where the worker tests it.                          *)
Request(kind, text) ==
  /\ route = None /\ Len(posts) < MaxRequests
  /\ req' = kind /\ route' = kind
  /\ posts' = Append(posts, [kind |-> kind, text |-> text])
  /\ UNCHANGED <<src, worker, source, child, started, patient>>

SetSource ==
  /\ route # None
  /\ src' = IF route = "stop" \/ posts[Len(posts)].text = Empty THEN None
            ELSE Len(posts)
  /\ route' = None
  /\ UNCHANGED <<req, posts, patient, worker, source, child, started>>

-----------------------------------------------------------------------------
(* The worker: while True.                                                 *)

(* Mutant: check_stop clears whatever request it finds.                    *)
ClearAnyRequest ==
  /\ worker = "top"
  /\ req' = None
  /\ worker' = "get src"
  /\ UNCHANGED <<src, web, source, child, started>>

(* check_stop at the top of the loop, its result not used ...              *)
CheckStop ==
  /\ worker = "top"
  /\ worker' = IF req = "stop" THEN "clear stop" ELSE "get src"
  /\ UNCHANGED <<shared, web, source, child, started>>

ClearStop ==
  /\ worker = "clear stop"
  /\ req' = None
  /\ worker' = "get src"
  /\ UNCHANGED <<src, web, source, child, started>>

(* ... then sleep again unless there is a source.                          *)
GetSource ==
  /\ worker = "get src"
  /\ source' = src
  /\ worker' = IF src = None THEN "top" ELSE "take src"
  /\ UNCHANGED <<shared, web, child, started>>

(* Mutant: the source is left where it was.                                *)
KeepSource ==
  /\ worker = "take src"
  /\ worker' = "assemble?"
  /\ UNCHANGED <<shared, web, source, child, started>>

(* shared['src'] = None, whatever is there by now, and write the file.     *)
TakeSource ==
  /\ worker = "take src"
  /\ src' = None
  /\ worker' = "assemble?"
  /\ UNCHANGED <<req, web, source, child, started>>

Popen(kind) ==
  /\ process' = source /\ alive' = TRUE
  /\ started' = Append(started, [src |-> source, kind |-> kind])
  /\ worker' = "stop?"
  /\ UNCHANGED <<shared, web, source>>

(* if shared.get('req') == 'assemble' ... elif shared.get('req') == 'run'  *)
TestAssemble ==
  /\ worker = "assemble?"
  /\ IF req = "assemble" THEN Popen("assemble")
     ELSE worker' = "run?" /\ UNCHANGED <<shared, web, source, child, started>>

TestRun ==
  /\ worker = "run?"
  /\ IF req = "run" THEN Popen("run")
     ELSE worker' = "stop?" /\ UNCHANGED <<shared, web, source, child, started>>

(* The loop over the child's output: check_stop before every line.         *)
CheckStopChild ==
  /\ worker = "stop?"
  /\ worker' = IF req = "stop" THEN "clear stop, break" ELSE "readline"
  /\ UNCHANGED <<shared, web, source, child, started>>

(* Mutant: a break that skips stop_process.                                *)
BreakWithoutStopping ==
  /\ worker = "clear stop, break"
  /\ req' = None
  /\ worker' = "top"
  /\ UNCHANGED <<src, web, source, child, started>>

ClearStopBreak ==
  /\ worker = "clear stop, break"
  /\ req' = None
  /\ worker' = "stop process"
  /\ UNCHANGED <<src, web, source, child, started>>

(* readline returns a line the child has printed.                          *)
ReadLine ==
  /\ worker = "readline" /\ alive
  /\ worker' = "stop?"
  /\ UNCHANGED <<shared, web, source, child, started>>

(* Neither test has matched and process was never bound: the worker ends.  *)
ReadUnbound ==
  /\ worker = "readline" /\ process = None
  /\ worker' = "dead"
  /\ UNCHANGED <<shared, web, source, child, started>>

(* Mutant: at the end of the output the loop goes on.                      *)
EndOfOutputIgnored ==
  /\ worker = "readline" /\ ~alive /\ process # None
  /\ worker' = "stop?"
  /\ UNCHANGED <<shared, web, source, child, started>>

(* output == '' and process.poll() is not None                             *)
EndOfOutput ==
  /\ worker = "readline" /\ ~alive /\ process # None
  /\ worker' = "stop process"
  /\ UNCHANGED <<shared, web, source, child, started>>

(* stop_process: a child that has ended is let be; a child that has not is *)
(* terminated, and sleep(0.15), of which no module gives the name, raises  *)
(* NameError.  It is not an OSError: the worker ends.                      *)
stop_process ==
  /\ worker = "stop process"
  /\ worker' = IF process = None \/ alive THEN "dead" ELSE "top"
  /\ UNCHANGED <<shared, web, source, child, started>>

(* The child ends (external): assembled, refused, or its program is over.  *)
ChildEnds ==
  /\ alive
  /\ alive' = FALSE
  /\ UNCHANGED <<shared, web, worker, source, process, started>>

-----------------------------------------------------------------------------
Routes ==
  \/ (patient => Settled) /\ \E kind \in Kinds, text \in Texts : Request(kind, text)
  \/ SetSource
Poll == CheckStop \/ ClearStop \/ GetSource \/ TakeSource \/ TestAssemble \/ TestRun
Serve == CheckStopChild \/ ClearStopBreak \/ ReadUnbound \/ EndOfOutput
           \/ stop_process
Worker == Poll \/ Serve \/ ReadLine

Next == Routes \/ Worker \/ ChildEnds

(* Linux schedules both processes, a route that is being served is         *)
(* finished, and the programs that are run end; nobody need click or print.*)
Spec == Init /\ [][Next]_vars /\ WF_vars(SetSource) /\ WF_vars(Poll)
          /\ WF_vars(Serve) /\ WF_vars(ChildEnds)

-----------------------------------------------------------------------------
(* Whatever is posted while the worker is busy, no source is started twice *)
(* and none after one that was posted later.                               *)
StartedInOrder ==
  \A j, k \in DOMAIN started : j < k => started[j].src < started[k].src

(* A PRU is never given a program while the child that runs the one before *)
(* is still there.                                                         *)
OneProgramAtATime == [][started' # started => ~alive]_vars

(* A posted source is taken, or cleared, as long as there is a worker.     *)
SourceIsTaken == src # None ~> src = None \/ worker = "dead"

IsRun(n) == Len(posts) >= n /\ posts[n].kind = "run" /\ posts[n].text # Empty
Invoked(n) == \E k \in DOMAIN started : started[k] = [src |-> n, kind |-> "run"]

(* "The 'run' button sends the PRU assembly code to the BBB to be          *)
(* assembled [...] and then invoked": every source posted for it is run.   *)
EveryRunIsInvoked ==
  \A n \in 1 .. MaxRequests : IsRun(n) ~> Invoked(n)

(* What there is of that: clients that wait until a source was taken and   *)
(* never stop a program get all of their sources run; again and again none *)
(* is left to be.                                                          *)
PatientRunsAreInvoked ==
  []<>(patient => \/ \E k \in DOMAIN posts : posts[k].kind = "stop"
                  \/ \A n \in DOMAIN posts : IsRun(n) => Invoked(n))
=============================================================================
