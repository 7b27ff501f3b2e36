--------------------------------- MODULE Ide ---------------------------------
(***************************************************************************)
(* The whole IDE of one PRU: pages in a browser (static/editor.js), each   *)
(* with its compiler (static/compiler.js), the web server's routes with    *)
(* the queue of output lines (start.py), and the worker (IdeWorker).       *)
(*                                                                         *)
(* A source is a sequence of statements, its assembly text the sequence of *)
(* their translations, which go by the same names; a statement in Wrong    *)
(* makes the compiler throw.  An output line is its number.                *)
(***************************************************************************)
EXTENDS IdeWorker, SequencesExt

CONSTANTS Pages,     \* the pages that are open
          Sources,   \* what users write in the editor
          Wrong,     \* statements that do not compile
          Chunk,     \* lines in one answer: 10
          MaxLines   \* bound: lines that are printed

ASSUME PageAssumption ==
  /\ Chunk \in Nat \ {0} /\ MaxLines \in Nat
  /\ Empty = << >> /\ \A s \in Sources : s \in Seq(UNION {Range(t) : t \in Sources})

ASSUME NoneAssumption == None \notin [page : Pages, lines : Seq(Nat)]

VARIABLES
  asm_out_buf,  \* window.asm_out_buf, for each page
  asm_editor,   \* the text in the assembly editor
  sent,         \* the run and stop requests on their way
  timer,        \* update_terminal is to be called
  asked,        \* the number of requests for output on their way
  serving,      \* the one the server is answering, None if there is none
  answers,      \* the answers on their way
  pru_out,      \* the queue of lines
  printed,      \* the number of lines put into it so far
  console,      \* the lines in the terminal pane
  dropped       \* history: lines in answers that were lost, or cleared

editors == <<asm_out_buf, asm_editor>>
net == <<sent, timer, asked, serving, answers>>
output == <<pru_out, printed, console, dropped>>
allvars == <<vars, editors, net, output>>

(* The queue starts with the line that says the PRU is enabled.            *)
IdeInit ==
  /\ Init
  /\ asm_out_buf = [p \in Pages |-> << >>] /\ asm_editor = [p \in Pages |-> << >>]
  /\ sent = << >> /\ timer = [p \in Pages |-> TRUE] /\ asked = [p \in Pages |-> 0]
  /\ serving = None /\ answers = {}
  /\ pru_out = <<1>> /\ printed = 1
  /\ console = [p \in Pages |-> << >>] /\ dropped = {}

-----------------------------------------------------------------------------
(* The page.                                                               *)

(* What the parser has put out when it ends, or throws.                    *)
Parsed(buf, text) ==
  LET wrong == {i \in DOMAIN text : text[i] \in Wrong}
      end == IF wrong = {} THEN Len(text) ELSE (CHOOSE i \in wrong : \A j \in wrong : i <= j) - 1
  IN  [buf |-> buf \o SubSeq(text, 1, end), ok |-> wrong = {}]

(* Mutant: the buffer is emptied by compile() only, after the parse.       *)
compile_unreset(p, text) ==
  LET parse == Parsed(asm_out_buf[p], text)
  IN  /\ asm_editor' = IF parse.ok THEN [asm_editor EXCEPT ![p] = parse.buf] ELSE asm_editor
      /\ asm_out_buf' = [asm_out_buf EXCEPT ![p] = IF parse.ok THEN << >> ELSE parse.buf]

(* compile(): the grammar's initializer empties the buffer.  If the parser *)
(* throws the text in the assembly editor stays, and so does the buffer.   *)
compile(p, text) ==
  LET parse == Parsed(<< >>, text)
  IN  /\ asm_editor' = IF parse.ok THEN [asm_editor EXCEPT ![p] = parse.buf] ELSE asm_editor
      /\ asm_out_buf' = [asm_out_buf EXCEPT ![p] = IF parse.ok THEN << >> ELSE parse.buf]

ClickCompile(p) ==
  /\ \E text \in Sources : compile(p, text)
  /\ UNCHANGED <<vars, net, output>>

(* A patient user clicks when the last source was taken.                   *)
MayClick ==
  /\ Len(posts) + Len(sent) < MaxRequests
  /\ patient => sent = << >> /\ route = None /\ Settled

ClickRun(p) ==
  /\ MayClick
  /\ sent' = Append(sent, [kind |-> "run", text |-> asm_editor[p]])
  /\ UNCHANGED <<vars, editors, timer, asked, serving, answers, output>>

ClickStop ==
  /\ MayClick
  /\ sent' = Append(sent, [kind |-> "stop", text |-> Empty])
  /\ UNCHANGED <<vars, editors, timer, asked, serving, answers, output>>

ClickClear(p) ==
  /\ console' = [console EXCEPT ![p] = << >>]
  /\ dropped' = dropped \cup Range(console[p])
  /\ UNCHANGED <<vars, editors, net, pru_out, printed>>

(* update_terminal                                                         *)
update_terminal(p) ==
  /\ timer[p]
  /\ timer' = [timer EXCEPT ![p] = FALSE]
  /\ asked' = [asked EXCEPT ![p] = @ + 1]
  /\ UNCHANGED <<vars, editors, sent, serving, answers, output>>

(* Its callback.                                                           *)
ShowOutput(p) ==
  /\ \E a \in answers :
       /\ a.page = p
       /\ console' = [console EXCEPT ![p] = @ \o a.lines]
       /\ answers' = answers \ {a}
  /\ timer' = [timer EXCEPT ![p] = TRUE]
  /\ UNCHANGED <<vars, editors, sent, asked, serving, pru_out, printed, dropped>>

(* Mutant: after a failure no timer is set.                                *)
GiveUp(p) ==
  /\ \E a \in answers :
       /\ a.page = p
       /\ dropped' = dropped \cup Range(a.lines)
       /\ answers' = answers \ {a}
  /\ UNCHANGED <<vars, editors, sent, asked, timer, serving, pru_out, printed, console>>

(* The answer is lost: fail() sets the longer timer.  (A request that is   *)
(* lost before it is served looks like an empty answer that is.)           *)
Fail(p) ==
  /\ \E a \in answers :
       /\ a.page = p
       /\ dropped' = dropped \cup Range(a.lines)
       /\ answers' = answers \ {a}
  /\ timer' = [timer EXCEPT ![p] = TRUE]
  /\ UNCHANGED <<vars, editors, sent, asked, serving, pru_out, printed, console>>

-----------------------------------------------------------------------------
(* The web server answers one request at a time.                           *)
ServerIdle == route = None /\ serving = None

(* Posts are sent over connections of their own and may overtake another.  *)
route_post ==
  /\ ServerIdle
  /\ \E i \in DOMAIN sent :
       /\ Request(sent[i].kind, sent[i].text)
       /\ sent' = RemoveAt(sent, i)
  /\ UNCHANGED <<editors, timer, asked, serving, answers, output>>

SecondHalf == SetSource /\ UNCHANGED <<editors, net, output>>

route_output(p) ==
  /\ ServerIdle /\ asked[p] > 0
  /\ asked' = [asked EXCEPT ![p] = @ - 1]
  /\ serving' = [page |-> p, lines |-> << >>]
  /\ UNCHANGED <<vars, editors, sent, timer, answers, output>>

(* Mutant: a line is looked at, and taken by the next call.                *)
PeekNowait ==
  /\ serving # None /\ pru_out # << >> /\ Len(serving.lines) < Chunk
  /\ serving' = [serving EXCEPT !.lines = Append(@, Head(pru_out))]
  /\ pru_out' = IF Len(pru_out) = 1 THEN pru_out ELSE Tail(pru_out)
  /\ UNCHANGED <<vars, editors, sent, timer, asked, answers, printed, console, dropped>>

get_nowait ==
  /\ serving # None /\ pru_out # << >> /\ Len(serving.lines) < Chunk
  /\ serving' = [serving EXCEPT !.lines = Append(@, Head(pru_out))]
  /\ pru_out' = Tail(pru_out)
  /\ UNCHANGED <<vars, editors, sent, timer, asked, answers, printed, console, dropped>>

Answer ==
  /\ serving # None /\ (pru_out = << >> \/ Len(serving.lines) = Chunk)
  /\ answers' = answers \cup {serving} /\ serving' = None
  /\ UNCHANGED <<vars, editors, sent, timer, asked, output>>

-----------------------------------------------------------------------------
(* The worker; readline's line goes into the queue.                        *)
PutLine ==
  /\ ReadLine /\ printed < MaxLines
  /\ printed' = printed + 1 /\ pru_out' = Append(pru_out, printed + 1)
  /\ UNCHANGED <<editors, net, console, dropped>>

Internal == (Poll \/ Serve) /\ UNCHANGED <<editors, net, output>>
Ends == ChildEnds /\ UNCHANGED <<editors, net, output>>

Click(p) == ClickCompile(p) \/ ClickRun(p) \/ ClickClear(p)
EventLoop(p) == update_terminal(p) \/ ShowOutput(p) \/ Fail(p)
Server == route_post \/ SecondHalf \/ get_nowait \/ Answer
            \/ \E p \in Pages : route_output(p)

IdeNext == ClickStop \/ (\E p \in Pages : Click(p) \/ EventLoop(p))
             \/ Server \/ PutLine \/ Internal \/ Ends

(* A browser keeps its timers and delivers or fails an answer; the server  *)
(* and the worker run; programs end.  Nobody need click, no program print. *)
IdeSpec ==
  /\ IdeInit /\ [][IdeNext]_allvars
  /\ \A p \in Pages : WF_allvars(EventLoop(p))
  /\ WF_allvars(Server) /\ WF_allvars(Internal) /\ WF_allvars(Ends)

-----------------------------------------------------------------------------
(* Whatever failed before, the text in the assembly editor is the          *)
(* translation of one source that compiles, and nothing else.              *)
CompiledIsItsSource ==
  \A p \in Pages : asm_editor[p] = Empty \/
    (asm_editor[p] \in Sources /\ Range(asm_editor[p]) \cap Wrong = {})

Underway == (IF serving = None THEN {} ELSE Range(serving.lines))
              \cup UNION {Range(a.lines) : a \in answers}

(* Each line is in the queue, on its way, or shown, in one place only, or  *)
(* was dropped; and on no page are lines out of order, with answers lost   *)
(* and requests tried again.                                               *)
LinesConserved ==
  LET places == {[at |-> "queue", lines |-> Range(pru_out)],
                 [at |-> "underway", lines |-> Underway],
                 [at |-> "dropped", lines |-> dropped]}
                  \cup {[at |-> p, lines |-> Range(console[p])] : p \in Pages}
  IN  /\ UNION {s.lines : s \in places} = 1 .. printed
      /\ \A n \in 1 .. printed : Cardinality({s \in places : n \in s.lines}) = 1
      /\ \A p \in Pages : \A i, j \in DOMAIN console[p] :
           i < j => console[p][i] < console[p][j]

(* A line that was printed is shown, or its answer is lost: again and      *)
(* again no line is left in the queue or on its way.                       *)
LinesAreShown == []<>(Range(pru_out) \cup Underway = {})
=============================================================================
