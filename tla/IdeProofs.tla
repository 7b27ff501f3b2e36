------------------------------ MODULE IdeProofs ------------------------------
(* Safety of the IDE of one PRU, for any number of pages, sources and      *)
(* requests and in whatever order the requests arrive.                     *)
EXTENDS Ide, SequenceTheorems, FiniteSetTheorems, TLAPS

Requests == [kind : {"run", "stop"}, text : Sources \cup {Empty}]
TypeOK ==
  /\ posts \in Seq(Requests) /\ sent \in Seq(Requests)
  /\ asm_editor \in [Pages -> Sources \cup {Empty}]
  /\ started \in Seq([src : Nat, kind : {"assemble", "run"}])

(* The child is there only while the worker looks after its output, or     *)
(* after the worker has died.                                              *)
ChildInv == alive => worker \in {"stop?", "readline", "clear stop, break", "stop process", "dead"}

(* The sources that were started, the one the worker has taken and the one *)
(* that waits were posted in this order; one that is being posted is last. *)
Before(s, n) == \A k \in 1 .. Len(s) : s[k].src < n
OrderInv ==
  /\ src # None => src \in Nat /\ src <= Len(posts) /\ Before(started, src)
  /\ source # None => source \in Nat /\ source <= Len(posts)
  /\ Before(started, Len(posts) + 1)
  /\ route # None =>
       /\ src # None => src < Len(posts)
       /\ source # None => source < Len(posts)
       /\ Before(started, Len(posts))
  /\ worker \in {"take src", "assemble?", "run?"} => source # None /\ Before(started, source)
  /\ worker \in {"assemble?", "run?"} /\ src # None => source < src
  /\ \A j, k \in 1 .. Len(started) : j < k => started[j].src < started[k].src

IInv == TypeOK /\ ChildInv /\ OrderInv /\ CompiledIsItsSource

-----------------------------------------------------------------------------
LEMMA Appended ==
  ASSUME NEW S, NEW q \in Seq(S), NEW e \in S
  PROVE  /\ Append(q, e) \in Seq(S) /\ Len(q) \in Nat /\ Len(Append(q, e)) = Len(q) + 1
         /\ \A k \in 1 .. Len(q) : Append(q, e)[k] = q[k]
         /\ Append(q, e)[Len(q) + 1] = e
  BY AppendProperties, LenProperties

LEMMA Removed ==
  ASSUME NEW S, NEW q \in Seq(S), NEW k \in DOMAIN q
  PROVE  RemoveAt(q, k) \in Seq(S) /\ q[k] \in S
<1>1. Len(q) \in Nat /\ k \in 1 .. Len(q) /\ \A j \in 1 .. Len(q) : q[j] \in S
  BY LenProperties, ElementOfSeq
<1>2. SubSeq(q, 1, k - 1) \in Seq(S)
  <2>1. \A j \in 1 .. k - 1 : q[j] \in S
    BY <1>1
  <2>2. k - 1 \in Int
    BY <1>1
  <2>. QED  BY <2>1, <2>2, SubSeqProperties
<1>3. SubSeq(q, k + 1, Len(q)) \in Seq(S)
  <2>1. \A j \in k + 1 .. Len(q) : q[j] \in S
    BY <1>1
  <2>2. k + 1 \in Int /\ Len(q) \in Int
    BY <1>1
  <2>. QED  BY <2>1, <2>2, SubSeqProperties
<1>. QED  BY <1>1, <1>2, <1>3, ConcatProperties DEF RemoveAt

(* A compilation that ends has put out the translation of the whole source.*)
LEMMA WholeSource ==
  ASSUME NEW text \in Sources, Parsed(<< >>, text).ok
  PROVE  Parsed(<< >>, text).buf = text /\ Range(text) \cap Wrong = {}
<1>. DEFINE T == UNION {Range(t) : t \in Sources}
            wrong == {k \in DOMAIN text : text[k] \in Wrong}
<1>1. text \in Seq(T)
  BY PageAssumption
<1>2. wrong = {}
  BY DEF Parsed
<1>3. Parsed(<< >>, text).buf = << >> \o SubSeq(text, 1, Len(text))
  BY <1>2 DEF Parsed
<1>4. SubSeq(text, 1, Len(text)) = text /\ << >> \o text = text
  BY <1>1, SubSeqFull, ConcatEmptySeq
<1>5. Range(text) \cap Wrong = {}
  BY <1>2 DEF Range
<1>. QED  BY <1>3, <1>4, <1>5

(* The steps of the composition that are not the worker's or the routes'.  *)
Aside == /\ UNCHANGED <<posts, route, src, source, worker, started, alive>>
         /\ sent' \in Seq(Requests)

LEMMA InvInit == IdeInit => IInv
<1>. SUFFICES ASSUME IdeInit PROVE IInv
  OBVIOUS
<1>1. TypeOK
  <2>1. asm_editor \in [Pages -> Sources \cup {Empty}]
    BY PageAssumption DEF IdeInit
  <2>2. posts = << >> /\ sent = << >> /\ started = << >>
    BY DEF IdeInit, Init
  <2>. QED  BY <2>1, <2>2, EmptySeq DEF TypeOK
<1>2. ChildInv
  BY DEF IdeInit, Init, ChildInv
<1>3. OrderInv
  <2>1. /\ src = None /\ source = None /\ route = None /\ worker = "top"
        /\ 1 .. Len(started) = {}
    BY EmptySeq DEF IdeInit, Init
  <2>. QED  BY <2>1 DEF OrderInv, Before
<1>4. CompiledIsItsSource
  BY PageAssumption DEF IdeInit, CompiledIsItsSource
<1>. QED  BY <1>1, <1>2, <1>3, <1>4 DEF IInv

LEMMA RequestKeeps ==
  ASSUME IInv, NEW kind \in {"run", "stop"}, NEW text \in Sources \cup {Empty},
         Request(kind, text)
  PROVE  posts' \in Seq(Requests) /\ ChildInv' /\ OrderInv'
<1>1. posts \in Seq(Requests) /\ [kind |-> kind, text |-> text] \in Requests
  BY DEF IInv, TypeOK, Requests
<1>2. posts' \in Seq(Requests) /\ Len(posts) \in Nat /\ Len(posts') = Len(posts) + 1
  BY <1>1, Appended DEF Request
<1>3. UNCHANGED <<src, worker, source, started, alive>>
  BY DEF Request, child
<1>4. ChildInv /\ OrderInv
  BY DEF IInv
<1>5. ChildInv'
  BY <1>3, <1>4 DEF ChildInv
<1>6. ASSUME NEW k \in 1 .. Len(started)
      PROVE  started[k].src < Len(posts) + 1 /\ started[k].src \in Nat
  <2>1. started[k] \in [src : Nat, kind : {"assemble", "run"}]
    BY ElementOfSeq DEF IInv, TypeOK
  <2>. QED  BY <1>4, <2>1 DEF OrderInv, Before
<1>7. Before(started, Len(posts) + 1) /\ Before(started, Len(posts) + 2)
  BY <1>2, <1>6 DEF Before
<1>8. OrderInv'
  <2>1. Before(started', Len(posts')) /\ Before(started', Len(posts') + 1)
    <3>1. Len(posts') + 1 = Len(posts) + 2
      BY <1>2
    <3>. QED  BY <1>2, <1>3, <1>7, <3>1 DEF Before
  <2>2. /\ src' # None => src' \in Nat /\ src' < Len(posts') /\ src' <= Len(posts')
                           /\ Before(started', src')
        /\ source' # None => source' \in Nat /\ source' < Len(posts') /\ source' <= Len(posts')
    <3>1. src # None => src \in Nat /\ src <= Len(posts) /\ Before(started, src)
      BY <1>4 DEF OrderInv
    <3>2. source # None => source \in Nat /\ source <= Len(posts)
      BY <1>4 DEF OrderInv
    <3>3. src # None => src < Len(posts') /\ src <= Len(posts')
      BY <1>2, <3>1
    <3>4. source # None => source < Len(posts') /\ source <= Len(posts')
      BY <1>2, <3>2
    <3>. QED  BY <1>3, <3>1, <3>2, <3>3, <3>4
  <2>. QED  BY <1>3, <1>4, <2>1, <2>2 DEF OrderInv
<1>. QED  BY <1>2, <1>5, <1>8

LEMMA SourceKeeps ==
  ASSUME IInv, SetSource
  PROVE  ChildInv' /\ OrderInv'
<1>1. ChildInv /\ OrderInv /\ route # None
  BY DEF IInv, SetSource
<1>2. UNCHANGED <<posts, worker, source, started, alive>> /\ route' = None
  BY DEF SetSource, child
<1>3. Len(posts) \in Nat
  BY LenProperties DEF IInv, TypeOK
<1>4. ChildInv'
  BY <1>1, <1>2 DEF ChildInv
<1>5. CASE src' = None
  BY <1>1, <1>2, <1>4, <1>5 DEF OrderInv, Before
<1>6. CASE src' # None
  <2>1. src' = Len(posts)
    BY <1>6 DEF SetSource
  <2>2. Before(started, Len(posts)) /\ (source # None => source < Len(posts))
    BY <1>1 DEF OrderInv
  <2>3. Before(started', src') /\ src' \in Nat /\ src' <= Len(posts') /\ source' = source
        /\ (source # None => source < src')
    BY <1>2, <1>3, <2>1, <2>2
  <2>4. worker' \in {"assemble?", "run?"} => source' < src'
    BY <1>1, <1>2, <2>3 DEF OrderInv
  <2>. QED  BY <1>1, <1>2, <1>4, <2>3, <2>4 DEF OrderInv
<1>. QED  BY <1>5, <1>6

LEMMA PopenKeeps ==
  ASSUME IInv, worker \in {"assemble?", "run?"}, NEW kind \in {"assemble", "run"}, Popen(kind)
  PROVE  started' \in Seq([src : Nat, kind : {"assemble", "run"}]) /\ ChildInv' /\ OrderInv'
<1>. DEFINE R == [src : Nat, kind : {"assemble", "run"}]
            e == [src |-> source, kind |-> kind]
<1>1. ChildInv /\ OrderInv /\ started \in Seq(R) /\ posts \in Seq(Requests)
  BY DEF IInv, TypeOK
<1>2. /\ UNCHANGED <<posts, source, src, route>> /\ worker' = "stop?"
      /\ started' = Append(started, e)
  BY DEF Popen, shared, web
<1>3. source # None /\ source \in Nat /\ Before(started, source)
  BY <1>1 DEF OrderInv
<1>4. e \in R /\ e.src = source
  BY <1>3
<1>. HIDE DEF e
<1>5. /\ started' \in Seq(R) /\ Len(started) \in Nat /\ Len(started') = Len(started) + 1
      /\ started'[Len(started) + 1] = e
      /\ \A k \in 1 .. Len(started) : started'[k] = started[k]
  BY <1>1, <1>2, <1>4, Appended
<1>6. ASSUME NEW n \in Nat, Before(started, n), source < n PROVE Before(started', n)
  <2>. SUFFICES ASSUME NEW k \in 1 .. Len(started') PROVE started'[k].src < n
    BY DEF Before
  <2>1. CASE k = Len(started) + 1
    BY <1>4, <1>5, <1>6, <2>1
  <2>2. CASE k \in 1 .. Len(started)
    BY <1>5, <1>6, <2>2 DEF Before
  <2>. QED  BY <1>5, <2>1, <2>2
<1>7. Len(posts) \in Nat /\ Len(posts) + 1 \in Nat
  BY <1>1, LenProperties
<1>8. Before(started', Len(posts) + 1)
  <2>1. Before(started, Len(posts) + 1) /\ source <= Len(posts)
    BY <1>1, <1>3 DEF OrderInv
  <2>2. source < Len(posts) + 1
    BY <1>3, <1>7, <2>1
  <2>. QED  BY <1>6, <1>7, <2>1, <2>2
<1>9. route # None => Before(started', Len(posts))
  BY <1>1, <1>2, <1>3, <1>6, <1>7 DEF OrderInv
<1>10. src # None => src \in Nat /\ src <= Len(posts) /\ Before(started', src)
  BY <1>1, <1>2, <1>3, <1>6 DEF OrderInv
<1>11. ASSUME NEW j \in 1 .. Len(started'), NEW k \in 1 .. Len(started'), j < k
       PROVE  started'[j].src < started'[k].src
  <2>1. j \in 1 .. Len(started)
    BY <1>5, <1>11
  <2>2. CASE k = Len(started) + 1
    BY <1>3, <1>4, <1>5, <2>1, <2>2 DEF Before
  <2>3. CASE k \in 1 .. Len(started)
    BY <1>1, <1>5, <1>11, <2>1, <2>3 DEF OrderInv
  <2>. QED  BY <1>5, <2>2, <2>3
<1>12. OrderInv'
  BY <1>1, <1>2, <1>8, <1>9, <1>10, <1>11 DEF OrderInv, Before
<1>13. ChildInv'
  BY <1>2 DEF ChildInv
<1>. QED  BY <1>5, <1>12, <1>13

LEMMA WorkerKeeps ==
  ASSUME IInv, Poll \/ Serve \/ ReadLine \/ ChildEnds
  PROVE  /\ posts' = posts /\ started' \in Seq([src : Nat, kind : {"assemble", "run"}])
         /\ ChildInv' /\ OrderInv'
<1>0. ChildInv /\ OrderInv /\ started \in Seq([src : Nat, kind : {"assemble", "run"}])
  BY DEF IInv, TypeOK
<1>. USE DEF shared, web, child
<1>1. CASE Serve \/ ReadLine \/ ChildEnds
  <2>1. /\ UNCHANGED <<posts, route, src, source, started>>
        /\ worker' \in {worker, "top", "stop?", "readline", "clear stop, break", "stop process",
                        "dead"}
    BY <1>1 DEF Serve, CheckStopChild, ClearStopBreak, ReadUnbound, EndOfOutput, stop_process,
                ReadLine, ChildEnds
  <2>2. ChildInv'
    BY <1>0, <1>1 DEF ChildInv, Serve, CheckStopChild, ClearStopBreak, ReadUnbound, EndOfOutput,
                      stop_process, ReadLine, ChildEnds
  <2>. QED  BY <1>0, <2>1, <2>2 DEF OrderInv, Before
<1>2. CASE CheckStop \/ ClearStop
  <2>1. /\ UNCHANGED <<posts, route, src, source, started, alive>>
        /\ worker \in {"top", "clear stop"} /\ worker' \in {"clear stop", "get src"}
    BY <1>2 DEF CheckStop, ClearStop
  <2>. QED  BY <1>0, <2>1 DEF ChildInv, OrderInv, Before
<1>3. CASE GetSource
  <2>1. /\ UNCHANGED <<posts, route, src, started, alive>> /\ worker = "get src" /\ source' = src
        /\ worker' = IF src = None THEN "top" ELSE "take src"
    BY <1>3 DEF GetSource
  <2>. QED  BY <1>0, <2>1 DEF ChildInv, OrderInv, Before
<1>4. CASE TakeSource
  <2>1. /\ UNCHANGED <<posts, route, source, started, alive>> /\ worker = "take src" /\ src' = None
        /\ worker' = "assemble?"
    BY <1>4 DEF TakeSource
  <2>. QED  BY <1>0, <2>1 DEF ChildInv, OrderInv, Before
<1>5. ASSUME NEW kind \in {"assemble", "run"}, worker \in {"assemble?", "run?"},
             \/ Popen(kind)
             \/ worker' \in {"run?", "stop?"} /\ UNCHANGED <<shared, web, source, child, started>>
      PROVE  /\ posts' = posts /\ started' \in Seq([src : Nat, kind : {"assemble", "run"}])
             /\ ChildInv' /\ OrderInv'
  <2>1. CASE Popen(kind)
    BY <1>5, <2>1, PopenKeeps DEF Popen
  <2>2. CASE worker' \in {"run?", "stop?"} /\ UNCHANGED <<shared, web, source, child, started>>
    BY <1>0, <1>5, <2>2 DEF ChildInv, OrderInv, Before
  <2>. QED  BY <1>5, <2>1, <2>2
<1>6. CASE TestAssemble
  <2>1. /\ worker = "assemble?"
        /\ \/ Popen("assemble")
           \/ worker' = "run?" /\ UNCHANGED <<shared, web, source, child, started>>
    BY <1>6 DEF TestAssemble
  <2>. QED  BY <1>5, <2>1
<1>7. CASE TestRun
  <2>1. /\ worker = "run?"
        /\ \/ Popen("run")
           \/ worker' = "stop?" /\ UNCHANGED <<shared, web, source, child, started>>
    BY <1>7 DEF TestRun
  <2>. QED  BY <1>5, <2>1
<1>. QED  BY <1>1, <1>2, <1>3, <1>4, <1>6, <1>7 DEF Poll

LEMMA CompiledNext == IInv /\ [IdeNext]_allvars =>
                        asm_editor' \in [Pages -> Sources \cup {Empty}] /\ CompiledIsItsSource'
<1>. SUFFICES ASSUME IInv, [IdeNext]_allvars
              PROVE  asm_editor' \in [Pages -> Sources \cup {Empty}] /\ CompiledIsItsSource'
  OBVIOUS
<1>0. asm_editor \in [Pages -> Sources \cup {Empty}] /\ CompiledIsItsSource
  BY DEF IInv, TypeOK
<1>1. ASSUME NEW p \in Pages, NEW text \in Sources, compile(p, text)
      PROVE  asm_editor' \in [Pages -> Sources \cup {Empty}] /\ CompiledIsItsSource'
  <2>1. CASE Parsed(<< >>, text).ok
    <3>1. asm_editor' = [asm_editor EXCEPT ![p] = text] /\ Range(text) \cap Wrong = {}
      BY <1>1, <2>1, WholeSource DEF compile
    <3>. QED  BY <1>0, <3>1 DEF CompiledIsItsSource
  <2>2. CASE ~Parsed(<< >>, text).ok
    <3>1. asm_editor' = asm_editor
      BY <1>1, <2>2 DEF compile
    <3>. QED  BY <1>0, <3>1 DEF CompiledIsItsSource
  <2>. QED  BY <2>1, <2>2
<1>2. CASE \E p \in Pages : ClickCompile(p)
  BY <1>1, <1>2 DEF ClickCompile
<1>3. CASE UNCHANGED asm_editor
  BY <1>0, <1>3 DEF CompiledIsItsSource
<1>4. (\E p \in Pages : ClickCompile(p)) \/ UNCHANGED asm_editor
  <2>. USE DEF editors, allvars
  <2>1. CASE \E p \in Pages : Click(p) \/ EventLoop(p)
    BY <2>1 DEF Click, ClickRun, ClickClear, EventLoop, update_terminal, ShowOutput, Fail
  <2>2. CASE ClickStop \/ Server
    BY <2>2 DEF ClickStop, Server, route_post, SecondHalf, get_nowait, Answer, route_output
  <2>3. CASE PutLine \/ Internal \/ Ends
    BY <2>3 DEF PutLine, Internal, Ends
  <2>. QED  BY <2>1, <2>2, <2>3 DEF IdeNext
<1>. QED  BY <1>2, <1>3, <1>4

LEMMA AsideKeeps == ASSUME IInv, Aside
                    PROVE  /\ posts' \in Seq(Requests) /\ sent' \in Seq(Requests)
                           /\ started' \in Seq([src : Nat, kind : {"assemble", "run"}])
                           /\ ChildInv' /\ OrderInv'
  BY DEF IInv, TypeOK, Aside, ChildInv, OrderInv, Before

LEMMA RestNext == IInv /\ [IdeNext]_allvars =>
                    /\ posts' \in Seq(Requests) /\ sent' \in Seq(Requests)
                    /\ started' \in Seq([src : Nat, kind : {"assemble", "run"}])
                    /\ ChildInv' /\ OrderInv'
<1>. SUFFICES ASSUME IInv, [IdeNext]_allvars
              PROVE  /\ posts' \in Seq(Requests) /\ sent' \in Seq(Requests)
                     /\ started' \in Seq([src : Nat, kind : {"assemble", "run"}])
                     /\ ChildInv' /\ OrderInv'
  OBVIOUS
<1>0. /\ posts \in Seq(Requests) /\ sent \in Seq(Requests)
      /\ asm_editor \in [Pages -> Sources \cup {Empty}]
      /\ started \in Seq([src : Nat, kind : {"assemble", "run"}])
  BY DEF IInv, TypeOK
<1>. USE DEF vars, shared, web, child, net
<1>1. CASE \E p \in Pages : ClickCompile(p) \/ ClickClear(p) \/ EventLoop(p)
  <2>1. Aside
    BY <1>0, <1>1 DEF ClickCompile, ClickClear, EventLoop, update_terminal, ShowOutput, Fail, Aside
  <2>. QED  BY <2>1, AsideKeeps
<1>2. CASE \E p \in Pages : ClickRun(p)
  <2>1. PICK p \in Pages : sent' = Append(sent, [kind |-> "run", text |-> asm_editor[p]])
                           /\ UNCHANGED vars
    BY <1>2 DEF ClickRun
  <2>2. [kind |-> "run", text |-> asm_editor[p]] \in Requests
    BY <1>0 DEF Requests
  <2>3. Aside
    BY <1>0, <2>1, <2>2, Appended DEF Aside
  <2>. QED  BY <2>3, AsideKeeps
<1>3. CASE ClickStop
  <2>1. sent' = Append(sent, [kind |-> "stop", text |-> Empty]) /\ UNCHANGED vars
    BY <1>3 DEF ClickStop
  <2>2. [kind |-> "stop", text |-> Empty] \in Requests
    BY DEF Requests
  <2>3. Aside
    BY <1>0, <2>1, <2>2, Appended DEF Aside
  <2>. QED  BY <2>3, AsideKeeps
<1>4. CASE route_post
  <2>1. PICK k \in DOMAIN sent : Request(sent[k].kind, sent[k].text) /\ sent' = RemoveAt(sent, k)
    BY <1>4 DEF route_post
  <2>2. sent' \in Seq(Requests) /\ sent[k] \in Requests
    BY <1>0, <2>1, Removed
  <2>3. sent[k].kind \in {"run", "stop"} /\ sent[k].text \in Sources \cup {Empty}
    BY <2>2 DEF Requests
  <2>4. started' = started
    BY <2>1 DEF Request
  <2>. QED  BY <1>0, <2>1, <2>2, <2>3, <2>4, RequestKeeps
<1>5. CASE SecondHalf
  <2>1. SetSource /\ UNCHANGED <<sent, posts, started>>
    BY <1>5 DEF SecondHalf, SetSource
  <2>. QED  BY <1>0, <2>1, SourceKeeps
<1>6. CASE get_nowait \/ Answer \/ \E p \in Pages : route_output(p)
  <2>1. Aside
    BY <1>0, <1>6 DEF get_nowait, Answer, route_output, Aside
  <2>. QED  BY <2>1, AsideKeeps
<1>7. CASE PutLine \/ Internal \/ Ends
  <2>1. (Poll \/ Serve \/ ReadLine \/ ChildEnds) /\ UNCHANGED sent
    BY <1>7 DEF PutLine, Internal, Ends
  <2>. QED  BY <1>0, <2>1, WorkerKeeps
<1>8. CASE UNCHANGED allvars
  <2>1. Aside
    BY <1>0, <1>8 DEF allvars, Aside
  <2>. QED  BY <2>1, AsideKeeps
<1>. QED  BY <1>1, <1>2, <1>3, <1>4, <1>5, <1>6, <1>7, <1>8 DEF IdeNext, Click, Server

LEMMA Invariant == IdeSpec => []IInv
<1>1. IInv /\ [IdeNext]_allvars => IInv'
  BY CompiledNext, RestNext DEF IInv, TypeOK
<1>. QED  BY InvInit, <1>1, PTL DEF IdeSpec

-----------------------------------------------------------------------------
(* However the posts overtake each other and fall into the worker's gets   *)
(* and assignments, no source is started twice or after a later one.       *)
THEOREM StartsAreInOrder == IdeSpec => []StartedInOrder
<1>1. IInv => StartedInOrder
  <2>1. IInv => DOMAIN started = 1 .. Len(started)
    BY LenProperties DEF IInv, TypeOK
  <2>. QED  BY <2>1 DEF IInv, OrderInv, StartedInOrder
<1>. QED  BY <1>1, Invariant, PTL

(* The worker never starts a child while the one before is alive.          *)
THEOREM OneAtATime == IdeSpec => OneProgramAtATime
<1>1. IInv /\ [IdeNext]_allvars => [started' # started => ~alive]_vars
  <2>. SUFFICES ASSUME IInv, [IdeNext]_allvars, started' # started PROVE ~alive
    OBVIOUS
  <2>. USE DEF vars, shared, web, child
  <2>1. CASE ClickStop \/ \E p \in Pages : Click(p) \/ EventLoop(p)
    BY <2>1 DEF ClickStop, Click, ClickCompile, ClickRun, ClickClear, EventLoop, update_terminal,
                ShowOutput, Fail
  <2>2. CASE Server
    BY <2>2 DEF Server, route_post, Request, SecondHalf, SetSource, get_nowait, Answer,
                route_output
  <2>3. CASE PutLine \/ Ends
    BY <2>3 DEF PutLine, ReadLine, Ends, ChildEnds
  <2>4. CASE Internal
    <3>1. worker \in {"assemble?", "run?"}
      BY <2>4 DEF Internal, Poll, CheckStop, ClearStop, GetSource, TakeSource, TestAssemble,
                  TestRun, Serve, CheckStopChild, ClearStopBreak, ReadUnbound, EndOfOutput,
                  stop_process
    <3>. QED  BY <3>1 DEF IInv, ChildInv
  <2>5. CASE UNCHANGED allvars
    BY <2>5 DEF allvars
  <2>. QED  BY <2>1, <2>2, <2>3, <2>4, <2>5 DEF IdeNext
<1>. QED  BY <1>1, Invariant, PTL DEF IdeSpec, OneProgramAtATime

(* Compilations that throw leave nothing behind in the assembly editor:    *)
(* what it holds, and what "run" posts, is one whole source's translation. *)
THEOREM WholeTranslations == IdeSpec => []CompiledIsItsSource
<1>1. IInv => CompiledIsItsSource
  BY DEF IInv
<1>. QED  BY <1>1, Invariant, PTL

-----------------------------------------------------------------------------
(* The lines: where they are, and in which order.                          *)

Answers == [page : Pages, lines : Seq(Nat)]
LinesType ==
  /\ pru_out \in Seq(Nat) /\ printed \in Nat /\ dropped \subseteq Nat
  /\ console \in [Pages -> Seq(Nat)]
  /\ timer \in [Pages -> BOOLEAN] /\ asked \in [Pages -> Nat]
  /\ serving \in Answers \cup {None} /\ \A a \in answers: a \in Answers

(* A page has set its timer, or its request is on its way, or is served,   *)
(* or its answer is on its way: one of them.                               *)
For(p) == serving # None /\ serving.page = p
PendingInv ==
  /\ \A p \in Pages : timer[p] => asked[p] = 0
  /\ \A p \in Pages : timer[p] \/ asked[p] > 0 =>
       /\ ~For(p)
       /\ \A a \in answers : a.page # p
  /\ \A p \in Pages : asked[p] <= 1
  /\ \A a \in answers : ~For(a.page)
  /\ \A a, b \in answers : a.page = b.page => a = b

(* The queue holds the lines that were printed last ...                    *)
Taken == printed - Len(pru_out)
QueueInv == Taken \in Nat /\ \A k \in 1 .. Len(pru_out) : pru_out[k] = Taken + k

(* ... and each that was taken from it is in one place.                    *)
Held == IF serving = None THEN {} ELSE Range(serving.lines)
PlaceInv ==
  /\ Held \subseteq 1 .. Taken /\ dropped \subseteq 1 .. Taken
  /\ \A a \in answers : Range(a.lines) \subseteq 1 .. Taken
  /\ \A p \in Pages : Range(console[p]) \subseteq 1 .. Taken
  /\ \A n \in 1 .. Taken :
       \/ n \in Held
       \/ n \in dropped
       \/ \E a \in answers : n \in Range(a.lines)
       \/ \E p \in Pages : n \in Range(console[p])
OnceInv ==
  /\ Held \cap dropped = {}
  /\ \A a \in answers : Range(a.lines) \cap (Held \cup dropped) = {}
  /\ \A p \in Pages : Range(console[p]) \cap (Held \cup dropped) = {}
  /\ \A a \in answers, p \in Pages : Range(a.lines) \cap Range(console[p]) = {}
  /\ \A a, b \in answers : a # b => Range(a.lines) \cap Range(b.lines) = {}
  /\ \A p, q \in Pages : p # q => Range(console[p]) \cap Range(console[q]) = {}

(* The lines of an answer follow those its page shows.                     *)
Sorted(s) == \A i, j \in DOMAIN s : i < j => s[i] < s[j]
Below(s, t) == \A m \in Range(s), n \in Range(t) : m < n
SortInv ==
  /\ \A p \in Pages : Sorted(console[p])
  /\ serving # None => Sorted(serving.lines) /\ Below(console[serving.page], serving.lines)
  /\ \A a \in answers : Sorted(a.lines) /\ Below(console[a.page], a.lines)
LinesInv == LinesType /\ PendingInv /\ QueueInv /\ PlaceInv /\ OnceInv /\ SortInv

-----------------------------------------------------------------------------
(* Sequences of lines.                                                     *)
LEMMA RangeOf == ASSUME NEW S, NEW s \in Seq(S)
                 PROVE  /\ DOMAIN s = 1 .. Len(s)
                        /\ \A n : n \in Range(s) <=> \E k \in 1 .. Len(s) : n = s[k]
<1>1. DOMAIN s = 1 .. Len(s)
  BY LenProperties
<1>. QED  BY <1>1 DEF Range

LEMMA RangeEmpty == Range(<< >>) = {} /\ Sorted(<< >>)
  BY DEF Range, Sorted

LEMMA RangeAppended ==
  ASSUME NEW s \in Seq(Nat), NEW e \in Nat
  PROVE  Range(Append(s, e)) = Range(s) \cup {e}
<1>. DEFINE r == Append(s, e)
<1>1. /\ r \in Seq(Nat) /\ Len(s) \in Nat /\ Len(r) = Len(s) + 1
      /\ \A k \in 1 .. Len(s) : r[k] = s[k]
      /\ r[Len(s) + 1] = e
  BY Appended
<1>. HIDE DEF r
<1>2. /\ \A n : n \in Range(r) <=> \E k \in 1 .. Len(r) : n = r[k]
      /\ \A n : n \in Range(s) <=> \E k \in 1 .. Len(s) : n = s[k]
  BY <1>1, RangeOf
<1>3. ASSUME NEW n \in Range(r) PROVE n \in Range(s) \cup {e}
  <2>1. PICK k \in 1 .. Len(s) + 1 : n = r[k]
    BY <1>1, <1>2, <1>3
  <2>2. CASE k \in 1 .. Len(s)
    BY <1>1, <1>2, <2>1, <2>2
  <2>3. CASE k = Len(s) + 1
    BY <1>1, <2>1, <2>3
  <2>. QED  BY <1>1, <2>2, <2>3
<1>4. ASSUME NEW n \in Range(s) PROVE n \in Range(r)
  <2>1. PICK k \in 1 .. Len(s) : n = s[k]
    BY <1>2
  <2>2. k \in 1 .. Len(r) /\ n = r[k]
    BY <1>1, <2>1
  <2>. QED  BY <1>2, <2>2
<1>5. e \in Range(r)
  <2>1. Len(s) + 1 \in 1 .. Len(r)
    BY <1>1
  <2>. QED  BY <1>1, <1>2, <2>1
<1>. QED  BY <1>3, <1>4, <1>5 DEF r

LEMMA SortedAppended ==
  ASSUME NEW s \in Seq(Nat), NEW e \in Nat, Sorted(s), \A n \in Range(s) : n < e
  PROVE  Sorted(Append(s, e))
<1>. DEFINE r == Append(s, e)
<1>1. /\ r \in Seq(Nat) /\ Len(s) \in Nat /\ Len(r) = Len(s) + 1
      /\ \A k \in 1 .. Len(s) : r[k] = s[k]
      /\ r[Len(s) + 1] = e
  BY Appended
<1>. HIDE DEF r
<1>2. DOMAIN r = 1 .. Len(s) + 1 /\ DOMAIN s = 1 .. Len(s)
  BY <1>1, LenProperties
<1>3. \A k \in 1 .. Len(s) : s[k] < e
  BY <1>2, RangeOf
<1>4. ASSUME NEW j \in 1 .. Len(s) + 1, NEW k \in 1 .. Len(s) + 1, j < k PROVE r[j] < r[k]
  <2>1. j \in 1 .. Len(s)
    BY <1>1, <1>4
  <2>2. CASE k \in 1 .. Len(s)
    BY <1>1, <1>2, <1>4, <2>1, <2>2 DEF Sorted
  <2>3. CASE k = Len(s) + 1
    BY <1>1, <1>3, <2>1, <2>3
  <2>. QED  BY <1>1, <2>2, <2>3
<1>5. Sorted(r)
  BY <1>2, <1>4 DEF Sorted
<1>. QED  BY <1>5 DEF r

(* Showing an answer.                                                      *)
LEMMA Shown ==
  ASSUME NEW s \in Seq(Nat), NEW t \in Seq(Nat)
  PROVE  /\ s \o t \in Seq(Nat)
         /\ Range(s \o t) = Range(s) \cup Range(t)
         /\ Sorted(s) /\ Sorted(t) /\ Below(s, t) => Sorted(s \o t)
<1>. DEFINE r == s \o t
<1>1. /\ r \in Seq(Nat) /\ Len(s) \in Nat /\ Len(t) \in Nat /\ Len(r) = Len(s) + Len(t)
      /\ \A k \in 1 .. Len(s) + Len(t) : r[k] = IF k <= Len(s) THEN s[k] ELSE t[k - Len(s)]
  BY ConcatProperties, LenProperties
<1>. HIDE DEF r
<1>2. /\ \A k \in 1 .. Len(s) : r[k] = s[k] /\ k \in 1 .. Len(r)
      /\ \A k \in 1 .. Len(t) : r[Len(s) + k] = t[k] /\ Len(s) + k \in 1 .. Len(r)
  <2>1. ASSUME NEW k \in 1 .. Len(s) PROVE r[k] = s[k] /\ k \in 1 .. Len(r)
    BY <1>1
  <2>2. ASSUME NEW k \in 1 .. Len(t) PROVE r[Len(s) + k] = t[k] /\ Len(s) + k \in 1 .. Len(r)
    <3>1. /\ Len(s) + k \in 1 .. Len(s) + Len(t) /\ ~(Len(s) + k <= Len(s))
          /\ (Len(s) + k) - Len(s) = k
      BY <1>1
    <3>. QED  BY <1>1, <3>1
  <2>. QED  BY <2>1, <2>2
<1>3. \A k \in 1 .. Len(r) : k \in 1 .. Len(s) \/ \E m \in 1 .. Len(t) : k = Len(s) + m
  <2>. SUFFICES ASSUME NEW k \in 1 .. Len(r), k \notin 1 .. Len(s)
                PROVE  \E m \in 1 .. Len(t) : k = Len(s) + m
    OBVIOUS
  <2>1. k - Len(s) \in 1 .. Len(t) /\ k = Len(s) + (k - Len(s))
    BY <1>1
  <2>. QED  BY <2>1
<1>4. /\ DOMAIN r = 1 .. Len(r) /\ DOMAIN s = 1 .. Len(s) /\ DOMAIN t = 1 .. Len(t)
      /\ \A n : n \in Range(r) <=> \E k \in 1 .. Len(r) : n = r[k]
      /\ \A n : n \in Range(s) <=> \E k \in 1 .. Len(s) : n = s[k]
      /\ \A n : n \in Range(t) <=> \E k \in 1 .. Len(t) : n = t[k]
  BY <1>1, RangeOf
<1>5. Range(r) = Range(s) \cup Range(t)
  <2>1. ASSUME NEW n \in Range(r) PROVE n \in Range(s) \cup Range(t)
    <3>1. PICK k \in 1 .. Len(r) : n = r[k]
      BY <1>4
    <3>. QED  BY <1>2, <1>3, <1>4, <3>1
  <2>2. ASSUME NEW n \in Range(s) \cup Range(t) PROVE n \in Range(r)
    BY <1>2, <1>4
  <2>. QED  BY <2>1, <2>2
<1>6. ASSUME Sorted(s), Sorted(t), Below(s, t) PROVE Sorted(r)
  <2>. SUFFICES ASSUME NEW j \in 1 .. Len(r), NEW k \in 1 .. Len(r), j < k PROVE r[j] < r[k]
    BY <1>4 DEF Sorted
  <2>1. CASE j \in 1 .. Len(s) /\ k \in 1 .. Len(s)
    <3>1. s[j] < s[k]
      BY <1>4, <1>6, <2>1 DEF Sorted
    <3>. QED  BY <1>2, <2>1, <3>1
  <2>2. ASSUME j \in 1 .. Len(s), NEW m \in 1 .. Len(t), k = Len(s) + m PROVE r[j] < r[k]
    <3>1. s[j] \in Range(s) /\ t[m] \in Range(t)
      BY <1>4, <2>2
    <3>2. s[j] < t[m]
      BY <1>6, <3>1 DEF Below
    <3>. QED  BY <1>2, <2>2, <3>2
  <2>3. ASSUME NEW l \in 1 .. Len(t), j = Len(s) + l, NEW m \in 1 .. Len(t), k = Len(s) + m
        PROVE  r[j] < r[k]
    <3>1. l < m
      BY <1>1, <2>3
    <3>2. t[l] < t[m]
      BY <1>4, <1>6, <3>1 DEF Sorted
    <3>. QED  BY <1>2, <2>3, <3>2
  <2>4. ASSUME NEW l \in 1 .. Len(t), j = Len(s) + l, k \in 1 .. Len(s) PROVE FALSE
    BY <1>1, <2>4
  <2>. QED  BY <1>3, <2>1, <2>2, <2>3, <2>4
<1>. QED  BY <1>1, <1>5, <1>6 DEF r

(* Taking the first line of the queue.                                     *)
LEMMA FirstTaken ==
  ASSUME NEW q \in Seq(Nat), q # << >>
  PROVE  /\ Tail(q) \in Seq(Nat) /\ Len(q) \in Nat \ {0} /\ Len(Tail(q)) = Len(q) - 1
         /\ \A k \in 1 .. Len(q) - 1 : Tail(q)[k] = q[k + 1]
         /\ Head(q) = q[1] /\ Head(q) \in Nat
  BY HeadTailProperties, LenProperties, EmptySeq

-----------------------------------------------------------------------------
lines == <<timer, asked, serving, answers, output>>

LEMMA LinesInit == IdeInit => LinesInv
<1>. SUFFICES ASSUME IdeInit PROVE LinesInv
  OBVIOUS
<1>1. /\ console = [p \in Pages |-> << >>] /\ timer = [p \in Pages |-> TRUE]
      /\ asked = [p \in Pages |-> 0] /\ serving = None /\ answers = {}
      /\ pru_out = <<1>> /\ printed = 1 /\ dropped = {}
  BY DEF IdeInit
<1>2. pru_out \in Seq(Nat) /\ Len(pru_out) = 1 /\ pru_out[1] = 1
  BY <1>1
<1>3. LinesType
  BY <1>1, <1>2, EmptySeq DEF LinesType
<1>4. PendingInv
  BY <1>1 DEF PendingInv, For
<1>5. Taken = 0 /\ 1 .. Taken = {}
  BY <1>1, <1>2 DEF Taken
<1>6. QueueInv
  BY <1>2, <1>5 DEF QueueInv
<1>7. Held = {} /\ dropped = {} /\ answers = {} /\ \A p \in Pages : Range(console[p]) = {}
  BY <1>1, RangeEmpty DEF Held
<1>8. PlaceInv
  BY <1>5, <1>7 DEF PlaceInv
<1>9. OnceInv
  BY <1>7 DEF OnceInv
<1>10. SortInv
  BY <1>1, RangeEmpty DEF SortInv
<1>. QED  BY <1>3, <1>4, <1>6, <1>8, <1>9, <1>10 DEF LinesInv

(* Lines that stay where they are.                                         *)
LEMMA Unmoved ==
  ASSUME PlaceInv, OnceInv, SortInv, Taken' = Taken,
         UNCHANGED <<console, dropped, answers>>,
         Held' = Held,
         serving' # None => Sorted(serving'.lines) /\ Below(console[serving'.page], serving'.lines)
  PROVE  PlaceInv' /\ OnceInv' /\ SortInv'
<1>1. PlaceInv'
  BY DEF PlaceInv
<1>2. OnceInv'
  BY DEF OnceInv
<1>3. SortInv'
  BY DEF SortInv
<1>. QED  BY <1>1, <1>2, <1>3

LEMMA PutLineKeeps == ASSUME LinesInv, PutLine PROVE LinesInv'
<1>1. /\ printed' = printed + 1 /\ pru_out' = Append(pru_out, printed + 1)
      /\ UNCHANGED <<timer, asked, serving, answers, console, dropped>>
  BY DEF PutLine, net
<1>2. pru_out \in Seq(Nat) /\ printed \in Nat /\ printed + 1 \in Nat
  BY DEF LinesInv, LinesType
<1>3. /\ pru_out' \in Seq(Nat) /\ Len(pru_out) \in Nat /\ Len(pru_out') = Len(pru_out) + 1
      /\ \A k \in 1 .. Len(pru_out) : pru_out'[k] = pru_out[k]
      /\ pru_out'[Len(pru_out) + 1] = printed + 1
  BY <1>1, <1>2, Appended
<1>4. Taken' = Taken /\ Taken \in Nat /\ Taken + (Len(pru_out) + 1) = printed + 1
  BY <1>1, <1>2, <1>3 DEF LinesInv, QueueInv, Taken
<1>5. QueueInv'
  <2>1. ASSUME NEW k \in 1 .. Len(pru_out) + 1 PROVE pru_out'[k] = Taken + k
    <3>1. CASE k \in 1 .. Len(pru_out)
      BY <1>3, <3>1 DEF LinesInv, QueueInv
    <3>2. CASE k = Len(pru_out) + 1
      BY <1>3, <1>4, <3>2
    <3>. QED  BY <1>3, <3>1, <3>2
  <2>. QED  BY <1>3, <1>4, <2>1 DEF QueueInv
<1>6. LinesType'
  BY <1>1, <1>2, <1>3 DEF LinesInv, LinesType
<1>7. PendingInv'
  BY <1>1 DEF LinesInv, PendingInv, For
<1>8. PlaceInv' /\ OnceInv' /\ SortInv'
  <2>1. Held' = Held
    BY <1>1 DEF Held
  <2>2. serving' # None => Sorted(serving'.lines) /\ Below(console[serving'.page], serving'.lines)
    BY <1>1 DEF LinesInv, SortInv
  <2>. QED  BY <1>1, <1>4, <2>1, <2>2, Unmoved DEF LinesInv
<1>. QED  BY <1>5, <1>6, <1>7, <1>8 DEF LinesInv

LEMMA AskKeeps == ASSUME LinesInv, NEW p \in Pages, update_terminal(p) PROVE LinesInv'
<1>1. /\ timer[p] /\ timer' = [timer EXCEPT ![p] = FALSE]
      /\ asked' = [asked EXCEPT ![p] = @ + 1]
      /\ UNCHANGED <<serving, answers, pru_out, printed, console, dropped>>
  BY DEF update_terminal, output
<1>2. timer \in [Pages -> BOOLEAN] /\ asked \in [Pages -> Nat]
  BY DEF LinesInv, LinesType
<1>3. LinesType'
  <2>1. timer' \in [Pages -> BOOLEAN] /\ asked' \in [Pages -> Nat]
    BY <1>1, <1>2
  <2>. QED  BY <1>1, <2>1 DEF LinesInv, LinesType
<1>4. PendingInv'
  <2>1. \A q \in Pages : /\ timer'[q] = IF q = p THEN FALSE ELSE timer[q]
                         /\ asked'[q] = IF q = p THEN asked[q] + 1 ELSE asked[q]
    BY <1>1, <1>2
  <2>2. asked[p] = 0
    BY <1>1 DEF LinesInv, PendingInv
  <2>3. \A q \in Pages : For(q)' = For(q)
    BY <1>1 DEF For
  <2>4. \A q \in Pages : timer'[q] => asked'[q] = 0
    BY <2>1 DEF LinesInv, PendingInv
  <2>5. \A q \in Pages : asked'[q] <= 1
    <3>1. \A q \in Pages : asked[q] <= 1
      BY DEF LinesInv, PendingInv
    <3>2. \A q \in Pages : asked'[q] = IF q = p THEN 1 ELSE asked[q]
      <4>1. asked[p] + 1 = 1
        BY <2>2
      <4>. QED  BY <1>1, <1>2, <4>1
    <3>. QED  BY <3>1, <3>2
  <2>6. ASSUME NEW q \in Pages, timer'[q] \/ asked'[q] > 0 PROVE timer[q] \/ asked[q] > 0
    BY <1>1, <2>1, <2>6
  <2>7. \A a \in answers : ~For(a.page)'
    BY <1>1 DEF LinesInv, PendingInv, For
  <2>. QED  BY <1>1, <2>3, <2>4, <2>5, <2>6, <2>7 DEF LinesInv, PendingInv
<1>5. QueueInv' /\ Taken' = Taken
  BY <1>1 DEF LinesInv, QueueInv, Taken
<1>6. PlaceInv' /\ OnceInv' /\ SortInv'
  <2>1. Held' = Held
    BY <1>1 DEF Held
  <2>2. serving' # None => Sorted(serving'.lines) /\ Below(console[serving'.page], serving'.lines)
    BY <1>1 DEF LinesInv, SortInv
  <2>. QED  BY <1>1, <1>5, <2>1, <2>2, Unmoved DEF LinesInv
<1>. QED  BY <1>3, <1>4, <1>5, <1>6 DEF LinesInv

LEMMA ServeKeeps == ASSUME LinesInv, NEW p \in Pages, route_output(p) PROVE LinesInv'
<1>1. /\ serving = None /\ asked[p] > 0 /\ asked' = [asked EXCEPT ![p] = @ - 1]
      /\ serving' = [page |-> p, lines |-> << >>]
      /\ UNCHANGED <<timer, answers, pru_out, printed, console, dropped>>
  BY DEF route_output, ServerIdle, output
<1>2. asked \in [Pages -> Nat] /\ timer \in [Pages -> BOOLEAN]
  BY DEF LinesInv, LinesType
<1>3. asked[p] = 1
  BY <1>1, <1>2 DEF LinesInv, PendingInv
<1>4. \A q \in Pages : asked'[q] = IF q = p THEN 0 ELSE asked[q]
  BY <1>1, <1>2, <1>3
<1>5. LinesType'
  <2>1. asked' \in [Pages -> Nat]
    <3>1. asked[p] - 1 \in Nat
      BY <1>3
    <3>. QED  BY <1>1, <1>2, <3>1
  <2>2. serving' \in Answers
    BY <1>1, EmptySeq DEF Answers
  <2>. QED  BY <1>1, <2>1, <2>2 DEF LinesInv, LinesType
<1>6. PendingInv'
  <2>1. \A q : For(q)' => q = p
    BY <1>1 DEF For
  <2>2. ~timer[p] /\ \A a \in answers : a.page # p
    BY <1>1, <1>3 DEF LinesInv, PendingInv
  <2>3. ASSUME NEW q \in Pages, timer'[q] \/ asked'[q] > 0
        PROVE  ~For(q)' /\ (\A a \in answers : a.page # q)
    <3>1. q # p
      BY <1>1, <1>4, <2>2, <2>3
    <3>2. timer[q] \/ asked[q] > 0
      BY <1>1, <1>4, <2>3, <3>1
    <3>. QED  BY <2>1, <3>1, <3>2 DEF LinesInv, PendingInv
  <2>4. \A q \in Pages : timer'[q] => asked'[q] = 0
    BY <1>1, <1>4 DEF LinesInv, PendingInv
  <2>5. \A q \in Pages : asked'[q] <= 1
    BY <1>2, <1>4 DEF LinesInv, PendingInv
  <2>6. \A a \in answers : ~For(a.page)'
    BY <2>1, <2>2
  <2>. QED  BY <1>1, <2>3, <2>4, <2>5, <2>6 DEF LinesInv, PendingInv
<1>7. QueueInv' /\ Taken' = Taken
  BY <1>1 DEF LinesInv, QueueInv, Taken
<1>8. PlaceInv' /\ OnceInv' /\ SortInv'
  <2>1. Held' = Held
    BY <1>1, RangeEmpty DEF Held
  <2>2. Sorted(serving'.lines) /\ Below(console[serving'.page], serving'.lines)
    BY <1>1, RangeEmpty DEF Below
  <2>. QED  BY <1>1, <1>7, <2>1, <2>2, Unmoved DEF LinesInv
<1>. QED  BY <1>5, <1>6, <1>7, <1>8 DEF LinesInv

LEMMA TakeKeeps == ASSUME LinesInv, get_nowait PROVE LinesInv'
<1>. DEFINE x == Head(pru_out)
<1>1. /\ serving # None /\ pru_out # << >> /\ pru_out' = Tail(pru_out)
      /\ serving' = [serving EXCEPT !.lines = Append(@, x)]
      /\ UNCHANGED <<timer, asked, answers, printed, console, dropped>>
  BY DEF get_nowait
<1>2. /\ pru_out \in Seq(Nat) /\ printed \in Nat /\ serving \in Answers
  BY <1>1 DEF LinesInv, LinesType
<1>3. /\ pru_out' \in Seq(Nat) /\ Len(pru_out) \in Nat \ {0} /\ Len(pru_out') = Len(pru_out) - 1
      /\ \A k \in 1 .. Len(pru_out) - 1 : pru_out'[k] = pru_out[k + 1]
      /\ x = pru_out[1] /\ x \in Nat
  BY <1>1, <1>2, FirstTaken
<1>. HIDE DEF x
<1>4. Taken \in Nat /\ Taken' = Taken + 1 /\ x = Taken + 1
  <2>1. Taken \in Nat /\ \A k \in 1 .. Len(pru_out) : pru_out[k] = Taken + k
    BY DEF LinesInv, QueueInv
  <2>2. 1 \in 1 .. Len(pru_out)
    BY <1>3
  <2>. QED  BY <1>1, <1>2, <1>3, <2>1, <2>2 DEF Taken
<1>5. /\ serving.page \in Pages /\ serving.lines \in Seq(Nat)
      /\ serving' = [page |-> serving.page, lines |-> Append(serving.lines, x)]
  BY <1>1, <1>2 DEF Answers
<1>6. Append(serving.lines, x) \in Seq(Nat) /\ serving' \in Answers /\ serving' # None
  <2>1. Append(serving.lines, x) \in Seq(Nat)
    BY <1>3, <1>5, Appended
  <2>2. serving' \in Answers
    BY <1>5, <2>1 DEF Answers
  <2>. QED  BY <2>1, <2>2, NoneAssumption DEF Answers
<1>7. LinesType'
  BY <1>1, <1>2, <1>3, <1>6 DEF LinesInv, LinesType
<1>8. PendingInv'
  <2>1. \A q : For(q)' = For(q)
    BY <1>1, <1>5, <1>6 DEF For
  <2>. QED  BY <1>1, <2>1 DEF LinesInv, PendingInv
<1>9. QueueInv'
  <2>1. ASSUME NEW k \in 1 .. Len(pru_out) - 1 PROVE pru_out'[k] = Taken + 1 + k
    <3>1. k + 1 \in 1 .. Len(pru_out) /\ Taken + (k + 1) = Taken + 1 + k
      BY <1>3, <1>4
    <3>. QED  BY <1>3, <3>1 DEF LinesInv, QueueInv
  <2>. QED  BY <1>3, <1>4, <2>1 DEF QueueInv
<1>10. Held = Range(serving.lines) /\ Held' = Held \cup {x}
  BY <1>1, <1>3, <1>5, <1>6, RangeAppended DEF Held
<1>11. 1 .. Taken' = (1 .. Taken) \cup {x} /\ x \notin 1 .. Taken
  BY <1>4
<1>12. PlaceInv'
  BY <1>1, <1>10, <1>11 DEF LinesInv, PlaceInv
<1>13. OnceInv'
  <2>1. /\ x \notin dropped /\ \A a \in answers : x \notin Range(a.lines)
        /\ \A p \in Pages : x \notin Range(console[p])
    <3>1. /\ dropped \subseteq 1 .. Taken
          /\ \A a \in answers : Range(a.lines) \subseteq 1 .. Taken
          /\ \A p \in Pages : Range(console[p]) \subseteq 1 .. Taken
      BY DEF LinesInv, PlaceInv
    <3>2. x \notin 1 .. Taken
      BY <1>11
    <3>. QED  BY <3>1, <3>2
  <2>2. Held' \cap dropped = {} /\ \A a \in answers : Range(a.lines) \cap (Held' \cup dropped) = {}
    BY <1>10, <2>1 DEF LinesInv, OnceInv
  <2>3. \A p \in Pages : Range(console[p]) \cap (Held' \cup dropped) = {}
    BY <1>10, <2>1 DEF LinesInv, OnceInv
  <2>. QED  BY <1>1, <2>2, <2>3 DEF LinesInv, OnceInv
<1>14. SortInv'
  <2>1. Sorted(serving.lines) /\ Below(console[serving.page], serving.lines)
    BY <1>1 DEF LinesInv, SortInv
  <2>2. \A n \in 1 .. Taken : n < x
    BY <1>4
  <2>3. Sorted(serving'.lines)
    <3>1. \A n \in Range(serving.lines) : n < x
      BY <1>10, <2>2 DEF LinesInv, PlaceInv
    <3>. QED  BY <1>3, <1>5, <2>1, <3>1, SortedAppended
  <2>4. Below(console[serving.page], serving'.lines)
    <3>1. \A n \in Range(console[serving.page]) : n < x
      BY <1>5, <2>2 DEF LinesInv, PlaceInv
    <3>2. Range(serving'.lines) = Range(serving.lines) \cup {x}
      BY <1>3, <1>5, RangeAppended
    <3>. QED  BY <2>1, <3>1, <3>2 DEF Below
  <2>. QED  BY <1>1, <1>5, <2>3, <2>4 DEF LinesInv, SortInv
<1>. QED  BY <1>7, <1>8, <1>9, <1>12, <1>13, <1>14 DEF LinesInv

LEMMA AnswerKeeps == ASSUME LinesInv, Answer PROVE LinesInv'
<1>1. /\ serving # None /\ answers' = answers \cup {serving} /\ serving' = None
      /\ UNCHANGED <<timer, asked, pru_out, printed, console, dropped>>
  BY DEF Answer, output
<1>2. serving \in Answers /\ serving.page \in Pages
  BY <1>1 DEF LinesInv, LinesType, Answers
<1>3. LinesType'
  BY <1>1, <1>2 DEF LinesInv, LinesType
<1>4. PendingInv'
  <2>1. For(serving.page) /\ \A q : For(q) => q = serving.page
    BY <1>1 DEF For
  <2>2. \A q : ~For(q)'
    BY <1>1 DEF For
  <2>3. \A a \in answers : a.page # serving.page
    BY <2>1 DEF LinesInv, PendingInv
  <2>4. \A q \in Pages : timer[q] \/ asked[q] > 0 => \A a \in answers' : a.page # q
    BY <1>1, <2>1 DEF LinesInv, PendingInv
  <2>5. \A a, b \in answers' : a.page = b.page => a = b
    BY <1>1, <2>3 DEF LinesInv, PendingInv
  <2>. QED  BY <1>1, <2>2, <2>4, <2>5 DEF LinesInv, PendingInv
<1>5. QueueInv' /\ Taken' = Taken
  BY <1>1 DEF LinesInv, QueueInv, Taken
<1>6. Held = Range(serving.lines) /\ Held' = {}
  BY <1>1 DEF Held
<1>7. PlaceInv'
  BY <1>1, <1>5, <1>6 DEF LinesInv, PlaceInv
<1>8. OnceInv'
  BY <1>1, <1>6 DEF LinesInv, OnceInv
<1>9. SortInv'
  BY <1>1 DEF LinesInv, SortInv
<1>. QED  BY <1>3, <1>4, <1>5, <1>7, <1>8, <1>9 DEF LinesInv

(* An answer that comes, or is lost: its page sets its timer again.        *)
LEMMA AnsweredPending ==
  ASSUME LinesInv, NEW p \in Pages, NEW a \in answers, a.page = p,
         answers' = answers \ {a}, timer' = [timer EXCEPT ![p] = TRUE],
         UNCHANGED <<asked, serving>>
  PROVE  PendingInv'
<1>1. timer \in [Pages -> BOOLEAN] /\ asked \in [Pages -> Nat]
  BY DEF LinesInv, LinesType
<1>2. \A q \in Pages : timer'[q] = IF q = p THEN TRUE ELSE timer[q]
  BY <1>1
<1>3. ~timer[p] /\ ~(asked[p] > 0) /\ ~For(p) /\ \A b \in answers' : b.page # p
  BY DEF LinesInv, PendingInv
<1>4. \A q : For(q)' = For(q)
  BY DEF For
<1>5. asked[p] = 0
  BY <1>1, <1>3
<1>6. \A q \in Pages : timer'[q] => asked'[q] = 0
  BY <1>2, <1>5 DEF LinesInv, PendingInv
<1>7. \A q \in Pages : timer'[q] \/ asked'[q] > 0 => ~For(q)' /\ \A b \in answers' : b.page # q
  BY <1>2, <1>3, <1>4 DEF LinesInv, PendingInv
<1>. QED  BY <1>4, <1>6, <1>7 DEF LinesInv, PendingInv

LEMMA ShowKeeps == ASSUME LinesInv, NEW p \in Pages, ShowOutput(p) PROVE LinesInv'
<1>1. PICK a \in answers : /\ a.page = p
                           /\ console' = [console EXCEPT ![p] = @ \o a.lines]
                           /\ answers' = answers \ {a}
  BY DEF ShowOutput
<1>2. /\ timer' = [timer EXCEPT ![p] = TRUE]
      /\ UNCHANGED <<asked, serving, pru_out, printed, dropped>>
  BY DEF ShowOutput
<1>3. /\ console \in [Pages -> Seq(Nat)] /\ timer \in [Pages -> BOOLEAN]
      /\ a.lines \in Seq(Nat) /\ console[p] \in Seq(Nat)
  BY DEF LinesInv, LinesType, Answers
<1>4. \A q \in Pages : console'[q] = IF q = p THEN console[p] \o a.lines ELSE console[q]
  BY <1>1, <1>3
<1>5. /\ console[p] \o a.lines \in Seq(Nat)
      /\ Range(console[p] \o a.lines) = Range(console[p]) \cup Range(a.lines)
      /\ Sorted(console[p] \o a.lines)
  BY <1>1, <1>3, Shown DEF LinesInv, SortInv
<1>6. LinesType'
  <2>1. console' \in [Pages -> Seq(Nat)] /\ timer' \in [Pages -> BOOLEAN]
    BY <1>1, <1>2, <1>3, <1>5
  <2>. QED  BY <1>1, <1>2, <2>1 DEF LinesInv, LinesType
<1>7. PendingInv'
  BY <1>1, <1>2, AnsweredPending
<1>8. QueueInv' /\ Taken' = Taken
  BY <1>2 DEF LinesInv, QueueInv, Taken
<1>9. Held' = Held
  BY <1>2 DEF Held
<1>10. \A q \in Pages : Range(console'[q]) = IF q = p THEN Range(console[p]) \cup Range(a.lines)
                                              ELSE Range(console[q])
  BY <1>4, <1>5
<1>11. PlaceInv'
  <2>1. \A q \in Pages : Range(console'[q]) \subseteq 1 .. Taken
    BY <1>10 DEF LinesInv, PlaceInv
  <2>2. ASSUME NEW n \in 1 .. Taken
        PROVE  \/ n \in Held
               \/ n \in dropped
               \/ \E b \in answers' : n \in Range(b.lines)
               \/ \E q \in Pages : n \in Range(console'[q])
    BY <1>1, <1>10 DEF LinesInv, PlaceInv
  <2>. QED  BY <1>1, <1>2, <1>8, <1>9, <2>1, <2>2 DEF LinesInv, PlaceInv
<1>12. OnceInv'
  <2>1. \A b \in answers', q \in Pages : Range(b.lines) \cap Range(console'[q]) = {}
    <3>1. \A b \in answers' : b \in answers /\ Range(b.lines) \cap Range(a.lines) = {}
      BY <1>1 DEF LinesInv, OnceInv
    <3>2. \A b \in answers', q \in Pages : Range(b.lines) \cap Range(console[q]) = {}
      BY <3>1 DEF LinesInv, OnceInv
    <3>. QED  BY <1>10, <3>1, <3>2
  <2>2. \A q, r \in Pages : q # r => Range(console'[q]) \cap Range(console'[r]) = {}
    BY <1>10 DEF LinesInv, OnceInv
  <2>3. \A q \in Pages : Range(console'[q]) \cap (Held \cup dropped) = {}
    BY <1>10 DEF LinesInv, OnceInv
  <2>. QED  BY <1>1, <1>2, <1>9, <2>1, <2>2, <2>3 DEF LinesInv, OnceInv
<1>13. SortInv'
  <2>1. ~For(p) /\ \A b \in answers' : b.page # p
    BY <1>1 DEF LinesInv, PendingInv
  <2>2. /\ serving # None => serving.page \in Pages /\ serving.page # p
        /\ \A b \in answers' : b.page \in Pages /\ b.page # p /\ b \in answers
    BY <1>1, <2>1 DEF LinesInv, LinesType, Answers, For
  <2>3. \A q \in Pages : Sorted(console'[q])
    BY <1>4, <1>5 DEF LinesInv, SortInv
  <2>. QED  BY <1>2, <1>4, <2>2, <2>3 DEF LinesInv, SortInv
<1>. QED  BY <1>6, <1>7, <1>8, <1>11, <1>12, <1>13 DEF LinesInv

LEMMA FailKeeps == ASSUME LinesInv, NEW p \in Pages, Fail(p) PROVE LinesInv'
<1>1. PICK a \in answers : /\ a.page = p
                           /\ dropped' = dropped \cup Range(a.lines)
                           /\ answers' = answers \ {a}
  BY DEF Fail
<1>2. /\ timer' = [timer EXCEPT ![p] = TRUE]
      /\ UNCHANGED <<asked, serving, pru_out, printed, console>>
  BY DEF Fail
<1>3. Taken \in Nat /\ Range(a.lines) \subseteq 1 .. Taken
  BY DEF LinesInv, QueueInv, PlaceInv
<1>4. LinesType'
  <2>1. timer' \in [Pages -> BOOLEAN]
    BY <1>2 DEF LinesInv, LinesType
  <2>2. dropped' \subseteq Nat
    <3>1. dropped \subseteq Nat
      BY DEF LinesInv, LinesType
    <3>2. 1 .. Taken \subseteq Nat
      OBVIOUS
    <3>. QED  BY <1>1, <1>3, <3>1, <3>2
  <2>. QED  BY <1>1, <1>2, <2>1, <2>2 DEF LinesInv, LinesType
<1>5. PendingInv'
  BY <1>1, <1>2, AnsweredPending
<1>6. QueueInv' /\ Taken' = Taken /\ Held' = Held
  BY <1>2 DEF LinesInv, QueueInv, Taken, Held
<1>7. PlaceInv'
  BY <1>1, <1>2, <1>3, <1>6 DEF LinesInv, PlaceInv
<1>8. OnceInv'
  BY <1>1, <1>2, <1>6 DEF LinesInv, OnceInv
<1>9. SortInv'
  BY <1>1, <1>2 DEF LinesInv, SortInv
<1>. QED  BY <1>4, <1>5, <1>6, <1>7, <1>8, <1>9 DEF LinesInv

LEMMA ClearKeeps == ASSUME LinesInv, NEW p \in Pages, ClickClear(p) PROVE LinesInv'
<1>1. /\ console' = [console EXCEPT ![p] = << >>]
      /\ dropped' = dropped \cup Range(console[p])
      /\ UNCHANGED <<timer, asked, serving, answers, pru_out, printed>>
  BY DEF ClickClear, net
<1>2. Taken \in Nat /\ Range(console[p]) \subseteq 1 .. Taken
  BY DEF LinesInv, QueueInv, PlaceInv
<1>3. console \in [Pages -> Seq(Nat)]
  BY DEF LinesInv, LinesType
<1>4. \A q \in Pages : console'[q] = IF q = p THEN << >> ELSE console[q]
  BY <1>1, <1>3
<1>5. LinesType'
  <2>1. console' \in [Pages -> Seq(Nat)]
    BY <1>1, <1>3, EmptySeq
  <2>2. dropped' \subseteq Nat
    <3>1. dropped \subseteq Nat
      BY DEF LinesInv, LinesType
    <3>2. 1 .. Taken \subseteq Nat
      OBVIOUS
    <3>. QED  BY <1>1, <1>2, <3>1, <3>2
  <2>. QED  BY <1>1, <2>1, <2>2 DEF LinesInv, LinesType
<1>6. PendingInv'
  BY <1>1 DEF LinesInv, PendingInv, For
<1>7. QueueInv' /\ Taken' = Taken /\ Held' = Held
  BY <1>1 DEF LinesInv, QueueInv, Taken, Held
<1>8. \A q \in Pages : Range(console'[q]) = IF q = p THEN {} ELSE Range(console[q])
  BY <1>4, RangeEmpty
<1>9. PlaceInv'
  <2>1. \A q \in Pages : Range(console'[q]) \subseteq 1 .. Taken
    BY <1>8 DEF LinesInv, PlaceInv
  <2>2. ASSUME NEW n \in 1 .. Taken
        PROVE  \/ n \in Held
               \/ n \in dropped'
               \/ \E b \in answers : n \in Range(b.lines)
               \/ \E q \in Pages : n \in Range(console'[q])
    BY <1>1, <1>8 DEF LinesInv, PlaceInv
  <2>. QED  BY <1>1, <1>2, <1>7, <2>1, <2>2 DEF LinesInv, PlaceInv
<1>10. OnceInv'
  <2>1. \A b \in answers, q \in Pages : Range(b.lines) \cap Range(console'[q]) = {}
    BY <1>8 DEF LinesInv, OnceInv
  <2>2. \A q, r \in Pages : q # r => Range(console'[q]) \cap Range(console'[r]) = {}
    BY <1>8 DEF LinesInv, OnceInv
  <2>3. \A q \in Pages : Range(console'[q]) \cap (Held \cup dropped') = {}
    BY <1>1, <1>8 DEF LinesInv, OnceInv
  <2>4. Held \cap dropped' = {} /\ \A b \in answers : Range(b.lines) \cap (Held \cup dropped') = {}
    BY <1>1 DEF LinesInv, OnceInv
  <2>. QED  BY <1>1, <1>7, <2>1, <2>2, <2>3, <2>4 DEF LinesInv, OnceInv
<1>11. SortInv'
  <2>1. \A q \in Pages : Sorted(console'[q])
    BY <1>4, RangeEmpty DEF LinesInv, SortInv
  <2>2. \A q \in Pages, s \in Seq(Nat) : Below(console[q], s) => Below(console'[q], s)
    BY <1>8 DEF Below
  <2>3. /\ serving # None => serving.page \in Pages /\ serving.lines \in Seq(Nat)
        /\ \A b \in answers : b.page \in Pages /\ b.lines \in Seq(Nat)
    BY DEF LinesInv, LinesType, Answers
  <2>. QED  BY <1>1, <2>1, <2>2, <2>3 DEF LinesInv, SortInv
<1>. QED  BY <1>5, <1>6, <1>7, <1>9, <1>10, <1>11 DEF LinesInv

LEMMA LinesStutter == ASSUME LinesInv, UNCHANGED lines PROVE LinesInv'
<1>1. UNCHANGED <<timer, asked, serving, answers, pru_out, printed, console, dropped>>
  BY DEF lines, output
<1>2. LinesType'
  BY <1>1 DEF LinesInv, LinesType
<1>3. PendingInv'
  BY <1>1 DEF LinesInv, PendingInv, For
<1>4. QueueInv' /\ Taken' = Taken /\ Held' = Held
  BY <1>1 DEF LinesInv, QueueInv, Taken, Held
<1>5. PlaceInv' /\ OnceInv' /\ SortInv'
  <2>1. serving' # None => Sorted(serving'.lines) /\ Below(console[serving'.page], serving'.lines)
    BY <1>1 DEF LinesInv, SortInv
  <2>. QED  BY <1>1, <1>4, <2>1, Unmoved DEF LinesInv
<1>. QED  BY <1>2, <1>3, <1>4, <1>5 DEF LinesInv

LEMMA LinesNext == LinesInv /\ [IdeNext]_allvars => LinesInv'
<1>. SUFFICES ASSUME LinesInv, [IdeNext]_allvars PROVE LinesInv'
  OBVIOUS
<1>1. ASSUME NEW p \in Pages, Click(p) PROVE LinesInv'
  <2>1. CASE ClickCompile(p) \/ ClickRun(p)
    <3>1. UNCHANGED lines
      BY <2>1 DEF ClickCompile, ClickRun, net, lines
    <3>. QED  BY <3>1, LinesStutter
  <2>. QED  BY <1>1, <2>1, ClearKeeps DEF Click
<1>2. ASSUME NEW p \in Pages, EventLoop(p) PROVE LinesInv'
  BY <1>2, AskKeeps, ShowKeeps, FailKeeps DEF EventLoop
<1>3. CASE Server
  <2>1. CASE route_post \/ SecondHalf
    <3>1. UNCHANGED lines
      BY <2>1 DEF route_post, SecondHalf, net, lines
    <3>. QED  BY <3>1, LinesStutter
  <2>. QED  BY <1>3, <2>1, TakeKeeps, AnswerKeeps, ServeKeeps DEF Server
<1>4. CASE ClickStop \/ Internal \/ Ends \/ UNCHANGED allvars
  <2>1. UNCHANGED lines
    BY <1>4 DEF ClickStop, Internal, Ends, allvars, net, lines
  <2>. QED  BY <2>1, LinesStutter
<1>. QED  BY <1>1, <1>2, <1>3, <1>4, PutLineKeeps DEF IdeNext

(* Whatever answers are lost and whoever clears the terminal, on any       *)
(* number of pages: each line that was printed is in the queue, on its     *)
(* way, shown or dropped, in one place, and no page shows lines out of     *)
(* order.                                                                  *)
THEOREM NoLineLost == IdeSpec => []LinesConserved
<1>1. LinesInv => LinesConserved
  <2>. SUFFICES ASSUME LinesInv PROVE LinesConserved
    OBVIOUS
  <2>. DEFINE queue == [at |-> "queue", lines |-> Range(pru_out)]
              way == [at |-> "underway", lines |-> Underway]
              lost == [at |-> "dropped", lines |-> dropped]
              shown(p) == [at |-> p, lines |-> Range(console[p])]
              places == {queue, way, lost} \cup {shown(p) : p \in Pages}
              in == UNION {Range(a.lines) : a \in answers}
  <2>1. Taken \in Nat /\ printed \in Nat /\ Len(pru_out) \in Nat /\ Taken + Len(pru_out) = printed
    <3>1. pru_out \in Seq(Nat) /\ printed \in Nat
      BY DEF LinesInv, LinesType
    <3>2. Len(pru_out) \in Nat
      BY <3>1, LenProperties
    <3>. QED  BY <3>1, <3>2 DEF LinesInv, QueueInv, Taken
  <2>2. Range(pru_out) = Taken + 1 .. printed
    <3>1. \A n : n \in Range(pru_out) <=> \E k \in 1 .. Len(pru_out) : n = pru_out[k]
      BY RangeOf DEF LinesInv, LinesType
    <3>2. \A k \in 1 .. Len(pru_out) : pru_out[k] = Taken + k
      BY DEF LinesInv, QueueInv
    <3>3. ASSUME NEW n \in Range(pru_out) PROVE n \in Taken + 1 .. printed
      <4>1. PICK k \in 1 .. Len(pru_out) : n = Taken + k
        BY <3>1, <3>2
      <4>. QED  BY <2>1, <4>1
    <3>4. ASSUME NEW n \in Taken + 1 .. printed PROVE n \in Range(pru_out)
      <4>1. n - Taken \in 1 .. Len(pru_out) /\ n = Taken + (n - Taken)
        BY <2>1
      <4>. QED  BY <3>1, <3>2, <4>1
    <3>. QED  BY <3>3, <3>4
  <2>3. Underway = Held \cup in
    BY DEF Underway, Held
  <2>4. /\ Underway \subseteq 1 .. Taken /\ dropped \subseteq 1 .. Taken
        /\ \A p \in Pages : Range(console[p]) \subseteq 1 .. Taken
    BY <2>3 DEF LinesInv, PlaceInv
  <2>5. \A n \in 1 .. Taken : \/ n \in Underway \/ n \in dropped
                              \/ \E p \in Pages : n \in Range(console[p])
    BY <2>3 DEF LinesInv, PlaceInv
  <2>6. /\ Underway \cap dropped = {}
        /\ \A p \in Pages : Range(console[p]) \cap Underway = {}
        /\ \A p \in Pages : Range(console[p]) \cap dropped = {}
        /\ \A p, q \in Pages : p # q => Range(console[p]) \cap Range(console[q]) = {}
    BY <2>3 DEF LinesInv, OnceInv
  <2>7. /\ 1 .. printed = (1 .. Taken) \cup Range(pru_out)
        /\ Range(pru_out) \cap 1 .. Taken = {}
    BY <2>1, <2>2
  <2>8. /\ queue.lines = Range(pru_out) /\ way.lines = Underway /\ lost.lines = dropped
        /\ \A p \in Pages : shown(p).lines = Range(console[p])
    OBVIOUS
  <2>9. \A s : s \in places <=> s = queue \/ s = way \/ s = lost \/ \E p \in Pages : s = shown(p)
    OBVIOUS
  <2>. HIDE DEF queue, way, lost, shown, places, in
  <2>10. UNION {s.lines : s \in places} = 1 .. printed
    <3>1. ASSUME NEW s \in places PROVE s.lines \subseteq 1 .. printed
      <4>1. s.lines \subseteq (1 .. Taken) \cup Range(pru_out)
        <5>1. CASE \E p \in Pages : s = shown(p)
          BY <2>4, <2>8, <5>1
        <5>. QED  BY <2>4, <2>8, <2>9, <5>1
      <4>. QED  BY <2>7, <4>1
    <3>2. \A n \in 1 .. printed : \E s \in places : n \in s.lines
      BY <2>5, <2>7, <2>8, <2>9
    <3>. QED  BY <3>1, <3>2
  <2>11. ASSUME NEW n \in 1 .. printed PROVE Cardinality({s \in places : n \in s.lines}) = 1
    <3>1. PICK s \in places : n \in s.lines
      BY <2>10
    <3>2. ASSUME NEW t \in places, n \in t.lines PROVE t = s
      <4>1. CASE n \in Range(pru_out)
        <5>1. /\ n \notin Underway /\ n \notin dropped
              /\ \A p \in Pages : n \notin Range(console[p])
          BY <2>4, <2>7, <4>1
        <5>. QED  BY <2>8, <2>9, <3>1, <3>2, <5>1
      <4>2. CASE n \in Underway
        <5>1. /\ n \notin Range(pru_out) /\ n \notin dropped
              /\ \A p \in Pages : n \notin Range(console[p])
          BY <2>4, <2>6, <2>7, <4>2
        <5>. QED  BY <2>8, <2>9, <3>1, <3>2, <5>1
      <4>3. CASE n \in dropped
        <5>1. /\ n \notin Range(pru_out) /\ n \notin Underway
              /\ \A p \in Pages : n \notin Range(console[p])
          BY <2>4, <2>6, <2>7, <4>3
        <5>. QED  BY <2>8, <2>9, <3>1, <3>2, <5>1
      <4>4. ASSUME NEW p \in Pages, n \in Range(console[p]) PROVE t = s
        <5>1. /\ n \notin Range(pru_out) /\ n \notin Underway /\ n \notin dropped
              /\ \A q \in Pages : n \in Range(console[q]) => q = p
          BY <2>4, <2>6, <2>7, <4>4
        <5>2. s = shown(p) /\ t = shown(p)
          BY <2>8, <2>9, <3>1, <3>2, <5>1
        <5>. QED  BY <5>2
      <4>. QED  BY <2>5, <2>7, <4>1, <4>2, <4>3, <4>4
    <3>3. {t \in places : n \in t.lines} = {s}
      BY <3>1, <3>2
    <3>. QED  BY <3>3, FS_Singleton
  <2>12. \A p \in Pages : Sorted(console[p])
    BY DEF LinesInv, SortInv
  <2>. QED  BY <2>10, <2>11, <2>12 DEF LinesConserved, places, queue, way, lost, shown, Sorted
<1>. QED  BY <1>1, LinesInit, LinesNext, PTL DEF IdeSpec
=============================================================================
