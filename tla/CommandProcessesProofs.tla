------------------------ MODULE CommandProcessesProofs ------------------------
(***************************************************************************)
(* Proofs about CommandProcesses, for any set of requests and any number of *)
(* requests and processes: its types, that the cameras have one owner, and  *)
(* that no living process is forgotten.                                     *)
(***************************************************************************)
EXTENDS CommandProcesses, FiniteSetTheorems, TLAPS

------------------------------------------------------------------------------
(* The work a thread may have ahead of it.                                  *)

EndpointOn == <<Reap, New("endpoint")>>
EndpointNew == <<New("endpoint")>>
RuntimeNew == <<New("reliability")>>
RuntimeAsk == <<Ask("reliability", <<>>, RuntimeNew)>>
RuntimeOn == <<Drop("test"), Ask("reliability", <<>>, RuntimeNew)>>
RuntimeOff == <<Drop("reliability")>>
TestNew == <<New("test")>>
Restart == <<Drop("test"), New("test")>>
TestOn == <<Ask("reliability", <<>>, Restart)>>
TestOff == <<Drop("test")>>
Save == <<Ask("test", Restart, <<>>)>>

\* The work at whose end an object may be made.
Creating == {EndpointOn, EndpointNew, RuntimeNew, RuntimeAsk, RuntimeOn,
             TestNew, Restart, TestOn, Save}
Plain == [op : {"reap", "ask", "quit", "stop", "forget"}, kind : {"endpoint"},
          obj : Objects \cup {0}, yes : {<<>>}, no : {<<>>}]
Ending == [op : {"reap", "ask", "quit", "clear"}, kind : {"endpoint"},
           obj : {0}, yes : {<<>>, <<Quit("endpoint")>>}, no : {<<>>}]

WorkOK ==
  /\ todo = [t \in Threads |-> todo[t]]
  /\ todo["handler"] \in Creating \cup {RuntimeOff, TestOff} \cup Seq(Plain)
  /\ todo["main"] \in {Shutdown, AfterRuntime} \cup Seq(Ending)
  /\ todo["main"] \in {Shutdown, AfterRuntime} => main = "leaving"

------------------------------------------------------------------------------
(* The inductive invariant.                                                 *)

Active(t) == call[t].at # "none"
\* The object is one of an endpoint; it is one of camera program k.
ForEndpoint(o) == obj[o].proc = 0 \/ proc[obj[o].proc].of = "endpoint"
Holds(o, k) == obj[o].proc # 0 /\ ~obj[o].reused /\ proc[obj[o].proc].of = k
Dead(o) == ~Alive(obj[o].proc)
NoneLives(k) == \A p \in Procs : Alive(p) => proc[p].of # k

\* An object's process is not given to another one.
Referenced ==
  \A o \in Objects : obj[o].proc # 0 => proc[obj[o].proc].leader # "none"

\* Objects to come are blank; what is in use has been made.
Young ==
  /\ \A o \in Objects : o > requests => obj[o] = NoObject
  /\ \A k \in Kinds : slot[k] <= requests
  /\ \A t \in Threads : call[t].obj <= requests

\* The object the handler is to make is known to nobody else, and blank until
\* it has a process.
Unborn ==
  /\ todo["handler"] \in Creating
  /\ ~(Top("handler").op = "new" /\ call["handler"].at \in {"grace", "done"})
Fresh ==
  /\ todo["handler"] \in Creating =>
       /\ requests \in Objects
       /\ \A k \in Kinds : slot[k] # requests
       /\ Active("main") => call["main"].obj # requests
       /\ Active("handler") /\ Top("handler").op # "new" => call["handler"].obj # requests
  /\ Unborn => obj[requests] = NoObject

EndpointsOK ==
  /\ slot["endpoint"] # 0 => ForEndpoint(slot["endpoint"])
  /\ \A t \in Threads :
       Active(t) /\ Top(t).kind = "endpoint" => ForEndpoint(call[t].obj)
  /\ todo["handler"] \in Seq(Plain) =>
       \A i \in DOMAIN todo["handler"] :
         todo["handler"][i].obj # 0 =>
           ForEndpoint(todo["handler"][i].obj) /\ todo["handler"][i].obj <= requests
SlotsOK == \A k \in Cameras : slot[k] # 0 => Holds(slot[k], k)

\* A thread that asks about or stops a camera program, and one that starts it.
Asking(t) ==
  /\ call[t].at \in {"probe", "done"} /\ call[t].wants = "poll"
  /\ Holds(call[t].obj, Top(t).kind)
  /\ call[t].at = "done" /\ ~call[t].alive => Dead(call[t].obj)
Dropping(t) ==
  /\ call[t].at \in {"signal", "wait", "done"}
  /\ Holds(call[t].obj, Top(t).kind)
  /\ call[t].at = "wait" => call[t].proc = obj[call[t].obj].proc
  /\ call[t].at = "done" => Dead(call[t].obj)
Making(t) ==
  /\ call[t].at = "grace" \/ (call[t].at = "done" /\ call[t].alive) =>
       Holds(call[t].obj, Top(t).kind)
  /\ call[t].at = "grace" => call[t].proc = obj[call[t].obj].proc
  /\ call[t].at = "done" /\ ~call[t].alive => Dead(call[t].obj)
CallOK(t) ==
  /\ todo[t] # <<>> /\ call[t].obj \in Objects
  /\ Top(t).op = "new" =>
       /\ call[t].at \in {"enter", "spawn", "grace", "done"} /\ call[t].wants = "start"
       /\ call[t].obj = requests
  /\ Top(t).kind \in Cameras =>
       \/ Top(t).op = "ask" /\ Asking(t)
       \/ Top(t).op = "drop" /\ Dropping(t)
       \/ Top(t).op = "new" /\ Making(t)
CallsOK == \A t \in Threads : Active(t) => CallOK(t)

\* The entry of the camera program a thread works on is that object's, or none.
EntriesOK ==
  /\ Active("handler") /\ Top("handler").kind \in Cameras /\ Top("handler").op # "new" =>
       slot[Top("handler").kind] \in {0, call["handler"].obj}
  /\ Active("main") /\ Top("main").kind \in Cameras =>
       slot[Top("main").kind] \in {0, call["main"].obj} \/ todo["handler"] \notin Creating

\* A living camera program has its entry, or is being started, or main leaves
\* and no other will be started.
Owned ==
  \A p \in Procs : Alive(p) /\ proc[p].of \in Cameras =>
    \/ slot[proc[p].of] # 0 /\ obj[slot[proc[p].of]].proc = p
    \/ /\ call["handler"].at \in {"grace", "done"}
       /\ Top("handler") = New(proc[p].of) /\ obj[call["handler"].obj].proc = p
    \/ main # "serving" /\ todo["handler"] \notin Creating

\* What the handler has made sure of before it starts a camera program.
Cleared ==
  /\ todo["handler"] = RuntimeAsk => NoneLives("test")
  /\ todo["handler"] = Restart => NoneLives("reliability")
  /\ todo["handler"] \in {RuntimeNew, TestNew} /\ call["handler"].at \in {"none", "enter", "spawn"} =>
       \A k \in Cameras : NoneLives(k)
  /\ todo["handler"] \in {RuntimeNew, TestNew} /\ call["handler"].at \in {"grace", "done"} =>
       \A p \in Procs : Alive(p) /\ proc[p].of \in Cameras => obj[call["handler"].obj].proc = p
  /\ todo["handler"] = Save /\ call["handler"].at = "done" /\ call["handler"].alive =>
       NoneLives("reliability")

OneLives ==
  \A p, q \in Procs :
    Alive(p) /\ Alive(q) /\ proc[p].of \in Cameras /\ proc[q].of \in Cameras => p = q

Inv ==
  /\ TypeOK /\ WorkOK /\ CallsOK /\ Referenced /\ Young /\ Fresh
  /\ EndpointsOK /\ SlotsOK /\ EntriesOK /\ Owned /\ Cleared /\ OneLives

------------------------------------------------------------------------------
(* Facts about the pieces of work.                                          *)

LEMMA OtherThread ==
  /\ Other("handler") = "main" /\ Other("main") = "handler"
  /\ Threads = {"handler", "main"}
  BY DEF Other, Threads

LEMMA StepFields ==
  ASSUME NEW op, NEW k, NEW yes, NEW no
  PROVE  /\ Step(op, k) = [op |-> op, kind |-> k, obj |-> 0, yes |-> <<>>, no |-> <<>>]
         /\ Ask(k, yes, no) = [op |-> "ask", kind |-> k, obj |-> 0, yes |-> yes, no |-> no]
  BY DEF Step, Ask

LEMMA Pieces ==
  /\ Head(EndpointOn) = Reap /\ Tail(EndpointOn) = EndpointNew
  /\ Head(EndpointNew) = New("endpoint") /\ Tail(EndpointNew) = <<>>
  /\ Head(RuntimeOn) = Drop("test") /\ Tail(RuntimeOn) = RuntimeAsk
  /\ Head(RuntimeAsk) = Ask("reliability", <<>>, RuntimeNew) /\ Tail(RuntimeAsk) = <<>>
  /\ Head(RuntimeNew) = New("reliability") /\ Tail(RuntimeNew) = <<>>
  /\ Head(RuntimeOff) = Drop("reliability") /\ Tail(RuntimeOff) = <<>>
  /\ Head(TestOn) = Ask("reliability", <<>>, Restart) /\ Tail(TestOn) = <<>>
  /\ Head(Restart) = Drop("test") /\ Tail(Restart) = TestNew
  /\ Head(TestNew) = New("test") /\ Tail(TestNew) = <<>>
  /\ Head(TestOff) = Drop("test") /\ Tail(TestOff) = <<>>
  /\ Head(Save) = Ask("test", Restart, <<>>) /\ Tail(Save) = <<>>
  BY DEF EndpointOn, EndpointNew, RuntimeOn, RuntimeAsk, RuntimeNew, RuntimeOff, TestOn,
         Restart, TestNew, TestOff, Save

LEMMA PiecesNotEmpty ==
  \A w \in Creating \cup {RuntimeOff, TestOff} : w # <<>>
  BY DEF Creating, EndpointOn, EndpointNew, RuntimeOn, RuntimeAsk, RuntimeNew, RuntimeOff,
         TestOn, Restart, TestNew, TestOff, Save

LEMMA Leaving ==
  /\ Head(Shutdown) = Drop("reliability") /\ Tail(Shutdown) = AfterRuntime
  /\ Head(AfterRuntime) = Drop("test") /\ Tail(AfterRuntime) = ShutdownAll
  /\ ShutdownAll \in Seq(Ending) /\ Shutdown # <<>> /\ AfterRuntime # <<>>
  <1>1. ShutdownAll \in Seq(Ending)
    <2>1. /\ Ask("endpoint", <<Quit("endpoint")>>, <<>>) \in Ending
          /\ Look("endpoint") \in Ending /\ Quit("endpoint") \in Ending
          /\ Step("clear", "endpoint") \in Ending
      BY StepFields DEF Ending, Look, Quit
    <2> QED
      BY <2>1 DEF ShutdownAll
  <1> DEFINE All == Ending \cup {Drop("test"), Drop("reliability")}
  <1> HIDE DEF All
  <1>2. ShutdownAll \in Seq(All) /\ Drop("test") \in All /\ Drop("reliability") \in All
    BY <1>1 DEF All
  <1>3. ASSUME NEW a \in All, NEW s \in Seq(All)
        PROVE  <<a>> \o s \in Seq(All) /\ Head(<<a>> \o s) = a /\ Tail(<<a>> \o s) = s
               /\ <<a>> \o s # <<>>
    OBVIOUS
  <1>4. AfterRuntime \in Seq(All)
    BY <1>2, <1>3 DEF AfterRuntime
  <1> QED
    BY <1>1, <1>2, <1>3, <1>4 DEF Shutdown, AfterRuntime

LEMMA PieceFields ==
  /\ \A k : Drop(k).op = "drop" /\ Drop(k).kind = k /\ Drop(k).obj = 0
  /\ \A k : New(k).op = "new" /\ New(k).kind = k /\ New(k).obj = 0
  /\ \A k, yes, no : /\ Ask(k, yes, no).op = "ask" /\ Ask(k, yes, no).kind = k
                     /\ Ask(k, yes, no).obj = 0 /\ Ask(k, yes, no).yes = yes
                     /\ Ask(k, yes, no).no = no
  /\ Reap.op = "reap" /\ Reap.kind = "endpoint" /\ Reap.obj = 0
  BY DEF Drop, New, Ask, Reap, Step

\* What the step at the head of the work may be.
LEMMA TopFields ==
  ASSUME WorkOK, NEW t \in Threads, todo[t] # <<>>
  PROVE  /\ Top(t).kind \in Kinds /\ Top(t).obj \in Objects \cup {0}
         /\ Top(t).kind # "endpoint" => Top(t).obj = 0 /\ Top(t).op \in {"ask", "drop", "new"}
         /\ t = "main" /\ Top(t).kind # "endpoint" => Top(t).op = "drop" /\ main = "leaving"
         /\ t = "main" => Top(t).obj = 0 /\ Top(t).op \notin {"new", "stop"}
         /\ Top(t).op = "new" => t = "handler" /\ todo[t] \in Creating /\ Tail(todo[t]) = <<>>
         /\ Top(t).op \in {"drop", "new", "reap", "ask", "quit", "stop", "forget", "clear"}
  <1> USE DEF Top
  <1>1. CASE todo[t] \in Seq(Plain)
    <2>1. Top(t) \in Plain
      BY <1>1
    <2>2. t # "main" \/ todo[t] \in Seq(Ending) \cup {Shutdown, AfterRuntime}
      BY DEF WorkOK
    <2> QED
      BY <2>1, <2>2, <1>1, Leaving, PieceFields DEF Plain, Ending, Kinds, Cameras
  <1>2. CASE todo[t] \in Seq(Ending)
    <2>1. Top(t) \in Ending
      BY <1>2
    <2> QED
      BY <2>1 DEF Ending, Kinds
  <1>3. CASE todo[t] \in Creating \cup {RuntimeOff, TestOff} /\ t = "handler"
    BY <1>3, Pieces, PieceFields DEF Creating, Kinds, Cameras
  <1>4. CASE todo[t] \in {Shutdown, AfterRuntime} /\ t = "main"
    BY <1>4, Leaving, PieceFields DEF WorkOK, Kinds, Cameras
  <1> QED
    BY <1>1, <1>2, <1>3, <1>4 DEF WorkOK, Threads
------------------------------------------------------------------------------
(* Types.                                                                   *)

\* What the methods do to the call of their thread.
LEMMA CallSteps ==
  ASSUME call \in [Threads -> Call], NEW t \in Threads
  PROVE  /\ \A place \in Place : At(t, place) => call' \in [Threads -> Call]
         /\ \A alive \in BOOLEAN :
              /\ Answers(t, alive) => call' \in [Threads -> Call]
              /\ Polled(t, alive) => Answers(t, alive) \/ At(t, "signal")
         /\ \A o \in Objects, wants \in {"poll", "quit", "start"}, place \in Place :
              [NoCall EXCEPT !.obj = o, !.wants = wants, !.at = place] \in Call
         /\ NoCall \in Call
  <1>1. ASSUME NEW place \in Place PROVE [call[t] EXCEPT !.at = place] \in Call
    BY DEF Call
  <1>2. ASSUME NEW alive \in BOOLEAN PROVE [call[t] EXCEPT !.at = "done", !.alive = alive] \in Call
    BY DEF Call, Place
  <1>3. ASSUME NEW place \in Place, At(t, place) PROVE call' \in [Threads -> Call]
    BY <1>1, <1>3 DEF At
  <1>4. ASSUME NEW alive \in BOOLEAN, Answers(t, alive) PROVE call' \in [Threads -> Call]
    BY <1>2, <1>4 DEF Answers
  <1>5. NoCall \in Call
    BY DEF Call, Place, NoCall
  <1>6. \A o \in Objects, wants \in {"poll", "quit", "start"}, place \in Place :
          [NoCall EXCEPT !.obj = o, !.wants = wants, !.at = place] \in Call
    BY DEF Call, NoCall
  <1> QED
    BY <1>3, <1>4, <1>5, <1>6 DEF Polled

LEMMA TypeInit == Init => TypeOK
  BY BoundsAssumption DEF BoundsAssumption, Init, TypeOK, NoProcess, NoObject, NoCall, Kinds,
     Procs, Objects, Place, Process, Object, Call

\* An object in use is one, and the step it is used for is there.
LEMMA InUse ==
  ASSUME TypeOK, CallsOK, NEW t \in Threads, Active(t)
  PROVE  /\ todo[t] # <<>> /\ call[t].obj \in Objects
         /\ obj[call[t].obj] \in Object
  BY DEF CallsOK, CallOK, TypeOK

LEMMA TypeBegun ==
  ASSUME TypeOK, WorkOK, NEW t \in Threads, Begin(t)
  PROVE  TypeOK'
  <1>1. todo[t] # <<>>
    BY DEF Begin, Doing
  <1>2. PICK o : /\ o = (IF Top(t).op = "new" THEN requests ELSE Subject(t)) /\ o # 0
                 /\ call' = [call EXCEPT ![t] =
                      [NoCall EXCEPT !.obj = o, !.wants = Wants(Top(t)),
                         !.at = CASE Top(t).op = "new" -> "enter" [] Top(t).op = "drop" -> "signal"
                                  [] OTHER -> "probe"]]
    BY DEF Begin
  <1>3. o \in Objects
    <2>1. slot[Top(t).kind] \in Objects \cup {0} /\ Top(t).obj \in Objects \cup {0}
      BY <1>1, TopFields DEF TypeOK
    <2>2. requests \in 0..MaxRequests
      BY DEF TypeOK
    <2> QED
      BY <1>2, <2>1, <2>2, BoundsAssumption DEF BoundsAssumption, Subject, Objects
  <1>4. Wants(Top(t)) \in {"poll", "quit", "start"}
    BY DEF Wants
  <1>5. call' \in [Threads -> Call]
    BY <1>2, <1>3, <1>4, CallSteps DEF TypeOK, Place
  <1> QED
    BY <1>5 DEF Begin, TypeOK, env, Unchanged

LEMMA TypePolled ==
  ASSUME TypeOK, CallsOK, NEW t \in Threads, Probe(t) \/ Enter(t) \/ Grace(t) \/ SpawnRaises(t)
  PROVE  TypeOK'
  <1> DEFINE o == call[t].obj
  <1>0. Active(t)
    BY DEF Active, Probe, Enter, Grace, SpawnRaises
  <1>1. o \in Objects /\ obj[o] \in Object
    BY <1>0, InUse
  <1>2. call' \in [Threads -> Call]
    <2>4. \A p : Alive(p) \in BOOLEAN
      BY DEF Alive
    <2>5. Started(t, o) => \E alive \in BOOLEAN : Answers(t, alive) \/ Polled(t, alive)
      BY <2>4 DEF Started
    <2>6. \/ \E place \in Place : At(t, place)
          \/ \E alive \in BOOLEAN : Answers(t, alive) \/ Polled(t, alive)
      <3>1. CASE Probe(t)
        <4>1. (IF obj[o].reused THEN ~obj[o].released ELSE obj[o].proc = 0 \/ Alive(obj[o].proc))
                \in BOOLEAN
          BY <2>4
        <4> QED
          BY <3>1, <4>1 DEF Probe, Place
      <3>2. CASE Enter(t)
        BY <3>2, <2>5 DEF Enter, Place
      <3>3. CASE Grace(t)
        BY <3>3, <2>5 DEF Grace, StartRaises
      <3>4. CASE SpawnRaises(t)
        BY <3>4 DEF SpawnRaises, StartRaises
      <3> QED
        BY <3>1, <3>2, <3>3, <3>4
    <2> QED
      BY <2>6, CallSteps DEF TypeOK, Place
  <1>3. obj' \in [Objects -> Object]
    <2>1. /\ [obj[o] EXCEPT !.reused = FALSE] \in Object
          /\ [obj[o] EXCEPT !.released = TRUE] \in Object
          /\ \A reuse \in BOOLEAN, p \in Procs \cup {0} :
               [proc |-> p, reused |-> reuse, released |-> FALSE] \in Object
      BY <1>1 DEF Object
    <2>2. CASE Probe(t)
      BY <1>1, <2>1, <2>2 DEF Probe, TypeOK
    <2>3. CASE Enter(t)
      <3> DEFINE reuse == Top(t).kind = "endpoint" /\ Bound
      <3>1. reuse \in BOOLEAN /\ (IF reuse THEN 0 ELSE obj[o].proc) \in Procs \cup {0}
        BY <1>1 DEF Object
      <3>2. \/ UNCHANGED obj
            \/ obj' = [obj EXCEPT ![o] = [proc |-> IF reuse THEN 0 ELSE obj[o].proc,
                                          reused |-> reuse, released |-> FALSE]]
        BY <2>3, <1>1 DEF Enter, TypeOK
      <3>3. [proc |-> IF reuse THEN 0 ELSE obj[o].proc, reused |-> reuse,
             released |-> FALSE] \in Object
        BY <2>1, <3>1
      <3> HIDE DEF reuse
      <3> QED
        BY <1>1, <3>2, <3>3 DEF TypeOK
    <2>4. CASE Grace(t) \/ SpawnRaises(t)
      BY <1>1, <2>1, <2>4 DEF Grace, SpawnRaises, StartRaises, TypeOK
    <2> QED
      BY <2>2, <2>3, <2>4
  <1>4. hist' \in [fault : BOOLEAN, off : BOOLEAN, raced : BOOLEAN,
                   dropped : BOOLEAN, beside : BOOLEAN]
    BY DEF Probe, Enter, Grace, SpawnRaises, Races, Taking, TypeOK
  <1>5. UNCHANGED <<other, proc, slot, main, requests>>
    BY DEF Probe, Enter, Grace, SpawnRaises, env, Unchanged
  <1> QED
    BY <1>2, <1>3, <1>4, <1>5 DEF TypeOK

LEMMA UnusedProcess ==
  ASSUME Unused # {}
  PROVE  (CHOOSE q \in Unused : TRUE) \in Unused /\ Unused \subseteq Procs
  BY DEF Unused

LEMMA TypeProcesses ==
  ASSUME TypeOK, WorkOK, CallsOK, NEW t \in Threads, Spawn(t) \/ Signal(t) \/ Wait(t)
  PROVE  TypeOK'
  <1> DEFINE o == call[t].obj
  <1>1. /\ todo[t] # <<>> /\ o \in Objects /\ obj[o] \in Object /\ call[t] \in Call
        /\ Top(t).kind \in Kinds
    BY InUse, TopFields DEF Active, Spawn, Signal, Wait, TypeOK
  <1>2. CASE Spawn(t)
    <2>1. PICK p \in Procs :
            /\ proc' = [proc EXCEPT ![p] = [of |-> Top(t).kind, leader |-> "on", listens |-> FALSE]]
            /\ obj' = [obj EXCEPT ![o] = [obj[o] EXCEPT !.proc = p]]
            /\ call' = [call EXCEPT ![t] = [call[t] EXCEPT !.at = "grace", !.proc = p]]
      BY <1>1, <1>2, UnusedProcess DEF Spawn, TypeOK
    <2>2. /\ [obj[o] EXCEPT !.proc = p] \in Object
          /\ [call[t] EXCEPT !.at = "grace", !.proc = p] \in Call
          /\ [of |-> Top(t).kind, leader |-> "on", listens |-> FALSE] \in Process
      BY <1>1 DEF Object, Call, Process, Place
    <2>3. /\ proc' \in [Procs -> Process] /\ obj' \in [Objects -> Object]
          /\ call' \in [Threads -> Call]
      BY <1>1, <2>1, <2>2 DEF TypeOK
    <2> QED
      BY <1>2, <2>3 DEF Spawn, Unchanged, TypeOK
  <1>3. CASE Signal(t)
    <2>1. /\ obj[o].proc \in Procs \cup {0} /\ [obj[o] EXCEPT !.released = TRUE] \in Object
          /\ [obj[o] EXCEPT !.released = obj[o].released \/ obj[o].reused] \in Object
          /\ \A p \in Procs \cup {0} : [call[t] EXCEPT !.at = "wait", !.proc = p] \in Call
      BY <1>1 DEF Object, Call, Place
    <2>2. \A p \in Procs : [proc[p] EXCEPT !.leader = "asked"] \in Process
      BY DEF TypeOK, Process
    <2>3. call' \in [Threads -> Call]
      <3>1. \/ call' = [call EXCEPT ![t] = [call[t] EXCEPT !.at = "wait", !.proc = obj[o].proc]]
            \/ Answers(t, FALSE)
        BY <1>1, <1>3 DEF Signal, TypeOK
      <3> QED
        BY <2>1, <3>1, CallSteps DEF TypeOK
    <2>4. proc' \in [Procs -> Process]
      <3>1. \/ UNCHANGED proc
            \/ proc' = [proc EXCEPT ![obj[o].proc] = [proc[obj[o].proc] EXCEPT !.leader = "asked"]]
        BY <1>3 DEF Signal
      <3> QED
        BY <2>2, <3>1 DEF TypeOK
    <2>6. obj' \in [Objects -> Object]
      <3>1. \/ UNCHANGED obj
            \/ obj' = [obj EXCEPT ![o] =
                        [obj[o] EXCEPT !.released = obj[o].released \/ obj[o].reused]]
        BY <1>1, <1>3 DEF Signal, TypeOK
      <3> QED
        BY <2>1, <3>1 DEF TypeOK
    <2>5. hist' \in [fault : BOOLEAN, off : BOOLEAN, raced : BOOLEAN,
                     dropped : BOOLEAN, beside : BOOLEAN]
      BY <1>3 DEF Signal, Races, Taking, TypeOK
    <2> QED
      BY <1>3, <2>3, <2>4, <2>5, <2>6 DEF Signal, Unchanged, TypeOK
  <1>4. CASE Wait(t)
    <2>1. \A p \in Procs : [proc[p] EXCEPT !.leader = "off", !.listens = FALSE] \in Process
      BY DEF TypeOK, Process
    <2>2. proc' \in [Procs -> Process]
      BY <1>1, <1>4, <2>1 DEF Wait, TypeOK
    <2>3. call' \in [Threads -> Call]
      BY <1>4, CallSteps DEF Wait, TypeOK
    <2> QED
      BY <1>4, <2>2, <2>3 DEF Wait, Unchanged, TypeOK
  <1> QED
    BY <1>2, <1>3, <1>4

LEMMA TypeReturned ==
  ASSUME TypeOK, WorkOK, CallsOK, NEW t \in Threads,
         Asked(t) \/ HasQuit(t) \/ Reaped(t) \/ Dropped(t) \/ Created(t)
           \/ Skip(t) \/ Stop(t) \/ Forget(t)
  PROVE  TypeOK'
  <1>1. /\ call' \in [Threads -> Call] /\ call[t].obj \in Objects \cup {0}
        /\ todo[t] # <<>> /\ Top(t).kind \in Kinds
    <2>1. call[t] \in Call /\ NoCall \in Call
      BY CallSteps DEF TypeOK
    <2>2. UNCHANGED call \/ call' = [call EXCEPT ![t] = NoCall]
      BY DEF Asked, HasQuit, Reaped, Dropped, Created, Skip, Stop, Forget, Return
    <2>3. todo[t] # <<>>
      BY DEF Asked, HasQuit, Reaped, Dropped, Created, Skip, Stop, Forget, Return, Doing
    <2> QED
      BY <2>1, <2>2, <2>3, TopFields DEF TypeOK, Call
  <1>2. Collect(t) => proc' \in [Procs -> Process] /\ obj' \in [Objects -> Object]
                      /\ UNCHANGED <<other, requests>>
    BY DEF Collect, TypeOK, NoObject, NoProcess, Object, Process, Kinds
  <1>3. slot' \in [Kinds -> Objects \cup {0}]
    BY <1>1 DEF TypeOK, Asked, HasQuit, Reaped, Dropped, Created, Skip, Stop, Forget
  <1>4. hist' \in [fault : BOOLEAN, off : BOOLEAN, raced : BOOLEAN,
                   dropped : BOOLEAN, beside : BOOLEAN]
    BY DEF TypeOK, Asked, HasQuit, Reaped, Dropped, Created, Skip, Stop, Forget, Races, Taking
  <1>5. main' \in {"serving", "leaving", "gone"}
    BY DEF TypeOK, Asked, HasQuit, Reaped, Dropped, Created, Skip, Stop, Forget
  <1>6. /\ proc' \in [Procs -> Process] /\ obj' \in [Objects -> Object]
        /\ UNCHANGED <<other, requests>>
    BY <1>2 DEF TypeOK, Asked, HasQuit, Reaped, Dropped, Created, Skip, Stop, Forget, env
  <1> QED
    BY <1>1, <1>3, <1>4, <1>5, <1>6 DEF TypeOK

LEMMA TypeOutside ==
  ASSUME TypeOK,
         \/ \E request \in Requests : Accept(request)
         \/ Status \/ Watch \/ LeaveUi \/ OtherCloses
         \/ \E p \in Procs : Listen(p) \/ End(p) \/ MemberEnds(p)
  PROVE  TypeOK'
  <1>1. CASE \E request \in Requests : Accept(request)
    <2>1. requests' \in 0..MaxRequests
      <3>1. requests \in 0..MaxRequests /\ requests < MaxRequests /\ requests' = requests + 1
        BY <1>1 DEF Accept, TypeOK
      <3> QED
        BY <3>1, BoundsAssumption DEF BoundsAssumption
    <2>2. hist' \in [fault : BOOLEAN, off : BOOLEAN, raced : BOOLEAN,
                     dropped : BOOLEAN, beside : BOOLEAN]
      BY <1>1 DEF Accept, TypeOK
    <2> QED
      BY <1>1, <2>1, <2>2 DEF Accept, TypeOK, env
  <1>2. CASE Status \/ Watch \/ LeaveUi \/ OtherCloses
    BY <1>2 DEF Status, Watch, LeaveUi, OtherCloses, TypeOK, env
  <1>3. CASE \E p \in Procs : Listen(p) \/ End(p) \/ MemberEnds(p)
    <2> PICK p \in Procs : Listen(p) \/ End(p) \/ MemberEnds(p)
      BY <1>3
    <2>1. proc[p] \in Process
      BY DEF TypeOK
    <2>2. \A leader \in {"on", "asked", "off"}, listens \in BOOLEAN :
            [proc[p] EXCEPT !.leader = leader, !.listens = listens] \in Process
      BY <2>1 DEF Process
    <2>3. proc' \in [Procs -> Process]
      <3>1. CASE Listen(p)
        BY <3>1, <2>1 DEF Listen, TypeOK, Process
      <3>2. CASE End(p)
        BY <3>2, <2>1 DEF End, TypeOK, Process
      <3>3. CASE MemberEnds(p)
        BY <3>3, <2>1 DEF MemberEnds, TypeOK, Process
      <3> QED
        BY <3>1, <3>2, <3>3
    <2>4. hist' \in [fault : BOOLEAN, off : BOOLEAN, raced : BOOLEAN,
                     dropped : BOOLEAN, beside : BOOLEAN]
      BY DEF Listen, End, MemberEnds, TypeOK
    <2> QED
      BY <2>3, <2>4 DEF Listen, End, MemberEnds, TypeOK
  <1> QED
    BY <1>1, <1>2, <1>3

LEMMA TypeKept == TypeOK /\ WorkOK /\ CallsOK /\ [Next]_vars => TypeOK'
  <1> SUFFICES ASSUME TypeOK, WorkOK, CallsOK, [Next]_vars PROVE TypeOK'
    OBVIOUS
  <1>1. CASE \E t \in Threads : ThreadStep(t)
    BY <1>1, TypeBegun, TypePolled, TypeProcesses, TypeReturned DEF ThreadStep
  <1>2. CASE UNCHANGED vars
    BY <1>2 DEF vars, TypeOK
  <1> QED
    BY <1>1, <1>2, TypeOutside DEF Next

------------------------------------------------------------------------------
(* Steps inside a call, and of the processes, when none is begun.           *)

\* Processes may end; none begins, and none is given to another purpose.
Calm ==
  \A p \in Procs :
    /\ proc'[p].of = proc[p].of /\ (Alive(p)' => Alive(p))
    /\ proc[p].leader # "none" => proc'[p].leader # "none"

\* The only objects that change are of endpoints; they may lose their process.
ObjectsCalm ==
  \A o \in Objects :
    \/ obj'[o] = obj[o]
    \/ /\ ForEndpoint(o) /\ o <= requests
       /\ obj'[o].proc \in {0, obj[o].proc}
CallsCalm ==
  \A u \in Threads :
    /\ Active(u)' <=> Active(u)
    /\ call'[u].obj = call[u].obj
    /\ Active(u) /\ Top(u).op = "new" /\ call'[u].at \in {"enter", "spawn"} =>
         call[u].at \in {"enter", "spawn"}

LEMMA Roles ==
  ASSUME TypeOK, TypeOK', Calm, ObjectsCalm, NEW o \in Objects
  PROVE  /\ ForEndpoint(o) => ForEndpoint(o)'
         /\ \A k \in Cameras : Holds(o, k) => Holds(o, k)' /\ obj'[o] = obj[o]
         /\ Dead(o) => Dead(o)'
         /\ obj'[o].proc \in {0, obj[o].proc} /\ obj[o].proc \in Procs \cup {0}
  <1>1. obj[o].proc \in Procs \cup {0} /\ obj'[o].proc \in {0, obj[o].proc}
    BY DEF TypeOK, Object, ObjectsCalm
  <1>2. ~Alive(0) /\ ~Alive(0)'
    BY DEF Alive
  <1>3. "endpoint" \notin Cameras
    BY DEF Cameras
  <1>4. ForEndpoint(o) => ForEndpoint(o)'
    BY <1>1 DEF Calm, ForEndpoint
  <1>5. \A k \in Cameras : Holds(o, k) => ~ForEndpoint(o)
    BY <1>3 DEF Holds, ForEndpoint
  <1>6. \A k \in Cameras : Holds(o, k) => Holds(o, k)' /\ obj'[o] = obj[o]
    BY <1>1, <1>5 DEF Holds, Calm, ObjectsCalm
  <1>7. Dead(o) => Dead(o)'
    BY <1>1, <1>2 DEF Dead, Calm
  <1> QED
    BY <1>1, <1>4, <1>6, <1>7

LEMMA InsideKept ==
  ASSUME Inv, TypeOK', UNCHANGED <<slot, todo, main, requests>>, Calm, ObjectsCalm, CallsCalm,
         CallsOK',
         Unborn' => obj'[requests] = NoObject,
         todo["handler"] = Save /\ call'["handler"].at = "done" /\ call'["handler"].alive =>
           NoneLives("reliability")'
  PROVE  Inv'
  <1> USE DEF Inv
  <1>1. \A t \in Threads : Top(t)' = Top(t)
    BY DEF Top
  <1>2. WorkOK'
    BY DEF WorkOK, Creating, Threads
  <1>3. Referenced'
    BY Roles DEF Referenced, Calm
  <1>4. Young'
    <2>1. requests \in Nat /\ \A o \in Objects : o \in Nat
      BY DEF TypeOK, Objects
    <2>2. \A o \in Objects : o > requests => obj'[o] = NoObject
      BY <2>1 DEF Young, ObjectsCalm
    <2> QED
      BY <2>2 DEF Young, CallsCalm
  <1>5. Unborn' => Unborn
    BY <1>1 DEF Unborn, CallsCalm, CallsOK, CallOK, Active, Threads
  <1>6. Fresh'
    BY <1>1, <1>5 DEF Fresh, CallsCalm, Threads
  <1>7. EndpointsOK'
    <2>1. slot["endpoint"] # 0 => ForEndpoint(slot["endpoint"])'
      BY Roles DEF EndpointsOK, TypeOK, Kinds
    <2>2. \A t \in Threads :
            Active(t)' /\ Top(t).kind = "endpoint" => ForEndpoint(call[t].obj)'
      BY Roles DEF EndpointsOK, CallsCalm, CallsOK, CallOK
    <2>3. todo["handler"] \in Seq(Plain) =>
            \A i \in DOMAIN todo["handler"] :
              todo["handler"][i].obj # 0 =>
                ForEndpoint(todo["handler"][i].obj)' /\ todo["handler"][i].obj <= requests
      <3> SUFFICES ASSUME todo["handler"] \in Seq(Plain), NEW i \in DOMAIN todo["handler"],
                          todo["handler"][i].obj # 0
                   PROVE  ForEndpoint(todo["handler"][i].obj)' /\ todo["handler"][i].obj <= requests
        OBVIOUS
      <3>1. todo["handler"][i] \in Plain
        OBVIOUS
      <3>2. todo["handler"][i].obj \in Objects
        BY <3>1 DEF Plain
      <3> QED
        BY <3>2, Roles DEF EndpointsOK
    <2> QED
      BY <1>1, <2>1, <2>2, <2>3 DEF EndpointsOK
  <1>8. SlotsOK'
    BY Roles DEF SlotsOK, TypeOK, Kinds
  <1>9. EntriesOK'
    BY <1>1 DEF EntriesOK, CallsCalm, Threads
  <1>10. Owned'
    <2> SUFFICES ASSUME NEW p \in Procs, Alive(p)', proc'[p].of \in Cameras
                 PROVE  \/ slot[proc'[p].of] # 0 /\ obj'[slot[proc'[p].of]].proc = p
                        \/ /\ call'["handler"].at \in {"grace", "done"}
                           /\ Top("handler") = New(proc'[p].of)
                           /\ obj'[call'["handler"].obj].proc = p
                        \/ main # "serving" /\ todo["handler"] \notin Creating
      BY <1>1 DEF Owned, Threads
    <2>1. Alive(p) /\ proc[p].of = proc'[p].of /\ p # 0
      BY DEF Calm, Alive
    <2> DEFINE k == proc[p].of
    <2>2. k \in Cameras
      BY <2>1
    <2>3. CASE slot[k] # 0 /\ obj[slot[k]].proc = p
      <3>1. slot[k] \in Objects /\ Holds(slot[k], k)
        BY <2>2, <2>3 DEF SlotsOK, TypeOK, Kinds
      <3> QED
        BY <2>1, <2>2, <2>3, <3>1, Roles
    <2>4. CASE /\ call["handler"].at \in {"grace", "done"}
               /\ Top("handler") = New(k) /\ obj[call["handler"].obj].proc = p
      <3>1. Active("handler") /\ Top("handler").op = "new"
        BY <2>2, <2>4, PieceFields DEF Active, Kinds
      <3>2. call'["handler"].at \in {"grace", "done"}
        BY <1>1, <2>4, <3>1 DEF CallsCalm, CallsOK, CallOK, Threads
      <3>3. call["handler"].obj \in Objects /\ Holds(call["handler"].obj, k)
        <4>1. ~ForEndpoint(call["handler"].obj)
          BY <2>1, <2>2, <2>4 DEF ForEndpoint, Cameras
        <4>2. call["handler"].obj \in Objects /\ Top("handler").kind = k /\ Making("handler")
          BY <2>2, <2>4, <3>1, PieceFields DEF CallsOK, CallOK, Threads, Kinds
        <4> QED
          BY <2>1, <2>2, <2>4, <4>1, <4>2 DEF Making, Dead
      <3> QED
        BY <2>1, <2>2, <2>4, <3>2, <3>3, Roles DEF CallsCalm, Threads
    <2> QED
      BY <2>1, <2>2, <2>3, <2>4 DEF Owned
  <1>11. Cleared'
    <2>1. \A k \in Cameras : NoneLives(k) => NoneLives(k)'
      BY DEF NoneLives, Calm
    <2>2. ASSUME todo["handler"] \in {RuntimeNew, TestNew},
                 call'["handler"].at \in {"none", "enter", "spawn"}
          PROVE  call["handler"].at \in {"none", "enter", "spawn"}
      BY <2>2, Pieces, PieceFields DEF Top, CallsCalm, CallsOK, CallOK, Active, Threads, Kinds, Cameras
    <2>3. ASSUME todo["handler"] \in {RuntimeNew, TestNew}, call'["handler"].at \in {"grace", "done"},
                 NEW p \in Procs, Alive(p)', proc'[p].of \in Cameras
          PROVE  obj'[call'["handler"].obj].proc = p
      <3>1. Alive(p) /\ proc[p].of = proc'[p].of /\ p # 0 /\ call'["handler"].obj = call["handler"].obj
        BY <2>3 DEF Calm, CallsCalm, Alive, Threads
      <3>2. Top("handler").op = "new" /\ Top("handler").kind \in Cameras
        BY <2>3, Pieces, PieceFields DEF Top, Cameras
      <3>3. Active("handler")
        BY <2>3 DEF CallsCalm, Active, Threads
      <3>4. CallOK("handler") /\ Making("handler")
        BY <3>2, <3>3 DEF CallsOK, CallOK, Threads
      <3>5. call["handler"].at \in {"grace", "done"} /\ obj[call["handler"].obj].proc = p
        BY <2>3, <3>1, <3>2, <3>4 DEF CallOK, Cleared, NoneLives
      <3>6. Holds(call["handler"].obj, Top("handler").kind) /\ call["handler"].obj \in Objects
        BY <3>1, <3>4, <3>5 DEF CallOK, Making, Dead
      <3> QED
        BY <3>1, <3>2, <3>5, <3>6, Roles
    <2> QED
      BY <2>1, <2>2, <2>3 DEF Cleared, Cameras
  <1>12. OneLives'
    BY DEF OneLives, Calm
  <1> QED
    BY <1>2, <1>3, <1>4, <1>6, <1>7, <1>8, <1>9, <1>10, <1>11, <1>12

\* A call the step does not touch.
LEMMA CallUntouched ==
  ASSUME NEW u \in Threads, CallOK(u), call'[u] = call[u], todo'[u] = todo[u],
         requests' = requests,
         \A k \in Cameras : Holds(call[u].obj, k) =>
           Holds(call[u].obj, k)' /\ obj'[call[u].obj] = obj[call[u].obj],
         Dead(call[u].obj) => Dead(call[u].obj)'
  PROVE  CallOK(u)'
  <1>1. Top(u)' = Top(u)
    BY DEF Top
  <1>2. Top(u).kind \in Cameras /\ Asking(u) => Asking(u)'
    BY <1>1 DEF Asking
  <1>3. Top(u).kind \in Cameras /\ Dropping(u) => Dropping(u)'
    BY <1>1 DEF Dropping
  <1>4. Top(u).kind \in Cameras /\ Making(u) => Making(u)'
    BY <1>1 DEF Making
  <1> QED
    BY <1>1, <1>2, <1>3, <1>4 DEF CallOK

LEMMA EnvironmentKept ==
  ASSUME Inv, TypeOK', OtherCloses \/ \E p \in Procs : Listen(p) \/ End(p) \/ MemberEnds(p)
  PROVE  Inv'
  <1>1. UNCHANGED <<obj, slot, todo, call, main, requests>>
    BY DEF OtherCloses, Listen, End, MemberEnds
  <1>2. Calm
    <2>1. CASE OtherCloses
      BY <2>1 DEF OtherCloses, Calm, Alive
    <2>2. ASSUME NEW p \in Procs, Listen(p) PROVE Calm
      BY <2>2 DEF Listen, Calm, Alive, Inv, TypeOK, Process
    <2>3. ASSUME NEW p \in Procs, End(p) PROVE Calm
      BY <2>3 DEF End, Calm, Alive, Inv, TypeOK, Process
    <2>4. ASSUME NEW p \in Procs, MemberEnds(p) PROVE Calm
      BY <2>4 DEF MemberEnds, Calm, Alive, Inv, TypeOK, Process
    <2> QED
      BY <2>1, <2>2, <2>3, <2>4
  <1>3. ObjectsCalm /\ CallsCalm
    BY <1>1 DEF ObjectsCalm, CallsCalm, Active
  <1>4. CallsOK'
    <2> SUFFICES ASSUME NEW u \in Threads, Active(u)' PROVE CallOK(u)'
      BY DEF CallsOK
    <2>1. Active(u) /\ CallOK(u) /\ call[u].obj \in Objects
      BY <1>1 DEF Active, Inv, CallsOK, CallOK
    <2> QED
      BY <1>1, <1>2, <1>3, <2>1, Roles, CallUntouched DEF Inv
  <1>5. Unborn' => obj'[requests] = NoObject
    BY <1>1 DEF Inv, Fresh, Unborn, Top
  <1>6. NoneLives("reliability") => NoneLives("reliability")'
    BY <1>2 DEF NoneLives, Calm
  <1> QED
    BY <1>1, <1>2, <1>3, <1>4, <1>5, <1>6, InsideKept DEF Inv, Cleared

\* The steps inside a call, but for the one that begins a process.
Inner(t) == Probe(t) \/ Enter(t) \/ SpawnRaises(t) \/ Grace(t) \/ Signal(t) \/ Wait(t)

LEMMA InnerCalls ==
  ASSUME TypeOK, NEW t \in Threads, Inner(t)
  PROVE  /\ UNCHANGED <<slot, todo, main, requests>>
         /\ \A u \in Threads : u # t => call'[u] = call[u]
         /\ call'[t].obj = call[t].obj /\ call'[t].wants = call[t].wants
         /\ Active(t) /\ Active(t)'
         /\ call[t].at = "enter" /\ call[t].wants = "start" => call'[t].at \in {"spawn", "done"}
         /\ call[t].at \in {"spawn", "grace"} /\ call[t].wants = "start" => call'[t].at = "done"
         /\ call[t].at \notin {"none", "done"}
  <1> DEFINE o == call[t].obj
             Moves(c) == /\ call' = [call EXCEPT ![t] = c]
                         /\ c.obj = call[t].obj /\ c.wants = call[t].wants
  <1>1. call \in [Threads -> Call] /\ call[t] \in Call
    BY DEF TypeOK
  <1>2. \A place \in Place : At(t, place) =>
          Moves([call[t] EXCEPT !.at = place]) /\ call'[t].at = place
    BY <1>1 DEF At, Call
  <1>3. \A alive \in BOOLEAN : Answers(t, alive) =>
          Moves([call[t] EXCEPT !.at = "done", !.alive = alive]) /\ call'[t].at = "done"
    BY <1>1 DEF Answers, Call
  <1>4. \A alive \in BOOLEAN : Polled(t, alive) =>
          \/ Answers(t, alive)
          \/ At(t, "signal") /\ call[t].wants = "quit"
    BY DEF Polled
  <1>5. \A p : Alive(p) \in BOOLEAN
    BY DEF Alive
  <1>6. Started(t, o) => \E alive \in BOOLEAN :
          Answers(t, alive) \/ (Polled(t, alive) /\ call[t].wants # "start")
    BY <1>5 DEF Started
  <1>7. \/ At(t, "enter") /\ call[t].at = "probe"
        \/ At(t, "spawn") /\ call[t].at = "enter"
        \/ At(t, "signal") /\ call[t].wants = "quit" /\ call[t].at \in {"probe", "enter", "grace"}
        \/ \E alive \in BOOLEAN : Answers(t, alive)
        \/ call[t].at = "signal" /\
             call' = [call EXCEPT ![t] = [call[t] EXCEPT !.at = "wait", !.proc = obj[o].proc]]
    <2>1. CASE Probe(t)
      <3>1. (IF obj[o].reused THEN ~obj[o].released ELSE obj[o].proc = 0 \/ Alive(obj[o].proc))
              \in BOOLEAN
        BY <1>5
      <3> QED
        BY <2>1, <3>1, <1>4 DEF Probe
    <2>2. CASE Enter(t)
      <3>1. (call[t].wants = "start") \in BOOLEAN
        OBVIOUS
      <3> QED
        BY <2>2, <3>1, <1>4, <1>6 DEF Enter
    <2>3. CASE Grace(t)
      BY <2>3, <1>4, <1>6 DEF Grace, StartRaises
    <2>4. CASE SpawnRaises(t) \/ Wait(t)
      BY <2>4 DEF SpawnRaises, StartRaises, Wait
    <2>5. CASE Signal(t)
      BY <2>5, <1>1 DEF Signal, Call
    <2> QED
      BY <2>1, <2>2, <2>3, <2>4, <2>5 DEF Inner
  <1>8. call[t].at \notin {"none", "done"}
    BY DEF Inner, Probe, Enter, SpawnRaises, Grace, Signal, Wait
  <1>9. UNCHANGED <<slot, todo, main, requests>>
    BY DEF Inner, Probe, Enter, SpawnRaises, Grace, Signal, Wait, Unchanged
  <1>10. \E c : Moves(c) /\ c.at # "none" /\ call'[t].at = c.at
    <2>1. /\ [call[t] EXCEPT !.at = "wait", !.proc = obj[o].proc].obj = call[t].obj
          /\ [call[t] EXCEPT !.at = "wait", !.proc = obj[o].proc].wants = call[t].wants
          /\ [call[t] EXCEPT !.at = "wait", !.proc = obj[o].proc].at = "wait"
      BY <1>1 DEF Call
    <2>2. /\ \A place \in Place : [call[t] EXCEPT !.at = place].at = place
          /\ \A alive \in BOOLEAN : [call[t] EXCEPT !.at = "done", !.alive = alive].at = "done"
      BY <1>1 DEF Call
    <2>3. ASSUME NEW place \in Place, At(t, place), place # "none"
          PROVE  \E c : Moves(c) /\ c.at # "none" /\ call'[t].at = c.at
      <3>1. Moves([call[t] EXCEPT !.at = place]) /\ [call[t] EXCEPT !.at = place].at = place
            /\ call'[t].at = place
        BY <1>2, <2>2, <2>3
      <3> QED
        BY <3>1, <2>3
    <2>4. ASSUME NEW alive \in BOOLEAN, Answers(t, alive)
          PROVE  \E c : Moves(c) /\ c.at # "none" /\ call'[t].at = c.at
      <3>1. /\ Moves([call[t] EXCEPT !.at = "done", !.alive = alive]) /\ call'[t].at = "done"
            /\ [call[t] EXCEPT !.at = "done", !.alive = alive].at = "done"
        BY <1>3, <2>2, <2>4
      <3> QED
        BY <3>1
    <2>5. ASSUME call' = [call EXCEPT ![t] = [call[t] EXCEPT !.at = "wait", !.proc = obj[o].proc]]
          PROVE  \E c : Moves(c) /\ c.at # "none" /\ call'[t].at = c.at
      BY <1>1, <2>1, <2>5
    <2> QED
      BY <1>7, <2>3, <2>4, <2>5 DEF Place
  <1>11. /\ call[t].at = "enter" /\ call[t].wants = "start" => call'[t].at \in {"spawn", "done"}
         /\ call[t].at \in {"spawn", "grace"} /\ call[t].wants = "start" => call'[t].at = "done"
    BY <1>2, <1>3, <1>7 DEF Place
  <1> QED
    BY <1>1, <1>8, <1>9, <1>10, <1>11 DEF Active

LEMMA InnerObjects ==
  ASSUME TypeOK, NEW t \in Threads, Inner(t), call[t].obj \in Objects
  PROVE  /\ \A x \in Objects : x # call[t].obj => obj'[x] = obj[x]
         /\ obj'[call[t].obj].proc \in {0, obj[call[t].obj].proc}
         /\ Calm
         /\ call[t].at = "enter" /\ obj[call[t].obj] = NoObject /\ call'[t].at = "spawn" =>
              obj'[call[t].obj] = NoObject
  <1> DEFINE o == call[t].obj
  <1>1. obj \in [Objects -> Object] /\ obj[o] \in Object /\ call \in [Threads -> Call]
        /\ call[t] \in Call /\ proc \in [Procs -> Process] /\ obj[o].proc \in Procs \cup {0}
        /\ call[t].proc \in Procs \cup {0}
    BY DEF TypeOK, Object, Call
  <1>2. \/ UNCHANGED obj
        \/ obj' = [obj EXCEPT ![o] = [obj[o] EXCEPT !.reused = FALSE]] /\ call[t].at = "probe"
        \/ obj' = [obj EXCEPT ![o] = [obj[o] EXCEPT !.released = TRUE]] /\ call'[t].at = "done"
        \/ /\ call[t].at = "enter"
           /\ \E reuse \in BOOLEAN :
                /\ obj' = [obj EXCEPT ![o] = [proc |-> IF reuse THEN 0 ELSE obj[o].proc,
                                              reused |-> reuse, released |-> FALSE]]
                /\ reuse => call'[t].at = "done"
        \/ /\ call[t].at = "signal"
           /\ obj' = [obj EXCEPT ![o] = [obj[o] EXCEPT !.released = obj[o].released \/ obj[o].reused]]
    <2>1. CASE Probe(t)
      BY <2>1, <1>1 DEF Probe
    <2>2. CASE Enter(t)
      <3> DEFINE reuse == Top(t).kind = "endpoint" /\ Bound
      <3>1. reuse \in BOOLEAN
        OBVIOUS
      <3>2. \A alive \in BOOLEAN : Answers(t, alive) => call'[t].at = "done"
        BY <1>1 DEF Answers
      <3>3. (call[t].wants = "start") \in BOOLEAN
        OBVIOUS
      <3> QED
        BY <2>2, <1>1, <3>1, <3>2, <3>3 DEF Enter
    <2>3. CASE Grace(t) \/ SpawnRaises(t)
      <3>1. Answers(t, FALSE) => call'[t].at = "done"
        BY <1>1 DEF Answers
      <3> QED
        BY <2>3, <1>1, <3>1 DEF Grace, SpawnRaises, StartRaises
    <2>4. CASE Signal(t)
      BY <2>4, <1>1 DEF Signal
    <2>5. CASE Wait(t)
      BY <2>5 DEF Wait
    <2> QED
      BY <2>1, <2>2, <2>3, <2>4, <2>5 DEF Inner
  <1>3. /\ [obj[o] EXCEPT !.reused = FALSE].proc = obj[o].proc
        /\ [obj[o] EXCEPT !.released = TRUE].proc = obj[o].proc
        /\ [obj[o] EXCEPT !.released = obj[o].released \/ obj[o].reused].proc = obj[o].proc
    BY <1>1 DEF Object
  <1>4. \A x \in Objects : x # o => obj'[x] = obj[x]
    BY <1>1, <1>2
  <1>5. /\ obj'[o].proc \in {0, obj[o].proc}
        /\ call[t].at = "enter" /\ obj[o] = NoObject /\ call'[t].at = "spawn" => obj'[o] = NoObject
    <2>1. CASE UNCHANGED obj
      BY <2>1
    <2>2. CASE obj' = [obj EXCEPT ![o] = [obj[o] EXCEPT !.reused = FALSE]] /\ call[t].at = "probe"
      BY <2>2, <1>1, <1>3
    <2>3. CASE obj' = [obj EXCEPT ![o] = [obj[o] EXCEPT !.released = TRUE]] /\ call'[t].at = "done"
      BY <2>3, <1>1, <1>3
    <2>4. CASE /\ call[t].at = "enter"
               /\ \E reuse \in BOOLEAN :
                    /\ obj' = [obj EXCEPT ![o] = [proc |-> IF reuse THEN 0 ELSE obj[o].proc,
                                                  reused |-> reuse, released |-> FALSE]]
                    /\ reuse => call'[t].at = "done"
      <3> PICK reuse \in BOOLEAN :
            /\ obj' = [obj EXCEPT ![o] = [proc |-> IF reuse THEN 0 ELSE obj[o].proc,
                                          reused |-> reuse, released |-> FALSE]]
            /\ reuse => call'[t].at = "done"
        BY <2>4
      <3>1. obj'[o] = [proc |-> IF reuse THEN 0 ELSE obj[o].proc, reused |-> reuse, released |-> FALSE]
        BY <1>1
      <3>2. CASE reuse
        <4>1. obj'[o].proc = 0
          BY <3>1, <3>2
        <4>2. call'[t].at # "spawn"
          BY <3>2
        <4> QED
          BY <4>1, <4>2
      <3>3. CASE ~reuse
        <4>1. obj'[o] = [proc |-> obj[o].proc, reused |-> FALSE, released |-> FALSE]
          BY <3>1, <3>3
        <4>2. obj'[o].proc = obj[o].proc
          BY <4>1
        <4>3. NoObject = [proc |-> NoObject.proc, reused |-> FALSE, released |-> FALSE]
          BY DEF NoObject
        <4> QED
          BY <4>1, <4>2, <4>3
      <3> QED
        BY <3>2, <3>3
    <2>5. CASE /\ call[t].at = "signal"
               /\ obj' = [obj EXCEPT ![o] =
                           [obj[o] EXCEPT !.released = obj[o].released \/ obj[o].reused]]
      BY <2>5, <1>1, <1>3
    <2> QED
      BY <1>2, <2>1, <2>2, <2>3, <2>4, <2>5
  <1>7. Calm
    <2>1. CASE Probe(t) \/ Enter(t) \/ SpawnRaises(t) \/ Grace(t)
      <3>1. UNCHANGED proc
        BY <2>1 DEF Probe, Enter, SpawnRaises, Grace, env
      <3> QED
        BY <3>1 DEF Calm, Alive
    <2>2. CASE Signal(t)
      <3>1. \/ UNCHANGED proc
            \/ Alive(obj[o].proc) /\
                 proc' = [proc EXCEPT ![obj[o].proc] = [proc[obj[o].proc] EXCEPT !.leader = "asked"]]
        BY <2>2 DEF Signal
      <3>2. \A p \in Procs : [proc[p] EXCEPT !.leader = "asked"].of = proc[p].of
                             /\ [proc[p] EXCEPT !.leader = "asked"].leader = "asked"
        BY <1>1 DEF Process
      <3> QED
        BY <1>1, <3>1, <3>2 DEF Calm, Alive
    <2>3. CASE Wait(t)
      <3> DEFINE q == call[t].proc
      <3>1. \/ UNCHANGED proc
            \/ Alive(q) /\
                 proc' = [proc EXCEPT ![q] = [proc[q] EXCEPT !.leader = "off", !.listens = FALSE]]
        BY <2>3 DEF Wait
      <3>2. \A p \in Procs : [proc[p] EXCEPT !.leader = "off", !.listens = FALSE].of = proc[p].of
                             /\ [proc[p] EXCEPT !.leader = "off", !.listens = FALSE].leader = "off"
        BY <1>1 DEF Process
      <3> QED
        BY <1>1, <3>1, <3>2 DEF Calm, Alive
    <2> QED
      BY <2>1, <2>2, <2>3 DEF Inner
  <1> QED
    BY <1>4, <1>5, <1>7

\* What the inner steps of every kind have in common: the rest of the
\* invariant holds once the thread's own call is known to be in order.
LEMMA InnerKept ==
  ASSUME Inv, TypeOK', NEW t \in Threads, Inner(t),
         Top(t).kind \in Cameras => UNCHANGED obj,
         CallOK(t)',
         t = "handler" /\ todo["handler"] = Save /\ call'["handler"].at = "done"
           /\ call'["handler"].alive => NoneLives("reliability")
  PROVE  Inv'
  <1> USE DEF Inv
  <1>1. Active(t) /\ CallOK(t) /\ call[t].obj \in Objects
    BY InnerCalls DEF CallsOK, CallOK
  <1>2. /\ UNCHANGED <<slot, todo, main, requests>> /\ Calm
    BY <1>1, InnerCalls, InnerObjects
  <1>3. Top(t).kind = "endpoint" => ForEndpoint(call[t].obj)
    BY <1>1 DEF EndpointsOK
  <1>4. Top(t).kind \in Kinds
    BY <1>1, TopFields DEF CallOK
  <1>5. ObjectsCalm
    <2>1. call[t].obj <= requests
      BY DEF Young
    <2> QED
      BY <1>1, <1>3, <1>4, <2>1, InnerObjects DEF ObjectsCalm, Kinds
  <1>6. CallsCalm
    <2>1. \A u \in Threads : u # t => /\ Active(u)' <=> Active(u)
                                      /\ call'[u] = call[u]
      BY InnerCalls DEF Active
    <2>2. /\ Active(t)' <=> Active(t)
          /\ call'[t].obj = call[t].obj
          /\ Top(t).op = "new" /\ call'[t].at \in {"enter", "spawn"} =>
               call[t].at \in {"enter", "spawn"}
      BY <1>1, InnerCalls DEF CallOK
    <2> QED
      BY <2>1, <2>2 DEF CallsCalm
  <1>7. CallsOK'
    <2> SUFFICES ASSUME NEW u \in Threads, Active(u)', u # t PROVE CallOK(u)'
      BY DEF CallsOK
    <2>1. call'[u] = call[u] /\ Active(u)
      BY InnerCalls DEF Active
    <2>2. CallOK(u) /\ call[u].obj \in Objects
      BY <2>1 DEF CallsOK, CallOK
    <2> QED
      BY <1>2, <1>5, <2>1, <2>2, Roles, CallUntouched
  <1>8. Unborn' => obj'[requests] = NoObject
    <2> SUFFICES ASSUME Unborn' PROVE obj'[requests] = NoObject
      OBVIOUS
    <2>1. Top("handler")' = Top("handler")
      BY <1>2 DEF Top
    <2>2. Unborn
      BY <1>2, <1>6, <1>7, <2>1 DEF Unborn, CallsCalm, CallsOK, CallOK, Active, Threads
    <2>3. requests \in Objects /\ obj[requests] = NoObject
      BY <2>2 DEF Unborn, Fresh
    <2>4. CASE call[t].obj # requests
      BY <1>1, <2>3, <2>4, InnerObjects
    <2>5. CASE call[t].obj = requests
      <3>1. t = "handler" /\ Top(t).op = "new"
        BY <1>1, <2>2, <2>5 DEF Unborn, Fresh, Threads
      <3>2. call[t].at \in {"enter", "spawn"}
        BY <1>1, <2>2, <3>1 DEF CallOK, Unborn
      <3>3. call[t].wants = "start" /\ call'[t].at \notin {"grace", "done"}
        BY <1>1, <2>1, <3>1 DEF CallOK, Unborn
      <3>4. call[t].at = "enter" /\ call'[t].at = "spawn"
        BY <3>2, <3>3, InnerCalls
      <3> QED
        BY <1>1, <2>3, <2>5, <3>4, InnerObjects
    <2> QED
      BY <2>4, <2>5
  <1>9. NoneLives("reliability") => NoneLives("reliability")'
    BY <1>2 DEF NoneLives, Calm
  <1>10. t # "handler" => call'["handler"] = call["handler"]
    BY InnerCalls DEF Threads
  <1> QED
    BY <1>2, <1>5, <1>6, <1>7, <1>8, <1>9, <1>10, InsideKept DEF Cleared

LEMMA AnswersFields ==
  ASSUME TypeOK, NEW t \in Threads, NEW alive \in BOOLEAN, Answers(t, alive)
  PROVE  /\ call'[t].at = "done" /\ call'[t].alive = alive /\ call'[t].wants = call[t].wants
         /\ call'[t].obj = call[t].obj
  BY DEF Answers, TypeOK, Call

\* A thread that asks about, or stops, a camera program goes on as it should.
LEMMA AskingGoesOn ==
  ASSUME Inv, NEW t \in Threads, Inner(t), Top(t).kind \in Cameras, Top(t).op = "ask",
         call[t].obj \in Objects, Asking(t)
  PROVE  /\ UNCHANGED obj /\ Asking(t)'
         /\ call'[t].alive => Alive(obj[call[t].obj].proc)
  <1> DEFINE o == call[t].obj
  <1> USE DEF Inv
  <1>1. Probe(t) /\ call[t].wants = "poll"
    BY DEF Asking, Inner, Probe, Enter, SpawnRaises, Grace, Signal, Wait
  <1>2. obj[o].proc # 0 /\ ~obj[o].reused /\ proc[obj[o].proc].of = Top(t).kind
    BY DEF Asking, Holds
  <1>3. UNCHANGED <<obj, proc, todo>> /\ Polled(t, Alive(obj[o].proc))
    <2>1. (obj[o].proc = 0 \/ Alive(obj[o].proc)) = Alive(obj[o].proc)
      BY <1>2 DEF Alive
    <2> QED
      BY <1>1, <1>2, <2>1 DEF Probe, env
  <1>4. Answers(t, Alive(obj[o].proc)) /\ Alive(obj[o].proc) \in BOOLEAN
    BY <1>1, <1>3 DEF Polled, Alive
  <1>5. /\ call'[t].at = "done" /\ call'[t].alive = Alive(obj[o].proc)
        /\ call'[t].wants = "poll" /\ call'[t].obj = o
    BY <1>1, <1>4, AnswersFields
  <1>6. Top(t)' = Top(t)
    BY <1>3 DEF Top
  <1>7. Asking(t)'
    BY <1>2, <1>3, <1>5, <1>6 DEF Asking, Holds, Dead, Alive
  <1> QED
    BY <1>3, <1>5, <1>7

LEMMA DroppingGoesOn ==
  ASSUME Inv, NEW t \in Threads, Inner(t), Top(t).kind \in Cameras, Top(t).op = "drop",
         call[t].obj \in Objects, Dropping(t)
  PROVE  UNCHANGED obj /\ Dropping(t)'
  <1> DEFINE o == call[t].obj
  <1> USE DEF Inv
  <1>1. Signal(t) \/ Wait(t)
    BY DEF Dropping, Inner, Probe, Enter, SpawnRaises, Grace, Signal, Wait
  <1>2. obj[o].proc # 0 /\ ~obj[o].reused /\ proc[obj[o].proc].of = Top(t).kind
        /\ obj[o] \in Object /\ obj[o].proc \in Procs
    BY DEF Dropping, Holds, TypeOK, Object
  <1>3. UNCHANGED todo /\ Calm /\ Top(t)' = Top(t)
    BY InnerCalls, InnerObjects DEF Top
  <1>4. CASE Signal(t)
    <2>1. CASE Alive(obj[o].proc)
      <3>1. UNCHANGED obj /\ call' = [call EXCEPT ![t] = [call[t] EXCEPT !.at = "wait", !.proc = obj[o].proc]]
        BY <1>2, <1>4, <2>1 DEF Signal
      <3>2. call'[t].at = "wait" /\ call'[t].proc = obj[o].proc /\ call'[t].obj = o
        BY <3>1 DEF TypeOK, Call
      <3> QED
        BY <1>2, <1>3, <3>1, <3>2 DEF Dropping, Holds, Calm
    <2>2. CASE ~Alive(obj[o].proc)
      <3>1. Answers(t, FALSE) /\ UNCHANGED proc
            /\ obj' = [obj EXCEPT ![o].released = @ \/ obj[o].reused]
        BY <1>2, <1>4, <2>2 DEF Signal
      <3>2. [obj[o] EXCEPT !.released = obj[o].released \/ obj[o].reused] = obj[o]
        BY <1>2 DEF Object
      <3>3. UNCHANGED obj
        BY <3>1, <3>2 DEF TypeOK
      <3>4. call'[t].at = "done" /\ call'[t].obj = o
        BY <3>1, AnswersFields
      <3> QED
        BY <1>2, <1>3, <2>2, <3>1, <3>3, <3>4 DEF Dropping, Holds, Dead, Alive
    <2> QED
      BY <2>1, <2>2
  <1>5. CASE Wait(t)
    <2>1. /\ UNCHANGED obj /\ call[t].proc = obj[o].proc
          /\ proc' = IF Alive(obj[o].proc)
                       THEN [proc EXCEPT ![obj[o].proc] =
                               [proc[obj[o].proc] EXCEPT !.leader = "off", !.listens = FALSE]]
                       ELSE proc
      BY <1>5 DEF Wait, Dropping
    <2>2. call'[t].at = "done" /\ call'[t].obj = o
      BY <1>5, AnswersFields DEF Wait
    <2>3. [proc[obj[o].proc] EXCEPT !.leader = "off", !.listens = FALSE].leader = "off"
      BY <1>2 DEF TypeOK, Process
    <2>4. Dead(o)'
      BY <1>2, <2>1, <2>2, <2>3 DEF Dead, Alive, TypeOK
    <2> QED
      BY <1>2, <1>3, <2>1, <2>2, <2>4 DEF Dropping, Holds, Calm
  <1> QED
    BY <1>1, <1>4, <1>5

LEMMA MakingGoesOn ==
  ASSUME Inv, NEW t \in Threads, Inner(t), Top(t).kind \in Cameras, Top(t).op = "new",
         CallOK(t), Making(t)
  PROVE  UNCHANGED obj /\ Making(t)'
  <1> DEFINE o == call[t].obj
  <1> USE DEF Inv
  <1>1. /\ Enter(t) \/ SpawnRaises(t) \/ Grace(t)
        /\ call[t].wants = "start" /\ o = requests /\ o \in Objects /\ obj[o] \in Object
    BY DEF CallOK, Inner, Probe, Enter, SpawnRaises, Grace, Signal, Wait, TypeOK
  <1>2. t = "handler" /\ todo[t] \in Creating
    BY TopFields DEF CallOK
  <1>3. call[t].at \in {"enter", "spawn"} => obj[o] = NoObject
    BY <1>1, <1>2 DEF Unborn, Fresh
  <1>4. UNCHANGED <<proc, todo>> /\ Top(t)' = Top(t) /\ call'[t].obj = o
    BY <1>1, InnerCalls DEF Enter, SpawnRaises, Grace, env, Top
  <1>5. CASE Enter(t)
    <2>1. Top(t).kind # "endpoint" /\ ~Alive(obj[o].proc)
      BY <1>3, <1>5 DEF Cameras, Enter, NoObject, Alive
    <2>2. obj' = [obj EXCEPT ![o] = [proc |-> obj[o].proc, reused |-> FALSE, released |-> FALSE]]
          /\ At(t, "spawn")
      <3>1. (Top(t).kind = "endpoint" /\ Bound) = FALSE
        BY <2>1
      <3>2. /\ At(t, "spawn")
            /\ obj' = [obj EXCEPT ![o] = [proc |-> IF FALSE THEN 0 ELSE obj[o].proc,
                                          reused |-> FALSE, released |-> FALSE]]
        BY <1>1, <1>5, <2>1, <3>1 DEF Enter, TypeOK
      <3> QED
        BY <3>2
    <2>3. [proc |-> obj[o].proc, reused |-> FALSE, released |-> FALSE] = obj[o]
      <3>1. obj[o] = NoObject
        BY <1>3, <1>5 DEF Enter
      <3>2. [proc |-> NoObject.proc, reused |-> FALSE, released |-> FALSE] = NoObject
        BY DEF NoObject
      <3> QED
        BY <3>1, <3>2
    <2>4. call'[t].at = "spawn"
      BY <2>2 DEF At, TypeOK, Call
    <2> QED
      BY <1>1, <2>2, <2>3, <2>4 DEF TypeOK, Making
  <1>6. CASE SpawnRaises(t)
    <2>1. UNCHANGED obj /\ Answers(t, FALSE) /\ call[t].at = "spawn"
      BY <1>1, <1>6 DEF SpawnRaises, StartRaises
    <2>2. call'[t].at = "done" /\ call'[t].alive = FALSE
      BY <2>1, AnswersFields
    <2> QED
      BY <1>3, <1>4, <2>1, <2>2 DEF Making, Dead, Alive, NoObject
  <1>7. CASE Grace(t)
    <2>1. UNCHANGED obj /\ call[t].at = "grace" /\ call[t].proc = obj[o].proc
          /\ Holds(o, Top(t).kind)
          /\ Answers(t, Alive(obj[o].proc)) /\ Alive(obj[o].proc) \in BOOLEAN
      BY <1>1, <1>7 DEF Grace, StartRaises, Started, Making, Alive
    <2>2. call'[t].at = "done" /\ call'[t].alive = Alive(obj[o].proc)
      BY <2>1, AnswersFields
    <2> QED
      BY <1>4, <2>1, <2>2 DEF Making, Dead, Holds, Alive
  <1> QED
    BY <1>1, <1>5, <1>6, <1>7

LEMMA InnerInv ==
  ASSUME Inv, TypeOK', NEW t \in Threads, Inner(t)
  PROVE  Inv'
  <1> USE DEF Inv
  <1>1. Active(t) /\ CallOK(t) /\ call[t].obj \in Objects /\ todo[t] # <<>>
    BY InnerCalls DEF CallsOK, CallOK
  <1>2. UNCHANGED <<todo, requests>> /\ Top(t)' = Top(t) /\ call'[t].obj = call[t].obj
        /\ call'[t].wants = call[t].wants
    BY InnerCalls DEF Top
  <1>3. Top(t).op = "new" => call'[t].at \in {"enter", "spawn", "grace", "done"}
    BY <1>1, InnerCalls DEF CallOK
  <1>4. CASE Top(t).kind = "endpoint"
    <2>1. "endpoint" \notin Cameras
      BY DEF Cameras
    <2>2. CallOK(t)'
      BY <1>1, <1>2, <1>3, <1>4, <2>1 DEF CallOK
    <2>3. t = "handler" => todo["handler"] # Save
      BY <1>4, Pieces, PieceFields DEF Top
    <2> QED
      BY <1>4, <2>1, <2>2, <2>3, InnerKept
  <1>5. CASE Top(t).kind \in Cameras
    <2>1. CASE Top(t).op = "ask"
      <3>1. /\ UNCHANGED obj /\ Asking(t)'
            /\ call'[t].alive => Alive(obj[call[t].obj].proc)
        BY <1>1, <1>5, <2>1, AskingGoesOn DEF CallOK
      <3>2. CallOK(t)'
        BY <1>1, <1>2, <2>1, <3>1 DEF CallOK
      <3>3. t = "handler" /\ todo["handler"] = Save /\ call'[t].alive => NoneLives("reliability")
        <4> SUFFICES ASSUME t = "handler", todo["handler"] = Save, call'[t].alive
                     PROVE  NoneLives("reliability")
          OBVIOUS
        <4> DEFINE p == obj[call[t].obj].proc
        <4>1. Top(t).kind = "test"
          BY Pieces, PieceFields DEF Top
        <4>2. p \in Procs /\ Alive(p) /\ proc[p].of = "test"
          BY <1>1, <1>5, <2>1, <3>1, <4>1 DEF CallOK, Asking, Holds, TypeOK, Object
        <4> QED
          BY <4>2 DEF OneLives, NoneLives, Cameras
      <3> QED
        BY <3>1, <3>2, <3>3, InnerKept
    <2>2. CASE Top(t).op = "drop"
      <3>1. UNCHANGED obj /\ Dropping(t)'
        BY <1>1, <1>5, <2>2, DroppingGoesOn DEF CallOK
      <3>2. CallOK(t)'
        BY <1>1, <1>2, <2>2, <3>1 DEF CallOK
      <3>3. t = "handler" => todo["handler"] # Save
        BY <2>2, Pieces, PieceFields DEF Top
      <3> QED
        BY <3>1, <3>2, <3>3, InnerKept
    <2>3. CASE Top(t).op = "new"
      <3>1. UNCHANGED obj /\ Making(t)'
        BY <1>1, <1>5, <2>3, MakingGoesOn DEF CallOK
      <3>2. CallOK(t)'
        BY <1>1, <1>2, <1>3, <2>3, <3>1 DEF CallOK
      <3>3. t = "handler" => todo["handler"] # Save
        BY <2>3, Pieces, PieceFields DEF Top
      <3> QED
        BY <3>1, <3>2, <3>3, InnerKept
    <2> QED
      BY <1>1, <1>5, <2>1, <2>2, <2>3 DEF CallOK
  <1> QED
    BY <1>1, <1>4, <1>5, TopFields DEF Kinds

------------------------------------------------------------------------------
(* The pieces of work are told apart by their steps.                        *)

LEMMA PieceHeads ==
  /\ \A w \in {EndpointNew, RuntimeNew, TestNew} : Head(w).op = "new"
  /\ \A w \in {RuntimeOn, RuntimeOff, Restart, TestOff} : Head(w).op = "drop"
  /\ \A w \in {RuntimeAsk, TestOn, Save} : Head(w).op = "ask"
  /\ Head(EndpointOn).op = "reap"
  /\ Head(EndpointNew).kind = "endpoint"
  /\ \A w \in {RuntimeNew, RuntimeAsk, RuntimeOff, TestOn} : Head(w).kind = "reliability"
  /\ \A w \in {RuntimeOn, TestNew, Restart, TestOff, Save} : Head(w).kind = "test"
  /\ Head(RuntimeAsk).no = RuntimeNew /\ Head(TestOn).no = Restart
  <1>1. /\ Head(EndpointOn) = Reap /\ Head(EndpointNew) = New("endpoint")
        /\ Head(RuntimeNew) = New("reliability") /\ Head(TestNew) = New("test")
        /\ Head(RuntimeOn) = Drop("test") /\ Head(Restart) = Drop("test")
        /\ Head(TestOff) = Drop("test") /\ Head(RuntimeOff) = Drop("reliability")
        /\ Head(RuntimeAsk) = Ask("reliability", <<>>, RuntimeNew)
        /\ Head(TestOn) = Ask("reliability", <<>>, Restart) /\ Head(Save) = Ask("test", Restart, <<>>)
    BY Pieces
  <1> QED
    BY <1>1, PieceFields

LEMMA PlainSteps ==
  ASSUME NEW w \in Seq(Plain)
  PROVE  /\ w \notin Creating \cup {RuntimeOff, TestOff}
         /\ w # <<>> => Head(w) \in Plain /\ Tail(w) \in Seq(Plain)
         /\ \A i \in DOMAIN w : w[i] \in Plain
  <1>1. w # <<>> => Head(w) \in Plain /\ Tail(w) \in Seq(Plain)
    OBVIOUS
  <1>2. Tail(w) # EndpointNew \/ w = <<>>
    <2> SUFFICES ASSUME w # <<>>, Tail(w) = EndpointNew PROVE FALSE
      OBVIOUS
    <2>1. EndpointNew \in Seq(Plain) /\ EndpointNew # <<>>
      BY <1>1, PiecesNotEmpty DEF Creating
    <2>2. Head(EndpointNew) \in Plain
      BY <2>1
    <2> QED
      BY <2>2, Pieces, PieceFields DEF Plain
  <1>3. w \notin Creating \cup {RuntimeOff, TestOff}
    <2> SUFFICES ASSUME w # <<>> PROVE w \notin Creating \cup {RuntimeOff, TestOff}
      BY PiecesNotEmpty
    <2>1. Head(w).op \in {"reap", "ask", "quit", "stop", "forget"} /\ Head(w).kind = "endpoint"
      BY <1>1 DEF Plain
    <2>2. w # EndpointOn
      BY <1>2, Pieces
    <2>3. w \notin {EndpointNew, RuntimeNew, TestNew, RuntimeOn, RuntimeOff, Restart, TestOff}
      BY <2>1, PieceHeads
    <2>4. w \notin {RuntimeAsk, TestOn, Save}
      BY <2>1, PieceHeads
    <2> QED
      BY <2>2, <2>3, <2>4 DEF Creating
  <1> QED
    BY <1>1, <1>3

LEMMA Distinct ==
  /\ RuntimeAsk \notin {EndpointOn, EndpointNew, RuntimeOn, RuntimeNew, RuntimeOff, TestOn,
                        Restart, TestNew, TestOff, Save, <<>>}
  /\ Restart \notin {EndpointOn, EndpointNew, RuntimeOn, RuntimeNew, RuntimeOff, TestOn,
                     TestNew, TestOff, Save, <<>>}
  /\ RuntimeNew \notin {EndpointOn, EndpointNew, RuntimeOn, RuntimeOff, TestOn,
                        TestNew, TestOff, Save, <<>>}
  /\ TestNew \notin {EndpointOn, EndpointNew, RuntimeOn, RuntimeOff, TestOn, TestOff, Save, <<>>}
  /\ Save \notin {EndpointOn, EndpointNew, RuntimeOn, RuntimeOff, TestOn, TestOff, <<>>}
  /\ RuntimeOff \notin Creating /\ TestOff \notin Creating /\ <<>> \notin Creating
  <1>1. /\ RuntimeNew \notin {EndpointOn, EndpointNew, RuntimeOn, RuntimeOff, TestOn,
                             Restart, TestNew, TestOff, Save}
        /\ TestNew \notin {EndpointOn, EndpointNew, RuntimeOn, RuntimeOff, TestOn, TestOff, Save}
    BY PieceHeads
  <1>2. RuntimeAsk # TestOn
    BY <1>1, PieceHeads
  <1>3. /\ RuntimeAsk \notin {EndpointOn, EndpointNew, RuntimeOn, RuntimeNew, RuntimeOff,
                             Restart, TestNew, TestOff, Save}
        /\ Save \notin {EndpointOn, EndpointNew, RuntimeOn, RuntimeOff, TestOn, TestOff}
        /\ Restart \notin {EndpointOn, EndpointNew, RuntimeNew, RuntimeOff, TestOn, TestNew, Save}
    BY PieceHeads
  <1>4. /\ RuntimeOff \notin {EndpointOn, EndpointNew, RuntimeNew, RuntimeAsk, RuntimeOn,
                             TestNew, Restart, TestOn, Save}
        /\ TestOff \notin {EndpointOn, EndpointNew, RuntimeNew, RuntimeAsk, TestNew, TestOn, Save}
    BY PieceHeads
  <1>5. \A w \in Creating \cup {RuntimeOff, TestOff} : w # <<>>
    BY PiecesNotEmpty
  <1>6. TestOff # RuntimeOn /\ TestOff # Restart /\ Restart # RuntimeOn
    <2>1. Tail(TestOff) = <<>> /\ Tail(RuntimeOn) = RuntimeAsk /\ Tail(Restart) = TestNew
      BY Pieces
    <2>2. RuntimeAsk # <<>> /\ TestNew # <<>>
      BY <1>5 DEF Creating
    <2> QED
      BY <1>3, <2>1, <2>2
  <1>7. RuntimeAsk # <<>> /\ Restart # <<>> /\ RuntimeNew # <<>> /\ TestNew # <<>> /\ Save # <<>>
    BY <1>5 DEF Creating
  <1>8. RuntimeOff \notin Creating /\ TestOff \notin Creating /\ <<>> \notin Creating
    BY <1>4, <1>5, <1>6 DEF Creating
  <1> QED
    BY <1>1, <1>2, <1>3, <1>4, <1>6, <1>7, <1>8

\* The piece of work a step about a camera program belongs to.
LEMMA CameraPiece ==
  ASSUME WorkOK, todo["handler"] # <<>>, Top("handler").kind \in Cameras
  PROVE  /\ Top("handler").obj = 0 /\ todo["handler"] \notin Seq(Plain)
         /\ Top("handler").op = "new" => todo["handler"] \in {RuntimeNew, TestNew}
         /\ Top("handler").op = "ask" => todo["handler"] \in {RuntimeAsk, TestOn, Save}
         /\ Top("handler").op = "drop" =>
              todo["handler"] \in {RuntimeOn, RuntimeOff, Restart, TestOff}
  <1>1. todo["handler"] \notin Seq(Plain)
    BY PlainSteps DEF Top, Plain, Cameras
  <1>2. todo["handler"] \in Creating \cup {RuntimeOff, TestOff}
    BY <1>1 DEF WorkOK
  <1> QED
    BY <1>1, <1>2, Pieces, PieceFields DEF Top, Creating, Cameras

------------------------------------------------------------------------------
(* The first state, and the beginning of a call.                            *)

LEMMA InvInit == Init => Inv
  <1> SUFFICES ASSUME Init PROVE Inv
    OBVIOUS
  <1>1. TypeOK
    BY TypeInit
  <1>2. /\ todo["handler"] = <<>> /\ todo["main"] = <<>> /\ ~Active("handler") /\ ~Active("main")
        /\ call["handler"].at = "none" /\ \A t \in Threads : call[t].obj = 0
    BY DEF Init, Active, NoCall, Threads
  <1>3. todo["handler"] \in Seq(Plain) /\ todo["main"] \in Seq(Ending)
    BY <1>2
  <1>4. todo["handler"] \notin Creating /\ todo["main"] \notin {Shutdown, AfterRuntime}
    BY <1>2, <1>3, PlainSteps, Leaving
  <1>5. /\ \A k \in Kinds : slot[k] = 0
        /\ \A o \in Objects : obj[o] = NoObject /\ obj[o].proc = 0
        /\ \A p \in Procs : ~Alive(p)
    BY DEF Init, NoObject, NoProcess, Alive
  <1>6. WorkOK
    BY <1>3, <1>4 DEF WorkOK, Init
  <1>7. CallsOK /\ Referenced
    BY <1>2, <1>5 DEF CallsOK, Threads, Referenced
  <1>8. Young /\ Fresh
    <2>1. requests = 0
      BY DEF Init
    <2> QED
      BY <1>2, <1>4, <1>5, <2>1 DEF Young, Fresh, Unborn
  <1>9. EndpointsOK /\ SlotsOK /\ EntriesOK
    <2>1. \A i \in DOMAIN todo["handler"] : FALSE
      BY <1>2
    <2> QED
      BY <1>2, <1>5, <2>1 DEF EndpointsOK, SlotsOK, EntriesOK, Threads, Kinds
  <1>10. Owned /\ Cleared /\ OneLives
    BY <1>2, <1>4, <1>5 DEF Owned, Cleared, OneLives, NoneLives, Creating
  <1> QED
    BY <1>1, <1>6, <1>7, <1>8, <1>9, <1>10 DEF Inv

LEMMA BeginObject ==
  ASSUME Inv, NEW t \in Threads, Begin(t)
  PROVE  LET o == IF Top(t).op = "new" THEN requests ELSE Subject(t) IN
         /\ o \in Objects /\ o <= requests /\ todo[t] # <<>> /\ ~Active(t)
         /\ UNCHANGED <<other, proc, obj, slot, todo, main, requests, hist>>
         /\ call'[t].obj = o /\ call'[t].wants = Wants(Top(t)) /\ call'[t].proc = 0
         /\ call'[t].at = (CASE Top(t).op = "new" -> "enter" [] Top(t).op = "drop" -> "signal"
                             [] OTHER -> "probe")
         /\ \A u \in Threads : u # t => call'[u] = call[u]
         /\ Top(t).obj = 0 => o = (IF Top(t).op = "new" THEN requests ELSE slot[Top(t).kind])
         /\ Top(t).obj # 0 => ForEndpoint(Top(t).obj) /\ Top(t).op # "new"
         /\ Top(t).kind \in Cameras \/ t = "main" => Top(t).obj = 0
  <1> DEFINE o == IF Top(t).op = "new" THEN requests ELSE Subject(t)
  <1> USE DEF Inv
  <1>1. todo[t] # <<>> /\ ~Active(t) /\ o # 0
    BY DEF Begin, Doing, Active
  <1>2. UNCHANGED <<other, proc, obj, slot, todo, main, requests, hist>>
    BY DEF Begin, env, Unchanged
  <1>3. /\ call'[t].obj = o /\ call'[t].wants = Wants(Top(t)) /\ call'[t].proc = 0
        /\ call'[t].at = (CASE Top(t).op = "new" -> "enter" [] Top(t).op = "drop" -> "signal"
                             [] OTHER -> "probe")
        /\ \A u \in Threads : u # t => call'[u] = call[u]
    <2>1. \A at, wants, x : LET c == [NoCall EXCEPT !.obj = x, !.wants = wants, !.at = at] IN
            c.obj = x /\ c.wants = wants /\ c.at = at /\ c.proc = 0
      BY DEF NoCall
    <2>2. \E at : /\ call' = [call EXCEPT ![t] =
                        [NoCall EXCEPT !.obj = o, !.wants = Wants(Top(t)), !.at = at]]
                  /\ at = (CASE Top(t).op = "new" -> "enter" [] Top(t).op = "drop" -> "signal"
                             [] OTHER -> "probe")
      BY DEF Begin
    <2>3. call \in [Threads -> Call]
      BY DEF TypeOK
    <2> QED
      BY <2>1, <2>2, <2>3
  <1>4. /\ Top(t).kind \in Kinds /\ Top(t).obj \in Objects \cup {0}
        /\ Top(t).kind \in Cameras \/ t = "main" => Top(t).obj = 0
        /\ Top(t).op = "new" => t = "handler" /\ todo[t] \in Creating
    BY <1>1, TopFields DEF Cameras, Kinds
  <1>5. Top(t).obj # 0 => /\ ForEndpoint(Top(t).obj) /\ Top(t).op # "new"
                          /\ Top(t).obj <= requests
    <2> SUFFICES ASSUME Top(t).obj # 0
                 PROVE  /\ ForEndpoint(Top(t).obj) /\ Top(t).op # "new"
                        /\ Top(t).obj <= requests
      OBVIOUS
    <2>1. t = "handler"
      BY <1>4 DEF Threads
    <2>2. todo[t] \in Seq(Plain)
      BY <2>1, Pieces, PieceFields DEF WorkOK, Creating, Top
    <2>3. 1 \in DOMAIN todo[t] /\ Top(t) = todo[t][1] /\ Top(t) \in Plain
      BY <1>1, <2>2 DEF Top
    <2> QED
      BY <2>1, <2>2, <2>3 DEF EndpointsOK, Plain
  <1>6. slot[Top(t).kind] \in Objects \cup {0} /\ slot[Top(t).kind] <= requests
    BY <1>4 DEF TypeOK, Young
  <1>7. Top(t).op = "new" => o = requests /\ requests \in Objects
    BY <1>4 DEF Fresh
  <1>8. o \in Objects /\ o <= requests
    <2>1. \A x \in Objects : x <= x
      BY DEF Objects
    <2> QED
      BY <1>1, <1>4, <1>5, <1>6, <1>7, <2>1 DEF Subject
  <1> QED
    BY <1>1, <1>2, <1>3, <1>4, <1>5, <1>8 DEF Subject

LEMMA BeginInv ==
  ASSUME Inv, TypeOK', NEW t \in Threads, Begin(t)
  PROVE  Inv'
  <1> DEFINE o == IF Top(t).op = "new" THEN requests ELSE Subject(t)
  <1> USE DEF Inv
  <1>1. /\ o \in Objects /\ o <= requests /\ todo[t] # <<>> /\ ~Active(t)
        /\ UNCHANGED <<other, proc, obj, slot, todo, main, requests, hist>>
        /\ call'[t].obj = o /\ call'[t].wants = Wants(Top(t)) /\ call'[t].proc = 0
        /\ call'[t].at = (CASE Top(t).op = "new" -> "enter" [] Top(t).op = "drop" -> "signal"
                            [] OTHER -> "probe")
        /\ \A u \in Threads : u # t => call'[u] = call[u]
        /\ Top(t).obj = 0 => o = (IF Top(t).op = "new" THEN requests ELSE slot[Top(t).kind])
        /\ Top(t).obj # 0 => ForEndpoint(Top(t).obj) /\ Top(t).op # "new"
        /\ Top(t).kind \in Cameras \/ t = "main" => Top(t).obj = 0
        /\ Top(t).obj # 0 => o = Top(t).obj
    BY BeginObject DEF Subject
  <1> HIDE DEF o
  <1>2. call'[t].at \in {"enter", "signal", "probe"} /\ (call'[t].at = "enter" <=> Top(t).op = "new")
    BY <1>1
  <1>3. /\ \A u \in Threads : Top(u)' = Top(u)
        /\ \A x : ForEndpoint(x)' = ForEndpoint(x) /\ Dead(x)' = Dead(x)
        /\ \A x, k : Holds(x, k)' = Holds(x, k)
        /\ \A k : NoneLives(k)' = NoneLives(k)
        /\ \A p : Alive(p)' = Alive(p)
    BY <1>1 DEF Top, ForEndpoint, Dead, Holds, NoneLives, Alive
  <1>4. \A u \in Threads : u # t => (Active(u)' <=> Active(u))
    BY <1>1 DEF Active
  <1>5. /\ Top(t).kind \in Kinds
        /\ Top(t).op = "new" => t = "handler" /\ todo[t] \in Creating /\ Unborn
        /\ Top(t).kind # "endpoint" => Top(t).op \in {"ask", "drop", "new"}
        /\ t = "main" => Top(t).op # "new"
    BY <1>1, TopFields DEF Unborn, Active
  <1>6. CallsOK'
    <2>1. CallOK(t)'
      <3>1. Top(t).kind \in Cameras /\ Top(t).op # "new" => Holds(o, Top(t).kind)
        BY <1>1 DEF SlotsOK, Objects
      <3>2. Top(t).kind \in Cameras /\ Top(t).op = "ask" => Asking(t)'
        BY <1>1, <1>3, <3>1 DEF Asking, Wants
      <3>3. Top(t).kind \in Cameras /\ Top(t).op = "drop" => Dropping(t)'
        BY <1>1, <1>3, <3>1 DEF Dropping
      <3>4. Top(t).op = "new" => Making(t)'
        BY <1>1 DEF Making
      <3>5. Top(t).op = "new" => call'[t].obj = requests /\ call'[t].wants = "start"
        BY <1>1 DEF o, Wants
      <3>6. Top(t).kind \in Cameras => Top(t).op \in {"ask", "drop", "new"}
        BY <1>5 DEF Cameras
      <3> QED
        BY <1>1, <1>2, <1>3, <3>2, <3>3, <3>4, <3>5, <3>6 DEF CallOK
    <2>2. ASSUME NEW u \in Threads, u # t, Active(u)' PROVE CallOK(u)'
      <3>1. CallOK(u)
        BY <1>4, <2>2 DEF CallsOK
      <3> QED
        BY <1>1, <1>3, <2>2, <3>1, CallUntouched
    <2> QED
      BY <2>1, <2>2 DEF CallsOK
  <1>7. WorkOK'
    BY <1>1 DEF WorkOK
  <1>8. Referenced'
    BY <1>1 DEF Referenced
  <1>9. Young'
    BY <1>1 DEF Young
  <1>10. Unborn' => Unborn
    BY <1>1, <1>2, <1>3 DEF Unborn, Active, Threads
  <1>11. Fresh'
    <2>1. ASSUME todo["handler"] \in Creating, Top(t).op # "new" PROVE o # requests
      <3>1. Top(t).obj = 0
        BY <1>1, <2>1, Pieces, PieceFields DEF Top, Creating, Threads
      <3> QED
        BY <1>1, <1>5, <2>1, <3>1 DEF Fresh
    <2>2. todo["handler"] \in Creating =>
            /\ Active("main")' => call'["main"].obj # requests
            /\ Active("handler")' /\ Top("handler").op # "new" => call'["handler"].obj # requests
      BY <1>1, <1>4, <1>5, <2>1 DEF Fresh, Threads
    <2> QED
      BY <1>1, <1>3, <1>10, <2>2 DEF Fresh, Threads
  <1>12. EndpointsOK'
    <2>1. Top(t).kind = "endpoint" => ForEndpoint(o)
      <3>1. CASE Top(t).op = "new"
        BY <1>1, <1>5, <3>1 DEF o, Fresh, ForEndpoint, NoObject
      <3>2. CASE Top(t).op # "new"
        BY <1>1, <3>2 DEF EndpointsOK, Objects
      <3> QED
        BY <3>1, <3>2
    <2> QED
      BY <1>1, <1>3, <1>4, <2>1 DEF EndpointsOK
  <1>13. SlotsOK'
    BY <1>1, <1>3 DEF SlotsOK
  <1>14. EntriesOK'
    BY <1>1, <1>3, <1>4, <1>5 DEF EntriesOK, Threads
  <1>15. Owned'
    <2>1. t = "handler" => call["handler"].at = "none"
      BY <1>1 DEF Active
    <2> QED
      BY <1>1, <1>3, <2>1 DEF Owned, Threads
  <1>16. Cleared'
    <2>1. t = "handler" => call["handler"].at = "none" /\ call'["handler"].at \notin {"done", "grace"}
      BY <1>1, <1>2 DEF Active
    <2>2. t # "handler" => call'["handler"] = call["handler"]
      BY <1>1 DEF Threads
    <2> QED
      BY <1>1, <1>3, <2>1, <2>2 DEF Cleared
  <1>17. OneLives'
    BY <1>1, <1>3 DEF OneLives
  <1> QED
    BY <1>6, <1>7, <1>8, <1>9, <1>11, <1>12, <1>13, <1>14, <1>15, <1>16, <1>17

------------------------------------------------------------------------------
(* A process begins.                                                        *)

LEMMA SpawnFields ==
  ASSUME Inv, NEW t \in Threads, Spawn(t)
  PROVE  LET o == call[t].obj IN
         \E p \in Procs :
           /\ ~Alive(p) /\ \A x \in Objects : obj[x].proc # p
           /\ \A q \in Procs : q # p => proc'[q] = proc[q]
           /\ proc'[p].of = Top(t).kind /\ proc'[p].leader = "on"
           /\ \A x \in Objects : x # o => obj'[x] = obj[x]
           /\ obj'[o].proc = p /\ obj'[o].reused = obj[o].reused
           /\ call'[t].at = "grace" /\ call'[t].proc = p /\ call'[t].obj = o
           /\ call'[t].wants = call[t].wants /\ call'[t].alive = call[t].alive
           /\ \A u \in Threads : u # t => call'[u] = call[u]
           /\ UNCHANGED <<other, slot, todo, main, requests, hist>>
           /\ Active(t) /\ o \in Objects /\ todo[t] # <<>> /\ CallOK(t)
  <1> DEFINE o == call[t].obj
  <1> USE DEF Inv
  <1>1. Active(t) /\ o \in Objects /\ todo[t] # <<>> /\ CallOK(t)
    BY DEF Spawn, Active, CallsOK, CallOK
  <1>2. PICK p \in Unused :
          /\ proc' = [proc EXCEPT ![p] = [of |-> Top(t).kind, leader |-> "on", listens |-> FALSE]]
          /\ obj' = [obj EXCEPT ![o] = [obj[o] EXCEPT !.proc = p]]
          /\ call' = [call EXCEPT ![t] = [call[t] EXCEPT !.at = "grace", !.proc = p]]
    BY <1>1, UnusedProcess DEF Spawn, TypeOK
  <1>3. p \in Procs /\ proc[p].leader = "none"
    BY DEF Unused
  <1>4. p # 0
    BY <1>3 DEF Procs
  <1>5. ~Alive(p) /\ \A x \in Objects : obj[x].proc # p
    BY <1>3, <1>4 DEF Alive, Referenced
  <1>6. /\ \A q \in Procs : q # p => proc'[q] = proc[q]
        /\ proc'[p].of = Top(t).kind /\ proc'[p].leader = "on"
    BY <1>2, <1>3 DEF TypeOK
  <1>7. /\ [obj[o] EXCEPT !.proc = p].proc = p /\ [obj[o] EXCEPT !.proc = p].reused = obj[o].reused
    BY <1>1 DEF TypeOK, Object
  <1>8. /\ \A x \in Objects : x # o => obj'[x] = obj[x]
        /\ obj'[o].proc = p /\ obj'[o].reused = obj[o].reused
    BY <1>1, <1>2, <1>7 DEF TypeOK
  <1>9. LET c == [call[t] EXCEPT !.at = "grace", !.proc = p] IN
          c.at = "grace" /\ c.proc = p /\ c.obj = o /\ c.wants = call[t].wants
            /\ c.alive = call[t].alive
    BY DEF TypeOK, Call
  <1>10. /\ call'[t].at = "grace" /\ call'[t].proc = p /\ call'[t].obj = o
         /\ call'[t].wants = call[t].wants /\ call'[t].alive = call[t].alive
         /\ \A u \in Threads : u # t => call'[u] = call[u]
    BY <1>2, <1>9 DEF TypeOK
  <1>11. UNCHANGED <<other, slot, todo, main, requests, hist>>
    BY DEF Spawn, Unchanged
  <1> QED
    BY <1>1, <1>3, <1>5, <1>6, <1>8, <1>10, <1>11

LEMMA SpawnInv ==
  ASSUME Inv, TypeOK', NEW t \in Threads, Spawn(t)
  PROVE  Inv'
  <1> PICK o, k : o = call[t].obj /\ k = Top(t).kind
    OBVIOUS
  <1> USE DEF Inv
  <1>1. PICK p \in Procs :
          /\ ~Alive(p) /\ \A x \in Objects : obj[x].proc # p
          /\ \A q \in Procs : q # p => proc'[q] = proc[q]
          /\ proc'[p].of = k /\ proc'[p].leader = "on"
          /\ \A x \in Objects : x # o => obj'[x] = obj[x]
          /\ obj'[o].proc = p /\ obj'[o].reused = obj[o].reused
          /\ call'[t].at = "grace" /\ call'[t].proc = p /\ call'[t].obj = o
          /\ call'[t].wants = call[t].wants /\ call'[t].alive = call[t].alive
          /\ \A u \in Threads : u # t => call'[u] = call[u]
          /\ UNCHANGED <<other, slot, todo, main, requests, hist>>
          /\ Active(t) /\ o \in Objects /\ todo[t] # <<>> /\ CallOK(t)
    BY SpawnFields
  <1>2. call[t].at = "spawn" /\ p # 0
    BY DEF Spawn, Procs
  <1>3. \A u \in Threads : Top(u)' = Top(u) /\ (Active(u)' <=> Active(u))
    BY <1>1 DEF Top, Active
  <1>4. \A q \in Procs : q # p => (Alive(q)' <=> Alive(q))
    BY <1>1 DEF Alive
  <1>5. k \in Kinds /\ (k = "endpoint" \/ k \in Cameras) /\ "endpoint" \notin Cameras
    BY <1>1, TopFields DEF Kinds, Cameras
  \* A camera program is started by the handler, for an object nobody knows.
  <1>6. k \in Cameras =>
          /\ t = "handler" /\ Top(t).op = "new" /\ todo[t] \in {RuntimeNew, TestNew}
          /\ Top(t) = New(k) /\ o = requests /\ obj[o] = NoObject
          /\ todo[t] \in Creating
    <2> SUFFICES ASSUME k \in Cameras
                 PROVE  /\ t = "handler" /\ Top(t).op = "new" /\ todo[t] \in {RuntimeNew, TestNew}
                        /\ Top(t) = New(k) /\ o = requests /\ obj[o] = NoObject
                        /\ todo[t] \in Creating
      OBVIOUS
    <2>1. Top(t).op = "new"
      BY <1>1, <1>2 DEF CallOK, Asking, Dropping
    <2>2. t = "handler" /\ todo[t] \in Creating
      BY <1>1, <2>1, TopFields
    <2>3. todo[t] \in {RuntimeNew, TestNew}
      BY <1>1, <2>1, <2>2, CameraPiece
    <2>4. o = requests /\ obj[o] = NoObject
      BY <1>1, <1>2, <2>1, <2>2 DEF CallOK, Fresh, Unborn
    <2>5. Top(t) = New(k)
      BY <2>3, Pieces, PieceFields DEF Top
    <2> QED
      BY <2>1, <2>2, <2>3, <2>4, <2>5
  <1>7. k = "endpoint" => ForEndpoint(o) /\ ForEndpoint(o)'
    BY <1>1, <1>5 DEF EndpointsOK, ForEndpoint
  <1>8. \A x \in Objects : x # o =>
          /\ ForEndpoint(x) => ForEndpoint(x)'
          /\ \A c \in Cameras : Holds(x, c) => Holds(x, c)'
          /\ Dead(x) => Dead(x)'
    <2> SUFFICES ASSUME NEW x \in Objects, x # o
                 PROVE  /\ ForEndpoint(x) => ForEndpoint(x)'
                        /\ \A c \in Cameras : Holds(x, c) => Holds(x, c)'
                        /\ Dead(x) => Dead(x)'
      OBVIOUS
    <2>1. obj'[x] = obj[x] /\ obj[x].proc # p /\ obj[x].proc \in Procs \cup {0}
      BY <1>1 DEF TypeOK, Object
    <2>2. proc'[obj[x].proc] = proc[obj[x].proc] \/ obj[x].proc = 0
      BY <1>1, <2>1
    <2>3. ~Alive(0) /\ ~Alive(0)'
      BY DEF Alive
    <2> QED
      BY <1>4, <2>1, <2>2, <2>3 DEF ForEndpoint, Holds, Dead
  <1>9. \A c \in Cameras : slot[c] # o
    <2>1. CASE k \in Cameras
      BY <1>6, <2>1 DEF Fresh, Kinds
    <2>2. CASE k = "endpoint"
      <3>1. \A c \in Cameras : ~Holds(o, c)
        BY <1>5, <1>7, <2>2 DEF Holds, ForEndpoint
      <3>2. o # 0
        BY <1>1 DEF Objects
      <3> QED
        BY <3>1, <3>2 DEF SlotsOK
    <2> QED
      BY <1>5, <2>1, <2>2
  <1>10. \A u \in Threads : u # t /\ Active(u) /\ (Top(u).kind \in Cameras \/ k \in Cameras) =>
           call[u].obj # o
    <2> SUFFICES ASSUME NEW u \in Threads, u # t, Active(u), Top(u).kind \in Cameras \/ k \in Cameras,
                        call[u].obj = o
                 PROVE  FALSE
      OBVIOUS
    <2>1. CASE k \in Cameras
      BY <1>6, <2>1 DEF Fresh, Threads
    <2>2. CASE k = "endpoint"
      <3>1. CallOK(u) /\ Top(u).kind \in Cameras
        BY <1>5, <2>2 DEF CallsOK
      <3>2. ~Holds(o, Top(u).kind)
        BY <1>5, <1>7, <2>2, <3>1 DEF Holds, ForEndpoint
      <3>3. Top(u).op = "new"
        BY <3>1, <3>2 DEF CallOK, Asking, Dropping
      <3>4. u = "handler" /\ t = "main" /\ todo[u] \in Creating /\ call[u].obj = requests
        BY <3>1, <3>3, TopFields DEF CallOK, Threads
      <3> QED
        BY <1>1, <3>4 DEF Fresh
    <2> QED
      BY <1>5, <2>1, <2>2
  <1>11. CallsOK'
    <2>1. CallOK(t)'
      <3>1. k \in Cameras => Making(t)'
        <4> SUFFICES ASSUME k \in Cameras PROVE Making(t)'
          OBVIOUS
        <4>1. ~obj'[o].reused
          BY <1>1, <1>6 DEF NoObject
        <4>2. Holds(o, k)'
          BY <1>1, <1>2, <1>3, <4>1 DEF Holds
        <4> QED
          BY <1>1, <1>3, <4>2 DEF Making
      <3> QED
        BY <1>1, <1>3, <1>6, <3>1 DEF CallOK
    <2>2. ASSUME NEW u \in Threads, u # t, Active(u) PROVE CallOK(u)'
      <3>1. CallOK(u) /\ call[u].obj \in Objects /\ call'[u] = call[u] /\ todo'[u] = todo[u]
        BY <1>1, <2>2 DEF CallsOK, CallOK
      <3>2. CASE Top(u).kind \in Cameras
        BY <1>1, <1>8, <1>10, <2>2, <3>1, <3>2, CallUntouched
      <3>3. CASE Top(u).kind \notin Cameras
        BY <1>1, <1>3, <3>1, <3>3 DEF CallOK
      <3> QED
        BY <3>2, <3>3
    <2> QED
      BY <1>3, <2>1, <2>2 DEF CallsOK
  <1>12. WorkOK'
    BY <1>1 DEF WorkOK
  <1>13. Referenced'
    <2> SUFFICES ASSUME NEW x \in Objects, obj'[x].proc # 0
                 PROVE  proc'[obj'[x].proc].leader # "none"
      BY DEF Referenced
    <2>1. CASE x = o
      BY <1>1, <2>1
    <2>2. CASE x # o
      <3>1. obj'[x] = obj[x] /\ obj[x].proc # p /\ obj[x].proc \in Procs
        BY <1>1, <2>2 DEF TypeOK, Object
      <3> QED
        BY <1>1, <3>1 DEF Referenced
    <2> QED
      BY <2>1, <2>2
  <1>14. Young'
    <2>1. o <= requests
      BY DEF Young
    <2>2. \A x \in Objects : x > requests => x # o
      BY <1>1, <2>1 DEF TypeOK, Objects
    <2> QED
      BY <1>1, <2>2 DEF Young
  <1>15. Fresh'
    <2>1. Unborn' => Unborn /\ o # requests
      <3> SUFFICES ASSUME Unborn' PROVE Unborn /\ o # requests
        OBVIOUS
      <3>1. todo["handler"] \in Creating
        BY <1>1 DEF Unborn
      <3>2. Unborn
        BY <1>1, <1>2, <1>3, <3>1 DEF Unborn, Threads
      <3>3. t = "handler" => Top(t).op # "new"
        BY <1>1, <1>3 DEF Unborn
      <3> QED
        BY <1>1, <3>1, <3>2, <3>3 DEF Fresh, Threads
    <2>2. call'["main"].obj = call["main"].obj /\ call'["handler"].obj = call["handler"].obj
      BY <1>1 DEF Threads
    <2>3. Unborn' => requests \in Objects
      BY <1>1 DEF Unborn, Fresh
    <2>4. Unborn' => obj'[requests] = NoObject
      BY <1>1, <2>1, <2>3 DEF Fresh
    <2> QED
      BY <1>1, <1>3, <2>2, <2>4 DEF Fresh, Threads
  <1>16. EndpointsOK'
    <2>1. ASSUME NEW x \in Objects, ForEndpoint(x), k \in Cameras => x # o
          PROVE  ForEndpoint(x)'
      BY <1>5, <1>7, <1>8, <2>1
    <2>2. slot["endpoint"] # 0 => ForEndpoint(slot["endpoint"])'
      BY <1>1, <1>6, <2>1 DEF EndpointsOK, Fresh, TypeOK, Kinds
    <2>3. \A u \in Threads : Active(u) /\ Top(u).kind = "endpoint" => ForEndpoint(call[u].obj)'
      <3> SUFFICES ASSUME NEW u \in Threads, Active(u), Top(u).kind = "endpoint"
                   PROVE  ForEndpoint(call[u].obj)'
        OBVIOUS
      <3>1. call'[u].obj = call[u].obj /\ call[u].obj \in Objects /\ ForEndpoint(call[u].obj)
        BY <1>1 DEF CallsOK, CallOK, EndpointsOK
      <3>2. k \in Cameras => call[u].obj # o
        BY <1>5, <1>10
      <3> QED
        BY <2>1, <3>1, <3>2
    <2>4. todo["handler"] \in Seq(Plain) =>
            \A i \in DOMAIN todo["handler"] :
              todo["handler"][i].obj # 0 =>
                ForEndpoint(todo["handler"][i].obj)' /\ todo["handler"][i].obj <= requests
      <3> SUFFICES ASSUME todo["handler"] \in Seq(Plain), NEW i \in DOMAIN todo["handler"],
                          todo["handler"][i].obj # 0
                   PROVE  ForEndpoint(todo["handler"][i].obj)' /\ todo["handler"][i].obj <= requests
        OBVIOUS
      <3>1. todo["handler"][i].obj \in Objects /\ todo["handler"] \notin Creating
        BY PlainSteps DEF Plain
      <3>2. k \notin Cameras /\ UNCHANGED todo
        BY <1>1, <1>6, <3>1
      <3> QED
        BY <2>1, <3>1, <3>2 DEF EndpointsOK
    <2> QED
      BY <1>1, <1>3, <2>2, <2>3, <2>4 DEF EndpointsOK
  <1>17. SlotsOK'
    BY <1>1, <1>8, <1>9 DEF SlotsOK, TypeOK, Kinds
  <1>18. \A u \in Threads : call'[u].obj = call[u].obj
    BY <1>1
  <1>19. EntriesOK'
    BY <1>1, <1>3, <1>18 DEF EntriesOK, Threads
  <1>20. Owned'
    <2> SUFFICES ASSUME NEW q \in Procs, Alive(q)', proc'[q].of \in Cameras
                 PROVE  \/ slot[proc'[q].of] # 0 /\ obj'[slot[proc'[q].of]].proc = q
                        \/ /\ call'["handler"].at \in {"grace", "done"}
                           /\ Top("handler") = New(proc'[q].of)
                           /\ obj'[call'["handler"].obj].proc = q
                        \/ main # "serving" /\ todo["handler"] \notin Creating
      BY <1>1, <1>3 DEF Owned, Threads
    <2>1. CASE q = p
      BY <1>1, <1>6, <2>1
    <2>2. CASE q # p
      <3>1. Alive(q) /\ proc'[q] = proc[q]
        BY <1>1, <1>4, <2>2
      <3>2. CASE slot[proc[q].of] # 0 /\ obj[slot[proc[q].of]].proc = q
        BY <1>1, <1>9, <3>1, <3>2 DEF TypeOK, Kinds
      <3>3. CASE /\ call["handler"].at \in {"grace", "done"}
                 /\ Top("handler") = New(proc[q].of) /\ obj[call["handler"].obj].proc = q
        <4>1. t # "handler" /\ Active("handler")
          BY <1>2, <3>3 DEF Active
        <4>2. call["handler"].obj \in Objects /\ Top("handler").kind \in Cameras
          BY <3>1, <3>3, <4>1, PieceFields DEF CallsOK, CallOK, Threads
        <4> QED
          BY <1>1, <1>10, <3>1, <3>3, <4>1, <4>2 DEF Threads
      <3> QED
        BY <3>1, <3>2, <3>3 DEF Owned
    <2> QED
      BY <2>1, <2>2
  <1>21. k = "endpoint" => \A c \in Cameras : NoneLives(c) => NoneLives(c)'
    BY <1>1, <1>4, <1>5 DEF NoneLives
  <1>22. k \in Cameras => \A q \in Procs : q # p /\ Alive(q)' => proc'[q].of \notin Cameras
    BY <1>1, <1>2, <1>4, <1>6 DEF Cleared, NoneLives
  <1>23. Cleared'
    <2>1. CASE k \in Cameras
      BY <1>1, <1>6, <1>22, <2>1, Distinct DEF Cleared
    <2>2. CASE k = "endpoint"
      <3>1. todo["handler"] \in {RuntimeNew, TestNew} => t # "handler"
        BY <1>5, <2>2, Pieces, PieceFields DEF Top, Cameras
      <3>2. todo["handler"] = Save => t # "handler"
        BY <1>5, <2>2, Pieces, PieceFields DEF Top, Cameras
      <3>3. ASSUME todo["handler"] \in {RuntimeNew, TestNew},
                   call["handler"].at \in {"grace", "done"},
                   NEW q \in Procs, Alive(q)', proc'[q].of \in Cameras
            PROVE  obj'[call["handler"].obj].proc = q
        <4>1. q # p /\ Alive(q) /\ proc[q] = proc'[q]
          BY <1>1, <1>4, <1>5, <2>2, <3>3
        <4>2. Active("handler") /\ Top("handler").kind \in Cameras
          BY <3>3, Pieces, PieceFields DEF Active, Top, Cameras
        <4>3. call["handler"].obj \in Objects /\ call["handler"].obj # o
          BY <1>10, <3>1, <3>3, <4>2 DEF CallsOK, CallOK, Threads
        <4> QED
          BY <1>1, <3>3, <4>1, <4>3 DEF Cleared
      <3>4. t # "handler" => call'["handler"] = call["handler"]
        BY <1>1 DEF Threads
      <3> QED
        BY <1>1, <1>21, <2>2, <3>1, <3>2, <3>3, <3>4 DEF Cleared, Cameras
    <2> QED
      BY <1>5, <2>1, <2>2
  <1>24. OneLives'
    BY <1>1, <1>4, <1>5, <1>22 DEF OneLives
  <1> QED
    BY <1>11, <1>12, <1>13, <1>14, <1>15, <1>16, <1>17, <1>19, <1>20, <1>23, <1>24

------------------------------------------------------------------------------
(* The beginning of some work.                                              *)

LEMMA Scripts ==
  ASSUME NEW request \in Requests
  PROVE  /\ Script(request) \in {EndpointOn, RuntimeOn, RuntimeOff, TestOn, TestOff, Save}
              \cup Seq(Plain)
         /\ Script(request) \in Seq(Plain) =>
              \A i \in DOMAIN Script(request) : Script(request)[i].obj = 0
         /\ Script(request) \notin {RuntimeAsk, Restart, RuntimeNew, TestNew}
  <1> DEFINE Off == <<Reap, Step("stop", "endpoint")>>
  <1>1. request \in {"endpoint on", "endpoint off", "reliability on", "reliability off",
                     "test on", "test off", "save"}
    BY RequestsAssumption DEF RequestsAssumption
  <1>2. /\ Reap \in Plain /\ Step("stop", "endpoint") \in Plain
        /\ Reap.obj = 0 /\ Step("stop", "endpoint").obj = 0
    BY DEF Plain, Reap, Step
  <1>3. Off \in Seq(Plain) /\ \A i \in DOMAIN Off : Off[i].obj = 0
    BY <1>2
  <1>4. request = "endpoint off" => Script(request) = Off
    BY DEF Script
  <1>5. request # "endpoint off" =>
          Script(request) \in {EndpointOn, RuntimeOn, RuntimeOff, TestOn, TestOff, Save}
    BY <1>1 DEF Script, EndpointOn, RuntimeOn, RuntimeOff, TestOn, TestOff, Save, RuntimeNew, Restart
  <1>6. {EndpointOn, RuntimeOn, RuntimeOff, TestOn, TestOff, Save}
          \subseteq Creating \cup {RuntimeOff, TestOff}
    BY DEF Creating
  <1>7. \A w \in Creating \cup {RuntimeOff, TestOff} : w \notin Seq(Plain)
    BY PlainSteps
  <1>8. {RuntimeAsk, Restart, RuntimeNew, TestNew} \subseteq Creating
    BY DEF Creating
  <1> HIDE DEF Off
  <1> QED
    BY <1>3, <1>4, <1>5, <1>6, <1>7, <1>8, Distinct

LEMMA WorkBegunInv ==
  ASSUME Inv, TypeOK',
         (\E request \in Requests : Accept(request)) \/ Status \/ Watch \/ LeaveUi
  PROVE  Inv'
  <1> USE DEF Inv
  <1>1. UNCHANGED <<proc, obj, slot, call>> /\ main = "serving"
    BY DEF Accept, Status, Watch, LeaveUi, env
  <1>2. PICK t \in Threads :
          /\ todo[t] = <<>> /\ \A u \in Threads : u # t => todo'[u] = todo[u]
          /\ todo' = [x \in Threads |-> todo'[x]]
          /\ t = "main" => /\ requests' = requests
                           /\ \/ todo'[t] = <<Reap>> /\ main' = main
                              \/ todo'[t] = Shutdown /\ main' = "leaving"
          /\ t = "handler" =>
               /\ main' = main
               /\ \/ todo'[t] = <<Reap>> /\ requests' = requests
                  \/ /\ requests < MaxRequests /\ requests' = requests + 1
                     /\ \E request \in Requests : todo'[t] = Script(request)
    <2>1. todo = [x \in Threads |-> todo[x]]
      BY DEF WorkOK
    <2>2. CASE (\E request \in Requests : Accept(request)) \/ Status
      <3>1. "handler" \in Threads
        BY DEF Threads
      <3> WITNESS "handler" \in Threads
      <3> QED
        BY <2>1, <2>2 DEF Accept, Status, Threads
    <2>3. CASE Watch \/ LeaveUi
      <3>1. "main" \in Threads
        BY DEF Threads
      <3> WITNESS "main" \in Threads
      <3> QED
        BY <2>1, <2>3 DEF Watch, LeaveUi, Threads
    <2> QED
      BY <2>2, <2>3
  <1>3. ~Active(t)
    BY <1>2 DEF CallsOK, CallOK
  <1>4. requests \in Nat /\ requests' \in Nat /\ requests <= requests'
        /\ (requests < MaxRequests => requests + 1 \in Objects)
    BY <1>2, BoundsAssumption DEF BoundsAssumption, TypeOK, Threads, Objects
  <1>5. /\ \A u \in Threads : u # t => Top(u)' = Top(u)
        /\ \A u \in Threads : Active(u)' = Active(u)
        /\ \A x : ForEndpoint(x)' = ForEndpoint(x) /\ Dead(x)' = Dead(x)
        /\ \A x, k : Holds(x, k)' = Holds(x, k)
        /\ \A k : NoneLives(k)' = NoneLives(k)
        /\ \A p : Alive(p)' = Alive(p)
    BY <1>1, <1>2 DEF Top, Active, ForEndpoint, Dead, Holds, NoneLives, Alive
  <1>6. <<Reap>> \in Seq(Plain) /\ <<Reap>> \in Seq(Ending) /\ <<Reap>>[1].obj = 0
        /\ \A i \in DOMAIN <<Reap>> : <<Reap>>[i].obj = 0
    <2>1. Reap \in Plain /\ Reap \in Ending /\ Reap.obj = 0
      BY DEF Plain, Ending, Reap, Step
    <2> QED
      BY <2>1
  <1>7. /\ t = "handler" => todo'[t] \in Creating \cup {RuntimeOff, TestOff} \cup Seq(Plain)
        /\ t = "handler" /\ todo'[t] \in Creating =>
             requests < MaxRequests /\ requests' = requests + 1
        /\ t = "handler" => todo'[t] \notin {RuntimeAsk, Restart, RuntimeNew, TestNew}
        /\ t = "handler" /\ todo'[t] \in Seq(Plain) =>
             \A i \in DOMAIN todo'[t] : todo'[t][i].obj = 0
    <2>1. <<Reap>> \notin Creating
      BY <1>6, PlainSteps
    <2>2. {EndpointOn, RuntimeOn, RuntimeOff, TestOn, TestOff, Save}
            \subseteq Creating \cup {RuntimeOff, TestOff}
          /\ {RuntimeAsk, Restart, RuntimeNew, TestNew} \subseteq Creating
      BY DEF Creating
    <2>3. CASE todo'[t] = <<Reap>>
      BY <1>6, <2>1, <2>2, <2>3
    <2>4. ASSUME t = "handler", NEW request \in Requests, todo'[t] = Script(request),
                 requests < MaxRequests, requests' = requests + 1
          PROVE  /\ todo'[t] \in Creating \cup {RuntimeOff, TestOff} \cup Seq(Plain)
                 /\ todo'[t] \notin {RuntimeAsk, Restart, RuntimeNew, TestNew}
                 /\ todo'[t] \in Seq(Plain) => \A i \in DOMAIN todo'[t] : todo'[t][i].obj = 0
      BY <2>2, <2>4, Scripts
    <2> QED
      BY <1>2, <2>3, <2>4
  <1>8. t = "main" => todo'["handler"] = todo["handler"]
    BY <1>2 DEF Threads
  <1>9. t = "handler" => todo'["main"] = todo["main"]
    BY <1>2 DEF Threads
  <1>10. WorkOK'
    <2>1. todo'["handler"] \in Creating \cup {RuntimeOff, TestOff} \cup Seq(Plain)
      BY <1>7, <1>8 DEF WorkOK, Threads
    <2>2. /\ todo'["main"] \in {Shutdown, AfterRuntime} \cup Seq(Ending)
          /\ todo'["main"] \in {Shutdown, AfterRuntime} => main' = "leaving"
      <3>1. CASE t = "handler"
        BY <1>2, <1>9, <3>1 DEF WorkOK
      <3>2. CASE t = "main"
        <4>1. <<Reap>> \notin {Shutdown, AfterRuntime}
          <5>1. Head(<<Reap>>) = Reap
            OBVIOUS
          <5> QED
            BY <5>1, Leaving, PieceFields
        <4> QED
          BY <1>2, <1>6, <3>2, <4>1
      <3> QED
        BY <3>1, <3>2 DEF Threads
    <2> QED
      BY <1>2, <2>1, <2>2 DEF WorkOK
  <1>11. CallsOK'
    <2> SUFFICES ASSUME NEW u \in Threads, Active(u)' PROVE CallOK(u)'
      BY DEF CallsOK
    <2>1. u # t /\ Active(u) /\ CallOK(u)
      BY <1>3, <1>5 DEF CallsOK
    <2>2. Top(u).op # "new" \/ requests' = requests
      BY <1>2, <2>1, TopFields DEF CallOK, Threads
    <2>3. Top(u)' = Top(u) /\ todo'[u] = todo[u] /\ call'[u] = call[u]
      BY <1>1, <1>2, <1>5, <2>1
    <2>4. /\ Asking(u)' = Asking(u) /\ Dropping(u)' = Dropping(u) /\ Making(u)' = Making(u)
      BY <1>1, <1>5, <2>3 DEF Asking, Dropping, Making
    <2> QED
      BY <2>1, <2>2, <2>3, <2>4 DEF CallOK
  <1>12. Referenced'
    BY <1>1 DEF Referenced
  <1>13. Young'
    <2>1. /\ \A k \in Kinds : slot[k] \in Nat
          /\ \A u \in Threads : call[u].obj \in Nat
          /\ \A x \in Objects : x \in Nat
      BY DEF TypeOK, Call, Objects
    <2> QED
      BY <1>1, <1>4, <2>1 DEF Young
  <1>14. Fresh'
    <2>1. CASE t = "main"
      <3>1. requests' = requests /\ ~Active("main")'
        BY <1>2, <1>3, <1>5, <2>1
      <3> QED
        BY <1>1, <1>5, <1>8, <2>1, <3>1 DEF Fresh, Unborn, Threads
    <2>2. CASE t = "handler"
      <3> SUFFICES ASSUME todo'["handler"] \in Creating
                   PROVE  /\ requests' \in Objects /\ obj[requests'] = NoObject
                          /\ \A k \in Kinds : slot[k] # requests'
                          /\ Active("main") => call["main"].obj # requests'
        BY <1>1, <1>3, <1>5, <2>2 DEF Fresh, Unborn, Threads
      <3>1. requests' = requests + 1 /\ requests' \in Objects
        BY <1>4, <1>7, <2>2
      <3>2. /\ \A k \in Kinds : slot[k] \in Nat /\ slot[k] <= requests
            /\ call["main"].obj \in Nat /\ call["main"].obj <= requests
        BY DEF TypeOK, Call, Objects, Young, Threads
      <3> QED
        BY <1>4, <3>1, <3>2 DEF Young
    <2> QED
      BY <2>1, <2>2 DEF Threads
  <1>15. EndpointsOK'
    <2>1. slot["endpoint"] # 0 => ForEndpoint(slot["endpoint"])
      BY DEF EndpointsOK
    <2>2. \A u \in Threads : Active(u)' /\ Top(u)'.kind = "endpoint" => ForEndpoint(call[u].obj)
      BY <1>3, <1>5 DEF EndpointsOK
    <2>3. todo'["handler"] \in Seq(Plain) =>
            \A i \in DOMAIN todo'["handler"] :
              todo'["handler"][i].obj # 0 =>
                /\ ForEndpoint(todo'["handler"][i].obj)
                /\ todo'["handler"][i].obj <= requests'
      <3>1. CASE t = "main"
        BY <1>2, <1>8, <3>1 DEF EndpointsOK
      <3>2. CASE t = "handler"
        BY <1>7, <3>2
      <3> QED
        BY <3>1, <3>2 DEF Threads
    <2> QED
      BY <1>1, <1>5, <2>1, <2>2, <2>3 DEF EndpointsOK
  <1>16. SlotsOK'
    BY <1>1, <1>5 DEF SlotsOK
  <1>17. EntriesOK'
    <2>1. Active("main") => Top("main").kind \notin Cameras
      BY <1>1, TopFields DEF CallsOK, CallOK, Threads, Cameras
    <2>2. t = "main" => Top("handler")' = Top("handler")
      BY <1>5 DEF Threads
    <2>3. t = "handler" => Top("main")' = Top("main")
      BY <1>5 DEF Threads
    <2> QED
      BY <1>1, <1>3, <1>5, <1>8, <2>1, <2>2, <2>3 DEF EntriesOK, Threads
  <1>18. Owned'
    <2>1. t = "handler" => call["handler"].at = "none"
      BY <1>3 DEF Active
    <2>2. t = "main" => Top("handler")' = Top("handler")
      BY <1>5 DEF Threads
    <2> QED
      BY <1>1, <1>5, <2>1, <2>2 DEF Owned, Threads
  <1>19. Cleared'
    <2>1. t = "handler" => call["handler"].at = "none"
      BY <1>3 DEF Active
    <2> QED
      BY <1>1, <1>5, <1>7, <1>8, <2>1 DEF Cleared, Threads
  <1>20. OneLives'
    BY <1>1, <1>5 DEF OneLives
  <1> QED
    BY <1>10, <1>11, <1>12, <1>13, <1>14, <1>15, <1>16, <1>17, <1>18, <1>19, <1>20

------------------------------------------------------------------------------
(* The steps that go on with the work: returns, and steps without a call.   *)

Back(t) ==
  \/ Asked(t) \/ HasQuit(t) \/ Reaped(t) \/ Dropped(t) \/ Created(t)
  \/ Skip(t) \/ Stop(t) \/ Forget(t)

\* What is left of the work.
LEMMA BackForm ==
  ASSUME WorkOK, NEW t \in Threads, Back(t)
  PROVE  /\ todo[t] # <<>> /\ \A u \in Threads : u # t => todo'[u] = todo[u]
         /\ todo' = [x \in Threads |-> todo'[x]]
         /\ \/ Top(t).op # "ask" /\ todo'[t] = <<>> \o Tail(todo[t])
            \/ Top(t).op = "new" /\ todo'[t] = <<>>
            \/ /\ Top(t).op = "ask" /\ todo'[t] = Top(t).yes \o Tail(todo[t])
               /\ call[t].at = "done" /\ call[t].alive
            \/ /\ Top(t).op = "ask" /\ todo'[t] = Top(t).no \o Tail(todo[t])
               /\ \/ call[t].at = "done" /\ ~call[t].alive
                  \/ call[t].at = "none" /\ Subject(t) = 0
            \/ /\ Top(t).op = "stop" /\ slot["endpoint"] # 0
               /\ todo'[t] = StopWorker(slot["endpoint"]) \o Tail(todo[t])
         /\ Top(t).op \in {"ask", "drop"} =>
              call[t].at = "done" \/ (call[t].at = "none" /\ Subject(t) = 0)
  <1>1. todo[t] # <<>>
    BY DEF Back, Asked, HasQuit, Reaped, Dropped, Created, Skip, Stop, Forget, Return, Doing
  <1>2. todo = [x \in Threads |-> todo[x]]
    BY DEF WorkOK
  <1>3. \/ Top(t).op # "ask" /\ Then(t, <<>>)
        \/ Top(t).op = "new" /\ todo' = [todo EXCEPT ![t] = <<>>]
        \/ /\ Top(t).op = "ask" /\ Then(t, Top(t).yes)
           /\ call[t].at = "done" /\ call[t].alive
        \/ /\ Top(t).op = "ask" /\ Then(t, Top(t).no)
           /\ \/ call[t].at = "done" /\ ~call[t].alive
              \/ call[t].at = "none" /\ Subject(t) = 0
        \/ /\ Top(t).op = "stop" /\ slot["endpoint"] # 0
           /\ Then(t, StopWorker(slot["endpoint"]))
    <2>1. CASE Asked(t)
      BY <2>1 DEF Asked, Return
    <2>2. CASE Skip(t)
      BY <2>2 DEF Skip, Doing
    <2>3. CASE Stop(t)
      BY <2>3 DEF Stop, Doing
    <2>4. CASE HasQuit(t) \/ Reaped(t) \/ Dropped(t) \/ Created(t)
      BY <2>4 DEF HasQuit, Reaped, Dropped, Created, Return
    <2>5. CASE Forget(t)
      BY <2>5 DEF Forget, Doing
    <2> QED
      BY <2>1, <2>2, <2>3, <2>4, <2>5 DEF Back
  <1>4. \A w : Then(t, w) => todo' = [todo EXCEPT ![t] = w \o Tail(todo[t])]
    BY <1>2 DEF Then
  <1>5. \E w : todo' = [todo EXCEPT ![t] = w]
    BY <1>3, <1>4
  <1>6. /\ \A u \in Threads : u # t => todo'[u] = todo[u]
        /\ todo' = [x \in Threads |-> todo'[x]]
    BY <1>2, <1>5
  <1>7. \A w : todo' = [todo EXCEPT ![t] = w] => todo'[t] = w
    BY <1>2
  <1>8. Top(t).op \in {"ask", "drop"} =>
          call[t].at = "done" \/ (call[t].at = "none" /\ Subject(t) = 0)
    BY DEF Back, Asked, HasQuit, Reaped, Dropped, Created, Skip, Stop, Forget, Return, Doing
  <1> QED
    BY <1>1, <1>3, <1>4, <1>6, <1>7, <1>8

\* Steps of the endpoint whose object, if any, is in a set.
PlainOf(S) == {step \in Plain : step.obj \in S}

LEMMA StopWorkerSteps ==
  ASSUME NEW o \in Objects, NEW S, o \in S, 0 \in S
  PROVE  StopWorker(o) \in Seq(PlainOf(S))
  <1>1. /\ Held(Look("endpoint"), o) \in Plain /\ Held(Look("endpoint"), o).obj = o
        /\ Held(Quit("endpoint"), o) \in Plain /\ Held(Quit("endpoint"), o).obj = o
        /\ Step("forget", "endpoint") \in Plain /\ Step("forget", "endpoint").obj = 0
    BY DEF Plain, Held, Look, Quit, Step, Ask
  <1> QED
    BY <1>1 DEF StopWorker, PlainOf

\* What is left of the handler's work.
LEMMA BackPlain ==
  ASSUME WorkOK, Back("handler"), todo["handler"] \in Seq(Plain),
         NEW S, 0 \in S, slot["endpoint"] \in (Objects \cap S) \cup {0},
         \A i \in DOMAIN todo["handler"] : todo["handler"][i].obj \in S
  PROVE  todo'["handler"] \in Seq(PlainOf(S)) /\ Top("handler").op # "clear"
  <1> DEFINE w == todo["handler"]
  <1>1. w \in Seq(PlainOf(S)) /\ w # <<>>
    <2>1. \A i \in 1..Len(w) : w[i] \in PlainOf(S)
      BY DEF PlainOf
    <2> QED
      BY <2>1, BackForm DEF Threads
  <1>2. Head(w) \in Plain /\ Tail(w) \in Seq(PlainOf(S))
    BY <1>1
  <1>3. Top("handler").yes = <<>> /\ Top("handler").no = <<>>
        /\ Top("handler").op \in {"reap", "ask", "quit", "stop", "forget"}
    BY <1>2 DEF Plain, Top
  <1>4. slot["endpoint"] # 0 => StopWorker(slot["endpoint"]) \in Seq(PlainOf(S))
    BY StopWorkerSteps
  <1>5. \A a, b \in Seq(PlainOf(S)) : a \o b \in Seq(PlainOf(S))
    OBVIOUS
  <1>6. <<>> \in Seq(PlainOf(S))
    OBVIOUS
  <1>7. \E a \in Seq(PlainOf(S)) : todo'["handler"] = a \o Tail(w)
    BY <1>3, <1>4, <1>6, BackForm DEF Threads
  <1> QED
    BY <1>2, <1>3, <1>5, <1>7

LEMMA BackPiece ==
  ASSUME WorkOK, Back("handler"), todo["handler"] \in Creating \cup {RuntimeOff, TestOff}
  PROVE  LET w == todo'["handler"] IN
         /\ \/ w = <<>>
            \/ w = EndpointNew /\ todo["handler"] = EndpointOn
            \/ w = RuntimeAsk /\ todo["handler"] = RuntimeOn
            \/ /\ w = RuntimeNew /\ todo["handler"] = RuntimeAsk
               /\ call["handler"].at = "done" => ~call["handler"].alive
            \/ /\ w = Restart /\ todo["handler"] = TestOn
               /\ call["handler"].at = "done" => ~call["handler"].alive
            \/ /\ w = Restart /\ todo["handler"] = Save
               /\ call["handler"].at = "done" /\ call["handler"].alive
            \/ w = TestNew /\ todo["handler"] = Restart
         /\ Top("handler").op \notin {"clear", "forget", "stop", "quit"}
  <1> DEFINE t == "handler"
  <1>1. \A v \in {EndpointNew, RuntimeAsk, RuntimeNew, Restart, TestNew, <<>>} :
          <<>> \o v = v /\ v \o <<>> = v
    BY DEF EndpointNew, RuntimeAsk, RuntimeNew, Restart, TestNew
  <1>2. /\ Top(t).op = Head(todo[t]).op /\ Top(t).yes = Head(todo[t]).yes
        /\ Top(t).no = Head(todo[t]).no
    BY DEF Top
  <1>3. Top(t).op \in {"reap", "new", "drop", "ask"}
    BY <1>2, Pieces, PieceFields DEF Creating
  <1>4. CASE Top(t).op # "ask"
    <2>1. todo'[t] = <<>> \o Tail(todo[t]) \/ todo'[t] = <<>>
      BY <1>3, <1>4, BackForm DEF Threads
    <2>2. todo[t] \notin {RuntimeAsk, TestOn, Save}
      BY <1>2, <1>4, Pieces, PieceFields
    <2>3. \/ Tail(todo[t]) = <<>>
          \/ Tail(todo[t]) = EndpointNew /\ todo[t] = EndpointOn
          \/ Tail(todo[t]) = RuntimeAsk /\ todo[t] = RuntimeOn
          \/ Tail(todo[t]) = TestNew /\ todo[t] = Restart
      BY <2>2, Pieces DEF Creating
    <2> QED
      BY <1>1, <1>3, <2>1, <2>3
  <1>5. CASE Top(t).op = "ask"
    <2>1. \/ /\ todo'[t] = Top(t).yes \o Tail(todo[t])
             /\ call[t].at = "done" /\ call[t].alive
          \/ /\ todo'[t] = Top(t).no \o Tail(todo[t])
             /\ call[t].at = "done" => ~call[t].alive
      BY <1>5, BackForm DEF Threads
    <2>2. todo[t] \in {RuntimeAsk, TestOn, Save}
      BY <1>2, <1>5, Pieces, PieceFields DEF Creating
    <2>3. CASE todo[t] = RuntimeAsk
      <3>1. Top(t).yes = <<>> /\ Top(t).no = RuntimeNew /\ Tail(todo[t]) = <<>>
        BY <1>2, <2>3, Pieces, PieceFields
      <3> QED
        BY <1>1, <1>3, <2>1, <2>3, <3>1
    <2>4. CASE todo[t] = TestOn
      <3>1. Top(t).yes = <<>> /\ Top(t).no = Restart /\ Tail(todo[t]) = <<>>
        BY <1>2, <2>4, Pieces, PieceFields
      <3> QED
        BY <1>1, <1>3, <2>1, <2>4, <3>1
    <2>5. CASE todo[t] = Save
      <3>1. Top(t).yes = Restart /\ Top(t).no = <<>> /\ Tail(todo[t]) = <<>>
        BY <1>2, <2>5, Pieces, PieceFields
      <3> QED
        BY <1>1, <1>3, <2>1, <2>5, <3>1
    <2> QED
      BY <2>2, <2>3, <2>4, <2>5
  <1> QED
    BY <1>4, <1>5

\* What is left of the main thread's work.
LEMMA BackMain ==
  ASSUME WorkOK, Back("main")
  PROVE  /\ todo'["main"] \in {AfterRuntime} \cup Seq(Ending)
         /\ todo'["main"] \notin Seq(Ending) => Top("main").op = "drop" /\ main = "leaving"
  <1> DEFINE w == todo["main"]
  <1>1. CASE w \in {Shutdown, AfterRuntime}
    <2>1. Top("main").op = "drop" /\ main = "leaving"
      BY <1>1, Leaving, PieceFields DEF Top, WorkOK
    <2>2. todo'["main"] = <<>> \o Tail(w)
      BY <2>1, BackForm DEF Threads
    <2>3. <<>> \o AfterRuntime = AfterRuntime /\ <<>> \o ShutdownAll = ShutdownAll
      BY Leaving DEF AfterRuntime
    <2> QED
      BY <1>1, <2>1, <2>2, <2>3, Leaving
  <1>2. CASE w \in Seq(Ending)
    <2>1. w # <<>>
      BY BackForm DEF Threads
    <2>2. Head(w) \in Ending /\ Tail(w) \in Seq(Ending)
      BY <1>2, <2>1
    <2>3. <<Quit("endpoint")>> \in Seq(Ending) /\ <<>> \in Seq(Ending)
      <3>1. Quit("endpoint") \in Ending
        BY DEF Quit, Step, Ending
      <3> QED
        BY <3>1
    <2>4. /\ Top("main").yes \in Seq(Ending) /\ Top("main").no \in Seq(Ending)
          /\ Top("main").op \notin {"stop", "new"}
      BY <2>2, <2>3 DEF Top, Ending
    <2>5. \A a, b \in Seq(Ending) : a \o b \in Seq(Ending)
      OBVIOUS
    <2>6. \E a \in Seq(Ending) : todo'["main"] = a \o Tail(w)
      BY <2>3, <2>4, BackForm DEF Threads
    <2> QED
      BY <2>2, <2>5, <2>6
  <1> QED
    BY <1>1, <1>2 DEF WorkOK

\* The entries, and the calls.
LEMMA BackState ==
  ASSUME Inv, NEW t \in Threads, Back(t)
  PROVE  /\ requests' = requests /\ (main' = main \/ (Top(t).op = "clear" /\ main' = "gone"))
         /\ \A u \in Threads : u # t => call'[u] = call[u]
         /\ ~Active(t)' /\ call'[t].at = "none" /\ call'[t].obj <= requests
         /\ slot' \in [Kinds -> Objects \cup {0}]
         /\ \A k \in Kinds :
              \/ slot'[k] = slot[k]
              \/ slot'[k] = 0 /\ k = "endpoint"
              \/ /\ k = Top(t).kind /\ call[t].at = "done" /\ Active(t)
                 /\ \/ Top(t).op = "drop" /\ slot'[k] = 0
                    \/ Top(t).op = "new" /\ call[t].alive /\ slot'[k] = call[t].obj
                    \/ Top(t).op = "new" /\ ~call[t].alive /\ slot'[k] = 0
         /\ Top(t).op = "new" /\ Top(t).kind \in Cameras =>
              /\ call[t].at = "done" /\ Active(t)
              /\ slot'[Top(t).kind] = IF call[t].alive THEN call[t].obj ELSE 0
  <1> USE DEF Inv
  <1>1. requests' = requests /\ (main' = main \/ (Top(t).op = "clear" /\ main' = "gone"))
    <2>1. Collect(t) => requests' = requests
      BY DEF Collect
    <2>2. CASE Forget(t) /\ Top(t).op = "clear"
      BY <2>1, <2>2 DEF Forget
    <2>3. CASE Forget(t) /\ Top(t).op # "clear"
      BY <2>1, <2>3 DEF Forget
    <2>4. CASE Reaped(t) \/ Dropped(t) \/ Created(t)
      BY <2>1, <2>4 DEF Reaped, Dropped, Created
    <2>5. CASE Asked(t) \/ HasQuit(t) \/ Skip(t) \/ Stop(t)
      BY <2>5 DEF Asked, HasQuit, Skip, Stop
    <2> QED
      BY <2>2, <2>3, <2>4, <2>5 DEF Back
  <1>2. \/ call' = [call EXCEPT ![t] = NoCall]
        \/ call[t].at = "none" /\ UNCHANGED call
    BY DEF Back, Asked, HasQuit, Reaped, Dropped, Created, Skip, Stop, Forget, Return, Doing
  <1>3. NoCall.at = "none" /\ NoCall.obj = 0 /\ 0 <= requests
    <2>1. requests \in 0..MaxRequests
      BY DEF TypeOK
    <2> QED
      BY <2>1, BoundsAssumption DEF BoundsAssumption, NoCall
  <1>4. /\ \A u \in Threads : u # t => call'[u] = call[u]
        /\ ~Active(t)' /\ call'[t].at = "none" /\ call'[t].obj <= requests
    BY <1>2, <1>3 DEF TypeOK, Active, Young
  <1>5. todo[t] # <<>>
    BY BackForm
  <1>6. Top(t).kind \in Kinds /\ Top(t).op \in {"drop", "new", "reap", "ask", "quit", "stop", "forget", "clear"}
    BY <1>5, TopFields
  <1>7. /\ Dropped(t) => Top(t).op = "drop" /\ call[t].at = "done"
        /\ Created(t) => Top(t).op = "new" /\ call[t].at = "done"
        /\ Reaped(t) => Top(t).op = "reap" /\ call[t].at = "done"
    BY DEF Dropped, Created, Reaped, Return
  <1>8. slot \in [Kinds -> Objects \cup {0}] /\ "endpoint" \in Kinds
    BY DEF TypeOK, Kinds
  <1>9. \/ UNCHANGED slot /\ ~(Created(t) /\ Top(t).kind \in Cameras)
        \/ slot' = [slot EXCEPT !["endpoint"] = 0] /\ ~Created(t)
        \/ Dropped(t) /\ slot' = [slot EXCEPT ![Top(t).kind] = 0]
        \/ Created(t) /\ call[t].alive /\ slot' = [slot EXCEPT ![Top(t).kind] = call[t].obj]
        \/ Created(t) /\ ~call[t].alive /\ slot' = [slot EXCEPT ![Top(t).kind] = 0]
    <2>1. CASE Asked(t)
      BY <2>1 DEF Asked, Created, Return
    <2>2. CASE HasQuit(t)
      BY <2>2 DEF HasQuit, Created, Return
    <2>3. CASE Reaped(t)
      BY <2>3 DEF Reaped, Created, Return
    <2>4. CASE Dropped(t)
      BY <2>4 DEF Dropped
    <2>5. CASE Created(t)
      BY <2>5 DEF Created
    <2>6. CASE Skip(t) \/ Stop(t) \/ Forget(t)
      BY <2>6 DEF Skip, Stop, Forget, Doing, Created, Return
    <2> QED
      BY <2>1, <2>2, <2>3, <2>4, <2>5, <2>6 DEF Back
  <1>10. call[t].at = "done" => Active(t) /\ call[t].obj \in Objects
    BY DEF Active, CallsOK, CallOK
  <1>11. slot' \in [Kinds -> Objects \cup {0}]
    BY <1>6, <1>7, <1>8, <1>9, <1>10
  <1>12. \A k \in Kinds :
           \/ slot'[k] = slot[k]
           \/ slot'[k] = 0 /\ k = "endpoint"
           \/ /\ k = Top(t).kind /\ call[t].at = "done" /\ Active(t)
              /\ \/ Top(t).op = "drop" /\ slot'[k] = 0
                 \/ Top(t).op = "new" /\ call[t].alive /\ slot'[k] = call[t].obj
                 \/ Top(t).op = "new" /\ ~call[t].alive /\ slot'[k] = 0
    BY <1>6, <1>7, <1>8, <1>9, <1>10
  <1>13. Top(t).op = "new" /\ Top(t).kind \in Cameras => Created(t)
    BY DEF Back, Asked, HasQuit, Reaped, Dropped, Skip, Stop, Forget, Return, Doing, Cameras
  <1>14. Top(t).op = "new" /\ Top(t).kind \in Cameras =>
              /\ call[t].at = "done" /\ Active(t)
              /\ slot'[Top(t).kind] = IF call[t].alive THEN call[t].obj ELSE 0
    BY <1>6, <1>7, <1>8, <1>9, <1>10, <1>13 DEF Cameras
  <1> QED
    BY <1>1, <1>4, <1>11, <1>12, <1>14

\* The objects, and the processes: what is still referred to is not collected.
LEMMA Collected ==
  ASSUME Inv, NEW t \in Threads, Back(t)
  PROVE  /\ \A o \in Objects : obj'[o] = obj[o] \/ obj'[o] = NoObject
         /\ \A o \in Objects : (\E k \in Kinds : slot'[k] = o) \/ Refers(Other(t), o) =>
              /\ obj'[o] = obj[o]
              /\ obj[o].proc # 0 => proc'[obj[o].proc] = proc[obj[o].proc]
         /\ \A p \in Procs : proc'[p] = proc[p] \/ (proc'[p] = NoProcess /\ ~Alive(p))
         /\ \A p \in Procs : Alive(p)' <=> Alive(p)
         /\ Referenced'
  <1> USE DEF Inv
  <1>1. (UNCHANGED <<obj, proc>>) \/ Collect(t)
    BY DEF Back, Asked, HasQuit, Reaped, Dropped, Created, Skip, Stop, Forget, env
  <1>2. CASE UNCHANGED <<obj, proc>>
    BY <1>2 DEF Alive, Referenced
  <1>3. CASE Collect(t)
    <2> DEFINE Kept(o) == (\E k \in Kinds : slot'[k] = o) \/ Refers(Other(t), o)
               kept == {o \in Objects : Kept(o)}
    <2>1. /\ obj' = [o \in Objects |-> IF o \in kept THEN obj[o] ELSE NoObject]
          /\ proc' = [p \in Procs |->
               IF \/ Alive(p) \/ proc[p].listens \/ call[Other(t)].proc = p
                  \/ \E o \in kept : obj[o].proc = p
                 THEN proc[p] ELSE NoProcess]
      BY <1>3 DEF Collect
    <2>2. \A o \in Objects : obj'[o] = obj[o] \/ obj'[o] = NoObject
      BY <2>1
    <2>3. ASSUME NEW o \in Objects, Kept(o)
          PROVE  /\ obj'[o] = obj[o]
                 /\ obj[o].proc # 0 => proc'[obj[o].proc] = proc[obj[o].proc]
      <3>1. o \in kept
        BY <2>3
      <3>2. obj[o].proc # 0 => obj[o].proc \in Procs
        BY DEF TypeOK, Object
      <3> QED
        BY <2>1, <3>1, <3>2
    <2>4. \A p \in Procs : proc'[p] = proc[p] \/ (proc'[p] = NoProcess /\ ~Alive(p))
      BY <2>1
    <2>5. \A p \in Procs : Alive(p)' <=> Alive(p)
      BY <2>4 DEF Alive, NoProcess
    <2>6. Referenced'
      <3> SUFFICES ASSUME NEW o \in Objects, obj'[o].proc # 0
                   PROVE  proc'[obj'[o].proc].leader # "none"
        BY DEF Referenced
      <3>1. Kept(o)
        BY <2>1 DEF NoObject
      <3> QED
        BY <2>3, <3>1 DEF Referenced
    <2> QED
      BY <2>2, <2>3, <2>4, <2>5, <2>6
  <1> QED
    BY <1>1, <1>2, <1>3

\* What the handler knows once it has stopped a camera program, or been told
\* that none runs: none of that kind lives.
LEMMA Gone ==
  ASSUME Inv, todo["handler"] \in Creating, Top("handler").kind \in Cameras,
         Top("handler").op \in {"ask", "drop"},
         \/ call["handler"].at = "done" /\ (call["handler"].alive => Top("handler").op = "drop")
         \/ call["handler"].at = "none" /\ Subject("handler") = 0
  PROVE  NoneLives(Top("handler").kind)
  <1> DEFINE k == Top("handler").kind
  <1> USE DEF Inv
  <1> SUFFICES ASSUME NEW p \in Procs, Alive(p), proc[p].of = k PROVE FALSE
    BY DEF NoneLives
  <1>1. todo["handler"] # <<>>
    BY Distinct
  <1>2. slot[k] # 0 /\ obj[slot[k]].proc = p
    <2>1. Top("handler") # New(proc[p].of)
      BY PieceFields
    <2> QED
      BY <2>1 DEF Owned
  <1>3. Top("handler").obj = 0
    BY <1>1, CameraPiece
  <1>4. call["handler"].at = "done"
    BY <1>2, <1>3 DEF Subject
  <1>5. Active("handler") /\ CallOK("handler")
    BY <1>4 DEF Active, CallsOK, Threads
  <1>6. Dead(call["handler"].obj)
    BY <1>4, <1>5 DEF CallOK, Asking, Dropping
  <1>7. slot[k] = call["handler"].obj
    BY <1>2, <1>5 DEF EntriesOK
  <1> QED
    BY <1>2, <1>6, <1>7 DEF Dead

LEMMA BackInv ==
  ASSUME Inv, TypeOK', NEW t \in Threads, Back(t)
  PROVE  Inv'
  <1> USE DEF Inv
  <1>1. /\ todo[t] # <<>> /\ \A u \in Threads : u # t => todo'[u] = todo[u]
        /\ todo' = [x \in Threads |-> todo'[x]]
    BY BackForm
  <1>2. /\ requests' = requests /\ (main' = main \/ (Top(t).op = "clear" /\ main' = "gone"))
        /\ \A u \in Threads : u # t => call'[u] = call[u]
        /\ ~Active(t)' /\ call'[t].at = "none" /\ call'[t].obj <= requests
    BY BackState
  <1>3. /\ slot' \in [Kinds -> Objects \cup {0}]
        /\ \A k \in Kinds :
              \/ slot'[k] = slot[k]
              \/ slot'[k] = 0 /\ k = "endpoint"
              \/ /\ k = Top(t).kind /\ call[t].at = "done" /\ Active(t)
                 /\ \/ Top(t).op = "drop" /\ slot'[k] = 0
                    \/ Top(t).op = "new" /\ call[t].alive /\ slot'[k] = call[t].obj
                    \/ Top(t).op = "new" /\ ~call[t].alive /\ slot'[k] = 0
        /\ Top(t).op = "new" /\ Top(t).kind \in Cameras =>
              /\ call[t].at = "done" /\ Active(t)
              /\ slot'[Top(t).kind] = IF call[t].alive THEN call[t].obj ELSE 0
    BY BackState
  <1>4. /\ \A o \in Objects : obj'[o] = obj[o] \/ obj'[o] = NoObject
        /\ \A o \in Objects : (\E k \in Kinds : slot'[k] = o) \/ Refers(Other(t), o) =>
              /\ obj'[o] = obj[o]
              /\ obj[o].proc # 0 => proc'[obj[o].proc] = proc[obj[o].proc]
        /\ \A p \in Procs : proc'[p] = proc[p] \/ (proc'[p] = NoProcess /\ ~Alive(p))
        /\ \A p \in Procs : Alive(p)' <=> Alive(p)
    BY Collected
  <1>5. Referenced'
    BY Collected
  <1>6. /\ Top(t).kind \in Kinds /\ Top(t).obj \in Objects \cup {0}
        /\ t = "main" /\ Top(t).kind # "endpoint" => Top(t).op = "drop" /\ main = "leaving"
        /\ t = "main" => Top(t).obj = 0 /\ Top(t).op \notin {"new", "stop"}
        /\ Top(t).op = "new" => t = "handler" /\ todo[t] \in Creating
    BY <1>1, TopFields
  <1>7. \A u \in Threads : u # t => Top(u)' = Top(u) /\ (Active(u)' <=> Active(u))
    BY <1>1, <1>2 DEF Top, Active
  \* The work left.
  <1>8. t = "main" => todo'["handler"] = todo["handler"]
    BY <1>1 DEF Threads
  <1>9. t = "handler" => todo'["main"] = todo["main"]
    BY <1>1 DEF Threads
  <1> DEFINE S == {x \in Objects \cup {0} : x # 0 => ForEndpoint(x) /\ x <= requests}
  <1>10. t = "handler" /\ todo["handler"] \in Seq(Plain) =>
           todo'["handler"] \in Seq(PlainOf(S)) /\ Top("handler").op # "clear"
    <2> SUFFICES ASSUME t = "handler", todo["handler"] \in Seq(Plain)
                 PROVE  todo'["handler"] \in Seq(PlainOf(S)) /\ Top("handler").op # "clear"
      OBVIOUS
    <2>1. 0 \in S
      OBVIOUS
    <2>2. slot["endpoint"] \in (Objects \cap S) \cup {0}
      BY DEF TypeOK, Kinds, EndpointsOK, Young
    <2>3. \A i \in DOMAIN todo["handler"] : todo["handler"][i].obj \in S
      BY PlainSteps DEF EndpointsOK, Plain
    <2> HIDE DEF S
    <2> QED
      BY <2>1, <2>2, <2>3, BackPlain
  <1>11. t = "handler" /\ todo["handler"] \notin Seq(Plain) =>
         LET w == todo'["handler"] IN
         /\ \/ w = <<>>
            \/ w = EndpointNew /\ todo["handler"] = EndpointOn
            \/ w = RuntimeAsk /\ todo["handler"] = RuntimeOn
            \/ /\ w = RuntimeNew /\ todo["handler"] = RuntimeAsk
               /\ call["handler"].at = "done" => ~call["handler"].alive
            \/ /\ w = Restart /\ todo["handler"] = TestOn
               /\ call["handler"].at = "done" => ~call["handler"].alive
            \/ /\ w = Restart /\ todo["handler"] = Save
               /\ call["handler"].at = "done" /\ call["handler"].alive
            \/ w = TestNew /\ todo["handler"] = Restart
         /\ Top("handler").op \notin {"clear", "forget", "stop", "quit"}
    BY BackPiece DEF WorkOK
  <1> HIDE DEF S
  <1>12. todo'["handler"] \in Seq(PlainOf(S)) => todo'["handler"] \in Seq(Plain)
    BY DEF PlainOf
  <1>13. t = "handler" =>
           /\ todo'["handler"] \in Creating \cup Seq(Plain)
           /\ todo'["handler"] \in Creating => todo["handler"] \in Creating /\ Top(t).op # "new"
           /\ todo'["handler"] # Save
           /\ Top(t).op # "clear"
    <2> SUFFICES ASSUME t = "handler"
                 PROVE  /\ todo'["handler"] \in Creating \cup Seq(Plain)
                        /\ todo'["handler"] \in Creating =>
                             todo["handler"] \in Creating /\ Top(t).op # "new"
                        /\ todo'["handler"] # Save
                        /\ Top(t).op # "clear"
      OBVIOUS
    <2>1. CASE todo["handler"] \in Seq(Plain)
      <3>1. todo'["handler"] \notin Creating /\ Save \in Creating
        BY <1>10, <1>12, <2>1, PlainSteps DEF Creating
      <3> QED
        BY <1>10, <1>12, <2>1, <3>1
    <2>2. CASE todo["handler"] \notin Seq(Plain)
      <3>1. <<>> \in Seq(Plain) /\ <<>> \notin Creating
        BY Distinct
      <3>2. {EndpointOn, RuntimeOn, RuntimeAsk, TestOn, Save, Restart, EndpointNew, RuntimeNew,
             TestNew} = Creating
        BY DEF Creating
      <3>3. todo["handler"] \in {EndpointOn, RuntimeOn, RuntimeAsk, TestOn, Save, Restart} =>
              Top(t).op # "new"
        BY Pieces, PieceFields DEF Top
      <3>4. Save \notin {<<>>, EndpointNew, RuntimeAsk, RuntimeNew, Restart, TestNew}
        BY Distinct
      <3> QED
        BY <1>11, <2>2, <3>1, <3>2, <3>3, <3>4
    <2> QED
      BY <2>1, <2>2
  <1>14. WorkOK'
    <2>1. todo'["handler"] \in Creating \cup {RuntimeOff, TestOff} \cup Seq(Plain)
      BY <1>8, <1>13 DEF WorkOK, Threads
    <2>2. /\ todo'["main"] \in {Shutdown, AfterRuntime} \cup Seq(Ending)
          /\ todo'["main"] \in {Shutdown, AfterRuntime} => main' = "leaving"
      <3>1. CASE t = "handler"
        BY <1>2, <1>9, <1>13, <3>1 DEF WorkOK
      <3>2. CASE t = "main"
        <4>1. /\ todo'["main"] \in {AfterRuntime} \cup Seq(Ending)
              /\ todo'["main"] \notin Seq(Ending) => Top("main").op = "drop" /\ main = "leaving"
          BY <3>2, BackMain
        <4>2. \A w \in Seq(Ending) : w \notin {Shutdown, AfterRuntime}
          <5> SUFFICES ASSUME NEW w \in Seq(Ending), w \in {Shutdown, AfterRuntime} PROVE FALSE
            OBVIOUS
          <5>1. w # <<>> /\ Head(w).op = "drop"
            BY Leaving, PieceFields
          <5>2. Head(w) \in Ending
            BY <5>1
          <5> QED
            BY <5>1, <5>2 DEF Ending
        <4> QED
          BY <1>2, <3>2, <4>1, <4>2
      <3> QED
        BY <3>1, <3>2 DEF Threads
    <2> QED
      BY <1>1, <2>1, <2>2 DEF WorkOK
  \* The objects still in use are as they were.
  <1>15. \A x \in Objects : ForEndpoint(x) => ForEndpoint(x)'
    <2> SUFFICES ASSUME NEW x \in Objects, ForEndpoint(x) PROVE ForEndpoint(x)'
      OBVIOUS
    <2>1. CASE obj'[x] = NoObject
      BY <2>1 DEF ForEndpoint, NoObject
    <2>2. CASE obj'[x] = obj[x]
      <3>1. obj[x].proc = 0 \/ obj[x].proc \in Procs
        BY DEF TypeOK, Object
      <3> QED
        BY <1>4, <2>2, <3>1 DEF ForEndpoint, NoProcess
    <2> QED
      BY <1>4, <2>1, <2>2
  <1>16. \A x \in Objects : (\E k \in Kinds : slot'[k] = x) \/ Refers(Other(t), x) =>
           /\ obj'[x] = obj[x]
           /\ \A k \in Cameras : Holds(x, k) => Holds(x, k)'
           /\ Dead(x) => Dead(x)'
    <2> SUFFICES ASSUME NEW x \in Objects, (\E k \in Kinds : slot'[k] = x) \/ Refers(Other(t), x)
                 PROVE  /\ obj'[x] = obj[x]
                        /\ \A k \in Cameras : Holds(x, k) => Holds(x, k)'
                        /\ Dead(x) => Dead(x)'
      OBVIOUS
    <2>1. obj'[x] = obj[x] /\ (obj[x].proc # 0 => proc'[obj[x].proc] = proc[obj[x].proc])
      BY <1>4
    <2> QED
      BY <2>1 DEF Holds, Dead, Alive
  <1>17. \A u \in Threads : u # t => Other(t) = u
    BY OtherThread
  <1>18. CallsOK'
    <2> SUFFICES ASSUME NEW u \in Threads, Active(u)' PROVE CallOK(u)'
      BY DEF CallsOK
    <2>1. u # t /\ Active(u)
      BY <1>2, <1>7
    <2>2. CallOK(u) /\ call[u].obj \in Objects
      BY <2>1 DEF CallsOK, CallOK
    <2>3. Refers(Other(t), call[u].obj)
      BY <1>17, <2>1 DEF Refers, Active
    <2> QED
      BY <1>1, <1>2, <1>16, <2>1, <2>2, <2>3, CallUntouched
  <1>19. Young'
    <2>1. \A o \in Objects : o > requests => obj'[o] = NoObject
      BY <1>4 DEF Young
    <2>2. \A k \in Kinds : slot'[k] <= requests
      <3>1. 0 <= requests
        BY DEF TypeOK
      <3> QED
        BY <1>3, <3>1 DEF Young
    <2> QED
      BY <1>2, <2>1, <2>2 DEF Young
  <1>20. todo'["handler"] \in Creating =>
           /\ todo["handler"] \in Creating /\ (t = "handler" => Top(t).op # "new")
           /\ \A k \in Kinds : slot'[k] \in {0, slot[k]}
    BY <1>3, <1>6, <1>8, <1>13 DEF Threads
  <1>21. Unborn' => Unborn
    <2> SUFFICES ASSUME Unborn' PROVE Unborn
      OBVIOUS
    <2>1. todo["handler"] \in Creating /\ (t = "handler" => Top(t).op # "new")
      BY <1>20 DEF Unborn
    <2>2. t # "handler" => Top("handler")' = Top("handler") /\ call'["handler"] = call["handler"]
      BY <1>2, <1>7 DEF Threads
    <2> QED
      BY <2>1, <2>2 DEF Unborn
  <1>22. Fresh'
    <2>1. todo'["handler"] \in Creating =>
            /\ requests \in Objects /\ requests # 0
            /\ \A k \in Kinds : slot'[k] # requests
            /\ Active("main")' => call'["main"].obj # requests
            /\ Active("handler")' /\ Top("handler")'.op # "new" => call'["handler"].obj # requests
      <3> SUFFICES ASSUME todo'["handler"] \in Creating
                   PROVE  /\ requests \in Objects /\ requests # 0
                          /\ \A k \in Kinds : slot'[k] # requests
                          /\ Active("main")' => call'["main"].obj # requests
                          /\ Active("handler")' /\ Top("handler")'.op # "new" =>
                               call'["handler"].obj # requests
        OBVIOUS
      <3>1. requests \in Objects /\ \A k \in Kinds : slot[k] # requests
        BY <1>20 DEF Fresh
      <3>2. requests # 0
        BY <3>1 DEF Objects
      <3> QED
        BY <1>2, <1>7, <1>20, <3>1, <3>2 DEF Fresh, Threads
    <2>2. Unborn' => obj'[requests] = NoObject
      <3>1. Unborn' => requests \in Objects
        BY <2>1 DEF Unborn
      <3> QED
        BY <1>4, <1>21, <3>1 DEF Fresh
    <2> QED
      BY <1>2, <2>1, <2>2 DEF Fresh
  <1>23. EndpointsOK'
    <2>1. slot'["endpoint"] # 0 => ForEndpoint(slot["endpoint"])'
      <3> SUFFICES ASSUME slot'["endpoint"] # 0 PROVE ForEndpoint(slot["endpoint"])'
        OBVIOUS
      <3>1. slot'["endpoint"] \in Objects
        BY <1>3 DEF Kinds
      <3>2. slot["endpoint"] # 0 => ForEndpoint(slot["endpoint"])
        BY DEF EndpointsOK
      <3>3. CASE slot'["endpoint"] = slot["endpoint"]
        <4> PICK x \in Objects : x = slot'["endpoint"]
          BY <3>1
        <4>1. ForEndpoint(x)'
          BY <1>15, <3>2, <3>3
        <4> QED
          BY <4>1 DEF ForEndpoint
      <3>4. CASE slot'["endpoint"] # slot["endpoint"]
        <4> PICK x \in Objects : x = slot'["endpoint"]
          BY <3>1
        <4>1. Active(t) /\ Top(t).kind = "endpoint" /\ x = call[t].obj
          BY <1>3, <3>4 DEF Kinds
        <4>2. ForEndpoint(x)'
          BY <1>15, <4>1 DEF EndpointsOK
        <4> QED
          BY <4>2 DEF ForEndpoint
      <3> QED
        BY <3>3, <3>4
    <2>2. ASSUME NEW u \in Threads, Active(u)', Top(u)'.kind = "endpoint"
          PROVE  ForEndpoint(call[u].obj)'
      <3>1. u # t /\ Active(u) /\ Top(u).kind = "endpoint" /\ call'[u] = call[u]
        BY <1>2, <1>7, <2>2
      <3> PICK x \in Objects : x = call[u].obj
        BY <3>1 DEF CallsOK, CallOK
      <3>2. ForEndpoint(x)'
        BY <1>15, <3>1 DEF EndpointsOK
      <3> QED
        BY <3>1, <3>2 DEF ForEndpoint
    <2>3. ASSUME todo'["handler"] \in Seq(Plain), NEW i \in DOMAIN todo'["handler"],
                 NEW x, x = todo'["handler"][i].obj, x # 0
          PROVE  ForEndpoint(x)' /\ x <= requests
      <3>1. x \in Objects
        BY <2>3, PlainSteps DEF Plain
      <3>2. CASE t = "main"
        BY <1>8, <1>15, <2>3, <3>1, <3>2 DEF EndpointsOK
      <3>3. CASE t = "handler" /\ todo["handler"] \in Seq(Plain)
        <4>1. todo'["handler"] \in Seq(PlainOf(S))
          BY <1>10, <3>3
        <4>2. todo'["handler"][i] \in PlainOf(S)
          BY <2>3, <4>1
        <4>3. x \in S
          BY <2>3, <4>2 DEF PlainOf
        <4> QED
          BY <1>15, <2>3, <3>1, <4>3 DEF S
      <3>4. CASE t = "handler" /\ todo["handler"] \notin Seq(Plain)
        <4>1. todo'["handler"] \notin Creating
          BY <2>3, PlainSteps
        <4>2. todo'["handler"] = <<>>
          BY <1>11, <3>4, <4>1 DEF Creating
        <4> QED
          BY <2>3, <4>2
      <3> QED
        BY <3>2, <3>3, <3>4 DEF Threads
    <2>4. todo'["handler"] \in Seq(Plain) =>
            \A i \in DOMAIN todo'["handler"] : LET x == todo'["handler"][i].obj IN
              x # 0 => (obj'[x].proc = 0 \/ proc'[obj'[x].proc].of = "endpoint") /\ x <= requests
      BY <2>3 DEF ForEndpoint
    <2> QED
      BY <1>2, <2>1, <2>2, <2>4 DEF EndpointsOK, ForEndpoint
  <1>24. SlotsOK'
    <2> SUFFICES ASSUME NEW k \in Cameras, slot'[k] # 0 PROVE Holds(slot[k], k)'
      BY DEF SlotsOK
    <2>1. k \in Kinds /\ k # "endpoint"
      BY DEF Kinds, Cameras
    <2>2. PICK x \in Objects : x = slot'[k]
      BY <1>3, <2>1
    <2>3. Holds(x, k)
      <3>1. CASE slot'[k] = slot[k]
        BY <2>2, <3>1 DEF SlotsOK
      <3>2. CASE slot'[k] # slot[k]
        <4>1. /\ k = Top(t).kind /\ call[t].at = "done" /\ Active(t)
              /\ Top(t).op = "new" /\ call[t].alive /\ x = call[t].obj
          BY <1>3, <2>1, <2>2, <3>2
        <4> QED
          BY <4>1 DEF CallsOK, CallOK, Making
      <3> QED
        BY <3>1, <3>2
    <2>4. Holds(x, k)'
      BY <1>16, <2>1, <2>2, <2>3
    <2> QED
      BY <2>2, <2>4 DEF Holds
  <1>25. EntriesOK'
    <2>1. ASSUME t = "main", Active("handler"), Top("handler").kind \in Cameras,
                 Top("handler").op # "new"
          PROVE  slot'[Top("handler").kind] \in {0, call["handler"].obj}
      BY <1>3, <1>6, <2>1 DEF EntriesOK, Kinds
    <2>2. ASSUME t = "handler", Active("main"), Top("main").kind \in Cameras
          PROVE  slot'[Top("main").kind] \in {0, call["main"].obj} \/ todo'["handler"] \notin Creating
      <3>1. CASE todo'["handler"] \notin Creating
        BY <3>1
      <3>2. CASE todo'["handler"] \in Creating
        <4>1. todo["handler"] \in Creating /\ slot'[Top("main").kind] \in {0, slot[Top("main").kind]}
          BY <1>20, <2>2, <3>2 DEF Kinds
        <4> QED
          BY <2>2, <4>1 DEF EntriesOK
      <3> QED
        BY <3>1, <3>2
    <2>3. t = "main" => /\ Top("handler")' = Top("handler") /\ call'["handler"] = call["handler"]
                        /\ (Active("handler")' <=> Active("handler"))
      BY <1>2, <1>7 DEF Threads
    <2>4. t = "handler" => /\ Top("main")' = Top("main") /\ call'["main"] = call["main"]
                           /\ (Active("main")' <=> Active("main"))
      BY <1>2, <1>7 DEF Threads
    <2> QED
      BY <1>2, <2>1, <2>2, <2>3, <2>4 DEF EntriesOK, Threads
  <1>26. \A k : NoneLives(k) => NoneLives(k)'
    BY <1>4 DEF NoneLives
  \* All camera programs alive belong to the object just made, if one was made.
  <1>27. t = "handler" /\ Top(t).op = "new" /\ Top(t).kind \in Cameras =>
           /\ todo["handler"] \in {RuntimeNew, TestNew}
           /\ \A p \in Procs : Alive(p) /\ proc[p].of \in Cameras =>
                /\ slot'[proc[p].of] # 0 /\ obj'[slot'[proc[p].of]].proc = p
    <2> SUFFICES ASSUME t = "handler", Top(t).op = "new", Top(t).kind \in Cameras
                 PROVE  /\ todo["handler"] \in {RuntimeNew, TestNew}
                        /\ \A p \in Procs : Alive(p) /\ proc[p].of \in Cameras =>
                             /\ slot'[proc[p].of] # 0 /\ obj'[slot'[proc[p].of]].proc = p
      OBVIOUS
    <2>1. todo["handler"] \in {RuntimeNew, TestNew}
      BY <1>1, CameraPiece
    <2> SUFFICES ASSUME NEW p \in Procs, Alive(p), proc[p].of \in Cameras
                 PROVE  slot'[proc[p].of] # 0 /\ obj'[slot'[proc[p].of]].proc = p
      BY <2>1
    <2>2. call["handler"].at = "done" /\ Active("handler") /\ CallOK("handler")
      BY <1>3 DEF CallsOK
    <2>3. call["handler"].obj \in Objects /\ Making("handler") /\ call["handler"].obj # 0
      BY <2>2 DEF CallOK, Objects
    <2>4. obj[call["handler"].obj].proc = p
      BY <2>1, <2>2 DEF Cleared
    <2>5. call["handler"].alive /\ proc[p].of = Top(t).kind
      BY <2>2, <2>3, <2>4 DEF Making, Dead, Holds
    <2>6. slot'[proc[p].of] = call["handler"].obj /\ proc[p].of \in Kinds
      BY <1>3, <1>6, <2>5
    <2>7. obj'[call["handler"].obj] = obj[call["handler"].obj]
      BY <1>4, <2>3, <2>6
    <2> QED
      BY <2>3, <2>4, <2>6, <2>7
  <1>28. Owned'
    <2> SUFFICES ASSUME NEW p \in Procs, Alive(p)', proc'[p].of \in Cameras
                 PROVE  \/ slot'[proc'[p].of] # 0 /\ obj'[slot'[proc'[p].of]].proc = p
                        \/ /\ call'["handler"].at \in {"grace", "done"}
                           /\ Top("handler")' = New(proc'[p].of)
                           /\ obj'[call'["handler"].obj].proc = p
                        \/ main' # "serving" /\ todo'["handler"] \notin Creating
      BY DEF Owned
    <2>1. Alive(p) /\ proc'[p] = proc[p]
      BY <1>4
    <2> DEFINE k == proc[p].of
    <2>2. k \in Kinds /\ k # "endpoint" /\ k \in Cameras
      BY <2>1 DEF Kinds, Cameras
    <2>3. CASE t = "handler" /\ Top(t).op = "new" /\ Top(t).kind \in Cameras
      BY <1>27, <2>1, <2>2, <2>3
    <2>4. ASSUME ~(t = "handler" /\ Top(t).op = "new" /\ Top(t).kind \in Cameras),
                 slot[k] # 0, obj[slot[k]].proc = p
          PROVE  \/ slot'[k] # 0 /\ obj'[slot'[k]].proc = p
                 \/ main' # "serving" /\ todo'["handler"] \notin Creating
      <3>1. CASE slot'[k] = slot[k]
        <4>1. slot[k] \in Objects
          BY <2>2, <2>4 DEF TypeOK
        <4> QED
          BY <1>4, <2>2, <2>4, <3>1, <4>1
      <3>2. CASE slot'[k] # slot[k]
        <4>1. k = Top(t).kind /\ call[t].at = "done" /\ Active(t) /\ Top(t).op = "drop"
          BY <1>3, <1>6, <2>2, <2>4, <3>2
        <4>2. Dead(call[t].obj)
          BY <2>2, <4>1 DEF CallsOK, CallOK, Dropping
        <4>3. slot[k] # call[t].obj
          BY <2>1, <2>4, <4>2 DEF Dead
        <4>4. t = "main" /\ todo["handler"] \notin Creating
          BY <2>2, <2>4, <4>1, <4>3 DEF EntriesOK, Threads
        <4> QED
          BY <1>2, <1>6, <1>8, <2>2, <4>1, <4>4
      <3> QED
        BY <3>1, <3>2
    <2>5. ASSUME ~(t = "handler" /\ Top(t).op = "new" /\ Top(t).kind \in Cameras),
                 call["handler"].at \in {"grace", "done"}, Top("handler") = New(k),
                 obj[call["handler"].obj].proc = p
          PROVE  /\ call'["handler"].at \in {"grace", "done"}
                 /\ Top("handler")' = New(k)
                 /\ obj'[call'["handler"].obj].proc = p
      <3>1. t # "handler"
        BY <2>2, <2>5, PieceFields
      <3>2. Active("handler") /\ call'["handler"] = call["handler"]
            /\ Top("handler")' = Top("handler")
        BY <1>2, <1>7, <2>5, <3>1 DEF Active, Threads
      <3>3. call["handler"].obj \in Objects /\ Refers(Other(t), call["handler"].obj)
        BY <1>17, <3>1, <3>2 DEF CallsOK, CallOK, Refers, Active, Threads
      <3> QED
        BY <1>4, <2>5, <3>2, <3>3
    <2>6. ASSUME main # "serving", todo["handler"] \notin Creating
          PROVE  main' # "serving" /\ todo'["handler"] \notin Creating
      BY <1>2, <1>20, <2>6
    <2> QED
      BY <2>1, <2>2, <2>3, <2>4, <2>5, <2>6 DEF Owned
  <1>29. Cleared'
    <2>1. CASE t = "main"
      <3>1. call'["handler"] = call["handler"] /\ todo'["handler"] = todo["handler"]
        BY <1>2, <1>8, <2>1 DEF Threads
      <3>2. ASSUME todo["handler"] \in {RuntimeNew, TestNew},
                   call["handler"].at \in {"grace", "done"},
                   NEW p \in Procs, Alive(p)', proc'[p].of \in Cameras
            PROVE  obj'[call["handler"].obj].proc = p
        <4>1. Alive(p) /\ proc[p].of \in Cameras
          BY <1>4, <3>2
        <4>2. obj[call["handler"].obj].proc = p
          BY <3>2, <4>1 DEF Cleared
        <4>3. call["handler"].obj \in Objects /\ Refers(Other(t), call["handler"].obj)
          BY <1>17, <2>1, <3>2 DEF CallsOK, CallOK, Refers, Active, Threads
        <4> QED
          BY <1>4, <4>2, <4>3
      <3> QED
        BY <1>26, <3>1, <3>2 DEF Cleared
    <2>2. CASE t = "handler"
      <3>1. /\ call'["handler"].at = "none" /\ todo'["handler"] # Save
        BY <1>2, <1>13, <2>2
      <3>2. todo'["handler"] \in {RuntimeAsk, Restart, RuntimeNew, TestNew} =>
              todo["handler"] \notin Seq(Plain)
        <4>1. {RuntimeAsk, Restart, RuntimeNew, TestNew} \subseteq Creating
          BY DEF Creating
        <4> QED
          BY <1>10, <1>12, <2>2, <4>1, PlainSteps
      <3>3. Top("handler").op \in {"ask", "drop"} =>
              call["handler"].at = "done" \/ (call["handler"].at = "none" /\ Subject("handler") = 0)
        BY <2>2, BackForm
      <3>4. todo'["handler"] = RuntimeAsk => NoneLives("test")
        <4> SUFFICES ASSUME todo'["handler"] = RuntimeAsk PROVE NoneLives("test")
          OBVIOUS
        <4>1. todo["handler"] = RuntimeOn
          BY <1>11, <2>2, <3>2, Distinct
        <4>2. Top("handler").op = "drop" /\ Top("handler").kind = "test"
          BY <4>1, Pieces, PieceFields DEF Top
        <4> QED
          BY <3>3, <4>1, <4>2, Gone DEF Creating, Cameras
      <3>5. todo'["handler"] = Restart => NoneLives("reliability")
        <4> SUFFICES ASSUME todo'["handler"] = Restart PROVE NoneLives("reliability")
          OBVIOUS
        <4>1. \/ todo["handler"] = TestOn /\ (call["handler"].at = "done" => ~call["handler"].alive)
              \/ todo["handler"] = Save /\ call["handler"].at = "done" /\ call["handler"].alive
          BY <1>11, <2>2, <3>2, Distinct
        <4>2. CASE todo["handler"] = Save /\ call["handler"].at = "done" /\ call["handler"].alive
          BY <4>2 DEF Cleared
        <4>3. CASE todo["handler"] = TestOn /\ (call["handler"].at = "done" => ~call["handler"].alive)
          <5>1. Top("handler").op = "ask" /\ Top("handler").kind = "reliability"
            BY <4>3, Pieces, PieceFields DEF Top
          <5> QED
            BY <3>3, <4>3, <5>1, Gone DEF Creating, Cameras
        <4> QED
          BY <4>1, <4>2, <4>3
      <3>6. todo'["handler"] = RuntimeNew => \A k \in Cameras : NoneLives(k)
        <4> SUFFICES ASSUME todo'["handler"] = RuntimeNew PROVE \A k \in Cameras : NoneLives(k)
          OBVIOUS
        <4>1. /\ todo["handler"] = RuntimeAsk
              /\ call["handler"].at = "done" => ~call["handler"].alive
          BY <1>11, <2>2, <3>2, Distinct
        <4>2. Top("handler").op = "ask" /\ Top("handler").kind = "reliability"
          BY <4>1, Pieces, PieceFields DEF Top
        <4>3. NoneLives("reliability")
          BY <3>3, <4>1, <4>2, Gone DEF Creating, Cameras
        <4> QED
          BY <4>1, <4>3 DEF Cleared, Cameras
      <3>7. todo'["handler"] = TestNew => \A k \in Cameras : NoneLives(k)
        <4> SUFFICES ASSUME todo'["handler"] = TestNew PROVE \A k \in Cameras : NoneLives(k)
          OBVIOUS
        <4>1. todo["handler"] = Restart
          BY <1>11, <2>2, <3>2, Distinct
        <4>2. Top("handler").op = "drop" /\ Top("handler").kind = "test"
          BY <4>1, Pieces, PieceFields DEF Top
        <4>3. NoneLives("test")
          BY <3>3, <4>1, <4>2, Gone DEF Creating, Cameras
        <4> QED
          BY <4>1, <4>3 DEF Cleared, Cameras
      <3> QED
        BY <1>26, <3>1, <3>4, <3>5, <3>6, <3>7 DEF Cleared
    <2> QED
      BY <2>1, <2>2 DEF Threads
  <1>30. OneLives'
    BY <1>4 DEF OneLives
  <1> QED
    BY <1>5, <1>14, <1>18, <1>19, <1>22, <1>23, <1>24, <1>25, <1>28, <1>29, <1>30

------------------------------------------------------------------------------
(* The theorems.                                                            *)

LEMMA InvKept == Inv /\ [Next]_vars => Inv'
  <1> SUFFICES ASSUME Inv, [Next]_vars PROVE Inv'
    OBVIOUS
  <1>1. TypeOK'
    BY TypeKept DEF Inv
  <1>2. CASE UNCHANGED vars
    <2>1. /\ \A p : Alive(p)' = Alive(p)
          /\ \A o : Dead(o)' = Dead(o) /\ ForEndpoint(o)' = ForEndpoint(o)
          /\ \A o, k : Holds(o, k)' = Holds(o, k)
          /\ \A k : NoneLives(k)' = NoneLives(k)
          /\ \A t : Top(t)' = Top(t) /\ Active(t)' = Active(t)
      BY <1>2 DEF vars, Alive, Dead, ForEndpoint, Holds, NoneLives, Top, Active
    <2>2. \A t : Asking(t)' = Asking(t) /\ Dropping(t)' = Dropping(t) /\ Making(t)' = Making(t)
      BY <1>2, <2>1 DEF vars, Asking, Dropping, Making
    <2>3. WorkOK' /\ CallsOK'
      BY <1>2, <2>1, <2>2 DEF vars, Inv, WorkOK, CallsOK, CallOK
    <2>4. Referenced' /\ Young' /\ Fresh'
      BY <1>2, <2>1 DEF vars, Inv, Referenced, Young, Fresh, Unborn
    <2>5. EndpointsOK' /\ SlotsOK' /\ EntriesOK'
      BY <1>2, <2>1 DEF vars, Inv, EndpointsOK, SlotsOK, EntriesOK
    <2>6. Owned' /\ Cleared' /\ OneLives'
      BY <1>2, <2>1 DEF vars, Inv, Owned, Cleared, OneLives
    <2> QED
      BY <1>1, <2>3, <2>4, <2>5, <2>6 DEF Inv
  <1>3. CASE \E t \in Threads : ThreadStep(t)
    BY <1>1, <1>3, BeginInv, InnerInv, SpawnInv, BackInv DEF ThreadStep, Inner, Back
  <1> QED
    BY <1>1, <1>2, <1>3, WorkBegunInv, EnvironmentKept DEF Next

\* The variables keep their types: whatever the requests, in whatever order the
\* two threads take their steps and the processes end.
THEOREM Typing == Spec => []TypeOK
  <1>1. Inv => TypeOK
    BY DEF Inv
  <1> QED
    BY <1>1, InvInit, InvKept, PTL DEF Spec

LEMMA OneLivesCounted == TypeOK /\ OneLives => CamerasExclusive
  <1> SUFFICES ASSUME TypeOK, OneLives PROVE CamerasExclusive
    OBVIOUS
  <1> DEFINE Living == {p \in Procs : proc[p].of \in Cameras /\ Alive(p)}
  <1>1. CASE Living = {}
    BY <1>1, FS_EmptySet DEF CamerasExclusive
  <1>2. CASE Living # {}
    <2> PICK p : p \in Living
      BY <1>2
    <2>1. Living = {p}
      BY DEF OneLives
    <2>2. Cardinality(Living) = 1
      BY <2>1, FS_Singleton
    <2> QED
      BY <2>2 DEF CamerasExclusive
  <1> QED
    BY <1>1, <1>2

\* The reliability runtime and the MediaPipe test never have the cameras open
\* at once: of all the processes the launcher started for either, however the
\* requests of the page and the end of run_web_ui() follow and overlap, at most
\* one lives.
THEOREM OneCameraOwner == Spec => []CamerasExclusive
  <1>1. Inv => CamerasExclusive
    BY OneLivesCounted DEF Inv
  <1> QED
    BY <1>1, InvInit, InvKept, PTL DEF Spec

------------------------------------------------------------------------------
(* The second invariant: who knows a living process.                        *)

\* None of the three windows has been met.
Clean == ~hist.raced /\ ~hist.dropped /\ ~hist.beside

\* An object that is done with: no process of it lives, it reuses no listener,
\* and nobody is replacing one.
Finished(o) ==
  /\ Dead(o) /\ (obj[o].reused => obj[o].released)
  /\ \A t \in Threads : ~Taking(t, o)
Entry == slot["endpoint"]
EntryFinished == Entry = 0 \/ Finished(Entry)

\* A call says what its step wants.
WantsOK == \A t \in Threads : Active(t) => call[t].wants = Wants(Top(t))

\* The watchdog only reaps; and when no request was under way as main left,
\* none is.
ServingOK ==
  /\ main = "serving" =>
       ~hist.beside /\ \A i \in DOMAIN todo["main"] : todo["main"][i].op = "reap"
  /\ main # "serving" /\ ~hist.beside => todo["handler"] = <<>>

\* A living process is its entry's, or is just being started.
BeingMade(p) ==
  /\ call["handler"].at \in {"grace", "done"}
  /\ Top("handler") = New(proc[p].of) /\ obj[call["handler"].obj].proc = p
EachOwned ==
  \A p \in Procs : Alive(p) =>
    (slot[proc[p].of] # 0 /\ obj[slot[proc[p].of]].proc = p) \/ BeingMade(p)

\* An object that reuses a listener has no process.
ReusedOK == \A o \in Objects : obj[o].reused => obj[o].proc = 0

\* One thread at a time replaces a vanished listener, and of the entry only;
\* nobody comes to listen meanwhile.
TakesOK ==
  \A t \in Threads : Taking(t, call[t].obj) =>
    /\ Entry = call[t].obj /\ ~obj[call[t].obj].reused
    /\ call[t].at # "grace" => Dead(call[t].obj)
    /\ call[t].at = "grace" => call[t].proc = obj[call[t].obj].proc
    /\ call[t].at = "enter" => ~Bound
    /\ ~Taking(Other(t), call[Other(t)].obj)

\* What a thread works on that is not the entry any more is finished, and so
\* is what it has been told is dead, or has ended.
OnEndpoint(t) == Active(t) /\ Top(t).kind = "endpoint" /\ Top(t).op # "new"
CallEnds(t) ==
  LET o == call[t].obj IN
  /\ Entry # o => Finished(o)
  /\ t = "handler" \/ main # "serving" => Entry \in {0, o}
  /\ call[t].at = "done" /\ (call[t].alive => call[t].wants = "quit") => Finished(o)
  /\ call[t].at = "wait" => /\ ~obj[o].reused /\ call[t].proc = obj[o].proc
                            /\ \A u \in Threads : ~Taking(u, o)
EndpointCallsOK == \A t \in Threads : OnEndpoint(t) => CallEnds(t)

\* What a stop holds is the entry, unless the watchdog has dropped that.
HeldOnly(o) == Entry \in {0, o} /\ (Entry = 0 => Finished(o))
HeldOK ==
  \A i \in DOMAIN todo["handler"] : \A o \in Objects :
    todo["handler"][i].obj = o => HeldOnly(o)

\* An entry is ended before it is dropped.
Guarded(w) ==
  \A i \in DOMAIN w : w[i].op \in {"forget", "clear"} =>
    \E j \in DOMAIN w : j < i /\ w[j].op = "quit"
ForgettingOK == EntryFinished \/ \A t \in Threads : Guarded(todo[t])

MakesOK ==
  Active("handler") /\ Top("handler") = New("endpoint") =>
    LET o == call["handler"].obj IN
    /\ Entry = 0
    /\ call["handler"].at = "grace" => call["handler"].proc = obj[o].proc
    /\ call["handler"].at = "done" /\ ~call["handler"].alive => Dead(o)

DropsOK ==
  Active("main") /\ Top("main").kind \in Cameras =>
    slot[Top("main").kind] \in {0, call["main"].obj}

CleanOK ==
  /\ EachOwned /\ ReusedOK /\ TakesOK /\ EndpointCallsOK /\ HeldOK
  /\ ForgettingOK /\ MakesOK /\ DropsOK
OwnerInv == WantsOK /\ ServingOK /\ (Clean => CleanOK)
------------------------------------------------------------------------------
(* Facts the steps share.                                                   *)

LEMMA InnerForms ==
  ASSUME TypeOK, NEW t \in Threads
  PROVE  /\ \A place \in Place : At(t, place) =>
              /\ call'[t].at = place /\ call'[t].alive = call[t].alive
              /\ call'[t].proc = call[t].proc
         /\ \A alive \in BOOLEAN : Answers(t, alive) =>
              call'[t].at = "done" /\ call'[t].alive = alive
         /\ \A alive \in BOOLEAN : Polled(t, alive) =>
              \/ /\ alive /\ call[t].wants = "quit" /\ call'[t].at = "signal"
              \/ /\ (alive => call[t].wants # "quit")
                 /\ call'[t].at = "done" /\ call'[t].alive = alive
  <1>1. call \in [Threads -> Call] /\ call[t] \in Call
    BY DEF TypeOK
  <1>2. \A place \in Place : At(t, place) =>
                /\ call'[t].at = place /\ call'[t].alive = call[t].alive
                /\ call'[t].proc = call[t].proc
    BY <1>1 DEF At, Call
  <1>3. \A alive \in BOOLEAN : Answers(t, alive) =>
                call'[t].at = "done" /\ call'[t].alive = alive
    BY <1>1 DEF Answers, Call
  <1> QED
    BY <1>2, <1>3 DEF Polled, Place

\* What poll() decides.
LEMMA ProbeForm ==
  ASSUME Inv, NEW t \in Threads, Probe(t)
  PROVE  LET o == call[t].obj IN
         /\ hist'.raced = (hist.raced \/ Taking(Other(t), o))
         /\ \/ /\ obj[o].reused /\ ~obj[o].released /\ ~Bound
               /\ call'[t].at = "enter" /\ obj'[o].proc = obj[o].proc /\ ~obj'[o].reused
            \/ obj' = obj /\ call'[t].at = "signal"
            \/ /\ obj' = obj /\ call'[t].at = "done" /\ call'[t].alive
               /\ call[t].wants # "quit"
            \/ /\ obj' = obj /\ call'[t].at = "done" /\ ~call'[t].alive
               /\ IF obj[o].reused THEN obj[o].released ELSE Dead(o)
  <1> DEFINE o == call[t].obj
             answer == IF obj[o].reused THEN ~obj[o].released
                       ELSE obj[o].proc = 0 \/ Alive(obj[o].proc)
  <1>1. o \in Objects /\ obj[o] \in Object /\ hist = [hist EXCEPT !.raced = hist.raced]
    BY DEF Inv, TypeOK, CallsOK, CallOK, Active, Probe
  <1>2. hist'.raced = (hist.raced \/ Taking(Other(t), o))
    BY DEF Probe, Races, Inv, TypeOK
  <1>3. answer \in BOOLEAN
    BY <1>1 DEF Alive, Object
  <1>4. CASE obj[o].reused /\ ~obj[o].released /\ ~Bound
    <2>1. obj' = [obj EXCEPT ![o].reused = FALSE] /\ At(t, "enter")
      BY <1>4 DEF Probe
    <2>2. obj'[o].proc = obj[o].proc /\ ~obj'[o].reused
      BY <1>1, <2>1 DEF Inv, TypeOK, Object
    <2> QED
      BY <1>2, <1>4, <2>1, <2>2, InnerForms DEF Place, Inv
  <1>5. CASE ~(obj[o].reused /\ ~obj[o].released /\ ~Bound)
    <2>1. obj' = obj /\ Polled(t, answer)
      BY <1>5 DEF Probe
    <2> QED
      BY <1>2, <1>3, <2>1, InnerForms DEF Inv, Dead
  <1> QED
    BY <1>4, <1>5

\* What start() and terminate() may do.
LEMMA EnterForm ==
  ASSUME Inv, NEW t \in Threads, Enter(t)
  PROVE  LET o == call[t].obj IN
         /\ hist' = hist
         /\ \/ /\ Alive(obj[o].proc) /\ obj' = obj
               /\ call[t].wants = "start" => call'[t].at = "done" /\ call'[t].alive
            \/ /\ Top(t).kind = "endpoint" /\ Bound /\ ~Alive(obj[o].proc)
               /\ obj'[o].proc = 0 /\ call'[t].at = "done"
               /\ call'[t].alive = (call[t].wants = "start")
            \/ /\ ~Alive(obj[o].proc) /\ call'[t].at = "spawn"
               /\ obj'[o].proc = obj[o].proc /\ ~obj'[o].reused
  <1> DEFINE o == call[t].obj
             reuse == Top(t).kind = "endpoint" /\ Bound
  <1>1. o \in Objects /\ obj \in [Objects -> Object] /\ TypeOK
    BY DEF Inv, TypeOK, CallsOK, CallOK, Active, Enter
  <1>2. hist' = hist
    BY DEF Enter
  <1>3. CASE Alive(obj[o].proc) /\ Started(t, o) /\ UNCHANGED obj
    BY <1>1, <1>2, <1>3, InnerForms DEF Started
  <1>4. CASE /\ ~Alive(obj[o].proc)
             /\ obj' = [obj EXCEPT ![o] = [proc |-> IF reuse THEN 0 ELSE @.proc,
                                           reused |-> reuse, released |-> FALSE]]
             /\ IF reuse THEN Answers(t, call[t].wants = "start") ELSE At(t, "spawn")
    <2>1. obj'[o] = [proc |-> IF reuse THEN 0 ELSE obj[o].proc, reused |-> reuse, released |-> FALSE]
      BY <1>1, <1>4
    <2>2. CASE reuse
      <3>1. obj'[o].proc = 0
        BY <2>1, <2>2
      <3>2. call'[t].at = "done" /\ call'[t].alive = (call[t].wants = "start")
        BY <1>1, <1>4, <2>2, InnerForms
      <3> QED
        BY <1>2, <1>4, <2>2, <3>1, <3>2
    <2>3. CASE ~reuse
      <3>1. obj'[o] = [proc |-> obj[o].proc, reused |-> FALSE, released |-> FALSE]
        BY <2>1, <2>3
      <3>2. call'[t].at = "spawn"
        BY <1>1, <1>4, <2>3, InnerForms DEF Place
      <3>3. obj'[o].proc = obj[o].proc /\ ~obj'[o].reused
        BY <3>1
      <3> QED
        BY <1>2, <1>4, <3>2, <3>3
    <2> QED
      BY <2>2, <2>3
  <1> QED
    BY <1>3, <1>4 DEF Enter

LEMMA RaisesForm ==
  ASSUME Inv, NEW t \in Threads, StartRaises(t), call[t].obj \in Objects
  PROVE  LET o == call[t].obj IN
         /\ call'[t].at = "done" /\ ~call'[t].alive
         /\ obj'[o].proc = obj[o].proc /\ obj'[o].reused = obj[o].reused
         /\ call[t].wants = "start" => obj' = obj
  <1> DEFINE o == call[t].obj
  <1>1. obj \in [Objects -> Object] /\ obj[o] \in Object /\ TypeOK
    BY DEF Inv, TypeOK
  <1>2. call'[t].at = "done" /\ ~call'[t].alive
    BY <1>1, InnerForms DEF StartRaises
  <1>3. CASE call[t].wants = "start"
    BY <1>2, <1>3 DEF StartRaises
  <1>4. CASE call[t].wants # "start"
    <2>1. obj'[o] = [obj[o] EXCEPT !.released = TRUE]
      BY <1>1, <1>4 DEF StartRaises
    <2>2. /\ [obj[o] EXCEPT !.released = TRUE].proc = obj[o].proc
          /\ [obj[o] EXCEPT !.released = TRUE].reused = obj[o].reused
      BY <1>1 DEF Object
    <2> QED
      BY <1>2, <1>4, <2>1, <2>2
  <1> QED
    BY <1>3, <1>4

LEMMA SignalForm ==
  ASSUME Inv, NEW t \in Threads, Signal(t)
  PROVE  LET o == call[t].obj IN
         /\ hist'.raced = (hist.raced \/ Taking(Other(t), o))
         /\ obj'[o].proc = obj[o].proc /\ obj'[o].reused = obj[o].reused
         /\ \/ /\ ~obj[o].reused /\ call'[t].at = "wait" /\ call'[t].proc = obj[o].proc
            \/ /\ obj[o].reused \/ Dead(o)
               /\ call'[t].at = "done" /\ ~call'[t].alive
               /\ obj[o].reused => obj'[o].released
  <1> DEFINE o == call[t].obj
  <1>1. o \in Objects /\ obj \in [Objects -> Object] /\ obj[o] \in Object /\ TypeOK
        /\ call \in [Threads -> Call] /\ call[t] \in Call
    BY DEF Inv, TypeOK, CallsOK, CallOK, Active, Signal
  <1>2. hist'.raced = (hist.raced \/ Taking(Other(t), o))
    BY <1>1 DEF Signal, Races, TypeOK
  <1>3. CASE ~obj[o].reused /\ Alive(obj[o].proc)
    <2>1. /\ call' = [call EXCEPT ![t] = [call[t] EXCEPT !.at = "wait", !.proc = obj[o].proc]]
          /\ obj' = obj
      BY <1>1, <1>3 DEF Signal
    <2>2. call'[t].at = "wait" /\ call'[t].proc = obj[o].proc
      BY <1>1, <2>1 DEF Call
    <2> QED
      BY <1>2, <1>3, <2>1, <2>2
  <1>4. CASE ~(~obj[o].reused /\ Alive(obj[o].proc))
    <2>1. /\ Answers(t, FALSE)
          /\ obj' = [obj EXCEPT ![o] = [obj[o] EXCEPT !.released = obj[o].released \/ obj[o].reused]]
      BY <1>1, <1>4 DEF Signal
    <2>2. obj'[o] = [obj[o] EXCEPT !.released = obj[o].released \/ obj[o].reused]
      BY <1>1, <2>1
    <2>3. /\ obj'[o].proc = obj[o].proc /\ obj'[o].reused = obj[o].reused
          /\ obj'[o].released = (obj[o].released \/ obj[o].reused)
      BY <1>1, <2>2 DEF Object
    <2> QED
      BY <1>1, <1>2, <1>4, <2>1, <2>3, InnerForms DEF Dead
  <1> QED
    BY <1>3, <1>4

LEMMA WaitForm ==
  ASSUME Inv, NEW t \in Threads, Wait(t)
  PROVE  /\ obj' = obj /\ hist' = hist /\ call'[t].at = "done" /\ ~call'[t].alive
         /\ \A p \in Procs : p = call[t].proc => ~Alive(p)'
  <1>1. obj' = obj /\ hist' = hist /\ call'[t].at = "done" /\ ~call'[t].alive
    BY InnerForms DEF Inv, Wait
  <1>2. ASSUME NEW p \in Procs, p = call[t].proc PROVE ~Alive(p)'
    <2>1. proc \in [Procs -> Process] /\ proc[p] \in Process
      BY DEF Inv, TypeOK
    <2>2. CASE Alive(p)
      <3>1. proc'[p] = [proc[p] EXCEPT !.leader = "off", !.listens = FALSE]
        BY <1>2, <2>1, <2>2 DEF Wait
      <3>2. proc'[p].leader = "off"
        BY <2>1, <3>1 DEF Process
      <3> QED
        BY <3>2 DEF Alive
    <2>3. CASE ~Alive(p)
      BY <1>2, <2>3 DEF Wait, Alive
    <2> QED
      BY <2>2, <2>3
  <1> QED
    BY <1>1, <1>2

\* Who replaces a vanished listener works on the endpoint.
LEMMA TakingEndpoint ==
  ASSUME Inv, NEW t \in Threads, NEW o, Taking(t, o)
  PROVE  OnEndpoint(t) /\ o = call[t].obj /\ o \in Objects
  <1>1. Active(t) /\ CallOK(t) /\ call[t].obj = o
    BY DEF Inv, CallsOK, Active, Taking
  <1>2. Top(t).kind \in Kinds
    BY <1>1, TopFields DEF Inv, CallOK
  <1> QED
    BY <1>1, <1>2 DEF OnEndpoint, CallOK, Asking, Dropping, Taking, Kinds
------------------------------------------------------------------------------
(* What is finished stays so, unless it is the object being made.           *)

Newborn(x) == Active("handler") /\ Top("handler").op = "new" /\ call["handler"].obj = x

\* The pieces of work that are not about the endpoint hold no object, and drop
\* no entry of it.
LEMMA PieceSteps ==
  \A w \in Creating \cup {RuntimeOff, TestOff} : \A i \in DOMAIN w :
    w[i].obj = 0 /\ w[i].op \notin {"forget", "clear"}
  <1>1. \A w \in {EndpointOn, Restart, RuntimeOn} : DOMAIN w = 1..2
    BY DEF EndpointOn, Restart, RuntimeOn
  <1>2. \A w \in {EndpointNew, RuntimeNew, RuntimeAsk, RuntimeOff, TestNew, TestOn, TestOff, Save} :
          DOMAIN w = 1..1
    BY DEF EndpointNew, RuntimeNew, RuntimeAsk, RuntimeOff, TestNew, TestOn, TestOff, Save
  <1>3. /\ EndpointOn[1] = Reap /\ EndpointOn[2] = New("endpoint")
        /\ Restart[1] = Drop("test") /\ Restart[2] = New("test")
        /\ RuntimeOn[1] = Drop("test") /\ RuntimeOn[2] = Ask("reliability", <<>>, RuntimeNew)
    BY DEF EndpointOn, Restart, RuntimeOn
  <1>4. /\ EndpointNew[1] = New("endpoint") /\ RuntimeNew[1] = New("reliability")
        /\ TestNew[1] = New("test")
        /\ RuntimeAsk[1] = Ask("reliability", <<>>, RuntimeNew)
        /\ TestOn[1] = Ask("reliability", <<>>, Restart) /\ Save[1] = Ask("test", Restart, <<>>)
        /\ RuntimeOff[1] = Drop("reliability") /\ TestOff[1] = Drop("test")
    BY DEF EndpointNew, RuntimeNew, RuntimeAsk, RuntimeOff, TestNew, TestOn, TestOff, Save
  <1>5. \A i : (i \in 1..1 => i = 1) /\ (i \in 1..2 => i = 1 \/ i = 2)
    OBVIOUS
  <1>6. ASSUME NEW w \in {EndpointOn, Restart, RuntimeOn}, NEW i \in DOMAIN w
        PROVE  w[i].obj = 0 /\ w[i].op \notin {"forget", "clear"}
    BY <1>1, <1>3, <1>5, PieceFields
  <1>7. ASSUME NEW w \in {EndpointNew, RuntimeNew, RuntimeAsk, RuntimeOff, TestNew, TestOn,
                          TestOff, Save}, NEW i \in DOMAIN w
        PROVE  w[i].obj = 0 /\ w[i].op \notin {"forget", "clear"}
    BY <1>2, <1>4, <1>5, PieceFields
  <1> QED
    BY <1>6, <1>7 DEF Creating

\* Nothing that is the entry, held or worked on otherwise is being made.
LEMMA NotNewborn ==
  ASSUME Inv
  PROVE  /\ ~Newborn(Entry)
         /\ \A u \in Threads : Active(u) /\ Top(u).op # "new" => ~Newborn(call[u].obj)
         /\ \A x \in Objects, i \in DOMAIN todo["handler"] :
              todo["handler"][i].obj = x => ~Newborn(x)
  <1> USE DEF Inv
  <1> SUFFICES ASSUME NEW y, Newborn(y)
               PROVE  /\ y # Entry
                      /\ \A u \in Threads : Active(u) /\ Top(u).op # "new" => call[u].obj # y
                      /\ y \in Objects => \A i \in DOMAIN todo["handler"] : todo["handler"][i].obj # y
    BY DEF Newborn
  <1>1. CallOK("handler") /\ todo["handler"] # <<>>
    BY DEF CallsOK, CallOK, Newborn, Threads
  <1>2. y = requests /\ todo["handler"] \in Creating
    BY <1>1, TopFields DEF CallOK, Newborn, Threads
  <1>3. y # Entry /\ \A u \in Threads : Active(u) /\ Top(u).op # "new" => call[u].obj # y
    BY <1>2 DEF Fresh, Entry, Kinds, Threads
  <1>4. y \in Objects => \A i \in DOMAIN todo["handler"] : todo["handler"][i].obj # y
    BY <1>2, PieceSteps DEF Objects
  <1> QED
    BY <1>3, <1>4

LEMMA FinishedFrame ==
  ASSUME TypeOK, NEW x \in Objects, Finished(x), obj'[x].proc \in {0, obj[x].proc},
         obj'[x].reused => obj'[x].released, \A p \in Procs : Alive(p)' => Alive(p),
         \A u \in Threads : ~Taking(u, x)'
  PROVE  Finished(x)'
  <1>1. obj[x].proc \in Procs \cup {0}
    BY DEF TypeOK, Object
  <1>2. ~Alive(0)'
    BY DEF Alive
  <1>3. Dead(x)'
    BY <1>1, <1>2 DEF Finished, Dead
  <1> QED
    BY <1>3 DEF Finished

LEMMA InnerFinished ==
  ASSUME Inv, WantsOK, NEW t \in Threads, Inner(t), NEW x \in Objects, Finished(x),
         x # call[t].obj \/ Top(t).op # "new"
  PROVE  Finished(x)'
  <1> USE DEF Inv
  <1>1. /\ call'[t].obj = call[t].obj /\ call'[t].wants = call[t].wants /\ Active(t)
        /\ \A u \in Threads : u # t => call'[u] = call[u]
    BY InnerCalls
  <1>2. call[t].obj \in Objects
    BY <1>1 DEF CallsOK, CallOK
  <1>3. /\ \A y \in Objects : y # call[t].obj => obj'[y] = obj[y]
        /\ obj'[call[t].obj].proc \in {0, obj[call[t].obj].proc} /\ Calm
    BY <1>2, InnerObjects
  <1>4. \A p \in Procs : Alive(p)' => Alive(p)
    BY <1>3 DEF Calm
  <1>5. \A u \in Threads : u # t => ~Taking(u, x)'
    BY <1>1 DEF Finished, Taking
  <1>6. CASE x # call[t].obj
    <2>1. ~Taking(t, x)'
      BY <1>1, <1>6 DEF Taking
    <2> QED
      BY <1>3, <1>4, <1>5, <1>6, <2>1, FinishedFrame DEF Finished
  <1>7. CASE x = call[t].obj /\ Top(t).op # "new"
    <2>1. call[t].wants # "start"
      BY <1>1, <1>7 DEF WantsOK, Wants
    <2>2. call[t].at \notin {"enter", "spawn", "grace"}
      BY <1>7, <2>1 DEF Finished, Taking
    <2>3. Probe(t) \/ Signal(t) \/ Wait(t)
      BY <2>2 DEF Inner, Enter, SpawnRaises, Grace
    <2>4. /\ call'[t].at \in {"signal", "done", "wait"}
          /\ obj'[x].reused => obj'[x].released
      <3>1. CASE Probe(t)
        BY <1>7, <3>1, ProbeForm DEF Finished
      <3>2. CASE Signal(t)
        BY <1>7, <3>2, SignalForm DEF Finished
      <3>3. CASE Wait(t)
        BY <1>7, <3>3, WaitForm DEF Finished
      <3> QED
        BY <2>3, <3>1, <3>2, <3>3
    <2>5. ~Taking(t, x)'
      BY <2>4 DEF Taking
    <2> QED
      BY <1>3, <1>4, <1>5, <1>7, <2>4, <2>5, FinishedFrame
  <1> QED
    BY <1>6, <1>7

LEMMA SpawnFinished ==
  ASSUME Inv, WantsOK, NEW t \in Threads, Spawn(t), NEW x \in Objects, Finished(x),
         x # call[t].obj \/ Top(t).op # "new"
  PROVE  Finished(x)'
  <1> USE DEF Inv
  <1> PICK o : o = call[t].obj
    OBVIOUS
  <1>1. PICK p \in Procs :
          /\ ~Alive(p) /\ \A y \in Objects : obj[y].proc # p
          /\ \A q \in Procs : q # p => proc'[q] = proc[q]
          /\ \A y \in Objects : y # o => obj'[y] = obj[y]
          /\ call'[t].at = "grace" /\ call'[t].obj = o
          /\ \A u \in Threads : u # t => call'[u] = call[u]
          /\ Active(t)
    BY SpawnFields
  <1>2. x # o
    <2> SUFFICES ASSUME x = o PROVE FALSE
      OBVIOUS
    <2>1. call[t].wants # "start"
      BY <1>1 DEF WantsOK, Wants
    <2>2. Taking(t, x)
      BY <2>1 DEF Taking, Spawn
    <2> QED
      BY <2>2 DEF Finished
  <1>3. obj'[x] = obj[x] /\ obj[x].proc # p /\ obj[x].proc \in Procs \cup {0}
    BY <1>1, <1>2 DEF TypeOK, Object
  <1>4. Dead(x)'
    BY <1>1, <1>3 DEF Dead, Alive, Finished
  <1>5. \A u \in Threads : ~Taking(u, x)'
    BY <1>1, <1>2 DEF Finished, Taking
  <1> QED
    BY <1>3, <1>4, <1>5 DEF Finished

LEMMA BeginFinished ==
  ASSUME Inv, NEW t \in Threads, Begin(t), NEW x \in Objects, Finished(x)
  PROVE  Finished(x)'
  <1>1. /\ UNCHANGED <<proc, obj>> /\ \A u \in Threads : u # t => call'[u] = call[u]
        /\ call'[t].wants = Wants(Top(t))
        /\ call'[t].at = (CASE Top(t).op = "new" -> "enter" [] Top(t).op = "drop" -> "signal"
                            [] OTHER -> "probe")
    BY BeginObject
  <1>2. ~Taking(t, x)'
    BY <1>1 DEF Taking, Wants
  <1>3. \A u \in Threads : ~Taking(u, x)'
    BY <1>1, <1>2 DEF Finished, Taking
  <1> QED
    BY <1>1, <1>3 DEF Finished, Dead, Alive

LEMMA BackFinished ==
  ASSUME Inv, NEW t \in Threads, Back(t), NEW x \in Objects, Finished(x)
  PROVE  Finished(x)'
  <1>1. /\ obj'[x] = obj[x] \/ obj'[x] = NoObject
        /\ \A p \in Procs : Alive(p)' <=> Alive(p)
    BY Collected
  <1>2. call'[t].at = "none" /\ \A u \in Threads : u # t => call'[u] = call[u]
    BY BackState
  <1>3. \A u \in Threads : ~Taking(u, x)'
    BY <1>2 DEF Finished, Taking
  <1>4. obj'[x].proc \in {0, obj[x].proc} /\ (obj'[x].reused => obj'[x].released)
    BY <1>1 DEF Finished, NoObject
  <1> QED
    BY <1>1, <1>3, <1>4, FinishedFrame DEF Inv

\* The steps of the processes and of the other session.
Outside == OtherCloses \/ \E p \in Procs : Listen(p) \/ End(p) \/ MemberEnds(p)

LEMMA OutsideCalm ==
  ASSUME TypeOK, Outside
  PROVE  /\ UNCHANGED <<obj, slot, todo, call, main, requests>> /\ Calm
         /\ hist'.raced = hist.raced /\ hist'.dropped = hist.dropped
         /\ hist'.beside = hist.beside
  <1>1. CASE OtherCloses
    BY <1>1 DEF OtherCloses, Calm, Alive
  <1>2. ASSUME NEW p \in Procs, Listen(p) \/ MemberEnds(p)
        PROVE  /\ UNCHANGED <<obj, slot, todo, call, main, requests>> /\ Calm
               /\ hist' = hist
    BY <1>2 DEF Listen, MemberEnds, Calm, Alive, TypeOK, Process
  <1>3. ASSUME NEW p \in Procs, End(p)
        PROVE  /\ UNCHANGED <<obj, slot, todo, call, main, requests>> /\ Calm
               /\ hist'.raced = hist.raced /\ hist'.dropped = hist.dropped
               /\ hist'.beside = hist.beside
    BY <1>3 DEF End, Calm, Alive, TypeOK, Process
  <1> QED
    BY <1>1, <1>2, <1>3 DEF Outside

LEMMA OutsideFinished ==
  ASSUME TypeOK, Outside, NEW x \in Objects, Finished(x)
  PROVE  Finished(x)'
  <1>1. UNCHANGED <<obj, call>> /\ Calm
    BY OutsideCalm
  <1>2. \A u \in Threads : ~Taking(u, x)'
    BY <1>1 DEF Finished, Taking
  <1> QED
    BY <1>1, <1>2, FinishedFrame DEF Finished, Calm
------------------------------------------------------------------------------
(* The steps inside a call.                                                 *)

LEMMA InnerBound ==
  ASSUME Inv, NEW t \in Threads, Inner(t), Bound'
  PROVE  Bound
  <1>1. proc \in [Procs -> Process] /\ call[t].proc \in Procs \cup {0}
    BY DEF Inv, TypeOK, Call
  <1>2. other' = other
    BY DEF Inner, Probe, Enter, SpawnRaises, Grace, Signal, Wait, env
  <1>3. \A p \in Procs : proc'[p].listens => proc[p].listens
    <2>1. CASE Probe(t) \/ Enter(t) \/ SpawnRaises(t) \/ Grace(t)
      BY <2>1 DEF Probe, Enter, SpawnRaises, Grace, env
    <2>2. CASE Signal(t)
      <3>1. proc' = proc \/ \E p : proc' = [proc EXCEPT ![p] = [proc[p] EXCEPT !.leader = "asked"]]
        BY <2>2 DEF Signal
      <3>2. \A p \in Procs : [proc[p] EXCEPT !.leader = "asked"].listens = proc[p].listens
        BY <1>1 DEF Process
      <3> QED
        BY <1>1, <3>1, <3>2
    <2>3. CASE Wait(t)
      <3>1. \/ proc' = proc
            \/ \E p : proc' = [proc EXCEPT ![p] = [proc[p] EXCEPT !.leader = "off", !.listens = FALSE]]
        BY <2>3 DEF Wait
      <3>2. \A p \in Procs : ~[proc[p] EXCEPT !.leader = "off", !.listens = FALSE].listens
        BY <1>1 DEF Process
      <3> QED
        BY <1>1, <3>1, <3>2
    <2> QED
      BY <2>1, <2>2, <2>3 DEF Inner
  <1> QED
    BY <1>2, <1>3 DEF Bound

\* A step inside a call leaves nothing of the history but a race.
LEMMA InnerClean ==
  ASSUME Inv, NEW t \in Threads, Inner(t), Clean'
  PROVE  /\ Clean
         /\ call[t].at \in {"probe", "signal"} => ~Taking(Other(t), call[t].obj)
  <1>1. /\ hist'.dropped = hist.dropped /\ hist'.beside = hist.beside
        /\ hist'.raced = hist.raced
             \/ hist'.raced = (hist.raced \/ Taking(Other(t), call[t].obj))
    BY DEF Inner, Probe, Enter, SpawnRaises, Grace, Signal, Wait, Races, Inv, TypeOK
  <1>2. CASE call[t].at \in {"probe", "signal"}
    <2>1. Probe(t) \/ Signal(t)
      BY <1>2 DEF Inner, Enter, SpawnRaises, Grace, Wait
    <2>2. hist'.raced = (hist.raced \/ Taking(Other(t), call[t].obj))
      BY <2>1, ProbeForm, SignalForm
    <2> QED
      BY <1>1, <2>2 DEF Clean
  <1>3. CASE call[t].at \notin {"probe", "signal"}
    BY <1>1, <1>3 DEF Clean
  <1> QED
    BY <1>2, <1>3

\* What a step does to an endpoint that the thread looks at or ends.
LEMMA EndpointStep ==
  ASSUME Inv, WantsOK, CleanOK, Clean', NEW t \in Threads, Inner(t), OnEndpoint(t),
         NEW o \in Objects, o = call[t].obj
  PROVE  /\ obj'[o].proc = obj[o].proc /\ (obj'[o].reused => obj[o].reused)
         /\ \A u \in Threads : u # t => ~Taking(u, o)
         /\ Taking(t, o)' => /\ Entry = o /\ ~obj'[o].reused /\ Dead(o)
                             /\ call'[t].at # "grace" /\ (call'[t].at = "enter" => ~Bound)
                             /\ \A u \in Threads : u # t => ~Taking(u, call[u].obj)
         /\ call'[t].at = "done" /\ (call'[t].alive => call'[t].wants = "quit") => Finished(o)'
         /\ call'[t].at = "wait" => ~obj[o].reused /\ call'[t].proc = obj[o].proc
  <1> USE DEF Inv
  <1>1. /\ call'[t].obj = o /\ call'[t].wants = call[t].wants /\ Active(t)
        /\ \A u \in Threads : u # t => call'[u] = call[u]
        /\ call[t].at \notin {"none", "done"}
    BY InnerCalls
  <1>2. /\ Calm /\ obj \in [Objects -> Object] /\ obj[o].proc \in Procs \cup {0}
        /\ call[t].at \in Place
    BY InnerObjects DEF TypeOK, Object, Call
  <1>3. call[t].wants # "start"
    BY <1>1 DEF WantsOK, Wants, OnEndpoint
  <1>4. CallEnds(t)
    BY DEF CleanOK, EndpointCallsOK
  <1>5. Dead(o) /\ obj'[o].proc = obj[o].proc => Dead(o)'
    BY <1>2 DEF Dead, Alive, Calm
  <1>6. \A u \in Threads : u # t => u = Other(t) /\ t = Other(u)
    BY OtherThread
  <1>7. call[t].at \in {"enter", "spawn", "grace"} => Taking(t, o)
    BY <1>3 DEF Taking
  <1>8. Taking(t, o) => /\ Entry = o /\ ~obj[o].reused
                        /\ call[t].at # "grace" => Dead(o)
                        /\ call[t].at = "grace" => call[t].proc = obj[o].proc
                        /\ call[t].at = "enter" => ~Bound
                        /\ \A u \in Threads : u # t => ~Taking(u, call[u].obj)
    BY <1>6 DEF CleanOK, TakesOK
  <1>9. \A u \in Threads : u # t => ~Taking(u, o)
    <2>1. CASE call[t].at \in {"probe", "signal"}
      BY <1>6, <2>1, InnerClean
    <2>2. CASE call[t].at = "wait"
      BY <1>4, <2>2 DEF CallEnds
    <2>3. CASE call[t].at \in {"enter", "spawn", "grace"}
      BY <1>7, <1>8, <2>3 DEF Taking
    <2> QED
      BY <1>1, <1>2, <2>1, <2>2, <2>3 DEF Place
  <1>10. \A u \in Threads : u # t => ~Taking(u, o)'
    BY <1>1, <1>9 DEF Taking
  <1>11. call'[t].at \notin {"enter", "spawn", "grace"} => ~Taking(t, o)'
    BY DEF Taking
  <1>12. obj[o].reused => Dead(o)
    BY DEF CleanOK, ReusedOK, Dead, Alive
  <1>13. /\ call'[t].at = "done" /\ obj'[o].proc = obj[o].proc /\ Dead(o)
         /\ obj'[o].reused => obj'[o].released
         => Finished(o)'
    BY <1>5, <1>10, <1>11 DEF Finished
  <1>14. CASE Probe(t)
    <2>1. CASE /\ obj[o].reused /\ ~obj[o].released /\ ~Bound
               /\ call'[t].at = "enter" /\ obj'[o].proc = obj[o].proc /\ ~obj'[o].reused
      <3>1. Entry = o
        BY <1>4, <2>1 DEF CallEnds, Finished
      <3>2. \A u \in Threads : u # t => ~Taking(u, call[u].obj)
        BY <1>9, <3>1 DEF CleanOK, TakesOK
      <3> QED
        BY <1>9, <1>12, <2>1, <3>1, <3>2
    <2>2. CASE obj' = obj /\ call'[t].at = "signal"
      BY <1>9, <1>11, <2>2
    <2>3. CASE obj' = obj /\ call'[t].at = "done" /\ call'[t].alive /\ call[t].wants # "quit"
      BY <1>1, <1>9, <1>11, <2>3
    <2>4. CASE /\ obj' = obj /\ call'[t].at = "done" /\ ~call'[t].alive
               /\ IF obj[o].reused THEN obj[o].released ELSE Dead(o)
      BY <1>9, <1>11, <1>12, <1>13, <2>4
    <2> QED
      BY <1>14, <2>1, <2>2, <2>3, <2>4, ProbeForm
  <1>15. CASE Enter(t)
    <2>1. Taking(t, o) /\ call[t].at = "enter"
      BY <1>7, <1>15 DEF Enter
    <2>2. /\ call'[t].at = "spawn" /\ obj'[o].proc = obj[o].proc /\ ~obj'[o].reused
      BY <1>8, <1>15, <2>1, EnterForm DEF Dead
    <2> QED
      BY <1>8, <1>9, <2>1, <2>2
  <1>16. CASE SpawnRaises(t)
    <2>1. Taking(t, o) /\ call[t].at = "spawn"
      BY <1>7, <1>16 DEF SpawnRaises
    <2> QED
      BY <1>8, <1>9, <1>11, <1>13, <1>16, <2>1, RaisesForm DEF SpawnRaises
  <1>17. CASE Grace(t)
    <2>1. Taking(t, o) /\ call[t].at = "grace"
      BY <1>7, <1>17 DEF Grace
    <2>2. CASE Alive(call[t].proc)
      <3>1. /\ obj' = obj
            /\ \/ call'[t].at = "signal"
               \/ call[t].wants # "quit" /\ call'[t].at = "done" /\ call'[t].alive
        BY <1>3, <1>8, <1>17, <2>1, <2>2, InnerForms DEF Grace, Started
      <3> QED
        BY <1>1, <1>9, <1>11, <3>1
    <2>3. CASE ~Alive(call[t].proc)
      <3>1. Dead(o)
        BY <1>8, <2>1, <2>3 DEF Dead
      <3> QED
        BY <1>8, <1>9, <1>11, <1>13, <1>17, <2>1, <2>3, <3>1, RaisesForm DEF Grace
    <2> QED
      BY <2>2, <2>3
  <1>18. CASE Signal(t)
    <2>1. /\ obj'[o].proc = obj[o].proc /\ obj'[o].reused = obj[o].reused
          /\ \/ /\ ~obj[o].reused /\ call'[t].at = "wait" /\ call'[t].proc = obj[o].proc
             \/ /\ obj[o].reused \/ Dead(o)
                /\ call'[t].at = "done" /\ ~call'[t].alive
                /\ obj[o].reused => obj'[o].released
      BY <1>18, SignalForm
    <2> QED
      BY <1>9, <1>11, <1>12, <1>13, <2>1
  <1>19. CASE Wait(t)
    <2>1. call[t].at = "wait" /\ obj' = obj /\ call'[t].at = "done" /\ ~call'[t].alive
      BY <1>19, WaitForm DEF Wait
    <2>2. ~obj[o].reused /\ call[t].proc = obj[o].proc
      BY <1>4, <2>1 DEF CallEnds
    <2>3. Dead(o)'
      <3>1. obj[o].proc \in Procs => ~Alive(obj[o].proc)'
        BY <1>19, <2>1, <2>2, WaitForm
      <3> QED
        BY <1>2, <2>1, <3>1 DEF Dead, Alive
    <2>4. Finished(o)'
      BY <1>10, <1>11, <2>1, <2>2, <2>3 DEF Finished
    <2> QED
      BY <1>9, <1>11, <2>1, <2>4
  <1> QED
    BY <1>14, <1>15, <1>16, <1>17, <1>18, <1>19 DEF Inner

\* The other steps: of a camera program, and of an endpoint being started.
LEMMA OtherStep ==
  ASSUME Inv, WantsOK, NEW t \in Threads, Inner(t), ~OnEndpoint(t),
         NEW o \in Objects, o = call[t].obj
  PROVE  /\ ~Taking(t, o)'
         /\ Top(t).op = "new" \/ obj' = obj
         /\ o # Entry
  <1> USE DEF Inv
  <1>1. /\ call'[t].obj = o /\ call'[t].wants = call[t].wants /\ Active(t)
    BY InnerCalls
  <1>2. CallOK(t) /\ Top(t).kind \in Kinds
    BY <1>1, TopFields DEF CallsOK, CallOK
  <1>3. CASE Top(t).op = "new"
    <2>1. ~Taking(t, o)'
      BY <1>1, <1>2, <1>3 DEF CallOK, Taking
    <2>2. t = "handler"
      BY <1>2, <1>3, TopFields DEF CallOK
    <2> QED
      BY <1>1, <1>3, <2>1, <2>2, NotNewborn DEF Newborn
  <1>4. CASE Top(t).op # "new"
    <2>1. Top(t).kind \in Cameras
      BY <1>1, <1>2, <1>4 DEF OnEndpoint, Kinds
    <2>2. Holds(o, Top(t).kind)
      BY <1>2, <1>4, <2>1 DEF CallOK, Asking, Dropping
    <2>3. o # Entry
      BY <2>1, <2>2 DEF EndpointsOK, Holds, ForEndpoint, Entry, Cameras, Objects
    <2>4. obj' = obj /\ (Asking(t)' \/ Dropping(t)')
      BY <1>2, <1>4, <2>1, AskingGoesOn, DroppingGoesOn DEF CallOK
    <2>5. ~Taking(t, o)'
      BY <2>4 DEF Asking, Dropping, Taking
    <2> QED
      BY <2>3, <2>4, <2>5
  <1> QED
    BY <1>3, <1>4

\* An object that is not being made keeps its process.
LEMMA InnerKeeps ==
  ASSUME Inv, WantsOK, CleanOK, Clean', NEW t \in Threads, Inner(t),
         NEW x \in Objects, ~Newborn(x)
  PROVE  obj'[x].proc = obj[x].proc /\ (obj'[x].reused => obj[x].reused)
  <1>1. call[t].obj \in Objects /\ Active(t) /\ CallOK(t)
    BY InnerCalls DEF Inv, CallsOK, CallOK
  <1>2. x # call[t].obj => obj'[x] = obj[x]
    BY <1>1, InnerObjects DEF Inv
  <1>3. CASE OnEndpoint(t)
    BY <1>1, <1>2, <1>3, EndpointStep
  <1>4. CASE ~OnEndpoint(t)
    <2>1. Top(t).op = "new" => t = "handler"
      BY <1>1, TopFields DEF CallOK, Inv
    <2> QED
      BY <1>1, <1>2, <1>4, <2>1, OtherStep DEF Newborn
  <1> QED
    BY <1>3, <1>4

\* A thread that replaces a listener is not disturbed by the other one.
LEMMA InnerBeside ==
  ASSUME Inv, WantsOK, CleanOK, Clean', NEW t \in Threads, Inner(t),
         NEW u \in Threads, u # t, NEW x, Taking(u, x)
  PROVE  /\ x \in Objects /\ obj'[x] = obj[x]
         /\ \A y : ~Taking(t, y)'
  <1>1. x \in Objects /\ x = call[u].obj /\ x = Entry
    BY TakingEndpoint DEF CleanOK, TakesOK
  <1>2. call[t].obj \in Objects /\ call'[t].obj = call[t].obj
    BY InnerCalls DEF Inv, CallsOK, CallOK
  <1>3. x # call[t].obj /\ ~Taking(t, call[t].obj)'
    BY <1>1, <1>2, EndpointStep, OtherStep
  <1>4. obj'[x] = obj[x]
    BY <1>1, <1>2, <1>3, InnerObjects DEF Inv
  <1> QED
    BY <1>1, <1>2, <1>3, <1>4 DEF Taking

LEMMA InnerOwner ==
  ASSUME Inv, OwnerInv, NEW t \in Threads, Inner(t)
  PROVE  OwnerInv'
  <1> USE DEF Inv
  <1>1. /\ UNCHANGED <<slot, todo, main, requests>>
        /\ \A u \in Threads : u # t => call'[u] = call[u]
        /\ call'[t].obj = call[t].obj /\ call'[t].wants = call[t].wants
        /\ Active(t) /\ Active(t)' /\ call[t].at \notin {"none", "done"}
    BY InnerCalls
  <1>2. \A u \in Threads : /\ Top(u)' = Top(u) /\ (Active(u)' <=> Active(u))
                           /\ call'[u].obj = call[u].obj /\ call'[u].wants = call[u].wants
                           /\ OnEndpoint(u)' <=> OnEndpoint(u)
    BY <1>1 DEF Top, Active, OnEndpoint
  <1>3. Entry' = Entry
    BY <1>1 DEF Entry
  <1>4. /\ call[t].obj \in Objects /\ CallOK(t) /\ WantsOK /\ ServingOK
        /\ \A u \in Threads : Active(u) => CallOK(u)
    BY <1>1 DEF CallsOK, CallOK, OwnerInv
  <1>5. WantsOK'
    BY <1>2, <1>4 DEF WantsOK
  <1>6. hist'.beside = hist.beside
    BY DEF Inner, Probe, Enter, SpawnRaises, Grace, Signal, Wait, Races, TypeOK
  <1>7. ServingOK'
    BY <1>1, <1>4, <1>6 DEF ServingOK
  <1> SUFFICES ASSUME Clean' PROVE CleanOK'
    BY <1>5, <1>7 DEF OwnerInv
  <1>8. CleanOK
    BY InnerClean DEF OwnerInv
  <1>9. Calm /\ \A x \in Objects : x # call[t].obj => obj'[x] = obj[x]
    BY <1>4, InnerObjects
  <1>10. /\ \A p \in Procs : (Alive(p)' => Alive(p)) /\ proc'[p].of = proc[p].of
         /\ \A x \in Objects : obj[x].proc \in Procs \cup {0}
    BY <1>9 DEF Calm, TypeOK, Object
  <1>11. \A x \in Objects : ~Newborn(x) =>
           /\ obj'[x].proc = obj[x].proc /\ (obj'[x].reused => obj[x].reused)
           /\ Finished(x) => Finished(x)'
           /\ Dead(x) => Dead(x)'
    <2> SUFFICES ASSUME NEW x \in Objects, ~Newborn(x)
                 PROVE  /\ obj'[x].proc = obj[x].proc /\ (obj'[x].reused => obj[x].reused)
                        /\ Finished(x) => Finished(x)'
                        /\ Dead(x) => Dead(x)'
      OBVIOUS
    <2>1. Top(t).op = "new" => t = "handler"
      BY <1>4, TopFields DEF CallOK
    <2>2. x # call[t].obj \/ Top(t).op # "new"
      BY <1>1, <2>1 DEF Newborn
    <2>3. obj'[x].proc = obj[x].proc /\ (obj'[x].reused => obj[x].reused)
      BY <1>4, <1>8, InnerKeeps
    <2>4. Finished(x) => Finished(x)'
      BY <1>4, <2>2, InnerFinished
    <2>5. Dead(x) => Dead(x)'
      BY <1>10, <2>3 DEF Dead, Alive
    <2> QED
      BY <2>3, <2>4, <2>5
  <1>12. Newborn(call["handler"].obj) /\ Active("main") => call["main"].obj # call["handler"].obj
    <2>1. Active("main") => Top("main").op # "new"
      BY <1>4, TopFields DEF CallOK, Threads
    <2> QED
      BY <2>1, NotNewborn DEF Newborn, Threads
  <1>13. Active("handler") /\ Top("handler").op = "new" /\ t = "main" =>
           /\ call["handler"].obj \in Objects /\ call'["handler"] = call["handler"]
           /\ obj'[call["handler"].obj] = obj[call["handler"].obj]
    BY <1>1, <1>4, <1>9, <1>12 DEF Newborn, Threads, CallOK
  <1>14. EachOwned'
    <2> SUFFICES ASSUME NEW p \in Procs, Alive(p)'
                 PROVE  (slot'[proc'[p].of] # 0 /\ obj'[slot'[proc'[p].of]].proc = p) \/ BeingMade(p)'
      BY DEF EachOwned
    <2>1. Alive(p) /\ proc'[p].of = proc[p].of /\ proc[p].of \in Kinds
      BY <1>10 DEF TypeOK, Process
    <2>2. CASE slot[proc[p].of] # 0 /\ obj[slot[proc[p].of]].proc = p
      <3>1. slot[proc[p].of] \in Objects
        BY <2>1, <2>2 DEF TypeOK
      <3>2. ~Newborn(slot[proc[p].of])
        <4> SUFFICES ASSUME Newborn(slot[proc[p].of]) PROVE FALSE
          OBVIOUS
        <4>1. CallOK("handler") /\ todo["handler"] # <<>>
          BY <1>4 DEF CallOK, Newborn, Threads
        <4>2. slot[proc[p].of] = requests /\ todo["handler"] \in Creating
          BY <4>1, TopFields DEF CallOK, Newborn, Threads
        <4> QED
          BY <2>1, <4>2 DEF Fresh
      <3> QED
        BY <1>1, <1>11, <2>1, <2>2, <3>1, <3>2
    <2>3. CASE BeingMade(p)
      <3>1. Active("handler") /\ Top("handler").op = "new" /\ "handler" \in Threads
        BY <2>3, PieceFields DEF BeingMade, Active, Threads
      <3>2. CASE t = "main"
        BY <1>2, <1>13, <2>1, <2>3, <3>1, <3>2 DEF BeingMade
      <3>3. CASE t = "handler"
        <4>1. call[t].at = "grace" /\ call[t].wants = "start"
          BY <1>1, <1>4, <2>3, <3>1, <3>3 DEF BeingMade, CallOK
        <4>2. call'[t].at = "done" /\ Grace(t)
          BY <4>1, InnerCalls DEF Inner, Probe, Enter, SpawnRaises, Signal, Wait
        <4>3. obj' = obj
          BY <4>1, <4>2 DEF Grace, StartRaises
        <4> QED
          BY <1>2, <2>1, <2>3, <3>1, <3>3, <4>2, <4>3 DEF BeingMade
      <3> QED
        BY <3>2, <3>3 DEF Threads
    <2> QED
      BY <1>8, <2>1, <2>2, <2>3 DEF CleanOK, EachOwned
  <1>15. ReusedOK'
    <2> SUFFICES ASSUME NEW x \in Objects, obj'[x].reused PROVE obj'[x].proc = 0
      BY DEF ReusedOK
    <2>1. obj[x].reused => obj[x].proc = 0
      BY <1>8 DEF CleanOK, ReusedOK
    <2>2. CASE ~Newborn(x)
      BY <1>11, <2>1, <2>2
    <2>3. CASE Newborn(x) /\ t = "main"
      BY <1>13, <2>1, <2>3 DEF Newborn
    <2>4. CASE Newborn(x) /\ t = "handler"
      <3>1. call[t].obj = x /\ call[t].wants = "start" /\ call[t].at \in {"enter", "spawn", "grace"}
        BY <1>1, <1>4, <2>4 DEF Newborn, CallOK
      <3>2. CASE Enter(t)
        BY <2>1, <3>1, <3>2, EnterForm
      <3>3. CASE ~Enter(t)
        <4>1. SpawnRaises(t) \/ Grace(t)
          BY <3>1, <3>3 DEF Inner, Probe, Signal, Wait
        <4>2. obj' = obj
          BY <3>1, <4>1 DEF SpawnRaises, Grace, StartRaises
        <4> QED
          BY <2>1, <4>2
      <3> QED
        BY <3>2, <3>3
    <2> QED
      BY <2>2, <2>3, <2>4 DEF Threads
  <1>16. TakesOK'
    <2> SUFFICES ASSUME NEW u \in Threads, NEW x, x = call[u].obj, Taking(u, x)'
                 PROVE  /\ Entry' = x /\ ~obj'[x].reused
                        /\ call'[u].at # "grace" => Dead(x)'
                        /\ call'[u].at = "grace" => call'[u].proc = obj'[x].proc
                        /\ call'[u].at = "enter" => ~Bound'
                        /\ \A y : ~Taking(Other(u), y)'
      BY <1>2 DEF TakesOK
    <2>1. CASE u # t
      <3>1. Taking(u, x) /\ call'[u] = call[u]
        BY <1>1, <2>1 DEF Taking
      <3>2. /\ Entry = x /\ ~obj[x].reused
            /\ call[u].at # "grace" => Dead(x)
            /\ call[u].at = "grace" => call[u].proc = obj[x].proc
            /\ call[u].at = "enter" => ~Bound
        BY <1>8, <3>1, TakingEndpoint DEF CleanOK, TakesOK
      <3>3. /\ x \in Objects /\ obj'[x] = obj[x]
            /\ \A y : ~Taking(t, y)'
        BY <1>4, <1>8, <2>1, <3>1, InnerBeside
      <3>4. Other(u) = t
        BY <2>1, OtherThread
      <3>5. Dead(x) => Dead(x)'
        BY <1>10, <3>3 DEF Dead, Alive
      <3> QED
        BY <1>3, <3>1, <3>2, <3>3, <3>4, <3>5, InnerBound
    <2>2. CASE u = t
      <3>1. OnEndpoint(t) /\ x \in Objects
        BY <1>4, <2>2, OtherStep
      <3>2. /\ Entry = x /\ ~obj'[x].reused /\ Dead(x) /\ obj'[x].proc = obj[x].proc
            /\ call'[t].at # "grace" /\ (call'[t].at = "enter" => ~Bound)
            /\ \A v \in Threads : v # t => ~Taking(v, call[v].obj)
        BY <1>4, <1>8, <2>2, <3>1, EndpointStep
      <3>3. Dead(x)'
        BY <1>10, <3>1, <3>2 DEF Dead, Alive
      <3>4. \A y : ~Taking(Other(t), y)'
        <4>1. Other(t) \in Threads /\ Other(t) # t
          BY OtherThread
        <4> QED
          BY <1>1, <3>2, <4>1 DEF Taking
      <3> QED
        BY <1>3, <2>2, <3>2, <3>3, <3>4, InnerBound
    <2> QED
      BY <2>1, <2>2
  <1>17. EndpointCallsOK'
    <2> SUFFICES ASSUME NEW u \in Threads, NEW x \in Objects, x = call[u].obj, OnEndpoint(u)
                 PROVE  /\ Entry' # x => Finished(x)'
                        /\ u = "handler" \/ main' # "serving" => Entry' \in {0, x}
                        /\ call'[u].at = "done" /\ (call'[u].alive => call'[u].wants = "quit") =>
                             Finished(x)'
                        /\ call'[u].at = "wait" => /\ ~obj'[x].reused /\ call'[u].proc = obj'[x].proc
                                                   /\ \A v \in Threads : ~Taking(v, x)'
      BY <1>2, <1>4 DEF EndpointCallsOK, CallEnds, OnEndpoint, CallOK
    <2>1. CallEnds(u) /\ ~Newborn(x)
      BY <1>8, NotNewborn DEF CleanOK, EndpointCallsOK, OnEndpoint
    <2>2. /\ Entry' # x => Finished(x)'
          /\ u = "handler" \/ main' # "serving" => Entry' \in {0, x}
      BY <1>1, <1>3, <1>11, <2>1 DEF CallEnds
    <2>3. CASE u # t
      <3>1. call'[u] = call[u]
        BY <1>1, <2>3
      <3>2. call'[u].at = "done" /\ (call'[u].alive => call'[u].wants = "quit") => Finished(x)'
        BY <1>11, <2>1, <3>1 DEF CallEnds
      <3>3. ASSUME call[u].at = "wait"
            PROVE  /\ ~obj'[x].reused /\ call'[u].proc = obj'[x].proc
                   /\ \A v \in Threads : ~Taking(v, x)'
        <4>1. /\ ~obj[x].reused /\ call[u].proc = obj[x].proc
              /\ \A v \in Threads : ~Taking(v, x)
          BY <2>1, <3>3 DEF CallEnds
        <4>2. ~obj'[x].reused /\ call'[u].proc = obj'[x].proc
          BY <1>11, <2>1, <3>1, <4>1
        <4>3. ~Taking(u, x)'
          BY <3>1, <3>3 DEF Taking
        <4>4. ~Taking(t, x)'
          <5>1. CASE call[t].obj # x
            BY <1>1, <5>1 DEF Taking
          <5>2. CASE call[t].obj = x /\ ~OnEndpoint(t)
            BY <1>4, <5>2, OtherStep
          <5>3. CASE call[t].obj = x /\ OnEndpoint(t)
            <6> SUFFICES ASSUME Taking(t, x)' PROVE FALSE
              OBVIOUS
            <6>1. call'[t].at \in {"enter", "spawn"} /\ call[t].wants # "start"
              BY <1>1, <1>4, <1>8, <5>3, EndpointStep DEF Taking
            <6>2. call[t].at \notin {"enter", "spawn", "grace"}
              BY <4>1, <5>3, <6>1 DEF Taking
            <6>3. Probe(t) \/ Signal(t) \/ Wait(t)
              BY <6>2 DEF Inner, Enter, SpawnRaises, Grace
            <6> QED
              BY <4>1, <5>3, <6>1, <6>3, ProbeForm, SignalForm, WaitForm
          <5> QED
            BY <5>1, <5>2, <5>3
        <4> QED
          BY <2>3, <4>2, <4>3, <4>4, OtherThread DEF Threads
      <3> QED
        BY <2>2, <3>1, <3>2, <3>3
    <2>4. CASE u = t
      <3>1. /\ obj'[x].proc = obj[x].proc /\ (obj'[x].reused => obj[x].reused)
            /\ \A v \in Threads : v # t => ~Taking(v, x)
            /\ call'[t].at = "done" /\ (call'[t].alive => call'[t].wants = "quit") => Finished(x)'
            /\ call'[t].at = "wait" => ~obj[x].reused /\ call'[t].proc = obj[x].proc
        BY <1>4, <1>8, <2>4, EndpointStep
      <3>2. call'[t].at = "wait" => \A v \in Threads : ~Taking(v, x)'
        BY <1>1, <3>1 DEF Taking
      <3> QED
        BY <2>2, <2>4, <3>1, <3>2
    <2> QED
      BY <2>3, <2>4
  <1>18. HeldOK'
    BY <1>1, <1>3, <1>8, <1>11, NotNewborn DEF CleanOK, HeldOK, HeldOnly
  <1>19. ForgettingOK'
    <2>1. EntryFinished => EntryFinished'
      BY <1>3, <1>11, NotNewborn DEF EntryFinished, Entry, TypeOK, Kinds
    <2> QED
      BY <1>1, <1>8, <2>1 DEF CleanOK, ForgettingOK
  <1>20. MakesOK'
    <2> SUFFICES ASSUME Active("handler"), Top("handler") = New("endpoint"),
                        NEW x, x = call["handler"].obj
                 PROVE  /\ Entry' = 0
                        /\ call'["handler"].at = "grace" => call'["handler"].proc = obj'[x].proc
                        /\ call'["handler"].at = "done" /\ ~call'["handler"].alive => Dead(x)'
      BY <1>2 DEF MakesOK, Threads
    <2>1. /\ Entry = 0
          /\ call["handler"].at = "grace" => call["handler"].proc = obj[x].proc
          /\ call["handler"].at = "done" /\ ~call["handler"].alive => Dead(x)
      BY <1>8 DEF CleanOK, MakesOK
    <2>2. Top("handler").op = "new" /\ Top("handler").kind = "endpoint" /\ CallOK("handler")
          /\ x \in Objects
      BY <1>4, PieceFields DEF Threads, CallOK
    <2>3. CASE t = "main"
      <3>1. call'["handler"] = call["handler"] /\ obj'[x] = obj[x]
        BY <1>13, <2>2, <2>3
      <3>2. Dead(x) => Dead(x)'
        BY <1>10, <2>2, <3>1 DEF Dead, Alive
      <3> QED
        BY <1>3, <2>1, <3>1, <3>2
    <2>4. CASE t = "handler"
      <3>1. /\ call[t].at \in {"enter", "spawn", "grace"} /\ call[t].wants = "start" /\ x = requests
            /\ call[t].obj = x
        BY <1>1, <2>2, <2>4 DEF CallOK
      <3>2. call'[t].at \in {"spawn", "done"}
        BY <3>1, InnerCalls
      <3>3. ASSUME call'[t].at = "done", ~call'[t].alive PROVE Dead(x)'
        <4>1. CASE Enter(t)
          BY <3>1, <3>3, <4>1, EnterForm
        <4>2. CASE SpawnRaises(t)
          <5>1. obj'[x] = obj[x]
            BY <3>1, <4>2 DEF SpawnRaises, StartRaises
          <5>2. Unborn
            BY <2>2, <2>4, <4>2, TopFields DEF Unborn, SpawnRaises, CallOK
          <5> QED
            BY <3>1, <5>1, <5>2 DEF Fresh, NoObject, Dead, Alive
        <4>3. CASE Grace(t)
          <5>1. ~Alive(call[t].proc) /\ obj' = obj
            BY <3>1, <3>3, <4>3, InnerForms DEF Grace, Started, StartRaises
          <5>2. Dead(x)
            BY <2>1, <2>4, <4>3, <5>1 DEF Dead, Grace
          <5> QED
            BY <1>10, <2>2, <5>1, <5>2 DEF Dead, Alive
        <4>4. Enter(t) \/ SpawnRaises(t) \/ Grace(t)
          BY <3>1 DEF Inner, Probe, Signal, Wait
        <4> QED
          BY <4>1, <4>2, <4>3, <4>4
      <3> QED
        BY <1>3, <2>1, <2>4, <3>2, <3>3
    <2> QED
      BY <2>3, <2>4 DEF Threads
  <1>21. DropsOK'
    BY <1>1, <1>2, <1>8 DEF CleanOK, DropsOK, Threads
  <1> QED
    BY <1>14, <1>15, <1>16, <1>17, <1>18, <1>19, <1>20, <1>21 DEF CleanOK

LEMMA SpawnOwner ==
  ASSUME Inv, OwnerInv, NEW t \in Threads, Spawn(t)
  PROVE  OwnerInv'
  <1> USE DEF Inv
  <1> PICK o : o = call[t].obj
    OBVIOUS
  <1>1. PICK p \in Procs :
          /\ ~Alive(p) /\ \A x \in Objects : obj[x].proc # p
          /\ \A q \in Procs : q # p => proc'[q] = proc[q]
          /\ proc'[p].of = Top(t).kind /\ proc'[p].leader = "on"
          /\ \A x \in Objects : x # o => obj'[x] = obj[x]
          /\ obj'[o].proc = p /\ obj'[o].reused = obj[o].reused
          /\ call'[t].at = "grace" /\ call'[t].proc = p /\ call'[t].obj = o
          /\ call'[t].wants = call[t].wants /\ call'[t].alive = call[t].alive
          /\ \A u \in Threads : u # t => call'[u] = call[u]
          /\ UNCHANGED <<other, slot, todo, main, requests, hist>>
          /\ Active(t) /\ o \in Objects /\ todo[t] # <<>> /\ CallOK(t)
    BY SpawnFields
  <1>2. \A u \in Threads : /\ Top(u)' = Top(u) /\ (Active(u)' <=> Active(u))
                           /\ call'[u].obj = call[u].obj /\ call'[u].wants = call[u].wants
                           /\ OnEndpoint(u)' <=> OnEndpoint(u)
    BY <1>1 DEF Top, Active, OnEndpoint
  <1>3. Entry' = Entry
    BY <1>1 DEF Entry
  <1>4. WantsOK /\ ServingOK /\ \A u \in Threads : Active(u) => CallOK(u)
    BY DEF CallsOK, OwnerInv
  <1>5. WantsOK' /\ ServingOK'
    BY <1>1, <1>2, <1>4 DEF WantsOK, ServingOK
  <1> SUFFICES ASSUME Clean' PROVE CleanOK'
    BY <1>5 DEF OwnerInv
  <1>6. CleanOK
    BY <1>1 DEF OwnerInv, Clean
  <1>7. call[t].at = "spawn" /\ (Bound' => Bound)
    <2>1. proc' = proc \/ \E q, k : proc' = [proc EXCEPT ![q] = [of |-> k, leader |-> "on", listens |-> FALSE]]
      BY DEF Spawn
    <2>2. \A q \in Procs : proc'[q].listens => proc[q].listens
      BY <2>1 DEF TypeOK
    <2> QED
      BY <1>1, <2>2 DEF Spawn, Bound
  <1>8. \A x \in Objects : obj[x].proc \in Procs \cup {0} /\ obj[x].proc # p
    BY <1>1 DEF TypeOK, Object
  <1>9. \A x \in Objects : x # o /\ Dead(x) => Dead(x)'
    BY <1>1, <1>8 DEF Dead, Alive
\* The thread replaces a vanished listener, or starts what it is to make.
  <1>10. \/ Taking(t, o) /\ OnEndpoint(t)
         \/ /\ t = "handler" /\ Top(t) = New(Top(t).kind) /\ Newborn(o)
            /\ obj[o] = NoObject /\ call[t].wants = "start"
    <2>1. CASE Top(t).op # "new"
      <3>1. Taking(t, o)
        BY <1>1, <1>4, <1>7, <2>1 DEF WantsOK, Wants, Taking
      <3> QED
        BY <3>1, TakingEndpoint
    <2>2. CASE Top(t).op = "new"
      <3>1. t = "handler" /\ todo[t] \in Creating
        BY <1>1, <2>2, TopFields
      <3>2. Top(t) = New(Top(t).kind)
        BY <2>2, <3>1, Pieces, PieceFields DEF Top, Creating
      <3>3. Unborn /\ o = requests /\ call[t].wants = "start"
        BY <1>1, <1>7, <2>2, <3>1 DEF Unborn, CallOK
      <3> QED
        BY <1>1, <2>2, <3>1, <3>2, <3>3 DEF Fresh, Newborn
    <2> QED
      BY <2>1, <2>2
  <1>11. Taking(t, o) => /\ Entry = o /\ ~obj[o].reused /\ Dead(o)
                         /\ ~Taking(Other(t), call[Other(t)].obj)
    BY <1>1, <1>6, <1>7 DEF CleanOK, TakesOK
  <1>12. \A x \in Objects : Finished(x) /\ ~Newborn(x) => Finished(x)'
    <2>1. \A x \in Objects : ~Newborn(x) => x # call[t].obj \/ Top(t).op # "new"
      BY <1>1, TopFields DEF Newborn
    <2> QED
      BY <1>4, <2>1, SpawnFinished
  <1>13. Taking(t, o) => Top(t).kind = "endpoint" /\ Entry = slot[proc'[p].of]
    BY <1>1, TakingEndpoint DEF OnEndpoint, Entry
  <1>14. \A k \in Kinds : Newborn(o) => slot[k] # o
    <2> SUFFICES ASSUME Newborn(o) PROVE o = requests /\ todo["handler"] \in Creating
      BY DEF Fresh
    <2>1. CallOK("handler") /\ todo["handler"] # <<>>
      BY <1>4 DEF Newborn, CallOK, Threads
    <2> QED
      BY <2>1, TopFields DEF Newborn, CallOK, Threads
  <1>15. Newborn(o) /\ t = "handler" => /\ o = call["handler"].obj
                                        /\ Active("main") => call["main"].obj # o
    BY <1>1, <1>4, NotNewborn, TopFields DEF Newborn, CallOK, Threads
  <1>16. EachOwned'
    <2> SUFFICES ASSUME NEW q \in Procs, Alive(q)'
                 PROVE  (slot'[proc'[q].of] # 0 /\ obj'[slot'[proc'[q].of]].proc = q) \/ BeingMade(q)'
      BY DEF EachOwned
    <2>1. CASE q = p /\ Taking(t, o)
      BY <1>1, <1>11, <1>13, <2>1 DEF Objects
    <2>2. CASE q = p /\ ~Taking(t, o)
      BY <1>1, <1>2, <1>10, <2>2 DEF BeingMade
    <2>3. CASE q # p
      <3>1. Alive(q) /\ proc'[q] = proc[q] /\ proc[q].of \in Kinds
        BY <1>1, <2>3 DEF Alive, TypeOK, Process
      <3>2. CASE slot[proc[q].of] # 0 /\ obj[slot[proc[q].of]].proc = q
        <4>1. slot[proc[q].of] \in Objects
          BY <3>1, <3>2 DEF TypeOK
        <4>2. slot[proc[q].of] # o
          BY <1>10, <1>11, <1>14, <3>1, <3>2 DEF Dead
        <4> QED
          BY <1>1, <3>1, <3>2, <4>1, <4>2
      <3>3. CASE BeingMade(q)
        <4>1. /\ Active("handler") /\ Top("handler").op = "new" /\ t = "main"
              /\ call["handler"].obj \in Objects
          BY <1>4, <1>7, <3>3, PieceFields DEF BeingMade, Active, Threads, CallOK
        <4>2. call["handler"].obj # o
          BY <1>1, <1>10, <4>1, NotNewborn DEF Newborn, OnEndpoint
        <4> QED
          BY <1>1, <1>2, <3>1, <3>3, <4>1, <4>2 DEF BeingMade, Threads
      <3> QED
        BY <1>6, <3>1, <3>2, <3>3 DEF CleanOK, EachOwned
    <2> QED
      BY <2>1, <2>2, <2>3
  <1>17. ReusedOK'
    BY <1>1, <1>6, <1>10, <1>11 DEF CleanOK, ReusedOK, NoObject
  <1>18. TakesOK'
    <2> SUFFICES ASSUME NEW u \in Threads, NEW x, x = call[u].obj, Taking(u, x)'
                 PROVE  /\ Entry' = x /\ ~obj'[x].reused
                        /\ call'[u].at # "grace" => Dead(x)'
                        /\ call'[u].at = "grace" => call'[u].proc = obj'[x].proc
                        /\ call'[u].at = "enter" => ~Bound'
                        /\ \A y : ~Taking(Other(u), y)'
      BY <1>2 DEF TakesOK
    <2>1. Other(u) \in Threads /\ Other(u) # u
      BY OtherThread
    <2>2. CASE u = t
      <3>1. Taking(t, o)
        BY <1>1, <1>7, <2>2 DEF Taking
      <3> QED
        BY <1>1, <1>3, <1>11, <2>1, <2>2, <3>1 DEF Taking
    <2>3. CASE u # t
      <3>1. Taking(u, x) /\ call'[u] = call[u] /\ Other(u) = t
        BY <1>1, <2>3, OtherThread DEF Taking
      <3>2. /\ Entry = x /\ ~obj[x].reused
            /\ call[u].at # "grace" => Dead(x)
            /\ call[u].at = "grace" => call[u].proc = obj[x].proc
            /\ call[u].at = "enter" => ~Bound
            /\ ~Taking(t, o) /\ x \in Objects
        BY <1>1, <1>6, <3>1, TakingEndpoint DEF CleanOK, TakesOK
      <3>3. x # o
        BY <1>10, <3>2, NotNewborn
      <3>4. \A y : ~Taking(t, y)'
        BY <1>1, <1>10, <3>2 DEF Taking
      <3> QED
        BY <1>1, <1>3, <1>7, <1>9, <3>1, <3>2, <3>3, <3>4
    <2> QED
      BY <2>2, <2>3
  <1>19. EndpointCallsOK'
    <2> SUFFICES ASSUME NEW u \in Threads, NEW x \in Objects, x = call[u].obj, OnEndpoint(u)
                 PROVE  /\ Entry' # x => Finished(x)'
                        /\ u = "handler" \/ main' # "serving" => Entry' \in {0, x}
                        /\ call'[u].at = "done" /\ (call'[u].alive => call'[u].wants = "quit") =>
                             Finished(x)'
                        /\ call'[u].at = "wait" => /\ ~obj'[x].reused /\ call'[u].proc = obj'[x].proc
                                                   /\ \A v \in Threads : ~Taking(v, x)'
      BY <1>2, <1>4 DEF EndpointCallsOK, CallEnds, OnEndpoint, CallOK
    <2>1. CallEnds(u) /\ ~Newborn(x)
      BY <1>6, NotNewborn DEF CleanOK, EndpointCallsOK, OnEndpoint
    <2>2. /\ Entry' # x => Finished(x)'
          /\ u = "handler" \/ main' # "serving" => Entry' \in {0, x}
      BY <1>1, <1>3, <1>12, <2>1 DEF CallEnds
    <2>3. u # t => call'[u] = call[u]
      BY <1>1
    <2>4. call'[u].at = "done" /\ (call'[u].alive => call'[u].wants = "quit") => Finished(x)'
      BY <1>1, <1>12, <2>1, <2>3 DEF CallEnds
    <2>5. ASSUME call'[u].at = "wait"
          PROVE  /\ ~obj'[x].reused /\ call'[u].proc = obj'[x].proc
                 /\ \A v \in Threads : ~Taking(v, x)'
      <3>1. /\ ~obj[x].reused /\ call[u].proc = obj[x].proc
            /\ \A v \in Threads : ~Taking(v, x)
        BY <1>1, <2>1, <2>3, <2>5 DEF CallEnds
      <3>2. x # o
        BY <1>10, <2>1, <3>1
      <3> QED
        BY <1>1, <2>3, <2>5, <3>1, <3>2 DEF Taking
    <2> QED
      BY <2>2, <2>4, <2>5
  <1>20. HeldOK'
    BY <1>1, <1>3, <1>6, <1>12, NotNewborn DEF CleanOK, HeldOK, HeldOnly
  <1>21. ForgettingOK'
    <2>1. EntryFinished => EntryFinished'
      BY <1>3, <1>12, NotNewborn DEF EntryFinished, Entry, TypeOK, Kinds
    <2> QED
      BY <1>1, <1>6, <2>1 DEF CleanOK, ForgettingOK
  <1>22. MakesOK'
    <2> SUFFICES ASSUME Active("handler"), Top("handler") = New("endpoint"),
                        NEW x, x = call["handler"].obj
                 PROVE  /\ Entry' = 0
                        /\ call'["handler"].at = "grace" => call'["handler"].proc = obj'[x].proc
                        /\ call'["handler"].at = "done" /\ ~call'["handler"].alive => Dead(x)'
      BY <1>2 DEF MakesOK, Threads
    <2>1. /\ Entry = 0
          /\ call["handler"].at = "grace" => call["handler"].proc = obj[x].proc
          /\ call["handler"].at = "done" /\ ~call["handler"].alive => Dead(x)
      BY <1>6 DEF CleanOK, MakesOK
    <2>2. CASE t = "main"
      <3>1. x \in Objects /\ Newborn(x)
        BY <1>4, PieceFields DEF CallOK, Newborn, Threads
      <3>2. x # o
        BY <1>1, <1>10, <2>2, <3>1, NotNewborn DEF OnEndpoint
      <3> QED
        BY <1>1, <1>3, <1>9, <2>1, <2>2, <3>1, <3>2 DEF Threads
    <2>3. CASE t = "handler"
      BY <1>1, <1>3, <2>1, <2>3
    <2> QED
      BY <2>2, <2>3 DEF Threads
  <1>23. DropsOK'
    BY <1>1, <1>2, <1>6 DEF CleanOK, DropsOK, Threads
  <1> QED
    BY <1>16, <1>17, <1>18, <1>19, <1>20, <1>21, <1>22, <1>23 DEF CleanOK
------------------------------------------------------------------------------
(* The steps that begin a call or new work, and those of the processes.     *)

LEMMA BeginOwner ==
  ASSUME Inv, OwnerInv, NEW t \in Threads, Begin(t)
  PROVE  OwnerInv'
  <1> USE DEF Inv
  <1> PICK o : o = (IF Top(t).op = "new" THEN requests ELSE Subject(t))
    OBVIOUS
  <1>1. /\ o \in Objects /\ o <= requests /\ todo[t] # <<>> /\ ~Active(t)
        /\ UNCHANGED <<other, proc, obj, slot, todo, main, requests, hist>>
        /\ call'[t].obj = o /\ call'[t].wants = Wants(Top(t)) /\ call'[t].proc = 0
        /\ call'[t].at = (CASE Top(t).op = "new" -> "enter" [] Top(t).op = "drop" -> "signal"
                            [] OTHER -> "probe")
        /\ \A u \in Threads : u # t => call'[u] = call[u]
        /\ Top(t).obj = 0 => o = (IF Top(t).op = "new" THEN requests ELSE slot[Top(t).kind])
        /\ Top(t).kind \in Cameras \/ t = "main" => Top(t).obj = 0
        /\ Top(t).obj # 0 => o = Top(t).obj /\ Top(t).op # "new"
    BY BeginObject DEF Subject
  <1>2. \A u \in Threads : Top(u)' = Top(u) /\ (u # t => (Active(u)' <=> Active(u)))
    BY <1>1 DEF Top, Active
  <1>3. Entry' = Entry /\ (Bound' <=> Bound) /\ \A x : Dead(x)' <=> Dead(x)
    BY <1>1 DEF Entry, Bound, Dead, Alive
  <1>4. WantsOK'
    BY <1>1, <1>2 DEF WantsOK, OwnerInv
  <1>5. ServingOK'
    BY <1>1 DEF ServingOK, OwnerInv
  <1> SUFFICES ASSUME Clean' PROVE CleanOK'
    BY <1>4, <1>5 DEF OwnerInv
  <1>6. CleanOK
    BY <1>1 DEF OwnerInv, Clean
  <1>7. \A x \in Objects : Finished(x) => Finished(x)'
    BY BeginFinished
  <1>8. \A x : ~Taking(t, x)'
    BY <1>1 DEF Taking, Wants
  <1>9. EachOwned'
    <2>1. \A p : BeingMade(p) => BeingMade(p)'
      BY <1>1, <1>2 DEF BeingMade, Active, Threads
    <2> QED
      BY <1>1, <1>6, <2>1 DEF CleanOK, EachOwned, Alive
  <1>10. ReusedOK'
    BY <1>1, <1>6 DEF CleanOK, ReusedOK
  <1>11. TakesOK'
    <2> SUFFICES ASSUME NEW u \in Threads, Taking(u, call[u].obj)', u # t
                 PROVE  /\ Entry = call[u].obj /\ ~obj[call[u].obj].reused
                        /\ call[u].at # "grace" => Dead(call[u].obj)
                        /\ call[u].at = "grace" => call[u].proc = obj[call[u].obj].proc
                        /\ call[u].at = "enter" => ~Bound
                        /\ \A y : ~Taking(Other(u), y)'
      BY <1>1, <1>3, <1>8 DEF TakesOK, Taking, Dead, Alive
    <2>1. Taking(u, call[u].obj)
      BY <1>1 DEF Taking
    <2>2. Other(u) = t
      BY OtherThread DEF Threads
    <2> QED
      BY <1>6, <1>8, <2>1, <2>2 DEF CleanOK, TakesOK
  <1>12. EndpointCallsOK'
    <2> SUFFICES ASSUME NEW u \in Threads, OnEndpoint(u)' PROVE CallEnds(u)'
      BY DEF EndpointCallsOK
    <2>1. CASE u # t
      <3>1. OnEndpoint(u) /\ call'[u] = call[u] /\ call[u].obj \in Objects
        BY <1>1, <1>2, <2>1 DEF OnEndpoint, Active, CallsOK, CallOK
      <3>2. CallEnds(u) /\ \A v \in Threads : \A x : Taking(v, x)' => Taking(v, x)
        BY <1>1, <1>6, <1>8, <3>1 DEF CleanOK, EndpointCallsOK, Taking
      <3> QED
        BY <1>1, <1>3, <1>7, <3>1, <3>2 DEF CallEnds
    <2>2. CASE u = t
      <3>1. Top(t).kind = "endpoint" /\ Top(t).op # "new" /\ call'[t].at \notin {"done", "wait"}
        BY <1>1, <1>2, <2>2 DEF OnEndpoint
      <3>2. Entry \in {0, o} /\ (Entry # o => Finished(o))
        <4>1. CASE Top(t).obj = 0
          BY <1>1, <3>1, <4>1 DEF Entry
        <4>2. CASE Top(t).obj # 0
          <5>1. t = "handler"
            BY <1>1, <4>2 DEF Threads
          <5>2. 1 \in DOMAIN todo[t] /\ todo[t][1] = Top(t)
            <6>1. ASSUME NEW T, todo[t] \in Seq(T)
                  PROVE  1 \in DOMAIN todo[t] /\ todo[t][1] = Top(t)
              BY <1>1, <6>1 DEF Top
            <6>2. CASE todo[t] \in Creating \cup {RuntimeOff, TestOff}
              BY <4>2, <6>2, Pieces, PieceFields DEF Top, Creating
            <6> QED
              BY <5>1, <6>1, <6>2 DEF WorkOK
          <5> QED
            BY <1>1, <1>6, <4>2, <5>1, <5>2 DEF CleanOK, HeldOK, HeldOnly
        <4> QED
          BY <4>1, <4>2
      <3> QED
        BY <1>1, <1>3, <1>7, <2>2, <3>1, <3>2 DEF CallEnds
    <2> QED
      BY <2>1, <2>2
  <1>13. HeldOK'
    BY <1>1, <1>3, <1>6, <1>7 DEF CleanOK, HeldOK, HeldOnly
  <1>14. ForgettingOK'
    <2>1. EntryFinished => EntryFinished'
      BY <1>3, <1>7 DEF EntryFinished, Entry, TypeOK, Kinds
    <2> QED
      BY <1>1, <1>6, <2>1 DEF CleanOK, ForgettingOK
  <1>15. MakesOK'
    <2>1. CASE t = "main"
      BY <1>1, <1>2, <1>3, <1>6, <2>1 DEF CleanOK, MakesOK, Threads, Dead, Alive
    <2>2. CASE t = "handler"
      <3>1. Top(t) = New("endpoint") => Entry = 0
        BY DEF Begin, Entry
      <3>2. Top(t) = New("endpoint") => call'[t].at = "enter"
        BY <1>1, PieceFields
      <3> QED
        BY <1>2, <1>3, <2>2, <3>1, <3>2 DEF MakesOK, Threads
    <2> QED
      BY <2>1, <2>2 DEF Threads
  <1>16. DropsOK'
    <2>1. CASE t = "handler"
      BY <1>1, <1>2, <1>6, <2>1 DEF CleanOK, DropsOK, Threads
    <2>2. CASE t = "main"
      <3>1. Top(t).op # "new"
        BY <1>1, <2>2, TopFields
      <3> QED
        BY <1>1, <1>2, <2>2, <3>1 DEF DropsOK
    <2> QED
      BY <2>1, <2>2 DEF Threads
  <1> QED
    BY <1>9, <1>10, <1>11, <1>12, <1>13, <1>14, <1>15, <1>16 DEF CleanOK

LEMMA OutsideOwner ==
  ASSUME Inv, OwnerInv, Outside
  PROVE  OwnerInv'
  <1> USE DEF Inv
  <1>1. /\ UNCHANGED <<obj, slot, todo, call, main, requests>> /\ Calm
        /\ hist'.raced = hist.raced /\ hist'.dropped = hist.dropped
        /\ hist'.beside = hist.beside
    BY OutsideCalm
  <1>2. /\ \A u \in Threads : Top(u)' = Top(u) /\ (Active(u)' <=> Active(u))
        /\ \A u \in Threads : \A x : Taking(u, x)' <=> Taking(u, x)
        /\ Entry' = Entry
    BY <1>1 DEF Top, Active, Taking, Entry
  <1>3. /\ \A p \in Procs : (Alive(p)' => Alive(p)) /\ proc'[p].of = proc[p].of
        /\ \A x \in Objects : obj[x].proc \in Procs \cup {0}
    BY <1>1 DEF Calm, TypeOK, Object
  <1>4. WantsOK' /\ ServingOK'
    BY <1>1, <1>2 DEF WantsOK, ServingOK, OwnerInv
  <1> SUFFICES ASSUME Clean' PROVE CleanOK'
    BY <1>4 DEF OwnerInv
  <1>5. CleanOK
    BY <1>1 DEF OwnerInv, Clean
  <1>6. \A x \in Objects : (Finished(x) => Finished(x)') /\ (Dead(x) => Dead(x)')
    BY <1>1, <1>3, OutsideFinished DEF Dead, Alive
  <1>7. EachOwned'
    <2>1. \A p \in Procs : BeingMade(p) => BeingMade(p)'
      BY <1>1, <1>2, <1>3 DEF BeingMade, Threads
    <2> QED
      BY <1>1, <1>3, <1>5, <2>1 DEF CleanOK, EachOwned
  <1>8. ReusedOK'
    BY <1>1, <1>5 DEF CleanOK, ReusedOK
\* The port is not bound while a thread is about to replace its listener: who
\* could come to listen would be the entry's process, or one being started.
  <1>9. ASSUME NEW u \in Threads, NEW x, Taking(u, x), call[u].at = "enter", Bound'
        PROVE  FALSE
    <2>1. x \in Objects /\ Entry = x /\ Dead(x) /\ ~Bound
      BY <1>5, <1>9, TakingEndpoint DEF CleanOK, TakesOK
    <2>2. PICK p \in Procs : Listen(p)
      <3>1. CASE OtherCloses
        BY <1>9, <2>1, <3>1 DEF OtherCloses, Bound
      <3>2. ASSUME NEW p \in Procs, End(p) \/ MemberEnds(p) PROVE FALSE
        <4>1. other' = other /\ \A q \in Procs : proc'[q].listens => proc[q].listens
          BY <3>2 DEF End, MemberEnds, TypeOK, Process
        <4> QED
          BY <1>9, <2>1, <4>1 DEF Bound
      <3> QED
        BY <3>1, <3>2 DEF Outside
    <2>3. Alive(p) /\ proc[p].of = "endpoint"
      BY <2>2 DEF Listen, Alive, Procs
    <2>4. BeingMade(p)
      BY <1>5, <2>1, <2>3 DEF CleanOK, EachOwned, Entry, Dead
    <2>5. Active("handler") /\ Top("handler") = New("endpoint")
      BY <2>3, <2>4 DEF BeingMade, Active
    <2> QED
      BY <1>5, <2>1, <2>5 DEF CleanOK, MakesOK, Objects
  <1>10. TakesOK'
    <2> SUFFICES ASSUME NEW u \in Threads, NEW x, x = call[u].obj, Taking(u, x)
                 PROVE  /\ Entry' = x /\ ~obj'[x].reused
                        /\ call'[u].at # "grace" => Dead(x)'
                        /\ call'[u].at = "grace" => call'[u].proc = obj'[x].proc
                        /\ call'[u].at = "enter" => ~Bound'
                        /\ ~Taking(Other(u), call[Other(u)].obj)
      BY <1>1, <1>2 DEF TakesOK, Taking
    <2>1. x \in Objects
      BY TakingEndpoint
    <2> QED
      BY <1>1, <1>2, <1>5, <1>6, <1>9, <2>1 DEF CleanOK, TakesOK
  <1>11. EndpointCallsOK'
    <2> SUFFICES ASSUME NEW u \in Threads, OnEndpoint(u) PROVE CallEnds(u)'
      BY <1>1, <1>2 DEF EndpointCallsOK, OnEndpoint
    <2>1. CallEnds(u) /\ call[u].obj \in Objects
      BY <1>5 DEF CleanOK, EndpointCallsOK, OnEndpoint, CallsOK, CallOK
    <2> QED
      BY <1>1, <1>2, <1>6, <2>1 DEF CallEnds
  <1>12. HeldOK'
    BY <1>1, <1>2, <1>5, <1>6 DEF CleanOK, HeldOK, HeldOnly
  <1>13. ForgettingOK'
    <2>1. EntryFinished => EntryFinished'
      BY <1>2, <1>6 DEF EntryFinished, Entry, TypeOK, Kinds
    <2> QED
      BY <1>1, <1>5, <2>1 DEF CleanOK, ForgettingOK
  <1>14. MakesOK'
    BY <1>1, <1>2, <1>5, <1>6 DEF CleanOK, MakesOK, CallsOK, CallOK, Threads
  <1>15. DropsOK'
    BY <1>1, <1>2, <1>5 DEF CleanOK, DropsOK, Threads
  <1> QED
    BY <1>7, <1>8, <1>10, <1>11, <1>12, <1>13, <1>14, <1>15 DEF CleanOK

\* Work to begin with holds nothing, and drops no entry before it has ended it.
LEMMA BegunSteps ==
  /\ \A request \in Requests : \A i \in DOMAIN Script(request) :
       Script(request)[i].obj = 0 /\ Script(request)[i].op \notin {"forget", "clear"}
  /\ \A i \in DOMAIN <<Reap>> : <<Reap>>[i] = Reap
  <1>1. ASSUME NEW request \in Requests, Script(request) \in Seq(Plain)
        PROVE  \A i \in DOMAIN Script(request) :
                 Script(request)[i].obj = 0 /\ Script(request)[i].op \notin {"forget", "clear"}
    <2>1. request = "endpoint off"
      <3>1. request \in {"endpoint on", "endpoint off", "reliability on", "reliability off",
                         "test on", "test off", "save"}
        BY RequestsAssumption DEF RequestsAssumption
      <3>2. request # "endpoint off" =>
              Script(request) \in {EndpointOn, RuntimeOn, RuntimeOff, TestOn, TestOff, Save}
        BY <3>1 DEF Script, EndpointOn, RuntimeOn, RuntimeOff, TestOn, TestOff, Save, RuntimeNew,
           Restart
      <3>3. {EndpointOn, RuntimeOn, RuntimeOff, TestOn, TestOff, Save}
              \subseteq Creating \cup {RuntimeOff, TestOff}
        BY DEF Creating
      <3> QED
        BY <1>1, <3>2, <3>3, PlainSteps
    <2>2. Script(request) = <<Reap, Step("stop", "endpoint")>>
      BY <2>1 DEF Script
    <2>3. \A i \in DOMAIN Script(request) : Script(request)[i] \in {Reap, Step("stop", "endpoint")}
      BY <2>2
    <2> QED
      BY <2>3, StepFields, PieceFields
  <1>2. ASSUME NEW request \in Requests, Script(request) \notin Seq(Plain)
        PROVE  Script(request) \in Creating \cup {RuntimeOff, TestOff}
    BY <1>2, Scripts DEF Creating
  <1> QED
    BY <1>1, <1>2, PieceSteps

\* The shutdown tries to end the endpoint before it clears the table.
LEMMA ShutdownGuarded == Guarded(Shutdown) /\ Guarded(AfterRuntime) /\ Guarded(ShutdownAll)
  <1> DEFINE All == Ending \cup {Drop("test"), Drop("reliability")}
  <1>1. ASSUME NEW a \in All, a.op = "drop", NEW s \in Seq(All), Guarded(s)
        PROVE  Guarded(<<a>> \o s)
    <2>1. ASSUME NEW i \in DOMAIN (<<a>> \o s), (<<a>> \o s)[i].op \in {"forget", "clear"}
          PROVE  \E j \in DOMAIN (<<a>> \o s) : j < i /\ (<<a>> \o s)[j].op = "quit"
      <3>1. i # 1 /\ i - 1 \in DOMAIN s /\ (<<a>> \o s)[i] = s[i - 1]
        BY <1>1, <2>1
      <3>2. PICK j \in DOMAIN s : j < i - 1 /\ s[j].op = "quit"
        BY <1>1, <2>1, <3>1 DEF Guarded
      <3>3. j + 1 \in DOMAIN (<<a>> \o s) /\ (<<a>> \o s)[j + 1] = s[j] /\ j + 1 < i
        BY <2>1, <3>2
      <3> QED
        BY <3>2, <3>3
    <2> QED
      BY <2>1 DEF Guarded
  <1>2. Guarded(ShutdownAll)
    <2>1. /\ DOMAIN ShutdownAll = 1..7 /\ ShutdownAll[3] = Quit("endpoint")
          /\ ShutdownAll[1] = Ask("endpoint", <<Quit("endpoint")>>, <<>>)
          /\ ShutdownAll[2] = Look("endpoint")
      BY DEF ShutdownAll
    <2>2. Quit("endpoint").op = "quit" /\ Look("endpoint").op = "ask"
      BY StepFields DEF Quit, Look
    <2>3. \A i \in 1..7 : i = 1 \/ i = 2 \/ i = 3 \/ 3 < i
      OBVIOUS
    <2>4. ASSUME NEW i \in 1..7, ShutdownAll[i].op \in {"forget", "clear"} PROVE 3 < i
      BY <2>1, <2>2, <2>3, <2>4, PieceFields
    <2>5. 3 \in 1..7
      OBVIOUS
    <2> QED
      BY <2>1, <2>2, <2>4, <2>5 DEF Guarded
  <1>3. /\ Drop("test") \in All /\ Drop("test").op = "drop"
        /\ Drop("reliability") \in All /\ Drop("reliability").op = "drop"
    BY PieceFields
  <1>4. ShutdownAll \in Seq(All) /\ AfterRuntime \in Seq(All)
    <2>1. ShutdownAll \in Seq(All)
      BY Leaving
    <2>2. <<Drop("test")>> \in Seq(All)
      BY <1>3
    <2> HIDE DEF All
    <2> QED
      BY <2>1, <2>2 DEF AfterRuntime
  <1> HIDE DEF All
  <1>5. Guarded(AfterRuntime)
    BY <1>1, <1>2, <1>3, <1>4 DEF AfterRuntime
  <1> QED
    BY <1>1, <1>2, <1>3, <1>4, <1>5 DEF Shutdown

LEMMA BegunOwner ==
  ASSUME Inv, OwnerInv,
         (\E request \in Requests : Accept(request)) \/ Status \/ Watch \/ LeaveUi
  PROVE  OwnerInv'
  <1> USE DEF Inv
  <1>1. UNCHANGED <<proc, obj, slot, call, other>> /\ main = "serving"
    BY DEF Accept, Status, Watch, LeaveUi, env
  <1>2. todo = [u \in Threads |-> todo[u]]
    BY DEF WorkOK
  <1>3. PICK t \in Threads :
          /\ todo[t] = <<>> /\ \A u \in Threads : u # t => todo'[u] = todo[u]
          /\ t = "main" =>
               \/ /\ todo'[t] = <<Reap>> /\ main' = main /\ hist' = hist
               \/ /\ todo'[t] = Shutdown /\ main' = "leaving"
                  /\ hist'.beside = (todo["handler"] # <<>>)
          /\ t = "handler" =>
               /\ main' = main /\ hist'.beside = hist.beside
               /\ todo'[t] = <<Reap>> \/ \E request \in Requests : todo'[t] = Script(request)
          /\ hist'.raced = hist.raced /\ hist'.dropped = hist.dropped
    <2>1. CASE (\E request \in Requests : Accept(request)) \/ Status
      <3>1. "handler" \in Threads
        BY DEF Threads
      <3> WITNESS "handler" \in Threads
      <3> QED
        BY <1>2, <2>1 DEF Accept, Status, Threads, TypeOK
    <2>2. CASE Watch \/ LeaveUi
      <3>1. "main" \in Threads
        BY DEF Threads
      <3> WITNESS "main" \in Threads
      <3> QED
        BY <1>2, <2>2 DEF Watch, LeaveUi, Threads, TypeOK
    <2> QED
      BY <2>1, <2>2
  <1>4. \A u \in Threads : Active(u) => u # t /\ CallOK(u)
    BY <1>3 DEF CallsOK, CallOK
  <1>5. \A u \in Threads : /\ Active(u)' <=> Active(u)
                           /\ u # t => Top(u)' = Top(u)
    BY <1>1, <1>3 DEF Active, Top
  <1>6. WantsOK'
    BY <1>1, <1>4, <1>5 DEF WantsOK, OwnerInv
  <1>7. ~hist.beside /\ \A i \in DOMAIN todo["main"] : todo["main"][i].op = "reap"
    BY <1>1 DEF OwnerInv, ServingOK
  <1>8. ServingOK'
    <2>1. CASE t = "handler"
      BY <1>1, <1>3, <1>7, <2>1 DEF ServingOK, Threads
    <2>2. CASE t = "main" /\ todo'[t] = <<Reap>> /\ main' = main /\ hist' = hist
      BY <1>1, <1>7, <2>2, BegunSteps, PieceFields DEF ServingOK
    <2>3. CASE t = "main" /\ main' = "leaving" /\ hist'.beside = (todo["handler"] # <<>>)
      BY <1>3, <2>3 DEF ServingOK, Threads
    <2> QED
      BY <1>3, <2>1, <2>2, <2>3 DEF Threads
  <1> SUFFICES ASSUME Clean' PROVE CleanOK'
    BY <1>6, <1>8 DEF OwnerInv
  <1>9. CleanOK
    BY <1>3, <1>7 DEF OwnerInv, Clean
  <1>10. /\ \A p : Alive(p)' <=> Alive(p)
         /\ Entry' = Entry /\ (Bound' <=> Bound)
         /\ \A u, x : Taking(u, x)' <=> Taking(u, x)
    BY <1>1 DEF Entry, Alive, Bound, Taking
  <1>11. \A x : (Dead(x)' <=> Dead(x)) /\ (Finished(x)' <=> Finished(x))
    BY <1>1, <1>10 DEF Dead, Finished
  <1>12. EachOwned'
    <2>1. \A p : BeingMade(p) => BeingMade(p)'
      BY <1>1, <1>4, <1>5 DEF BeingMade, Active, Threads
    <2> QED
      BY <1>1, <1>9, <1>10, <2>1 DEF CleanOK, EachOwned
  <1>13. ReusedOK' /\ TakesOK'
    BY <1>1, <1>9, <1>10, <1>11 DEF CleanOK, ReusedOK, TakesOK, Taking
  <1>14. EndpointCallsOK'
    <2> SUFFICES ASSUME NEW u \in Threads, OnEndpoint(u)' PROVE CallEnds(u)'
      BY DEF EndpointCallsOK
    <2>1. OnEndpoint(u) /\ u # t
      BY <1>4, <1>5 DEF OnEndpoint
    <2>2. CallEnds(u)
      BY <1>9, <2>1 DEF CleanOK, EndpointCallsOK
    <2>3. u = "handler" \/ (main' # "serving" => main # "serving")
      BY <1>3, <2>1 DEF Threads
    <2> QED
      BY <1>1, <1>10, <1>11, <2>2, <2>3 DEF CallEnds
  <1>15. HeldOK'
    <2> SUFFICES ASSUME NEW i \in DOMAIN todo'["handler"], todo'["handler"][i].obj \in Objects
                 PROVE  t = "main"
      BY <1>3, <1>9, <1>10, <1>11 DEF CleanOK, HeldOK, HeldOnly, Threads
    <2>1. t = "handler" => todo'["handler"][i].obj = 0
      BY <1>3, BegunSteps, PieceFields
    <2> QED
      BY <2>1 DEF Objects, Threads
  <1>16. ForgettingOK'
    <2>1. EntryFinished' <=> EntryFinished
      BY <1>10, <1>11 DEF EntryFinished
    <2>2. Guarded(todo'[t])
      BY <1>3, BegunSteps, ShutdownGuarded, PieceFields DEF Guarded, Threads
    <2> QED
      BY <1>3, <1>9, <2>1, <2>2 DEF CleanOK, ForgettingOK, Guarded
  <1>17. MakesOK' /\ DropsOK'
    BY <1>1, <1>4, <1>5, <1>9, <1>10, <1>11 DEF CleanOK, MakesOK, DropsOK, Threads, Dead
  <1> QED
    BY <1>12, <1>13, <1>14, <1>15, <1>16, <1>17 DEF CleanOK
------------------------------------------------------------------------------
(* The steps that go on with the work.                                      *)

\* What the step leaves of the work is guarded if the work was, and no attempt
\* to end the entry is what is taken from it.
LEMMA GuardedJoin ==
  ASSUME NEW T, NEW a \in Seq(T), NEW w \in Seq(T), w # <<>>, Guarded(a), Guarded(w),
         Head(w).op # "quit"
  PROVE  Guarded(a \o Tail(w))
  <1> DEFINE v == a \o Tail(w)
  <1>1. /\ Len(v) = Len(a) + Len(w) - 1 /\ DOMAIN v = 1..Len(v) /\ Len(a) \in Nat /\ Len(w) \in Nat
        /\ DOMAIN a = 1..Len(a) /\ DOMAIN w = 1..Len(w)
        /\ \A i \in 1..Len(a) : i \in DOMAIN v /\ v[i] = a[i]
        /\ \A i \in 2..Len(w) : i + Len(a) - 1 \in DOMAIN v /\ v[i + Len(a) - 1] = w[i]
        /\ Head(w) = w[1]
    OBVIOUS
  <1> HIDE DEF v
  <1>2. ASSUME NEW i \in DOMAIN v, v[i].op \in {"forget", "clear"}
        PROVE  \E j \in DOMAIN v : j < i /\ v[j].op = "quit"
    <2>1. CASE i <= Len(a)
      <3>1. i \in DOMAIN a /\ a[i] = v[i]
        BY <1>1, <2>1
      <3>2. PICK j \in DOMAIN a : j < i /\ a[j].op = "quit"
        BY <1>2, <3>1 DEF Guarded
      <3> QED
        BY <1>1, <3>2
    <2>2. CASE i > Len(a)
      <3> DEFINE k == i + 1 - Len(a)
      <3>1. k \in 2..Len(w) /\ i = k + Len(a) - 1
        BY <1>1, <2>2
      <3> HIDE DEF k
      <3>2. w[k] = v[i] /\ k \in DOMAIN w
        BY <1>1, <3>1
      <3>3. PICK j \in DOMAIN w : j < k /\ w[j].op = "quit"
        BY <1>2, <3>2 DEF Guarded
      <3>4. j \in 2..Len(w)
        BY <1>1, <3>3
      <3>5. j + Len(a) - 1 < i
        BY <1>1, <3>1, <3>3, <3>4
      <3> QED
        BY <1>1, <3>3, <3>4, <3>5
    <2> QED
      BY <1>1, <2>1, <2>2
  <1> QED
    BY <1>2 DEF Guarded, v

\* Such a step comes to no listener, and hides nothing of the history.
LEMMA BackHistory ==
  ASSUME Inv, NEW t \in Threads, Back(t)
  PROVE  /\ Bound' => Bound
         /\ hist'.beside = hist.beside
         /\ Clean' => Clean
  <1> USE DEF Inv
  <1>1. other' = other
    BY DEF Back, Asked, HasQuit, Reaped, Dropped, Created, Skip, Stop, Forget, Collect, env
  <1>2. \A p \in Procs : proc'[p] = proc[p] \/ proc'[p] = NoProcess
    BY Collected
  <1>3. /\ hist'.beside = hist.beside /\ (hist.raced => hist'.raced)
        /\ hist.dropped => hist'.dropped
    BY DEF Back, Asked, HasQuit, Reaped, Dropped, Created, Skip, Stop, Forget, Races, TypeOK
  <1> QED
    BY <1>1, <1>2, <1>3 DEF Bound, Clean, NoProcess

\* Which of the endpoint's entries the step leaves.
Registers(t) ==
  /\ t = "handler" /\ Active(t) /\ Top(t) = New("endpoint") /\ todo'[t] = <<>>
  /\ Entry = 0 /\ main = "serving"

LEMMA BackServing ==
  ASSUME Inv, ServingOK, ~hist.beside, NEW t \in Threads, Back(t)
  PROVE  /\ t = "handler" => main = "serving"
         /\ main = "serving" => main' = main
         /\ main = "serving" /\ t = "main" => Top(t).op = "reap"
  <1> USE DEF Inv
  <1>1. todo[t] # <<>> /\ (main' = main \/ Top(t).op = "clear")
    BY BackForm, BackState
  <1>2. t = "handler" => main = "serving"
    BY <1>1 DEF ServingOK
  <1>3. main = "serving" /\ t = "main" => Top(t).op = "reap"
    <2> SUFFICES ASSUME main = "serving", t = "main" PROVE Top(t).op = "reap"
      OBVIOUS
    <2>1. todo[t] \in Seq(Ending)
      BY DEF WorkOK
    <2> QED
      BY <1>1, <2>1 DEF ServingOK, Top
  <1>4. t = "handler" => Top(t).op # "clear"
    <2>1. CASE todo["handler"] \in Seq(Plain)
      <3> SUFFICES ASSUME t = "handler" PROVE Top(t).op # "clear"
        OBVIOUS
      <3>1. Top(t) \in Plain
        BY <1>1, <2>1 DEF Top
      <3> QED
        BY <3>1 DEF Plain
    <2>2. CASE todo["handler"] \notin Seq(Plain)
      BY <2>2, BackPiece DEF WorkOK
    <2> QED
      BY <2>1, <2>2
  <1> QED
    BY <1>1, <1>2, <1>3, <1>4 DEF Threads

LEMMA EntryBack ==
  ASSUME Inv, OwnerInv, Clean', NEW t \in Threads, Back(t)
  PROVE  \/ Entry' = Entry
         \/ Entry' = 0 /\ EntryFinished
         \/ Registers(t)
  <1> USE DEF Inv
  <1>1. Clean /\ CleanOK /\ WantsOK /\ ServingOK
    BY BackHistory DEF OwnerInv
  <1>2. todo[t] # <<>> /\ Top(t).kind \in Kinds
        /\ (Top(t).op # "new" /\ Top(t).op # "drop" => Top(t).kind = "endpoint" \/ Top(t).op = "ask")
    BY BackForm, TopFields
  <1>3. slot \in [Kinds -> Objects \cup {0}] /\ "endpoint" \in Kinds /\ "endpoint" \notin Cameras
    BY DEF TypeOK, Kinds, Cameras
  <1>4. CASE Asked(t) \/ HasQuit(t) \/ Skip(t) \/ Stop(t)
    BY <1>4 DEF Asked, HasQuit, Skip, Stop, Entry
  <1>5. CASE Reaped(t)
    <2>1. CASE call[t].alive
      BY <1>5, <2>1 DEF Reaped, Entry
    <2>2. CASE ~call[t].alive
      <3>1. /\ slot' = [slot EXCEPT !["endpoint"] = 0]
            /\ hist' = [hist EXCEPT !.raced = @ \/ Taking(Other(t), call[t].obj),
                                    !.dropped = @ \/ slot["endpoint"] \notin {call[t].obj, 0}]
            /\ call[t].at = "done" /\ Top(t).op = "reap"
        BY <1>5, <2>2 DEF Reaped, Return
      <3>2. Entry \in {0, call[t].obj}
        BY <3>1 DEF Clean, Entry, TypeOK
      <3>3. OnEndpoint(t)
        BY <1>2, <3>1 DEF OnEndpoint, Active
      <3>4. Finished(call[t].obj)
        BY <1>1, <2>2, <3>1, <3>3 DEF CleanOK, EndpointCallsOK, CallEnds
      <3> QED
        BY <1>3, <3>1, <3>2, <3>4 DEF Entry, EntryFinished
    <2> QED
      BY <2>1, <2>2
  <1>6. CASE Dropped(t)
    <2>1. Top(t).op = "drop" /\ slot' = [slot EXCEPT ![Top(t).kind] = 0]
      BY <1>6 DEF Dropped, Return
    <2>2. Top(t).kind # "endpoint"
      <3>1. CASE todo[t] \in Seq(Plain) \/ todo[t] \in Seq(Ending)
        <4>1. Top(t) \in Plain \/ Top(t) \in Ending
          BY <1>2, <3>1 DEF Top
        <4> QED
          BY <2>1, <4>1 DEF Plain, Ending
      <3>2. CASE t = "handler" /\ todo[t] \notin Seq(Plain)
        BY <2>1, <3>2, Pieces, PieceFields DEF WorkOK, Creating, Top
      <3>3. CASE t = "main" /\ todo[t] \notin Seq(Ending)
        BY <3>3, Leaving, PieceFields DEF WorkOK, Top
      <3> QED
        BY <3>1, <3>2, <3>3 DEF Threads
    <2> QED
      BY <1>2, <1>3, <2>1, <2>2 DEF Entry
  <1>7. CASE Created(t)
    <2>1. /\ Top(t).op = "new" /\ call[t].at = "done"
          /\ IF call[t].alive
               THEN Then(t, <<>>) /\ slot' = [slot EXCEPT ![Top(t).kind] = call[t].obj]
               ELSE /\ todo' = [todo EXCEPT ![t] = <<>>]
                    /\ slot' = IF Top(t).kind \in Cameras THEN [slot EXCEPT ![Top(t).kind] = 0] ELSE slot
      BY <1>7 DEF Created, Return
    <2>2. CASE Top(t).kind # "endpoint" \/ ~call[t].alive
      BY <1>2, <1>3, <2>1, <2>2 DEF Entry
    <2>3. CASE Top(t).kind = "endpoint" /\ call[t].alive
      <3>1. t = "handler" /\ todo[t] \in Creating /\ Tail(todo[t]) = <<>>
        BY <1>2, <2>1, TopFields
      <3>2. Top(t) = New("endpoint")
        BY <2>1, <2>3, <3>1, Pieces, PieceFields DEF Top, Creating
      <3>3. todo'[t] = <<>>
        <4>1. todo = [u \in Threads |-> todo[u]] /\ <<>> \o <<>> = <<>>
          BY DEF WorkOK
        <4> QED
          BY <2>1, <2>3, <3>1, <4>1 DEF Then
      <3>4. Active(t) /\ Entry = 0
        BY <1>1, <2>1, <3>1, <3>2 DEF Active, CleanOK, MakesOK
      <3>5. main = "serving"
        BY <1>1, <3>1, BackServing DEF Clean
      <3> QED
        BY <3>1, <3>2, <3>3, <3>4, <3>5 DEF Registers
    <2> QED
      BY <2>2, <2>3
  <1>8. CASE Forget(t)
    <2>1. slot' = [slot EXCEPT !["endpoint"] = 0] /\ Top(t).op \in {"forget", "clear"}
      BY <1>8 DEF Forget, Doing
    <2>2. ~Guarded(todo[t])
      <3>1. 1 \in DOMAIN todo[t] /\ todo[t][1] = Top(t) /\ \A j \in DOMAIN todo[t] : ~(j < 1)
        <4>1. ASSUME NEW T, todo[t] \in Seq(T)
              PROVE  1 \in DOMAIN todo[t] /\ todo[t][1] = Top(t) /\ \A j \in DOMAIN todo[t] : ~(j < 1)
          BY <1>2, <4>1 DEF Top
        <4>2. CASE t = "handler" /\ todo[t] \notin Seq(Plain)
          BY <2>1, <4>2, BackPiece DEF WorkOK
        <4>3. CASE t = "main" /\ todo[t] \notin Seq(Ending)
          BY <2>1, <4>3, Leaving, PieceFields DEF WorkOK, Top
        <4> QED
          BY <4>1, <4>2, <4>3 DEF Threads
      <3> QED
        BY <2>1, <3>1 DEF Guarded
    <2>3. EntryFinished
      BY <1>1, <2>2 DEF CleanOK, ForgettingOK
    <2> QED
      BY <1>3, <2>1, <2>3 DEF Entry
  <1> QED
    BY <1>4, <1>5, <1>6, <1>7, <1>8 DEF Back

LEMMA BackOwner ==
  ASSUME Inv, OwnerInv, NEW t \in Threads, Back(t)
  PROVE  OwnerInv'
  <1> USE DEF Inv
  <1>1. todo[t] # <<>> /\ \A u \in Threads : u # t => todo'[u] = todo[u]
    BY BackForm
  <1>2. /\ requests' = requests /\ \A u \in Threads : u # t => call'[u] = call[u]
        /\ ~Active(t)' /\ call'[t].at = "none"
        /\ slot' \in [Kinds -> Objects \cup {0}]
    BY BackState
  <1>3. \A k \in Cameras :
          \/ slot'[k] = slot[k]
          \/ /\ k = Top(t).kind /\ call[t].at = "done" /\ Active(t)
             /\ \/ Top(t).op = "drop" /\ slot'[k] = 0
                \/ Top(t).op = "new" /\ call[t].alive /\ slot'[k] = call[t].obj
                \/ Top(t).op = "new" /\ ~call[t].alive /\ slot'[k] = 0
    BY BackState DEF Cameras, Kinds
  <1>4. /\ \A x \in Objects : obj'[x] = obj[x] \/ obj'[x] = NoObject
        /\ \A x \in Objects : (\E k \in Kinds : slot'[k] = x) \/ Refers(Other(t), x) => obj'[x] = obj[x]
        /\ \A p \in Procs : proc'[p] = proc[p] \/ (proc'[p] = NoProcess /\ ~Alive(p))
        /\ \A p \in Procs : Alive(p)' <=> Alive(p)
    BY Collected
  <1>5. \A u \in Threads : u # t => /\ Top(u)' = Top(u) /\ (Active(u)' <=> Active(u))
                                    /\ OnEndpoint(u)' <=> OnEndpoint(u)
    BY <1>1, <1>2 DEF Top, Active, OnEndpoint
  <1>6. \A u \in Threads : u # t => Other(t) = u /\ Other(u) = t
    BY OtherThread
  <1>7. \A u \in Threads : Active(u) => CallOK(u) /\ call[u].obj \in Objects
    BY DEF CallsOK, CallOK
  <1>8. WantsOK'
    BY <1>2, <1>5 DEF WantsOK, OwnerInv
  <1>9. hist'.beside = hist.beside /\ (Clean' => Clean) /\ (Bound' => Bound)
    BY BackHistory
  <1>10. ServingOK'
    <2>1. CASE hist.beside
      <3>1. main # "serving"
        BY <2>1 DEF OwnerInv, ServingOK
      <3>2. main' # "serving"
        BY <3>1, BackState
      <3> QED
        BY <1>9, <2>1, <3>2 DEF ServingOK
    <2>2. CASE ~hist.beside
      <3>1. /\ t = "handler" => main = "serving"
            /\ main = "serving" => main' = main
            /\ main = "serving" /\ t = "main" => Top(t).op = "reap"
        BY <2>2, BackServing DEF OwnerInv
      <3>2. CASE main = "serving"
        <4>1. CASE t = "handler"
          BY <1>1, <1>9, <2>2, <3>1, <3>2, <4>1 DEF OwnerInv, ServingOK, Threads
        <4>2. CASE t = "main"
          <5>1. todo'[t] = <<>> \o Tail(todo[t]) /\ todo[t] \in Seq(Ending)
            BY <3>1, <3>2, <4>2, BackForm DEF WorkOK
          <5>2. \A i \in DOMAIN todo'[t] : i + 1 \in DOMAIN todo[t] /\ todo'[t][i] = todo[t][i + 1]
            BY <1>1, <5>1
          <5> QED
            BY <1>9, <2>2, <3>1, <3>2, <4>2, <5>2 DEF OwnerInv, ServingOK
        <4> QED
          BY <4>1, <4>2 DEF Threads
      <3>3. CASE main # "serving"
        <4>1. t = "main" /\ main' # "serving"
          BY <3>1, <3>3, BackState DEF Threads
        <4> QED
          BY <1>1, <1>9, <2>2, <3>3, <4>1 DEF OwnerInv, ServingOK, Threads
      <3> QED
        BY <3>2, <3>3
    <2> QED
      BY <2>1, <2>2
  <1> SUFFICES ASSUME Clean' PROVE CleanOK'
    BY <1>8, <1>10 DEF OwnerInv
  <1>11. Clean /\ CleanOK /\ ServingOK /\ WantsOK
    BY <1>9 DEF OwnerInv
  <1>12. /\ t = "handler" => main = "serving"
         /\ main = "serving" => main' = main
         /\ main = "serving" /\ t = "main" => Top(t).op = "reap"
    BY <1>11, BackServing DEF Clean
  <1>13. \/ Entry' = Entry
         \/ Entry' = 0 /\ EntryFinished
         \/ Registers(t)
    BY EntryBack
  <1>14. \A x \in Objects : Finished(x) => Finished(x)'
    BY BackFinished
  <1>15. \A x : ~Taking(t, x)'
    BY <1>2 DEF Taking
  <1>16. \A u \in Threads : \A x : Taking(u, x)' => Taking(u, x) /\ u # t
    BY <1>2, <1>15 DEF Taking
  <1>17. \A x \in Objects : obj'[x] = obj[x] /\ Dead(x) => Dead(x)'
    BY <1>4 DEF Dead, Alive, TypeOK, Object
  <1>18. \A u \in Threads : u # t /\ Active(u) => obj'[call[u].obj] = obj[call[u].obj]
    BY <1>4, <1>6, <1>7 DEF Refers, Active
  <1>19. "endpoint" \in Kinds /\ Entry \in Objects \cup {0}
    BY DEF Kinds, TypeOK, Entry
  <1>20. EachOwned'
    <2> SUFFICES ASSUME NEW p \in Procs, Alive(p)'
                 PROVE  (slot'[proc'[p].of] # 0 /\ obj'[slot'[proc'[p].of]].proc = p) \/ BeingMade(p)'
      BY DEF EachOwned
    <2> PICK k : k = proc[p].of
      OBVIOUS
    <2>1. Alive(p) /\ proc'[p] = proc[p] /\ k \in Kinds
      BY <1>4 DEF TypeOK, Process
    <2>2. (slot[k] # 0 /\ obj[slot[k]].proc = p) \/ BeingMade(p)
      BY <1>11, <2>1 DEF CleanOK, EachOwned
    <2>3. CASE slot[k] # 0 /\ obj[slot[k]].proc = p
      <3>1. slot[k] \in Objects /\ ~Dead(slot[k])
        BY <2>1, <2>3 DEF TypeOK, Dead
      <3>2. CASE slot'[k] = slot[k]
        <4>1. obj'[slot[k]] = obj[slot[k]]
          BY <1>4, <2>1, <3>1, <3>2
        <4> QED
          BY <2>1, <2>3, <3>2, <4>1
      <3>3. CASE slot'[k] # slot[k] /\ k = "endpoint"
        BY <1>13, <2>3, <3>1, <3>3 DEF Entry, EntryFinished, Finished, Registers
      <3>4. CASE slot'[k] # slot[k] /\ k \in Cameras
        <4>1. /\ k = Top(t).kind /\ call[t].at = "done" /\ Active(t)
              /\ \/ Top(t).op = "drop" /\ slot'[k] = 0
                 \/ Top(t).op = "new" /\ call[t].alive /\ slot'[k] = call[t].obj
                 \/ Top(t).op = "new" /\ ~call[t].alive /\ slot'[k] = 0
          BY <1>3, <3>4
        <4>2. CASE Top(t).op = "drop"
          <5>1. Dead(call[t].obj)
            BY <1>7, <3>4, <4>1, <4>2 DEF CallOK, Dropping
          <5>2. slot[k] \in {0, call[t].obj}
            BY <1>11, <3>4, <4>1, <4>2 DEF EntriesOK, CleanOK, DropsOK, Threads
          <5> QED
            BY <2>3, <3>1, <5>1, <5>2
        <4>3. CASE Top(t).op = "new"
          <5>1. t = "handler"
            BY <1>1, <4>3, TopFields
          <5>2. todo["handler"] \in {RuntimeNew, TestNew}
            BY <1>1, <3>4, <4>1, <4>3, <5>1, CameraPiece
          <5>3. obj[call[t].obj].proc = p
            BY <2>1, <3>4, <4>1, <5>1, <5>2 DEF Cleared
          <5>4. call[t].alive
            BY <1>7, <2>1, <3>4, <4>1, <4>3, <5>3 DEF CallOK, Making, Dead
          <5>5. slot'[k] = call[t].obj /\ call[t].obj \in Objects
            BY <1>7, <4>1, <4>3, <5>4
          <5>6. obj'[call[t].obj] = obj[call[t].obj]
            BY <1>4, <2>1, <5>5
          <5> QED
            BY <2>1, <5>3, <5>5, <5>6 DEF Objects
        <4> QED
          BY <4>1, <4>2, <4>3
      <3> QED
        BY <2>1, <3>2, <3>3, <3>4 DEF Kinds
    <2>4. CASE BeingMade(p)
      <3>1. /\ Active("handler") /\ Top("handler") = New(k) /\ call["handler"].obj \in Objects
            /\ Top("handler").op = "new" /\ Top("handler").kind = k
            /\ call["handler"].at \in {"grace", "done"} /\ obj[call["handler"].obj].proc = p
        BY <1>7, <2>4, PieceFields DEF BeingMade, Active, Threads
      <3>2. CASE t = "main"
        BY <1>2, <1>5, <1>18, <2>1, <2>4, <3>1, <3>2 DEF BeingMade, Threads
      <3>3. CASE t = "handler"
        <4>1. Created(t)
          BY <3>1, <3>3 DEF Back, Asked, HasQuit, Reaped, Dropped, Skip, Stop, Forget, Return, Doing
        <4>2. call[t].at = "done"
          BY <4>1 DEF Created, Return
        <4>3. call[t].alive
          <5>1. CASE k = "endpoint"
            BY <1>11, <2>1, <3>1, <3>3, <4>2, <5>1 DEF CleanOK, MakesOK, Dead
          <5>2. CASE k \in Cameras
            BY <1>7, <2>1, <3>1, <3>3, <4>2, <5>2, PieceFields DEF CallOK, Making, Dead, Threads
          <5> QED
            BY <2>1, <5>1, <5>2 DEF Kinds
        <4>4. slot' = [slot EXCEPT ![k] = call[t].obj]
          BY <3>1, <3>3, <4>1, <4>3 DEF Created
        <4>5. slot'[k] = call[t].obj
          BY <2>1, <4>4 DEF TypeOK
        <4>6. obj'[call[t].obj] = obj[call[t].obj]
          BY <1>4, <2>1, <3>1, <3>3, <4>5
        <4> QED
          BY <2>1, <3>1, <3>3, <4>5, <4>6 DEF Objects
      <3> QED
        BY <3>2, <3>3 DEF Threads
    <2> QED
      BY <2>2, <2>3, <2>4
  <1>21. ReusedOK'
    BY <1>4, <1>11 DEF CleanOK, ReusedOK, NoObject
  <1>22. TakesOK'
    <2> SUFFICES ASSUME NEW u \in Threads, NEW x, x = call'[u].obj, Taking(u, x)'
                 PROVE  /\ Entry' = x /\ ~obj'[x].reused
                        /\ call'[u].at # "grace" => Dead(x)'
                        /\ call'[u].at = "grace" => call'[u].proc = obj'[x].proc
                        /\ call'[u].at = "enter" => ~Bound'
                        /\ \A y : ~Taking(Other(u), y)'
      BY DEF TakesOK
    <2>1. Taking(u, x) /\ u # t /\ call'[u] = call[u] /\ Other(u) = t
      BY <1>2, <1>6, <1>16
    <2>2. /\ x \in Objects /\ Entry = x /\ ~obj[x].reused
          /\ call[u].at # "grace" => Dead(x)
          /\ call[u].at = "grace" => call[u].proc = obj[x].proc
          /\ call[u].at = "enter" => ~Bound
      BY <1>11, <2>1, TakingEndpoint DEF CleanOK, TakesOK
    <2>3. Entry' = x
      BY <1>13, <2>1, <2>2 DEF EntryFinished, Finished, Registers, Objects
    <2>4. obj'[x] = obj[x]
      BY <1>4, <1>19, <2>2, <2>3 DEF Entry
    <2> QED
      BY <1>9, <1>15, <1>17, <2>1, <2>2, <2>3, <2>4
  <1>23. EndpointCallsOK'
    <2> SUFFICES ASSUME NEW u \in Threads, OnEndpoint(u)', NEW x, x = call'[u].obj
                 PROVE  /\ Entry' # x => Finished(x)'
                        /\ u = "handler" \/ main' # "serving" => Entry' \in {0, x}
                        /\ call'[u].at = "done" /\ (call'[u].alive => call'[u].wants = "quit") =>
                             Finished(x)'
                        /\ call'[u].at = "wait" => /\ ~obj'[x].reused /\ call'[u].proc = obj'[x].proc
                                                   /\ \A v \in Threads : ~Taking(v, x)'
      BY DEF EndpointCallsOK, CallEnds
    <2>1. u # t /\ OnEndpoint(u) /\ call'[u] = call[u] /\ x = call[u].obj /\ x \in Objects
      BY <1>2, <1>5, <1>7 DEF OnEndpoint
    <2>2. CallEnds(u)
      BY <1>11, <2>1 DEF CleanOK, EndpointCallsOK
    <2>3. obj'[x] = obj[x]
      BY <1>18, <2>1 DEF OnEndpoint
    <2>4. Entry' # x => Finished(x)
      BY <1>13, <2>1, <2>2 DEF CallEnds, EntryFinished, Registers, Objects
    <2>5. u = "handler" \/ main' # "serving" => Entry' \in {0, x}
      BY <1>12, <1>13, <2>1, <2>2 DEF CallEnds, Registers
    <2> QED
      BY <1>14, <1>16, <2>1, <2>2, <2>3, <2>4, <2>5 DEF CallEnds
  <1>24. ASSUME ~Registers(t), NEW x \in Objects, HeldOnly(x) PROVE HeldOnly(x)'
    BY <1>13, <1>14, <1>19, <1>24 DEF HeldOnly, EntryFinished, Objects
  <1>25. HeldOK'
    <2> SUFFICES ASSUME NEW i \in DOMAIN todo'["handler"], NEW x \in Objects,
                        todo'["handler"][i].obj = x
                 PROVE  HeldOnly(x)'
      BY DEF HeldOK
    <2>1. CASE t = "main"
      <3>1. HeldOnly(x) /\ ~Registers(t)
        BY <1>1, <1>11, <2>1 DEF CleanOK, HeldOK, Registers, Threads
      <3> QED
        BY <1>24, <3>1
    <2>2. CASE t = "handler" /\ todo["handler"] \in Seq(Plain)
      <3> DEFINE S == {0} \cup {y \in Objects : HeldOnly(y)}
      <3>1. slot["endpoint"] \in (Objects \cap S) \cup {0}
        BY <1>19 DEF Entry, HeldOnly, Objects
      <3>2. \A j \in DOMAIN todo["handler"] : todo["handler"][j].obj \in S
        BY <1>11, <2>2, PlainSteps DEF CleanOK, HeldOK, Plain
      <3>3. 0 \in S
        OBVIOUS
      <3> HIDE DEF S
      <3>4. todo'["handler"] \in Seq(PlainOf(S))
        BY <2>2, <3>1, <3>2, <3>3, BackPlain
      <3>5. x \in S
        BY <3>4 DEF PlainOf
      <3>6. HeldOnly(x)
        BY <3>5 DEF S, Objects
      <3>7. ~Registers(t)
        <4>1. Top("handler") \in Plain
          BY <1>1, <2>2 DEF Top
        <4> QED
          BY <4>1, PieceFields DEF Registers, Plain
      <3> QED
        BY <1>24, <3>6, <3>7
    <2>3. CASE t = "handler" /\ todo["handler"] \notin Seq(Plain)
      <3>1. \/ todo'["handler"] = <<>>
            \/ todo'["handler"] \in Creating
        BY <2>3, BackPiece DEF WorkOK, Creating
      <3> QED
        BY <3>1, PieceSteps DEF Objects
    <2> QED
      BY <2>1, <2>2, <2>3 DEF Threads
  <1>26. ForgettingOK'
    <2>1. CASE Registers(t)
      <3>1. Guarded(todo'["handler"])
        BY <2>1 DEF Registers, Guarded
      <3>2. Guarded(todo'["main"])
        <4>1. todo'["main"] = todo["main"]
          BY <1>1, <2>1 DEF Registers, Threads
        <4> QED
          BY <1>11, <2>1, <4>1 DEF Registers, ServingOK, Guarded
      <3> QED
        BY <3>1, <3>2 DEF ForgettingOK, Threads
    <2>2. CASE ~Registers(t)
      <3>1. EntryFinished => EntryFinished'
        BY <1>13, <1>14, <1>19, <2>2 DEF EntryFinished
      <3> SUFFICES ASSUME ~EntryFinished, ~EntryFinished'
                   PROVE  \A u \in Threads : Guarded(todo'[u])
        BY <3>1 DEF ForgettingOK
      <3>2. \A u \in Threads : Guarded(todo[u])
        BY <1>11 DEF CleanOK, ForgettingOK
      <3>3. Top(t).op # "quit" \/ (t = "main" /\ main = "serving")
        <4> SUFFICES ASSUME Top(t).op = "quit", t = "handler" \/ main # "serving" PROVE FALSE
          BY DEF Threads
        <4>1. Top(t).kind = "endpoint"
          BY <1>1, TopFields
        <4>2. CASE HasQuit(t)
          <5>1. Active(t) /\ call[t].at = "done" /\ OnEndpoint(t) /\ call[t].wants = "quit"
            BY <1>11, <4>1, <4>2 DEF HasQuit, Return, Active, OnEndpoint, WantsOK, Wants
          <5>2. Finished(call[t].obj) /\ Entry \in {0, call[t].obj}
            BY <1>11, <5>1 DEF CleanOK, EndpointCallsOK, CallEnds
          <5> QED
            BY <5>2 DEF EntryFinished
        <4>3. CASE Skip(t)
          BY <4>1, <4>3 DEF Skip, Doing, Subject, Entry, EntryFinished
        <4> QED
          BY <4>2, <4>3 DEF Back, Asked, Reaped, Dropped, Created, Stop, Forget, Return, Doing
      <3>4. CASE t = "handler" /\ todo[t] \in Seq(Plain)
        <4>1. Top(t) \in Plain
          BY <1>1, <3>4 DEF Top
        <4>2. \E a \in Seq(Plain) : Guarded(a) /\ todo'[t] = a \o Tail(todo[t])
          <5>1. <<>> \in Seq(Plain) /\ Guarded(<<>>)
            BY DEF Guarded
          <5>2. slot["endpoint"] # 0 => /\ StopWorker(slot["endpoint"]) \in Seq(Plain)
                                        /\ Guarded(StopWorker(slot["endpoint"]))
            <6> SUFFICES ASSUME NEW e \in Objects
                         PROVE  StopWorker(e) \in Seq(Plain) /\ Guarded(StopWorker(e))
              BY <1>19 DEF Entry
            <6>1. /\ Held(Look("endpoint"), e) \in Plain /\ Held(Look("endpoint"), e).op = "ask"
                  /\ Held(Quit("endpoint"), e) \in Plain /\ Held(Quit("endpoint"), e).op = "quit"
                  /\ Step("forget", "endpoint") \in Plain
              BY DEF Plain, Held, Look, Quit, Step, Ask
            <6>2. StopWorker(e) \in Seq(Plain)
              BY <6>1 DEF StopWorker
            <6>3. /\ DOMAIN StopWorker(e) = 1..5 /\ StopWorker(e)[1] = Held(Look("endpoint"), e)
                  /\ StopWorker(e)[2] = Held(Quit("endpoint"), e)
              BY DEF StopWorker
            <6>4. \A i \in 1..5 : i = 1 \/ i = 2 \/ 2 < i
              OBVIOUS
            <6>5. ASSUME NEW i \in 1..5, StopWorker(e)[i].op \in {"forget", "clear"} PROVE 2 < i
              BY <6>1, <6>3, <6>4, <6>5
            <6>6. 2 \in 1..5
              OBVIOUS
            <6>7. Guarded(StopWorker(e))
              BY <6>1, <6>3, <6>5, <6>6 DEF Guarded
            <6> QED
              BY <6>2, <6>7
          <5>3. Top(t).yes = <<>> /\ Top(t).no = <<>> /\ Top(t).op # "new"
            BY <4>1 DEF Plain
          <5> QED
            BY <5>1, <5>2, <5>3, BackForm
        <4>3. Guarded(todo'[t])
          BY <1>1, <3>2, <3>3, <3>4, <4>2, GuardedJoin DEF Top
        <4> QED
          BY <1>1, <3>2, <4>3
      <3>5. CASE t = "handler" /\ todo[t] \notin Seq(Plain)
        <4>1. \/ todo'[t] = <<>>
              \/ todo'[t] \in Creating
          BY <3>5, BackPiece DEF WorkOK, Creating
        <4>2. Guarded(todo'[t])
          BY <4>1, PieceSteps DEF Guarded
        <4> QED
          BY <1>1, <3>2, <4>2
      <3>6. CASE t = "main" /\ main = "serving"
        <4>1. ServingOK' /\ main' = "serving"
          BY <1>10, <1>12, <3>6
        <4>2. Guarded(todo'[t])
          BY <3>6, <4>1 DEF ServingOK, Guarded
        <4> QED
          BY <1>1, <3>2, <4>2
      <3>7. CASE t = "main" /\ main # "serving" /\ todo[t] \in Seq(Ending)
        <4>1. Top(t) \in Ending
          BY <1>1, <3>7 DEF Top
        <4>2. \E a \in Seq(Ending) : Guarded(a) /\ todo'[t] = a \o Tail(todo[t])
          <5>1. <<>> \in Seq(Ending) /\ Guarded(<<>>)
            BY DEF Guarded
          <5>2. <<Quit("endpoint")>> \in Seq(Ending) /\ Guarded(<<Quit("endpoint")>>)
            <6>1. Quit("endpoint") \in Ending /\ Quit("endpoint").op = "quit"
              BY DEF Quit, Step, Ending
            <6>2. \A i \in DOMAIN <<Quit("endpoint")>> :
                    <<Quit("endpoint")>>[i] = Quit("endpoint")
              OBVIOUS
            <6> QED
              BY <6>1, <6>2 DEF Guarded
          <5>3. /\ Top(t).yes \in {<<>>, <<Quit("endpoint")>>} /\ Top(t).no = <<>>
                /\ Top(t).op \notin {"new", "stop"}
            BY <4>1 DEF Ending
          <5> QED
            BY <5>1, <5>2, <5>3, BackForm
        <4>3. Guarded(todo'[t])
          BY <1>1, <3>2, <3>3, <3>7, <4>2, GuardedJoin DEF Top
        <4> QED
          BY <1>1, <3>2, <4>3
      <3>8. CASE t = "main" /\ todo[t] \notin Seq(Ending)
        <4>1. Top(t).op = "drop" /\ todo[t] \in {Shutdown, AfterRuntime}
          BY <3>8, Leaving, PieceFields DEF WorkOK, Top
        <4>2. todo'[t] = <<>> \o Tail(todo[t])
          BY <4>1, BackForm
        <4>3. <<>> \o AfterRuntime = AfterRuntime /\ <<>> \o ShutdownAll = ShutdownAll
          BY Leaving DEF AfterRuntime
        <4>4. Guarded(todo'[t])
          BY <4>1, <4>2, <4>3, Leaving, ShutdownGuarded
        <4> QED
          BY <1>1, <3>2, <4>4
      <3> QED
        BY <3>4, <3>5, <3>6, <3>7, <3>8 DEF Threads
    <2> QED
      BY <2>1, <2>2
  <1>27. MakesOK'
    <2> SUFFICES ASSUME Active("handler")', Top("handler")' = New("endpoint"),
                        NEW x, x = call'["handler"].obj
                 PROVE  /\ Entry' = 0
                        /\ call'["handler"].at = "grace" => call'["handler"].proc = obj'[x].proc
                        /\ call'["handler"].at = "done" /\ ~call'["handler"].alive => Dead(x)'
      BY DEF MakesOK
    <2>1. /\ t = "main" /\ Active("handler") /\ Top("handler") = New("endpoint")
          /\ call'["handler"] = call["handler"] /\ x \in Objects /\ obj'[x] = obj[x]
      BY <1>2, <1>5, <1>7, <1>18 DEF Threads
    <2>2. /\ Entry = 0
          /\ call["handler"].at = "grace" => call["handler"].proc = obj[x].proc
          /\ call["handler"].at = "done" /\ ~call["handler"].alive => Dead(x)
      BY <1>11, <2>1 DEF CleanOK, MakesOK
    <2> QED
      BY <1>13, <1>17, <2>1, <2>2 DEF Registers
  <1>28. DropsOK'
    <2> SUFFICES ASSUME Active("main")', Top("main")'.kind \in Cameras PROVE FALSE
      BY DEF DropsOK, Top
    <2>1. t = "handler" /\ Active("main") /\ Top("main").kind \in Cameras /\ todo["main"] # <<>>
      BY <1>2, <1>5, <1>7 DEF Threads, CallOK
    <2>2. main = "leaving"
      BY <2>1, TopFields DEF Threads, Cameras
    <2> QED
      BY <1>12, <2>1, <2>2
  <1> QED
    BY <1>20, <1>21, <1>22, <1>23, <1>25, <1>26, <1>27, <1>28 DEF CleanOK

------------------------------------------------------------------------------
LEMMA OwnerInit == Init => OwnerInv
  <1> SUFFICES ASSUME Init PROVE OwnerInv
    OBVIOUS
  <1>1. /\ \A t \in Threads : todo[t] = <<>> /\ call[t] = NoCall
        /\ \A o \in Objects : obj[o] = NoObject
        /\ \A p \in Procs : proc[p] = NoProcess
        /\ slot["endpoint"] = 0 /\ main = "serving" /\ ~hist.beside
    BY DEF Init, Kinds
  <1>2. \A t \in Threads : ~Active(t) /\ \A o : ~Taking(t, o)
    BY <1>1 DEF Active, Taking, NoCall
  <1>3. WantsOK /\ ServingOK
    BY <1>1, <1>2 DEF WantsOK, ServingOK, Threads
  <1>4. EachOwned /\ ReusedOK
    BY <1>1 DEF EachOwned, ReusedOK, Alive, NoProcess, NoObject
  <1>5. TakesOK /\ EndpointCallsOK /\ MakesOK /\ DropsOK
    BY <1>2 DEF TakesOK, EndpointCallsOK, OnEndpoint, MakesOK, DropsOK, Threads
  <1>6. HeldOK /\ ForgettingOK
    BY <1>1 DEF HeldOK, ForgettingOK, EntryFinished, Entry, Threads
  <1> QED
    BY <1>3, <1>4, <1>5, <1>6 DEF OwnerInv, CleanOK

LEMMA OwnerKept == Inv /\ OwnerInv /\ [Next]_vars => OwnerInv'
  <1> SUFFICES ASSUME Inv, OwnerInv, [Next]_vars PROVE OwnerInv'
    OBVIOUS
  <1>1. CASE UNCHANGED vars
    <2>1. /\ \A p : Alive(p)' = Alive(p)
          /\ \A o : Dead(o)' = Dead(o)
          /\ \A t : Top(t)' = Top(t) /\ Active(t)' = Active(t)
          /\ \A t, o : Taking(t, o)' = Taking(t, o)
          /\ Entry' = Entry /\ Bound' = Bound /\ Clean' = Clean
      BY <1>1 DEF vars, env, Alive, Dead, Top, Active, Taking, Entry, Bound, Clean
    <2>2. /\ \A o : Finished(o)' = Finished(o) /\ HeldOnly(o)' = HeldOnly(o)
          /\ \A t : OnEndpoint(t)' = OnEndpoint(t)
          /\ \A p : BeingMade(p)' = BeingMade(p)
      BY <1>1, <2>1 DEF vars, env, Finished, HeldOnly, OnEndpoint, BeingMade
    <2>3. EntryFinished' = EntryFinished /\ \A t : CallEnds(t)' = CallEnds(t)
      BY <1>1, <2>1, <2>2 DEF vars, env, EntryFinished, CallEnds
    <2>4. WantsOK' /\ ServingOK'
      BY <1>1, <2>1 DEF vars, env, OwnerInv, WantsOK, ServingOK
    <2>5. CleanOK => EachOwned' /\ ReusedOK' /\ TakesOK'
      BY <1>1, <2>1, <2>2 DEF vars, env, CleanOK, EachOwned, ReusedOK, TakesOK
    <2>6. CleanOK => EndpointCallsOK' /\ HeldOK' /\ ForgettingOK'
      BY <1>1, <2>1, <2>2, <2>3 DEF vars, env, CleanOK, EndpointCallsOK, HeldOK, ForgettingOK
    <2>7. CleanOK => MakesOK' /\ DropsOK'
      BY <1>1, <2>1 DEF vars, env, CleanOK, MakesOK, DropsOK
    <2> QED
      BY <2>1, <2>4, <2>5, <2>6, <2>7 DEF OwnerInv, CleanOK
  <1>2. CASE \E t \in Threads : ThreadStep(t)
    BY <1>2, BeginOwner, InnerOwner, SpawnOwner, BackOwner DEF ThreadStep, Inner, Back
  <1> QED
    BY <1>1, <1>2, BegunOwner, OutsideOwner DEF Next, Outside

\* A living process is its owner's to end: unless the two threads met over an
\* object whose listener was being replaced, a reap dropped another entry than
\* it had looked at, or a request went on beside the shutdown, every process
\* that lives is that of an object the table, a manager or a thread refers to.
THEOREM NobodyForgotten == Spec => []NoOrphans
  <1>1. Inv /\ OwnerInv => NoOrphans
    <2> SUFFICES ASSUME Inv, OwnerInv, Clean, NEW p \in Procs, Alive(p)
                 PROVE  \E o \in Referred : obj[o].proc = p
      BY DEF NoOrphans, Clean
    <2>1. (slot[proc[p].of] # 0 /\ obj[slot[proc[p].of]].proc = p) \/ BeingMade(p)
      BY DEF OwnerInv, CleanOK, EachOwned
    <2>2. proc[p].of \in Kinds
      BY DEF Inv, TypeOK, Process
    <2>3. CASE slot[proc[p].of] # 0 /\ obj[slot[proc[p].of]].proc = p
      BY <2>2, <2>3 DEF Inv, TypeOK, Referred, Known
    <2>4. CASE BeingMade(p)
      <3>1. call["handler"].at # "none" /\ "handler" \in Threads
        BY <2>4 DEF BeingMade, Threads
      <3>2. call["handler"].obj \in Objects
        BY <3>1 DEF Inv, CallsOK, CallOK, Active
      <3> QED
        BY <2>4, <3>1, <3>2 DEF BeingMade, Referred, Known, Refers
    <2> QED
      BY <2>1, <2>3, <2>4
  <1> QED
    BY <1>1, InvInit, InvKept, OwnerInit, OwnerKept, PTL DEF Spec
===============================================================================
