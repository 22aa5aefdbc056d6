-------------------------- MODULE CommandProcesses --------------------------
(***************************************************************************)
(* The commands the launcher runs as process groups of their own            *)
(* (ManagedCommandProcess, workers/command_process.py) and their owners: the*)
(* supervisor's entry for the ROS TCP endpoint (main.py) and the web UI's   *)
(* two managers of camera programs, the reliability runtime and the         *)
(* MediaPipe test (web_ui/server.py).                                       *)
(*                                                                          *)
(* An endpoint that finds its port bound reuses the listener of somebody    *)
(* else, and whoever polls it after that listener has gone starts a process.*)
(* Two threads poll with no lock between them: the handler of a request, and*)
(* the main thread, which reaps in its loop and stops everything at the end.*)
(***************************************************************************)
EXTENDS Naturals, FiniteSets, Sequences

CONSTANTS
  Requests,      \* the requests the operator may make
  Faults,        \* may Popen raise, and may a process end unasked?
  MaxRequests,   \* bound: requests in a behaviour
  MaxProcs       \* bound: process groups at a time

ASSUME RequestsAssumption ==
  Requests \subseteq {"endpoint on", "endpoint off", "reliability on", "reliability off",
                      "test on", "test off", "save"}
ASSUME BoundsAssumption == Faults \in BOOLEAN /\ MaxRequests \in Nat /\ MaxProcs \in Nat

Cameras == {"reliability", "test"}
Kinds == {"endpoint"} \cup Cameras
Threads == {"handler", "main"}
Procs == 1..MaxProcs                 \* 0 stands for None
Objects == 1..MaxRequests            \* an object has the number of its request

VARIABLES
  other,     \* does another session's endpoint listen on the port?
  proc,      \* process groups: what for, the leader, does a member listen?
  obj,       \* ManagedCommandProcess: _proc, _reused_tcp_listener, _released
  slot,      \* procs["leader_ros_tcp_endpoint"], and _process of the managers
  todo,      \* what each thread has still to do
  call,      \* the method of an object each thread is in
  main,      \* "serving", "leaving" (the end of run_web_ui and main), "gone"
  requests,  \* number of requests so far
  hist       \* history the properties read

env == <<other, proc>>
vars == <<other, proc, obj, slot, todo, call, main, requests, hist>>

NoCall == [at |-> "none", obj |-> 0, proc |-> 0, wants |-> "poll", alive |-> FALSE]

NoProcess == [of |-> "endpoint", leader |-> "none", listens |-> FALSE]
NoObject == [proc |-> 0, reused |-> FALSE, released |-> FALSE]

\* history -- fault: Popen raised or a process ended unasked; off: the last
\* request about the endpoint was to stop it; raced: a thread used an object
\* that the other was replacing the listener of; dropped: a reap dropped another
\* entry than it had looked at; beside: a request was under way when main left.
Init ==
  /\ other \in BOOLEAN
  /\ proc = [p \in Procs |-> NoProcess]
  /\ obj = [o \in Objects |-> NoObject]
  /\ slot = [k \in Kinds |-> 0]
  /\ todo = [t \in Threads |-> <<>>] /\ call = [t \in Threads |-> NoCall]
  /\ main = "serving" /\ requests = 0
  /\ hist = [fault |-> FALSE, off |-> FALSE, raced |-> FALSE, dropped |-> FALSE, beside |-> FALSE]

Bound == other \/ \E p \in Procs : proc[p].listens
Alive(p) == p # 0 /\ proc[p].leader \in {"on", "asked"}
Other(t) == CHOOSE u \in Threads : u # t
-----------------------------------------------------------------------------
(* What a thread does, as a sequence of steps.  A step that looks at an     *)
(* entry takes the object from it, unless it already holds one.             *)

Step(op, k) == [op |-> op, kind |-> k, obj |-> 0, yes |-> <<>>, no |-> <<>>]
Ask(k, yes, no) == [op |-> "ask", kind |-> k, obj |-> 0, yes |-> yes, no |-> no]
Look(k) == Ask(k, <<>>, <<>>)
Held(step, o) == [step EXCEPT !.obj = o]
Reap == Step("reap", "endpoint")             \* _reap_dead_processes()
Quit(k) == Step("quit", k)                   \* terminate() if alive
Drop(k) == Step("drop", k)                   \* stop() of a manager
New(k) == Step("new", k)                     \* a new object, started

\* _stop_worker(): each wait is followed by another look.
StopWorker(o) ==
  <<Held(Look("endpoint"), o), Held(Quit("endpoint"), o), Held(Quit("endpoint"), o),
    Held(Look("endpoint"), o), Step("forget", "endpoint")>>

\* Variant of Script: starting the reliability runtime leaves the test running.
ScriptBesideTest(request) ==
  CASE request = "reliability on" -> <<Ask("reliability", <<>>, <<New("reliability")>>)>>
    [] request = "test on" -> <<Ask("reliability", <<>>, <<Drop("test"), New("test")>>)>>
    [] OTHER -> <<Reap>>

\* toggle_manual_group(), set_reliability_runtime(), set_hybrid_teleop(), up to
\* the answer (Status).  A test is refused beside the runtime.
Script(request) ==
  CASE request = "endpoint on" -> <<Reap, New("endpoint")>>
    [] request = "endpoint off" -> <<Reap, Step("stop", "endpoint")>>
    [] request = "reliability on" ->
         <<Drop("test"), Ask("reliability", <<>>, <<New("reliability")>>)>>
    [] request = "reliability off" -> <<Drop("reliability")>>
    [] request = "test on" -> <<Ask("reliability", <<>>, <<Drop("test"), New("test")>>)>>
    [] request = "test off" -> <<Drop("test")>>
    [] request = "save" -> <<Ask("test", <<Drop("test"), New("test")>>, <<>>)>>

\* The end of run_web_ui(), then shutdown_all(): each pass over the table
\* looks at the entry again.
ShutdownAll ==
  <<Ask("endpoint", <<Quit("endpoint")>>, <<>>), Look("endpoint"), Quit("endpoint"),
    Ask("endpoint", <<Quit("endpoint")>>, <<>>), Look("endpoint"), Look("endpoint"),
    Step("clear", "endpoint")>>
AfterRuntime == <<Drop("test")>> \o ShutdownAll
Shutdown == <<Drop("reliability")>> \o AfterRuntime

Top(t) == Head(todo[t])
Doing(t, ops) == todo[t] # <<>> /\ Top(t).op \in ops /\ call[t].at = "none"
Then(t, steps) == todo' = [todo EXCEPT ![t] = steps \o Tail(@)]
\* The object a step is about; 0: there is no entry.
Subject(t) == IF Top(t).obj # 0 THEN Top(t).obj ELSE slot[Top(t).kind]

Accept(request) ==
  /\ request \in Requests /\ requests < MaxRequests
  /\ todo["handler"] = <<>> /\ main = "serving"
  /\ requests' = requests + 1
  /\ todo' = [todo EXCEPT !["handler"] = Script(request)]
  /\ hist' = IF request \in {"endpoint on", "endpoint off"}
               THEN [hist EXCEPT !.off = (request = "endpoint off")] ELSE hist
  /\ UNCHANGED <<env, obj, slot, call, main>>

\* status(), which ends each request and which the page polls.
Status ==
  /\ todo["handler"] = <<>> /\ main = "serving"
  /\ todo' = [todo EXCEPT !["handler"] = <<Reap>>]
  /\ UNCHANGED <<env, obj, slot, call, main, requests, hist>>

\* The watchdog, once per turn of the loop of run_web_ui().
Watch ==
  /\ main = "serving" /\ todo["main"] = <<>>
  /\ todo' = [todo EXCEPT !["main"] = <<Reap>>]
  /\ UNCHANGED <<env, obj, slot, call, main, requests, hist>>

LeaveUi ==
  /\ main = "serving" /\ todo["main"] = <<>>
  /\ main' = "leaving"
  /\ todo' = [todo EXCEPT !["main"] = Shutdown]
  /\ hist' = [hist EXCEPT !.beside = (todo["handler"] # <<>>)]
  /\ UNCHANGED <<env, obj, slot, call, requests>>
-----------------------------------------------------------------------------
(* The methods of an object: poll(), terminate() and start().              *)

Unchanged == UNCHANGED <<slot, main, requests>>
\* Is the thread putting a process in the place of a vanished listener?
Taking(t, o) ==
  /\ call[t].obj = o /\ call[t].at \in {"enter", "spawn", "grace"} /\ call[t].wants # "start"
Races(t, o) == hist' = [hist EXCEPT !.raced = @ \/ Taking(Other(t), o)]
At(t, place) == call' = [call EXCEPT ![t].at = place]
Answers(t, alive) == call' = [call EXCEPT ![t].at = "done", ![t].alive = alive]
\* The answer of poll(), on which a Quit goes on with terminate().
Polled(t, alive) ==
  IF alive /\ call[t].wants = "quit" THEN At(t, "signal") ELSE Answers(t, alive)

Wants(step) == IF step.op = "quit" THEN "quit" ELSE IF step.op = "new" THEN "start" ELSE "poll"

Refers(t, o) ==
  \/ call[t].at # "none" /\ call[t].obj = o
  \/ \E i \in DOMAIN todo[t] : todo[t][i].obj = o
Known(o) == (\E k \in Kinds : slot[k] = o) \/ (\E t \in Threads : Refers(t, o))
Referred == {o \in Objects : Known(o)}

\* The thread takes the object from the table, or makes one.
Begin(t) ==
  LET o == IF Top(t).op = "new" THEN requests ELSE Subject(t) IN
  /\ Doing(t, {"reap", "ask", "quit", "drop", "new"}) /\ o # 0
  /\ Top(t) = New("endpoint") => slot["endpoint"] = 0
  /\ call' = [call EXCEPT ![t] =
       [NoCall EXCEPT !.obj = o, !.wants = Wants(Top(t)),
          !.at = CASE Top(t).op = "new" -> "enter" [] Top(t).op = "drop" -> "signal"
                   [] OTHER -> "probe"]]
  /\ UNCHANGED <<env, obj, todo, hist>> /\ Unchanged

\* Variant of Probe: an object whose listener has gone is dead.
ProbeGivesUp(t) ==
  LET o == call[t].obj IN
  /\ call[t].at = "probe"
  /\ Polled(t, IF obj[o].reused THEN Bound /\ ~obj[o].released
               ELSE obj[o].proc = 0 \/ Alive(obj[o].proc))
  /\ Races(t, o) /\ UNCHANGED <<env, obj, todo>> /\ Unchanged

\* poll(), up to the decision to start a replacement.
Probe(t) ==
  LET o == call[t].obj IN
  /\ call[t].at = "probe"
  /\ IF obj[o].reused /\ ~obj[o].released /\ ~Bound
       THEN obj' = [obj EXCEPT ![o].reused = FALSE] /\ At(t, "enter")
       ELSE /\ UNCHANGED obj
            /\ Polled(t, IF obj[o].reused THEN ~obj[o].released
                         ELSE obj[o].proc = 0 \/ Alive(obj[o].proc))
  /\ Races(t, o) /\ UNCHANGED <<env, todo>> /\ Unchanged

\* start() has returned: to its caller, or to the poll() that called it.
Started(t, o) ==
  IF call[t].wants = "start" THEN Answers(t, TRUE) ELSE Polled(t, Alive(obj[o].proc))

\* start() has raised; poll() then gives the object up.
StartRaises(t) ==
  /\ Answers(t, FALSE)
  /\ obj' = IF call[t].wants = "start" THEN obj ELSE [obj EXCEPT ![call[t].obj].released = TRUE]

\* start(), up to Popen: a bound port is reused.  A poll() then has no process.
Enter(t) ==
  LET o == call[t].obj
      reuse == Top(t).kind = "endpoint" /\ Bound IN
  /\ call[t].at = "enter"
  /\ \/ Alive(obj[o].proc) /\ Started(t, o) /\ UNCHANGED obj
     \/ /\ ~Alive(obj[o].proc)
        /\ obj' = [obj EXCEPT ![o] = [proc |-> IF reuse THEN 0 ELSE @.proc,
                                      reused |-> reuse, released |-> FALSE]]
        /\ IF reuse THEN Answers(t, call[t].wants = "start") ELSE At(t, "spawn")
  /\ UNCHANGED <<env, todo, hist>> /\ Unchanged

Unused == {p \in Procs : proc[p].leader = "none"}

Spawn(t) ==
  LET p == CHOOSE q \in Unused : TRUE IN
  /\ call[t].at = "spawn" /\ Unused # {}
  /\ proc' = [proc EXCEPT ![p] = [of |-> Top(t).kind, leader |-> "on", listens |-> FALSE]]
  /\ obj' = [obj EXCEPT ![call[t].obj].proc = p]
  /\ call' = [call EXCEPT ![t].at = "grace", ![t].proc = p]
  /\ UNCHANGED <<other, todo, hist>> /\ Unchanged

SpawnRaises(t) ==
  /\ call[t].at = "spawn" /\ Faults
  /\ StartRaises(t)
  /\ hist' = [hist EXCEPT !.fault = TRUE]
  /\ UNCHANGED <<env, todo>> /\ Unchanged

\* The process is watched for startup_grace_s.
Grace(t) ==
  /\ call[t].at = "grace"
  /\ IF Alive(call[t].proc) THEN Started(t, call[t].obj) /\ UNCHANGED obj ELSE StartRaises(t)
  /\ UNCHANGED <<env, todo, hist>> /\ Unchanged

\* Variant of Signal: the object is not told that it is to stop.
SignalUnmarked(t) ==
  LET o == call[t].obj
      p == obj[o].proc IN
  /\ call[t].at = "signal"
  /\ IF ~obj[o].reused /\ Alive(p)
       THEN /\ proc' = [proc EXCEPT ![p].leader = "asked"]
            /\ call' = [call EXCEPT ![t].at = "wait", ![t].proc = p]
       ELSE Answers(t, FALSE) /\ UNCHANGED proc
  /\ UNCHANGED <<other, obj, todo>> /\ Races(t, o) /\ Unchanged

\* terminate(): SIGTERM to the group, or the listener of somebody else is let go.
Signal(t) ==
  LET o == call[t].obj
      p == obj[o].proc IN
  /\ call[t].at = "signal"
  /\ IF ~obj[o].reused /\ Alive(p)
       THEN /\ proc' = [proc EXCEPT ![p].leader = "asked"]
            /\ call' = [call EXCEPT ![t].at = "wait", ![t].proc = p]
            /\ UNCHANGED obj
       ELSE /\ Answers(t, FALSE)
            /\ obj' = [obj EXCEPT ![o].released = @ \/ obj[o].reused]
            /\ UNCHANGED proc
  /\ UNCHANGED <<other, todo>> /\ Races(t, o) /\ Unchanged

\* The leader has ended, or the timeout has passed and the group is killed.
Wait(t) ==
  LET p == call[t].proc IN
  /\ call[t].at = "wait"
  /\ proc' = IF Alive(p) THEN [proc EXCEPT ![p].leader = "off", ![p].listens = FALSE] ELSE proc
  /\ Answers(t, FALSE)
  /\ UNCHANGED <<other, obj, todo, hist>> /\ Unchanged
-----------------------------------------------------------------------------
(* What the caller does with the answer, and the steps without a call.     *)

Return(t, ops) ==
  /\ call[t].at = "done" /\ todo[t] # <<>> /\ Top(t).op \in ops
  /\ call' = [call EXCEPT ![t] = NoCall]

\* An object nothing refers to is collected, and its ended process with it.
Collect(t) ==
  LET kept == {o \in Objects : (\E k \in Kinds : slot'[k] = o) \/ Refers(Other(t), o)} IN
  /\ obj' = [o \in Objects |-> IF o \in kept THEN obj[o] ELSE NoObject]
  /\ proc' = [p \in Procs |->
       IF \/ Alive(p) \/ proc[p].listens \/ call[Other(t)].proc = p
          \/ \E o \in kept : obj[o].proc = p
         THEN proc[p] ELSE NoProcess]
  /\ UNCHANGED <<other, requests>>

Asked(t) ==
  /\ Return(t, {"ask"})
  /\ Then(t, IF call[t].alive THEN Top(t).yes ELSE Top(t).no)
  /\ UNCHANGED <<env, obj, slot, main, requests, hist>>

HasQuit(t) ==
  /\ Return(t, {"quit"}) /\ Then(t, <<>>)
  /\ UNCHANGED <<env, obj, slot, main, requests, hist>>

\* The entry of a dead object is dropped, whatever it is by now.
Reaped(t) ==
  LET o == call[t].obj IN
  /\ Return(t, {"reap"}) /\ Then(t, <<>>)
  /\ IF call[t].alive THEN UNCHANGED <<slot, hist>>
     ELSE /\ slot' = [slot EXCEPT !["endpoint"] = 0]
          /\ hist' = [hist EXCEPT !.raced = @ \/ Taking(Other(t), o),
                                   !.dropped = @ \/ slot["endpoint"] \notin {o, 0}]
  /\ Collect(t) /\ UNCHANGED main

Dropped(t) ==
  /\ Return(t, {"drop"}) /\ Then(t, <<>>)
  /\ slot' = [slot EXCEPT ![Top(t).kind] = 0]
  /\ Collect(t) /\ UNCHANGED <<main, hist>>

\* A start that raises ends the request; a manager then forgets its process.
Created(t) ==
  LET k == Top(t).kind IN
  /\ Return(t, {"new"})
  /\ IF call[t].alive
       THEN Then(t, <<>>) /\ slot' = [slot EXCEPT ![k] = call[t].obj]
       ELSE /\ todo' = [todo EXCEPT ![t] = <<>>]
            /\ slot' = IF k \in Cameras THEN [slot EXCEPT ![k] = 0] ELSE slot
  /\ Collect(t) /\ UNCHANGED <<main, hist>>

\* No entry to work on, or an endpoint that is running already.
Skip(t) ==
  /\ \/ Doing(t, {"reap", "ask", "quit", "drop"}) /\ Subject(t) = 0
     \/ Doing(t, {"new"}) /\ Top(t).kind = "endpoint" /\ slot["endpoint"] # 0
  /\ Then(t, IF Top(t).op = "ask" THEN Top(t).no ELSE <<>>)
  /\ UNCHANGED <<env, obj, slot, call, main, requests, hist>>

Stop(t) ==
  /\ Doing(t, {"stop"})
  /\ Then(t, IF slot["endpoint"] = 0 THEN <<>> ELSE StopWorker(slot["endpoint"]))
  /\ UNCHANGED <<env, obj, slot, call, main, requests, hist>>

\* _stop_worker() and shutdown_all() drop the entry at their end.
Forget(t) ==
  /\ Doing(t, {"forget", "clear"}) /\ Then(t, <<>>)
  /\ slot' = [slot EXCEPT !["endpoint"] = 0]
  /\ main' = IF Top(t).op = "clear" THEN "gone" ELSE main
  /\ Collect(t) /\ Races(t, slot["endpoint"]) /\ UNCHANGED call
-----------------------------------------------------------------------------
(* The processes, and the other session.                                   *)

\* A member of the group comes to listen; on a bound port it ends instead,
\* and the leader with it.
Listen(p) ==
  /\ proc[p].of = "endpoint" /\ proc[p].leader = "on" /\ ~proc[p].listens
  /\ proc' = IF Bound THEN [proc EXCEPT ![p].leader = "off"]
             ELSE [proc EXCEPT ![p].listens = TRUE]
  /\ UNCHANGED <<other, obj, slot, todo, call, main, requests, hist>>

\* The leader ends; another member of its group may go on listening.
End(p) ==
  /\ Alive(p) /\ (proc[p].leader = "asked" \/ Faults)
  /\ \E listens \in {FALSE, proc[p].listens} :
       proc' = [proc EXCEPT ![p].leader = "off", ![p].listens = listens]
  /\ hist' = [hist EXCEPT !.fault = @ \/ proc[p].leader = "on"]
  /\ UNCHANGED <<other, obj, slot, todo, call, main, requests>>

MemberEnds(p) ==
  /\ ~Alive(p) /\ proc[p].listens
  /\ proc' = [proc EXCEPT ![p].listens = FALSE]
  /\ UNCHANGED <<other, obj, slot, todo, call, main, requests, hist>>

OtherCloses ==
  /\ other /\ other' = FALSE
  /\ UNCHANGED <<proc, obj, slot, todo, call, main, requests, hist>>

ThreadStep(t) ==
  /\ main # "gone"
  /\ \/ Begin(t) \/ Probe(t) \/ Enter(t) \/ Spawn(t) \/ SpawnRaises(t) \/ Grace(t)
     \/ Signal(t) \/ Wait(t) \/ Asked(t) \/ HasQuit(t) \/ Reaped(t) \/ Dropped(t)
     \/ Created(t) \/ Skip(t) \/ Stop(t) \/ Forget(t)

Next ==
  \/ \E request \in Requests : Accept(request)
  \/ Status \/ Watch \/ LeaveUi
  \/ \E t \in Threads : ThreadStep(t)
  \/ \E p \in Procs : Listen(p) \/ End(p) \/ MemberEnds(p)
  \/ OtherCloses

\* The threads are scheduled and their waits have timeouts; the watchdog turns;
\* a process that is not ended comes to listen.
Fairness ==
  /\ WF_vars(ThreadStep("handler"))
  /\ WF_vars(ThreadStep("main") \/ Watch)
  /\ \A p \in Procs : WF_vars(Listen(p))

Spec == Init /\ [][Next]_vars /\ Fairness
-----------------------------------------------------------------------------
Place == {"none", "probe", "enter", "spawn", "grace", "signal", "wait", "done"}
Process == [of : Kinds, leader : {"none", "on", "asked", "off"}, listens : BOOLEAN]
Object == [proc : Procs \cup {0}, reused : BOOLEAN, released : BOOLEAN]
Call == [at : Place, obj : Objects \cup {0}, proc : Procs \cup {0},
         wants : {"poll", "quit", "start"}, alive : BOOLEAN]
\* Every variable but the work ahead has its type.
TypeOK ==
  /\ other \in BOOLEAN
  /\ proc \in [Procs -> Process]
  /\ obj \in [Objects -> Object] /\ slot \in [Kinds -> Objects \cup {0}]
  /\ call \in [Threads -> Call]
  /\ main \in {"serving", "leaving", "gone"} /\ requests \in 0..MaxRequests
  /\ hist \in [fault : BOOLEAN, off : BOOLEAN, raced : BOOLEAN,
              dropped : BOOLEAN, beside : BOOLEAN]

\* The runtime and the test open the same cameras: however requests to start,
\* stop, restart and refuse them follow each other, also while run_web_ui() stops
\* both from its finally without the lock, one process of the two lives at most.
CamerasExclusive ==
  Cardinality({p \in Procs : proc[p].of \in Cameras /\ Alive(p)}) <= 1

\* A living process is known: to an entry, or to the thread that handles its
\* object; so the launcher leaves none behind.  Unless a thread used an object
\* whose listener the other thread was replacing, dropped an entry it had not
\* looked at, or a request went on beside the shutdown.
NoOrphans ==
  ~hist.raced /\ ~hist.dropped /\ ~hist.beside =>
    \A p \in Procs : Alive(p) => \E o \in Referred : obj[o].proc = p

\* While the endpoint's entry stands, somebody comes to listen again whenever
\* the listener it reused has gone, with no further request -- unless a process
\* failed, the operator had it stopped, a reap dropped the entry of another
\* object than it had looked at, or the launcher leaves.
EndpointServed ==
  (slot["endpoint"] # 0 /\ ~Bound) ~>
    (Bound \/ hist.fault \/ hist.off \/ hist.dropped \/ main # "serving")
=============================================================================
