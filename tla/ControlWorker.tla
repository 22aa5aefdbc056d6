---------------------------- MODULE ControlWorker ----------------------------
(***************************************************************************)
(* The control worker (workers/worker_control.py on the DualRateWorker of   *)
(* core/worker_base.py): the process that owns the robot's body controller. *)
(* Its slow and its fast thread poll the same mode, each with a snapshot of *)
(* its own; whichever sees "ready" first brings the controller up (Torque   *)
(* ON) under a lock and plays the initial pose sequence; the fast thread    *)
(* homes, takes the walking stance, and follows the teleoperation target    *)
(* once the entry gate has passed; the main thread joins both, with a       *)
(* timeout, and stops the controller (Torque OFF).  Around it: the writers  *)
(* of the event bus, the IK worker as publisher of targets, the supervisor's*)
(* stop event and the robot's first LowState.                               *)
(*                                                                          *)
(* A step is what one thread does between two reads of state another thread *)
(* or process writes.                                                       *)
(***************************************************************************)
EXTENDS Naturals, Sequences, ModeMachine

CONSTANTS
  GateMode,         \* _entry_gate_mode(), fixed by the teleop device
  SelectableModes,  \* what mode_shm may hold
  IkRunning,        \* is the IK worker started?
  InvalidTargets,   \* may a published target be non-finite?
  Commands,         \* what the environment may ask for
  MaxOps            \* bound: how often it may ask

ASSUME GateModeAssumption == GateMode \in {"vr_ee", "leader_joint"}
ASSUME SelectableModesAssumption ==
  SelectableModes # {} /\ SelectableModes \subseteq {"teleop", "walking", "other"}
AllCommands == {"ready", "notReady", "start", "home", "clear", "shutdown",
                "recordStart", "recordDone", "select", "stop"}
ASSUME CommandsAssumption == Commands \subseteq AllCommands
ASSUME MaxOpsAssumption == MaxOps \in Nat

Threads == {"slow", "fast"}
Writers == {"ui", "collect"}     \* web UI / keyboard, and the record worker

VARIABLES
  level, pending, uiMode, ops,   \* the bus; clears a writer has yet to do; mode_shm
  stopEv,                        \* the supervisor's stop event of this worker
  ikMode, published,             \* the IK worker's mode; has it published a target?
  mode, stopThreads, main,       \* _state, _stop_threads, where run() is
  pc, snap, reason,              \* of each thread: its place, its EventSnapshot, tr.reason
  ctrl, lock, torque, lowState,  \* self.ctrl (see below), _ctrl_init_lock, the robot,
                                 \* _ready_event
  builds,                        \* history: BaseController constructions
  bodyMotion, telemetry,         \* _body_motion_active, _body_motion_last_telemetry_t
  homeRequest, walk,             \* _home_request; the walking edge and stance flags
  entry, prevTeleop,             \* the entry gate; _prev_teleop_mode
  hist                           \* history the properties read

env == <<level, pending, uiMode, ops, stopEv>>
ik == <<ikMode, published>>
bringUp == <<ctrl, lock, torque, lowState, builds>>
motion == <<bodyMotion, telemetry, homeRequest, walk>>
gate == <<entry, prevTeleop>>
polling == <<mode, stopThreads>>
vars == <<env, ik, polling, main, pc, snap, reason, bringUp, motion, gate, hist>>

\* ctrl is "none" or "up"; or _controller_init_blocked_reason is set because the
\* constructor raised ("failed") or the start guard did ("aborted").  "refused":
\* abort(), of the guard or of on_stop(), got no Torque OFF from the robot.

\* baseline: _entry_target_seq_at_start is not None; newer: the IK target_seq
\* has moved past it; sampled: _entry_last_target_sub is not None.
Entry == [passed : BOOLEAN, baseline : BOOLEAN, newer : BOOLEAN, sampled : BOOLEAN]
NoEntry == [passed |-> FALSE, baseline |-> FALSE, newer |-> FALSE, sampled |-> FALSE]

\* history -- entered: the gate passed since the mode last became RUN;
\* enteredHome: since homing last began; fresh: the IK published since the
\* mode last became RUN; homed: homing was begun, or the default pose reached,
\* since the mode last became HOME; runs: entries into RUN (up to 2).
History == [entered : BOOLEAN, enteredHome : BOOLEAN, fresh : BOOLEAN,
            homed : BOOLEAN, runs : 0..2]

Moving == {"initMove", "homeMove", "homeStance", "stance"}
Places == {"begin", "readHome", "step", "enter", "lock", "build", "guard", "waitLow",
           "body", "home", "walk", "run", "stopped"} \cup Moving
FastPlaces == {"home", "walk", "run", "homeMove", "homeStance", "stance"}

Init ==
  /\ level = NoLevels /\ pending = [w \in Writers |-> <<>>] /\ ops = 0
  /\ uiMode \in SelectableModes
  /\ stopEv = FALSE
  /\ ikMode = "WAIT_CONNECT" /\ published = FALSE
  /\ mode = "WAIT_CONNECT" /\ stopThreads = FALSE /\ main = "watch"
  /\ pc = [t \in Threads |-> "begin"]
  /\ snap = [t \in Threads |-> NoLevels] /\ reason = [t \in Threads |-> ""]
  /\ ctrl = "none" /\ lock = "free" /\ torque = "off" /\ lowState = FALSE /\ builds = 0
  /\ bodyMotion = FALSE /\ telemetry = FALSE /\ homeRequest = FALSE
  /\ walk = [tick |-> FALSE, prev |-> FALSE, pending |-> FALSE]
  /\ entry = NoEntry /\ prevTeleop = FALSE
  /\ hist = [entered |-> FALSE, enteredHome |-> TRUE, fresh |-> FALSE,
             homed |-> FALSE, runs |-> 0]

Alive == main # "done"                    \* the threads are daemons
At(t, place) == pc[t] = place /\ Alive
Goto(t, place) == pc' = [pc EXCEPT ![t] = place]
EndTick(t) ==
  /\ Goto(t, "begin")
  /\ snap' = [snap EXCEPT ![t] = NoLevels]
  /\ reason' = [reason EXCEPT ![t] = ""]
KeepTick == UNCHANGED <<snap, reason>>
-----------------------------------------------------------------------------
(* The slow and the fast loop: poll(), then the handler.                   *)

\* should_stop(), or another thread has already set _stop_threads.
Leave(t) ==
  /\ At(t, "begin") /\ (stopThreads \/ stopEv)
  /\ stopThreads' = TRUE
  /\ Goto(t, "stopped")
  /\ KeepTick
  /\ UNCHANGED <<env, ik, mode, main, bringUp, motion, gate, hist>>

\* read_snapshot() reads each event on its own, start before home.
ReadLevels(t) ==
  /\ At(t, "begin") /\ ~stopThreads /\ ~stopEv
  /\ snap' = [snap EXCEPT ![t] = [level EXCEPT !.home = FALSE]]
  /\ Goto(t, "readHome")
  /\ UNCHANGED <<env, ik, polling, main, reason, bringUp, motion, gate, hist>>

ReadHome(t) ==
  /\ At(t, "readHome")
  /\ snap' = [snap EXCEPT ![t].home = level.home]
  /\ Goto(t, "step")
  /\ UNCHANGED <<env, ik, polling, main, reason, bringUp, motion, gate, hist>>

NewMode(m) ==
  /\ mode' = m
  /\ hist' = CASE m = "RUN" /\ mode # "RUN" ->
                   [hist EXCEPT !.entered = FALSE, !.fresh = FALSE,
                                !.runs = IF @ = 2 THEN 2 ELSE @ + 1]
              [] m = "HOME" /\ mode # "HOME" -> [hist EXCEPT !.homed = FALSE]
              [] m = mode \/ m \notin {"RUN", "HOME"} -> hist

\* The transition, under _state_lock, on a snapshot that may be stale.
Poll(t) ==
  LET next == StepMode(mode, snap[t]) IN
  /\ At(t, "step")
  /\ NewMode(next.mode)
  /\ IF next.mode = "EXIT"
       THEN stopThreads' = TRUE /\ Goto(t, "stopped") /\ KeepTick
       ELSE /\ reason' = [reason EXCEPT ![t] = next.reason]
            /\ snap' = [snap EXCEPT ![t] = [NoLevels EXCEPT !.ready = snap[t].ready]]
            /\ Goto(t, "enter")
            /\ UNCHANGED stopThreads
  /\ UNCHANGED <<env, ik, main, bringUp, motion, gate>>
-----------------------------------------------------------------------------
(* _ensure_controller_ready() and _create_controller().                    *)

Usable == ctrl = "up" /\ lowState            \* wait_for_state(timeout=0.0)

ControllerReady(t) ==
  /\ At(t, "enter") /\ Usable
  /\ Goto(t, "body")
  /\ KeepTick
  /\ UNCHANGED <<env, ik, polling, main, bringUp, motion, gate, hist>>

ControllerNotReady(t) ==
  /\ At(t, "enter") /\ ~Usable
  /\ ctrl = "none" => ~snap[t].ready
  /\ EndTick(t)
  /\ UNCHANGED <<env, ik, polling, main, bringUp, motion, gate, hist>>

WantController(t) ==
  /\ At(t, "enter") /\ ctrl = "none" /\ snap[t].ready
  /\ Goto(t, "lock")
  /\ KeepTick
  /\ UNCHANGED <<env, ik, polling, main, bringUp, motion, gate, hist>>

\* Variant of Acquire: no second look at self.ctrl under the lock.
AcquireAndBuild(t) ==
  /\ At(t, "lock") /\ lock = "free"
  /\ lock' = t /\ Goto(t, "build")
  /\ KeepTick
  /\ UNCHANGED <<env, ik, polling, main, ctrl, torque, lowState, builds, motion, gate, hist>>

\* The lock serialises the threads; the loser finds the controller (or the
\* blocked reason) and goes on without waiting for the initial pose.
Acquire(t) ==
  /\ At(t, "lock") /\ lock = "free"
  /\ IF ctrl = "none" THEN lock' = t /\ Goto(t, "build")
                      ELSE UNCHANGED lock /\ Goto(t, "enter")
  /\ KeepTick
  /\ UNCHANGED <<env, ik, polling, main, ctrl, torque, lowState, builds, motion, gate, hist>>

\* BaseController(...): InitBms, Torque ON, LOW_LEVEL.
Construct(t) ==
  /\ At(t, "build")
  /\ torque' = "on" /\ builds' = builds + 1
  /\ Goto(t, "guard")
  /\ KeepTick
  /\ UNCHANGED <<env, ik, polling, main, ctrl, lock, lowState, motion, gate, hist>>

Blocked(t, how) ==
  /\ ctrl' = how /\ lock' = "free"
  /\ Goto(t, "enter")
  /\ KeepTick

\* The constructor (or the PR2AB test before it) raises, before or after the
\* Torque ON service answered: the local ctrl is None and nothing is aborted.
ConstructFails(t) ==
  /\ At(t, "build")
  /\ torque' \in {torque, "on"} /\ builds' = builds + 1
  /\ Blocked(t, "failed")
  /\ UNCHANGED <<env, ik, polling, main, lowState, motion, gate, hist>>

\* Variant of GuardFails: the start guard's failure forgets abort().
GuardFailsUnaborted(t) ==
  /\ At(t, "guard")
  /\ Blocked(t, "aborted")
  /\ UNCHANGED <<env, ik, polling, main, torque, lowState, builds, motion, gate, hist>>

\* ensure_ms_start_guard() raises: abort() takes the torque away again, or tries.
GuardFails(t) ==
  /\ At(t, "guard")
  /\ \/ torque' = "off" /\ Blocked(t, "aborted")
     \/ UNCHANGED torque /\ Blocked(t, "refused")
  /\ UNCHANGED <<env, ik, polling, main, lowState, builds, motion, gate, hist>>

\* start_control_loop(), self.ctrl = ctrl, and the lock is released.
Publish(t) ==
  /\ At(t, "guard")
  /\ ctrl' = "up" /\ lock' = "free"
  /\ Goto(t, "waitLow")
  /\ KeepTick
  /\ UNCHANGED <<env, ik, polling, main, torque, lowState, builds, motion, gate, hist>>

\* _wait_ctrl_ready_and_home(): wait_for_state(timeout=None) cannot be
\* cancelled; walking only gets its gains, otherwise the pose sequence starts.
FirstLowState(t) ==
  /\ At(t, "waitLow") /\ lowState
  /\ IF uiMode = "walking" THEN Goto(t, "enter") /\ UNCHANGED bodyMotion
                           ELSE Goto(t, "initMove") /\ bodyMotion' = TRUE
  /\ KeepTick
  /\ UNCHANGED <<env, ik, polling, main, bringUp, telemetry, homeRequest, walk, gate, hist>>

\* The sequence ends at the default pose, or short of it (timeout, cancelled).
EndInit(t) ==
  /\ At(t, "initMove")
  /\ bodyMotion' = FALSE
  /\ \E arrived \in BOOLEAN :
       hist' = [hist EXCEPT !.homed = @ \/ (arrived /\ mode = "HOME")]
  /\ Goto(t, "enter")
  /\ KeepTick
  /\ UNCHANGED <<env, ik, polling, main, bringUp, telemetry, homeRequest, walk, gate>>
-----------------------------------------------------------------------------
(* do_slow(): telemetry.  While a body motion is active most ticks return   *)
(* early, before they look at the reason of their transition.               *)

ThrottledTick ==
  /\ At("slow", "body") /\ bodyMotion /\ telemetry
  /\ EndTick("slow")
  /\ UNCHANGED <<env, ik, polling, main, bringUp, motion, gate, hist>>

TelemetryTick ==
  /\ At("slow", "body")
  /\ telemetry' = bodyMotion
  /\ homeRequest' = (homeRequest \/ reason["slow"] = "home_set")
  /\ EndTick("slow")
  /\ UNCHANGED <<env, ik, polling, main, bringUp, bodyMotion, walk, gate, hist>>
-----------------------------------------------------------------------------
(* do_fast(): homing, the walking stance, and the commands of RUN.          *)

BusyTick ==
  /\ At("fast", "body") /\ bodyMotion
  /\ EndTick("fast")
  /\ UNCHANGED <<env, ik, polling, main, bringUp, motion, gate, hist>>

\* The walking edge, then what the reason of this thread's own transition asks
\* for.  A start edge the slow thread's poll consumed resets nothing here.
TakeEdges ==
  LET walking == uiMode = "walking"
      edge == walking # walk.prev
      started == reason["fast"] \in StartReasons /\ uiMode = "teleop"
  IN
  /\ At("fast", "body") /\ ~bodyMotion
  /\ walk' = [tick |-> walking, prev |-> walking,
              pending |-> IF edge THEN walking ELSE walk.pending]
  /\ homeRequest' = (homeRequest \/ reason["fast"] = "home_set")
  /\ entry' = IF started THEN NoEntry ELSE entry
  /\ reason' = [reason EXCEPT !["fast"] = ""]
  /\ Goto("fast", "home")
  /\ UNCHANGED <<env, ik, polling, main, snap, bringUp, bodyMotion, telemetry,
                 prevTeleop, hist>>

\* Variant of BeginHome: homing leaves the entry gate as it was.
BeginHomeGateKept ==
  /\ At("fast", "home") /\ mode = "HOME" /\ homeRequest
  /\ homeRequest' = FALSE
  /\ hist' = [hist EXCEPT !.homed = TRUE, !.enteredHome = FALSE]
  /\ bodyMotion' = TRUE
  /\ Goto("fast", IF uiMode = "walking" THEN "homeStance" ELSE "homeMove")
  /\ KeepTick
  /\ UNCHANGED <<env, ik, polling, main, bringUp, telemetry, walk, gate>>

\* _go_home(): the default pose, or the stance in walking mode.
BeginHome ==
  /\ At("fast", "home") /\ mode = "HOME" /\ homeRequest
  /\ homeRequest' = FALSE
  /\ entry' = NoEntry
  /\ hist' = [hist EXCEPT !.homed = TRUE, !.enteredHome = FALSE]
  /\ bodyMotion' = TRUE
  /\ Goto("fast", IF uiMode = "walking" THEN "homeStance" ELSE "homeMove")
  /\ KeepTick
  /\ UNCHANGED <<env, ik, polling, main, bringUp, telemetry, walk, prevTeleop>>

EndHome ==
  /\ pc["fast"] \in {"homeMove", "homeStance"} /\ Alive
  /\ bodyMotion' = FALSE
  /\ walk' = [walk EXCEPT !.pending = @ /\ pc["fast"] = "homeMove"]
  /\ Goto("fast", "walk")
  /\ KeepTick
  /\ UNCHANGED <<env, ik, polling, main, bringUp, telemetry, homeRequest, gate, hist>>

SkipHome ==
  /\ At("fast", "home") /\ ~(mode = "HOME" /\ homeRequest)
  /\ Goto("fast", "walk")
  /\ KeepTick
  /\ UNCHANGED <<env, ik, polling, main, bringUp, motion, gate, hist>>

StanceDue == walk.tick /\ walk.pending /\ mode = "RUN" /\ ~homeRequest

\* _move_to_walking_stance(): not cancelled by the stop event.
BeginStance ==
  /\ At("fast", "walk") /\ StanceDue
  /\ bodyMotion' = TRUE
  /\ Goto("fast", "stance")
  /\ KeepTick
  /\ UNCHANGED <<env, ik, polling, main, bringUp, telemetry, homeRequest, walk, gate, hist>>

EndStance ==
  /\ At("fast", "stance")
  /\ bodyMotion' = FALSE
  /\ walk' = [walk EXCEPT !.pending = FALSE]
  /\ EndTick("fast")
  /\ UNCHANGED <<env, ik, polling, main, bringUp, telemetry, homeRequest, gate, hist>>

SkipStance ==
  /\ At("fast", "walk") /\ ~StanceDue
  /\ Goto("fast", "run")
  /\ KeepTick
  /\ UNCHANGED <<env, ik, polling, main, bringUp, motion, gate, hist>>

\* Not RUN, or act_shm could not be read.
SkipRun ==
  /\ At("fast", "run")
  /\ EndTick("fast")
  /\ UNCHANGED <<env, ik, polling, main, bringUp, motion, gate, hist>>
Running(isTeleop) == At("fast", "run") /\ mode = "RUN" /\ (uiMode = "teleop") = isTeleop

\* No gate outside teleop: the target goes straight to the publisher.
SendDirect ==
  /\ Running(FALSE)
  /\ prevTeleop' = FALSE
  /\ entry' = [NoEntry EXCEPT !.passed = TRUE]
  /\ EndTick("fast")
  /\ UNCHANGED <<env, ik, polling, main, bringUp, motion, hist>>

\* Only a switch into teleop takes a baseline of the IK sequence.
SwitchedGate ==
  IF prevTeleop THEN entry
  ELSE [NoEntry EXCEPT !.baseline = GateMode = "vr_ee" /\ published]

\* _maybe_rearm_entry_gate_on_target_jump(): a leader target may have jumped.
Gates ==
  LET e == SwitchedGate
      rearmed == [e EXCEPT !.passed = FALSE]
  IN IF GateMode = "leader_joint" /\ e.passed
       THEN {[e EXCEPT !.sampled = TRUE]} \cup {g \in {rearmed} : e.sampled}
       ELSE {e}

\* Variant of Fresh: any published target will do.
FreshAny(e) == published

\* _vr_entry_target_is_fresh()
Fresh(e) == published /\ (e.baseline => e.newer)

TeleopTick(e) ==
  /\ Running(TRUE)
  /\ prevTeleop' = TRUE
  /\ entry' = e
  /\ UNCHANGED <<env, ik, polling, main, bringUp, motion>>

\* Hold the measured pose while the target is stale, or ramp towards it.
WaitAtGate ==
  /\ \E g \in Gates : ~g.passed /\ TeleopTick(g)
  /\ EndTick("fast")
  /\ UNCHANGED hist

\* The measured pose is within the threshold: pass, and follow in this tick.
PassGate ==
  /\ \E g \in Gates :
       /\ ~g.passed
       /\ GateMode = "vr_ee" => Fresh(g)
       /\ TeleopTick([g EXCEPT !.passed = TRUE])
  /\ hist' = [hist EXCEPT !.entered = TRUE, !.enteredHome = TRUE]
  /\ EndTick("fast")

Follow ==
  /\ \E g \in Gates : g.passed /\ TeleopTick(g)
  /\ EndTick("fast")
  /\ UNCHANGED hist

\* _condition_teleop_target() raises on a non-finite target: the thread ends,
\* the worker lives on without it.
DieOnTarget ==
  /\ InvalidTargets
  /\ \E g \in Gates : (g.passed \/ GateMode # "vr_ee" \/ Fresh(g)) /\ TeleopTick(g)
  /\ Goto("fast", "stopped")
  /\ KeepTick
  /\ UNCHANGED hist
-----------------------------------------------------------------------------
(* run() of the main thread, and on_stop().                                *)

MainGoto(place) ==
  /\ main' = place
  /\ UNCHANGED <<env, ik, mode, pc, snap, reason, motion, gate, hist>>

Notice ==
  /\ main = "watch" /\ (stopThreads \/ stopEv)
  /\ stopThreads' = TRUE
  /\ MainGoto("joinSlow")
  /\ UNCHANGED bringUp

\* Places a thread may stay in for longer than thread_join_timeout_s.
MayOutlastJoin(t) ==
  \/ pc[t] \in {"lock", "build", "guard", "waitLow"}
  \/ pc[t] \in {"initMove", "homeMove"} /\ ~stopEv

\* Variant of Joined: a join without a timeout.
JoinedForGood(t) == pc[t] = "stopped"

Joined(t) == pc[t] = "stopped" \/ MayOutlastJoin(t)

JoinSlow ==
  /\ main = "joinSlow" /\ Joined("slow")
  /\ MainGoto("joinFast")
  /\ UNCHANGED <<stopThreads, bringUp>>

JoinFast ==
  /\ main = "joinFast" /\ Joined("fast")
  /\ MainGoto("stop")
  /\ UNCHANGED <<stopThreads, bringUp>>

OnStop ==
  /\ main = "stop"
  /\ MainGoto(IF ctrl = "up" THEN "stopping" ELSE "done")
  /\ UNCHANGED <<stopThreads, bringUp>>

\* ctrl.stop(), or abort() after it: Torque OFF, unless both calls fail (how
\* they go about it is in BodyController).
ControllerStopped ==
  /\ main = "stopping"
  /\ \/ torque' = "off" /\ UNCHANGED ctrl
     \/ ctrl' = "refused" /\ UNCHANGED torque
  /\ MainGoto("done")
  /\ UNCHANGED <<stopThreads, lock, lowState, builds>>
-----------------------------------------------------------------------------
(* The environment: writers of the bus, the robot, the IK worker.          *)

workerVars == <<polling, main, pc, snap, reason, motion, gate, hist>>

\* A writer sets or clears its first level now and clears the others later:
\* each is a call of its own on a shared event.
Write(command, w, name, value, clears) ==
  /\ command \in Commands
  /\ Alive /\ pending[w] = <<>> /\ ops < MaxOps
  /\ level' = [level EXCEPT ![name] = value]
  /\ pending' = [pending EXCEPT ![w] = clears]
  /\ ops' = ops + 1
  /\ UNCHANGED <<uiMode, stopEv, ik, bringUp, workerVars>>

\* set_level() of the web UI: start and home need "ready".
UiReady == Write("ready", "ui", "ready", TRUE, <<>>)
UiNotReady == Write("notReady", "ui", "ready", FALSE, <<"start", "home">>)
UiStart == level.ready /\ Write("start", "ui", "start", TRUE, <<"home">>)
UiHome == level.ready /\ Write("home", "ui", "home", TRUE, <<"start">>)
UiClear == \E name \in {"start", "home"} : Write("clear", "ui", name, FALSE, <<>>)
UiShutdown == Write("shutdown", "ui", "shutdown", TRUE, <<>>)

\* _sync_mode_with_record_state(): no look at "ready" or at the head guard.
RecordStart == Write("recordStart", "collect", "start", TRUE, <<"home">>)
RecordDone == Write("recordDone", "collect", "home", TRUE, <<"start">>)

FinishWrite(w) ==
  /\ Alive /\ pending[w] # <<>>
  /\ level' = [level EXCEPT ![Head(pending[w])] = FALSE]
  /\ pending' = [pending EXCEPT ![w] = Tail(@)]
  /\ UNCHANGED <<uiMode, ops, stopEv, ik, bringUp, workerVars>>

SelectMode ==
  /\ "select" \in Commands
  /\ Alive /\ ops < MaxOps
  /\ uiMode' \in SelectableModes \ {uiMode}
  /\ ops' = ops + 1
  /\ UNCHANGED <<level, pending, stopEv, ik, bringUp, workerVars>>

StopRequested ==
  /\ "stop" \in Commands
  /\ Alive /\ ~stopEv
  /\ stopEv' = TRUE
  /\ UNCHANGED <<level, pending, uiMode, ops, ik, bringUp, workerVars>>

\* The subscriber exists once a controller has been constructed.
LowStateArrives ==
  /\ Alive /\ ~lowState /\ builds > 0
  /\ lowState' = TRUE
  /\ UNCHANGED <<env, ik, ctrl, lock, torque, builds, workerVars>>

\* A tick of the IK worker: it publishes in HOME (the measured pose) and in
\* RUN, unless it still waits for a reference or for input.
IkTick ==
  LET next == StepMode(ikMode, level).mode IN
  /\ Alive /\ IkRunning /\ ikMode # "EXIT"
  /\ ikMode' = next
  /\ \/ UNCHANGED <<published, entry, hist>>
     \/ /\ next \in {"HOME", "RUN"}
        /\ published' = TRUE
        /\ entry' = [entry EXCEPT !.newer = entry.baseline]
        /\ hist' = [hist EXCEPT !.fresh = TRUE]
  /\ UNCHANGED <<env, polling, main, pc, snap, reason, bringUp, motion, prevTeleop>>
-----------------------------------------------------------------------------
ThreadStep(t) ==
  \/ Leave(t) \/ ReadLevels(t) \/ ReadHome(t) \/ Poll(t)
  \/ ControllerReady(t) \/ ControllerNotReady(t) \/ WantController(t)
  \/ Acquire(t) \/ Construct(t) \/ ConstructFails(t) \/ GuardFails(t)
  \/ Publish(t) \/ FirstLowState(t) \/ EndInit(t)

SlowStep == ThreadStep("slow") \/ ThrottledTick \/ TelemetryTick

FastStep ==
  \/ ThreadStep("fast") \/ BusyTick \/ TakeEdges
  \/ BeginHome \/ EndHome \/ SkipHome \/ BeginStance \/ EndStance \/ SkipStance
  \/ SkipRun \/ SendDirect \/ WaitAtGate \/ PassGate \/ Follow \/ DieOnTarget

MainStep == Notice \/ JoinSlow \/ JoinFast \/ OnStop \/ ControllerStopped

Operator ==
  \/ UiReady \/ UiNotReady \/ UiStart \/ UiHome \/ UiClear \/ UiShutdown
  \/ RecordStart \/ RecordDone \/ SelectMode

Terminated == ~Alive /\ UNCHANGED vars

Next ==
  \/ SlowStep \/ FastStep \/ MainStep
  \/ Operator \/ \E w \in Writers : FinishWrite(w)
  \/ StopRequested \/ LowStateArrives \/ IkTick
  \/ Terminated

\* The loops run at a fixed rate and every wait of theirs but
\* wait_for_state(None) has a timeout; a writer finishes what it began.
Fairness ==
  /\ WF_vars(SlowStep) /\ WF_vars(FastStep) /\ WF_vars(MainStep)
  /\ \A w \in Writers : WF_vars(FinishWrite(w))

Spec == Init /\ [][Next]_vars
FairSpec == Spec /\ Fairness
-----------------------------------------------------------------------------
(* Properties.                                                             *)

\* Every variable has its type.
EnvOK ==
  /\ level \in Levels /\ pending \in [Writers -> Seq({"start", "home"})]
  /\ uiMode \in SelectableModes /\ ops \in 0..MaxOps /\ stopEv \in BOOLEAN
IkOK == ikMode \in Modes /\ published \in BOOLEAN
MainOK ==
  /\ mode \in Modes /\ stopThreads \in BOOLEAN
  /\ main \in {"watch", "joinSlow", "joinFast", "stop", "stopping", "done"}
ThreadsOK ==
  /\ pc \in [Threads -> Places] /\ pc["slow"] \notin FastPlaces
  /\ snap \in [Threads -> Levels] /\ reason \in [Threads -> Reasons]
BringUpOK ==
  /\ ctrl \in {"none", "up", "failed", "aborted", "refused"} /\ lock \in Threads \cup {"free"}
  /\ torque \in {"on", "off"} /\ lowState \in BOOLEAN /\ builds \in Nat
MotionOK ==
  /\ bodyMotion \in BOOLEAN /\ telemetry \in BOOLEAN /\ homeRequest \in BOOLEAN
  /\ walk \in [tick : BOOLEAN, prev : BOOLEAN, pending : BOOLEAN]
GateOK == entry \in Entry /\ prevTeleop \in BOOLEAN /\ hist \in History
TypeOK ==
  EnvOK /\ IkOK /\ MainOK /\ ThreadsOK /\ BringUpOK /\ MotionOK /\ GateOK

\* The body controller is constructed once, whichever threads race for it
\* ("exactly once", the comment of _create_controller()).
ControllerBuiltOnce == builds <= 1

\* When both threads have ended and the worker is done, the torque is off,
\* unless the constructor itself raised or the robot refused the service call:
\* a failing start guard and a stop at any other moment take it away.
TorqueOffUnlessFailed ==
  (main = "done" /\ \A t \in Threads : pc[t] = "stopped")
    => (torque = "off" \/ ctrl \in {"failed", "refused"})

\* Once homing began, no teleoperation target is followed through a gate that
\* passed before it: do_fast() re-arms the gate together with the homing.
HomeForcesEntry == (prevTeleop /\ entry.passed) => hist.enteredHome

\* On the first RUN, a VR gate passes only on a target the IK worker published
\* after RUN began, never on one it left behind in HOME.
FirstStartFresh ==
  [][PassGate /\ hist.runs = 1 /\ GateMode = "vr_ee" => hist.fresh]_vars

\* The worker's mode, polled by two threads with stale snapshots, is a mode of
\* ModeLifecycle: EXIT is final, whatever the other thread still has in hand.
Life == INSTANCE ModeLifecycle WITH mode <- mode
ModeFollowsLifecycle == Life!Spec

\* A shutdown, by level or by stop event, ends the worker, even while a thread
\* waits for a LowState that never comes.
ShutdownCompletes == (stopEv \/ level.shutdown) ~> ~Alive

\* When "start" stays cleared the worker leaves RUN for good (or stops): some
\* thread still polls, whatever the other is doing.
PauseStops == (<>[]~level.start) => <>[](mode # "RUN" \/ stopThreads)

\* README.md:83: teleoperation proper begins only when the entry interpolation
\* has completed; so no target is followed before the gate passed since Start.
EntryAfterEveryStart == [][Follow => hist.entered]_vars

\* tests/test_worker_control_runtime.py: VR entry waits for an IK target
\* published after Start.
StartWaitsForFreshTarget == [][PassGate => hist.fresh]_vars

\* README.md:84: "home" returns the robot to the default pose.
HomeServed ==
  (mode = "HOME" /\ Usable) ~> (hist.homed \/ mode # "HOME" \/ stopThreads)

\* README.md:84: a shutdown ends with the torque off (here: when the constructor
\* did not raise and the robot refused no call).
TorqueOffBeforeExit ==
  main = "done" => (torque = "off" \/ ctrl \in {"failed", "refused"})
==============================================================================
