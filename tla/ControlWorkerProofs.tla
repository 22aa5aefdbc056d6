------------------------- MODULE ControlWorkerProofs -------------------------
(***************************************************************************)
(* Proofs about ControlWorker, for every gate mode, set of selectable modes *)
(* and commands, and every bound on them.                                   *)
(***************************************************************************)
EXTENDS ControlWorker, SequenceTheorems, TLAPS

\* step() always answers with a mode and a reason the handlers know.
LEMMA StepModeTyped ==
  ASSUME NEW m \in Modes, NEW ev \in Levels
  PROVE  /\ StepMode(m, ev).mode \in Modes
         /\ StepMode(m, ev).reason \in Reasons
BY DEF StepMode, Modes, Levels, Reasons, StartReasons, Result,
       FromWaitConnect, FromWaitStart, FromRun, FromHome, FromPause

USE DEF Threads, Writers

\* The initial state: no event set, nobody writing, both threads about to poll.
LEMMA InitTyped == ASSUME Init PROVE TypeOK
<1>1. pending \in [Writers -> Seq({"start", "home"})]
  BY EmptySeq DEF Init
<1>2. EnvOK
  <2>1. level \in Levels
    BY DEF Init, NoLevels, Levels
  <2>2. uiMode \in SelectableModes /\ ops \in 0..MaxOps /\ stopEv \in BOOLEAN
    <3>1. ops = 0
      BY DEF Init
    <3>2. ops \in 0..MaxOps
      BY <3>1, MaxOpsAssumption
    <3> QED
      BY <3>2 DEF Init
  <2> QED
    BY <1>1, <2>1, <2>2 DEF EnvOK
<1>3. ThreadsOK
  BY DEF Init, Places, FastPlaces, NoLevels, Levels, Reasons, ThreadsOK
<1>4. GateOK
  <2>1. entry \in Entry /\ prevTeleop \in BOOLEAN
    BY DEF Init, NoEntry, Entry
  <2>2. hist \in History
    <3>1. hist = [entered |-> FALSE, enteredHome |-> TRUE, fresh |-> FALSE,
                  homed |-> FALSE, runs |-> 0]
      BY DEF Init
    <3> QED
      BY <3>1 DEF History
  <2> QED
    BY <2>1, <2>2 DEF GateOK
<1>5. IkOK /\ MainOK /\ BringUpOK /\ MotionOK
  BY DEF Init, Modes, IkOK, MainOK, BringUpOK, MotionOK
<1> QED
  BY <1>2, <1>3, <1>4, <1>5 DEF TypeOK

\* What a step leaves alone keeps its type.
LEMMA Kept ==
  ASSUME TypeOK
  PROVE  /\ UNCHANGED env => EnvOK'
         /\ UNCHANGED ik => IkOK'
         /\ UNCHANGED <<polling, main>> => MainOK'
         /\ UNCHANGED <<pc, snap, reason>> => ThreadsOK'
         /\ UNCHANGED bringUp => BringUpOK'
         /\ UNCHANGED motion => MotionOK'
         /\ UNCHANGED <<gate, hist>> => GateOK'
BY DEF TypeOK, EnvOK, IkOK, MainOK, ThreadsOK, BringUpOK, MotionOK, GateOK,
       env, ik, polling, bringUp, motion, gate

\* A move of a thread to a place of its own.
LEMMA GotoTyped ==
  ASSUME ThreadsOK, NEW t \in Threads, NEW place \in Places, Goto(t, place),
         t = "fast" \/ place \notin FastPlaces
  PROVE  pc' \in [Threads -> Places] /\ pc'["slow"] \notin FastPlaces
BY DEF ThreadsOK, Goto

\* The read side of a tick: leave the loop, read the events, read "home".
LEMMA ReadsTyped ==
  ASSUME TypeOK, NEW t \in Threads
  PROVE  /\ Leave(t) => TypeOK'
         /\ ReadLevels(t) => TypeOK'
         /\ ReadHome(t) => TypeOK'
<1> USE Kept DEF TypeOK
<1>1. CASE Leave(t)
  BY <1>1 DEF Leave, ThreadsOK, MainOK, Goto, KeepTick, Places, FastPlaces
<1>2. CASE ReadLevels(t)
  BY <1>2 DEF ReadLevels, EnvOK, ThreadsOK, Goto, Places, FastPlaces, Levels
<1>3. CASE ReadHome(t)
  BY <1>3 DEF ReadHome, EnvOK, ThreadsOK, Goto, Places, FastPlaces, Levels
<1> QED BY <1>1, <1>2, <1>3

\* The poll: a mode and a reason of step(), and the history that goes with it.
LEMMA NewModeTyped ==
  ASSUME TypeOK, NEW m \in Modes, NewMode(m)
  PROVE  mode' \in Modes /\ hist' \in History
<1>1. hist \in History
  BY DEF TypeOK, GateOK
<1>2. hist.runs \in 0..2 /\ (IF hist.runs = 2 THEN 2 ELSE hist.runs + 1) \in 0..2
  BY <1>1 DEF History
<1>3. CASE m = "RUN" /\ mode # "RUN"
  BY <1>1, <1>2, <1>3 DEF NewMode, History
<1>4. CASE m = "HOME" /\ mode # "HOME"
  BY <1>1, <1>4 DEF NewMode, History
<1>5. CASE m = mode \/ m \notin {"RUN", "HOME"}
  BY <1>1, <1>5 DEF NewMode
<1> QED
  BY <1>3, <1>4, <1>5 DEF NewMode

\* The poll puts the mode and the reason of step() where the handlers look.
LEMMA PollTyped ==
  ASSUME TypeOK, NEW t \in Threads, Poll(t)
  PROVE  TypeOK'
<1> DEFINE next == StepMode(mode, snap[t])
<1>1. snap[t] \in Levels /\ mode \in Modes
  BY DEF TypeOK, ThreadsOK, MainOK
<1>2. next.mode \in Modes /\ next.reason \in Reasons
  BY <1>1, StepModeTyped
<1>3. NewMode(next.mode) /\ mode' \in Modes /\ hist' \in History
  BY <1>2, NewModeTyped DEF Poll
<1>4. [NoLevels EXCEPT !.ready = snap[t].ready] \in Levels
  BY <1>1 DEF Levels, NoLevels
<1>5. ThreadsOK'
  <2> HIDE DEF next
  <2>1. CASE next.mode = "EXIT"
    BY <2>1 DEF Poll, next, TypeOK, ThreadsOK, Goto, KeepTick, Places, FastPlaces
  <2>2. CASE next.mode # "EXIT"
    BY <2>2, <1>2, <1>4 DEF Poll, next, TypeOK, ThreadsOK, Goto, Places, FastPlaces
  <2> QED
    BY <2>1, <2>2
<1>6. MainOK'
  BY <1>3 DEF Poll, TypeOK, MainOK
<1>7. GateOK'
  BY <1>3 DEF Poll, TypeOK, GateOK, gate
<1> QED
  BY <1>5, <1>6, <1>7, Kept DEF Poll, TypeOK

\* The steps of the bring-up, from the readiness test to the end of the pose sequence.
LEMMA BringUpTyped ==
  ASSUME TypeOK, NEW t \in Threads
  PROVE  /\ ControllerReady(t) => TypeOK'
         /\ ControllerNotReady(t) => TypeOK'
         /\ WantController(t) => TypeOK'
         /\ Acquire(t) => TypeOK'
         /\ Construct(t) => TypeOK'
         /\ ConstructFails(t) => TypeOK'
         /\ GuardFails(t) => TypeOK'
         /\ Publish(t) => TypeOK'
         /\ FirstLowState(t) => TypeOK'
         /\ EndInit(t) => TypeOK'
<1> USE Kept DEF TypeOK
<1>0. builds + 1 \in Nat
  BY DEF BringUpOK
<1>1. CASE ControllerReady(t)
  BY <1>1 DEF ControllerReady, ThreadsOK, Goto, KeepTick, Places, FastPlaces
<1>2. CASE ControllerNotReady(t)
  BY <1>2 DEF ControllerNotReady, ThreadsOK, EndTick, Goto, Places, FastPlaces,
              NoLevels, Levels, Reasons
<1>3. CASE WantController(t)
  BY <1>3 DEF WantController, ThreadsOK, Goto, KeepTick, Places, FastPlaces
<1>4. CASE Acquire(t)
  BY <1>4 DEF Acquire, ThreadsOK, BringUpOK, Goto, KeepTick, Places, FastPlaces
<1>5. CASE Construct(t)
  BY <1>5, <1>0 DEF Construct, ThreadsOK, BringUpOK, Goto, KeepTick, Places, FastPlaces
<1>6. CASE ConstructFails(t)
  BY <1>6, <1>0 DEF ConstructFails, Blocked, ThreadsOK, BringUpOK, Goto, KeepTick,
                    Places, FastPlaces
<1>7. CASE GuardFails(t)
  BY <1>7 DEF GuardFails, Blocked, ThreadsOK, BringUpOK, Goto, KeepTick, Places, FastPlaces
<1>8. CASE Publish(t)
  BY <1>8 DEF Publish, ThreadsOK, BringUpOK, Goto, KeepTick, Places, FastPlaces
<1>9. CASE FirstLowState(t)
  BY <1>9 DEF FirstLowState, ThreadsOK, MotionOK, Goto, KeepTick, Places, FastPlaces, Moving
<1>10. CASE EndInit(t)
  <2>1. hist' \in History
    BY <1>10 DEF EndInit, GateOK, History
  <2> QED
    BY <1>10, <2>1 DEF EndInit, ThreadsOK, MotionOK, GateOK, gate, Goto, KeepTick,
                       Places, FastPlaces
<1> QED
  BY <1>1, <1>2, <1>3, <1>4, <1>5, <1>6, <1>7, <1>8, <1>9, <1>10

\* The two ends of a do_slow() tick.
LEMMA SlowTicksTyped ==
  ASSUME TypeOK
  PROVE  /\ ThrottledTick => TypeOK'
         /\ TelemetryTick => TypeOK'
<1> USE Kept DEF TypeOK
<1>1. CASE ThrottledTick
  BY <1>1 DEF ThrottledTick, ThreadsOK, EndTick, Goto, Places, FastPlaces,
              NoLevels, Levels, Reasons
<1>2. CASE TelemetryTick
  BY <1>2 DEF TelemetryTick, MotionOK, ThreadsOK, EndTick, Goto, Places, FastPlaces,
              NoLevels, Levels, Reasons
<1> QED
  BY <1>1, <1>2

\* do_fast() up to RUN: edges, homing and the walking stance.
LEMMA FastMovesTyped ==
  ASSUME TypeOK
  PROVE  /\ BusyTick => TypeOK'
         /\ TakeEdges => TypeOK'
         /\ BeginHome => TypeOK'
         /\ EndHome => TypeOK'
         /\ SkipHome => TypeOK'
         /\ BeginStance => TypeOK'
         /\ EndStance => TypeOK'
         /\ SkipStance => TypeOK'
         /\ SkipRun => TypeOK'
<1> USE Kept DEF TypeOK
<1>1. CASE BusyTick
  BY <1>1 DEF BusyTick, ThreadsOK, EndTick, Goto, Places, FastPlaces,
              NoLevels, Levels, Reasons
<1>2. CASE TakeEdges
  <2>1. ThreadsOK'
    BY <1>2 DEF TakeEdges, ThreadsOK, Goto, Places, FastPlaces, Reasons
  <2>2. MotionOK'
    BY <1>2 DEF TakeEdges, MotionOK
  <2>3. GateOK'
    BY <1>2 DEF TakeEdges, GateOK, Entry, NoEntry
  <2> QED
    BY <1>2, <2>1, <2>2, <2>3 DEF TakeEdges
<1>3. CASE BeginHome
  <2>1. hist' \in History
    BY <1>3 DEF BeginHome, GateOK, History
  <2>2. GateOK'
    BY <1>3, <2>1 DEF BeginHome, GateOK, Entry, NoEntry
  <2>3. ThreadsOK'
    BY <1>3 DEF BeginHome, ThreadsOK, Goto, KeepTick, Places, FastPlaces, Moving
  <2> QED
    BY <1>3, <2>2, <2>3 DEF BeginHome, MotionOK
<1>4. CASE EndHome
  BY <1>4 DEF EndHome, ThreadsOK, MotionOK, Goto, KeepTick, Places, FastPlaces
<1>5. CASE SkipHome
  BY <1>5 DEF SkipHome, ThreadsOK, Goto, KeepTick, Places, FastPlaces
<1>6. CASE BeginStance
  BY <1>6 DEF BeginStance, ThreadsOK, MotionOK, Goto, KeepTick, Places, FastPlaces, Moving
<1>7. CASE EndStance
  BY <1>7 DEF EndStance, MotionOK, ThreadsOK, EndTick, Goto, Places, FastPlaces,
              NoLevels, Levels, Reasons
<1>8. CASE SkipStance
  BY <1>8 DEF SkipStance, ThreadsOK, Goto, KeepTick, Places, FastPlaces
<1>9. CASE SkipRun
  BY <1>9 DEF SkipRun, ThreadsOK, EndTick, Goto, Places, FastPlaces,
              NoLevels, Levels, Reasons
<1> QED
  BY <1>1, <1>2, <1>3, <1>4, <1>5, <1>6, <1>7, <1>8, <1>9

\* The gate a teleop tick looks at is a gate.
LEMMA GatesTyped == ASSUME TypeOK, NEW g \in Gates PROVE g \in Entry
BY DEF TypeOK, GateOK, Gates, SwitchedGate, Entry, NoEntry

\* do_fast() in RUN: direct, waiting at the gate, passing, following, dying.
LEMMA RunTicksTyped ==
  ASSUME TypeOK
  PROVE  /\ SendDirect => TypeOK'
         /\ WaitAtGate => TypeOK'
         /\ PassGate => TypeOK'
         /\ Follow => TypeOK'
         /\ DieOnTarget => TypeOK'
<1> USE Kept DEF TypeOK
<1>0. ASSUME EndTick("fast") PROVE ThreadsOK'
  BY <1>0 DEF ThreadsOK, EndTick, Goto, Places, FastPlaces, NoLevels, Levels, Reasons
<1>1. CASE SendDirect
  <2>1. GateOK'
    BY <1>1 DEF SendDirect, GateOK, Entry, NoEntry
  <2> QED
    BY <1>0, <1>1, <2>1 DEF SendDirect
<1>2. CASE WaitAtGate
  <2>1. PICK g \in Gates : ~g.passed /\ TeleopTick(g)
    BY <1>2 DEF WaitAtGate
  <2>2. GateOK'
    BY <1>2, <2>1, GatesTyped DEF WaitAtGate, TeleopTick, GateOK
  <2> QED
    BY <1>0, <1>2, <2>1, <2>2 DEF WaitAtGate, TeleopTick
<1>3. CASE PassGate
  <2>1. PICK g \in Gates : TeleopTick([g EXCEPT !.passed = TRUE])
    BY <1>3 DEF PassGate
  <2>2. [g EXCEPT !.passed = TRUE] \in Entry
    BY GatesTyped DEF Entry
  <2>3. hist' \in History
    BY <1>3 DEF PassGate, GateOK, History
  <2>4. GateOK'
    BY <2>1, <2>2, <2>3 DEF TeleopTick, GateOK
  <2> QED
    BY <1>0, <1>3, <2>1, <2>4 DEF PassGate, TeleopTick
<1>4. CASE Follow
  <2>1. PICK g \in Gates : g.passed /\ TeleopTick(g)
    BY <1>4 DEF Follow
  <2>2. GateOK'
    BY <1>4, <2>1, GatesTyped DEF Follow, TeleopTick, GateOK
  <2> QED
    BY <1>0, <1>4, <2>1, <2>2 DEF Follow, TeleopTick
<1>5. CASE DieOnTarget
  <2>1. PICK g \in Gates : TeleopTick(g)
    BY <1>5 DEF DieOnTarget
  <2>2. GateOK'
    BY <1>5, <2>1, GatesTyped DEF DieOnTarget, TeleopTick, GateOK
  <2>3. ThreadsOK'
    BY <1>5 DEF DieOnTarget, ThreadsOK, Goto, KeepTick, Places, FastPlaces
  <2> QED
    BY <1>5, <2>1, <2>2, <2>3 DEF DieOnTarget, TeleopTick
<1> QED
  BY <1>1, <1>2, <1>3, <1>4, <1>5

\* The main thread: notice the stop, join both loops, stop the controller.
LEMMA MainTyped == ASSUME TypeOK, MainStep PROVE TypeOK'
<1> USE Kept DEF TypeOK
<1>1. CASE Notice
  BY <1>1 DEF Notice, MainGoto, MainOK
<1>2. CASE JoinSlow
  BY <1>2 DEF JoinSlow, MainGoto, MainOK
<1>3. CASE JoinFast
  BY <1>3 DEF JoinFast, MainGoto, MainOK
<1>4. CASE OnStop
  BY <1>4 DEF OnStop, MainGoto, MainOK
<1>5. CASE ControllerStopped
  BY <1>5 DEF ControllerStopped, MainGoto, MainOK, BringUpOK
<1> QED
  BY <1>1, <1>2, <1>3, <1>4, <1>5 DEF MainStep

\* What every action of the environment but LowStateArrives leaves alone.
LEMMA WorkerKept ==
  ASSUME TypeOK, UNCHANGED workerVars
  PROVE  MainOK' /\ ThreadsOK' /\ MotionOK' /\ GateOK'
BY Kept DEF workerVars

\* A call of a writer of the bus, with the clears it still owes.
LEMMA WriteTyped ==
  ASSUME TypeOK, NEW command, NEW w \in Writers,
         NEW name \in {"ready", "start", "home", "shutdown"}, NEW value \in BOOLEAN,
         NEW clears \in Seq({"start", "home"}), Write(command, w, name, value, clears)
  PROVE  TypeOK'
<1>1. level \in Levels /\ pending \in [Writers -> Seq({"start", "home"})]
  BY DEF TypeOK, EnvOK
<1>2. level' \in Levels
  BY <1>1 DEF Write, Levels
<1>3. pending' \in [Writers -> Seq({"start", "home"})]
  BY <1>1 DEF Write
<1>4. ops' \in 0..MaxOps
  <2>1. ops \in 0..MaxOps /\ ops < MaxOps /\ ops' = ops + 1
    BY DEF TypeOK, EnvOK, Write
  <2> QED
    BY <2>1, MaxOpsAssumption
<1>5. EnvOK'
  BY <1>2, <1>3, <1>4 DEF TypeOK, EnvOK, Write
<1> QED
  BY <1>5, WorkerKept, Kept DEF TypeOK, Write

\* Everything the operator and the record worker ask for.
LEMMA OperatorTyped == ASSUME TypeOK, Operator PROVE TypeOK'
<1>1. <<>> \in Seq({"start", "home"}) /\ <<"start">> \in Seq({"start", "home"})
      /\ <<"home">> \in Seq({"start", "home"})
      /\ <<"start", "home">> \in Seq({"start", "home"})
  OBVIOUS
<1>2. CASE SelectMode
  <2>1. ops' \in 0..MaxOps
    <3>1. ops \in 0..MaxOps /\ ops < MaxOps /\ ops' = ops + 1
      BY <1>2 DEF TypeOK, EnvOK, SelectMode
    <3> QED
      BY <3>1, MaxOpsAssumption
  <2>2. EnvOK'
    BY <1>2, <2>1 DEF SelectMode, TypeOK, EnvOK
  <2> QED
    BY <1>2, <2>2, WorkerKept, Kept DEF SelectMode, TypeOK
<1>3. CASE UiReady
  BY <1>1, <1>3, WriteTyped DEF UiReady
<1>4. CASE UiNotReady
  BY <1>1, <1>4, WriteTyped DEF UiNotReady
<1>5. CASE UiStart
  BY <1>1, <1>5, WriteTyped DEF UiStart
<1>6. CASE UiHome
  BY <1>1, <1>6, WriteTyped DEF UiHome
<1>7. CASE UiClear
  BY <1>1, <1>7, WriteTyped DEF UiClear
<1>8. CASE UiShutdown
  BY <1>1, <1>8, WriteTyped DEF UiShutdown
<1>9. CASE RecordStart
  BY <1>1, <1>9, WriteTyped DEF RecordStart
<1>10. CASE RecordDone
  BY <1>1, <1>10, WriteTyped DEF RecordDone
<1> QED
  BY <1>2, <1>3, <1>4, <1>5, <1>6, <1>7, <1>8, <1>9, <1>10 DEF Operator

\* A writer's next clear.
LEMMA FinishWriteTyped ==
  ASSUME TypeOK, NEW w \in Writers, FinishWrite(w)
  PROVE  TypeOK'
<1>1. level \in Levels /\ pending \in [Writers -> Seq({"start", "home"})]
  BY DEF TypeOK, EnvOK
<1>2. Head(pending[w]) \in {"start", "home"} /\ Tail(pending[w]) \in Seq({"start", "home"})
  BY <1>1, HeadTailProperties DEF FinishWrite
<1>3. level' \in Levels
  BY <1>1, <1>2 DEF FinishWrite, Levels
<1>4. pending' \in [Writers -> Seq({"start", "home"})]
  BY <1>1, <1>2 DEF FinishWrite
<1>5. EnvOK'
  BY <1>3, <1>4 DEF TypeOK, EnvOK, FinishWrite
<1> QED
  BY <1>5, WorkerKept, Kept DEF TypeOK, FinishWrite

\* The supervisor's stop event, the first LowState and a tick of the IK worker.
LEMMA EventsTyped ==
  ASSUME TypeOK
  PROVE  /\ StopRequested => TypeOK'
         /\ LowStateArrives => TypeOK'
         /\ IkTick => TypeOK'
<1>1. CASE StopRequested
  BY <1>1, WorkerKept, Kept DEF StopRequested, TypeOK, EnvOK
<1>2. CASE LowStateArrives
  BY <1>2, WorkerKept, Kept DEF LowStateArrives, TypeOK, BringUpOK
<1>3. CASE IkTick
  <2>1. ikMode' \in Modes
    BY <1>3, StepModeTyped DEF IkTick, TypeOK, IkOK, EnvOK
  <2>2. IkOK'
    BY <1>3, <2>1 DEF IkTick, TypeOK, IkOK
  <2>3. entry' \in Entry /\ hist' \in History
    BY <1>3 DEF IkTick, TypeOK, GateOK, Entry, History
  <2>4. GateOK'
    BY <1>3, <2>3 DEF IkTick, TypeOK, GateOK
  <2> QED
    BY <1>3, <2>2, <2>4, Kept DEF IkTick, TypeOK
<1> QED
  BY <1>1, <1>2, <1>3

\* A stutter keeps every type.
LEMMA StutterTyped == ASSUME TypeOK, UNCHANGED vars PROVE TypeOK'
BY Kept DEF TypeOK, vars

\* TypeOK is inductive by itself.
LEMMA NextTyped == ASSUME TypeOK, [Next]_vars PROVE TypeOK'
<1>1. ASSUME NEW t \in Threads, ThreadStep(t) PROVE TypeOK'
  BY <1>1, ReadsTyped, PollTyped, BringUpTyped DEF ThreadStep
<1>2. CASE SlowStep
  BY <1>1, <1>2, SlowTicksTyped DEF SlowStep
<1>3. CASE FastStep
  BY <1>1, <1>3, FastMovesTyped, RunTicksTyped DEF FastStep
<1>4. CASE MainStep
  BY <1>4, MainTyped
<1>5. CASE Operator \/ \E w \in Writers : FinishWrite(w)
  BY <1>5, OperatorTyped, FinishWriteTyped
<1>6. CASE StopRequested \/ LowStateArrives \/ IkTick
  BY <1>6, EventsTyped
<1>7. CASE Terminated \/ UNCHANGED vars
  BY <1>7, StutterTyped DEF Terminated
<1> QED
  BY <1>2, <1>3, <1>4, <1>5, <1>6, <1>7 DEF Next

\* The state always has its type: the prefix of every other argument here.
THEOREM Typing == Spec => []TypeOK
BY InitTyped, NextTyped, PTL DEF Spec
-----------------------------------------------------------------------------
(* The bring-up: who holds the lock builds, and what is built is published  *)
(* before the lock is free again.                                          *)

Building == {"build", "guard"}

BuildInv ==
  /\ \A t \in Threads : lock = t <=> pc[t] \in Building
  /\ ctrl # "none" => lock = "free" /\ builds = 1
  /\ ctrl = "none" /\ (\A t \in Threads : pc[t] # "guard") => builds = 0
  /\ \A t \in Threads : pc[t] = "guard" => builds = 1
  /\ torque = "on" =>
       ctrl \in {"up", "failed", "refused"} \/ \E t \in Threads : pc[t] = "guard"
  /\ main = "stopping" => ctrl = "up"

\* No thread enters or leaves the critical section.
Elsewhere ==
  /\ UNCHANGED <<ctrl, lock, builds, torque>>
  /\ main' = "stopping" => main = "stopping" \/ ctrl = "up"
  /\ \A t \in Threads :
       pc[t] \in Building \/ pc'[t] \in Building => pc'[t] = pc[t]

BuildStep(t) ==
  Acquire(t) \/ Construct(t) \/ ConstructFails(t) \/ GuardFails(t) \/ Publish(t)

\* Every step is a step of the critical section, Torque OFF, or neither.
LEMMA StepsOfBringUp ==
  ASSUME TypeOK, [Next]_vars
  PROVE  Elsewhere \/ (\E t \in Threads : BuildStep(t)) \/ ControllerStopped
<1>0. pc \in [Threads -> Places]
  BY DEF TypeOK, ThreadsOK
<1>1. ASSUME NEW t \in Threads, ThreadStep(t), ~BuildStep(t) PROVE Elsewhere
  BY <1>0, <1>1 DEF ThreadStep, BuildStep, Leave, ReadLevels, ReadHome, Poll,
     ControllerReady, ControllerNotReady, WantController, FirstLowState, EndInit,
     At, Goto, EndTick, Elsewhere, Building, bringUp
<1>2. CASE ThrottledTick \/ TelemetryTick
  BY <1>0, <1>2 DEF ThrottledTick, TelemetryTick, At, EndTick, Goto, Elsewhere,
     Building, bringUp
<1>3. CASE BusyTick \/ TakeEdges \/ BeginHome \/ EndHome \/ SkipHome
           \/ BeginStance \/ EndStance \/ SkipStance \/ SkipRun
  BY <1>0, <1>3 DEF BusyTick, TakeEdges, BeginHome, EndHome, SkipHome, BeginStance,
     EndStance, SkipStance, SkipRun, At, EndTick, Goto, Elsewhere, Building, bringUp
<1>4. CASE SendDirect \/ WaitAtGate \/ PassGate \/ Follow \/ DieOnTarget
  BY <1>0, <1>4 DEF SendDirect, WaitAtGate, PassGate, Follow, DieOnTarget, TeleopTick,
     Running, At, EndTick, Goto, Elsewhere, Building, bringUp
<1>5. CASE MainStep /\ ~ControllerStopped
  BY <1>5 DEF MainStep, Notice, JoinSlow, JoinFast, OnStop, MainGoto, Elsewhere, bringUp
<1>6. CASE Operator \/ \E w \in Writers : FinishWrite(w)
  BY <1>6 DEF Operator, UiReady, UiNotReady, UiStart, UiHome, UiClear, UiShutdown,
     RecordStart, RecordDone, SelectMode, Write, FinishWrite, workerVars, bringUp, Elsewhere
<1>7. CASE StopRequested \/ LowStateArrives \/ IkTick
  BY <1>7 DEF StopRequested, LowStateArrives, IkTick, workerVars, bringUp, Elsewhere
<1>8. CASE Terminated \/ UNCHANGED vars
  BY <1>8 DEF Terminated, vars, bringUp, Elsewhere
<1> QED
  BY <1>1, <1>2, <1>3, <1>4, <1>5, <1>6, <1>7, <1>8 DEF Next, SlowStep, FastStep

\* Nobody builds at the start.
LEMMA InitBuild == ASSUME Init PROVE BuildInv
BY DEF Init, BuildInv, Building

\* The critical section: acquire, construct, fail or publish.
LEMMA BuildStepKeepsInv ==
  ASSUME TypeOK, BuildInv, NEW t \in Threads, BuildStep(t)
  PROVE  BuildInv'
<1>0. pc \in [Threads -> Places] /\ lock \in Threads \cup {"free"}
  BY DEF TypeOK, ThreadsOK, BringUpOK
<1>1. CASE Acquire(t)
  BY <1>0, <1>1 DEF Acquire, At, Goto, BuildInv, Building
<1>2. CASE Construct(t)
  <2>1. builds = 0
    BY <1>0, <1>2 DEF Construct, At, BuildInv, Building
  <2>2. builds' = 1
    BY <1>2, <2>1 DEF Construct
  <2> QED
    BY <1>0, <1>2, <2>2 DEF Construct, At, Goto, BuildInv, Building
<1>3. CASE ConstructFails(t)
  <2>1. builds = 0
    BY <1>0, <1>3 DEF ConstructFails, At, BuildInv, Building
  <2>2. builds' = 1
    BY <1>3, <2>1 DEF ConstructFails
  <2> QED
    BY <1>0, <1>3, <2>2 DEF ConstructFails, Blocked, At, Goto, BuildInv, Building
<1>4. CASE GuardFails(t)
  BY <1>0, <1>4 DEF GuardFails, Blocked, At, Goto, BuildInv, Building
<1>5. CASE Publish(t)
  BY <1>0, <1>5 DEF Publish, At, Goto, BuildInv, Building
<1> QED
  BY <1>1, <1>2, <1>3, <1>4, <1>5 DEF BuildStep

\* BuildInv is inductive under TypeOK.
LEMMA NextKeepsBuildInv == ASSUME TypeOK, BuildInv, [Next]_vars PROVE BuildInv'
<1>1. CASE Elsewhere
  BY <1>1 DEF Elsewhere, BuildInv, Building
<1>2. CASE ControllerStopped
  BY <1>2 DEF ControllerStopped, MainGoto, BuildInv, Building
<1> QED
  BY <1>1, <1>2, BuildStepKeepsInv, StepsOfBringUp

\* _create_controller() constructs one controller, whichever threads race.
THEOREM BuiltOnce == Spec => []ControllerBuiltOnce
<1>1. BuildInv => ControllerBuiltOnce
  <2>1. BuildInv => builds = 0 \/ builds = 1
    BY DEF BuildInv
  <2> QED
    BY <2>1 DEF ControllerBuiltOnce
<1> QED
  BY <1>1, InitBuild, NextKeepsBuildInv, Typing, PTL DEF Spec
-----------------------------------------------------------------------------
(* The stop: what the worker leaves behind.                                *)

\* Only on_stop() ends the worker, and an ended worker does nothing more.
LEMMA StepsOfMain ==
  ASSUME TypeOK, [Next]_vars
  PROVE  /\ main = "done" => UNCHANGED <<main, pc, ctrl, torque>>
         /\ main # "done" => main' # "done" \/ OnStop \/ ControllerStopped
<1>1. ASSUME NEW t \in Threads, ThreadStep(t) PROVE Alive /\ UNCHANGED main
  BY <1>1 DEF ThreadStep, Leave, ReadLevels, ReadHome, Poll, ControllerReady,
     ControllerNotReady, WantController, Acquire, Construct, ConstructFails, GuardFails,
     Publish, FirstLowState, EndInit, At
<1>2. CASE ThrottledTick \/ TelemetryTick
  BY <1>2 DEF ThrottledTick, TelemetryTick, At, Alive
<1>3. CASE BusyTick \/ TakeEdges \/ BeginHome \/ EndHome \/ SkipHome
           \/ BeginStance \/ EndStance \/ SkipStance \/ SkipRun
  BY <1>3 DEF BusyTick, TakeEdges, BeginHome, EndHome, SkipHome, BeginStance,
     EndStance, SkipStance, SkipRun, At, Alive
<1>4. CASE SendDirect \/ WaitAtGate \/ PassGate \/ Follow \/ DieOnTarget
  BY <1>4 DEF SendDirect, WaitAtGate, PassGate, Follow, DieOnTarget, TeleopTick,
     Running, At, Alive
<1>5. CASE MainStep
  BY <1>5 DEF MainStep, Notice, JoinSlow, JoinFast, OnStop, ControllerStopped, MainGoto
<1>6. CASE Operator \/ \E w \in Writers : FinishWrite(w)
  BY <1>6 DEF Operator, UiReady, UiNotReady, UiStart, UiHome, UiClear, UiShutdown,
     RecordStart, RecordDone, SelectMode, Write, FinishWrite, workerVars, bringUp, Alive
<1>7. CASE StopRequested \/ LowStateArrives \/ IkTick
  BY <1>7 DEF StopRequested, LowStateArrives, IkTick, workerVars, bringUp, Alive
<1>8. CASE Terminated \/ UNCHANGED vars
  BY <1>8 DEF Terminated, vars, bringUp, Alive
<1> QED
  BY <1>1, <1>2, <1>3, <1>4, <1>5, <1>6, <1>7, <1>8 DEF Next, SlowStep, FastStep, Alive

\* The one step that can end the worker with a controller it knows is Torque OFF;
\* without one, BuildInv says that nobody turned the torque on, or who did still runs.
LEMMA NextKeepsTorqueOff ==
  ASSUME TypeOK, BuildInv, TorqueOffUnlessFailed, [Next]_vars
  PROVE  TorqueOffUnlessFailed'
<1>1. CASE main = "done"
  BY <1>1, StepsOfMain DEF TorqueOffUnlessFailed
<1>2. CASE main # "done" /\ main' # "done"
  BY <1>2 DEF TorqueOffUnlessFailed
<1>3. CASE OnStop
  <2>1. main' = "done" => ctrl # "up"
    BY <1>3 DEF OnStop, MainGoto
  <2>2. UNCHANGED <<pc, ctrl, torque>>
    BY <1>3 DEF OnStop, MainGoto, bringUp
  <2>3. torque \in {"on", "off"}
    BY DEF TypeOK, BringUpOK
  <2> QED
    BY <2>1, <2>2, <2>3 DEF TorqueOffUnlessFailed, BuildInv
<1>4. CASE ControllerStopped
  BY <1>4 DEF ControllerStopped, TorqueOffUnlessFailed
<1> QED
  BY <1>1, <1>2, <1>3, <1>4, StepsOfMain

\* A worker whose threads ended leaves the robot without torque, unless the
\* constructor raised.
THEOREM TorqueOff == Spec => []TorqueOffUnlessFailed
<1>1. Init => TorqueOffUnlessFailed
  BY DEF Init, TorqueOffUnlessFailed
<1>2. Spec => []BuildInv
  BY InitBuild, NextKeepsBuildInv, Typing, PTL DEF Spec
<1> QED
  BY <1>1, <1>2, NextKeepsTorqueOff, Typing, PTL DEF Spec
-----------------------------------------------------------------------------
(* The mode.                                                               *)

\* Every answer of step() is an edge of the lifecycle or stays.
LEMMA StepModeEdges ==
  ASSUME NEW m \in Modes, NEW ev \in Levels
  PROVE  \/ StepMode(m, ev).mode \in {m, "EXIT"}
         \/ m = "WAIT_CONNECT" /\ StepMode(m, ev).mode = "WAIT_START"
         \/ m = "WAIT_START" /\ StepMode(m, ev).mode \in {"HOME", "RUN"}
         \/ m = "RUN" /\ StepMode(m, ev).mode \in {"HOME", "PAUSE"}
         \/ m = "HOME" /\ StepMode(m, ev).mode \in {"RUN", "PAUSE"}
         \/ m = "PAUSE" /\ StepMode(m, ev).mode \in {"RUN", "HOME"}
BY DEF StepMode, Modes, Levels, Result,
       FromWaitConnect, FromWaitStart, FromRun, FromHome, FromPause

\* Only a poll changes the mode, and only along step().
LEMMA OnlyPollsChangeMode ==
  ASSUME TypeOK, [Next]_vars
  PROVE  mode' = mode \/ \E t \in Threads : Poll(t)
<1>1. ASSUME NEW t \in Threads, ThreadStep(t), ~Poll(t) PROVE mode' = mode
  BY <1>1 DEF ThreadStep, Leave, ReadLevels, ReadHome, ControllerReady,
     ControllerNotReady, WantController, Acquire, Construct, ConstructFails, GuardFails,
     Publish, FirstLowState, EndInit, polling
<1>2. CASE ThrottledTick \/ TelemetryTick
  BY <1>2 DEF ThrottledTick, TelemetryTick, polling
<1>3. CASE BusyTick \/ TakeEdges \/ BeginHome \/ EndHome \/ SkipHome
           \/ BeginStance \/ EndStance \/ SkipStance \/ SkipRun
  BY <1>3 DEF BusyTick, TakeEdges, BeginHome, EndHome, SkipHome, BeginStance,
     EndStance, SkipStance, SkipRun, polling
<1>4. CASE SendDirect \/ WaitAtGate \/ PassGate \/ Follow \/ DieOnTarget
  BY <1>4 DEF SendDirect, WaitAtGate, PassGate, Follow, DieOnTarget, TeleopTick, polling
<1>5. CASE MainStep
  BY <1>5 DEF MainStep, Notice, JoinSlow, JoinFast, OnStop, ControllerStopped, MainGoto
<1>6. CASE Operator \/ \E w \in Writers : FinishWrite(w)
  BY <1>6 DEF Operator, UiReady, UiNotReady, UiStart, UiHome, UiClear, UiShutdown,
     RecordStart, RecordDone, SelectMode, Write, FinishWrite, workerVars, polling
<1>7. CASE StopRequested \/ LowStateArrives \/ IkTick
  BY <1>7 DEF StopRequested, LowStateArrives, IkTick, workerVars, polling
<1>8. CASE Terminated \/ UNCHANGED vars
  BY <1>8 DEF Terminated, vars, polling
<1> QED
  BY <1>1, <1>2, <1>3, <1>4, <1>5, <1>6, <1>7, <1>8 DEF Next, SlowStep, FastStep

\* The step simulation: a poll is an edge of the lifecycle, all else stutters.
LEMMA NextIsLifecycleStep == ASSUME TypeOK, [Next]_vars PROVE [Life!Next]_mode
<1>1. ASSUME NEW t \in Threads, Poll(t) PROVE [Life!Next]_mode
  <2>1. mode \in Modes /\ snap[t] \in Levels
    BY DEF TypeOK, MainOK, ThreadsOK
  <2>2. mode' = StepMode(mode, snap[t]).mode
    BY <1>1 DEF Poll, NewMode
  <2> QED
    BY <2>1, <2>2, StepModeEdges DEF Life!Next, Life!Connect, Life!Begin, Life!Leave,
       Life!Resume, Life!Exit, Life!Edge
<1> QED
  BY <1>1, OnlyPollsChangeMode

\* Two threads that poll one mode with stale snapshots still follow it.
THEOREM Lifecycle == Spec => ModeFollowsLifecycle
<1>1. Init => Life!Init
  BY DEF Init, Life!Init
<1> QED
  BY <1>1, NextIsLifecycleStep, Typing, PTL DEF Spec, ModeFollowsLifecycle, Life!Spec
-----------------------------------------------------------------------------
(* The entry gate.                                                         *)

\* On the first RUN the gate holds what the IK sequence said when RUN began:
\* a start edge of the fast thread's own always precedes its first teleop tick.
FreshInv ==
  /\ mode = "RUN" => hist.runs # 0
  /\ prevTeleop => hist.runs # 0
  /\ pc["fast"] \in FastPlaces => reason["fast"] = ""
  /\ hist.runs = 1 /\ reason["fast"] \in StartReasons => ~prevTeleop
  /\ GateMode = "vr_ee" /\ mode = "RUN" /\ hist.runs = 1 /\ prevTeleop
       => /\ entry.baseline /\ entry.newer => hist.fresh
          /\ ~entry.baseline /\ published => hist.fresh

GateInv == HomeForcesEntry /\ FreshInv

Quiet ==
  /\ UNCHANGED <<mode, entry, prevTeleop, hist, published>>
  /\ reason'["fast"] \in {reason["fast"], ""}
  /\ pc'["fast"] \in FastPlaces => pc["fast"] \in FastPlaces

GateStep ==
  \/ \E t \in Threads : Poll(t) \/ EndInit(t)
  \/ TakeEdges \/ BeginHome
  \/ SendDirect \/ WaitAtGate \/ PassGate \/ Follow \/ DieOnTarget
  \/ IkTick

\* Every step touches the gate, or leaves it and what it depends on alone.
LEMMA StepsOfGate == ASSUME TypeOK, [Next]_vars PROVE Quiet \/ GateStep
<1>0. pc \in [Threads -> Places] /\ reason \in [Threads -> Reasons]
  BY DEF TypeOK, ThreadsOK
<1>1. ASSUME NEW t \in Threads, ThreadStep(t), ~Poll(t), ~EndInit(t) PROVE Quiet
  BY <1>0, <1>1 DEF ThreadStep, Leave, ReadLevels, ReadHome, ControllerReady,
     ControllerNotReady, WantController, Acquire, Construct, ConstructFails, GuardFails,
     Blocked, Publish, FirstLowState, At, Goto, EndTick, KeepTick, Quiet, FastPlaces,
     polling, gate, ik
<1>2. CASE ThrottledTick \/ TelemetryTick
  BY <1>0, <1>2 DEF ThrottledTick, TelemetryTick, EndTick, Goto, Quiet, polling, gate, ik
<1>3. CASE BusyTick \/ EndStance \/ SkipRun
  BY <1>0, <1>3 DEF BusyTick, EndStance, SkipRun, EndTick, Goto, Quiet, FastPlaces,
     polling, gate, ik
<1>4. CASE EndHome \/ SkipHome \/ BeginStance \/ SkipStance
  BY <1>0, <1>4 DEF EndHome, SkipHome, BeginStance, SkipStance, At, KeepTick, Quiet,
     FastPlaces, polling, gate, ik
<1>5. CASE MainStep
  BY <1>5 DEF MainStep, Notice, JoinSlow, JoinFast, OnStop, ControllerStopped, MainGoto,
     Quiet, gate, ik
<1>6. CASE Operator \/ \E w \in Writers : FinishWrite(w)
  BY <1>6 DEF Operator, UiReady, UiNotReady, UiStart, UiHome, UiClear, UiShutdown,
     RecordStart, RecordDone, SelectMode, Write, FinishWrite, workerVars, polling, gate,
     ik, Quiet
<1>7. CASE StopRequested \/ LowStateArrives
  BY <1>7 DEF StopRequested, LowStateArrives, workerVars, polling, gate, ik, Quiet
<1>8. CASE Terminated \/ UNCHANGED vars
  BY <1>8 DEF Terminated, vars, polling, gate, ik, Quiet
<1> QED
  BY <1>1, <1>2, <1>3, <1>4, <1>5, <1>6, <1>7, <1>8 DEF Next, SlowStep, FastStep, GateStep

\* At the start no gate has passed and RUN was never entered.
LEMMA InitGate == ASSUME Init PROVE GateInv
BY DEF Init, GateInv, HomeForcesEntry, FreshInv, NoEntry, FastPlaces, StartReasons

\* A start reason is the answer of a step that enters RUN.
LEMMA StartReasonEntersRun ==
  ASSUME NEW m \in Modes, NEW ev \in Levels, StepMode(m, ev).reason \in StartReasons
  PROVE  m # "RUN" /\ StepMode(m, ev).mode = "RUN"
BY DEF StepMode, Modes, Levels, Result, StartReasons,
       FromWaitConnect, FromWaitStart, FromRun, FromHome, FromPause

\* A poll into RUN only counts it; it cannot make an old baseline look fresh.
LEMMA PollKeepsGate ==
  ASSUME TypeOK, GateInv, NEW t \in Threads, Poll(t)
  PROVE  GateInv'
<1> DEFINE next == StepMode(mode, snap[t])
<1>1. mode \in Modes /\ snap[t] \in Levels /\ hist \in History
      /\ reason \in [Threads -> Reasons] /\ pc \in [Threads -> Places]
  BY DEF TypeOK, MainOK, ThreadsOK, GateOK
<1>2. next.reason \in StartReasons => mode # "RUN" /\ next.mode = "RUN"
  BY <1>1, StartReasonEntersRun
<1>3. /\ mode' = next.mode
      /\ hist'.enteredHome = hist.enteredHome
      /\ mode' = "RUN" /\ mode # "RUN" =>
           hist'.runs = IF hist.runs = 2 THEN 2 ELSE hist.runs + 1
      /\ ~(mode' = "RUN" /\ mode # "RUN") =>
           hist'.runs = hist.runs /\ hist'.fresh = hist.fresh
  BY <1>1 DEF Poll, NewMode, History
<1>4. hist.runs \in 0..2
  BY <1>1 DEF History
<1>5. /\ UNCHANGED <<entry, prevTeleop, published>>
      /\ reason'["fast"] = reason["fast"] \/ reason'["fast"] = next.reason
      /\ pc'["fast"] \in FastPlaces =>
           pc["fast"] \in FastPlaces /\ reason'["fast"] = reason["fast"]
  BY <1>1 DEF Poll, Goto, KeepTick, FastPlaces, gate, ik
<1> HIDE DEF next
<1>6. CASE mode' = "RUN" /\ mode # "RUN"
  <2>1. hist'.runs # 0 /\ (hist'.runs = 1 => hist.runs = 0)
    BY <1>3, <1>4, <1>6
  <2> QED
    BY <2>1, <1>3, <1>5, <1>6 DEF GateInv, HomeForcesEntry, FreshInv
<1>7. CASE ~(mode' = "RUN" /\ mode # "RUN")
  BY <1>2, <1>3, <1>5, <1>7 DEF GateInv, HomeForcesEntry, FreshInv
<1> QED
  BY <1>6, <1>7

\* The gate of a teleop tick is the stored one, or a fresh one that has not
\* passed and whose baseline says whether the IK had published.
LEMMA GatesAre ==
  ASSUME TypeOK, NEW g \in Gates
  PROVE  /\ g.passed => prevTeleop /\ entry.passed
         /\ GateMode = "vr_ee" /\ prevTeleop => g = entry
         /\ GateMode = "vr_ee" /\ ~prevTeleop =>
              ~g.passed /\ ~g.newer /\ g.baseline = published
<1>1. entry \in Entry /\ published \in BOOLEAN
  BY DEF TypeOK, GateOK, IkOK
<1> QED
  BY <1>1 DEF Gates, SwitchedGate, Entry, NoEntry

\* A teleop tick stores the gate it looked at, with or without a pass.
LEMMA TeleopTickKeepsFresh ==
  ASSUME TypeOK, FreshInv, NEW g \in Gates, NEW e \in {g, [g EXCEPT !.passed = TRUE]},
         TeleopTick(e), reason'["fast"] = "", pc'["fast"] \in {"begin", "stopped"},
         UNCHANGED <<hist.runs, hist.fresh>>
  PROVE  FreshInv'
<1>1. g \in Entry
  BY GatesTyped
<1>2. e.baseline = g.baseline /\ e.newer = g.newer
  BY <1>1 DEF Entry
<1>3. mode = "RUN" /\ UNCHANGED <<mode, published>> /\ entry' = e
  BY DEF TeleopTick, Running, polling, ik
<1>4. hist.runs # 0
  BY <1>3 DEF FreshInv
<1>5. published \in BOOLEAN
  BY DEF TypeOK, IkOK
<1>6. GateMode = "vr_ee" /\ hist.runs = 1 =>
        /\ e.baseline /\ e.newer => hist.fresh
        /\ ~e.baseline /\ published => hist.fresh
  BY <1>2, <1>3, <1>5, GatesAre DEF FreshInv
<1> QED
  BY <1>3, <1>4, <1>6 DEF FreshInv, FastPlaces, StartReasons

\* Each step that touches the gate, one by one.
LEMMA GateStepKeepsInv == ASSUME TypeOK, GateInv, GateStep PROVE GateInv'
<1>0. /\ pc \in [Threads -> Places] /\ reason \in [Threads -> Reasons]
      /\ entry \in Entry /\ hist \in History
  BY DEF TypeOK, ThreadsOK, GateOK
<1> USE DEF GateInv
<1>1. ASSUME NEW t \in Threads, Poll(t) PROVE GateInv'
  BY <1>1, PollKeepsGate
<1>2. ASSUME NEW t \in Threads, EndInit(t) PROVE GateInv'
  BY <1>0, <1>2 DEF EndInit, At, Goto, KeepTick, HomeForcesEntry, FreshInv, FastPlaces,
     History, polling, gate, ik
<1>3. CASE TakeEdges
  <2>1. CASE reason["fast"] \in StartReasons
    BY <1>0, <1>3, <2>1 DEF TakeEdges, HomeForcesEntry, FreshInv, NoEntry, StartReasons,
       polling, ik
  <2>2. CASE reason["fast"] \notin StartReasons
    BY <1>0, <1>3, <2>2 DEF TakeEdges, HomeForcesEntry, FreshInv, NoEntry, StartReasons,
       polling, ik
  <2> QED
    BY <2>1, <2>2
<1>4. CASE BeginHome
  BY <1>0, <1>4 DEF BeginHome, At, KeepTick, HomeForcesEntry, FreshInv, NoEntry, FastPlaces,
     History, polling, ik
<1>5. CASE SendDirect
  BY <1>0, <1>5 DEF SendDirect, EndTick, Goto, HomeForcesEntry, FreshInv, FastPlaces,
     StartReasons, polling, ik
<1>6. ASSUME EndTick("fast") PROVE reason'["fast"] = "" /\ pc'["fast"] = "begin"
  BY <1>0, <1>6 DEF EndTick, Goto
<1>7. CASE WaitAtGate
  <2>1. PICK g \in Gates : ~g.passed /\ TeleopTick(g)
    BY <1>7 DEF WaitAtGate
  <2>2. FreshInv'
    BY <1>6, <1>7, <2>1, TeleopTickKeepsFresh DEF WaitAtGate
  <2>3. HomeForcesEntry'
    BY <2>1 DEF TeleopTick, HomeForcesEntry
  <2> QED
    BY <2>2, <2>3
<1>8. CASE PassGate
  <2>1. PICK g \in Gates : TeleopTick([g EXCEPT !.passed = TRUE])
    BY <1>8 DEF PassGate
  <2>2. hist'.enteredHome /\ UNCHANGED <<hist.runs, hist.fresh>>
    BY <1>0, <1>8 DEF PassGate, History
  <2>3. FreshInv'
    BY <1>6, <1>8, <2>1, <2>2, TeleopTickKeepsFresh DEF PassGate
  <2> QED
    BY <2>2, <2>3 DEF HomeForcesEntry
<1>9. CASE Follow
  <2>1. PICK g \in Gates : g.passed /\ TeleopTick(g)
    BY <1>9 DEF Follow
  <2>2. FreshInv'
    BY <1>6, <1>9, <2>1, TeleopTickKeepsFresh DEF Follow
  <2>3. HomeForcesEntry'
    BY <1>9, <2>1, GatesAre DEF Follow, HomeForcesEntry
  <2> QED
    BY <2>2, <2>3
<1>10. CASE DieOnTarget
  <2>1. PICK g \in Gates : TeleopTick(g)
    BY <1>10 DEF DieOnTarget
  <2>2. reason'["fast"] = "" /\ pc'["fast"] = "stopped"
    BY <1>0, <1>10, <2>1 DEF DieOnTarget, TeleopTick, Running, At, Goto, KeepTick,
       FreshInv, FastPlaces
  <2>3. FreshInv'
    BY <1>10, <2>1, <2>2, TeleopTickKeepsFresh DEF DieOnTarget
  <2>4. HomeForcesEntry'
    BY <1>10, <2>1, GatesAre DEF DieOnTarget, TeleopTick, HomeForcesEntry
  <2> QED
    BY <2>3, <2>4
<1>11. CASE IkTick
  <2>1. UNCHANGED <<mode, prevTeleop, pc, reason>>
    BY <1>11 DEF IkTick, polling
  <2>2. CASE UNCHANGED <<published, entry, hist>>
    BY <2>1, <2>2 DEF HomeForcesEntry, FreshInv
  <2>3. CASE /\ entry' = [entry EXCEPT !.newer = entry.baseline]
             /\ hist' = [hist EXCEPT !.fresh = TRUE]
    <3>1. /\ entry'.passed = entry.passed /\ hist'.enteredHome = hist.enteredHome
          /\ hist'.runs = hist.runs /\ hist'.fresh = TRUE
      BY <1>0, <2>3 DEF Entry, History
    <3> QED
      BY <2>1, <3>1 DEF HomeForcesEntry, FreshInv
  <2> QED
    BY <1>11, <2>2, <2>3 DEF IkTick
<1> QED
  BY <1>1, <1>2, <1>3, <1>4, <1>5, <1>7, <1>8, <1>9, <1>10, <1>11 DEF GateStep

\* GateInv is inductive under TypeOK.
LEMMA NextKeepsGateInv == ASSUME TypeOK, GateInv, [Next]_vars PROVE GateInv'
<1>1. CASE Quiet
  BY <1>1 DEF Quiet, GateInv, HomeForcesEntry, FreshInv, StartReasons
<1> QED
  BY <1>1, StepsOfGate, GateStepKeepsInv

\* After homing, teleoperation is entered through the gate again.
THEOREM HomeReenters == Spec => []HomeForcesEntry
<1>1. GateInv => HomeForcesEntry
  BY DEF GateInv
<1> QED
  BY <1>1, InitGate, NextKeepsGateInv, Typing, PTL DEF Spec

\* The pass of a first RUN: freshness of the gate is freshness of the target.
LEMMA FirstPassIsFresh ==
  ASSUME TypeOK, GateInv, PassGate, hist.runs = 1, GateMode = "vr_ee"
  PROVE  hist.fresh
<1>1. PICK g \in Gates : Fresh(g) /\ Running(TRUE)
  BY DEF PassGate, TeleopTick
<1>2. mode = "RUN"
  BY <1>1 DEF Running
<1>3. CASE prevTeleop
  BY <1>1, <1>2, <1>3, GatesAre DEF GateInv, FreshInv, Fresh
<1>4. CASE ~prevTeleop
  BY <1>1, <1>4, GatesAre DEF Fresh
<1> QED
  BY <1>3, <1>4

\* The first Start of a VR session waits for a target published after it.
THEOREM FirstStart == Spec => FirstStartFresh
<1>1. ASSUME TypeOK, GateInv PROVE [PassGate /\ hist.runs = 1 /\ GateMode = "vr_ee" => hist.fresh]_vars
  BY <1>1, FirstPassIsFresh
<1> QED
  BY <1>1, InitGate, NextKeepsGateInv, Typing, PTL DEF Spec, FirstStartFresh
==============================================================================
