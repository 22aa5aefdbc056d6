# A verification project for igris_teleop

TLA+ models of the control logic of `igris_teleop`: when the robot's body and
hands move and when its torque is on, what the operator's headset and a policy's
chunks of actions turn into, what is recorded, and which process runs; model-checked
with TLC and, for every value of the constants, proved with TLAPS. Paths below are relative to `src/igris_teleop`
unless they start with `src/`.

## 1. The system

A launcher (`main.py`) starts one process per worker and a web UI. The workers
share three things: level events in a manager process (`core/events.py`), shared
memory blocks (`sharedmemory/`), and, each, a stop event of its own. There is no
central mode: **every worker polls the levels and applies the same pure function
`step()` to a mode of its own**, and reacts to the *reason* string of the
transition its own poll made.

| Component | State | Operations | Talks to |
|---|---|---|---|
| Mode machine, event bus (`core/state_machine.py`, `core/events.py`) | levels shutdown, ready, start, home (camera, hand_init) | `step`, `set_level`, `clear_level`, `read_snapshot` | every worker |
| Worker loops (`core/worker_base.py`) | `_state`, `_stop_threads` | `poll`, slow and fast loop, `run`, `should_stop` | bus, stop event |
| Control worker (`workers/worker_control.py`) | controller, init lock, blocked reason, `_body_motion_active`, `_home_request`, entry gate, walking flags | `_ensure_controller_ready`, `_create_controller`, `do_slow`, `do_fast`, `on_stop` | body controller, bus, mode, action, observation and IK memory |
| Body controller (`robot_control/controller/core.py`, `shutdown_helper.py`) | target, active trajectory, `_stop_event`, service client | publisher thread, `move_through_poses`, `set_joint_targets`, `stop`, `abort` | robot (LowCmd, LowState, services) |
| IK worker (`workers/worker_igris_ik.py`) | mode, reference, `target_seq` | `step_once`, publication | action and IK memory |
| Web UI, keyboard (`web_ui/server.py`, `workers/keyboard_worker.py`) | selection, applied mode, start guard | `set_level`, `apply_mode`, manual groups | bus, supervisor, mode memory |
| Record worker (`workers/worker_collect_data.py`, `core/record_state_machine.py`) | record state, episode | `step_once`, `_sync_mode_with_record_state` | bus, record memory |
| Supervisor (`main.py`, `workers/registry.py`, `ipc/manager.py`) | processes, configurations, intended set | start, stop, reap, reconcile, `shutdown_all` | all workers |
| Command processes (`workers/command_process.py`, the managers in `web_ui/server.py`) | process group, `_reused_tcp_listener`, `_released`; the supervisor's entry, `_process` of a manager | `poll` (with takeover), `start`, `terminate` | supervisor, web UI, the port of the ROS TCP endpoint, the cameras |
| Shared memory (`sharedmemory/`) | blocks, locks | create, attach, read, write, unlink | all workers |
| Unity bridge, head start guard (`workers/worker_unity_bridge.py`, `head_start_guard.py`) | the operator's pose at home, the guard's status | `step_once`, capture, compare | headset (ROS), web UI, IK worker |
| Hand worker (`workers/worker_hand.py`, `hand_control/robot_hand.py`, `src/ros_ws/src/igris_c_ros_bridge/igris_c_hand`) | arrays of commands, control thread, `_hand_initializing`, bridge process | init, follow, close | hands (ROS, DDS), robot's init service |
| Inference and optimizer (`workers/worker_inference_lerobot.py`, `worker_inference_pi.py`, `worker_optimize.py`) | request, policy queues, result memory, two chunks | infer, poll, stage, play | each other, action memory |
| Walking, replay, other bridges, cameras, simulator | policies, datasets, input filters | per-tick inference or conversion | action memory, ROS |

### What is hard here

- *Interleavings.* Control worker: two threads poll one mode, bring one controller
  up, and test flags the other sets. Body controller: a 300 Hz publisher, several
  threads that register trajectories, service threads that outlive their caller.
- *Edges in a level system.* The reason of a transition is delivered once, to the
  thread whose poll made it; every early return before it is looked at loses it.
- *Non-atomic reads.* `read_snapshot()` reads event by event while a writer sets
  one and clears another.
- *Timeouts.* The joins of `run()`, the join of the publisher, the trajectory, the
  service calls. Each may pass with the other side still at work.
- *Failure.* Constructor and start guard raise with the torque on; `write()` ends the
  publisher; a non-finite target ends the fast thread; the robot refuses or answers
  late, or no first LowState ever comes; a worker process dies, hangs or cannot be started.
- *References kept twice.* Bridge and IK worker each keep half of "home", captured in passes of their own.
- *Numbers that begin anew.* Results are numbered per RUN; whoever compares them crosses the RUN's boundary at another moment.
- *Requests in flags.* Record flags, `hand_init` and `flag_inference` are raised by one thread and lowered by another, in separate steps.
- *Work that outlives its reason.* An inference, a solver run, a published target or a bridge process goes on
  after the RUN, the initialisation or the worker it was for.
- *Checks that are used later.* Web UI and keyboard look at the guard's status and raise the level after that, while the bridge judges the next poses.
- *Tables without a lock.* The supervisor's tables are changed by a request handler
  (under `WebUIState.lock`) and by the main thread (under none).
- *A query that acts.* `poll()` of a command starts a process in the place of a listener that has gone, in
  whichever thread asks first, or in both.

`PROJECT.json` lists each hazard at its line with the properties aimed at it.

### What makes each component correct

- Mode machine and loops: shutdown wins and is final, no RUN or HOME before WAIT_START,
  a pause and a shutdown take effect whatever one thread is doing.
- Control worker: one controller; the torque off at the end; a homing re-arms the gate;
  a start enters through it, on a fresh target; home is served.
- Body controller: only a move in progress moves the body; the last one registered wins;
  a stop ends, with an honest result; nothing is commanded after it.
- Web UI, record worker: a level is set only when its precondition holds; the pair start/home
  settles to the last request.
- Supervisor: a worker that holds the torque is not terminated before it has finished; no worker
  runs twice; each runs in the current environment; a dead base worker is noticed; a shutdown
  ends and leaves no process.
- Command processes: the cameras have one user; a process is always known to somebody who will end it; a listener that
  has gone is replaced.
- Record worker: an episode holds the frames of one take; a record start reaches the body; a frame that
  cannot be added ends recording (it does not).
- Headset and IK worker: a start is about the home reference the arms then use; both halves of home go with one homing.
- Inference and optimizer: chunks are played forwards; none of an earlier RUN, from a policy that remembers none; and one arrives.
- Hand worker: targets do not go back in time but by one frame; an initialisation is disturbed by two targets at most; the controller's bridge ends with the worker.
- Shared memory: no reader sees a block another process has removed; sequence numbers
  and payload belong together.

## 2. The modules

| Module | Models | Uses |
|---|---|---|
| `ModeMachine` | `step()` as the operator `StepMode` | |
| `ModeLifecycle` | abstract: what a worker's mode promises | |
| `ControlWorker` | control worker, worker loops, writers of the bus, IK worker and robot as its environment | `ModeMachine`; implements `ModeLifecycle` |
| `ControlWorkerProofs` | proofs | `ControlWorker` |
| `BodyController` | body controller, service calls, robot | |
| `BodyControllerProofs` | proofs | `BodyController` |
| `Supervisor` | `WorkerSupervisor`, the requests that use it, the watchdog, `shutdown_all()`; worker processes as its environment | |
| `SupervisorProofs` | proofs | `Supervisor` |
| `CommandProcesses` | the commands run as process groups: ROS TCP endpoint, reliability runtime, MediaPipe test, with their owners | |
| `CommandProcessesProofs` | proofs | `CommandProcesses` |
| `RecordSession` | record worker and record machine, web UI and keyboard as writers of levels and record flags | `ModeMachine` |
| `RecordSessionProofs` | proofs | `RecordSession` |
| `ChunkPlayer` | abstract: what the player of chunks promises | |
| `InferencePipeline` | inference worker and optimizer, two threads each, with the memory between them | implements `ChunkPlayer` |
| `InferencePipelineProofs` | proofs | `InferencePipeline` |
| `HandSystem` | hand worker, its control thread, the bridge processes | `ModeMachine` |
| `HandSystemProofs` | proofs | `HandSystem` |
| `HeadsetPath` | Unity bridge, head start guard, the reference poses of the IK worker, the operator | `ModeMachine` |
| `HeadsetPathProofs` | proofs | `HeadsetPath` |

The configurations `MC*.cfg` instantiate the modules directly: all their constants are
numbers or sets of strings and numbers, which need no definitions of their own. Three modules are composed with
`step()`: each worker in them has a mode of its own and polls the levels in a step of its own.

### ControlWorker

`pc[t]` is the place of thread t in its loop, `snap[t]` and `reason[t]` the locals `ev` and
`tr.reason`. One tick is `ReadLevels`, `ReadHome`, `Poll`, then
`_ensure_controller_ready()` (`ControllerReady`, `ControllerNotReady`, or the bring-up
`WantController`, `Acquire`, `Construct`, `Publish`, `FirstLowState`, `EndInit` with its failures
`ConstructFails`, `GuardFails`), then the handler: `ThrottledTick` and `TelemetryTick` for
`do_slow`; for `do_fast` `BusyTick` or `TakeEdges`, the homing, the stance, and in RUN
`SendDirect`, `WaitAtGate`, `PassGate`, `Follow` or `DieOnTarget`. The main thread is `Notice`, `JoinSlow`,
`JoinFast`, `OnStop`, `ControllerStopped`. A place between two actions stands for each point where the
code reads what another thread or process writes.

Abstractions, each with its reason:

- A snapshot is read in two steps (shutdown, ready and start; then home), which is enough
  to see start and home of different moments, the only pair the writers change in two calls.
- `ctrl` folds `self.ctrl`, `_controller_init_blocked_reason` and the outcome of `abort()`:
  none, up, failed (constructor raised), aborted (start guard raised), refused (the robot did not
  take the torque off when asked).
- The entry gate keeps what its decisions depend on: passed, whether a baseline exists
  and whether the IK sequence has moved past it, and whether a leader target was sampled. The distance
  to the target, the ramp and the limiter are a choice (`WaitAtGate` or `PassGate`).
- `_homing_active` is not there: only the fast thread homes, and synchronously.
- `_pending_init_pose_dataset_key` is always None: nothing in the repository writes the
  pose request memory.
- Two writers of levels: the operator (UI and keyboard; the UI serialises its own calls
  with a lock) and the record worker. `ready` guards start and home for the first only. An operator
  may not take `shutdown` back; the UI can, and then the workers have already left.
- `hist` and `builds` are history variables and guard nothing.

### BodyController

The state starts where the constructor has turned the torque on. The publisher is `GetState`, `Look`,
`Update`, `WriteCommand` (or `WriteFails`), one step per critical section of `_ctrl_lock`. A move is `TakeStart`,
`Register`, then waiting (`Complete` or `GiveUp`), `Drop` and the arrival (`Return`); without a living
publisher it advances itself (`SelfAdvance`). `stop()` is `StopCalled` (the shutdown poses, by the mover "stop"),
`Prepare`, `PublisherJoined`, then `CallSucceeds`, `CallFails` or `CallTimesOut`; a failing `stop()` goes on as `abort()`
(`Hold`, `Prepare`, ..., attempt 2), and `GuardRaised` is the `abort()` of `_create_controller()`.
`ModeAnswers` and `TorqueAnswers` are the service thread or the helper process: with the ROS 2 backend they
go on after the caller has given up, with the SDK backend the helper is killed, possibly after its request was served.

Joint vectors are reduced to where they come from (zeros, measured, direct command, sample of a
trajectory); a trajectory is the pair of its mover and the number of the move; its phase counts 0..Length and may be
held by the tracking governor. There is no clock: a timeout may pass at any time, which covers every
choice of the constants.

### Supervisor

Two threads work on `tracked` (`procs`; the stop events and configurations are entries of
the same name) and `intended` (`intended_running`). The handler of a request executes `todo`, a
sequence of steps (`Step` says which there are): `ApplyMode`, `StartGroup` and `StopGroup` compute it as the code's loops do,
`Refresh` is what a started or stopped simulator entails for the workers it surrounds (`Surrounded`), `StartWorker`
puts the stop and the spawn of a replaced worker in front of it, and `_stop_worker()` is `Signal`, `Join`, `Terminate`, `Kill`,
`Close`, `Forget`, `Discard`, one step per access another thread can come between. The main thread is the watchdog (`Look`,
`ReapSeen`, `Judge`), and after `LeaveUi` `shutdown_all()`: `Split`, signal and join of the early workers
and then of the simulator, `TerminateAll`, `KillAll`, `Clear`, each after a `Listing` of the table that
raises if the table changes its size meanwhile or holds a closed process (`ShutdownRaises`).
The processes `Notice` the shutdown level (all but the simulator), `End` and `Crash`.

Abstractions, each with its reason:

- A configuration is its mode and environment: whether two configurations are equal is all the
  supervisor asks, and these two are what a request changes in a worker that stays.
- No clock: a join gives up when the process does not obey (`Stubborn`, or not asked), or is `Slow` (control, whose
  shutdown has four pose moves) and the timeout is the short one (3 s). The 75 s and 90 s exceed every orderly end;
  that they do is an assumption the code states at `main.py:1508`.
- A reap, a judgement, and a loop over the table after its listing are single steps; the copy
  the watchdog reaps from is taken in a step of its own. The handler's own reap is part of the step that calls it.
- Process slots are reused once no table refers to them.
- `StartGroup` uses the selected mode; the page may send another one, which only changes the configuration.
- Left out: the leader command workers (the ROS TCP endpoint is in `CommandProcesses`), `apply_camera_settings()`, `keyboard` (a fixed worker like `camera_topic`), inference and
  replay workers (pool workers like the walking ones).
- `hist` records what the properties need of the past and guards nothing.

### CommandProcesses

Two threads, the handler of a request and the main thread (watchdog, then the end of `run_web_ui()` and `shutdown_all()`), execute
`todo`, a sequence of steps about entries: look at an object and drop the entry of a dead one (`Reap`), `Ask` whether it lives and go
on by the answer, `Quit` (terminate if alive), `Drop` (stop of a manager), `New`. A step calls a method of the object, and
`call[t].at` is the place in it: `Probe` is `poll()` up to the decision to replace the listener, `Enter`, `Spawn` and `Grace` are
`start()`, `Signal` and `Wait` are `terminate()`. `Asked`, `HasQuit`, `Reaped`, `Dropped`, `Created` are what the caller does with the
answer; `Skip` is a step without an entry. A process group has a leader and perhaps a member that listens: it comes to listen (`Listen`),
ends asked or not (`End`), may leave the member behind for a while (`MemberEnds`).

Abstractions, each with its reason:

- SIGKILL ends the group at once (`Wait`): a process that hangs in the kernel is none the launcher can do anything about.
- The configuration of the endpoint never differs, so a request to start it when it runs changes nothing. `leader_ros_node`, which
  shares its groups, reuses no listener: it is a plain command, with nothing this module would add. That its start may
  fail after the endpoint's is left out (`RequestEnds` of `Supervisor` has the clean-up).
- The listener of another session is there from the start or not at all, and can only go away. It answers nothing else.
- Status polls are not counted by `MaxRequests`. They stand for every look at the table; status of the managers reads only.
- An object nothing refers to any more is collected, and an ended process with it, so that bounds hold for what lives at a time.
- A request that is still waiting for the lock when the main thread leaves is left out: what it starts after the two `Drop`s nobody stops.

### RecordSession

Two writers of requests, `ui` and `keyboard`, and the record worker as a third writer of the levels: `todo[w]`
is what a writer has still to clear, so the two writes of a start or a home are two steps (`Raise`, `ClearNext`).
Every request of the UI ends in `status()`, whose gate (`Gate`) clears start and home when ready is not set. The record
worker's pass is `Poll` (levels and flags), `ClearFlags`, `Transition` (the record machine and the first write),
`Sync` (the second), then one of `NotRunning`, `HandleReset`, `HandleDone`, `HandleFrame`. A frame in `buffer` is
the number of the take it was added in. `kept` records why a take that has ended may still go on, as frames in the buffer or as
recording that is still on (`saveFailed`, `addFailed`, `clearFailed`, `notRunning`); what is *not* excused is everything else.
Outside RUN a "reset" leaves `_recording` as it is, and the state WAIT then records on into the next take. `halted` remembers that
`add_frame()` failed. Left out: file formats, statistics, `flush_on_close` (off in the shipped configuration).

### InferencePipeline and ChunkPlayer

The slow thread of the inference worker is `SlowTick` or `SlowDrop`, `SlowReset`, `SlowUnasked` or `SlowBegin`, then
`SlowWrite` or `SlowFails`, `SlowLower`, `SlowForget`; its fast thread `FastLeave`, `FastEnter`, `FastClear`,
`FastRequest`, `FastStep`. The optimizer's slow thread is `PollResult`, `Stage`, `MarkSeen`; its fast thread `PlayerLeaves`,
`PlayerEnters`, `ReadSeq`, `Play`. A chunk is its first step and, as history, the RUN it was inferred for. `ChunkPlayer` says what a
player of chunks promises: the next chunk begins at least a stride later, a queued one is only replaced by an earlier one.

Abstractions: the mode is read with the first step of a tick; counting a result and writing it is one step; results are renumbered at
`MaxSeq` (`Renumber`), so that a new number is never taken for an old one by the bound; steps stop at `MaxStep`. Chunk
length is constant, hence one `Stride`. Values, spline, LiPo, limiter, `_chunk_bundles` (for logs) and `on_stop()` are left out.
`worker_inference_pi.py` has the same threads without the policy's reset.

### HandSystem

The worker's loop is `Poll`, then the initialisation (`InitRequested`, `RobotService`, `Arm`, `Call`, `InitReturns`) or
`Build` and `Construct`, `Idle`, `DirectStep` (leader hands) or `TakeFrame`, `LeftPose`, `RightPose`; its end `EndLoop`, `Gone`, or `Kill` at any
moment. The control thread is `Start`, `ReadLeft`, `ReadRight`, `ReadClose`, `ReadMotor`, `Check`, `Send`, `ThreadStops`:
one step per array read and one each for the test of `_hand_initializing` and the publication. A bridge takes a target (`TakeTarget`, which may also lose it) or
the trigger (`HandleInit`). A target is the pair of the frames its sides come from. `Build` is the constructor up to the start of the bridge process
(`hand_control/robot_hand.py:266`), `Construct` the rest, which may raise: then nobody knows the bridge, and the next tick starts another one beside it,
on the same topic and service. So the bridges are numbered, `own` is that of the controller, and `up` are those that run. Left out: the simulation mode, the
native DDS transport, and a command that is valid for one side only.

### HeadsetPath

A pose is a number, and `Limit` the guard's threshold. The operator's head moves by `ReceivePose`; the bridge's pass
is `Poll`, then `GiveUp` or `Capture` (by mode: home, seed, or what RUN takes late) and `Publish` (guard, then frame); the IK worker's is
`IkPoll`, `IkTick`. `homings` counts how often home was raised, and every reference is tagged with the homing it goes with, or
`Paused`. The history `homed` and `short` says whether both workers have acted on the edge of the last homing. A change of
the levels is one step here (`RecordSession` has the two writes). A start is two: `UiCheck` or `KeyCheck`, which read the levels and the guard's status,
and `RaiseStart`, with passes of the bridge, poses and the other's requests between them (`starting` holds who is there). The web UI holds its
lock from the check to the raise (`web_ui/server.py:3004`), and the keyboard is one loop, so neither does anything else meanwhile. What a check reads is one
step. The history `aligned` and `checked` says of the poses since the status whether one is near home, and counts the refusals
published under a start that is up. Left out: wrists (captured with the head), the solver's failure, the
hand commands, `worker_unity_bridge_baseline.py`.

## 3. The runs

| Run | Configuration | Expect | Shows |
|---|---|---|---|
| control_lifecycle | `MCControlLifecycle` | pass | all commands, teleop and walking, bad targets: `ControllerBuiltOnce`, `TorqueOffUnlessFailed`, `ModeFollowsLifecycle` (refinement), `ShutdownCompletes` |
| control_run | `MCControlRun` | pass | behind the VR gate with the IK worker: `HomeForcesEntry`, `FirstStartFresh`, and `PauseStops`: a withdrawn start ends RUN, although either thread may hang in the bring-up and the fast one may have died |
| control_torque | `MCControlTorque` | violation | `TorqueOffBeforeExit`: stop during the construction |
| body_controller | `MCBody` | pass | a worker and stop() as movers, then the fallback: `NoMotionAfterReturn`, `LatestStaysActive`, `OneWriteAfterStop`, `OffMeansOff`, `FallbackFindsClient`, `MoveReturns`, `StopEnds` |
| supervisor_requests | `MCSupervisorRequests` | pass | `OneProcessEach`, `EnvironmentAgrees`: starts, stops and modes in every order beside the watchdog |
| supervisor_fair | `MCSupervisorFair` | pass | `SafetySequenceKept`, `RaisesOnlyBesideRequest`, `ShutdownLeavesNone`, `CrashNoticed`, `LauncherEnds`, `RequestEnds`: slow, dying or unstartable control, hung camera, simulator process, shutdown beside requests |
| supervisor_cut | `MCSupervisorCut` | violation | `ControlNotCut`: the simulator is started while control runs, which restarts control with 3 s |
| commands | `MCCommands` | pass | `CamerasExclusive`, `NoOrphans`, `EndpointServed`: requests about the endpoint and the camera programs beside watchdog and shutdown, with processes that die, do not start or leave a listener behind |
| record | `MCRecord` | pass | `TakesKeptApart`, `StartHomeExclusive`, `RecordStartTakesEffect`: three writers of levels and flags, every failure of the dataset |
| pipeline | `MCPipeline` | pass | `PlaysForward` (refinement), `StaleScope`, `PolicyFresh`, `ChunkArrives`: two RUNs and the pause between, every overlap of the four threads |
| hand | `MCHand` | pass | `TargetsForward`, `OverridesBounded`, `BridgeEnds`, `ShutdownHonoured`, `InitTaken`: initialisation, RUN, shutdown, kill and a constructor that fails, in every order |
| headset | `MCHeadset` | pass | `StartAligned`, `ChestAnchored`, `TargetsPaired`: two homings, starts from UI and keyboard, checked and raised with passes of the bridge between, poses that jump |

The two violations are disagreements with a sentence of the repository
(`PROJECT.json`, "findings"). The supervisor's safety holds with conditions the properties name: `OneProcessEach` unless the
watchdog, which takes no lock, dropped the entry of a living process, and until `shutdown_all()` has cleared the table; `RaisesOnlyBesideRequest` and
`ShutdownLeavesNone` say what is true when no request was left under way. `SafetySequenceKept` is what
`shutdown_all()` does keep of the sentence `_start_worker()` breaks. `TorqueOffUnlessFailed` is what holds of
`TorqueOffBeforeExit` (when both *threads* have ended, rather than been given up by the joins).

Behaviour of the models, and of the code, that no property of a passing run forbids, with the sentence it meets:

- Control worker, start: the reason of a start edge is seen only by the thread whose poll made it. When the slow
  thread's poll takes it, or the fast thread's tick ends early, a gate passed before a pause stays open and targets are followed
  without entry (`workers/worker_control.py:1412`). `HomeForcesEntry` is what survives: an intermediate homing does
  re-arm the gate, and the limiter of `_condition_teleop_target()` (not modelled) still bounds the velocity.
- Control worker, second start: the baseline of the IK sequence is cleared with the edge and only taken when the mode switches into teleop,
  so a target from before may pass (`worker_control.py:581`). `FirstStartFresh` is what holds.
- Control worker, home: an edge polled during the bring-up or a body motion is dropped, and nothing moves
  although the mode is HOME (`worker_control.py:1385`, `:1388`).
- Watchdog: between the end of a process and the pop of its entry by a request, `has_unexpected_base_failure()` takes
  an orderly stop of control for a failure and ends the launcher (`web_ui/server.py:3985`).
- Headset: the keyboard starts while the guard is inactive, the web UI does not (`workers/keyboard_worker.py:187`); a stream that has
  stopped keeps the guard as it was, as nobody looks at the age of the last pose (`workers/unity_ros_interface.py:461`).
- Headset: the guard is looked at once, before the level is raised. A far pose that is judged between the check and the raise, or in the pass that is
  under way as the level is raised, refuses nothing: the bridge enters RUN at its next poll, where the guard is inactive
  (`web_ui/server.py:3046` and `:3051`, `workers/keyboard_worker.py:186` and `:191`).
- Record worker: a failing `add_frame()` clears `_recording`, with the comment that this keeps errors from piling up
  (`workers/worker_collect_data.py:793`); the record state stays START, and the next pass records again.
- Commands: two polls may both find that the listener has gone and both start a process; the one that loses the port may be the one
  that is kept, and the winner runs on unknown to anybody (`workers/command_process.py:271`). `_join_threads()` in `wait()`
  widens that window to about the 0.5 s of the startup grace.
- Commands: a reap works from its copy of the table, and when the endpoint was started anew meanwhile it drops the entry of the new one, whose
  process goes on (`main.py:893`). A poll that finds the port bound again during the takeover returns 1, and the entry of
  an endpoint that is served is reaped (`workers/command_process.py:280`).
- Inference: a dataset that ends as the RUN ends raises `dataset_idle_after_completion` after the reset, and no later RUN is entered
  (`workers/worker_inference_lerobot.py:524`).
- Hand: the level `hand_init` is cleared from an older snapshot, so a request made in between merges with the first (`workers/worker_hand.py:332`); the
  robot's own service does not raise `_hand_initializing`, and targets go on meanwhile (`workers/worker_hand.py:347`).
- Hand: when the constructor raises after it has started the bridge (`hand_control/robot_hand.py:270`, `:407`), `hand_ctrl` stays none, the
  next tick starts another bridge (`workers/worker_hand.py:150`), and `on_stop()` closes none of those before (`workers/worker_hand.py:469`): they
  take the targets of the later controller too, and repeat the last one after the worker has ended.
- Body controller: the first LowState may arrive during a trajectory that started from zeros, and overwrites its target for one
  period (`robot_control/controller/core.py:1716`).

What the conditions in the properties of the newer modules mean:

- `TakesKeptApart`: frames of two takes in one episode come only from a save, an add or a clear that failed, or a take that was ended
  outside RUN, with frames in the buffer or recording still on. The last case takes more requests than the run has; the proof found it.
- `RecordStartTakesEffect`: the operator has no other request under way as the worker takes the start, and makes none after it.
- `StartHomeExclusive` speaks of a moment with no second write outstanding.
- `StaleScope`, `PolicyFresh`: a result of an earlier RUN is played, or a policy not yet reset asked, only if something was
  under way (`UnderWay`, `mixed`) as the RUN was entered; the pipeline has no number that tells RUNs apart.
- `OverridesBounded`: two targets, the one in flight and the one between `Check` and `Send`, may follow the trigger of an initialisation, at each bridge.
- `BridgeEnds` is about the controller's own bridge: those of failed constructors (`Lost`) stay up, see above. And not after a kill, or when the end of the process
  overtakes the thread's own `stop()`, which the code does not handle.
- `NoOrphans` holds unless a thread used an object while the other replaced its listener (`raced`), a reap dropped another entry than it
  had looked at (`dropped`), or a request was under way as the main thread left (`beside`): the three windows above. `EndpointServed` excuses a failed
  process, an endpoint the operator stopped last, a `dropped` entry, and the end of the launcher. `CamerasExclusive` has no condition.
- `StartAligned` is about starts by the web UI. Its first part is about the reference, which may be taken anew between the status, its check, the raise
  and RUN: it does not leave the operator's head behind. It does not say that the head is still there in RUN, as the code does not see to that. The second bounds the refusals that are
  overlooked once the level is up; between the check and the raise there may be any number of them. `TargetsPaired` excuses a homing given up before both workers had
  acted on it, a reference taken while paused, and a frame of an earlier RUN.

### Bounds

- `MaxOps`, the number of requests of operator and record worker: 2 in the lifecycle run, with
  everything else at its fullest (each request is one or more writes, each separately interleaved); 3 in the run of RUN,
  so that ready, start and its withdrawal, or ready, start and home (or home and start) all happen; 4 in the violation runs that need a start, a clear and a
  second start.
- `Commands` restricts the requests to those a run is about. The stop event is not counted.
- `hist.runs` counts to 2: first RUN or a later one.
- `Length` = 1 phase step: a trajectory is then begun, held, or complete, and the publisher looks at each.
  `MaxMoves` = 2: an old and a new move of the same thread, beside the move of stop(). A second worker thread adds nothing but
  states to the run; the proofs cover any number.
- `lastWrites` counts to 2, one above what is allowed.
- `MaxRequests` = 3 for the supervisor: simulator, control and a third request that meets both (a mode, a stop or the shutdown);
  `MaxProcs` is enough for every worker and a replaced process the watchdog still sees.
- Commands: `MaxRequests` = 3 is an endpoint started, stopped and started again, or a test, a runtime and a save; `MaxProcs` = 3 are enough for those that
  live at a time (a `Spawn` beyond would wait, which the liveness property would show).
- Record: every request of the web UI and of the keyboard, four of them: ready, a record start, its end (or a change of the levels) and a
  second take. `MaxFrames` = 2 lets two takes meet in one buffer.
- Pipeline: `MaxToggles` = 3 changes of the mode are two RUNs with a pause; `MaxStep` = `MaxSeq` = 2 let a chunk be followed by a next one and a number
  be met again in the second RUN; with `Stride` = 2 a chunk has steps a next one must not begin at. The dataset may end (`Dataset` = TRUE).
- Hand: `MaxToggles` = 3 covers every three of ready, an initialisation, a start, a home and a shutdown; with `MaxFrames` = 3 a target
  can mix two frames and be followed by one more. `MaxBridges` = 2 is a constructor that fails and one that does not, or two that fail.
- Headset: three poses of which the outer two are more than `Limit` apart, and four changes of the levels: ready and a start (its check counts, the raise
  follows of itself), with two homings, a home and its end, or another start before, between and after them. Two full runs with a homing each take a change more
  than the run has; the proofs cover any number.

### Fairness

`ControlWorker`: weak fairness of each thread, of the main thread, and of a writer that has begun a request. The
loops run at a fixed rate and the operating system schedules them; a thread that waits for the lock or the
first LowState has no step to take, so fairness demands nothing of it. Nothing is assumed of the robot, the operator
or the IK worker. The pose sequences end (each has a trajectory timeout and an arrival timeout), and `ctrl.stop()` ends, which is what
`StopEnds` shows of `BodyController`.

`BodyController`: weak fairness of the movers and of stop()/abort(), whose every wait has a timeout, and of the
publisher outside `write()`. Nothing is assumed of `write()`, of the progress of a trajectory, or of an answer of the robot.

`Supervisor`: weak fairness of the handler and of the main thread, which are scheduled and whose waits all have timeouts
(`handle_request()` returns after 0.2 s), and of each process that was asked and is not hung. No request, crash or failed start is assumed.

`CommandProcesses`: weak fairness of the handler's thread, of the main thread and its watchdog (a turn takes 0.2 s at most), and of `Listen`: a process
that is not ended comes to listen. No request, death or end of the other session is assumed.

`RecordSession`: weak fairness of the record worker's loop (`Collect`) and of a writer that has begun. `RecordStartTakesEffect` assumes nothing of the operator.

`InferencePipeline`: weak fairness of the four threads, and strong fairness of `SlowWrite`: an inference that is tried again and again succeeds in the end.
Without it every inference may fail, and nothing arrives.

`HandSystem`: weak fairness of the worker's loop, whose waits all have timeouts, and of the control thread. Nothing is assumed of the robot's service or of the bridge.

`HeadsetPath` has safety properties only.

## 4. What is proved

For every value of the constants that satisfies their assumptions (`GateMode`, `SelectableModes`,
`Commands`, `MaxOps` of ControlWorker; any set of workers without "stop", any positive `Length` and `MaxMoves` of BodyController;
any of the seven requests, number of requests and of processes of CommandProcesses; any finite sets of fixed, manual and pool workers, disjoint and
with the few names the code itself uses where it puts them, as many processes as fixed workers at least, any modes and any slow, hung, crashing
or unstartable workers of Supervisor; any bounds, poses and limit of the others).

`ControlWorkerProofs`:

- `Typing`, the type invariant: one lemma per group of actions.
- `BuiltOnce`: from an invariant that ties `builds`, `ctrl` and the lock to the places of the threads:
  a thread in `build` or `guard` holds the lock and `ctrl` is none; `builds` is 0 while `ctrl` is none and nobody is past
  `build`. `builds <= 1` alone is not inductive: it does not exclude a second thread in `build`.
- `TorqueOff`: the same invariant, with the torque: off before the construction and after `aborted`,
  on after it, and `main = "stopping"` only with a controller.
- `Lifecycle`: every step of `ControlWorker` is a step of `ModeLifecycle` or leaves the mode alone (initial
  states map to initial states).
- `HomeReenters`: an open gate in teleop implies that it passed since homing last began.
- `FirstStart`: as long as the first RUN has not begun no baseline-less stale target can pass, by an invariant on
  `runs`, `prevTeleop`, the baseline and the freshness.

`BodyControllerProofs`:

- `Typing`, with the facts that a moving mover's move has a number and that stop() is idle while the controller is open.
- `NoLateMotion`: inductive invariant `ActiveInCharge`: the active trajectory belongs to a call that is still waiting for it or is
  about to take it down. The second look of the publisher (`Update`) turns it into the action property.
- `LatestWins`: `LatestStaysActive` is inductive once a step of one mover is known not to disturb the others (`OthersUndisturbed`).
- `OneWrite`: invariant `LastWrite`: no write yet, or one, with the event set and the publisher at its next look or ended.
- `OffIsOff`, `ClientOpen`: together with "an answered call took the torque away" (`StoppedWell`).

`InferencePipelineProofs` (any stride, with and without a dataset, any bounds):

- `Typing`, with the facts that an inference has a step and that a result that is accepted is valid.
- `Playback`: every step of the pipeline is a step of `ChunkPlayer` or leaves its chunks alone; the second look of `Stage` is what makes the refinement go through.
- `FreshPolicy`: the policy's RUN is that of the session from `SlowReset` to the end of the inference, unless the entry found the slow thread under way.
- `StaleChunks`: every chunk, result and number in the pipeline is of this RUN or accounted for by `UnderWay` at the entry.

`RecordSessionProofs`:

- `StartOrHome`: from `BusOK`: while both levels are up, some writer has a level still to clear (three writers, any order). Stated alone,
  the property is not inductive, as it says nothing of the moment between two writes.
- `Typing`, which needs `BusOK` for what a writer has left to do.
- `OneTakePerEpisode`: invariant `OneTake`: with no reason in `kept`, recording or frames mean that a take is going on or being handled
  in this pass, and every frame is of it. This proof failed on the first version of the history: see `TakesKeptApart` above.

`HandSystemProofs`:

- `Typing`; `BridgeWithWorker`, from the types alone (`own` is a bridge that was started, and every bridge that is up was): all but `own` are `Lost`.
- `OverriddenTwice`: invariant `FewOverrides`: while an initialisation settles, the targets that overrode it at a bridge, the one in flight to it and the one past
  the check are two at most. The bound alone is not inductive.
- `NoFallingBack`: the arrays are of the worker's frame or the one before (`ArraysFresh`), and what the control thread has drafted is not older
  than what it sent but for one frame (`DraftFresh`).

`HeadsetPathProofs`:

- `Typing`, with the fact that no pass publishes without a home reference.
- `AlignedStart`, of two invariants. `CheckedNear`: a guard that accepts has a pose near the reference of now among those looked at since, and so has a start that was let pass,
  before and after it is raised; a reference is only taken anew at the pose just looked at (`LookingKeeps`).
  `FewOverlooked`: a pass outside RUN with the start up has not refused yet. That needs `StartLeads`: a start that is up has ready beside it and no home, and
  the bridge is past WAIT_CONNECT, so its next poll is RUN or the end.
- `ChestWithHome`: the chest's reference is not older than the last homing whose edge the bridge acted on (`ChestOfHoming`).
- `PairedTargets`: invariant `Pairing`, of four parts: no reference is of a homing to come (`NotAhead`); both workers have acted on a homing that
  was not given up early (`Settled`); while home is up, what is outside HOME does not belong to its homing (`OnlyInHome`); the IK worker's anchor is
  of the homing it acted on, and taken before any pause (`Anchored`).

`CommandProcessesProofs`:

- `Typing`, with the facts that a thread in a call has its step ahead of it, and what work is left after each step (`WorkOK`: one of eleven pieces,
  or steps about the endpoint only).
- `OneCameraOwner`: "at most one lives" is not inductive: it does not say that none lives when a request starts one. The invariant has that (`Cleared`: what
  the handler made sure of before it starts a camera program), and why it may believe an entry: a living camera program
  has its entry, is being started, or main is leaving and no other will be started (`Owned`); the object of a call is that of the entry
  (`EntriesOK`); a process number is not given anew while an object has it (`Referenced`); and the object to be made is known to nobody
  (`Fresh`), which keeps the takeover of a listener by the other thread away from it.
- `NobodyForgotten` (`NoOrphans`) needs a second invariant, `OwnerInv`: as long as none of the three windows has been met, a living process is that
  of its entry or is just being started (`EachOwned`). To keep that, the invariant says why an entry may be given up:
  - an entry is dropped only behind a `quit` of it (`ForgettingOK`), and what a thread works on that is not the entry any more, has been told is
    dead, or has ended, is finished (`EndpointCallsOK`): no process of it lives, and nobody is replacing its listener;
  - what a stop holds is the entry still, unless the watchdog has dropped that (`HeldOK`); a drop of a camera program is of its entry (`DropsOK`);
  - a new endpoint is made only while there is no entry, and one that did not start has left no process (`MakesOK`);
  - a vanished listener is replaced by one thread at a time, in the entry, while nobody listens (`TakesOK`, `ReusedOK`);
  - the watchdog only reaps, and after main has left nothing is under way unless it was then (`ServingOK`); a call says what its step wants (`WantsOK`).

`SupervisorProofs` rests on two inductive invariants. `CoreInv` is about processes and tables, with two threads that share no lock:

- `OwnedOK`, `TrackedOK`: an entry is a process of its worker, and a living process is its worker's entry, unless the watchdog forgot it.
  `OneProcess` (`OneProcessEach`) follows at once; alone it is not inductive, as it does not say that nothing lives when a `Spawn` comes.
- `PlanOK`, `StageOK`: a `spawn` is the first step, or the second behind the stop of the same worker; so what `StartWorker` found out about
  the old process is still true at the `spawn`, whatever the watchdog and `shutdown_all()` do in between. A stop that has reached `close` holds an ended
  process, and one that has reached `discard` has dropped the entry.
- `ClosedOK`: a closed process stands in the table only between `Close` and `Forget` of the same request. With `LeftOK` (after the web UI is left,
  nothing is under way unless it was then) and `SizeOK` (the listing still counts the table) it gives `RaisesBeside` (`RaisesOnlyBesideRequest`).
- `AwaitedOK`: what `shutdown_all()` found running is still the entry or has ended; this is what the joins need for `SafetySequence`
  (`SafetySequenceKept`). `NoneLeftOK` says what `KillAll` has achieved before the table is cleared, for `NoneLeft` (`ShutdownLeavesNone`).
- `Typing` is the typing part of it. That a plan is a sequence of `Step` needs the sets of workers to be finite, since `SetToSeq` orders them.

`EnvironmentInv` is kept beside `CoreInv`, and gives `EnvironmentKept` (`EnvironmentAgrees`), which says nothing of the moments within a request:

- `EnvironmentOK`: there is an environment e that the request under way leads to. Its steps are for e (`StepsFor`); the environment is e already, or
  the step that makes it e is still ahead (`TurnsTo`: a start of the simulator not yet spawned, a stop not yet discarded); and each worker
  that cares runs for e or has a refresh or a spawn ahead (`RunsFor`). Workers the watchdog drops meanwhile leave the claim.
- `SettleOK`: until a mode is settled every living worker of the mode pool is selected or about to be stopped, so `Settle`,
  which computes the intended set anew, does not leave a process behind that is not in it (`KnownOK`).
- `LoggerOK`: the walking logger runs in the walking mode only. Without it a refresh could skip it (`main.py:836`) and leave it in the wrong environment.

Only model-checked: liveness (`ShutdownCompletes`, `PauseStops`, `MoveReturns`, `StopEnds`, `CrashNoticed`, `LauncherEnds`, `RequestEnds`,
`EndpointServed`, `RecordStartTakesEffect`, `ChunkArrives`, `ShutdownHonoured`, `InitTaken`), which the
prover does not do under fairness. Every invariant and every action property of a passing run is a theorem, and so is the refinement. The type invariants are proved and not run. No definition is recursive and no proof rests on an unproved fact.

## 5. Not modelled

- Worth modelling next: camera settings (which restart the cameras beside the watchdog), the composition of `ControlWorker`'s threads with `BodyController`.
- `sharedmemory/`: creation, attachment and removal are calls of the operating system on names; the reads and writes
  without a lock are steps of the modules that use a block.
- `worker_inference_pi.py` (the pipeline without a policy reset), `worker_replay.py` and `worker_walking_policy.py` (one thread that computes from what it
  reads in the same tick), `worker_master_arm_bridge.py` and the cameras (one source, one block).
- Numeric control (trajectory shape, IK, waist transition, filters, limiter, retargeting), neural policies and training, the
  simulator's physics, camera and ROS conversion, calibration scripts, the pages of the web UI, generated and vendored code
  (`src/third_party`, `src/vendor_patches`, `dex_retargeting`). They are most of the repository's lines, and have no control
  state a model checker would say something about.
