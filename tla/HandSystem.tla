------------------------------ MODULE HandSystem ------------------------------
(***************************************************************************)
(* The hand on the real robot: the loop of the hand worker                  *)
(* (workers/worker_hand.py), the control thread of its IgrisHandController  *)
(* (hand_control/robot_hand.py), and the native bridge process that thread  *)
(* talks to over ROS (ros_ws .../igris_c_hand_bridge_node.cpp), which       *)
(* latches the last target and repeats it to the robot at 100 Hz.  The      *)
(* constructor starts the bridge before it can fail, and is tried again at  *)
(* every tick: there may be more bridges than the controller's, on the same *)
(* topic and service.                                                       *)
(*                                                                          *)
(* The worker writes a frame of the headset into arrays; the thread reads   *)
(* them, each array under a lock of its own, and sends a target.  A frame   *)
(* is a number; a target is, per hand, the frame it was made from.  Both    *)
(* hands of a frame have the same source: nothing but the reads' timing     *)
(* relates them.                                                            *)
(***************************************************************************)
EXTENDS ModeMachine, Integers

CONSTANTS
  MaxToggles,   \* bound: changes the operator makes to the levels
  MaxFrames,    \* bound: frames the worker reads
  MaxBridges    \* bound: bridges the worker starts

ASSUME BoundsAssumption == {MaxToggles, MaxFrames, MaxBridges} \subseteq Nat

Source == {"pose", "close", "motor"}   \* what a frame offers besides the pose
Frame == 0..MaxFrames
Target == [left : Frame, right : Frame]
None == [left |-> -1, right |-> -1]    \* no target
Bridges == 1..MaxBridges

VARIABLES
  levels, toggles,       \* the bus; changes so far
  direct,                \* leader hands: the worker itself sends the targets
  at, mode, seen,        \* the worker: its place, its mode, what it saw set
  own,                   \* the bridge of hand_ctrl; 0: there is no controller
  frame,                 \* the last frame the worker has read
  hybrid, left, right,   \* the arrays: close and motor commands, the two poses
  thread, running,       \* the control thread: its place; its loop's flag
  draft, sent,           \* the target it works on; the last one it sent
  initializing,          \* _hand_initializing
  started, up,           \* bridges started so far; those that are up
  topic, latched,        \* a target is in flight to them; has_command_
  asked,                 \* an init request is in flight to them
  triggered, overrides,  \* history: they handled this init; targets latched since
  killed                 \* history: the worker's process was killed

bus == <<levels, toggles, direct>>
loop == <<at, mode, seen>>
arrays == <<frame, hybrid, left, right>>
control == <<thread, running, draft, sent>>
traffic == <<topic, latched, asked, triggered, overrides>>
bridging == <<started, up, traffic>>
vars == <<bus, loop, own, arrays, control, initializing, bridging, killed>>

Level == {"ready", "start", "home", "hand_init", "shutdown"}

TypeOK ==
  /\ levels \subseteq Level /\ seen \subseteq {"ready", "hand_init"}
  /\ toggles \in 0..MaxToggles
  /\ {direct, running, initializing, killed} \subseteq BOOLEAN
  /\ at \in {"poll", "tick", "construct", "service", "arm", "call", "settle",
             "left", "right", "closing", "gone"}
  /\ initializing => at \in {"call", "settle", "gone"}
  /\ mode \in Modes
  /\ {frame, left, right} \subseteq Frame
  /\ hybrid \in [frame : Frame, source : Source]
  /\ thread \in {"none", "born", "read", "right", "close", "motor", "check",
                 "send", "stopping", "ended"}
  /\ {draft, sent} \subseteq Target \cup {None}
  /\ thread \in {"right", "close", "motor", "check", "send"} => draft # None
  /\ {own, started} \subseteq 0..MaxBridges /\ own <= started
  /\ up \subseteq 1..started
  /\ {topic, latched, asked, triggered} \subseteq SUBSET Bridges
  /\ overrides \in [Bridges -> Nat]

Init ==
  /\ levels = {} /\ toggles = 0 /\ direct \in BOOLEAN
  /\ at = "poll" /\ mode = "WAIT_CONNECT" /\ seen = {}
  /\ own = 0
  /\ frame = 0 /\ hybrid = [frame |-> 0, source |-> "pose"] /\ left = 0 /\ right = 0
  /\ thread = "none" /\ running = FALSE /\ draft = None /\ sent = None
  /\ initializing = FALSE
  /\ started = 0 /\ up = {} /\ topic = {} /\ latched = {} /\ asked = {} /\ triggered = {}
  /\ overrides = [b \in Bridges |-> 0] /\ killed = FALSE

Built == own # 0

------------------------------------------------------------------------------
(* The operator, and the gates of the web UI.                               *)

\* set_level(): hand_init needs "ready" and neither "start" nor "home"; clearing
\* "ready" clears the others.  Once the process has ended nobody reads the levels.
Toggle ==
  /\ at # "gone" /\ toggles < MaxToggles /\ toggles' = toggles + 1
  /\ \/ levels' = levels \cup {"ready"}
     \/ levels' = levels \ {"ready", "start", "home", "hand_init"}
     \/ "ready" \in levels /\ levels' = (levels \cup {"start"}) \ {"home"}
     \/ "ready" \in levels /\ levels' = (levels \cup {"home"}) \ {"start"}
     \/ levels' = levels \ {"start", "home"}
     \/ /\ "ready" \in levels /\ {"start", "home"} \cap levels = {}
        /\ levels' = levels \cup {"hand_init"}
     \/ levels' = levels \cup {"shutdown"}
  /\ UNCHANGED <<direct, loop, own, arrays, control, initializing, bridging, killed>>

------------------------------------------------------------------------------
(* The worker's loop.                                                       *)

Snapshot == [shutdown |-> "shutdown" \in levels, ready |-> "ready" \in levels,
             start |-> "start" \in levels, home |-> "home" \in levels]

\* The end of run(): on_stop() begins with close(), which lowers `running`.
EndLoop ==
  /\ at' = "closing"
  /\ running' = (running /\ ~Built)

Poll ==
  /\ at = "poll" /\ seen' = levels \cap {"ready", "hand_init"}
  /\ mode' = StepMode(mode, Snapshot).mode
  /\ IF mode' = "EXIT" THEN EndLoop ELSE at' = "tick" /\ UNCHANGED running
  /\ UNCHANGED <<bus, own, arrays, thread, draft, sent, initializing, bridging, killed>>

\* Variant of TakeInit: the request is looked at after _ensure_controller_ready().
TakeInitWhenBuilt ==
  /\ at = "tick" /\ "hand_init" \in seen /\ Built
  /\ levels' = levels \ {"hand_init"} /\ at' = "service"

\* _handle_hand_init_request() comes first, whatever else is ready: the request
\* is lowered, then the robot's own ROS service is called.
TakeInit ==
  /\ at = "tick" /\ "hand_init" \in seen
  /\ levels' = levels \ {"hand_init"} /\ at' = "service"

InitRequested ==
  /\ TakeInit
  /\ UNCHANGED <<toggles, direct, mode, seen, own, arrays, control, initializing,
                 bridging, killed>>

\* Variant of ServiceEnds: the call has no timeout, and the service need not answer.
ServiceEndsAnswered ==
  at = "service" /\ asked # {} /\ at' = "poll"

\* _call_robot_hand_init_service(): success, or a failure or the 20 s timeout and
\* then the controller's own initialize_hand(), when there is a controller.
ServiceEnds ==
  at = "service" /\ (at' = "poll" \/ at' = IF Built THEN "arm" ELSE "poll")

RobotService ==
  /\ ServiceEnds
  /\ UNCHANGED <<bus, mode, seen, own, arrays, control, initializing, bridging, killed>>

\* initialize_hand(): no first state within 5 s, or the flag is raised.
Arm ==
  /\ at = "arm"
  /\ \/ at' = "poll" /\ UNCHANGED initializing
     \/ at' = "call" /\ initializing' = TRUE
  /\ UNCHANGED <<bus, mode, seen, own, arrays, control, bridging, killed>>

\* send_init_command(): every bridge that offers the service is asked, and the
\* first answer counts.
Call ==
  /\ at = "call" /\ at' = "settle"
  /\ \E found \in SUBSET up : asked' = asked \cup found
  /\ UNCHANGED <<bus, mode, seen, own, arrays, control, initializing, started, up, topic,
                 latched, triggered, overrides, killed>>

\* It is refused or not answered in time, or the motion is waited for; in every
\* case the flag falls in the end.  A request not answered in time stays pending.
InitReturns ==
  /\ at \in {"call", "settle"}
  /\ at' = "poll" /\ initializing' = FALSE
  /\ triggered' = {} /\ overrides' = [b \in Bridges |-> 0]
  /\ UNCHANGED <<bus, mode, seen, own, arrays, control, started, up, topic, latched, asked,
                 killed>>

Ticks == at = "tick" /\ "hand_init" \notin seen

\* _ensure_controller_ready() without a controller: nothing before "ready", or the
\* constructor raises before it has a bridge; else it starts one.
Build ==
  /\ Ticks /\ ~Built
  /\ \/ at' = "poll" /\ UNCHANGED <<started, up>>
     \/ /\ "ready" \in seen /\ started < MaxBridges
        /\ started' = started + 1 /\ up' = up \cup {started'} /\ at' = "construct"
  /\ UNCHANGED <<bus, mode, seen, own, arrays, control, initializing, traffic, killed>>

\* The rest of it.  If that raises nobody knows the bridge any more, and the next
\* tick starts another; else the controller is there, and unless direct its thread.
Construct ==
  /\ at = "construct" /\ at' = "poll"
  /\ \/ UNCHANGED <<own, thread>>
     \/ own' = started /\ thread' = IF direct THEN "none" ELSE "born"
  /\ UNCHANGED <<bus, mode, seen, arrays, running, draft, sent, initializing, bridging, killed>>

Idle ==
  /\ Ticks /\ Built /\ mode # "RUN" /\ at' = "poll"
  /\ UNCHANGED <<bus, mode, seen, own, arrays, control, initializing, bridging, killed>>

\* Leader hands: ctrl_dual_hand() in the worker's own loop.
DirectStep ==
  /\ Ticks /\ Built /\ mode = "RUN" /\ direct /\ at' = "poll"
  /\ \/ UNCHANGED <<frame, sent, topic>>
     \/ /\ frame < MaxFrames /\ frame' = frame + 1
        /\ sent' = [left |-> frame', right |-> frame'] /\ topic' = up
  /\ UNCHANGED <<bus, mode, seen, own, hybrid, left, right, thread, running, draft,
                 initializing, started, up, latched, asked, triggered, overrides, killed>>

\* _write_normalized_close_inputs(): both kinds of commands under one lock.
\* A frame that cannot be read raises, and the loop ends.
TakeFrame ==
  /\ Ticks /\ Built /\ mode = "RUN" /\ ~direct
  /\ \/ EndLoop /\ UNCHANGED <<frame, hybrid>>
     \/ /\ frame < MaxFrames /\ frame' = frame + 1
        /\ \E source \in Source : hybrid' = [frame |-> frame', source |-> source]
        /\ at' = "left" /\ UNCHANGED running
  /\ UNCHANGED <<bus, mode, seen, own, left, right, thread, draft, sent, initializing,
                 bridging, killed>>

\* Variant of WriteLeft: the pose is left out of a frame that has a command.
WriteLeftIfPose ==
  left' = IF hybrid.source = "pose" THEN frame ELSE left

WriteLeft == left' = frame

LeftPose ==
  /\ at = "left" /\ WriteLeft /\ at' = "right"
  /\ UNCHANGED <<bus, mode, seen, own, frame, hybrid, right, control, initializing,
                 bridging, killed>>

RightPose ==
  /\ at = "right" /\ right' = frame /\ at' = "poll"
  /\ UNCHANGED <<bus, mode, seen, own, frame, hybrid, left, control, initializing,
                 bridging, killed>>

\* Variant of StopBridge: close() leaves it to the thread.
StopBridgeByThread == up' = IF thread = "none" THEN up \ {own} ELSE up

\* The rest of on_stop(): the join with its timeout, then stop(), which returns at
\* once when the thread is in a stop() of its own.  Then the process ends, and its
\* daemon thread with it.
StopBridge == up' = IF thread = "stopping" THEN up ELSE up \ {own}

Gone ==
  /\ at = "closing" /\ at' = "gone"
  /\ IF Built THEN StopBridge ELSE UNCHANGED up
  /\ UNCHANGED <<bus, mode, seen, own, arrays, control, initializing, started, traffic, killed>>

Worker ==
  \/ Poll \/ InitRequested \/ RobotService \/ Arm \/ Call \/ InitReturns \/ Build
  \/ Construct \/ Idle \/ DirectStep \/ TakeFrame \/ LeftPose \/ RightPose \/ Gone

\* The supervisor gives up on the process, or it crashes.
Kill ==
  /\ at # "gone" /\ at' = "gone" /\ killed' = TRUE
  /\ UNCHANGED <<bus, mode, seen, own, arrays, control, initializing, bridging>>

------------------------------------------------------------------------------
(* The control thread: control_process().                                   *)

Alive(place) == thread = place /\ at # "gone"
Others == <<bus, loop, own, arrays, initializing, killed>>

\* The flag is raised by the thread itself, after a close() too.
Start ==
  /\ Alive("born") /\ thread' = "read" /\ running' = TRUE
  /\ UNCHANGED <<Others, draft, sent, bridging>>

ReadLeft ==
  /\ Alive("read")
  /\ IF running
       THEN thread' = "right" /\ draft' = [left |-> left, right |-> 0]
       ELSE thread' = "stopping" /\ draft' = None
  /\ UNCHANGED <<Others, running, sent, bridging>>

ReadRight ==
  /\ Alive("right") /\ thread' = "close" /\ draft' = [draft EXCEPT !.right = right]
  /\ UNCHANGED <<Others, running, sent, bridging>>

\* A valid command takes the place of what was read before: the closings that of
\* the poses, the motor commands, read under the lock once more, that of both.
Prefer(source) ==
  draft' = IF hybrid.source = source
             THEN [left |-> hybrid.frame, right |-> hybrid.frame] ELSE draft

ReadClose ==
  /\ Alive("close") /\ thread' = "motor" /\ Prefer("close")
  /\ UNCHANGED <<Others, running, sent, bridging>>

ReadMotor ==
  /\ Alive("motor") /\ thread' = "check" /\ Prefer("motor")
  /\ UNCHANGED <<Others, running, sent, bridging>>

\* Variant of MaySend: the flag is not looked at.
MaySendAlways == TRUE

\* ctrl_dual_hand(): the flag is read, and then the target published.
MaySend == ~initializing

Check ==
  /\ Alive("check")
  /\ IF MaySend THEN thread' = "send" /\ draft' = draft
                ELSE thread' = "read" /\ draft' = None
  /\ UNCHANGED <<Others, running, sent, bridging>>

Send ==
  /\ Alive("send") /\ thread' = "read"
  /\ sent' = draft /\ draft' = None
  /\ topic' = up
  /\ UNCHANGED <<Others, running, started, up, latched, asked, triggered, overrides>>

\* `finally`: stop() ends the bridge.
ThreadStops ==
  /\ Alive("stopping") /\ thread' = "ended" /\ up' = up \ {own}
  /\ UNCHANGED <<Others, running, draft, sent, started, traffic>>

Control ==
  \/ Start \/ ReadLeft \/ ReadRight \/ ReadClose \/ ReadMotor \/ Check \/ Send
  \/ ThreadStops

------------------------------------------------------------------------------
(* The bridges.                                                             *)

\* handle_ros_command(), or the target is lost: best effort, and one is kept.
TakeTarget(b) ==
  /\ b \in topic /\ topic' = topic \ {b}
  /\ \/ UNCHANGED <<latched, overrides>>
     \/ /\ b \in up /\ latched' = latched \cup {b}
        /\ overrides' = IF b \in triggered
                          THEN [overrides EXCEPT ![b] = @ + 1] ELSE overrides
  /\ UNCHANGED <<Others, control, started, up, asked, triggered>>

\* handle_init(): the latched target is dropped, the trigger goes to the robot.
HandleInit(b) ==
  /\ b \in asked \cap up
  /\ asked' = asked \ {b} /\ latched' = latched \ {b}
  /\ triggered' = IF at = "settle" THEN triggered \cup {b} ELSE triggered
  /\ UNCHANGED <<Others, control, started, up, topic, overrides>>

Bridge == \E b \in Bridges : TakeTarget(b) \/ HandleInit(b)

Next == Toggle \/ Worker \/ Kill \/ Control \/ Bridge

Spec == Init /\ [][Next]_vars

\* The worker's loop and the thread are scheduled.  The operator, the robot and
\* the bridges owe nothing.
FairSpec == Spec /\ WF_vars(Worker) /\ WF_vars(Control)

------------------------------------------------------------------------------
(* Properties.                                                              *)

\* The control thread checks _hand_initializing and then sends, and what it sends
\* is in flight for a while.  So an init may be disturbed, but no bridge that has
\* handled it latches more than two targets: one in flight when the flag was
\* raised, one that was past the check.
OverridesBounded == \A b \in Bridges : overrides[b] <= 2

\* The targets sent come from newer and newer frames although the arrays are read
\* one after another while the worker writes them: a target can fall back behind
\* the one before it, when the poses take over from a command, by one frame only.
OneBack(hand) == sent # None => sent'[hand] >= sent[hand] - 1
TargetsForward == [][sent' # None => OneBack("left") /\ OneBack("right")]_sent

\* When the worker's process has ended, so have its bridges, and no longer repeat
\* the last target to the robot, but for those the code loses: the bridges of
\* constructors that failed after starting one, and that of a worker that was
\* killed or whose end overtook its thread's own stop().
Lost == (1..started) \ {own}
BridgeEnds ==
  at = "gone" => up \subseteq Lost \/ killed \/ thread = "stopping"

\* Shutdown ends the worker even if it is asked in the middle of a hand init that
\* neither the robot's service nor the bridge ever answers.
ShutdownHonoured == ("shutdown" \in levels) ~> (at = "gone")

\* A hand init request is taken whether or not the local controller can be built.
InitTaken == ("hand_init" \in levels) ~> ("hand_init" \notin levels \/ at = "gone")
==============================================================================
