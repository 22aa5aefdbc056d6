----------------------------- MODULE HeadsetPath -----------------------------
(***************************************************************************)
(* From the headset to the arms.  Two workers share one idea of "home"      *)
(* without a common step: UnityRosridgeWorker (workers/                     *)
(* worker_unity_bridge.py) keeps the pose of the operator's head and hands  *)
(* at home and writes frames relative to it; IGRISIKWorker (workers/        *)
(* worker_igris_ik.py) keeps the pose of the robot at home and applies the  *)
(* relative frames to it.  Both poll the same levels, each at its own rate, *)
(* and the bridge's head start guard (head_start_guard.py) decides, through *)
(* shared memory, whether the web UI and the keyboard may raise "start":     *)
(* they look at its status first and raise the level after that, while the  *)
(* bridge goes on.                                                          *)
(*                                                                          *)
(* A pose is a number; the pose received last is all that is known of the   *)
(* head, however old it is.  A reference is tagged with the homing it goes  *)
(* with.  A change of the levels is one step here: RecordSession has the    *)
(* two writes it is made of.                                                *)
(***************************************************************************)
EXTENDS ModeMachine, Integers

CONSTANTS
  Poses,        \* a range of numbers; 0 is among them
  Limit,        \* HEAD_POS_THRESH_M and HEAD_ROT_THRESH_DEG
  MaxToggles,   \* bound: changes of the levels
  MaxHomings    \* bound: how often "home" is raised

ASSUME PosesAssumption == 0 \in Poses /\ Poses \subseteq Int /\ Limit \in Nat
ASSUME BoundsAssumption == {MaxToggles, MaxHomings} \subseteq Nat

Homing == 0..MaxHomings
None == -2      \* no reference, no frame
Paused == -1    \* captured while paused: it goes with no homing
Tag == Homing \cup {None, Paused}

VARIABLES
  levels, toggles, homings,     \* the bus; homings so far
  starting,                     \* who has been let pass and has not raised start yet
  pose, received,               \* the pose of the head, once there is one
  at, mode, edge,               \* the bridge: place, mode, reason of its poll
  home,                         \* the head's pose and tag at home
  chest,                        \* tag of the chest's reference
  robotHead,                    \* the guard's reference of the robot's head
  judging,                      \* the pose the guard of this pass looks at
  guard,                        \* teleop_guard_shm
  frame,                        \* television_shm: the tags of its references
  ikAt, ikMode, ikEdge,         \* the IK worker: place, mode, reason of its poll
  anchor,                       \* tag of the robot's pose at home
  ee,                           \* ee_shm holds a pose of the robot's head
  aligned,                      \* history: a pose looked at since guard is near home
  checked,                      \* history: the last start, if the UI raised it
  homed,                        \* history: the homing whose edge each worker acted on
  short                         \* history: home was given up too early

bus == <<levels, toggles, homings, starting>>
headset == <<pose, received>>
refs == <<home, chest, robotHead>>
bridge == <<at, mode, edge, refs, judging, guard, frame>>
ik == <<ikAt, ikMode, ikEdge, anchor, ee>>
history == <<aligned, checked, homed, short>>
vars == <<bus, headset, bridge, ik, history>>

NoFrame == [home |-> None, chest |-> None]
NoGuard == [active |-> FALSE, ok |-> FALSE]

TypeOK ==
  /\ levels \subseteq {"ready", "start", "home", "shutdown"}
  /\ toggles \in 0..MaxToggles /\ homings \in Homing /\ starting \subseteq {"ui", "key"}
  /\ pose \in Poses /\ received \in BOOLEAN
  /\ at \in {"poll", "capture", "publish", "stopped"} /\ mode \in Modes
  /\ ikAt \in {"poll", "tick", "stopped"} /\ ikMode \in Modes
  /\ {edge, ikEdge} \subseteq Reasons
  /\ home \in [pose : Poses, tag : Tag] /\ {chest, anchor} \subseteq Tag
  /\ robotHead \in {"none", "fallback", "robot"}
  /\ judging \in Poses
  /\ guard \in [active : BOOLEAN, ok : BOOLEAN]
  /\ (guard.ok => guard.active)
  /\ frame \in [home : Tag, chest : Tag]
  /\ (frame # NoFrame => frame.home # None)         \* no absolute pose is published
  /\ {ee, aligned} \subseteq BOOLEAN
  /\ checked \in [on : BOOLEAN, near : BOOLEAN, overlooked : Nat]
  /\ homed \in [bridge : Homing, ik : Homing]
  /\ short \in BOOLEAN

Init ==
  /\ levels = {} /\ toggles = 0 /\ homings = 0 /\ starting = {}
  /\ pose = 0 /\ received = FALSE
  /\ at = "poll" /\ mode = "WAIT_CONNECT" /\ edge = ""
  /\ home = [pose |-> pose, tag |-> None] /\ chest = None /\ robotHead = "none"
  /\ judging = 0
  /\ guard = NoGuard /\ frame = NoFrame
  /\ ikAt = "poll" /\ ikMode = "WAIT_CONNECT" /\ ikEdge = "" /\ anchor = None
  /\ ee = FALSE /\ aligned = FALSE
  /\ checked = [on |-> FALSE, near |-> FALSE, overlooked |-> 0]
  /\ homed = [bridge |-> 0, ik |-> 0] /\ short = FALSE

------------------------------------------------------------------------------
(* The headset.                                                             *)

\* _on_head_pose(): the next pose may be far from the last one.
ReceivePose ==
  /\ mode # "WAIT_CONNECT"        \* there is an interface
  /\ pose' \in Poses /\ received' = TRUE
  /\ UNCHANGED <<bus, bridge, ik, history>>

------------------------------------------------------------------------------
(* The operator.                                                            *)

Distance(p, q) == IF p < q THEN q - p ELSE p - q
Near(p, q) == Distance(p, q) <= Limit

Changes ==
  /\ toggles < MaxToggles /\ toggles' = toggles + 1
  /\ UNCHANGED <<headset, bridge, ik, aligned, homed>>

\* A change of the levels in one step, by the UI, the keyboard or either.  The UI
\* does nothing else while a start of its own is on its way (self.lock), the
\* keyboard is one loop.
Toggle(who, new) ==
  /\ Changes /\ ~(who \subseteq starting)
  /\ levels' = new /\ new # levels /\ UNCHANGED starting

\* Home is given up: perhaps before both workers have acted on its edge.
LeaveHome ==
  short \/ ("home" \in levels /\ {homed.bridge, homed.ik} # {homings})

\* Variant of UiMayStart: an inactive guard does not refuse, as for the keyboard.
UiMayStartInactive == guard.active => guard.ok

\* _start_block_message()
UiMayStart == guard.active /\ guard.ok

Ready ==
  /\ Toggle({"ui", "key"}, levels \cup {"ready"})
  /\ UNCHANGED <<homings, checked, short>>

\* A start is let pass: what was looked at may change before it is raised.
CheckStart(who) ==
  /\ Changes /\ who \notin starting /\ starting' = starting \cup {who}
  /\ "ready" \in levels
  /\ UNCHANGED <<levels, homings, short>>

UiCheck ==
  /\ CheckStart("ui") /\ UiMayStart
  /\ checked' = [checked EXCEPT !.near = aligned]

KeyCheck ==
  /\ CheckStart("key") /\ "start" \notin levels
  /\ ~(guard.active /\ ~guard.ok)                   \* head_guard_is_blocking()
  /\ UNCHANGED checked

\* set_level("start"), whatever the guard says by now.
RaiseStart(who) ==
  /\ who \in starting /\ starting' = starting \ {who}
  /\ levels' = (levels \cup {"start"}) \ {"home"}
  /\ checked' = IF "start" \in levels THEN checked
                ELSE [checked EXCEPT !.on = (who = "ui"), !.overlooked = 0]
  /\ short' = LeaveHome
  /\ UNCHANGED <<toggles, homings, headset, bridge, ik, aligned, homed>>

Home ==
  /\ "ready" \in levels /\ homings < MaxHomings
  /\ Toggle({"ui", "key"}, (levels \cup {"home"}) \ {"start"})
  /\ homings' = IF "home" \in levels THEN homings ELSE homings + 1
  /\ UNCHANGED <<checked, short>>

Clear(who, ls) ==
  /\ Toggle(who, levels \ ls)
  /\ short' = IF "home" \in ls THEN LeaveHome ELSE short
  /\ UNCHANGED <<homings, checked>>

\* Anyone may ask for the end.
Quit ==
  /\ Changes /\ levels' = levels \cup {"shutdown"} /\ levels' # levels
  /\ UNCHANGED <<homings, starting, checked, short>>

Operator ==
  \/ Ready \/ UiCheck \/ KeyCheck \/ RaiseStart("ui") \/ RaiseStart("key") \/ Home \/ Quit
  \/ Clear({"ui"}, {"ready", "start", "home"}) \/ Clear({"ui", "key"}, {"start", "home"})
  \/ Clear({"ui"}, {"start"}) \/ Clear({"ui", "key"}, {"home"})

Snapshot == [shutdown |-> "shutdown" \in levels, ready |-> "ready" \in levels,
             start |-> "start" \in levels, home |-> "home" \in levels]

------------------------------------------------------------------------------
(* The bridge.                                                              *)

\* poll(); in EXIT on_stop() takes the guard away.
Poll ==
  /\ at = "poll"
  /\ mode' = StepMode(mode, Snapshot).mode /\ edge' = StepMode(mode, Snapshot).reason
  /\ IF mode' = "EXIT" THEN at' = "stopped" /\ guard' = NoGuard
                       ELSE at' = "capture" /\ UNCHANGED guard
  /\ UNCHANGED <<bus, headset, refs, judging, frame, ik, history>>

\* History: the bridge refuses while a start is up that the UI has let pass.
CountRefusal ==
  checked' = IF guard'.active /\ ~guard'.ok /\ checked.on /\ "start" \in levels
               THEN [checked EXCEPT !.overlooked = @ + 1] ELSE checked

\* _ensure_ros_ready() fails, the payload cannot be read, or no pose has arrived:
\* the pass ends without references, and an edge of its poll is lost with it.
\* The guard of a bridge without an interface is inactive, else it refuses.
GiveUp ==
  /\ at = "capture" /\ at' = "poll"
  /\ \E active \in BOOLEAN :
       /\ mode \in {"WAIT_CONNECT", "RUN"} => ~active
       /\ received /\ mode # "RUN" => active
       /\ guard' = [active |-> active, ok |-> FALSE]
  /\ edge' = "" /\ aligned' = FALSE /\ CountRefusal
  /\ UNCHANGED <<bus, headset, mode, refs, judging, frame, ik, homed, short>>

\* Variant of ChestAtHome: the edge of a new homing keeps the old reference.
ChestAtHomeKept(ready) == IF ready THEN homings ELSE chest

\* The chest's reference in HOME: forgotten on the edge, taken when it is reliable.
ChestAtHome(ready) ==
  IF ready THEN homings ELSE IF edge = "home_set" THEN None ELSE chest

\* Both workers have acted on the edge of this homing: their references agree.
ActOnHome(worker) ==
  /\ homed' = [homed EXCEPT ![worker] = homings]
  /\ short' = (short /\ {homed'.bridge, homed'.ik} # {homings})

CaptureHome(tag) == home' = [pose |-> pose, tag |-> tag]

\* The branch of step_once() for HOME: every pass takes the references again.
CaptureAtHome(ready) ==
  /\ CaptureHome(homings) /\ chest' = ChestAtHome(ready)
  /\ robotHead' = IF ee THEN "robot" ELSE "fallback"
  /\ IF edge = "home_set" THEN ActOnHome("bridge") ELSE UNCHANGED <<homed, short>>

\* _maybe_seed_initial_home_reference(): a reference that stood for the robot's
\* head is replaced by the robot's head, and then the home pose is taken again.
Seed(ready) ==
  LET replaced == ee /\ robotHead = "fallback"
      paused == mode = "PAUSE" IN
  /\ chest' = IF ~ready THEN chest ELSE IF paused THEN Paused ELSE homed.bridge
  /\ robotHead' = IF ee THEN "robot" ELSE IF robotHead = "none" THEN "fallback" ELSE robotHead
  /\ IF replaced \/ home.tag = None \/ (robotHead = "none" /\ ~ee)
       THEN CaptureHome(IF paused THEN Paused ELSE homed.bridge)
       ELSE UNCHANGED home
  /\ UNCHANGED <<homed, short>>

\* RUN takes what is missing: the home pose, and a chest that becomes reliable late.
CaptureInRun(ready) ==
  /\ IF home.tag = None THEN CaptureHome(homed.bridge) ELSE UNCHANGED home
  /\ chest' = IF ready /\ chest = None THEN homed.bridge ELSE chest
  /\ UNCHANGED <<robotHead, homed, short>>

\* History: this pose is near the reference, or one before it was, and the
\* reference is still the same.
Look ==
  /\ aligned' = (Near(pose, home'.pose) \/ (aligned /\ home' = home))
  /\ checked' = [checked EXCEPT !.near = Near(pose, home'.pose) \/ (@ /\ home' = home)]

Capture ==
  /\ at = "capture" /\ at' = "publish"
  /\ received /\ mode # "WAIT_CONNECT"
  /\ \E ready \in BOOLEAN :                       \* get_chest_reliability()
       CASE mode = "HOME" -> CaptureAtHome(ready)
         [] mode \in {"WAIT_START", "PAUSE"} -> Seed(ready)
         [] mode = "RUN" -> CaptureInRun(ready)
  /\ judging' = pose /\ Look
  /\ edge' = ""
  /\ UNCHANGED <<bus, headset, mode, guard, frame, ik>>

\* _update_head_guard(), then the frame: in RUN only.
Publish ==
  /\ at = "publish" /\ at' = "poll"
  /\ guard' = IF mode = "RUN" THEN NoGuard
              ELSE [active |-> TRUE,
                    ok |-> robotHead # "none" /\ Near(judging, home.pose)]
  /\ aligned' = Near(judging, home.pose) /\ CountRefusal
  /\ frame' = IF mode = "RUN" THEN [home |-> home.tag, chest |-> chest] ELSE frame
  /\ judging' = 0
  /\ UNCHANGED <<bus, headset, mode, edge, refs, ik, homed, short>>

Bridge == Poll \/ GiveUp \/ Capture \/ Publish

------------------------------------------------------------------------------
(* The IK worker.  An observation may be missing; a failing solver is left    *)
(* out.                                                                      *)

IkPoll ==
  /\ ikAt = "poll"
  /\ ikMode' = StepMode(ikMode, Snapshot).mode /\ ikEdge' = StepMode(ikMode, Snapshot).reason
  /\ ikAt' = IF ikMode' = "EXIT" THEN "stopped" ELSE "tick"
  /\ UNCHANGED <<bus, headset, bridge, anchor, ee, history>>

\* Variant of AnchorAtHome: the edge of a new homing keeps the old anchor.
AnchorAtHomeKept(obs) == IF obs \/ anchor = None THEN homings ELSE anchor

\* _clear_home_reference() on the edge, then _maybe_set_home(force = obs).
AnchorAtHome(obs) ==
  IF obs \/ anchor = None \/ ikEdge = "home_set" THEN homings ELSE anchor

IkHome(obs) ==
  /\ ikMode = "HOME" /\ anchor' = AnchorAtHome(obs)
  /\ IF ikEdge = "home_set" THEN ActOnHome("ik") ELSE UNCHANGED <<homed, short>>

\* _refresh_robot_home_before_run()
IkWait(obs) ==
  /\ ikMode \notin {"HOME", "RUN"}
  /\ anchor' = IF ~obs \/ (ikMode # "WAIT_START" /\ anchor # None) THEN anchor
               ELSE IF ikMode = "PAUSE" THEN Paused ELSE homed.ik
  /\ UNCHANGED <<homed, short>>

\* Without an anchor RUN takes one and holds; else the frame in the memory is
\* applied to it, whenever it was written.
IkRun ==
  /\ ikMode = "RUN" /\ anchor' = IF anchor = None THEN homed.ik ELSE anchor
  /\ UNCHANGED <<homed, short>>

IkTick ==
  /\ ikAt = "tick" /\ ikAt' = "poll"
  /\ \E obs \in BOOLEAN :
       /\ ee' = (ee \/ obs)                        \* _publish_ee_poses()
       /\ IkHome(obs) \/ IkWait(obs) \/ IkRun
  /\ ikEdge' = ""
  /\ UNCHANGED <<bus, headset, bridge, ikMode, aligned, checked>>

Next == ReceivePose \/ Operator \/ Bridge \/ IkPoll \/ IkTick

Spec == Init /\ [][Next]_vars

------------------------------------------------------------------------------
(* Properties.                                                              *)

\* A start the web UI lets pass is about the reference the run will use, and the
\* gap between check and use is bounded.  In RUN after such a start, one of the
\* poses the bridge has looked at, from the one the status was about on, is near the
\* home pose of now: whatever passes lie between the publishing of the status, its
\* check, the raising of the level and RUN, the reference does not move away from all
\* of them.  It need not be the last pose, as a far one judged after the check stops
\* nothing; but once the level is up one refusal more is published at most, that of
\* the pass that was under way.
StartAligned ==
  mode = "RUN" /\ checked.on => checked.near /\ checked.overlooked <= 1

\* The arms follow differences from one and the same home: a target is made from
\* a frame whose reference goes with the homing of the robot's own anchor.  Three
\* things excuse it: a homing given up before both workers had acted on it, a home
\* pose taken again while paused, and a frame of an earlier run, until the bridge
\* has published one relative to its new reference.
Applies == ikMode = "RUN" /\ ikAt = "tick" /\ anchor # None /\ frame # NoFrame
Excused == short \/ frame.home = Paused \/ frame.home # home.tag
TargetsPaired ==
  [][IkTick /\ Applies => frame.home = anchor \/ Excused]_vars

\* The chest's reference is never of an older homing than the head's, although
\* it is taken only when the controllers are reliable, unless the bridge missed
\* the edge of that homing.
ChestAnchored ==
  home.tag \in Homing /\ chest \in Homing =>
    chest >= home.tag \/ homed.bridge < home.tag
==============================================================================
