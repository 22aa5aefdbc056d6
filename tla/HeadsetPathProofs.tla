-------------------------- MODULE HeadsetPathProofs --------------------------
(***************************************************************************)
(* Proofs about HeadsetPath, for any poses, any limit of the guard and any  *)
(* number of homings and of changes of the levels: its types, that a start  *)
(* the web UI lets pass is near home and overlooks one refusal at most once *)
(* it is raised, that the chest's reference is not of an older homing than  *)
(* the head's, and that a frame is applied to an anchor of the same homing. *)
(***************************************************************************)
EXTENDS HeadsetPath, TLAPS

------------------------------------------------------------------------------
(* Types.                                                                   *)

\* The bridge looks at its references in no final mode; what it publishes in RUN
\* has a home.
Referenced ==
  /\ at \in {"capture", "publish"} => mode # "EXIT"
  /\ at = "publish" => home.tag # None

BusOK ==
  /\ levels \subseteq {"ready", "start", "home", "shutdown"}
  /\ toggles \in 0..MaxToggles /\ homings \in Homing /\ starting \subseteq {"ui", "key"}
  /\ pose \in Poses /\ received \in BOOLEAN

HistoryOK ==
  /\ checked \in [on : BOOLEAN, near : BOOLEAN, overlooked : Nat] /\ aligned \in BOOLEAN
  /\ homed \in [bridge : Homing, ik : Homing]
  /\ short \in BOOLEAN

BridgeOK ==
  /\ at \in {"poll", "capture", "publish", "stopped"} /\ mode \in Modes /\ edge \in Reasons
  /\ home \in [pose : Poses, tag : Tag] /\ chest \in Tag
  /\ robotHead \in {"none", "fallback", "robot"}
  /\ judging \in Poses
  /\ guard \in [active : BOOLEAN, ok : BOOLEAN]
  /\ (guard.ok => guard.active)
  /\ frame \in [home : Tag, chest : Tag]
  /\ (frame # NoFrame => frame.home # None)

IkOK ==
  /\ ikAt \in {"poll", "tick", "stopped"} /\ ikMode \in Modes /\ ikEdge \in Reasons
  /\ anchor \in Tag /\ ee \in BOOLEAN

Typed == BusOK /\ HistoryOK /\ BridgeOK /\ IkOK /\ Referenced

LEMMA TypedIsTypeOK == Typed => TypeOK
  BY DEF Typed, BusOK, HistoryOK, BridgeOK, IkOK, TypeOK

LEMMA Homings == 0 \in Homing /\ Homing \subseteq Tag /\ {None, Paused} \subseteq Tag
                 /\ None \notin Homing /\ Paused \notin Homing /\ None # Paused
  BY BoundsAssumption DEF BoundsAssumption, Homing, Tag, None, Paused

\* A guard that does not accept, as a record.
LEMMA GuardFields ==
  ASSUME NEW active \in BOOLEAN, NEW g, g = [active |-> active, ok |-> FALSE]
  PROVE  g \in [active : BOOLEAN, ok : BOOLEAN] /\ ~g.ok /\ g.active = active
  OBVIOUS

LEMMA SnapshotLevels == Snapshot \in Levels
  BY DEF Snapshot, Levels

LEMMA StepInModes ==
  ASSUME NEW m \in Modes, NEW ev \in Levels
  PROVE  StepMode(m, ev).mode \in Modes /\ StepMode(m, ev).reason \in Reasons
  BY DEF StepMode, FromWaitConnect, FromWaitStart, FromRun, FromHome, FromPause, Result,
         Modes, Levels, Reasons, StartReasons

LEMMA TypeInit == Init => Typed
  <1> SUFFICES ASSUME Init PROVE Typed
    OBVIOUS
  <1>1. BusOK
    <2>1. 0 \in 0..MaxToggles /\ 0 \in Homing
      BY BoundsAssumption, Homings DEF BoundsAssumption
    <2> QED
      BY <2>1, PosesAssumption DEF Init, BusOK
  <1>2. HistoryOK
    <2>1. [on |-> FALSE, near |-> FALSE, overlooked |-> 0]
            \in [on : BOOLEAN, near : BOOLEAN, overlooked : Nat]
      OBVIOUS
    <2> QED
      BY <2>1, Homings DEF Init, HistoryOK
  <1>3. home \in [pose : Poses, tag : Tag] /\ frame \in [home : Tag, chest : Tag]
    BY Homings, PosesAssumption DEF Init, NoFrame
  <1>4. guard \in [active : BOOLEAN, ok : BOOLEAN] /\ ~guard.ok
    BY DEF Init, NoGuard
  <1>5. BridgeOK
    BY <1>3, <1>4, Homings, PosesAssumption DEF Init, BridgeOK, Modes, Reasons
  <1>6. IkOK /\ Referenced
    BY Homings DEF Init, IkOK, Modes, Reasons, Referenced
  <1> QED
    BY <1>1, <1>2, <1>5, <1>6 DEF Typed

\* What the operator does changes the levels and the history.
LEMMA TypeOperator == Typed /\ Operator => Typed'
  <1> SUFFICES ASSUME Typed, Operator PROVE Typed'
    OBVIOUS
  <1>1. /\ toggles' = toggles \/ (toggles' = toggles + 1 /\ toggles < MaxToggles)
        /\ UNCHANGED <<headset, bridge, ik, aligned, homed>>
    BY DEF Operator, Ready, UiCheck, KeyCheck, CheckStart,
           RaiseStart, Home, Clear, Quit, Toggle,
           Changes
  <1>2. /\ levels' \subseteq {"ready", "start", "home", "shutdown"}
        /\ starting' \subseteq {"ui", "key"}
    BY DEF Operator, Ready, UiCheck, KeyCheck, CheckStart,
           RaiseStart, Home, Clear, Quit, Toggle,
           Changes, Typed, BusOK
  <1>3. homings' \in Homing
    <2>1. homings' = homings \/ (homings < MaxHomings /\ homings' = homings + 1)
      BY DEF Operator, Ready, UiCheck, KeyCheck, CheckStart, RaiseStart, Home, Clear, Quit
    <2> QED
      BY <2>1, BoundsAssumption DEF BoundsAssumption, Typed, BusOK, Homing
  <1>4. BusOK'
    BY <1>1, <1>2, <1>3, BoundsAssumption DEF BoundsAssumption, Typed, BusOK, headset
  <1>5. checked' \in [on : BOOLEAN, near : BOOLEAN, overlooked : Nat]
    <2>1. checked \in [on : BOOLEAN, near : BOOLEAN, overlooked : Nat] /\ aligned \in BOOLEAN
      BY DEF Typed, HistoryOK
    <2>2. CASE UiCheck
      BY <2>1, <2>2 DEF UiCheck
    <2>3. ASSUME NEW who, RaiseStart(who)
          PROVE  checked' \in [on : BOOLEAN, near : BOOLEAN, overlooked : Nat]
      BY <2>1, <2>3 DEF RaiseStart
    <2>4. CASE checked' = checked
      BY <2>1, <2>4
    <2> QED
      BY <2>2, <2>3, <2>4 DEF Operator, Ready, KeyCheck, Home, Clear, Quit
  <1>6. short' \in BOOLEAN
    <2>1. LeaveHome \in BOOLEAN /\ short \in BOOLEAN
      BY DEF LeaveHome, Typed, HistoryOK
    <2>2. short' = short \/ short' = LeaveHome
      BY DEF Operator, Ready, UiCheck, KeyCheck, CheckStart, RaiseStart, Home, Clear, Quit
    <2> QED
      BY <2>1, <2>2
  <1>7. HistoryOK'
    BY <1>1, <1>5, <1>6 DEF Typed, HistoryOK
  <1>8. BridgeOK' /\ Referenced'
    BY <1>1 DEF Typed, BridgeOK, Referenced, bridge, refs
  <1>9. IkOK'
    BY <1>1 DEF Typed, IkOK, ik
  <1> QED
    BY <1>4, <1>7, <1>8, <1>9 DEF Typed

\* The new history of a worker that acts on the edge of a homing.
LEMMA TypeActOnHome ==
  ASSUME Typed, NEW worker \in {"bridge", "ik"},
         ActOnHome(worker) \/ UNCHANGED <<homed, short>>
  PROVE  homed' \in [bridge : Homing, ik : Homing] /\ short' \in BOOLEAN
  <1>1. CASE UNCHANGED <<homed, short>>
    BY <1>1 DEF Typed, HistoryOK
  <1>2. CASE ActOnHome(worker)
    <2>1. homed' \in [bridge : Homing, ik : Homing]
      BY <1>2 DEF ActOnHome, Typed, HistoryOK, BusOK
    <2> QED
      BY <1>2, <2>1 DEF ActOnHome
  <1> QED
    BY <1>1, <1>2

\* What a status adds to the history, and what a pose does.
LEMMA Counting ==
  ASSUME Typed, CountRefusal
  PROVE  /\ checked' \in [on : BOOLEAN, near : BOOLEAN, overlooked : Nat]
         /\ checked'.on = checked.on /\ checked'.near = checked.near
         /\ \/ checked'.overlooked = checked.overlooked
            \/ /\ checked'.overlooked = checked.overlooked + 1
               /\ guard'.active /\ checked.on /\ "start" \in levels
  BY DEF CountRefusal, Typed, HistoryOK

LEMMA Looking ==
  ASSUME Typed, Look
  PROVE  /\ checked' \in [on : BOOLEAN, near : BOOLEAN, overlooked : Nat] /\ aligned' \in BOOLEAN
         /\ checked'.on = checked.on /\ checked'.overlooked = checked.overlooked
         /\ checked'.near = (Near(pose, home'.pose) \/ (checked.near /\ home' = home))
  <1>1. checked \in [on : BOOLEAN, near : BOOLEAN, overlooked : Nat] /\ aligned \in BOOLEAN
    BY DEF Typed, HistoryOK
  <1>2. (Near(pose, home'.pose) \/ (checked.near /\ home' = home)) \in BOOLEAN
    OBVIOUS
  <1> QED
    BY <1>1, <1>2 DEF Look

LEMMA TypeBridge == Typed /\ Bridge => Typed'
  <1> SUFFICES ASSUME Typed, Bridge PROVE Typed'
    OBVIOUS
  <1>0. BusOK' /\ IkOK'
    BY DEF Typed, BusOK, IkOK, Bridge, Poll, GiveUp, Capture, Publish, bus, headset, ik
  <1>1. CASE Poll
    <2>1. mode' \in Modes /\ edge' \in Reasons
      BY <1>1, SnapshotLevels, StepInModes DEF Poll, Typed, BridgeOK
    <2>2. guard' \in {guard, NoGuard} /\ at' \in {"stopped", "capture"}
          /\ (at' = "capture" => mode' # "EXIT")
      BY <1>1 DEF Poll
    <2>3. NoGuard \in [active : BOOLEAN, ok : BOOLEAN] /\ ~NoGuard.ok
      BY DEF NoGuard
    <2> QED
      BY <1>0, <1>1, <2>1, <2>2, <2>3
         DEF Poll, Typed, BridgeOK, HistoryOK, Referenced, refs, history
  <1>2. CASE GiveUp
    <2>1. at' = "poll" /\ edge' = "" /\ \E active \in BOOLEAN :
                                           guard' = [active |-> active, ok |-> FALSE]
      BY <1>2 DEF GiveUp
    <2>2. guard' \in [active : BOOLEAN, ok : BOOLEAN] /\ ~guard'.ok
      BY <2>1, GuardFields
    <2>3. HistoryOK'
      BY <1>2, Counting DEF GiveUp, Typed, HistoryOK
    <2> QED
      BY <1>0, <1>2, <2>1, <2>2, <2>3
         DEF GiveUp, Typed, BridgeOK, Referenced, refs, Reasons
  <1>3. CASE Capture
    <2> PICK ready \in BOOLEAN :
          CASE mode = "HOME" -> CaptureAtHome(ready)
            [] mode \in {"WAIT_START", "PAUSE"} -> Seed(ready)
            [] mode = "RUN" -> CaptureInRun(ready)
      BY <1>3 DEF Capture
    <2>0. homings \in Tag /\ homed.bridge \in Tag /\ None \in Tag /\ Paused \in Tag /\ pose \in Poses
          /\ homings # None /\ homed.bridge # None /\ Paused # None
      BY Homings DEF Typed, BusOK, HistoryOK
    <2>1. mode \in {"HOME", "WAIT_START", "PAUSE", "RUN"}
      BY <1>3 DEF Capture, Typed, BridgeOK, Referenced, Modes
    <2>2. ASSUME NEW tag \in Tag, tag # None, CaptureHome(tag)
          PROVE  home' \in [pose : Poses, tag : Tag] /\ home'.tag # None
      BY <2>0, <2>2 DEF CaptureHome
    <2>3. /\ home' \in [pose : Poses, tag : Tag] /\ home'.tag # None
          /\ chest' \in Tag /\ robotHead' \in {"none", "fallback", "robot"}
          /\ ActOnHome("bridge") \/ UNCHANGED <<homed, short>>
      <3>0. home \in [pose : Poses, tag : Tag] /\ chest \in Tag
            /\ robotHead \in {"none", "fallback", "robot"}
        BY DEF Typed, BridgeOK
      <3>1. CASE mode = "HOME"
        <4>1. CaptureAtHome(ready)
          BY <3>1
        <4>2. chest' \in Tag
          BY <2>0, <3>0, <4>1 DEF CaptureAtHome, ChestAtHome
        <4> QED
          BY <2>0, <2>2, <4>1, <4>2 DEF CaptureAtHome
      <3>2. CASE mode \in {"WAIT_START", "PAUSE"}
        <4>1. Seed(ready)
          BY <3>2
        <4>2. chest' \in Tag /\ robotHead' \in {"none", "fallback", "robot"}
          BY <2>0, <3>0, <4>1 DEF Seed
        <4>3. home' \in [pose : Poses, tag : Tag] /\ home'.tag # None
          BY <2>0, <2>2, <3>0, <4>1 DEF Seed
        <4> QED
          BY <4>1, <4>2, <4>3 DEF Seed
      <3>3. CASE mode = "RUN"
        <4>1. CaptureInRun(ready)
          BY <3>3
        <4>2. home' \in [pose : Poses, tag : Tag] /\ home'.tag # None
          BY <2>0, <2>2, <3>0, <4>1 DEF CaptureInRun
        <4> QED
          BY <2>0, <3>0, <4>1, <4>2 DEF CaptureInRun
      <3> QED
        BY <2>1, <3>1, <3>2, <3>3
    <2>4. HistoryOK'
      BY <1>3, <2>3, TypeActOnHome, Looking DEF Capture, Typed, HistoryOK
    <2>5. BridgeOK' /\ Referenced'
      <3>1. /\ at' = "publish" /\ edge' = "" /\ judging' = pose
            /\ UNCHANGED <<mode, guard, frame>> /\ mode # "EXIT"
        BY <1>3, <2>1 DEF Capture
      <3> QED
        BY <2>0, <2>3, <3>1 DEF Typed, BridgeOK, Referenced, Reasons
    <2> QED
      BY <1>0, <2>4, <2>5 DEF Typed
  <1>4. CASE Publish
    <2>1. guard' \in [active : BOOLEAN, ok : BOOLEAN]
          /\ (guard'.ok => guard'.active)
      <3>1. CASE mode = "RUN"
        BY <1>4, <3>1 DEF Publish, NoGuard
      <3>2. CASE mode # "RUN"
        <4>1. (robotHead # "none" /\ Near(judging, home.pose)) \in BOOLEAN
          OBVIOUS
        <4> QED
          BY <1>4, <3>2, <4>1 DEF Publish
      <3> QED
        BY <3>1, <3>2
    <2>2. frame' \in [home : Tag, chest : Tag] /\ (frame' # NoFrame => frame'.home # None)
      <3>1. home.tag # None /\ home.tag \in Tag /\ chest \in Tag
        BY <1>4 DEF Publish, Typed, BridgeOK, Referenced
      <3> QED
        BY <1>4, <3>1 DEF Publish, Typed, BridgeOK
    <2>3. HistoryOK'
      <3>1. aligned' \in BOOLEAN /\ UNCHANGED <<homed, short>>
        BY <1>4 DEF Publish, Near
      <3> QED
        BY <1>4, <3>1, Counting DEF Publish, Typed, HistoryOK
    <2> QED
      BY <1>0, <1>4, <2>1, <2>2, <2>3, PosesAssumption
         DEF Publish, Typed, BridgeOK, Referenced, refs
  <1> QED
    BY <1>1, <1>2, <1>3, <1>4 DEF Bridge

LEMMA TypeIk == Typed /\ (IkPoll \/ IkTick) => Typed'
  <1> SUFFICES ASSUME Typed, IkPoll \/ IkTick PROVE Typed'
    OBVIOUS
  <1>0. BusOK' /\ BridgeOK' /\ Referenced'
    BY DEF Typed, BusOK, BridgeOK, Referenced, IkPoll, IkTick, bus, headset, bridge, refs
  <1>1. CASE IkPoll
    <2>1. ikMode' \in Modes /\ ikEdge' \in Reasons
      BY <1>1, SnapshotLevels, StepInModes DEF IkPoll, Typed, IkOK
    <2> QED
      BY <1>0, <1>1, <2>1 DEF IkPoll, Typed, IkOK, HistoryOK, history
  <1>2. CASE IkTick
    <2> PICK obs \in BOOLEAN : ee' = (ee \/ obs) /\ (IkHome(obs) \/ IkWait(obs) \/ IkRun)
      BY <1>2 DEF IkTick
    <2>1. anchor' \in Tag
      BY Homings DEF IkHome, AnchorAtHome, IkWait, IkRun, Typed, BusOK, HistoryOK, IkOK
    <2>2. HistoryOK'
      <3>1. ActOnHome("ik") \/ UNCHANGED <<homed, short>>
        BY DEF IkHome, IkWait, IkRun
      <3> QED
        BY <1>2, <3>1, TypeActOnHome DEF IkTick, Typed, HistoryOK
    <2> QED
      BY <1>0, <1>2, <2>1, <2>2 DEF IkTick, Typed, IkOK, Reasons
  <1> QED
    BY <1>1, <1>2

LEMMA StaysTyped == Spec => []Typed
  <1>1. Typed /\ (ReceivePose \/ UNCHANGED vars) => Typed'
    <2> SUFFICES ASSUME Typed, ReceivePose \/ UNCHANGED vars PROVE Typed'
      OBVIOUS
    <2>1. BusOK'
      BY DEF Typed, BusOK, ReceivePose, vars, bus, headset
    <2>2. BridgeOK' /\ Referenced'
      BY DEF Typed, BridgeOK, Referenced, ReceivePose, vars, bridge, refs
    <2>3. HistoryOK' /\ IkOK'
      BY DEF Typed, HistoryOK, IkOK, ReceivePose, vars, ik, history
    <2> QED
      BY <2>1, <2>2, <2>3 DEF Typed
  <1>2. Typed /\ [Next]_vars => Typed'
    BY <1>1, TypeOperator, TypeBridge, TypeIk DEF Next
  <1> QED
    BY TypeInit, <1>2, PTL DEF Spec

\* Every variable keeps its type; no frame is published without a home, and a
\* guard that accepts is active.
THEOREM Typing == Spec => []TypeOK
  BY StaysTyped, TypedIsTypeOK, PTL

------------------------------------------------------------------------------
(* The start.                                                               *)

\* A guard that accepts has a pose near the reference of now among those looked at
\* since, and so has a start it has let pass.
CheckedNear ==
  /\ guard.ok => aligned
  /\ "ui" \in starting \/ checked.on => checked.near

LEMMA NearItself ==
  ASSUME NEW p \in Poses
  PROVE  Near(p, p)
  BY PosesAssumption DEF PosesAssumption, Near, Distance

\* A reference that is taken is at the pose just looked at.
LEMMA LookingKeeps ==
  ASSUME Typed, Capture
  PROVE  (aligned => aligned') /\ (checked.near => checked'.near)
  <1>1. PICK ready \in BOOLEAN :
          CASE mode = "HOME" -> CaptureAtHome(ready)
            [] mode \in {"WAIT_START", "PAUSE"} -> Seed(ready)
            [] mode = "RUN" -> CaptureInRun(ready)
    BY DEF Capture
  <1>2. mode \in {"HOME", "WAIT_START", "PAUSE", "RUN"}
    BY DEF Capture, Typed, BridgeOK, Referenced, Modes
  <1>3. CaptureAtHome(ready) \/ Seed(ready) \/ CaptureInRun(ready)
    BY <1>1, <1>2
  <1>4. home' = home \/ home'.pose = pose
    BY <1>3 DEF CaptureAtHome, Seed, CaptureInRun, CaptureHome
  <1>5. home' = home \/ Near(pose, home'.pose)
    BY <1>4, NearItself DEF Typed, BusOK
  <1>6. Look
    BY DEF Capture
  <1> QED
    BY <1>5, <1>6, Looking DEF Look

LEMMA CheckedSteps == Typed /\ CheckedNear /\ Bridge => CheckedNear'
  <1> SUFFICES ASSUME Typed, CheckedNear, Bridge PROVE CheckedNear'
    OBVIOUS
  <1>0. starting' = starting
    BY DEF Bridge, Poll, GiveUp, Capture, Publish, bus
  <1>1. CASE Poll
    <2>1. guard' \in {guard, NoGuard} /\ UNCHANGED <<aligned, checked>>
      BY <1>1 DEF Poll, history
    <2>2. ~NoGuard.ok
      BY GuardFields DEF NoGuard
    <2> QED
      BY <1>0, <2>1, <2>2 DEF CheckedNear
  <1>2. CASE GiveUp
    <2>1. ~guard'.ok
      BY <1>2, GuardFields DEF GiveUp
    <2>2. checked'.on = checked.on /\ checked'.near = checked.near
      BY <1>2, Counting DEF GiveUp
    <2> QED
      BY <1>0, <2>1, <2>2 DEF CheckedNear
  <1>3. CASE Capture
    <2>1. guard' = guard /\ checked'.on = checked.on
      BY <1>3, Looking DEF Capture
    <2> QED
      BY <1>0, <1>3, <2>1, LookingKeeps DEF CheckedNear
  <1>4. CASE Publish
    <2>1. guard'.ok => aligned'
      <3>1. CASE mode = "RUN"
        <4>1. guard' = NoGuard
          BY <1>4, <3>1 DEF Publish
        <4> QED
          BY <4>1, GuardFields DEF NoGuard
      <3>2. CASE mode # "RUN"
        <4>1. guard' = [active |-> TRUE, ok |-> robotHead # "none" /\ Near(judging, home.pose)]
              /\ aligned' = Near(judging, home.pose)
          BY <1>4, <3>2 DEF Publish
        <4> QED
          BY <4>1
      <3> QED
        BY <3>1, <3>2
    <2>2. checked'.on = checked.on /\ checked'.near = checked.near
      BY <1>4, Counting DEF Publish
    <2> QED
      BY <1>0, <2>1, <2>2 DEF CheckedNear
  <1> QED
    BY <1>1, <1>2, <1>3, <1>4 DEF Bridge

\* The history of the start, under what the operator does.
LEMMA Starting ==
  ASSUME Typed, Operator
  PROVE  \/ /\ UiCheck /\ starting' = starting \cup {"ui"}
            /\ checked'.on = checked.on /\ checked'.near = aligned
            /\ checked'.overlooked = checked.overlooked
         \/ /\ checked' = checked /\ ("ui" \in starting' <=> "ui" \in starting)
            /\ "start" \in levels' => "start" \in levels
         \/ /\ starting' \subseteq starting /\ checked'.near = checked.near
            /\ levels' = (levels \cup {"start"}) \ {"home"}
            /\ \/ /\ "start" \in levels /\ checked' = checked
               \/ /\ "start" \notin levels /\ checked'.overlooked = 0
                  /\ checked'.on => "ui" \in starting
  <1>0. checked \in [on : BOOLEAN, near : BOOLEAN, overlooked : Nat] /\ aligned \in BOOLEAN
    BY DEF Typed, HistoryOK
  <1>1. CASE UiCheck
    BY <1>0, <1>1 DEF UiCheck, CheckStart
  <1>2. CASE KeyCheck
    BY <1>2 DEF KeyCheck, CheckStart
  <1>3. ASSUME NEW who \in {"ui", "key"}, RaiseStart(who)
        PROVE  /\ starting' \subseteq starting /\ checked'.near = checked.near
               /\ levels' = (levels \cup {"start"}) \ {"home"}
               /\ \/ /\ "start" \in levels /\ checked' = checked
                  \/ /\ "start" \notin levels /\ checked'.overlooked = 0
                     /\ checked'.on => "ui" \in starting
    <2>1. /\ starting' \subseteq starting /\ levels' = (levels \cup {"start"}) \ {"home"}
          /\ who \in starting
      BY <1>3 DEF RaiseStart
    <2>2. CASE "start" \in levels
      BY <1>3, <2>1, <2>2 DEF RaiseStart
    <2>3. CASE "start" \notin levels
      <3>1. checked' = [checked EXCEPT !.on = (who = "ui"), !.overlooked = 0]
        BY <1>3, <2>3 DEF RaiseStart
      <3>2. checked'.on = (who = "ui") /\ checked'.overlooked = 0 /\ checked'.near = checked.near
        BY <1>0, <3>1
      <3> QED
        BY <2>1, <2>3, <3>2
    <2> QED
      BY <2>2, <2>3
  <1>4. CASE Ready \/ Home \/ Quit \/ Clear({"ui"}, {"ready", "start", "home"})
             \/ Clear({"ui", "key"}, {"start", "home"}) \/ Clear({"ui"}, {"start"})
             \/ Clear({"ui", "key"}, {"home"})
    BY <1>4 DEF Ready, Home, Quit, Clear, Toggle, Changes
  <1> QED
    BY <1>1, <1>2, <1>3, <1>4 DEF Operator

LEMMA StaysCheckedNear == Spec => []CheckedNear
  <1>1. Init => CheckedNear
    <2>1. Init => ~checked.on
      <3>1. Init => checked = [on |-> FALSE, near |-> FALSE, overlooked |-> 0]
        BY DEF Init
      <3>2. ~[on |-> FALSE, near |-> FALSE, overlooked |-> 0].on
        OBVIOUS
      <3> QED
        BY <3>1, <3>2
    <2>2. Init => ~guard.ok /\ starting = {}
      BY GuardFields DEF Init, NoGuard
    <2> QED
      BY <2>1, <2>2 DEF CheckedNear
  <1>2. Typed /\ CheckedNear /\ [Next]_vars => CheckedNear'
    <2> SUFFICES ASSUME Typed, CheckedNear, [Next]_vars PROVE CheckedNear'
      OBVIOUS
    <2>1. CASE Bridge
      BY <2>1, CheckedSteps
    <2>2. CASE Operator
      <3>1. UNCHANGED <<guard, aligned>>
        BY <2>2 DEF Operator, Ready, UiCheck, KeyCheck, CheckStart,
               RaiseStart, Home, Clear, Quit,
              Toggle, Changes, bridge
      <3>2. UiCheck => aligned
        BY DEF UiCheck, UiMayStart, CheckedNear
      <3> QED
        BY <2>2, <3>1, <3>2, Starting DEF CheckedNear
    <2>3. CASE ReceivePose \/ IkPoll \/ IkTick \/ UNCHANGED vars
      BY <2>3 DEF ReceivePose, IkPoll, IkTick, vars, bus, bridge, history, CheckedNear
    <2> QED
      BY <2>1, <2>2, <2>3 DEF Next
  <1> QED
    BY <1>1, <1>2, StaysTyped, PTL DEF Spec

\* A start that is up has "ready" beside it and no home, so that the bridge enters
\* RUN at its next poll; there was a pass before, so it is not still connecting.
StartLeads ==
  /\ "start" \in levels => "home" \notin levels
  /\ "ui" \in starting \/ (checked.on /\ "start" \in levels) => "ready" \in levels
  /\ guard.active \/ "ui" \in starting \/ checked.on \/ at = "publish" => mode # "WAIT_CONNECT"

\* Between its poll and the end of the pass only a bridge that polled before the
\* start was raised is outside RUN, and it has not refused yet.
FewOverlooked ==
  checked.on =>
    /\ checked.overlooked <= 1
    /\ "start" \in levels /\ at \in {"capture", "publish"} /\ mode # "RUN" =>
         checked.overlooked = 0

\* What a raised start does to the mode.
LEMMA StartRuns ==
  ASSUME NEW m \in Modes \ {"WAIT_CONNECT"}, NEW ev \in Levels, ev.ready, ev.start, ~ev.home
  PROVE  StepMode(m, ev).mode \in {"RUN", "EXIT"}
  BY DEF StepMode, FromWaitStart, FromRun, FromHome, FromPause, Result, Modes, Levels

LEMMA NoReturnToConnect ==
  ASSUME NEW m \in Modes \ {"WAIT_CONNECT"}, NEW ev \in Levels
  PROVE  StepMode(m, ev).mode # "WAIT_CONNECT"
  BY DEF StepMode, FromWaitStart, FromRun, FromHome, FromPause, Result, Modes, Levels

LEMMA OverlookedOperator ==
  Typed /\ StartLeads /\ FewOverlooked /\ Operator => StartLeads' /\ FewOverlooked'
  <1> SUFFICES ASSUME Typed, StartLeads, FewOverlooked, Operator
               PROVE  StartLeads' /\ FewOverlooked'
    OBVIOUS
  <1>0. UNCHANGED <<at, mode, guard>>
    BY DEF Operator, Ready, UiCheck, KeyCheck, CheckStart,
           RaiseStart, Home, Clear, Quit, Toggle,
           Changes, bridge
  <1>1. "start" \in levels' => "home" \notin levels'
    BY DEF StartLeads, Operator, Ready, UiCheck, KeyCheck, CheckStart,
           RaiseStart, Home, Clear,
           Quit, Toggle, Changes
  <1>2. \/ "ready" \in levels => "ready" \in levels'
        \/ "ui" \notin starting' /\ "start" \notin levels'
    BY DEF Operator, Ready, UiCheck, KeyCheck, CheckStart,
           RaiseStart, Home, Clear, Quit, Toggle,
           Changes
  <1>3. UiCheck => levels' = levels /\ "ready" \in levels /\ guard.active
    BY DEF UiCheck, CheckStart, UiMayStart
  <1> QED
    BY <1>0, <1>1, <1>2, <1>3, Starting DEF StartLeads, FewOverlooked

LEMMA OverlookedBridge ==
  Typed /\ StartLeads /\ FewOverlooked /\ Bridge => StartLeads' /\ FewOverlooked'
  <1> SUFFICES ASSUME Typed, StartLeads, FewOverlooked, Bridge
               PROVE  StartLeads' /\ FewOverlooked'
    OBVIOUS
  <1>0. UNCHANGED <<levels, starting>>
    BY DEF Bridge, Poll, GiveUp, Capture, Publish, bus
  <1>1. CASE Poll
    <2>1. /\ mode' = StepMode(mode, Snapshot).mode /\ mode \in Modes /\ UNCHANGED checked
          /\ at' \in {"stopped", "capture"} /\ (at' = "capture" => mode' # "EXIT")
          /\ guard' \in {guard, NoGuard}
      BY <1>1 DEF Poll, history, Typed, BridgeOK
    <2>2. ~NoGuard.active
      BY GuardFields DEF NoGuard
    <2>3. mode # "WAIT_CONNECT" => mode' # "WAIT_CONNECT"
      BY <2>1, SnapshotLevels, NoReturnToConnect
    <2>4. StartLeads'
      BY <1>0, <2>1, <2>2, <2>3 DEF StartLeads
    <2>5. ASSUME checked.on, "start" \in levels PROVE mode' \in {"RUN", "EXIT"}
      <3>1. Snapshot.ready /\ Snapshot.start /\ ~Snapshot.home /\ mode # "WAIT_CONNECT"
        BY <2>5 DEF StartLeads, Snapshot
      <3> QED
        BY <2>1, <3>1, SnapshotLevels, StartRuns
    <2> QED
      BY <1>0, <2>1, <2>4, <2>5 DEF FewOverlooked
  <1>2. CASE GiveUp
    <2>1. at = "capture" /\ at' = "poll" /\ mode' = mode
          /\ (mode \in {"WAIT_CONNECT", "RUN"} => ~guard'.active)
      BY <1>2, GuardFields DEF GiveUp
    <2>2. CountRefusal
      BY <1>2 DEF GiveUp
    <2> QED
      BY <1>0, <2>1, <2>2, Counting DEF StartLeads, FewOverlooked, Typed, HistoryOK
  <1>3. CASE Capture
    <2>1. /\ at = "capture" /\ at' = "publish" /\ mode # "WAIT_CONNECT" /\ Look
          /\ UNCHANGED <<mode, guard>>
      BY <1>3 DEF Capture
    <2> QED
      BY <1>0, <2>1, Looking DEF StartLeads, FewOverlooked
  <1>4. CASE Publish
    <2>1. at = "publish" /\ at' = "poll" /\ mode' = mode /\ CountRefusal
      BY <1>4 DEF Publish
    <2>2. mode = "RUN" => ~guard'.active
      BY <1>4, GuardFields DEF Publish, NoGuard
    <2> QED
      BY <1>0, <2>1, <2>2, Counting DEF StartLeads, FewOverlooked, Typed, HistoryOK
  <1> QED
    BY <1>1, <1>2, <1>3, <1>4 DEF Bridge

\* In RUN after a start of the web UI one of the poses looked at from the one the
\* status was about on is near the home pose of now, and one refusal at most was
\* published between the raising of the level and RUN.
THEOREM AlignedStart == Spec => []StartAligned
  <1>1. Init => StartLeads /\ FewOverlooked
    <2> SUFFICES ASSUME Init PROVE StartLeads /\ FewOverlooked
      OBVIOUS
    <2>1. levels = {} /\ starting = {} /\ at = "poll" /\ ~guard.active /\ ~checked.on
      BY GuardFields DEF Init, NoGuard
    <2> QED
      BY <2>1 DEF StartLeads, FewOverlooked
  <1>2. Typed /\ StartLeads /\ FewOverlooked /\ [Next]_vars => StartLeads' /\ FewOverlooked'
    <2>1. StartLeads /\ FewOverlooked /\ (ReceivePose \/ IkPoll \/ IkTick \/ UNCHANGED vars)
            => StartLeads' /\ FewOverlooked'
      BY DEF ReceivePose, IkPoll, IkTick, vars, bus, bridge, history, StartLeads, FewOverlooked
    <2> QED
      BY <2>1, OverlookedOperator, OverlookedBridge DEF Next
  <1>3. CheckedNear /\ FewOverlooked => StartAligned
    BY DEF CheckedNear, FewOverlooked, StartAligned
  <1> QED
    BY <1>1, <1>2, <1>3, StaysTyped, StaysCheckedNear, PTL DEF Spec

------------------------------------------------------------------------------
(* The chest.                                                               *)

\* The chest's reference is forgotten with the edge of a homing, so one that is
\* there is not older than the last homing whose edge the bridge acted on.
ChestOfHoming ==
  /\ homed.bridge <= homings
  /\ chest \in Homing => chest >= homed.bridge

THEOREM ChestWithHome == Spec => []ChestAnchored
  <1>1. Init => ChestOfHoming
    <2>1. Init => homed.bridge = 0 /\ homings = 0
      <3>1. Init => homed = [bridge |-> 0, ik |-> 0] /\ homings = 0
        BY DEF Init
      <3>2. [bridge |-> 0, ik |-> 0].bridge = 0
        OBVIOUS
      <3> QED
        BY <3>1, <3>2
    <2>2. Init => chest \notin Homing
      BY Homings DEF Init
    <2> QED
      BY <2>1, <2>2 DEF ChestOfHoming
  <1>2. Typed /\ ChestOfHoming /\ [Next]_vars => ChestOfHoming'
    <2> SUFFICES ASSUME Typed, ChestOfHoming, [Next]_vars PROVE ChestOfHoming'
      OBVIOUS
    <2>0. homings \in Int /\ homed.bridge \in Int /\ homed.ik \in Int /\ homed.bridge \in Homing
          /\ homed \in [bridge : Homing, ik : Homing]
      BY DEF Typed, BusOK, HistoryOK, Homing
    <2>1. CASE Capture
      <3>1. PICK ready \in BOOLEAN :
              CASE mode = "HOME" -> CaptureAtHome(ready)
                [] mode \in {"WAIT_START", "PAUSE"} -> Seed(ready)
                [] mode = "RUN" -> CaptureInRun(ready)
        BY <2>1 DEF Capture
      <3>2. mode \in {"HOME", "WAIT_START", "PAUSE", "RUN"}
        BY <2>1 DEF Capture, Typed, BridgeOK, Referenced, Modes
      <3>3. homings' = homings
        BY <2>1 DEF Capture, bus
      <3>4. CASE CaptureAtHome(ready)
        <4>1. CASE edge = "home_set"
          <5>1. homed'.bridge = homings /\ chest' \in {homings, None}
            BY <2>0, <3>4, <4>1 DEF CaptureAtHome, ChestAtHome, ActOnHome
          <5> QED
            BY <2>0, <3>3, <5>1, Homings DEF ChestOfHoming
        <4>2. CASE edge # "home_set"
          <5>1. homed' = homed /\ chest' \in {homings, chest}
            BY <3>4, <4>2 DEF CaptureAtHome, ChestAtHome
          <5> QED
            BY <2>0, <3>3, <5>1 DEF ChestOfHoming
        <4> QED
          BY <4>1, <4>2
      <3>5. CASE Seed(ready) \/ CaptureInRun(ready)
        <4>1. homed' = homed /\ chest' \in {chest, Paused, homed.bridge}
          BY <3>5 DEF Seed, CaptureInRun
        <4> QED
          BY <2>0, <3>3, <4>1, Homings DEF ChestOfHoming
      <3> QED
        BY <3>1, <3>2, <3>4, <3>5
    <2>2. CASE Operator
      <3>1. UNCHANGED <<chest, homed>> /\ homings' \in {homings, homings + 1}
        BY <2>2 DEF Operator, Ready, UiCheck, KeyCheck, CheckStart,
               RaiseStart, Home, Clear, Quit, Toggle, Changes, bridge, refs
      <3> QED
        BY <2>0, <3>1 DEF ChestOfHoming
    <2>3. CASE IkTick
      <3>1. UNCHANGED <<homings, chest>> /\ (ActOnHome("ik") \/ homed' = homed)
        BY <2>3 DEF IkTick, IkHome, IkWait, IkRun, bus, bridge, refs
      <3>2. homed'.bridge = homed.bridge
        BY <2>0, <3>1 DEF ActOnHome
      <3> QED
        BY <3>1, <3>2 DEF ChestOfHoming
    <2>4. CASE ReceivePose \/ Poll \/ GiveUp \/ Publish \/ IkPoll \/ UNCHANGED vars
      BY <2>4 DEF ReceivePose, Poll, GiveUp, Publish, IkPoll, vars, bus, bridge, refs, history,
            ChestOfHoming
    <2> QED
      BY <2>1, <2>2, <2>3, <2>4 DEF Next, Bridge
  <1>3. Typed /\ ChestOfHoming => ChestAnchored
    <2> SUFFICES ASSUME Typed, ChestOfHoming, home.tag \in Homing, chest \in Homing
                 PROVE  chest >= home.tag \/ homed.bridge < home.tag
      BY DEF ChestAnchored
    <2>1. homed.bridge \in Int /\ home.tag \in Int /\ chest \in Int
      BY DEF Typed, HistoryOK, Homing
    <2> QED
      BY <2>1 DEF ChestOfHoming
  <1> QED
    BY <1>1, <1>2, <1>3, StaysTyped, PTL DEF Spec

------------------------------------------------------------------------------
(* The two references.                                                      *)

\* No reference is of a homing to come, or of one before the last whose edge its
\* worker acted on.
NotAhead ==
  /\ homed.bridge <= homings /\ homed.ik <= homings
  /\ home.tag \in Homing => homed.bridge <= home.tag /\ home.tag <= homings
  /\ anchor \in Homing => homed.ik <= anchor /\ anchor <= homings
  /\ frame.home \in Homing => frame.home <= homings

\* A homing that was not given up early: both workers have acted on it once the
\* level is down, and on it or the one before while it is up.
Settled ==
  ~short => IF "home" \in levels
              THEN {homed.bridge, homed.ik} \subseteq {homings - 1, homings}
              ELSE homed.bridge = homings /\ homed.ik = homings

\* While home is up, nothing outside HOME belongs to its homing.
OnlyInHome ==
  "home" \in levels =>
    /\ mode \notin {"HOME", "EXIT"} => homed.bridge # homings /\ home.tag # homings
    /\ ikMode \notin {"HOME", "EXIT"} => homed.ik # homings
    /\ frame.home # homings

\* The IK worker has an anchor when it leaves RUN or HOME, so it takes none while
\* paused; outside HOME it is that of the homing it acted on.
Anchored ==
  /\ anchor # Paused
  /\ ikMode = "PAUSE" \/ (ikMode \in {"RUN", "HOME"} /\ ikAt = "poll") => anchor # None
  /\ ikMode \notin {"HOME", "EXIT"} /\ ~short => anchor \in {None, homed.ik}

Pairing == NotAhead /\ Settled /\ OnlyInHome /\ Anchored

\* Home is left only when the level is down.
LEMMA LeavingHome ==
  ASSUME NEW m \in Modes, NEW ev \in Levels, StepMode(m, ev).mode \notin {"HOME", "EXIT"}
  PROVE  m # "EXIT" /\ (m = "HOME" => ~ev.home)
  BY DEF StepMode, FromWaitConnect, FromWaitStart, FromRun, FromHome, FromPause, Result,
         Modes, Levels

LEMMA EnteringPause ==
  ASSUME NEW m \in Modes, NEW ev \in Levels, StepMode(m, ev).mode = "PAUSE"
  PROVE  m \in {"RUN", "HOME", "PAUSE"}
  BY DEF StepMode, FromWaitConnect, FromWaitStart, FromRun, FromHome, FromPause, Result,
         Modes, Levels

\* The tags are numbers.
LEMMA Tags ==
  ASSUME Typed
  PROVE  /\ homings \in Homing /\ homed.bridge \in Homing /\ homed.ik \in Homing
         /\ home.tag \in Tag /\ anchor \in Tag /\ frame.home \in Tag
         /\ Homing \subseteq Int /\ Tag \subseteq Int
         /\ homed \in [bridge : Homing, ik : Homing]
  BY DEF Typed, BusOK, HistoryOK, BridgeOK, IkOK, Homing, Tag, None, Paused

LEMMA PairingOperator == Typed /\ Pairing /\ Operator => Pairing'
  <1> SUFFICES ASSUME Typed, Pairing, Operator PROVE Pairing'
    OBVIOUS
  <1>0. UNCHANGED <<mode, home, frame, ikAt, ikMode, anchor, homed>>
    BY DEF Operator, Ready, UiCheck, KeyCheck, CheckStart,
           RaiseStart, Home, Clear, Quit, Toggle, Changes, bridge, refs, ik
  <1>1. \/ homings' = homings /\ short' = short /\ ("home" \in levels' <=> "home" \in levels)
        \/ homings' = homings /\ short' = LeaveHome /\ "home" \notin levels'
        \/ homings' = homings + 1 /\ short' = short /\ "home" \notin levels /\ "home" \in levels'
    BY DEF Operator, Ready, UiCheck, KeyCheck, CheckStart,
           RaiseStart, Home, Clear, Quit, Toggle, Changes
  <1> HIDE DEF Operator
  <1>2. CASE homings' = homings /\ short' = short /\ ("home" \in levels' <=> "home" \in levels)
    BY <1>0, <1>2 DEF Pairing, NotAhead, Settled, OnlyInHome, Anchored
  <1>3. CASE homings' = homings /\ short' = LeaveHome /\ "home" \notin levels'
    <2>1. Settled'
      <3>1. ASSUME ~short' PROVE homed.bridge = homings /\ homed.ik = homings
        BY <1>3, <3>1 DEF LeaveHome, Pairing, Settled
      <3> QED
        BY <1>0, <1>3, <3>1 DEF Settled
    <2>2. short' \/ ~short
      BY <1>3 DEF LeaveHome
    <2> QED
      BY <1>0, <1>3, <2>1, <2>2 DEF Pairing, NotAhead, OnlyInHome, Anchored
  <1>4. CASE homings' = homings + 1 /\ short' = short /\ "home" \notin levels /\ "home" \in levels'
    <2>1. NotAhead'
      BY <1>0, <1>4, Tags DEF Pairing, NotAhead
    <2>2. Settled'
      BY <1>0, <1>4, Tags DEF Pairing, Settled
    <2>3. OnlyInHome'
      <3>1. homings + 1 \notin {homed.bridge, homed.ik}
        BY Tags DEF Pairing, NotAhead
      <3>2. homings + 1 # home.tag /\ homings + 1 # frame.home
        BY Tags, Homings DEF Pairing, NotAhead, Tag, Homing, None, Paused
      <3> QED
        BY <1>0, <1>4, <3>1, <3>2 DEF OnlyInHome
    <2>4. Anchored'
      BY <1>0, <1>4 DEF Pairing, Anchored
    <2> QED
      BY <2>1, <2>2, <2>3, <2>4 DEF Pairing
  <1> QED
    BY <1>1, <1>2, <1>3, <1>4

LEMMA PairingPolls == Typed /\ Pairing /\ (Poll \/ IkPoll) => Pairing'
  <1> SUFFICES ASSUME Typed, Pairing, Poll \/ IkPoll PROVE Pairing'
    OBVIOUS
  <1>0. UNCHANGED <<levels, homings, home, frame, anchor, homed, short>>
    BY DEF Poll, IkPoll, bus, bridge, refs, ik, history
  <1>1. Snapshot.home <=> "home" \in levels
    BY DEF Snapshot
  <1>2. CASE Poll
    <2>1. UNCHANGED <<ikAt, ikMode>> /\ mode' = StepMode(mode, Snapshot).mode /\ mode \in Modes
      BY <1>2 DEF Poll, ik, Typed, BridgeOK
    <2>2. "home" \in levels /\ mode' \notin {"HOME", "EXIT"} => mode \notin {"HOME", "EXIT"}
      BY <1>1, <2>1, SnapshotLevels, LeavingHome
    <2> QED
      BY <1>0, <2>1, <2>2 DEF Pairing, NotAhead, Settled, OnlyInHome, Anchored
  <1>3. CASE IkPoll
    <2>1. /\ mode' = mode /\ ikMode' = StepMode(ikMode, Snapshot).mode /\ ikMode \in Modes
          /\ ikAt = "poll" /\ ikAt' # "poll"
      BY <1>3 DEF IkPoll, bridge, Typed, IkOK
    <2>2. ikMode' \notin {"HOME", "EXIT"} =>
            ikMode # "EXIT" /\ (ikMode = "HOME" => "home" \notin levels)
      BY <1>1, <2>1, SnapshotLevels, LeavingHome
    <2>3. ikMode' = "PAUSE" => ikMode \in {"RUN", "HOME", "PAUSE"}
      BY <2>1, SnapshotLevels, EnteringPause
    <2>4. NotAhead' /\ Settled' /\ OnlyInHome'
      BY <1>0, <2>1, <2>2 DEF Pairing, NotAhead, Settled, OnlyInHome
    <2>5. Anchored'
      <3>1. ASSUME ikMode' \notin {"HOME", "EXIT"}, ~short PROVE anchor \in {None, homed.ik}
        <4>1. CASE ikMode = "HOME"
          <5>1. homed.ik = homings
            BY <2>2, <3>1, <4>1 DEF Pairing, Settled
          <5>2. anchor \in Homing \/ anchor = None
            BY Tags DEF Pairing, Anchored, Tag
          <5> QED
            BY <5>1, <5>2, Tags DEF Pairing, NotAhead
        <4>2. CASE ikMode # "HOME"
          BY <2>2, <3>1, <4>2 DEF Pairing, Anchored
        <4> QED
          BY <4>1, <4>2
      <3> QED
        BY <1>0, <2>1, <2>3, <3>1 DEF Pairing, Anchored
    <2> QED
      BY <2>4, <2>5 DEF Pairing
  <1> QED
    BY <1>2, <1>3

\* A worker that acts on the edge of a homing: the reference of the other may now
\* go with it, and then a home given up early is made good.
LEMMA PairingActOnHome ==
  ASSUME Typed, Pairing, NEW worker \in {"bridge", "ik"},
         ActOnHome(worker) \/ UNCHANGED <<homed, short>>, UNCHANGED <<levels, homings>>
  PROVE  /\ Settled'
         /\ \A w \in {"bridge", "ik"} : homed'[w] = IF ActOnHome(worker) /\ w = worker
                                                    THEN homings ELSE homed[w]
         /\ ~short' => ~short \/ homed'.ik = homings
  <1>1. CASE UNCHANGED <<homed, short>> /\ ~ActOnHome(worker)
    BY <1>1 DEF Pairing, Settled
  <1>2. CASE ActOnHome(worker)
    <2>1. homed' = [homed EXCEPT ![worker] = homings]
          /\ short' = (short /\ {homed'.bridge, homed'.ik} # {homings})
      BY <1>2 DEF ActOnHome
    <2>2. \A w \in {"bridge", "ik"} : homed'[w] = IF w = worker THEN homings ELSE homed[w]
      BY <2>1, Tags
    <2>3. homed'.bridge \in {homings, homed.bridge} /\ homed'.ik \in {homings, homed.ik}
      BY <2>2
    <2>4. ~short' => ~short \/ (homed'.bridge = homings /\ homed'.ik = homings)
      BY <2>1
    <2>5. Settled'
      BY <2>3, <2>4 DEF Pairing, Settled
    <2> QED
      BY <1>2, <2>2, <2>4, <2>5
  <1> QED
    BY <1>1, <1>2

\* What the bridge captures outside HOME is of the homing it acted on, or of none.
LEMMA CapturedTag ==
  ASSUME Typed, Capture
  PROVE  \/ mode = "HOME" /\ home'.tag = homings
            /\ (ActOnHome("bridge") \/ UNCHANGED <<homed, short>>)
         \/ mode # "HOME" /\ home'.tag \in {home.tag, Paused, homed.bridge}
            /\ UNCHANGED <<homed, short>>
  <1>1. PICK ready \in BOOLEAN :
          CASE mode = "HOME" -> CaptureAtHome(ready)
            [] mode \in {"WAIT_START", "PAUSE"} -> Seed(ready)
            [] mode = "RUN" -> CaptureInRun(ready)
    BY DEF Capture
  <1>2. mode \in {"HOME", "WAIT_START", "PAUSE", "RUN"}
    BY DEF Capture, Typed, BridgeOK, Referenced, Modes
  <1>3. \/ mode = "HOME" /\ CaptureAtHome(ready)
        \/ mode # "HOME" /\ (Seed(ready) \/ CaptureInRun(ready))
    BY <1>1, <1>2
  <1>4. ASSUME NEW tag, CaptureHome(tag) PROVE home'.tag = tag
    BY <1>4 DEF CaptureHome
  <1> QED
    BY <1>3, <1>4 DEF CaptureAtHome, Seed, CaptureInRun

LEMMA PairingCapture == Typed /\ Pairing /\ Capture => Pairing'
  <1> SUFFICES ASSUME Typed, Pairing, Capture PROVE Pairing'
    OBVIOUS
  <1>0. UNCHANGED <<levels, homings, mode, frame, ikAt, ikMode, anchor>>
    BY DEF Capture, bus, ik
  <1>1. CASE mode = "HOME" /\ home'.tag = homings
             /\ (ActOnHome("bridge") \/ UNCHANGED <<homed, short>>)
    <2>1. Settled' /\ homed'.bridge \in {homings, homed.bridge} /\ homed'.ik = homed.ik
          /\ (~short' => ~short \/ homed'.ik = homings)
      BY <1>0, <1>1, PairingActOnHome
    <2>2. NotAhead'
      BY <1>0, <1>1, <2>1, Tags DEF Pairing, NotAhead
    <2>3. OnlyInHome'
      BY <1>0, <1>1, <2>1 DEF Pairing, OnlyInHome
    <2>4. Anchored'
      <3>1. ASSUME ikMode \notin {"HOME", "EXIT"}, homed.ik = homings
            PROVE  anchor \in {None, homed.ik}
        BY <3>1, Tags DEF Pairing, Anchored, NotAhead, Tag
      <3> QED
        BY <1>0, <2>1, <3>1 DEF Pairing, Anchored
    <2> QED
      BY <2>1, <2>2, <2>3, <2>4 DEF Pairing
  <1>2. CASE mode # "HOME" /\ home'.tag \in {home.tag, Paused, homed.bridge}
             /\ UNCHANGED <<homed, short>>
    <2>1. NotAhead'
      BY <1>0, <1>2, Tags, Homings DEF Pairing, NotAhead
    <2>2. OnlyInHome'
      BY <1>0, <1>2, Tags, Homings DEF Pairing, OnlyInHome
    <2> QED
      BY <1>0, <1>2, <2>1, <2>2 DEF Pairing, Settled, Anchored
  <1> QED
    BY <1>1, <1>2, CapturedTag

LEMMA PairingPublish == Typed /\ Pairing /\ Publish => Pairing'
  <1> SUFFICES ASSUME Typed, Pairing, Publish PROVE Pairing'
    OBVIOUS
  <1>1. UNCHANGED <<levels, homings, mode, home, ikAt, ikMode, anchor, homed, short>>
    BY DEF Publish, bus, refs, ik, history
  <1>2. frame' = frame \/ (mode = "RUN" /\ frame'.home = home.tag)
    BY DEF Publish
  <1>3. NotAhead' /\ OnlyInHome'
    BY <1>1, <1>2 DEF Pairing, NotAhead, OnlyInHome
  <1> QED
    BY <1>1, <1>3 DEF Pairing, Settled, Anchored

LEMMA PairingIkTick == Typed /\ Pairing /\ IkTick => Pairing'
  <1> SUFFICES ASSUME Typed, Pairing, IkTick PROVE Pairing'
    OBVIOUS
  <1>0. UNCHANGED <<levels, homings, mode, home, frame, ikMode>> /\ ikAt' = "poll"
    BY DEF IkTick, bus, bridge, refs
  <1> PICK obs \in BOOLEAN : IkHome(obs) \/ IkWait(obs) \/ IkRun
    BY DEF IkTick
  <1>1. CASE IkHome(obs)
    <2>1. /\ ikMode = "HOME" /\ anchor' \in {homings, anchor} /\ anchor' # None
          /\ (ikEdge = "home_set" => anchor' = homings)
      BY <1>1, Tags, Homings DEF IkHome, AnchorAtHome
    <2>2. (ikEdge = "home_set" /\ ActOnHome("ik"))
          \/ (ikEdge # "home_set" /\ UNCHANGED <<homed, short>>)
      BY <1>1 DEF IkHome
    <2>3. Settled' /\ homed'.bridge = homed.bridge
          /\ (homed'.ik = homed.ik \/ (homed'.ik = homings /\ ikEdge = "home_set"))
      <3>1. CASE ActOnHome("ik") /\ ikEdge = "home_set"
        BY <1>0, <3>1, PairingActOnHome
      <3>2. CASE UNCHANGED <<homed, short>>
        BY <1>0, <3>2 DEF Pairing, Settled
      <3> QED
        BY <2>2, <3>1, <3>2
    <2>4. NotAhead'
      BY <1>0, <2>1, <2>3, Tags DEF Pairing, NotAhead
    <2>5. OnlyInHome'
      BY <1>0, <2>1, <2>3 DEF Pairing, OnlyInHome
    <2>6. Anchored'
      BY <1>0, <2>1, Tags, Homings DEF Pairing, Anchored
    <2> QED
      BY <2>3, <2>4, <2>5, <2>6 DEF Pairing
  <1>2. CASE IkWait(obs) \/ IkRun
    <2>1. UNCHANGED <<homed, short>> /\ ikMode # "HOME"
      BY <1>2 DEF IkWait, IkRun
    <2>2. anchor' = anchor \/ (anchor' = homed.ik /\ ikMode # "PAUSE")
      BY <1>2 DEF IkWait, IkRun, Pairing, Anchored
    <2>3. ikMode = "RUN" => anchor' # None
      BY <1>2, Tags, Homings DEF IkWait, IkRun
    <2>4. NotAhead'
      BY <1>0, <2>1, <2>2, Tags DEF Pairing, NotAhead
    <2>5. Anchored'
      BY <1>0, <2>1, <2>2, <2>3, Tags, Homings DEF Pairing, Anchored
    <2> QED
      BY <1>0, <2>1, <2>4, <2>5 DEF Pairing, Settled, OnlyInHome
  <1> QED
    BY <1>1, <1>2

\* A target is made from a frame whose reference goes with the homing of the
\* anchor it is applied to, with the exceptions the property names.
THEOREM PairedTargets == Spec => TargetsPaired
  <1>1. Init => Pairing
    <2> SUFFICES ASSUME Init PROVE Pairing
      OBVIOUS
    <2>1. levels = {} /\ homings = 0 /\ short = FALSE /\ ikMode = "WAIT_CONNECT" /\ anchor = None
      BY DEF Init
    <2>2. homed = [bridge |-> 0, ik |-> 0] /\ home = [pose |-> pose, tag |-> None]
          /\ frame = NoFrame
      BY DEF Init
    <2>3. homed.bridge = 0 /\ homed.ik = 0 /\ home.tag = None /\ frame.home = None
      BY <2>2 DEF NoFrame
    <2> QED
      BY <2>1, <2>3, Homings DEF Pairing, NotAhead, Settled, OnlyInHome, Anchored
  <1>2. Typed /\ Pairing /\ [Next]_vars => Pairing'
    <2>1. Pairing /\ (ReceivePose \/ GiveUp \/ UNCHANGED vars) => Pairing'
      BY DEF ReceivePose, GiveUp, vars, bus, bridge, refs, ik, history, Pairing, NotAhead,
             Settled, OnlyInHome, Anchored
    <2> QED
      BY <2>1, PairingOperator, PairingPolls, PairingCapture, PairingPublish, PairingIkTick
         DEF Next, Bridge
  <1>3. Typed /\ Pairing => (IkTick /\ Applies => frame.home = anchor \/ Excused)
    <2> SUFFICES ASSUME Typed, Pairing, Applies, ~Excused PROVE frame.home = anchor
      OBVIOUS
    <2>1. ikMode = "RUN" /\ anchor # None /\ frame # NoFrame /\ ~short
          /\ frame.home # Paused /\ frame.home = home.tag
      BY DEF Applies, Excused
    <2>2. anchor = homed.ik
      BY <2>1 DEF Pairing, Anchored
    <2>3. home.tag \in Homing
      BY <2>1, Tags DEF Typed, BridgeOK, Tag
    <2>4. CASE "home" \notin levels
      BY <2>1, <2>2, <2>3, <2>4, Tags DEF Pairing, NotAhead, Settled
    <2>5. CASE "home" \in levels
      <3>1. homed.ik = homings - 1
        BY <2>1, <2>5 DEF Pairing, Settled, OnlyInHome
      <3>2. home.tag # homings
        BY <2>1, <2>5 DEF Pairing, OnlyInHome
      <3>3. home.tag = homings - 1
        BY <2>1, <2>3, <2>5, <3>2, Tags DEF Pairing, NotAhead, Settled
      <3> QED
        BY <2>1, <2>2, <3>1, <3>3
    <2> QED
      BY <2>4, <2>5
  <1> QED
    BY <1>1, <1>2, <1>3, StaysTyped, PTL DEF Spec, TargetsPaired
==============================================================================
