---------------------------- MODULE BodyController ----------------------------
(***************************************************************************)
(* The body controller (robot_control/controller/core.py), from the moment  *)
(* its constructor has turned the torque on: the publisher thread that      *)
(* writes LowCmd at 300 Hz and advances the pose trajectory that is active, *)
(* the threads that register trajectories and wait for them, the ones that  *)
(* set targets directly, and stop() with its fallback abort(): the shutdown *)
(* poses, the publisher joined, Torque OFF asked for with a timeout.        *)
(*                                                                          *)
(* A step is one critical section of _ctrl_lock, or what a thread does      *)
(* between two of them.  Joint vectors are reduced to where they come from. *)
(***************************************************************************)
EXTENDS Naturals

CONSTANTS
  Workers,    \* threads that move the body or send targets
  Length,     \* phase steps of a trajectory
  MaxMoves    \* bound: moves of one thread

ASSUME WorkersAssumption == "stop" \notin Workers
ASSUME LengthAssumption == Length \in Nat \ {0}
ASSUME MaxMovesAssumption == MaxMoves \in Nat \ {0}

\* Who calls move_through_poses(): the workers and stop().
Movers == Workers \cup {"stop"}
Trajectories == Movers \X (1..MaxMoves)
NoTrajectory == <<"none", 0>>

\* Where a target comes from: the constructor, the LowState, a direct command,
\* or a sample of a trajectory.
Zeros == <<"zeros", 0>>
Measured == <<"measured", 0>>
Commanded == <<"direct", 0>>
Sources == {Zeros, Measured, Commanded} \cup Trajectories

Attempts == {1, 2}               \* Torque OFF by stop(), and by abort()

VARIABLES
  backend, lowState,     \* _control_backend; _ready_event
  pub, seen,             \* the publisher's place; the trajectory it looked at
  active, target,        \* _active_pose_trajectory; where _target_q comes from
  move,                  \* of each mover: its place and its trajectory
  stopEvent,             \* _stop_event
  closing, attempt,      \* where stop() or abort() is; which of the two calls
  call,                  \* the service calls of each attempt
  torque, cleaned,       \* the robot; _dds_cleaned
  latest, lastWrites     \* history: the last trajectory registered; writes after
                         \* _stop_event (up to 2)

robot == <<backend, lowState, torque>>
body == <<active, target, move, latest>>
publisher == <<pub, seen, lastWrites>>
closer == <<stopEvent, closing, attempt, call, cleaned>>
vars == <<robot, body, publisher, closer>>

Move == [at : {"idle", "start", "register", "wait", "self", "drop", "arrive"},
         n : 0..MaxMoves, phase : 0..Length, done : BOOLEAN, ok : BOOLEAN]

Init ==
  /\ backend \in {"ros2", "sdk"} /\ lowState \in BOOLEAN /\ torque = "on"
  /\ pub = "none" /\ seen = NoTrajectory /\ lastWrites = 0
  /\ active = NoTrajectory /\ latest = NoTrajectory
  /\ target = IF lowState THEN Measured ELSE Zeros
  /\ move = [m \in Movers |->
               [at |-> "idle", n |-> 0, phase |-> 0, done |-> FALSE, ok |-> FALSE]]
  /\ stopEvent = FALSE /\ closing = "open" /\ attempt = 1
  /\ call = [a \in Attempts |-> "none"] /\ cleaned = FALSE

Closed == closing \in {"off", "failed"}
MoveOf(m) == <<m, move[m].n>>
At(m, place) == move[m].at = place /\ ~Closed
-----------------------------------------------------------------------------
(* The publisher thread.                                                   *)

StartLoop ==
  /\ pub = "none" /\ closing = "open"
  /\ pub' = "waitState"
  /\ UNCHANGED <<robot, body, seen, lastWrites, closer>>

\* The first loop: until the first LowState, or the stop.
GetState ==
  /\ pub = "waitState" /\ (lowState \/ stopEvent)
  /\ pub' = "look"
  /\ UNCHANGED <<robot, body, seen, lastWrites, closer>>

\* Variant of Look: the loop goes on for ever.
LookForever ==
  /\ pub = "look"
  /\ seen' = active /\ pub' = "update"
  /\ UNCHANGED <<robot, body, lastWrites, closer>>

Look ==
  /\ pub = "look" /\ ~stopEvent
  /\ seen' = active /\ pub' = "update"
  /\ UNCHANGED <<robot, body, lastWrites, closer>>

LoopEnds ==
  /\ pub = "look" /\ stopEvent
  /\ pub' = "ended"
  /\ UNCHANGED <<robot, body, seen, lastWrites, closer>>

\* _update_pose_trajectory_locked(): the tracking governor may hold the phase.
Sample(tr) ==
  \E phase \in {move[tr[1]].phase, move[tr[1]].phase + 1} \cap 0..Length :
    /\ move' = [move EXCEPT ![tr[1]].phase = phase, ![tr[1]].done = phase = Length]
    /\ target' = tr

\* Variant of Update: no second look at the active trajectory.
UpdateUnchecked ==
  /\ pub = "update"
  /\ IF seen # NoTrajectory THEN Sample(seen) ELSE UNCHANGED <<move, target>>
  /\ pub' = "write"
  /\ UNCHANGED <<robot, active, latest, seen, lastWrites, closer>>

\* The feedback was read without the lock: is the trajectory still the one?
Update ==
  /\ pub = "update"
  /\ IF seen # NoTrajectory /\ active = seen THEN Sample(seen)
                                             ELSE UNCHANGED <<move, target>>
  /\ pub' = "write"
  /\ UNCHANGED <<robot, active, latest, seen, lastWrites, closer>>

WriteCommand ==
  /\ pub = "write"
  /\ pub' = "look"
  /\ lastWrites' = IF stopEvent /\ lastWrites < 2 THEN lastWrites + 1 ELSE lastWrites
  /\ UNCHANGED <<robot, body, seen, closer>>

\* write() raises: the thread ends.
WriteFails ==
  /\ pub = "write"
  /\ pub' = "ended"
  /\ UNCHANGED <<robot, body, seen, lastWrites, closer>>
-----------------------------------------------------------------------------
(* move_through_poses(), and the direct targets.                           *)

MoverGoes(m, place) ==
  /\ move' = [move EXCEPT ![m].at = place]
  /\ UNCHANGED <<robot, publisher, closer>>

Begun(m) == [at |-> "start", n |-> move[m].n + 1, phase |-> 0, done |-> FALSE, ok |-> FALSE]

\* Worker threads move once _ensure_controller_ready() has said so.
Call(w) ==
  /\ At(w, "idle") /\ pub # "none" /\ lowState /\ move[w].n < MaxMoves
  /\ move' = [move EXCEPT ![w] = Begun(w)]
  /\ UNCHANGED <<robot, active, target, latest, publisher, closer>>

\* set_joint_targets() of a teleop tick, default_pos_state() after a move.
Direct(w) ==
  /\ At(w, "idle") /\ pub # "none" /\ lowState
  /\ target' = Commanded
  /\ UNCHANGED <<robot, active, move, latest, publisher, closer>>

\* The measured pose becomes the target, if asked for and fresh.
TakeStart(m) ==
  /\ At(m, "start")
  /\ target' \in {target} \cup {s \in {Measured} : lowState}
  /\ MoverGoes(m, "register")
  /\ UNCHANGED <<active, latest>>

\* With a living publisher the trajectory becomes the active one, whatever
\* other move was under way; without, the mover advances it by itself.
Register(m) ==
  /\ At(m, "register")
  /\ \/ /\ pub \notin {"none", "ended"}
        /\ active' = MoveOf(m) /\ latest' = MoveOf(m) /\ MoverGoes(m, "wait")
     \/ /\ pub \in {"none", "ended"}
        /\ MoverGoes(m, "self") /\ UNCHANGED <<active, latest>>
  /\ UNCHANGED target

Complete(m) ==
  /\ At(m, "wait") /\ move[m].done
  /\ move' = [move EXCEPT ![m].at = "drop", ![m].ok = TRUE]
  /\ UNCHANGED <<robot, active, target, latest, publisher, closer>>

\* Variant of GiveUp: no trajectory_timeout_s.
GiveUpOnStop(m) ==
  /\ At(m, "wait") /\ stopEvent
  /\ MoverGoes(m, "drop")
  /\ UNCHANGED <<active, target, latest>>

\* cancelled(), or the timeout of the trajectory.
GiveUp(m) ==
  /\ At(m, "wait")
  /\ MoverGoes(m, "drop")
  /\ UNCHANGED <<active, target, latest>>

\* Variant of Drop: it takes down any trajectory that is active.
DropAny(m) ==
  /\ At(m, "drop")
  /\ active' = NoTrajectory
  /\ MoverGoes(m, IF move[m].ok THEN "arrive" ELSE "idle")
  /\ UNCHANGED <<target, latest>>

\* A mover takes down its own trajectory only.
Drop(m) ==
  /\ At(m, "drop")
  /\ active' = IF active = MoveOf(m) THEN NoTrajectory ELSE active
  /\ MoverGoes(m, IF move[m].ok THEN "arrive" ELSE "idle")
  /\ UNCHANGED <<target, latest>>

\* The fallback without a publisher.
SelfAdvance(m) ==
  /\ At(m, "self")
  /\ \E phase \in {move[m].phase, move[m].phase + 1} \cap 0..Length :
       move' = [move EXCEPT ![m].phase = phase,
                            ![m].at = IF phase = Length THEN "arrive" ELSE "self"]
  /\ target' = MoveOf(m)
  /\ UNCHANGED <<robot, active, latest, publisher, closer>>

\* _wait_for_pose_arrival() returns, either way; the fallback gives up.
Return(m) ==
  /\ move[m].at \in {"arrive", "self"} /\ ~Closed
  /\ MoverGoes(m, "idle")
  /\ UNCHANGED <<active, target, latest>>
-----------------------------------------------------------------------------
(* stop() and abort().                                                     *)

\* on_stop(): the shutdown poses first.
StopCalled ==
  /\ closing = "open" /\ pub # "none"
  /\ closing' = "posing"
  /\ move' = [move EXCEPT !["stop"] = Begun("stop")]
  /\ UNCHANGED <<robot, active, target, latest, publisher, stopEvent, attempt, call, cleaned>>

\* The start guard raised: abort() of a controller that never published.
GuardRaised ==
  /\ closing = "open" /\ pub = "none"
  /\ closing' = "hold" /\ attempt' = 2
  /\ UNCHANGED <<robot, body, publisher, stopEvent, call, cleaned>>

\* hold_current_position() of abort().
Hold ==
  /\ closing = "hold"
  /\ target' = IF lowState THEN Measured ELSE target
  /\ closing' = "prepare"
  /\ UNCHANGED <<robot, active, move, latest, publisher, stopEvent, attempt, call, cleaned>>

\* _prepare_service_shutdown()
Prepare ==
  /\ closing = "prepare" \/ (closing = "posing" /\ move["stop"].at = "idle")
  /\ stopEvent' = TRUE
  /\ closing' = "join"
  /\ UNCHANGED <<robot, body, publisher, attempt, call, cleaned>>

\* The join has a timeout, and write() is what may block for longer.
PublisherJoined ==
  /\ closing = "join" /\ pub \in {"none", "ended", "write"}
  /\ closing' = "call"
  /\ call' = [call EXCEPT ![attempt] = "mode"]
  /\ UNCHANGED <<robot, body, publisher, stopEvent, attempt, cleaned>>

\* SetControlMode(HIGH_LEVEL): its answer does not matter, unless it raises.
ModeAnswers(a) ==
  /\ call[a] = "mode"
  /\ call' \in {[call EXCEPT ![a] = "torque"], [call EXCEPT ![a] = "failed"]}
  /\ UNCHANGED <<robot, body, publisher, stopEvent, closing, attempt, cleaned>>

\* SetTorque(TORQUE_OFF); a call that failed may have had its effect.
TorqueAnswers(a) ==
  /\ call[a] = "torque"
  /\ \/ call' = [call EXCEPT ![a] = "ok"] /\ torque' = "off"
     \/ call' = [call EXCEPT ![a] = "failed"] /\ torque' \in {torque, "off"}
  /\ UNCHANGED <<backend, lowState, body, publisher, stopEvent, closing, attempt, cleaned>>

\* Variant of CallSucceeds: a call that did not complete in time counts as one.
CallAccepted ==
  /\ closing = "call" /\ call[attempt] # "failed"
  /\ closing' = "off" /\ cleaned' = TRUE
  /\ UNCHANGED <<robot, body, publisher, stopEvent, attempt, call>>

CallSucceeds ==
  /\ closing = "call" /\ call[attempt] = "ok"
  /\ closing' = "off" /\ cleaned' = TRUE
  /\ UNCHANGED <<robot, body, publisher, stopEvent, attempt, call>>

\* Variant of Fallback: stop() cleans up also when it raises.
FallbackWithoutClient ==
  /\ closing = "call" /\ attempt = 1 /\ closing' = "hold" /\ attempt' = 2
  /\ cleaned' = TRUE

\* stop() raises, its client left open; on_stop() calls abort(), which does
\* not leave it open.
Fallback ==
  /\ closing = "call"
  /\ IF attempt = 1 THEN closing' = "hold" /\ attempt' = 2 /\ UNCHANGED cleaned
                    ELSE closing' = "failed" /\ cleaned' = TRUE /\ UNCHANGED attempt

CallFails ==
  /\ Fallback /\ call[attempt] = "failed"
  /\ UNCHANGED <<robot, body, publisher, stopEvent, call>>

\* Variant of CallTimesOut: only the helper process has a timeout.
HelperTimesOut ==
  /\ Fallback /\ backend = "sdk" /\ call[attempt] \in {"mode", "torque"}
  /\ call' = [call EXCEPT ![attempt] = "killed"]
  /\ torque' \in {torque} \cup {s \in {"off"} : call[attempt] = "torque"}
  /\ UNCHANGED <<backend, lowState, body, publisher, stopEvent>>

\* The calls of the ROS 2 backend go on in their own thread; the helper process
\* of the SDK backend is killed, perhaps after its request was served.
CallTimesOut ==
  /\ Fallback /\ call[attempt] \in {"mode", "torque"}
  /\ IF backend = "ros2" THEN UNCHANGED <<call, torque>>
     ELSE /\ call' = [call EXCEPT ![attempt] = "killed"]
          /\ torque' \in {torque} \cup {s \in {"off"} : call[attempt] = "torque"}
  /\ UNCHANGED <<backend, lowState, body, publisher, stopEvent>>

\* _on_low_state(): the first state is also the first target.
LowStateArrives ==
  /\ ~lowState /\ ~cleaned
  /\ lowState' = TRUE /\ target' = Measured
  /\ UNCHANGED <<backend, torque, active, move, latest, publisher, closer>>
-----------------------------------------------------------------------------
PublisherStep ==
  \/ GetState \/ Look \/ LoopEnds \/ Update \/ WriteCommand \/ WriteFails

MoverStep(m) ==
  \/ TakeStart(m) \/ Register(m) \/ Complete(m) \/ GiveUp(m) \/ Drop(m) \/ Return(m)

CloserStep ==
  \/ Hold \/ Prepare \/ PublisherJoined
  \/ CallSucceeds \/ CallFails \/ CallTimesOut

Next ==
  \/ StartLoop \/ PublisherStep
  \/ \E w \in Workers : Call(w) \/ Direct(w)
  \/ \E m \in Movers : MoverStep(m) \/ SelfAdvance(m)
  \/ StopCalled \/ GuardRaised \/ CloserStep
  \/ \E a \in Attempts : ModeAnswers(a) \/ TorqueAnswers(a)
  \/ LowStateArrives
  \/ Closed /\ UNCHANGED vars

\* Movers and closer only ever wait with a timeout, and the publisher only in
\* write(), which makes them fair; nothing is assumed of the progress of a
\* trajectory, of write(), or of the robot, which may not answer.
Fairness ==
  /\ WF_vars(CloserStep) /\ WF_vars(GetState \/ Look \/ LoopEnds \/ Update)
  /\ \A m \in Movers : WF_vars(MoverStep(m))

Spec == Init /\ [][Next]_vars
FairSpec == Spec /\ Fairness
-----------------------------------------------------------------------------
(* Properties.                                                             *)

\* Every variable has its type.
TypeOK ==
  /\ backend \in {"ros2", "sdk"} /\ lowState \in BOOLEAN /\ torque \in {"on", "off"}
  /\ pub \in {"none", "waitState", "look", "update", "write", "ended"}
  /\ seen \in Trajectories \cup {NoTrajectory} /\ lastWrites \in 0..2
  /\ active \in Trajectories \cup {NoTrajectory} /\ target \in Sources
  /\ latest \in Trajectories \cup {NoTrajectory} /\ move \in [Movers -> Move]
  /\ stopEvent \in BOOLEAN /\ attempt \in Attempts /\ cleaned \in BOOLEAN
  /\ closing \in {"open", "posing", "hold", "prepare", "join", "call", "off", "failed"}
  /\ call \in [Attempts -> {"none", "mode", "torque", "ok", "failed", "killed"}]

\* A call of move_through_poses() is still in charge of its trajectory.
InCharge(tr) ==
  /\ move[tr[1]].n = tr[2]
  /\ move[tr[1]].at \in {"wait", "drop", "self"}

\* Once move_through_poses() has returned -- cancelled, timed out or overtaken --
\* its trajectory never moves the body again: the publisher, which read it
\* before, looks again before it samples it.
NoMotionAfterReturn ==
  [][target' \in Trajectories /\ target' # target => InCharge(target')]_vars

\* The trajectory registered last stays the active one while its mover waits
\* for it: an overtaken mover that gives up does not take it down.
LatestStaysActive ==
  latest # NoTrajectory /\ move[latest[1]].n = latest[2] /\ move[latest[1]].at = "wait"
    => active = latest

\* After the stop the publisher writes at most the command it had in hand, also
\* when the join did not wait for it.
OneWriteAfterStop == lastWrites <= 1

\* stop() and abort() return normally only with the torque off.
OffMeansOff == closing = "off" => torque = "off"

\* As long as a Torque OFF may still be asked for, the client is open (the
\* comment at core.py:2151).
FallbackFindsClient == ~Closed => ~cleaned

\* Every move returns: overtaken, stalled by the governor, or with a publisher
\* that died or was never fed a state.
MoveReturns == \A m \in Movers : move[m].at # "idle" ~> (move[m].at = "idle" \/ Closed)

\* A stop comes to its end, whatever the publisher and the robot do.
StopEnds == closing # "open" ~> Closed
==============================================================================
