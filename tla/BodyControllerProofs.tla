------------------------- MODULE BodyControllerProofs -------------------------
(***************************************************************************)
(* Proofs about BodyController, for every set of workers, every length of a *)
(* trajectory and every bound on the moves.                                 *)
(***************************************************************************)
EXTENDS BodyController, TLAPS

\* A place a step moves to is a place a mover can be at.
MovePlaces == {"idle", "start", "register", "wait", "self", "drop", "arrive"}

\* The trajectory of a mover that moves has a number; stop() has not moved
\* anything while the controller is open.
Numbered == \A m \in Movers : move[m].at # "idle" => move[m].n \in 1..MaxMoves
StopIdle == closing = "open" => move["stop"].at = "idle" /\ move["stop"].n = 0

Typed == TypeOK /\ Numbered /\ StopIdle

USE WorkersAssumption, LengthAssumption, MaxMovesAssumption

\* What the record of a mover can be, place by place.
LEMMA MoveFields ==
  ASSUME TypeOK, NEW m \in Movers
  PROVE  /\ move[m].at \in MovePlaces /\ move[m].n \in 0..MaxMoves
         /\ move[m].phase \in 0..Length
         /\ move[m].done \in BOOLEAN /\ move[m].ok \in BOOLEAN
BY DEF TypeOK, Move, MovePlaces

\* NoTrajectory is none of the trajectories, and no trajectory is one of the
\* other sources.
LEMMA TrajectoriesApart ==
  /\ NoTrajectory \notin Trajectories
  /\ {Zeros, Measured, Commanded} \cap Trajectories = {}
BY DEF NoTrajectory, Trajectories, Zeros, Measured, Commanded

\* "stop" is a mover, and so is every worker.
LEMMA MoversNamed == "stop" \in Movers /\ Workers \subseteq Movers
BY DEF Movers

\* The initial state.
LEMMA InitTyped == ASSUME Init PROVE Typed
<1>1. \A m \in Movers : /\ move[m] \in Move
                        /\ move[m].at = "idle" /\ move[m].n = 0
  BY DEF Init, Move
<1>2. move \in [Movers -> Move]
  BY <1>1 DEF Init
<1>3. target \in Sources
  BY DEF Init, Sources
<1>4. call \in [Attempts -> {"none", "mode", "torque", "ok", "failed", "killed"}]
  BY DEF Init
<1>5. TypeOK
  <2>1. /\ backend \in {"ros2", "sdk"} /\ lowState \in BOOLEAN
        /\ torque = "on" /\ pub = "none"
        /\ seen = NoTrajectory /\ active = NoTrajectory /\ latest = NoTrajectory
        /\ lastWrites = 0 /\ stopEvent = FALSE /\ closing = "open" /\ attempt = 1
        /\ cleaned = FALSE
    BY DEF Init
  <2>2. attempt \in Attempts /\ lastWrites \in 0..2
    BY <2>1 DEF Attempts
  <2> QED
    BY <1>2, <1>3, <1>4, <2>1, <2>2 DEF TypeOK
<1> QED
  BY <1>1, <1>5, MoversNamed DEF Typed, Numbered, StopIdle

\* A mover that moves owns a trajectory.
LEMMA OwnTrajectory ==
  ASSUME Typed, NEW m \in Movers, move[m].at # "idle"
  PROVE  MoveOf(m) \in Trajectories
BY DEF Typed, Numbered, MoveOf, Trajectories

\* A mover moves on to another place: the types of the moves are kept.
LEMMA PlaceTyped ==
  ASSUME Typed, NEW m \in Movers, NEW place \in MovePlaces,
         move' = [move EXCEPT ![m].at = place],
         move[m].at # "idle" \/ place = "idle"
  PROVE  move' \in [Movers -> Move] /\ Numbered'
<1>1. move \in [Movers -> Move]
  BY DEF Typed, TypeOK
<1>2. move' \in [Movers -> Move]
  BY <1>1 DEF Move, MovePlaces
<1>3. \A k \in Movers : /\ move'[k].n = move[k].n
                        /\ k # m => move'[k] = move[k]
  BY <1>1 DEF Move
<1> QED
  BY <1>2, <1>3 DEF Typed, Numbered

\* A sample keeps the number and the place of every move.
LEMMA SampleTyped ==
  ASSUME Typed, NEW tr \in Trajectories, Sample(tr)
  PROVE  /\ move' \in [Movers -> Move] /\ target' \in Sources
         /\ \A m \in Movers : move'[m].at = move[m].at /\ move'[m].n = move[m].n
<1>1. move \in [Movers -> Move] /\ tr[1] \in Movers
  BY DEF Typed, TypeOK, Trajectories
<1>2. PICK phase \in 0..Length :
        move' = [move EXCEPT ![tr[1]].phase = phase, ![tr[1]].done = phase = Length]
  BY DEF Sample
<1>3. (phase = Length) \in BOOLEAN
  OBVIOUS
<1>4. move' \in [Movers -> Move]
  BY <1>1, <1>2, <1>3 DEF Move
<1>5. \A m \in Movers : move'[m].at = move[m].at /\ move'[m].n = move[m].n
  BY <1>1, <1>2 DEF Move
<1> QED
  BY <1>4, <1>5 DEF Sample, Sources

\* Steps that leave the moves and the closing alone keep what is said of them.
LEMMA MovesKept ==
  ASSUME Typed, UNCHANGED <<move, closing>>
  PROVE  move' \in [Movers -> Move] /\ Numbered' /\ StopIdle'
BY DEF Typed, TypeOK, Numbered, StopIdle

\* The steps of the publisher thread keep the types.
LEMMA PublisherTyped ==
  ASSUME Typed, StartLoop \/ PublisherStep
  PROVE  Typed'
<1> USE DEF Typed, robot, body, publisher, closer
<1>1. CASE StartLoop
  BY <1>1, MovesKept DEF StartLoop, TypeOK
<1>2. CASE GetState
  BY <1>2, MovesKept DEF GetState, TypeOK
<1>3. CASE Look
  BY <1>3, MovesKept DEF Look, TypeOK
<1>4. CASE LoopEnds
  BY <1>4, MovesKept DEF LoopEnds, TypeOK
<1>5. CASE Update
  <2>1. CASE seen # NoTrajectory /\ active = seen
    <3>1. seen \in Trajectories /\ Sample(seen)
      BY <1>5, <2>1 DEF Update, TypeOK
    <3>2. /\ move' \in [Movers -> Move] /\ target' \in Sources
          /\ \A m \in Movers : move'[m].at = move[m].at /\ move'[m].n = move[m].n
      BY <3>1, SampleTyped
    <3>3. Numbered' /\ StopIdle'
      BY <1>5, <3>2, MoversNamed DEF Update, Numbered, StopIdle
    <3> QED
      BY <1>5, <3>2, <3>3 DEF Update, TypeOK
  <2>2. CASE ~(seen # NoTrajectory /\ active = seen)
    BY <1>5, <2>2, MovesKept DEF Update, TypeOK
  <2> QED
    BY <2>1, <2>2
<1>6. CASE WriteCommand
  <2>1. lastWrites' \in 0..2
    BY <1>6 DEF WriteCommand, TypeOK
  <2> QED
    BY <1>6, <2>1, MovesKept DEF WriteCommand, TypeOK
<1>7. CASE WriteFails
  BY <1>7, MovesKept DEF WriteFails, TypeOK
<1> QED
  BY <1>1, <1>2, <1>3, <1>4, <1>5, <1>6, <1>7 DEF PublisherStep

\* A move begins: it gets the next number.
LEMMA BegunTyped ==
  ASSUME Typed, NEW m \in Movers, move[m].n < MaxMoves,
         move' = [move EXCEPT ![m] = Begun(m)]
  PROVE  move' \in [Movers -> Move] /\ Numbered'
<1>1. move[m].n \in 0..MaxMoves /\ move \in [Movers -> Move]
  BY MoveFields DEF Typed, TypeOK
<1>2. move[m].n + 1 \in 1..MaxMoves
  BY <1>1
<1>3. Begun(m) \in Move /\ Begun(m).n \in 1..MaxMoves
  BY <1>2 DEF Begun, Move
<1>4. move' \in [Movers -> Move]
  BY <1>1, <1>3
<1> QED
  BY <1>1, <1>3, <1>4 DEF Typed, Numbered

\* The steps of the movers keep the types.
LEMMA MoverTyped ==
  ASSUME Typed, NEW m \in Movers, MoverStep(m) \/ SelfAdvance(m)
  PROVE  Typed'
<1> USE DEF Typed, robot, publisher, closer
<1>0. move[m].at # "idle"
  BY DEF MoverStep, TakeStart, Register, Complete, GiveUp, Drop, Return, SelfAdvance, At
<1>1. closing # "open" \/ m # "stop"
  BY <1>0 DEF StopIdle
<1>2. \A place \in MovePlaces : move' = [move EXCEPT ![m].at = place] =>
        move' \in [Movers -> Move] /\ Numbered'
  BY <1>0, PlaceTyped
<1>3. \A k \in Movers \ {m} : move'[k] = move[k]
  BY DEF MoverStep, TakeStart, Register, Complete, GiveUp, Drop, Return, SelfAdvance,
         MoverGoes, TypeOK
<1>4. closing' = closing
  BY DEF MoverStep, TakeStart, Register, Complete, GiveUp, Drop, Return, SelfAdvance,
         MoverGoes
<1>5. StopIdle'
  BY <1>1, <1>3, <1>4, MoversNamed DEF StopIdle
<1>6. MoveOf(m) \in Trajectories
  BY <1>0, OwnTrajectory
<1>7. CASE TakeStart(m)
  <2>1. target' \in Sources
    BY <1>7 DEF TakeStart, TypeOK, Sources
  <2> QED
    BY <1>2, <1>5, <1>7, <2>1 DEF TakeStart, MoverGoes, MovePlaces, TypeOK
<1>8. CASE Register(m)
  BY <1>2, <1>5, <1>6, <1>8 DEF Register, MoverGoes, MovePlaces, TypeOK
<1>9. CASE Complete(m)
  <2>1. move' \in [Movers -> Move]
    BY <1>9 DEF Complete, TypeOK, Move
  <2>2. Numbered'
    BY <1>9, <2>1 DEF Complete, At, TypeOK, Numbered, Move
  <2> QED
    BY <1>5, <1>9, <2>1, <2>2 DEF Complete, TypeOK
<1>10. CASE GiveUp(m)
  BY <1>2, <1>5, <1>10 DEF GiveUp, MoverGoes, MovePlaces, TypeOK
<1>11. CASE Drop(m)
  BY <1>2, <1>5, <1>11 DEF Drop, MoverGoes, MovePlaces, TypeOK
<1>12. CASE SelfAdvance(m)
  <2>1. PICK phase \in 0..Length :
          move' = [move EXCEPT ![m].phase = phase,
                               ![m].at = IF phase = Length THEN "arrive" ELSE "self"]
    BY <1>12 DEF SelfAdvance
  <2>2. move' \in [Movers -> Move]
    BY <2>1 DEF TypeOK, Move
  <2>3. Numbered'
    BY <1>0, <2>1, <2>2 DEF Numbered, TypeOK, Move
  <2>4. target' \in Sources
    BY <1>6, <1>12 DEF SelfAdvance, Sources
  <2>5. UNCHANGED <<backend, lowState, torque, active, latest, pub, seen, lastWrites,
                    stopEvent, closing, attempt, call, cleaned>>
    BY <1>12 DEF SelfAdvance
  <2>6. TypeOK'
    BY <2>2, <2>4, <2>5 DEF TypeOK
  <2> QED
    BY <1>5, <2>3, <2>6
<1>13. CASE Return(m)
  BY <1>2, <1>5, <1>13 DEF Return, MoverGoes, MovePlaces, TypeOK
<1> QED
  BY <1>7, <1>8, <1>9, <1>10, <1>11, <1>12, <1>13 DEF MoverStep

\* The steps of the worker threads that begin something keep the types.
LEMMA WorkerTyped ==
  ASSUME Typed, NEW w \in Workers, Call(w) \/ Direct(w)
  PROVE  Typed'
<1> USE DEF Typed, robot, publisher, closer
<1>1. w \in Movers /\ w # "stop"
  BY MoversNamed
<1>2. CASE Call(w)
  <2>1. move' \in [Movers -> Move] /\ Numbered'
    BY <1>1, <1>2, BegunTyped DEF Call
  <2>2. StopIdle'
    BY <1>1, <1>2, MoversNamed DEF Call, StopIdle, TypeOK
  <2> QED
    BY <1>2, <2>1, <2>2 DEF Call, TypeOK
<1>3. CASE Direct(w)
  BY <1>3, MovesKept DEF Direct, TypeOK, Sources
<1> QED
  BY <1>2, <1>3

\* The steps of stop(), abort(), the services and the robot keep the types.
LEMMA CloserTyped ==
  ASSUME Typed,
         \/ StopCalled \/ GuardRaised \/ CloserStep
         \/ \E a \in Attempts : ModeAnswers(a) \/ TorqueAnswers(a)
         \/ LowStateArrives
  PROVE  Typed'
<1> USE DEF Typed, robot, body, publisher, closer, Attempts
<1>1. CASE StopCalled
  <2>1. move["stop"].n < MaxMoves
    BY <1>1 DEF StopCalled, StopIdle
  <2>2. move' \in [Movers -> Move] /\ Numbered'
    BY <1>1, <2>1, BegunTyped, MoversNamed DEF StopCalled
  <2> QED
    BY <1>1, <2>2 DEF StopCalled, StopIdle, TypeOK
<1>2. CASE GuardRaised
  BY <1>2 DEF GuardRaised, TypeOK, Numbered, StopIdle
<1>3. CASE Hold
  BY <1>3 DEF Hold, TypeOK, Numbered, StopIdle, Sources
<1>4. CASE Prepare
  BY <1>4 DEF Prepare, TypeOK, Numbered, StopIdle
<1>5. CASE PublisherJoined
  BY <1>5 DEF PublisherJoined, TypeOK, Numbered, StopIdle
<1>6. CASE CallSucceeds
  BY <1>6 DEF CallSucceeds, TypeOK, Numbered, StopIdle
<1>7. CASE CallFails
  BY <1>7 DEF CallFails, Fallback, TypeOK, Numbered, StopIdle
<1>8. CASE CallTimesOut
  BY <1>8 DEF CallTimesOut, Fallback, TypeOK, Numbered, StopIdle
<1>9. CASE \E a \in Attempts : ModeAnswers(a) \/ TorqueAnswers(a)
  BY <1>9, MovesKept DEF ModeAnswers, TorqueAnswers, TypeOK
<1>10. CASE LowStateArrives
  BY <1>10, MovesKept DEF LowStateArrives, TypeOK, Sources
<1> QED
  BY <1>1, <1>2, <1>3, <1>4, <1>5, <1>6, <1>7, <1>8, <1>9, <1>10 DEF CloserStep

\* Every step keeps the types.
LEMMA NextTyped == ASSUME Typed, [Next]_vars PROVE Typed'
<1>1. CASE UNCHANGED vars
  BY <1>1 DEF vars, robot, body, publisher, closer, Typed, TypeOK, Numbered, StopIdle
<1>2. CASE Next
  BY <1>1, <1>2, PublisherTyped, MoverTyped, WorkerTyped, CloserTyped DEF Next
<1> QED
  BY <1>1, <1>2
-----------------------------------------------------------------------------
\* Every variable keeps its type, whoever calls whom.
THEOREM Typing == Spec => []TypeOK
<1>1. Init => Typed
  BY InitTyped
<1>2. Typed /\ [Next]_vars => Typed'
  BY NextTyped
<1>3. Typed => TypeOK
  BY DEF Typed
<1> QED
  BY <1>1, <1>2, <1>3, PTL DEF Spec

\* The same for what the other proofs build on.
LEMMA AlwaysTyped == Spec => []Typed
<1>1. Init => Typed
  BY InitTyped
<1>2. Typed /\ [Next]_vars => Typed'
  BY NextTyped
<1> QED
  BY <1>1, <1>2, PTL DEF Spec
-----------------------------------------------------------------------------
(* Who moves the body.                                                     *)

\* The trajectory that is active belongs to a call that has not returned.
ActiveInCharge ==
  active # NoTrajectory =>
    move[active[1]].n = active[2] /\ move[active[1]].at \in {"wait", "drop"}

\* A step of a mover disturbs nobody else, and the active trajectory only
\* where the mover registers its own or takes it down.
LEMMA OthersUndisturbed ==
  ASSUME Typed, NEW m \in Movers, MoverStep(m) \/ SelfAdvance(m)
  PROVE  /\ \A k \in Movers \ {m} : move'[k] = move[k]
         /\ move'[m].n = move[m].n
<1>1. move \in [Movers -> Move]
  BY DEF Typed, TypeOK
<1>2. CASE \E place \in MovePlaces : MoverGoes(m, place)
  BY <1>1, <1>2 DEF MoverGoes, Move
<1>3. CASE Complete(m)
  BY <1>1, <1>3 DEF Complete, Move
<1>4. CASE SelfAdvance(m)
  BY <1>1, <1>4 DEF SelfAdvance, Move
<1>5. CASE TakeStart(m) \/ Register(m) \/ GiveUp(m) \/ Drop(m) \/ Return(m)
  BY <1>2, <1>5 DEF TakeStart, Register, GiveUp, Drop, Return, MovePlaces
<1> QED
  BY <1>3, <1>4, <1>5 DEF MoverStep

\* Only a registration and a drop change the active trajectory; while one is
\* active its mover waits for it, or is about to take it down.
LEMMA InChargeKept ==
  ASSUME Typed, ActiveInCharge, [Next]_vars
  PROVE  ActiveInCharge'
<1> USE DEF ActiveInCharge
<1>0. /\ move \in [Movers -> Move] /\ active \in Trajectories \cup {NoTrajectory}
      /\ \A tr \in Trajectories : tr[1] \in Movers
      /\ \A m \in Movers : MoveOf(m)[1] = m /\ MoveOf(m)[2] = move[m].n
  BY DEF Typed, TypeOK, Trajectories, MoveOf
<1>1. ASSUME NEW m \in Movers, MoverStep(m) \/ SelfAdvance(m) PROVE ActiveInCharge'
  <2>1. (\A k \in Movers \ {m} : move'[k] = move[k]) /\ move'[m].n = move[m].n
    BY <1>1, OthersUndisturbed
  <2>2. CASE TakeStart(m) \/ SelfAdvance(m) \/ Return(m)
    <3>1. active' = active /\ move[m].at \notin {"wait", "drop"}
      BY <2>2 DEF TakeStart, SelfAdvance, Return, At
    <3> QED
      BY <1>0, <2>1, <3>1
  <2>3. CASE Register(m)
    <3>1. CASE active' = MoveOf(m) /\ MoverGoes(m, "wait")
      <4>1. active' = MoveOf(m) /\ move' = [move EXCEPT ![m].at = "wait"]
        BY <3>1 DEF MoverGoes
      <4>2. move'[m].at = "wait" /\ move'[m].n = move[m].n
        BY <1>0, <2>1, <4>1
      <4> QED
        BY <1>0, <4>1, <4>2
    <3>2. CASE active' = active
      BY <1>0, <2>1, <2>3, <3>2 DEF Register, At
    <3> QED
      BY <2>3, <3>1, <3>2 DEF Register
  <2>4. CASE Complete(m)
    <3>1. move'[m].at = "drop" /\ active' = active
      BY <1>0, <2>4 DEF Complete
    <3> QED
      BY <1>0, <2>1, <3>1
  <2>5. CASE GiveUp(m)
    <3>1. move'[m].at = "drop" /\ active' = active
      BY <1>0, <2>5 DEF GiveUp, MoverGoes
    <3> QED
      BY <1>0, <2>1, <3>1
  <2>6. CASE Drop(m)
    <3>1. CASE active = MoveOf(m)
      BY <2>6, <3>1 DEF Drop
    <3>2. CASE active # MoveOf(m) /\ active # NoTrajectory
      <4>1. active' = active /\ active[1] # m
        BY <1>0, <2>6, <3>2 DEF Drop, Trajectories, MoveOf
      <4> QED
        BY <1>0, <2>1, <3>2, <4>1
    <3>3. CASE active # MoveOf(m) /\ active = NoTrajectory
      BY <2>6, <3>3 DEF Drop
    <3> QED
      BY <3>1, <3>2, <3>3
  <2> QED
    BY <1>1, <2>2, <2>3, <2>4, <2>5, <2>6 DEF MoverStep
<1>2. CASE Update
  <2>1. active' = active
    BY <1>2 DEF Update
  <2>2. CASE seen # NoTrajectory /\ active = seen
    <3>1. Sample(active) /\ active \in Trajectories
      BY <1>0, <1>2, <2>2 DEF Update
    <3> QED
      BY <1>0, <2>1, <3>1, SampleTyped
  <2>3. CASE ~(seen # NoTrajectory /\ active = seen)
    BY <1>2, <2>1, <2>3 DEF Update
  <2> QED
    BY <2>2, <2>3
<1>3. ASSUME NEW w \in Workers, Call(w) PROVE ActiveInCharge'
  <2>1. move' = [move EXCEPT ![w] = Begun(w)] /\ active' = active /\ move[w].at = "idle"
    BY <1>3 DEF Call, At
  <2> QED
    BY <1>0, <2>1
<1>4. CASE StopCalled
  <2>1. /\ move' = [move EXCEPT !["stop"] = Begun("stop")] /\ active' = active
        /\ move["stop"].at = "idle"
    BY <1>4 DEF StopCalled, Typed, StopIdle
  <2> QED
    BY <1>0, <2>1
<1>5. CASE UNCHANGED <<active, move>>
  BY <1>5
<1> QED
  BY <1>1, <1>2, <1>3, <1>4, <1>5
  DEF Next, vars, body, robot, publisher, closer, StartLoop, PublisherStep, GetState, Look,
      LoopEnds, WriteCommand, WriteFails, Direct, GuardRaised, CloserStep, Hold, Prepare,
      PublisherJoined, CallSucceeds, CallFails, Fallback, CallTimesOut, ModeAnswers,
      TorqueAnswers, LowStateArrives

\* The step itself: what becomes the target is a sample of the active
\* trajectory, or of a move that advances itself.
LEMMA MotionInCharge ==
  ASSUME Typed, ActiveInCharge, [Next]_vars,
         target' \in Trajectories, target' # target
  PROVE  InCharge(target')
<1>1. \/ Update
      \/ \E m \in Movers : SelfAdvance(m)
  BY TrajectoriesApart
  DEF Next, vars, body, robot, publisher, closer, StartLoop, PublisherStep, GetState, Look,
      LoopEnds, WriteCommand, WriteFails, Call, Direct, MoverStep, TakeStart, Register,
      Complete, GiveUp, Drop, Return, MoverGoes, StopCalled, GuardRaised, CloserStep, Hold,
      Prepare, PublisherJoined, CallSucceeds, CallFails, Fallback, CallTimesOut, ModeAnswers,
      TorqueAnswers, LowStateArrives
<1>2. CASE Update
  <2>1. seen # NoTrajectory /\ active = seen /\ target' = active
    BY <1>2 DEF Update, Sample
  <2> QED
    BY <2>1 DEF ActiveInCharge, InCharge
<1>3. ASSUME NEW m \in Movers, SelfAdvance(m) PROVE InCharge(target')
  BY <1>3 DEF SelfAdvance, At, MoveOf, InCharge
<1> QED
  BY <1>1, <1>2, <1>3

\* The active trajectory always belongs to a call that has not returned.
LEMMA AlwaysInCharge == Spec => []ActiveInCharge
<1>1. Init => ActiveInCharge
  BY DEF Init, ActiveInCharge
<1>2. Typed /\ ActiveInCharge /\ [Next]_vars => ActiveInCharge'
  BY InChargeKept
<1> QED
  BY <1>1, <1>2, AlwaysTyped, PTL DEF Spec

\* Once move_through_poses() has returned, its trajectory never moves the body
\* again, however the publisher and the movers interleave.
THEOREM NoLateMotion == Spec => NoMotionAfterReturn
<1>1. Typed /\ ActiveInCharge /\ [Next]_vars =>
        [target' \in Trajectories /\ target' # target => InCharge(target')]_vars
  BY MotionInCharge
<1> QED
  BY <1>1, AlwaysTyped, AlwaysInCharge, PTL DEF Spec, NoMotionAfterReturn

\* An overtaken mover cannot take down the trajectory that overtook it.
LEMMA LatestKept ==
  ASSUME Typed, LatestStaysActive, [Next]_vars
  PROVE  LatestStaysActive'
<1> USE DEF LatestStaysActive
<1>0. /\ move \in [Movers -> Move] /\ latest \in Trajectories \cup {NoTrajectory}
      /\ \A tr \in Trajectories : tr[1] \in Movers
      /\ \A m \in Movers : MoveOf(m)[1] = m /\ MoveOf(m)[2] = move[m].n
  BY DEF Typed, TypeOK, Trajectories, MoveOf
<1>1. ASSUME NEW m \in Movers, MoverStep(m) \/ SelfAdvance(m) PROVE LatestStaysActive'
  <2>1. (\A k \in Movers \ {m} : move'[k] = move[k]) /\ move'[m].n = move[m].n
    BY <1>1, OthersUndisturbed
  <2>2. CASE Register(m)
    <3>1. CASE active' = MoveOf(m) /\ latest' = MoveOf(m)
      BY <3>1
    <3>2. CASE MoverGoes(m, "self") /\ UNCHANGED <<active, latest>>
      <4>1. move' = [move EXCEPT ![m].at = "self"] /\ UNCHANGED <<active, latest>>
        BY <3>2 DEF MoverGoes
      <4>2. move'[m].at = "self"
        BY <1>0, <4>1
      <4> QED
        BY <1>0, <2>1, <4>1, <4>2
    <3> QED
      BY <2>2, <3>1, <3>2 DEF Register
  <2>3. CASE ~Register(m) /\ move'[m].at # "wait" /\ latest' = latest
    <3>1. active' = active \/ active = MoveOf(m)
      BY <1>1, <2>3 DEF MoverStep, TakeStart, Complete, GiveUp, Drop, Return, SelfAdvance
    <3>2. latest[1] # m /\ latest # NoTrajectory => latest # MoveOf(m)
      BY <1>0
    <3> QED
      BY <1>0, <2>1, <2>3, <3>1, <3>2
  <2>4. ~Register(m) => move'[m].at # "wait" /\ latest' = latest
    <3>1. \A place \in MovePlaces \ {"wait"} :
            MoverGoes(m, place) => move'[m].at # "wait"
      BY <1>0 DEF MoverGoes
    <3>2. CASE Complete(m)
      BY <1>0, <3>2 DEF Complete
    <3>3. CASE SelfAdvance(m)
      <4>1. PICK phase \in 0..Length :
              move' = [move EXCEPT ![m].phase = phase,
                                   ![m].at = IF phase = Length THEN "arrive" ELSE "self"]
        BY <3>3 DEF SelfAdvance
      <4>2. move'[m].at = IF phase = Length THEN "arrive" ELSE "self"
        BY <1>0, <4>1
      <4> QED
        BY <3>3, <4>2 DEF SelfAdvance
    <3>4. CASE TakeStart(m) \/ GiveUp(m) \/ Drop(m) \/ Return(m)
      BY <3>1, <3>4 DEF TakeStart, GiveUp, Drop, Return, MovePlaces
    <3> QED
      BY <1>1, <3>2, <3>3, <3>4 DEF MoverStep
  <2> QED
    BY <2>2, <2>3, <2>4
<1>2. CASE Update
  <2>1. UNCHANGED <<active, latest>>
    BY <1>2 DEF Update
  <2>2. CASE seen # NoTrajectory /\ active = seen
    <3>1. Sample(seen) /\ seen \in Trajectories
      BY <1>2, <2>2 DEF Update, Typed, TypeOK
    <3> QED
      BY <1>0, <2>1, <3>1, SampleTyped
  <2>3. CASE ~(seen # NoTrajectory /\ active = seen)
    BY <1>2, <2>1, <2>3 DEF Update
  <2> QED
    BY <2>2, <2>3
<1>3. ASSUME NEW m \in Movers, move' = [move EXCEPT ![m] = Begun(m)],
             UNCHANGED <<active, latest>>
      PROVE  LatestStaysActive'
  <2>1. move'[m].at = "start" /\ \A k \in Movers \ {m} : move'[k] = move[k]
    BY <1>0, <1>3 DEF Begun
  <2> QED
    BY <1>0, <1>3, <2>1
<1>4. ASSUME NEW w \in Workers, Call(w) PROVE LatestStaysActive'
  BY <1>3, <1>4, MoversNamed DEF Call
<1>5. CASE StopCalled
  BY <1>3, <1>5, MoversNamed DEF StopCalled
<1>6. CASE UNCHANGED <<active, latest, move>>
  BY <1>6
<1> QED
  BY <1>1, <1>2, <1>4, <1>5, <1>6
  DEF Next, vars, body, robot, publisher, closer, StartLoop, PublisherStep, GetState, Look,
      LoopEnds, WriteCommand, WriteFails, Direct, GuardRaised, CloserStep, Hold, Prepare,
      PublisherJoined, CallSucceeds, CallFails, Fallback, CallTimesOut, ModeAnswers,
      TorqueAnswers, LowStateArrives

\* The trajectory registered last stays the active one while its mover waits.
THEOREM LatestWins == Spec => []LatestStaysActive
<1>1. Init => LatestStaysActive
  BY DEF Init, LatestStaysActive
<1>2. Typed /\ LatestStaysActive /\ [Next]_vars => LatestStaysActive'
  BY LatestKept
<1> QED
  BY <1>1, <1>2, AlwaysTyped, PTL DEF Spec
-----------------------------------------------------------------------------
(* The stop.                                                               *)

\* A write after the stop is the last one: the publisher has looked at the
\* event, or is about to.
LastWrite ==
  lastWrites = 0 \/ (stopEvent /\ lastWrites = 1 /\ pub \in {"look", "ended"})

\* The event is never cleared, and only write() counts.
LEMMA LastWriteKept ==
  ASSUME LastWrite, [Next]_vars
  PROVE  LastWrite'
<1> USE DEF LastWrite
<1>1. CASE StartLoop \/ PublisherStep
  BY <1>1 DEF StartLoop, PublisherStep, GetState, Look, LoopEnds, Update, WriteCommand,
              WriteFails, closer
<1>2. CASE Prepare
  BY <1>2 DEF Prepare, publisher
<1>3. CASE UNCHANGED <<pub, lastWrites, stopEvent>>
  BY <1>3
<1> QED
  BY <1>1, <1>2, <1>3
  DEF Next, vars, robot, body, publisher, closer, Call, Direct, MoverStep, TakeStart,
      Register, Complete, GiveUp, Drop, Return, SelfAdvance, MoverGoes, StopCalled,
      GuardRaised, CloserStep, Hold, PublisherJoined, CallSucceeds, CallFails, Fallback,
      CallTimesOut, ModeAnswers, TorqueAnswers, LowStateArrives

\* After the stop the publisher writes at most one more command, whether or
\* not the join waited for it.
THEOREM OneWrite == Spec => []OneWriteAfterStop
<1>1. Init => LastWrite
  BY DEF Init, LastWrite
<1>2. LastWrite /\ [Next]_vars => LastWrite'
  BY LastWriteKept
<1>3. LastWrite => OneWriteAfterStop
  BY DEF LastWrite, OneWriteAfterStop
<1> QED
  BY <1>1, <1>2, <1>3, PTL DEF Spec

\* A call that was answered took the torque away, and nothing brings it back.
Answered == \A a \in Attempts : call[a] = "ok" => torque = "off"

StoppedWell == Answered /\ OffMeansOff /\ FallbackFindsClient

\* An attempt whose call is given up, or whose answer comes late, changes
\* neither what an answer means nor who still needs the client.
LEMMA StoppedWellKept ==
  ASSUME Typed, StoppedWell, [Next]_vars
  PROVE  StoppedWell'
<1> USE DEF StoppedWell, Answered, OffMeansOff, FallbackFindsClient, Closed, Attempts
<1>0. call \in [{1, 2} -> {"none", "mode", "torque", "ok", "failed", "killed"}]
      /\ attempt \in {1, 2}
  BY DEF Typed, TypeOK
<1>1. CASE UNCHANGED <<torque, call, closing, attempt, cleaned>>
  BY <1>1
<1>2. CASE StopCalled \/ GuardRaised \/ Hold \/ Prepare
  BY <1>2 DEF StopCalled, GuardRaised, Hold, Prepare, robot, body
<1>3. CASE PublisherJoined
  BY <1>0, <1>3 DEF PublisherJoined, robot
<1>4. CASE CallSucceeds
  BY <1>0, <1>4 DEF CallSucceeds, robot
<1>5. CASE CallFails
  BY <1>0, <1>5 DEF CallFails, Fallback, robot
<1>6. CASE CallTimesOut
  BY <1>0, <1>6 DEF CallTimesOut, Fallback
<1>7. ASSUME NEW a \in Attempts, ModeAnswers(a) \/ TorqueAnswers(a) PROVE StoppedWell'
  BY <1>0, <1>7 DEF ModeAnswers, TorqueAnswers, robot
<1> QED
  BY <1>1, <1>2, <1>3, <1>4, <1>5, <1>6, <1>7
  DEF Next, vars, robot, body, publisher, closer, StartLoop, PublisherStep, GetState, Look,
      LoopEnds, Update, WriteCommand, WriteFails, Call, Direct, MoverStep, TakeStart,
      Register, Complete, GiveUp, Drop, Return, SelfAdvance, MoverGoes, CloserStep,
      LowStateArrives

\* The three facts of the stop, for every step.
LEMMA AlwaysStoppedWell == Spec => []StoppedWell
<1>1. Init => StoppedWell
  BY DEF Init, StoppedWell, Answered, OffMeansOff, FallbackFindsClient, Attempts
<1>2. Typed /\ StoppedWell /\ [Next]_vars => StoppedWell'
  BY StoppedWellKept
<1> QED
  BY <1>1, <1>2, AlwaysTyped, PTL DEF Spec

\* stop() and abort() return normally only with the torque off.
THEOREM OffIsOff == Spec => []OffMeansOff
<1>1. StoppedWell => OffMeansOff
  BY DEF StoppedWell
<1> QED
  BY <1>1, AlwaysStoppedWell, PTL

\* As long as Torque OFF may still be asked for, the client is open.
THEOREM ClientOpen == Spec => []FallbackFindsClient
<1>1. StoppedWell => FallbackFindsClient
  BY DEF StoppedWell
<1> QED
  BY <1>1, AlwaysStoppedWell, PTL
==============================================================================
