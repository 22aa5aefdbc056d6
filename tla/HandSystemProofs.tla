--------------------------- MODULE HandSystemProofs ---------------------------
(***************************************************************************)
(* Proofs about HandSystem, for any number of frames and of changes of the  *)
(* levels: its types, that an initialisation is overridden by two targets   *)
(* at most, that its bridge ends with the worker, and that the targets do   *)
(* not fall back behind one another by more than a frame.                   *)
(***************************************************************************)
EXTENDS HandSystem, TLAPS

------------------------------------------------------------------------------
(* Types.                                                                   *)

LEMMA StepInModes ==
  ASSUME NEW m \in Modes, NEW ev \in Levels
  PROVE  StepMode(m, ev).mode \in Modes
  BY DEF StepMode, FromWaitConnect, FromWaitStart, FromRun, FromHome, FromPause, Result,
         Modes, Levels

LEMMA TypeInit == Init => TypeOK
  <1> SUFFICES ASSUME Init PROVE TypeOK
    OBVIOUS
  <1>1. 0 \in Frame /\ 0 \in 0..MaxToggles
    BY BoundsAssumption DEF BoundsAssumption, Frame
  <1>2. hybrid \in [frame : Frame, source : Source]
    BY <1>1 DEF Init, Source
  <1>3. 0 \in 0..MaxBridges /\ overrides \in [Bridges -> Nat]
    BY BoundsAssumption DEF BoundsAssumption, Init
  <1>4. /\ {own, started} \subseteq 0..MaxBridges /\ own <= started /\ up \subseteq 1..started
        /\ {topic, latched, asked, triggered} \subseteq SUBSET Bridges
    BY <1>3 DEF Init
  <1>5. /\ levels \subseteq Level /\ seen \subseteq {"ready", "hand_init"}
        /\ at = "poll" /\ mode \in Modes /\ thread = "none" /\ draft = None /\ sent = None
        /\ {direct, running, initializing, killed} \subseteq BOOLEAN /\ ~initializing
    BY DEF Init, Modes
  <1>6. toggles \in 0..MaxToggles /\ {frame, left, right} \subseteq Frame
    BY <1>1 DEF Init
  <1> QED
    BY <1>2, <1>3, <1>4, <1>5, <1>6 DEF TypeOK

LEMMA TypeToggle == TypeOK /\ (Toggle \/ Kill) => TypeOK'
  <1>1. TypeOK /\ Toggle => TypeOK'
    <2> SUFFICES ASSUME TypeOK, Toggle PROVE TypeOK'
      OBVIOUS
    <2>1. levels' \subseteq Level
      BY DEF Toggle, TypeOK, Level
    <2>2. toggles' \in 0..MaxToggles
      BY BoundsAssumption DEF BoundsAssumption, Toggle, TypeOK
    <2>3. UNCHANGED <<direct, loop, own, arrays, control, initializing, bridging, killed>>
      BY DEF Toggle
    <2> QED
      BY <2>1, <2>2, <2>3 DEF TypeOK, loop, arrays, control, bridging, traffic
  <1>2. TypeOK /\ Kill => TypeOK'
    BY DEF Kill, TypeOK, bus, arrays, control, bridging, traffic, Target, None
  <1> QED
    BY <1>1, <1>2

\* The bridges that are up have been started.
LEMMA UpBridges == TypeOK => up \subseteq Bridges
  BY BoundsAssumption DEF TypeOK, Bridges, BoundsAssumption

LEMMA TypeWorker == TypeOK /\ Worker => TypeOK'
  <1> SUFFICES ASSUME TypeOK, Worker PROVE TypeOK'
    OBVIOUS
  <1> USE DEF TypeOK, bus, arrays, control, bridging, traffic
  <1>1. CASE Poll
    <2>1. Snapshot \in Levels
      BY DEF Snapshot, Levels
    <2> QED
      BY <1>1, <2>1, StepInModes DEF Poll, EndLoop
  <1>2. CASE InitRequested
    BY <1>2 DEF InitRequested, TakeInit
  <1>3. CASE RobotService
    <2>1. at = "service" /\ at' \in {"poll", "arm"}
      BY <1>3 DEF RobotService, ServiceEnds
    <2> QED
      BY <1>3, <2>1 DEF RobotService
  <1>4. CASE Arm
    <2>1. CASE at' = "poll" /\ UNCHANGED initializing
      BY <1>4, <2>1 DEF Arm
    <2>2. CASE at' = "call" /\ initializing' = TRUE
      BY <1>4, <2>2 DEF Arm
    <2> QED
      BY <1>4, <2>1, <2>2 DEF Arm
  <1>5. CASE Call
    <2>1. asked' \subseteq Bridges
      BY <1>5, UpBridges DEF Call
    <2> QED
      BY <1>5, <2>1 DEF Call
  <1>6. CASE InitReturns
    <2>1. overrides' \in [Bridges -> Nat] /\ triggered' \subseteq Bridges
      BY <1>6 DEF InitReturns
    <2> QED
      BY <1>6, <2>1 DEF InitReturns
  <1>7. CASE Build
    <2>1. CASE at' = "poll" /\ UNCHANGED <<started, up>>
      BY <1>7, <2>1 DEF Build, Ticks
    <2>2. CASE started < MaxBridges /\ started' = started + 1 /\ up' = up \cup {started'}
               /\ at' = "construct"
      <3>1. started' \in 0..MaxBridges /\ own \in Int /\ own <= started'
        BY <2>2, BoundsAssumption DEF BoundsAssumption
      <3>2. up' \subseteq 1..started'
        <4>1. started \in Nat /\ up \subseteq 1..started
          BY BoundsAssumption DEF BoundsAssumption
        <4>2. 1..started \subseteq 1..started' /\ started' \in 1..started'
          BY <2>2, <4>1
        <4> QED
          BY <2>2, <4>1, <4>2
      <3> QED
        BY <1>7, <2>2, <3>1, <3>2 DEF Build, Ticks
    <2> QED
      BY <1>7, <2>1, <2>2 DEF Build
  <1>c. CASE Construct
    <2>1. (own' = own /\ thread' = thread) \/ (own' = started /\ thread' \in {"none", "born"})
      BY <1>c DEF Construct
    <2>2. own' \in 0..MaxBridges /\ own' <= started
      BY <2>1
    <2> QED
      BY <1>c, <2>1, <2>2 DEF Construct
  <1>8. CASE Idle
    BY <1>8 DEF Idle, Ticks
  <1>9. CASE DirectStep
    <2>0. topic' \subseteq Bridges
      BY <1>9, UpBridges DEF DirectStep
    <2>1. CASE UNCHANGED <<frame, sent, topic>>
      BY <1>9, <2>1 DEF DirectStep, Ticks
    <2>2. CASE frame < MaxFrames /\ frame' = frame + 1
      <3>1. frame' \in Frame
        BY <2>2, BoundsAssumption DEF Frame, BoundsAssumption
      <3>2. [left |-> frame', right |-> frame'] \in Target
        BY <3>1 DEF Target
      <3> QED
        BY <1>9, <2>0, <3>1, <3>2 DEF DirectStep, Ticks
    <2> QED
      BY <1>9, <2>1, <2>2 DEF DirectStep
  <1>10. CASE TakeFrame
    <2>1. CASE EndLoop /\ UNCHANGED <<frame, hybrid>>
      BY <1>10, <2>1 DEF TakeFrame, Ticks, EndLoop
    <2>2. CASE frame < MaxFrames /\ frame' = frame + 1
      <3>1. frame' \in Frame
        BY <2>2, BoundsAssumption DEF Frame, BoundsAssumption
      <3> QED
        BY <1>10, <3>1 DEF TakeFrame, Ticks, EndLoop
    <2> QED
      BY <1>10, <2>1, <2>2 DEF TakeFrame
  <1>11. CASE LeftPose
    BY <1>11 DEF LeftPose, WriteLeft
  <1>12. CASE RightPose
    BY <1>12 DEF RightPose
  <1>13. CASE Gone
    <2>1. up' \in {up, up \ {own}}
      BY <1>13 DEF Gone, StopBridge
    <2> QED
      BY <1>13, <2>1 DEF Gone
  <1> QED
    BY <1>1, <1>2, <1>3, <1>4, <1>5, <1>6, <1>7, <1>c, <1>8, <1>9, <1>10, <1>11, <1>12, <1>13
    DEF Worker

LEMMA TypeControl == TypeOK /\ Control => TypeOK'
  <1> SUFFICES ASSUME TypeOK, Control PROVE TypeOK'
    OBVIOUS
  <1> USE DEF TypeOK, bus, loop, arrays, bridging, traffic, Others, Alive
  <1>0. 0 \in Frame
    BY BoundsAssumption DEF BoundsAssumption, Frame
  <1>n. None \notin Target
    BY DEF None, Target, Frame
  <1>a. ASSUME NEW f \in Frame, NEW g \in Frame PROVE [left |-> f, right |-> g] \in Target
    BY DEF Target
  <1>1. CASE Start
    BY <1>1 DEF Start
  <1>2. CASE ReadLeft
    <2>1. (draft' = None /\ thread' = "stopping") \/ draft' \in Target
      BY <1>0, <1>2, <1>a DEF ReadLeft
    <2> QED
      BY <1>n, <1>2, <2>1 DEF ReadLeft
  <1>3. CASE ReadRight
    <2>1. draft' \in Target
      BY <1>3 DEF ReadRight, Target
    <2> QED
      BY <1>n, <1>3, <2>1 DEF ReadRight
  <1>b. ASSUME NEW source, Prefer(source) PROVE draft' \in Target \cup {None} /\ (draft # None => draft' # None)
    BY <1>n, <1>a, <1>b DEF Prefer
  <1>4. CASE ReadClose
    BY <1>4, <1>b DEF ReadClose
  <1>5. CASE ReadMotor
    BY <1>5, <1>b DEF ReadMotor
  <1>6. CASE Check
    BY <1>6 DEF Check
  <1>7. CASE Send
    <2>1. topic' \subseteq Bridges
      BY <1>7, UpBridges DEF Send
    <2> QED
      BY <1>7, <2>1 DEF Send
  <1>8. CASE ThreadStops
    BY <1>8 DEF ThreadStops
  <1> QED
    BY <1>1, <1>2, <1>3, <1>4, <1>5, <1>6, <1>7, <1>8 DEF Control

LEMMA TypeBridge == TypeOK /\ Bridge => TypeOK'
  <1> SUFFICES ASSUME TypeOK, Bridge PROVE TypeOK'
    OBVIOUS
  <1> PICK b \in Bridges : TakeTarget(b) \/ HandleInit(b)
    BY DEF Bridge
  <1>1. /\ {topic, latched, asked, triggered}' \subseteq SUBSET Bridges
        /\ overrides' \in [Bridges -> Nat]
    BY DEF TakeTarget, HandleInit, TypeOK
  <1>2. UNCHANGED <<Others, control, started, up>>
    BY DEF TakeTarget, HandleInit
  <1> QED
    BY <1>1, <1>2 DEF TypeOK, Others, bus, loop, arrays, control

\* Every variable keeps its type: in particular the flag of an initialisation is
\* up only between its raising and its end, however it ends.
THEOREM Typing == Spec => []TypeOK
  <1>1. TypeOK /\ UNCHANGED vars => TypeOK'
    BY DEF vars, bus, loop, arrays, control, bridging, traffic, TypeOK
  <1>2. TypeOK /\ [Next]_vars => TypeOK'
    BY <1>1, TypeToggle, TypeWorker, TypeControl, TypeBridge DEF Next
  <1> QED
    BY TypeInit, <1>2, PTL DEF Spec

------------------------------------------------------------------------------
(* The bridge ends with the worker.                                         *)

\* When the worker's process has ended, the bridges that are up are those of failed
\* constructors, unless it was killed or its end overtook its thread's own stop().
THEOREM BridgeWithWorker == Spec => []BridgeEnds
  <1>1. Init => BridgeEnds
    BY DEF Init, BridgeEnds
  <1>2. TypeOK /\ BridgeEnds /\ [Next]_vars => BridgeEnds'
    <2> SUFFICES ASSUME TypeOK, BridgeEnds, [Next]_vars PROVE BridgeEnds'
      OBVIOUS
    <2>1. CASE Toggle
      BY <2>1 DEF Toggle, loop, bridging, control, BridgeEnds, Lost
    <2>2. CASE Kill
      BY <2>2 DEF Kill, BridgeEnds
    <2>3. CASE Gone
      <3>1. up \subseteq 1..started /\ UNCHANGED <<own, started, thread>>
        BY <2>3 DEF Gone, TypeOK, control
      <3>2. CASE Built
        <4>1. thread = "stopping" \/ up' = up \ {own}
          BY <2>3, <3>2 DEF Gone, StopBridge
        <4> QED
          BY <3>1, <4>1 DEF BridgeEnds, Lost
      <3>3. CASE ~Built
        <4>1. up' = up /\ own = 0
          BY <2>3, <3>3 DEF Gone, Built
        <4>2. 0 \notin 1..started
          BY DEF TypeOK
        <4> QED
          BY <3>1, <4>1, <4>2 DEF BridgeEnds, Lost
      <3> QED
        BY <3>2, <3>3
    <2>4. CASE Worker /\ ~Gone
      <3>1. at' # "gone"
        BY <2>4 DEF Worker, Poll, InitRequested, TakeInit, RobotService, ServiceEnds, Arm, Call,
              InitReturns, Build, Construct, Idle, DirectStep, TakeFrame, LeftPose, RightPose,
              EndLoop
      <3> QED
        BY <3>1 DEF BridgeEnds
    <2>5. CASE Control
      <3>1. at' # "gone"
        BY <2>5 DEF Control, Start, ReadLeft, ReadRight, ReadClose, ReadMotor, Check, Send,
              ThreadStops, Alive, Others, loop
      <3> QED
        BY <3>1 DEF BridgeEnds
    <2>6. CASE Bridge \/ UNCHANGED vars
      <3>1. UNCHANGED <<at, own, started, up, killed, thread>>
        BY <2>6 DEF Bridge, TakeTarget, HandleInit, Others, vars, loop, control, bridging
      <3> QED
        BY <3>1 DEF BridgeEnds, Lost
    <2> QED
      BY <2>1, <2>2, <2>3, <2>4, <2>5, <2>6 DEF Next
  <1> QED
    BY <1>1, <1>2, Typing, PTL DEF Spec

------------------------------------------------------------------------------
(* An initialisation and the targets under way.                             *)

\* Targets that a bridge may still latch: one in flight, one past the check.
InFlight(b) == IF b \in topic THEN 1 ELSE 0
PastCheck == IF thread = "send" THEN 1 ELSE 0

\* While an initialisation settles each target under way may be latched once,
\* and no further one gets past the check.
FewOverrides ==
  /\ at \notin {"settle", "gone"} => triggered = {} /\ \A b \in Bridges : overrides[b] = 0
  /\ at \in {"call", "settle"} => initializing
  /\ at = "settle" => \A b \in Bridges : overrides[b] + InFlight(b) + PastCheck <= 2
  /\ at = "gone" => \A b \in Bridges : overrides[b] + InFlight(b) <= 2

LEMMA OverridesInNat == TypeOK => \A b \in Bridges : overrides[b] \in Nat
  BY DEF TypeOK

LEMMA OverridesBridge == TypeOK /\ FewOverrides /\ Bridge => FewOverrides'
  <1> SUFFICES ASSUME TypeOK, FewOverrides, Bridge PROVE FewOverrides'
    OBVIOUS
  <1> PICK c \in Bridges : TakeTarget(c) \/ HandleInit(c)
    BY DEF Bridge
  <1>0. UNCHANGED <<at, thread, initializing>>
    BY DEF TakeTarget, HandleInit, Others, control, loop
  <1>1. CASE HandleInit(c)
    <2>1. UNCHANGED <<topic, overrides>> /\ (at # "settle" => triggered' = triggered)
      BY <1>1 DEF HandleInit
    <2> QED
      BY <1>0, <2>1 DEF FewOverrides, InFlight, PastCheck
  <1>2. CASE TakeTarget(c)
    <2>1. c \in topic /\ topic' = topic \ {c} /\ triggered' = triggered
      BY <1>2 DEF TakeTarget
    <2>2. overrides' = overrides
          \/ (c \in triggered /\ overrides' = [overrides EXCEPT ![c] = @ + 1])
      BY <1>2 DEF TakeTarget
    <2>3. ASSUME NEW b \in Bridges
          PROVE  overrides'[b] + InFlight(b)' <= overrides[b] + InFlight(b)
      <3>1. overrides[b] \in Nat /\ overrides \in [Bridges -> Nat]
        BY DEF TypeOK
      <3>2. CASE b = c
        <4>1. InFlight(b) = 1 /\ InFlight(b)' = 0 /\ overrides'[b] \in {overrides[b], overrides[b] + 1}
          BY <2>1, <2>2, <3>1, <3>2 DEF InFlight
        <4> QED
          BY <3>1, <4>1
      <3>3. CASE b # c
        <4>1. InFlight(b)' = InFlight(b) /\ overrides'[b] = overrides[b]
          BY <2>1, <2>2, <3>1, <3>3 DEF InFlight
        <4> QED
          BY <3>1, <4>1 DEF InFlight
      <3> QED
        BY <3>2, <3>3
    <2>4. \A b \in Bridges : overrides[b] \in Nat /\ overrides'[b] \in Nat
                              /\ InFlight(b) \in Nat /\ InFlight(b)' \in Nat
      BY <1>2, OverridesInNat, TypeBridge DEF InFlight, TypeOK
    <2>5. CASE at \in {"settle", "gone"}
      BY <1>0, <2>3, <2>4, <2>5 DEF FewOverrides, PastCheck
    <2>6. CASE at \notin {"settle", "gone"}
      BY <1>0, <2>1, <2>2, <2>6 DEF FewOverrides
    <2> QED
      BY <2>5, <2>6
  <1> QED
    BY <1>1, <1>2

\* No bridge that has handled an initialisation latches more than two targets
\* before it is over.
THEOREM OverriddenTwice == Spec => []OverridesBounded
  <1>1. Init => FewOverrides
    BY DEF Init, FewOverrides
  <1>2. TypeOK /\ FewOverrides /\ [Next]_vars => FewOverrides'
    <2> SUFFICES ASSUME TypeOK, FewOverrides, [Next]_vars PROVE FewOverrides'
      OBVIOUS
    <2>0. \A b \in Bridges : overrides[b] \in Nat
      BY OverridesInNat
    <2>1. CASE Toggle \/ UNCHANGED vars
      BY <2>1 DEF Toggle, vars, loop, bridging, traffic, control, FewOverrides, InFlight, PastCheck
    <2>2. CASE Kill
      <3>1. at' = "gone" /\ UNCHANGED <<overrides, topic>>
        BY <2>2 DEF Kill, bridging, traffic
      <3> QED
        BY <2>0, <2>2, <3>1 DEF Kill, FewOverrides, InFlight, PastCheck
    <2>3. CASE InitReturns
      BY <2>3 DEF InitReturns, FewOverrides
    <2>4. CASE Call
      <3>1. at = "call" /\ at' = "settle" /\ UNCHANGED <<initializing, overrides, topic, thread>>
        BY <2>4 DEF Call, control
      <3> QED
        BY <3>1 DEF FewOverrides, InFlight, PastCheck
    <2>5. CASE Worker /\ ~InitReturns /\ ~Call
      <3>1. /\ at \notin {"call", "settle", "gone"} /\ at' # "settle"
            /\ UNCHANGED <<overrides, triggered>> /\ (at' = "call" => initializing')
        BY <2>5 DEF Worker, Poll, InitRequested, TakeInit, RobotService, ServiceEnds, Arm, Build,
              Construct, Idle, DirectStep, TakeFrame, LeftPose, RightPose, EndLoop, Gone, Ticks,
              bridging, traffic
      <3> QED
        BY <3>1 DEF FewOverrides, InFlight
    <2>6. CASE Control
      <3>1. at # "gone" /\ UNCHANGED <<at, initializing, overrides, triggered>>
        BY <2>6 DEF Control, Start, ReadLeft, ReadRight, ReadClose, ReadMotor, Check, Send,
              ThreadStops, Alive, Others, bridging, traffic, loop
      <3>2. CASE Send
        <4>1. thread = "send" /\ thread' = "read"
          BY <3>2 DEF Send, Alive
        <4> QED
          BY <2>0, <3>1, <4>1 DEF FewOverrides, InFlight, PastCheck
      <3>3. CASE Check
        BY <3>1, <3>3 DEF Check, MaySend, Alive, bridging, traffic, FewOverrides, InFlight, PastCheck
      <3>4. CASE Control /\ ~Send /\ ~Check
        <4>1. topic' = topic /\ thread' # "send"
          BY <3>4 DEF Control, Start, ReadLeft, ReadRight, ReadClose, ReadMotor, ThreadStops,
                bridging, traffic
        <4> QED
          BY <2>0, <3>1, <4>1 DEF FewOverrides, InFlight, PastCheck
      <3> QED
        BY <2>6, <3>2, <3>3, <3>4
    <2>7. CASE Bridge
      BY <2>7, OverridesBridge
    <2> QED
      BY <2>1, <2>2, <2>3, <2>4, <2>5, <2>6, <2>7 DEF Next
  <1>3. TypeOK /\ FewOverrides => OverridesBounded
    <2> SUFFICES ASSUME TypeOK, FewOverrides, NEW b \in Bridges PROVE overrides[b] <= 2
      BY DEF OverridesBounded
    <2> QED
      BY OverridesInNat DEF FewOverrides, InFlight, PastCheck
  <1> QED
    BY <1>1, <1>2, <1>3, Typing, PTL DEF Spec

------------------------------------------------------------------------------
(* Targets and frames.                                                      *)

\* The arrays lag behind the frame by one at most, while the worker writes them;
\* leader hands have no thread.
ArraysFresh ==
  /\ direct => thread = "none"
  /\ ~direct => /\ hybrid.frame = frame
                /\ left \in {frame - 1, frame} /\ right \in {frame - 1, frame}
                /\ at \notin {"left", "right", "gone"} => left = frame /\ right = frame
                /\ at = "right" => left = frame

\* A target is never ahead of the frame; what the thread has read of the next one
\* is not more than a frame behind the last.
DraftFresh ==
  /\ sent # None => sent.left <= frame /\ sent.right <= frame
  /\ sent # None /\ thread \in {"right", "close", "motor", "check", "send"} =>
       draft.left >= sent.left - 1
  /\ sent # None /\ thread \in {"close", "motor", "check", "send"} =>
       draft.right >= sent.right - 1
  /\ thread \in {"right", "close", "motor", "check", "send"} =>
       draft.left <= frame /\ draft.right <= frame

LEMMA ArraysStep == TypeOK /\ ArraysFresh /\ [Next]_vars => ArraysFresh'
  <1> SUFFICES ASSUME TypeOK, ArraysFresh, [Next]_vars PROVE ArraysFresh'
    OBVIOUS
  <1> USE DEF ArraysFresh
  <1>1. CASE Toggle \/ Bridge \/ UNCHANGED vars
    BY <1>1 DEF Toggle, Bridge, TakeTarget, HandleInit, Others, vars, bus, loop, arrays, control
  <1>2. CASE Kill
    BY <1>2 DEF Kill, bus, arrays, control
  <1>3. CASE Control
    <2>1. UNCHANGED <<direct, at, arrays>> /\ thread # "none"
      BY <1>3 DEF Control, Start, ReadLeft, ReadRight, ReadClose, ReadMotor, Check, Send,
            ThreadStops, Alive, Others, bus, loop
    <2> QED
      BY <2>1 DEF arrays
  <1>4. CASE TakeFrame
    <2>1. direct' = direct /\ thread' = thread /\ at = "tick" /\ ~direct
          /\ left' = left /\ right' = right
      BY <1>4 DEF TakeFrame, Ticks, bus
    <2>2. CASE EndLoop /\ UNCHANGED <<frame, hybrid>>
      BY <2>1, <2>2 DEF EndLoop
    <2>3. CASE frame' = frame + 1 /\ hybrid'.frame = frame' /\ at' = "left"
      BY <2>1, <2>3 DEF TypeOK, Frame
    <2> QED
      BY <1>4, <2>2, <2>3 DEF TakeFrame
  <1>5. CASE LeftPose
    BY <1>5 DEF LeftPose, WriteLeft, bus, control
  <1>6. CASE RightPose
    BY <1>6 DEF RightPose, bus, control
  <1>7. CASE DirectStep
    BY <1>7 DEF DirectStep, Ticks, bus
  <1>8. CASE Worker /\ ~TakeFrame /\ ~LeftPose /\ ~RightPose /\ ~DirectStep
    <2>1. UNCHANGED <<direct, arrays>> /\ at \notin {"left", "right"} /\ at' \notin {"left", "right"}
      BY <1>8 DEF Worker, Poll, InitRequested, TakeInit, RobotService, ServiceEnds, Arm, Build,
            Construct, Idle, EndLoop, Gone, Ticks, Call, InitReturns, bus
    <2>2. direct => thread' = thread \/ thread' = "none"
      BY <1>8 DEF Worker, Poll, InitRequested, TakeInit, RobotService, Arm, Build,
            Construct, Idle, Gone, Ticks, Call, InitReturns, control
    <2>3. at \notin {"left", "right", "gone"}
      BY <1>8, <2>1 DEF Worker, Poll, InitRequested, TakeInit, RobotService, ServiceEnds, Arm, Build,
            Construct, Idle, Gone, Ticks, Call, InitReturns
    <2> QED
      BY <2>1, <2>2, <2>3 DEF arrays
  <1> QED
    BY <1>1, <1>2, <1>3, <1>4, <1>5, <1>6, <1>7, <1>8 DEF Next

LEMMA ArraysStayFresh == Spec => []ArraysFresh
  <1>1. Init => ArraysFresh
    BY DEF Init, ArraysFresh
  <1> QED
    BY <1>1, ArraysStep, Typing, PTL DEF Spec

LEMMA DraftStep == TypeOK /\ ArraysFresh /\ DraftFresh /\ [Next]_vars => DraftFresh'
  <1> SUFFICES ASSUME TypeOK, ArraysFresh, DraftFresh, [Next]_vars PROVE DraftFresh'
    OBVIOUS
  <1> USE DEF DraftFresh
  <1>0. frame \in Int /\ left \in Int /\ right \in Int /\ hybrid.frame \in Int
        /\ 0 <= frame
        /\ (sent # None => sent.left \in Int /\ sent.right \in Int)
        /\ (draft # None => draft.left \in Int /\ draft.right \in Int)
    BY BoundsAssumption DEF TypeOK, Frame, Target, BoundsAssumption
  <1>t. ASSUME thread \in {"right", "close", "motor", "check", "send"} PROVE draft # None
    BY <1>t DEF TypeOK
  <1>1. CASE UNCHANGED <<frame, thread, draft, sent>>
    BY <1>1
  <1>2. CASE Toggle \/ Kill \/ Bridge \/ UNCHANGED vars
    BY <1>1, <1>2 DEF Toggle, Kill, Bridge, TakeTarget, HandleInit, Others, vars, arrays, control
  <1>3. CASE TakeFrame
    <2>1. frame' \in {frame, frame + 1} /\ UNCHANGED <<thread, draft, sent>>
      BY <1>3 DEF TakeFrame
    <2> QED
      BY <1>0, <1>t, <2>1
  <1>4. CASE DirectStep
    <2>1. thread = "none" /\ thread' = "none"
      BY <1>4 DEF DirectStep, ArraysFresh
    <2>2. CASE UNCHANGED <<frame, sent>>
      BY <2>1, <2>2
    <2>3. CASE sent' = [left |-> frame', right |-> frame'] /\ frame' = frame + 1
      <3>1. sent'.left = frame' /\ sent'.right = frame'
        BY <2>3
      <3>2. frame' <= frame'
        BY <2>3, <1>0
      <3> QED
        BY <2>1, <3>1, <3>2
    <2> QED
      BY <1>4, <2>2, <2>3 DEF DirectStep
  <1>5. CASE Construct
    <2>1. UNCHANGED <<frame, draft, sent>> /\ thread' \in {thread, "born", "none"}
      BY <1>5 DEF Construct, arrays
    <2> QED
      BY <2>1
  <1>6. CASE Worker /\ ~TakeFrame /\ ~DirectStep /\ ~Construct
    <2>1. UNCHANGED <<frame, thread, draft, sent>>
      BY <1>6 DEF Worker, Poll, InitRequested, RobotService, Arm, Call, InitReturns, Build, Idle,
            LeftPose, RightPose, Gone, arrays, control
    <2> QED
      BY <1>1, <2>1
  <1>7. CASE Control
    <2>0. /\ ~direct /\ hybrid.frame = frame /\ left >= frame - 1 /\ right >= frame - 1
          /\ left <= frame /\ right <= frame
      <3>1. thread # "none"
        BY <1>7 DEF Control, Start, ReadLeft, ReadRight, ReadClose, ReadMotor, Check, Send,
            ThreadStops, Alive
      <3> QED
        BY <1>0, <3>1 DEF ArraysFresh
    <2>f. frame' = frame
      BY <1>7 DEF Control, Start, ReadLeft, ReadRight, ReadClose, ReadMotor, Check, Send,
            ThreadStops, Others, arrays
    <2>1. CASE ReadLeft
      <3>1. CASE running
        <4>1. draft' = [left |-> left, right |-> 0] /\ thread' = "right" /\ sent' = sent
          BY <2>1, <3>1 DEF ReadLeft
        <4>2. draft'.left = left /\ draft'.right = 0
          BY <4>1
        <4> QED
          BY <1>0, <2>0, <2>f, <4>1, <4>2
      <3>2. CASE ~running
        <4>1. thread' = "stopping" /\ sent' = sent
          BY <2>1, <3>2 DEF ReadLeft
        <4> QED
          BY <2>f, <4>1
      <3> QED
        BY <3>1, <3>2
    <2>2. CASE ReadRight
      <3>1. thread = "right" /\ thread' = "close" /\ sent' = sent
            /\ draft' = [draft EXCEPT !.right = right]
        BY <2>2 DEF ReadRight, Alive
      <3>2. draft'.left = draft.left /\ draft'.right = right
        BY <1>t, <3>1 DEF TypeOK, Target
      <3> QED
        BY <1>0, <1>t, <2>0, <2>f, <3>1, <3>2
    <2>3. ASSUME NEW source, Prefer(source), thread \in {"close", "motor"},
                 thread' \in {"motor", "check"}, sent' = sent
          PROVE  DraftFresh'
      <3>1. CASE draft' = draft
        BY <2>3, <2>f, <3>1
      <3>2. CASE draft' = [left |-> hybrid.frame, right |-> hybrid.frame]
        <4>1. draft'.left = frame /\ draft'.right = frame
          BY <2>0, <3>2
        <4> QED
          BY <1>0, <2>3, <2>f, <4>1
      <3> QED
        BY <2>3, <3>1, <3>2 DEF Prefer
    <2>4. CASE ReadClose \/ ReadMotor
      BY <2>3, <2>4 DEF ReadClose, ReadMotor, Alive
    <2>5. CASE Check
      <3>1. sent' = sent /\ (thread' = "read" \/ (thread = "check" /\ thread' = "send" /\ draft' = draft))
        BY <2>5 DEF Check, Alive
      <3> QED
        BY <2>f, <3>1
    <2>6. CASE Send
      <3>1. thread = "send" /\ thread' = "read" /\ sent' = draft
        BY <2>6 DEF Send, Alive
      <3> QED
        BY <2>f, <3>1
    <2>7. CASE Start \/ ThreadStops
      <3>1. sent' = sent /\ thread' \in {"read", "ended"}
        BY <2>7 DEF Start, ThreadStops
      <3> QED
        BY <2>f, <3>1
    <2> QED
      BY <1>7, <2>1, <2>2, <2>4, <2>5, <2>6, <2>7 DEF Control
  <1> QED
    BY <1>2, <1>3, <1>4, <1>5, <1>6, <1>7 DEF Next

LEMMA DraftStaysFresh == Spec => []DraftFresh
  <1>1. Init => DraftFresh
    BY DEF Init, DraftFresh
  <1> QED
    BY <1>1, DraftStep, ArraysStayFresh, Typing, PTL DEF Spec

\* A target sent is not made from frames more than one older than those of the
\* target before it.
THEOREM NoFallingBack == Spec => TargetsForward
  <1>1. TypeOK /\ ArraysFresh /\ DraftFresh /\ [Next]_vars
          => [sent' # None => OneBack("left") /\ OneBack("right")]_sent
    <2> SUFFICES ASSUME TypeOK, ArraysFresh, DraftFresh, [Next]_vars, sent' # sent
                 PROVE  OneBack("left") /\ OneBack("right")
      OBVIOUS
    <2>1. Send \/ DirectStep
      BY DEF Next, Toggle, Worker, Poll, InitRequested, RobotService, Arm, Call, InitReturns,
             Build, Construct, Idle, TakeFrame, LeftPose, RightPose, Gone, Kill, Control, Start,
             ReadLeft, ReadRight, ReadClose, ReadMotor, Check, ThreadStops, Bridge, TakeTarget,
             HandleInit, control, vars
    <2>2. ASSUME sent # None
          PROVE  sent'.left >= sent.left - 1 /\ sent'.right >= sent.right - 1
      <3>1. CASE Send
        BY <2>2, <3>1 DEF Send, Alive, DraftFresh
      <3>2. CASE DirectStep
        <4>1. sent' = [left |-> frame', right |-> frame'] /\ frame' = frame + 1
          BY <3>2 DEF DirectStep
        <4>2. sent'.left = frame + 1 /\ sent'.right = frame + 1
          BY <4>1
        <4>3. frame \in Int /\ sent.left \in Int /\ sent.right \in Int
          BY <2>2 DEF TypeOK, Frame, Target
        <4> QED
          BY <2>2, <4>2, <4>3 DEF DraftFresh
      <3> QED
        BY <2>1, <3>1, <3>2
    <2> QED
      BY <2>2 DEF OneBack
  <1> QED
    BY <1>1, DraftStaysFresh, ArraysStayFresh, Typing, PTL DEF Spec, TargetsForward
==============================================================================
