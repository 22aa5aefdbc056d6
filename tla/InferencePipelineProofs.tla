----------------------- MODULE InferencePipelineProofs -----------------------
(***************************************************************************)
(* Proofs about InferencePipeline, for every length of the stride and every *)
(* bound: its types, and that the playback implements ChunkPlayer.          *)
(***************************************************************************)
EXTENDS InferencePipeline, TLAPS

LEMMA CappedInRange ==
  ASSUME NEW bound \in Nat, NEW n \in 0..bound
  PROVE  Capped(n, bound) \in 0..bound /\ Capped(n, bound) >= n
  BY DEF Capped

LEMMA RenumberInRange ==
  ASSUME BoundsAssumption, NEW n \in 0..MaxSeq
  PROVE  Renumber(n) \in 0..MaxSeq
  BY DEF Renumber, BoundsAssumption

\* The first numbers are in the bounds.
LEMMA Zero ==
  ASSUME BoundsAssumption
  PROVE  0 \in Steps /\ 0 \in Runs /\ 0 \in 0..MaxSeq
  BY DEF Steps, Runs, BoundsAssumption

\* Setting fields of the record of a worker keeps its type.
LEMMA SetFlags ==
  ASSUME NEW r \in Inference, NEW p \in Steps \cup {NoStep},
         NEW flag \in BOOLEAN, NEW reset \in BOOLEAN
  PROVE  [r EXCEPT !.flag = flag, !.reset = reset, !.pending = p] \in Inference
  BY DEF Inference

LEMMA SetCounters ==
  ASSUME NEW r \in Inference, BoundsAssumption
  PROVE  [r EXCEPT !.step = 0, !.seq = 0, !.idle = FALSE] \in Inference
  BY Zero DEF Inference

LEMMA SetPlayer ==
  ASSUME NEW r \in Optimizer, NEW active \in BOOLEAN, BoundsAssumption
  PROVE  [r EXCEPT !.active = active, !.step = 0] \in Optimizer
  BY Zero DEF Optimizer

LEMMA TypeInit == Init => TypeOK
  <1> USE BoundsAssumption DEF BoundsAssumption
  <1> SUFFICES ASSUME Init PROVE TypeOK
    OBVIOUS
  <1>1. inf \in Inference /\ infSlow.at = "tick" /\ infSlow.start \in Steps /\ infSlow.run \in Runs
    BY DEF Init, Inference, Idle, Steps, Runs, NoStep
  <1>2. opt \in Optimizer
    BY DEF Init, Optimizer, Steps, Runs
  <1>3. NoResult \in Result
    BY DEF NoResult, Result, Steps, Runs
  <1> QED
    BY <1>1, <1>2, <1>3 DEF Init, TypeOK, Idle, Steps, Runs, Chunks

\* What the inference worker's slow thread does keeps the types.
LEMMA TypeInferenceSlow == TypeOK /\ InferenceSlow => TypeOK'
  <1> USE BoundsAssumption DEF BoundsAssumption, Steps, Runs, NoStep
  <1> SUFFICES ASSUME TypeOK, InferenceSlow PROVE TypeOK'
    OBVIOUS
  <1>0. Idle("tick") \in [at : {"tick"}, start : Steps, run : Runs]
    BY DEF Idle
  <1>1. CASE SlowTick
    BY <1>1 DEF SlowTick, InfSlow, Idle, TypeOK, optVars
  <1>2. CASE SlowDrop
    <2>1. (inf.mixed \/ inf.active) \in BOOLEAN
      OBVIOUS
    <2>2. inf' \in Inference
      BY <1>2, <2>1 DEF SlowDrop, TypeOK, Inference
    <2> QED
      BY <1>2, <2>2 DEF SlowDrop, InfSlow, Idle, TypeOK, optVars
  <1>3. CASE SlowReset
    <2>1. inf' \in Inference
      BY <1>3 DEF SlowReset, TypeOK, Inference
    <2> QED
      BY <1>3, <2>1 DEF SlowReset, InfSlow, Idle, TypeOK, optVars
  <1>4. CASE SlowUnasked
    BY <1>4 DEF SlowUnasked, InfSlow, Idle, TypeOK, optVars
  <1>5. CASE SlowBegin
    BY <1>5 DEF SlowBegin, TypeOK, optVars, Inference
  <1>6. CASE SlowWrite
    <2>1. Capped(inf.seq, MaxSeq) \in 0..MaxSeq
      BY CappedInRange DEF TypeOK, Inference
    <2>2. inf' \in Inference
      BY <1>6, <2>1 DEF SlowWrite, TypeOK, Inference
    <2>3. shm' \in Result
      BY <1>6, <2>1 DEF SlowWrite, TypeOK, Result
    <2>4. Renumber(opt.seen) \in 0..MaxSeq /\ Renumber(optSlow.result.seq) \in 0..MaxSeq
      BY RenumberInRange DEF TypeOK, Optimizer, Result
    <2>5. opt' \in Optimizer
      BY <1>6, <2>4 DEF SlowWrite, TypeOK, Optimizer
    <2>6. optSlow' \in [at : {"tick", "solve", "mark"}, result : Result]
      BY <1>6, <2>4 DEF SlowWrite, TypeOK, Result
    <2> QED
      BY <1>6, <2>2, <2>3, <2>5, <2>6 DEF SlowWrite, TypeOK, Idle
  <1>7. CASE SlowLower
    <2>1. inf' \in Inference
      BY <1>7 DEF SlowLower, TypeOK, Inference
    <2> QED
      BY <1>7, <2>1 DEF SlowLower, InfSlow, Idle, TypeOK, optVars
  <1>8. CASE SlowForget
    <2>1. \A last \in BOOLEAN : (inf.idle \/ last) \in BOOLEAN
      OBVIOUS
    <2>2. inf' \in Inference
      BY <1>8, <2>1, DatasetAssumption DEF SlowForget, TypeOK, Inference, DatasetAssumption
    <2> QED
      BY <1>8, <2>2 DEF SlowForget, InfSlow, Idle, TypeOK, optVars
  <1>9. CASE SlowFails
    <2>1. inf' \in Inference
      BY <1>9 DEF SlowFails, TypeOK, Inference
    <2> QED
      BY <1>9, <2>1 DEF SlowFails, InfSlow, Idle, TypeOK, optVars
  <1> QED
    BY <1>1, <1>2, <1>3, <1>4, <1>5, <1>6, <1>7, <1>8, <1>9 DEF InferenceSlow

\* What its fast thread does keeps the types.
LEMMA TypeInferenceFast == TypeOK /\ InferenceFast => TypeOK'
  <1> USE BoundsAssumption DEF BoundsAssumption, Steps, Runs, NoStep
  <1> SUFFICES ASSUME TypeOK, InferenceFast PROVE TypeOK'
    OBVIOUS
  <1>0. ResetInference \in Inference
    <2>1. [inf EXCEPT !.flag = FALSE, !.reset = FALSE, !.pending = NoStep] \in Inference
      BY SetFlags DEF TypeOK
    <2> QED
      BY <2>1, SetCounters DEF ResetInference
  <1>1. CASE FastLeave
    BY <1>0, <1>1 DEF FastLeave, InfFast, TypeOK, optVars, Inference
  <1>2. CASE FastEnter
    BY <1>0, <1>2 DEF FastEnter, InfFast, TypeOK, optVars, Inference
  <1>3. CASE FastClear
    BY <1>3 DEF FastClear, InfFast, TypeOK, optVars, NoResult, Result
  <1>4. CASE FastRequest
    <2>1. (inf.mixed \/ infSlow.at # "tick") \in BOOLEAN
      OBVIOUS
    <2>2. inf' \in Inference
      <3> HIDE DEF Steps, Runs, NoStep
      <3>1. inf \in Inference
        BY DEF TypeOK
      <3> QED
        BY <1>4, <2>1, <3>1, Zero DEF FastRequest, Inference
    <2> QED
      BY <1>4, <2>2 DEF FastRequest, InfFast, TypeOK, optVars
  <1>5. CASE FastStep
    <2>1. Capped(inf.step, MaxStep) \in 0..MaxStep
      BY CappedInRange DEF TypeOK, Inference
    <2>2. inf' \in Inference
      BY <1>5, <2>1 DEF FastStep, TypeOK, Inference
    <2> QED
      BY <1>5, <2>2 DEF FastStep, InfFast, TypeOK, optVars
  <1> QED
    BY <1>1, <1>2, <1>3, <1>4, <1>5 DEF InferenceFast

\* What the optimizer does keeps the types.
LEMMA TypeOptimizer == TypeOK /\ (OptimizerSlow \/ OptimizerFast) => TypeOK'
  <1> USE BoundsAssumption DEF BoundsAssumption, Steps, Runs, NoStep, infVars
  <1> SUFFICES ASSUME TypeOK, OptimizerSlow \/ OptimizerFast PROVE TypeOK'
    OBVIOUS
  <1>0. NoResult \in Result /\ optSlow.result \in Result
    BY DEF NoResult, Result, TypeOK
  <1>1. CASE PollResult
    <2>1. Lowered(shm, opt.seen) \in 0..MaxSeq /\ shm.seq \in 0..MaxSeq
      BY DEF Lowered, TypeOK, Result, Optimizer
    <2>2. opt' \in Optimizer
      BY <1>1, <2>1 DEF PollResult, TypeOK, Optimizer
    <2>3. optSlow' \in [at : {"tick", "solve", "mark"}, result : Result]
      BY <1>1 DEF PollResult, TypeOK
    <2> QED
      BY <1>1, <2>2, <2>3 DEF PollResult, TypeOK
  <1>2. CASE Stage
    <2>1. [start |-> optSlow.result.start, run |-> optSlow.result.run] \in Chunks
      BY <1>0 DEF Result, Chunk, Chunks
    <2>2. current' \in Chunks /\ next' \in Chunks
      BY <1>2, <2>1 DEF Stage, TypeOK, Chunks
    <2> QED
      BY <1>0, <1>2, <2>2 DEF Stage, OptSlow, TypeOK
  <1>3. CASE MarkSeen
    BY <1>0, <1>3 DEF MarkSeen, OptSlow, TypeOK, Optimizer, Result
  <1>4. CASE PlayerLeaves
    <2>1. opt' \in Optimizer
      BY <1>4, SetPlayer DEF PlayerLeaves, TypeOK
    <2> QED
      BY <1>4, <2>1 DEF PlayerLeaves, OptFast, DropChunks, TypeOK, Chunks
  <1>5. CASE PlayerEnters
    <2>1. UnderWay \in BOOLEAN
      BY DEF UnderWay
    <2>2. opt' \in Optimizer
      <3>1. [opt EXCEPT !.active = TRUE, !.step = 0] \in Optimizer
        BY SetPlayer DEF TypeOK
      <3>2. toggles \in 0..MaxToggles
        BY DEF TypeOK
      <3> QED
        BY <1>5, <2>1, <3>1, <3>2 DEF PlayerEnters, Optimizer
    <2> QED
      BY <1>5, <2>2 DEF PlayerEnters, OptFast, DropChunks, TypeOK, Chunks
  <1>6. CASE ReadSeq
    BY <1>6 DEF ReadSeq, OptFast, TypeOK, Optimizer, Result
  <1>7. CASE Play
    <2>1. Capped(opt.step, MaxStep) \in 0..MaxStep
      BY CappedInRange DEF TypeOK, Optimizer
    <2>2. opt' \in Optimizer
      BY <1>7, <2>1 DEF Play, TypeOK, Optimizer
    <2>3. current' \in Chunks /\ next' \in Chunks
      BY <1>7 DEF Play, TypeOK, Chunks
    <2> QED
      BY <1>7, <2>2, <2>3 DEF Play, OptFast, TypeOK
  <1> QED
    BY <1>1, <1>2, <1>3, <1>4, <1>5, <1>6, <1>7 DEF OptimizerSlow, OptimizerFast

\* Every field of the two workers and of their block keeps its type.
THEOREM Typing == Spec => []TypeOK
  <1>1. TypeOK /\ [Next]_vars => TypeOK'
    <2> SUFFICES ASSUME TypeOK, [Next]_vars PROVE TypeOK'
      OBVIOUS
    <2>1. CASE Toggle
      BY <2>1, BoundsAssumption DEF Toggle, TypeOK, infVars, optVars, Runs, BoundsAssumption
    <2>2. CASE UNCHANGED vars
      BY <2>2 DEF vars, TypeOK
    <2> QED
      BY <2>1, <2>2, TypeInferenceSlow, TypeInferenceFast, TypeOptimizer DEF Next
  <1> QED
    BY <1>1, TypeInit, PTL DEF Spec

\* A chunk is there exactly when it has a first step.
LEMMA ChunkStarts ==
  ASSUME TypeOK
  PROVE  /\ current.start \in Nat \cup {NoStep} /\ next.start \in Nat \cup {NoStep}
         /\ current = NoChunk <=> current.start = NoStep
         /\ next = NoChunk <=> next.start = NoStep
  BY BoundsAssumption DEF TypeOK, Chunks, Chunk, NoChunk, Steps, NoStep, BoundsAssumption

\* The playback of the optimizer, with its two threads and its second look
\* after the solver, implements ChunkPlayer.
THEOREM Playback == Spec => PlaysForward
  <1> USE DEF NoStep, Player!Nothing
  <1>1. Init => Player!Init
    BY DEF Init, Player!Init, NoChunk
  <1>2. TypeOK /\ [Next]_vars => [Player!Next]_<<current.start, next.start>>
    <2> SUFFICES ASSUME TypeOK, [Next]_vars
                 PROVE  Player!Next \/ UNCHANGED <<current.start, next.start>>
      BY DEF Player!Next
    <2>1. CASE UNCHANGED <<current, next>>
      BY <2>1
    <2>2. CASE Stage
      <3>1. optSlow.result.start \in Nat
        BY BoundsAssumption DEF TypeOK, Result, Steps, BoundsAssumption
      <3>2. CASE current = NoChunk
        <4>1. current'.start = optSlow.result.start /\ next'.start = NoStep
          BY <2>2, <3>2 DEF Stage, NoChunk
        <4> QED
          BY <3>1, <3>2, <4>1, ChunkStarts DEF Player!Next, Player!Take
      <3>3. CASE current # NoChunk /\ Fits(optSlow.result.start)
        <4>1. current'.start = current.start /\ next'.start = optSlow.result.start
          BY <2>2, <3>3 DEF Stage
        <4> QED
          BY <3>1, <3>3, <4>1, ChunkStarts DEF Fits, Player!Next, Player!Queue
      <3>4. CASE current # NoChunk /\ ~Fits(optSlow.result.start)
        BY <2>2, <3>4 DEF Stage
      <3> QED
        BY <3>2, <3>3, <3>4
    <2>3. CASE DropChunks
      BY <2>3 DEF DropChunks, NoChunk, Player!Next, Player!Clear
    <2>4. CASE Play
      <3>1. CASE next # NoChunk /\ current' = next /\ next' = NoChunk
        BY <3>1, ChunkStarts DEF NoChunk, Player!Next, Player!TakeOver
      <3> QED
        BY <2>1, <2>4, <3>1 DEF Play
    <2>5. InferenceSlow \/ InferenceFast \/ Toggle => UNCHANGED <<current, next>>
      BY DEF InferenceSlow, InferenceFast, Toggle, SlowTick, SlowDrop, SlowReset, SlowUnasked,
        SlowBegin, SlowWrite, SlowLower, SlowForget, SlowFails, InfSlow, FastLeave, FastEnter,
        FastClear, FastRequest, FastStep, InfFast, optVars
    <2>6. OptimizerSlow => Stage \/ UNCHANGED <<current, next>>
      BY DEF OptimizerSlow, PollResult, MarkSeen
    <2>7. OptimizerFast => DropChunks \/ Play \/ UNCHANGED <<current, next>>
      BY DEF OptimizerFast, PlayerLeaves, PlayerEnters, ReadSeq
    <2> QED
      BY <2>1, <2>2, <2>3, <2>4, <2>5, <2>6, <2>7 DEF Next, vars
  <1> QED
    BY <1>1, <1>2, Typing, PTL DEF Spec, PlaysForward, Player!Spec

------------------------------------------------------------------------------
(* The policy of a RUN.                                                     *)

\* An inference is asked for only in a RUN the fast thread has entered, and
\* not before FastRequest.
Asked ==
  /\ inf.flag => inf.active
  /\ infFast = "leave" => ~inf.active
  /\ infFast \in {"enter", "request"} => inf.active
  /\ infFast \in {"enter", "request"} => ~inf.flag

\* From FastRequest on, the policy is reset or going to be, and is reset once
\* the slow thread has passed SlowReset.
Refreshed ==
  /\ infFast = "tick" /\ inf.active => inf.reset \/ inf.policy = inf.session
  /\ infFast = "tick" /\ inf.active /\ infSlow.at = "begin" => inf.policy = inf.session
  /\ infSlow.at = "infer" /\ infSlow.run = inf.session => inf.policy = inf.session

PolicyInv == Asked /\ (~inf.mixed => Refreshed)

LEMMA PolicyStep == TypeOK /\ PolicyInv /\ [Next]_vars => PolicyInv'
  <1> SUFFICES ASSUME TypeOK, PolicyInv, [Next]_vars PROVE PolicyInv'
    OBVIOUS
  <1> USE DEF PolicyInv, Asked, Refreshed
  <1>0. inf \in Inference
    BY DEF TypeOK
  <1>1. CASE UNCHANGED <<inf, infSlow, infFast>>
    BY <1>1
  <1>2. CASE SlowTick
    BY <1>2 DEF SlowTick, InfSlow, Idle
  <1>3. CASE SlowDrop
    BY <1>0, <1>3 DEF SlowDrop, InfSlow, Idle, Inference
  <1>4. CASE SlowReset
    BY <1>0, <1>4 DEF SlowReset, InfSlow, Idle, Inference
  <1>5. CASE SlowUnasked
    BY <1>5 DEF SlowUnasked, InfSlow, Idle
  <1>6. CASE SlowBegin
    <2>1. infFast = "tick" /\ inf.active
      BY <1>6 DEF SlowBegin, TypeOK
    <2> QED
      BY <1>6, <2>1 DEF SlowBegin
  <1>7. CASE SlowWrite
    BY <1>0, <1>7 DEF SlowWrite, Idle, Inference
  <1>8. CASE SlowLower
    BY <1>0, <1>8 DEF SlowLower, InfSlow, Idle, Inference
  <1>9. CASE SlowForget
    BY <1>0, <1>9 DEF SlowForget, InfSlow, Idle, Inference
  <1>10. CASE SlowFails
    BY <1>0, <1>10 DEF SlowFails, InfSlow, Idle, Inference
  <1>11. CASE FastLeave
    BY <1>0, <1>11 DEF FastLeave, InfFast, ResetInference, Inference
  <1>12. CASE FastEnter
    BY <1>0, <1>12 DEF FastEnter, InfFast, ResetInference, Inference
  <1>13. CASE FastClear
    BY <1>13 DEF FastClear, InfFast
  <1>14. CASE FastRequest
    <2>1. /\ inf'.reset = TRUE /\ inf'.active = inf.active /\ inf'.policy = inf.policy
          /\ inf'.session = inf.session /\ infFast' = "tick" /\ infSlow' = infSlow
          /\ infFast = "request" /\ inf'.flag = TRUE
      BY <1>0, <1>14 DEF FastRequest, InfFast, Inference
    <2>2. ~inf'.mixed => ~inf.mixed /\ infSlow.at = "tick"
      BY <1>0, <1>14 DEF FastRequest, InfFast, Inference
    <2>3. inf.active
      BY <2>1
    <2> QED
      BY <2>1, <2>2, <2>3
  <1>15. CASE FastStep
    BY <1>0, <1>15 DEF FastStep, InfFast, Inference
  <1>16. Toggle \/ OptimizerSlow \/ OptimizerFast => UNCHANGED <<inf, infSlow, infFast>>
    BY DEF Toggle, OptimizerSlow, OptimizerFast, PollResult, Stage, MarkSeen, OptSlow,
      PlayerLeaves, PlayerEnters, ReadSeq, Play, OptFast, infVars
  <1> QED
    BY <1>1, <1>2, <1>3, <1>4, <1>5, <1>6, <1>7, <1>8, <1>9, <1>10, <1>11, <1>12, <1>13,
      <1>14, <1>15, <1>16 DEF Next, InferenceSlow, InferenceFast, vars

\* An inference uses a policy reset on the entry of its RUN.
THEOREM FreshPolicy == Spec => []PolicyFresh
  <1>1. Init => PolicyInv
    BY DEF Init, PolicyInv, Asked, Refreshed, Idle
  <1>2. PolicyInv => PolicyFresh
    BY DEF PolicyInv, Refreshed, PolicyFresh
  <1> QED
    BY <1>1, <1>2, PolicyStep, Typing, PTL DEF Spec

------------------------------------------------------------------------------
(* Chunks of an earlier RUN.                                                *)

Old(run) == run < opt.session

\* Unless something was under way at the entry, everything on the way to the
\* player belongs to its RUN or a later one; an old result may lie in the block,
\* and then its number has been seen.
OnlyNew ==
  /\ current # NoChunk => ~Old(current.run)
  /\ next # NoChunk => ~Old(next.run)
  /\ optSlow.at # "tick" => ~Old(optSlow.result.run)
  /\ infSlow.at = "infer" => ~Old(infSlow.run)
  /\ inf.active => ~Old(inf.session)
  /\ shm.valid /\ Old(shm.run) => shm.seq = opt.seen /\ optSlow.at = "tick"

StaleInv == Asked /\ opt.session <= toggles /\ (~opt.mixed => OnlyNew)

LEMMA StaleStep == TypeOK /\ PolicyInv /\ StaleInv /\ [Next]_vars => StaleInv'
  <1> SUFFICES ASSUME TypeOK, PolicyInv, StaleInv, [Next]_vars PROVE StaleInv'
    OBVIOUS
  <1> USE DEF StaleInv, OnlyNew, Old
  <1>0. /\ inf \in Inference /\ opt \in Optimizer /\ shm \in Result
        /\ toggles \in Nat /\ opt.session \in Nat
    BY BoundsAssumption DEF TypeOK, Optimizer, Runs, BoundsAssumption
  <1>a. Asked'
    BY PolicyStep DEF PolicyInv
  <1>1. CASE UNCHANGED vars
    BY <1>1 DEF vars, Asked
  <1>2. CASE Toggle
    BY <1>0, <1>2, <1>a DEF Toggle, infVars, optVars
  <1>3. CASE SlowTick \/ SlowDrop \/ SlowReset \/ SlowUnasked \/ SlowLower \/ SlowForget \/ SlowFails
    <2>1. /\ UNCHANGED <<shm, opt, optSlow, current, next, toggles>>
          /\ inf'.active = inf.active /\ inf'.session = inf.session /\ infSlow'.at # "infer"
      <3> HIDE DEF StaleInv, OnlyNew
      <3>1. UNCHANGED <<shm, opt, optSlow, current, next, toggles>> /\ infSlow'.at # "infer"
        BY <1>3 DEF SlowTick, SlowDrop, SlowReset, SlowUnasked, SlowLower, SlowForget,
          SlowFails, InfSlow, Idle, optVars
      <3>2. ASSUME SlowForget
            PROVE  inf'.active = inf.active /\ inf'.session = inf.session
        BY <1>0, <3>2 DEF SlowForget, Inference
      <3>3. CASE SlowTick \/ SlowUnasked
        BY <3>1, <3>3 DEF SlowTick, SlowUnasked
      <3>4. CASE SlowDrop
        BY <1>0, <3>1, <3>4 DEF SlowDrop, Inference
      <3>5. CASE SlowReset
        BY <1>0, <3>1, <3>5 DEF SlowReset, Inference
      <3>6. CASE SlowLower \/ SlowFails
        BY <1>0, <3>1, <3>6 DEF SlowLower, SlowFails, Inference
      <3> QED
        BY <1>3, <3>1, <3>2, <3>3, <3>4, <3>5, <3>6
    <2> QED
      BY <2>1, <1>a
  <1>4. CASE SlowBegin
    BY <1>4, <1>a DEF SlowBegin, Asked, optVars
  <1>5. CASE SlowWrite
    <2>1. /\ shm'.run = infSlow.run /\ UNCHANGED <<current, next, toggles>>
          /\ inf'.active = inf.active /\ inf'.session = inf.session /\ infSlow'.at # "infer"
          /\ infSlow.at = "infer"
      BY <1>0, <1>5 DEF SlowWrite, Inference, Idle
    <2>2. /\ opt'.session = opt.session /\ opt'.mixed = opt.mixed
      BY <1>0, <1>5 DEF SlowWrite, Optimizer
    <2>3. optSlow'.at = optSlow.at /\ optSlow'.result.run = optSlow.result.run
      BY <1>5 DEF SlowWrite, TypeOK, Result
    <2> QED
      BY <1>a, <2>1, <2>2, <2>3
  <1>6. CASE InferenceFast
    <2>1. /\ UNCHANGED <<opt, optSlow, current, next, toggles, infSlow>>
          /\ shm' = shm \/ shm' = NoResult
      BY <1>6 DEF InferenceFast, FastLeave, FastEnter, FastClear, FastRequest, FastStep, InfFast,
        optVars
    <2>2. inf'.active => \/ inf.active /\ inf'.session = inf.session
                         \/ inf'.session = toggles
      BY <1>0, <1>6 DEF InferenceFast, FastLeave, FastEnter, FastClear, FastRequest, FastStep,
        ResetInference, Inference
    <2> QED
      BY <1>0, <1>a, <2>1, <2>2 DEF NoResult
  <1>7. CASE PollResult
    BY <1>0, <1>7, <1>a DEF PollResult, Lowered, infVars, Optimizer, Result
  <1>8. CASE Stage
    BY <1>8, <1>a DEF Stage, OptSlow, infVars, TypeOK
  <1>9. CASE MarkSeen
    BY <1>0, <1>9, <1>a DEF MarkSeen, OptSlow, infVars, Optimizer
  <1>10. CASE PlayerLeaves
    BY <1>0, <1>10, <1>a DEF PlayerLeaves, OptFast, DropChunks, infVars, Optimizer
  <1>11. CASE PlayerEnters
    BY <1>0, <1>11, <1>a DEF PlayerEnters, UnderWay, OptFast, DropChunks, infVars, Optimizer
  <1>12. CASE ReadSeq
    BY <1>0, <1>12, <1>a DEF ReadSeq, OptFast, infVars, Optimizer
  <1>13. CASE Play
    BY <1>0, <1>13, <1>a DEF Play, OptFast, infVars, Optimizer
  <1> QED
    BY <1>1, <1>2, <1>3, <1>4, <1>5, <1>6, <1>7, <1>8, <1>9, <1>10, <1>11, <1>12, <1>13
      DEF Next, InferenceSlow, OptimizerSlow, OptimizerFast

\* When an old chunk may be played.
THEOREM StaleChunks == Spec => []StaleScope
  <1>1. Init => PolicyInv /\ StaleInv
    BY DEF Init, PolicyInv, Asked, Refreshed, Idle, StaleInv, OnlyNew, Old, NoResult
  <1>2. StaleInv => StaleScope
    BY DEF StaleInv, OnlyNew, Old, StaleScope, Stale
  <1> QED
    BY <1>1, <1>2, PolicyStep, StaleStep, Typing, PTL DEF Spec
==============================================================================
