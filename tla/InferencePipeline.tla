-------------------------- MODULE InferencePipeline --------------------------
(***************************************************************************)
(* From the policy to the commanded pose: an inference worker (LeRobot or   *)
(* OpenPI) and the optimizer that plays its action chunks.  Each is a       *)
(* process with a slow and a fast thread that share fields without a lock;  *)
(* the two processes share one block, inference_result_shm.  Both enter and *)
(* leave RUN by their own polls of the levels, at their own time, and       *)
(* numbers of steps and results begin anew with every RUN.                  *)
(*                                                                          *)
(* A thread polls and reads the mode it polled at once; each later action   *)
(* of the thread is one access to a field or to the block.                  *)
(***************************************************************************)
EXTENDS Integers

CONSTANTS
  Dataset,       \* is a dataset that does not loop replayed as observation?
  Stride,        \* _bundle_request_stride(): length of a chunk less its blending
  MaxToggles,    \* bound: how often RUN is entered or left
  MaxStep,       \* bound: steps are counted up to here
  MaxSeq         \* bound: results are numbered up to here, then renumbered

ASSUME StrideAssumption == Stride \in Nat \ {0}
ASSUME DatasetAssumption == Dataset \in BOOLEAN
ASSUME BoundsAssumption ==
  MaxToggles \in Nat /\ MaxStep \in Nat /\ MaxSeq \in Nat \ {0}

VARIABLES
  start,      \* do the levels say RUN?
  toggles,    \* how often that changed; the number of the present RUN
  inf,        \* fields of the inference worker
  infSlow, infFast,     \* its threads: place and locals
  shm,        \* inference_result_shm
  opt,        \* fields of the optimizer
  optSlow, optFast,     \* its threads
  current, next         \* current_bundle, next_bundle

vars == <<start, toggles, inf, infSlow, infFast, shm,
          opt, optSlow, optFast, current, next>>
infVars == <<inf, infSlow, infFast>>
optVars == <<opt, optSlow, optFast, current, next>>

Steps == 0..MaxStep
Runs == 0..MaxToggles
NoStep == -1

\* A chunk: its first step and, as history, the RUN it was inferred for.
Chunk == [start : Steps, run : Runs]
NoChunk == [start |-> NoStep, run |-> 0]
Chunks == Chunk \cup {NoChunk}

Result == [seq : 0..MaxSeq, valid : BOOLEAN, start : Steps, run : Runs]
NoResult == [seq |-> 0, valid |-> FALSE, start |-> 0, run |-> 0]

Inference ==
  [active : BOOLEAN,              \* _run_mode_active
   flag : BOOLEAN,                \* flag_inference
   reset : BOOLEAN,               \* _pending_policy_reset
   pending : Steps \cup {NoStep}, \* _pending_request_step
   step : Steps, seq : 0..MaxSeq, \* step_counter, _result_seq
   idle : BOOLEAN,                \* dataset_idle_after_completion
   session : Runs, policy : Runs, \* history: RUN entered last, RUN of the policy's reset
   mixed : BOOLEAN]               \* history: see PolicyFresh

Optimizer ==
  [active : BOOLEAN, step : Steps,
   seen : 0..MaxSeq,              \* _last_seen_result_seq
   session : Runs,                \* history: RUN entered last
   mixed : BOOLEAN]               \* history: a result was under way at the entry

TypeOK ==
  /\ start \in BOOLEAN /\ toggles \in Runs
  /\ inf \in Inference
  /\ infSlow \in [at : {"tick", "drop", "check", "begin", "infer", "lower", "forget"},
                  start : Steps, run : Runs]
  /\ infFast \in {"tick", "leave", "enter", "request"}
  /\ shm \in Result
  /\ opt \in Optimizer
  /\ optSlow \in [at : {"tick", "solve", "mark"}, result : Result]
  /\ optFast \in {"tick", "leave", "enter", "play"}
  /\ current \in Chunks /\ next \in Chunks

Idle(at) == [at |-> at, start |-> 0, run |-> 0]

Init ==
  /\ start = FALSE /\ toggles = 0
  /\ inf = [active |-> FALSE, flag |-> FALSE, reset |-> FALSE, pending |-> NoStep,
            step |-> 0, seq |-> 0, idle |-> FALSE,
            session |-> 0, policy |-> 0, mixed |-> FALSE]
  /\ infSlow = Idle("tick") /\ infFast = "tick"
  /\ shm = NoResult
  /\ opt = [active |-> FALSE, step |-> 0, seen |-> 0, session |-> 0, mixed |-> FALSE]
  /\ optSlow = [at |-> "tick", result |-> NoResult] /\ optFast = "tick"
  /\ current = NoChunk /\ next = NoChunk

Capped(n, bound) == IF n < bound THEN n + 1 ELSE n

\* The operator: start, pause, home.
Toggle ==
  /\ toggles < MaxToggles
  /\ start' = ~start /\ toggles' = toggles + 1
  /\ UNCHANGED <<infVars, shm, optVars>>

------------------------------------------------------------------------------
(* Inference worker, slow thread: do_slow(), run_inference_once().          *)

InfSlow(from, to) ==
  /\ infSlow.at = from /\ infSlow' = Idle(to)
  /\ UNCHANGED <<start, toggles, infFast, optVars>>

SlowTick ==
  /\ IF start THEN ~inf.idle /\ InfSlow("tick", "check") ELSE InfSlow("tick", "drop")
  /\ UNCHANGED <<inf, shm>>

\* The branch of a mode that is not RUN, which another thread may have entered.
SlowDrop ==
  /\ InfSlow("drop", "tick")
  /\ inf' = [inf EXCEPT !.flag = FALSE, !.reset = FALSE, !.mixed = @ \/ inf.active]
  /\ UNCHANGED shm

SlowReset ==
  /\ InfSlow("check", "begin")
  /\ inf' = IF inf.reset THEN [inf EXCEPT !.reset = FALSE, !.policy = inf.session] ELSE inf
  /\ UNCHANGED shm

SlowUnasked ==
  /\ ~inf.flag /\ InfSlow("begin", "tick") /\ UNCHANGED <<inf, shm>>

\* Observations are read, and request_step is taken: FastStep may have come
\* between SlowLower and SlowForget, and left a request without a step.
SlowBegin ==
  /\ infSlow.at = "begin" /\ inf.flag
  /\ infSlow' = [at |-> "infer", run |-> inf.session,
                 start |-> IF inf.pending = NoStep THEN inf.step ELSE inf.pending]
  /\ UNCHANGED <<start, toggles, inf, infFast, shm, optVars>>

\* At the bound a new result stays new: the numbers compared with it move down.
Renumber(n) == IF inf.seq = MaxSeq /\ n > 0 THEN n - 1 ELSE n

\* Variant of SlowWrite: every result is the first.
SlowWriteUncounted ==
  /\ infSlow.at = "infer" /\ infSlow' = Idle("lower")
  /\ shm' = [seq |-> 1, valid |-> TRUE, start |-> infSlow.start, run |-> infSlow.run]
  /\ UNCHANGED <<start, toggles, inf, infFast, optVars>>

\* _write_inference_result()
SlowWrite ==
  /\ infSlow.at = "infer" /\ infSlow' = Idle("lower")
  /\ inf' = [inf EXCEPT !.seq = Capped(@, MaxSeq)]
  /\ shm' = [seq |-> Capped(inf.seq, MaxSeq), valid |-> TRUE,
             start |-> infSlow.start, run |-> infSlow.run]
  /\ opt' = [opt EXCEPT !.seen = Renumber(@)]
  /\ optSlow' = [optSlow EXCEPT !.result.seq = Renumber(@)]
  /\ UNCHANGED <<start, toggles, infFast, optFast, current, next>>

SlowLower ==
  /\ InfSlow("lower", "forget") /\ inf' = [inf EXCEPT !.flag = FALSE]
  /\ UNCHANGED shm

\* With a dataset that does not loop, the frame may have been the last.
SlowForget ==
  /\ InfSlow("forget", "tick")
  /\ \E last \in {FALSE, Dataset} :
       inf' = [inf EXCEPT !.pending = NoStep, !.idle = @ \/ last]
  /\ UNCHANGED shm

\* Reading, inferring or converting raised.
SlowFails ==
  /\ InfSlow("infer", "tick") /\ inf' = [inf EXCEPT !.flag = FALSE]
  /\ UNCHANGED shm

InferenceSlow ==
  \/ SlowTick \/ SlowDrop \/ SlowReset \/ SlowUnasked \/ SlowBegin \/ SlowWrite
  \/ SlowLower \/ SlowForget \/ SlowFails

------------------------------------------------------------------------------
(* Inference worker, fast thread: do_fast(), reset_runtime_buffers().       *)

InfFast(from, to) ==
  /\ infFast = from /\ infFast' = to
  /\ UNCHANGED <<start, toggles, infSlow, optVars>>

ResetInference ==
  [inf EXCEPT !.flag = FALSE, !.reset = FALSE, !.pending = NoStep,
              !.step = 0, !.seq = 0, !.idle = FALSE]

FastLeave ==
  /\ ~start /\ inf.active /\ InfFast("tick", "leave")
  /\ inf' = [ResetInference EXCEPT !.active = FALSE]
  /\ UNCHANGED shm

FastEnter ==
  /\ start /\ ~inf.active /\ ~inf.idle /\ InfFast("tick", "enter")
  /\ inf' = [ResetInference EXCEPT !.active = TRUE, !.session = toggles,
                                   !.mixed = infSlow.at # "tick"]
  /\ UNCHANGED shm

\* _clear_inference_result_shm()
FastClear ==
  /\ \/ InfFast("leave", "tick")
     \/ InfFast("enter", "request")
  /\ shm' = NoResult /\ UNCHANGED inf

\* Variant of FastRequest: the policy keeps what it has queued.
FastRequestOnly ==
  /\ InfFast("request", "tick")
  /\ inf' = [inf EXCEPT !.flag = TRUE, !.pending = 0,
                        !.mixed = @ \/ infSlow.at # "tick"]
  /\ UNCHANGED shm

FastRequest ==
  /\ InfFast("request", "tick")
  /\ inf' = [inf EXCEPT !.reset = TRUE, !.flag = TRUE, !.pending = 0,
                        !.mixed = @ \/ infSlow.at # "tick"]
  /\ UNCHANGED shm

\* inference_dt has passed: the next step, and the next request unless one is
\* being served.
FastStep ==
  /\ start /\ inf.active /\ ~inf.idle /\ InfFast("tick", "tick")
  /\ LET step == Capped(inf.step, MaxStep) IN
       inf' = [inf EXCEPT !.step = step, !.flag = TRUE,
                          !.pending = IF inf.flag THEN @ ELSE step]
  /\ UNCHANGED shm

InferenceFast == FastLeave \/ FastEnter \/ FastClear \/ FastRequest \/ FastStep

------------------------------------------------------------------------------
(* Optimizer, slow thread: _poll_inference_result().                        *)

OptSlow(from, to) ==
  /\ optSlow.at = from
  /\ optSlow' = [at |-> to, result |-> IF to = "tick" THEN NoResult ELSE optSlow.result]
  /\ UNCHANGED <<start, toggles, infVars, shm, optFast>>

\* The numbering has begun anew.
Lowered(result, seen) == IF result.valid /\ result.seq < seen THEN 0 ELSE seen

\* Variant of Fits: only the queued chunk is compared.
FitsQueue(first) == next = NoChunk \/ first < next.start

\* May a chunk that begins at this step be queued?  _minimum_next_start_step_locked()
Fits(first) ==
  /\ first >= current.start + Stride
  /\ next = NoChunk \/ first < next.start

\* _poll_inference_result() up to _should_accept_bundle_start()
PollResult ==
  /\ start /\ optSlow.at = "tick"
  /\ LET seen == Lowered(shm, opt.seen)
         new == shm.valid /\ shm.seq > seen
         accepted == current = NoChunk \/ Fits(shm.start) IN
     /\ opt' = [opt EXCEPT !.seen = IF new /\ ~accepted THEN shm.seq ELSE seen]
     /\ optSlow' = IF new /\ accepted THEN [at |-> "solve", result |-> shm] ELSE optSlow
  /\ UNCHANGED <<start, toggles, infVars, shm, optFast, current, next>>

\* _stage_bundle_for_playback(), after the solver: it looks again.
Stage ==
  /\ OptSlow("solve", "mark")
  /\ LET chunk == [start |-> optSlow.result.start, run |-> optSlow.result.run] IN
       IF current = NoChunk
         THEN current' = chunk /\ next' = NoChunk
         ELSE /\ current' = current
              /\ next' = IF Fits(chunk.start) THEN chunk ELSE next
  /\ UNCHANGED opt

MarkSeen ==
  /\ OptSlow("mark", "tick")
  /\ opt' = [opt EXCEPT !.seen = optSlow.result.seq]
  /\ UNCHANGED <<current, next>>

OptimizerSlow == PollResult \/ Stage \/ MarkSeen

------------------------------------------------------------------------------
(* Optimizer, fast thread: do_fast(), reset_runtime_buffers().              *)

OptFast(from, to) ==
  /\ optFast = from /\ optFast' = to
  /\ UNCHANGED <<start, toggles, infVars, shm, optSlow>>

\* A result inferred for an earlier RUN may still come.
UnderWay ==
  \/ optSlow.at # "tick" \/ infSlow.at # "tick" \/ infFast # "tick"
  \/ inf.active /\ inf.session # toggles
  \/ shm.valid /\ shm.run # toggles /\ shm.seq # opt.seen

\* Variant of DropChunks: the chunks stay.
DropNothing == current' = current /\ next' = next

DropChunks == current' = NoChunk /\ next' = NoChunk

PlayerLeaves ==
  /\ ~start /\ opt.active /\ OptFast("tick", "leave")
  /\ opt' = [opt EXCEPT !.active = FALSE, !.step = 0]
  /\ DropChunks

PlayerEnters ==
  /\ start /\ ~opt.active /\ OptFast("tick", "enter")
  /\ opt' = [opt EXCEPT !.active = TRUE, !.step = 0, !.session = toggles,
                        !.mixed = UnderWay]
  /\ DropChunks

\* _read_inference_seq()
ReadSeq ==
  /\ \/ OptFast("leave", "tick")
     \/ OptFast("enter", "play")
  /\ opt' = [opt EXCEPT !.seen = shm.seq]
  /\ UNCHANGED <<current, next>>

\* The rest of a tick in RUN: a step when inference_dt has passed, then
\* _advance_active_bundle().
Play ==
  /\ \/ OptFast("play", "tick")
     \/ start /\ opt.active /\ OptFast("tick", "tick")
  /\ \E step \in {opt.step, Capped(opt.step, MaxStep)} :
       /\ opt' = [opt EXCEPT !.step = step]
       /\ IF next # NoChunk /\ step >= next.start
            THEN current' = next /\ next' = NoChunk
            ELSE UNCHANGED <<current, next>>

OptimizerFast == PlayerLeaves \/ PlayerEnters \/ ReadSeq \/ Play

Next == Toggle \/ InferenceSlow \/ InferenceFast \/ OptimizerSlow \/ OptimizerFast

Spec == Init /\ [][Next]_vars

\* The four loops run at their rates, and an inference asked for again and again
\* succeeds some time.
FairSpec ==
  /\ Spec
  /\ WF_vars(InferenceSlow) /\ WF_vars(InferenceFast)
  /\ SF_vars(SlowWrite)
  /\ WF_vars(OptimizerSlow) /\ WF_vars(OptimizerFast)

------------------------------------------------------------------------------
(* Properties.                                                              *)

\* The playback, staged by one thread and advanced and cleared by another,
\* implements ChunkPlayer: it never goes back within a RUN, and the queued
\* chunk leaves the one played its stride.
Player == INSTANCE ChunkPlayer WITH playing <- current.start, queued <- next.start
PlaysForward == Player!Spec

\* A chunk inferred for an earlier RUN is played only if, when the optimizer
\* entered its RUN, a result or a reset was under way, or the inference worker
\* had not noticed the pause.  Otherwise clearing the chunks and re-reading the
\* number of the last result keep every old chunk out.
Stale(chunk) == chunk # NoChunk /\ chunk.run < opt.session
StaleScope == Stale(current) \/ Stale(next) => opt.mixed

\* An inference of a RUN uses a policy that was reset on its entry, unless the
\* slow thread was in the middle of a tick at that moment, or alone noticed a
\* pause: two threads set and clear flag_inference and _pending_policy_reset
\* without a lock.
PolicyFresh ==
  infSlow.at = "infer" /\ infSlow.run = inf.session
    => inf.policy = inf.session \/ inf.mixed

\* A RUN that lasts gets a chunk to play and keeps one, although numbers begin
\* anew, a first result may be skipped because it has the number of the last one
\* of the RUN before, and inferences fail; unless a dataset has come to its end.
ChunkArrives == <>[](start /\ ~inf.idle) => <>[](current # NoChunk)
==============================================================================
