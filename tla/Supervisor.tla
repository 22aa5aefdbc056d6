----------------------------- MODULE Supervisor -----------------------------
(***************************************************************************)
(* WorkerSupervisor and the end of main() (main.py): the worker processes,  *)
(* the tables that track them, and the two threads that work on these       *)
(* tables with no lock between them.  A request handler of the web UI (one  *)
(* at a time, under WebUIState.lock) applies a mode, starts and stops groups*)
(* of workers; the main thread reaps dead processes, asks for a shutdown    *)
(* when a base worker is missing, and finally runs shutdown_all(), while a  *)
(* request may still be under way.                                          *)
(*                                                                          *)
(* A request is a sequence of steps still to do; a step is what the thread  *)
(* does between two accesses to a table or a process.                       *)
(***************************************************************************)
EXTENDS Naturals, FiniteSets, Sequences, SequencesExt

CONSTANTS
  Fixed, Manual, Pool, \* ALWAYS_ON_WORKERS, MANUAL_UI_WORKERS, MODE_WORKER_POOL
  Base,                \* CRITICAL_ONCE_STARTED_WORKERS
  External,            \* run by subprocess.Popen rather than mp.Process
  Modes,               \* the modes a request may apply
  Slow,                \* need more than the short timeout for an orderly end
  Stubborn,            \* hang: end neither by themselves nor by SIGTERM
  Crashing,            \* may end unasked
  Unstartable,         \* process creation may raise
  Requests,            \* the kinds of requests
  MaxRequests,         \* bound: requests in a behaviour
  MaxProcs             \* bound: processes at a time

ASSUME WorkersAssumption ==
  /\ Fixed # {}
  /\ Fixed \cap Manual = {} /\ Fixed \cap Pool = {} /\ Manual \cap Pool = {}
  /\ Base \subseteq Fixed \cup Manual
  /\ "simulator" \notin Fixed \cup Pool \cup Base
  /\ {"control", "hand"} \cap (Fixed \cup Pool) = {}
  /\ "walking_logger" \notin Fixed \cup Manual
  /\ IsFiniteSet(Fixed) /\ IsFiniteSet(Manual) /\ IsFiniteSet(Pool)
ASSUME RequestsAssumption == Requests \subseteq {"apply", "start", "stop", "shutdown"}
ASSUME BoundsAssumption ==
  /\ MaxRequests \in Nat /\ MaxProcs \in Nat
  /\ Cardinality(Fixed) <= MaxProcs

Workers == Fixed \cup Manual \cup Pool
Procs == 1..MaxProcs                       \* 0 stands for "no entry"
Environments == {"sim", "real"}
\* RunConfig; the options that belong to one mode come and go with it.
Config(mode, environment) == [mode |-> mode, environment |-> environment]
Configs == [mode : Modes \cup {"none"}, environment : Environments]

VARIABLES
  proc,      \* the processes
  tracked,   \* self.procs; an entry's stop event and config go with it
  closed,    \* processes whose close() has been called
  intended,  \* intended_running
  todo,      \* the rest of the request the handler thread is executing
  mode, requests, \* selected mode; number of requests so far
  main,      \* where the main thread is
  seen, size, \* its copy of self.procs; how many entries its listing began with
  names,     \* the workers shutdown_all() found running
  expired,   \* has the deadline of shutdown_all() passed?
  shutdown,  \* the shutdown level
  hist       \* history the properties read

tables == <<tracked, intended>>
handler == <<todo, mode, requests>>
launcher == <<main, seen, size, names, expired>>
vars == <<proc, closed, tables, handler, launcher, shutdown, hist>>

\* A process is asked to end by its stop event or by the shutdown level.
\* cut: ended by a signal although it had been asked and was not hung.
Process == [worker : Workers, config : Configs, cut : BOOLEAN,
            life : {"running", "asked", "ended"}]
NewProc(w, c) == [worker |-> w, config |-> c, cut |-> FALSE, life |-> "running"]
Ended(p) == IF p = 0 THEN TRUE ELSE proc[p].life = "ended"
Living(w) == ~Ended(tracked[w])

\* history -- failed: a base worker ended that nobody had asked; forgot: the
\* watchdog dropped the entry of a living process; broken: the simulator was
\* dropped unasked, or a start raised; beside: a request was still under way
\* when the main thread left the web UI.
History == [failed : BOOLEAN, forgot : BOOLEAN, broken : BOOLEAN, beside : BOOLEAN]

Init ==
  LET fixed == SetToSeq(Fixed) IN
  /\ proc = [p \in Procs |->
               IF p <= Len(fixed) THEN NewProc(fixed[p], Config("none", "real"))
               ELSE [NewProc(CHOOSE w \in Workers : TRUE, Config("none", "real"))
                       EXCEPT !.life = "ended"]]
  /\ tracked = [w \in Workers |->
                  IF w \in Fixed THEN CHOOSE p \in DOMAIN fixed : fixed[p] = w ELSE 0]
  /\ closed = {} /\ intended = Fixed
  /\ todo = <<>> /\ mode = "none" /\ requests = 0
  /\ main = "watch" /\ seen = [w \in Workers |-> 0] /\ size = 0
  /\ names = {} /\ expired = FALSE
  /\ shutdown = FALSE
  /\ hist = [failed |-> FALSE, forgot |-> FALSE, broken |-> FALSE, beside |-> FALSE]
-----------------------------------------------------------------------------
(* The steps a request consists of.                                        *)

Bridged == {"simulator", "control", "hand"}
Surrounded == {"walking_logger", "control", "hand", "camera_topic"}
Stopping == {"stop", "join", "terminate", "kill", "close", "forget", "discard"}
Undos == {<<>>} \cup {<<w>> : w \in Manual}
Step ==
  [op : {"ensure"}, worker : Fixed, config : Configs, undo : Undos]
    \cup [op : {"manual"}, worker : Manual, config : Configs, undo : Undos]
    \cup [op : {"start"}, worker : Pool, config : Configs, undo : {<<>>}]
    \cup [op : {"bridge"}, worker : Bridged, config : Configs, undo : {<<>>}]
    \cup [op : {"spawn"}, worker : Workers, config : Configs, undo : Undos]
    \cup [op : Stopping, worker : Workers, patience : {"short", "long"}, held : Procs \cup {0}]
    \cup [op : {"refresh"}, worker : Surrounded, environment : Environments]
    \cup [op : {"settle"}, mode : Modes, selected : SUBSET Pool]
    \cup [op : {"select"}, mode : Modes]

\* undo: the workers to stop again when the start raises.
StartStep(op, w, c, undo) == [op |-> op, worker |-> w, config |-> c, undo |-> undo]
StopStep(w, patience) == [op |-> "stop", worker |-> w, patience |-> patience, held |-> 0]
RefreshStep(w, environment) == [op |-> "refresh", worker |-> w, environment |-> environment]

Each(To(_), ws) == [i \in DOMAIN ws |-> To(ws[i])]
EachOf(To(_), set) == Each(To, SetToSeq(set))
\* The plans for the one or two workers of a group, one after the other.
Joined(plans) ==
  CASE Len(plans) = 0 -> <<>>
    [] Len(plans) = 1 -> plans[1]
    [] OTHER          -> plans[1] \o plans[2]

\* ensure_fixed_workers_running(); the configuration is looked up later.
EnsureFixed(undo) ==
  EachOf(LAMBDA w : StartStep("ensure", w, Config("none", "real"), undo), Fixed)

\* Variant of Refreshes: the camera is left out.
RefreshesBridge(w, environment) ==
  IF w # "simulator" THEN <<>>
  ELSE Each(LAMBDA v : RefreshStep(v, environment), <<"walking_logger", "control", "hand">>)

\* What starting or stopping the simulator entails for the others.
Refreshes(w, environment) ==
  IF w # "simulator" THEN <<>>
  ELSE Each(LAMBDA v : RefreshStep(v, environment), <<"walking_logger", "control", "hand", "camera_topic">>)

\* stop_manual_worker(): the control worker has 75 s for its orderly end, the
\* others, and the other callers of _stop_worker(), have 3 s.
StopManual(w) ==
  <<StopStep(w, IF w = "control" THEN "long" ELSE "short")>> \o Refreshes(w, "real")

\* start_manual_worker()
StartManual(w, undo) ==
  EnsureFixed(undo) \o <<StartStep("manual", w, Config("none", "real"), undo)>>
    \o Refreshes(w, "sim")

Top == Head(todo)
Doing(op) == todo # <<>> /\ Top.op = op
Then(steps) == todo' = steps \o Tail(todo)

EnvironmentOf(running) == IF "simulator" \in running THEN "sim" ELSE "real"

\* _reap_dead_processes() in the handler thread, and what it leaves.
DeadEntries == {w \in Workers : tracked[w] # 0 /\ Ended(tracked[w])}
Without(entries) == [w \in Workers |-> IF w \in entries THEN 0 ELSE tracked[w]]
Dismissed(entries) == intended \ (entries \cap (Manual \ Base))
Kept == Dismissed(DeadEntries)
Reap(left) ==
  /\ tracked' = Without(DeadEntries) /\ intended' = left
  /\ hist' = [hist EXCEPT !.broken = @ \/ "simulator" \in DeadEntries]

HandlerOnly == UNCHANGED <<mode, requests, launcher, shutdown>>
-----------------------------------------------------------------------------
(* Requests: apply_mode(), toggle_manual_group(), /api/shutdown.           *)

Accept(kind) ==
  /\ kind \in Requests /\ requests < MaxRequests
  /\ main \in {"watch", "reap", "judge"}
  /\ requests' = requests + 1

\* get_mode_worker_candidates()
Candidates(m) ==
  LET walking == {"walking_policy", "walking_logger"} IN
  IF m = "walking" THEN Pool \cap walking ELSE Pool \ walking

ApplyMode(m, selected) ==
  LET c == Config(m, EnvironmentOf(Kept))
      toStop == {w \in Pool : \/ w \in Kept /\ w \notin selected
                              \/ w \in selected /\ Living(w) /\ proc[tracked[w]].config # c}
  IN
  /\ Accept("apply") /\ todo = <<>>
  /\ todo' = EachOf(LAMBDA w : StopStep(w, "short"), toStop)
               \o EnsureFixed(<<>>)
               \o EachOf(LAMBDA w : StartStep("start", w, c, <<>>), selected)
               \o <<[op |-> "settle", mode |-> m, selected |-> selected]>>
  /\ Reap(Kept)
  /\ UNCHANGED <<proc, closed, mode, launcher, shutdown>>

\* The groups of the web UI, and what may be started or stopped of one: its
\* workers that are not, or are, running, in the order of starting.
Groups == {{"simulator"}, {"control", "hand"}, {"collect_data"}}
Parts == {<<"simulator">>, <<"control">>, <<"hand">>, <<"control", "hand">>, <<"collect_data">>}
IsPart(part, workers) == \E group \in Groups : ToSet(part) = group \cap workers

StartGroup(absent) ==
  /\ Accept("start") /\ todo = <<>> /\ IsPart(absent, Manual \ Kept)
  /\ todo' = Joined([i \in DOMAIN absent |-> StartManual(absent[i], SubSeq(absent, 1, i - 1))])
  /\ Reap(Kept)
  /\ UNCHANGED <<proc, closed, mode, launcher, shutdown>>

StopGroup(present) ==
  /\ Accept("stop") /\ todo = <<>> /\ IsPart(present, Manual \cap Kept)
  /\ todo' = Joined(Each(StopManual, Reverse(present)))
  /\ Reap(Kept)
  /\ UNCHANGED <<proc, closed, mode, launcher, shutdown>>

\* status(), which the page polls, reaps too.
Status ==
  /\ todo = <<>> /\ main \in {"watch", "reap", "judge"} /\ DeadEntries # {}
  /\ Reap(Kept)
  /\ UNCHANGED <<proc, closed, handler, launcher, shutdown>>

\* Needs no lock: another request may be under way.
RequestShutdown ==
  /\ Accept("shutdown") /\ ~shutdown
  /\ shutdown' = TRUE
  /\ UNCHANGED <<proc, closed, tables, todo, mode, launcher, hist>>
-----------------------------------------------------------------------------
(* _start_worker() and its callers.                                        *)

Skip == Then(<<>>) /\ UNCHANGED <<proc, closed, tables, hist>> /\ HandlerOnly

\* Variant of StartWorker: a living process is replaced, not stopped.
StartWorkerBeside(w, c, undo) ==
  /\ IF Living(w) /\ proc[tracked[w]].config = c
       THEN Reap(Kept \cup {w}) /\ Then(<<>>)
       ELSE Reap(Kept) /\ Then(<<StartStep("spawn", w, c, undo)>>)
  /\ UNCHANGED <<proc, closed>> /\ HandlerOnly

StartWorker(w, c, undo) ==
  /\ IF Living(w) /\ proc[tracked[w]].config = c
       THEN Reap(Kept \cup {w}) /\ Then(<<>>)
       ELSE /\ Reap(Kept)
            /\ Then((IF Living(w) THEN <<StopStep(w, "short")>> ELSE <<>>)
                      \o <<StartStep("spawn", w, c, undo)>>)
  /\ UNCHANGED <<proc, closed>> /\ HandlerOnly

Start == Doing("start") /\ StartWorker(Top.worker, Top.config, Top.undo)

StartManualWorker ==
  /\ Doing("manual")
  /\ StartWorker(Top.worker, Config(mode, EnvironmentOf(Kept \cup ({Top.worker} \cap {"simulator"}))),
                 Top.undo)

Ensure ==
  /\ Doing("ensure")
  /\ IF Living(Top.worker)
       THEN /\ intended' = intended \cup {Top.worker}
            /\ Then(<<>>)
            /\ UNCHANGED <<proc, closed, tracked, hist>> /\ HandlerOnly
       ELSE StartWorker(Top.worker, Config("none", EnvironmentOf(Kept)), Top.undo)

Bridge ==
  /\ Doing("bridge")
  /\ IF Top.worker \in intended \cap Manual
       THEN StartWorker(Top.worker, Top.config, Top.undo) ELSE Skip

\* _refresh_..._runtime_environment(): a running worker changes environment.
\* The worker's configuration is kept but for the environment; only the logger
\* of the walking mode and, of control and hand, the manual ones are refreshed.
Refresh ==
  LET w == Top.worker
      old == proc[tracked[w]].config
      concerned == /\ w \in intended /\ tracked[w] # 0
                   /\ w \in {"control", "hand"} => w \in Manual
                   /\ w = "walking_logger" => old.mode = "walking"
  IN
  /\ Doing("refresh")
  /\ IF ~concerned THEN Skip
     ELSE IF old.environment # Top.environment
       THEN StartWorker(w, Config(old.mode, Top.environment), <<>>)
       ELSE Reap(Kept) /\ Then(<<>>) /\ UNCHANGED <<proc, closed>> /\ HandlerOnly

Settle ==
  LET running == (Kept \ Pool) \cup Top.selected \cup Fixed
      c == Config(Top.mode, EnvironmentOf(running)) IN
  /\ Doing("settle")
  /\ Reap(running)
  /\ Then(Each(LAMBDA w : StartStep("bridge", w, c, <<>>), <<"simulator", "control", "hand">>)
            \o <<[op |-> "select", mode |-> Top.mode]>>)
  /\ UNCHANGED <<proc, closed>> /\ HandlerOnly

Select ==
  /\ Doing("select")
  /\ mode' = Top.mode /\ Then(<<>>)
  /\ UNCHANGED <<proc, closed, tables, requests, launcher, shutdown, hist>>

\* A slot no table and no thread refers to any more stands for a new process.
FreeSlots == {p \in Procs : Ended(p) /\ \A w \in Workers : tracked[w] # p /\ seen[w] # p}

Spawn ==
  LET p == CHOOSE q \in FreeSlots : TRUE IN
  /\ Doing("spawn") /\ FreeSlots # {}
  /\ proc' = [proc EXCEPT ![p] = NewProc(Top.worker, Top.config)]
  /\ closed' = closed \ {p}
  /\ tracked' = [tracked EXCEPT ![Top.worker] = p]
  /\ intended' = intended \cup {Top.worker}
  /\ Then(<<>>) /\ UNCHANGED hist /\ HandlerOnly

\* The rest of the request is given up; a group start is rolled back.
SpawnFails ==
  /\ Doing("spawn") /\ Top.worker \in Unstartable
  /\ todo' = Joined(Each(StopManual, Reverse(Top.undo)))
  /\ hist' = [hist EXCEPT !.broken = TRUE]
  /\ UNCHANGED <<proc, closed, tables>> /\ HandlerOnly
-----------------------------------------------------------------------------
(* _stop_worker().                                                         *)

Signalled(workers) ==
  LET ps == {tracked[w] : w \in workers} IN
  [p \in Procs |-> IF p \in ps /\ proc[p].life = "running"
                     THEN [proc[p] EXCEPT !.life = "asked"] ELSE proc[p]]

\* SIGTERM, or SIGKILL, to some processes.
Cut(ps) ==
  [p \in Procs |-> IF p \notin ps \/ Ended(p) THEN proc[p]
                   ELSE [proc[p] EXCEPT !.life = "ended",
                           !.cut = @ \/ (proc[p].life = "asked" /\ proc[p].worker \notin Stubborn)]]
Sensitive(ps) == {p \in ps \cap Procs : proc[p].worker \notin Stubborn}

\* The simulator does not read the shutdown level: it has to be asked.
Obeys(p) ==
  /\ proc[p].worker \notin Stubborn
  /\ proc[p].life = "asked" \/ (shutdown /\ proc[p].worker # "simulator")

\* Variant of Overdue: the joins have no timeout.
NeverOverdue(p, patience) == FALSE

\* Does the join give up?  A hung worker outlasts each timeout, a slow one the short.
Overdue(p, patience) == ~Obeys(p) \/ (proc[p].worker \in Slow /\ patience = "short")

Goto(op) == Then(<<[Top EXCEPT !.op = op]>>) /\ HandlerOnly

Signal ==
  /\ Doing("stop")
  /\ proc' = Signalled({Top.worker})
  /\ Then(<<[Top EXCEPT !.op = "join", !.held = tracked[Top.worker]]>>)
  /\ UNCHANGED <<closed, tables, hist>> /\ HandlerOnly

Join ==
  /\ Doing("join")
  /\ \/ Ended(Top.held) /\ Goto("close")
     \/ ~Ended(Top.held) /\ Overdue(Top.held, Top.patience) /\ Goto("terminate")
  /\ UNCHANGED <<proc, closed, tables, hist>>

Terminate ==
  /\ Doing("terminate")
  /\ proc' = Cut(Sensitive({Top.held}))
  /\ Goto("kill")
  /\ UNCHANGED <<closed, tables, hist>>

Kill ==
  /\ Doing("kill")
  /\ proc' = Cut({Top.held})
  /\ Goto("close")
  /\ UNCHANGED <<closed, tables, hist>>

\* mp.Process.close(); the external ones have no such method.
Close ==
  /\ Doing("close")
  /\ closed' = closed \cup (IF Top.worker \in External THEN {} ELSE {Top.held} \ {0})
  /\ Goto("forget")
  /\ UNCHANGED <<proc, tables, hist>>

\* Variant of Forget: the entry of the closed process stays.
ForgetNothing ==
  /\ Doing("forget")
  /\ Goto("discard")
  /\ UNCHANGED <<proc, closed, tables, hist>>

Forget ==
  /\ Doing("forget")
  /\ tracked' = [tracked EXCEPT ![Top.worker] = 0]
  /\ Goto("discard")
  /\ UNCHANGED <<proc, closed, intended, hist>>

Discard ==
  /\ Doing("discard")
  /\ intended' = intended \ {Top.worker}
  /\ Then(<<>>)
  /\ UNCHANGED <<proc, closed, tracked, hist>> /\ HandlerOnly
-----------------------------------------------------------------------------
(* The main thread: the watchdog in run_web_ui(), with no lock.            *)

MainOnly == UNCHANGED <<handler, closed>>

\* has_unexpected_base_failure() reaps first, from a copy of the table.
Look ==
  /\ main = "watch" /\ ~shutdown
  /\ seen' = tracked /\ main' = "reap"
  /\ UNCHANGED <<proc, tables, size, names, expired, shutdown, hist>> /\ MainOnly

\* is_alive() of a closed process raises: the loop goes on with the next round.
ReapSeen ==
  LET open == {w \in Workers : seen[w] # 0 /\ seen[w] \notin closed}
      dead == {w \in open : Ended(seen[w])}
      raises == \E w \in Workers : seen[w] \in closed
  IN
  /\ main = "reap"
  /\ \E entries \in SUBSET dead :
       /\ raises \/ entries = dead
       /\ tracked' = Without(entries) /\ intended' = Dismissed(entries)
       /\ hist' = [hist EXCEPT !.forgot = @ \/ \E w \in entries : Living(w),
                               !.broken = @ \/ "simulator" \in entries]
  /\ main' = IF raises THEN "watch" ELSE "judge"
  /\ UNCHANGED <<proc, seen, size, names, expired, shutdown>> /\ MainOnly

\* Variant of Judge: workers the handler has given up are not counted.
JudgeTracked ==
  /\ main = "judge"
  /\ shutdown' = (shutdown \/ \E w \in Base \cap intended : tracked[w] # 0 /\ ~Living(w))
  /\ main' = "watch" /\ seen' = [w \in Workers |-> 0]
  /\ UNCHANGED <<proc, tables, size, names, expired, hist>> /\ MainOnly

Judge ==
  /\ main = "judge"
  /\ shutdown' = (shutdown \/ \E w \in Base \cap intended : tracked[w] = 0)
  /\ main' = "watch" /\ seen' = [w \in Workers |-> 0]
  /\ UNCHANGED <<proc, tables, size, names, expired, hist>> /\ MainOnly

LeaveUi ==
  /\ main = "watch" /\ shutdown
  /\ main' = "names"
  /\ hist' = [hist EXCEPT !.beside = todo # <<>>]
  /\ UNCHANGED <<proc, tables, seen, size, names, expired, shutdown>> /\ MainOnly
-----------------------------------------------------------------------------
(* shutdown_all(), with no lock either.                                    *)

Entries == {w \in Workers : tracked[w] # 0}
Early == names \ {"simulator"}
Late == names \cap {"simulator"}

MainGoto(place) == main' = place /\ UNCHANGED <<shutdown, hist>> /\ MainOnly

\* A comprehension over self.procs begins, and ends: a table that has changed
\* its size meanwhile, or a closed process in it, raises.
List(from, to) ==
  /\ main = from
  /\ size' = Cardinality(Entries)
  /\ MainGoto(to)
  /\ UNCHANGED <<proc, tables, seen, names, expired>>
Listing == List("names", "split") \/ List("linger", "term") \/ List("lingerKill", "kill")
             \/ List("lingerLast", "clear")

MayRaise(workers) == \E w \in workers : tracked[w] \in closed
Listed == Cardinality(Entries) = size /\ ~MayRaise(Entries)

ShutdownRaises ==
  /\ \/ main \in {"split", "term", "kill", "clear"} /\ ~Listed
     \/ main = "joinEarly" /\ MayRaise(Early)
     \/ main = "joinLate" /\ MayRaise(Late)
  /\ MainGoto("raised")
  /\ UNCHANGED <<proc, tables, seen, size, names, expired>>

Split ==
  /\ main = "split" /\ Listed
  /\ names' = {w \in Workers : Living(w)} /\ seen' = tracked
  /\ MainGoto("early")
  /\ UNCHANGED <<proc, tables, size, expired>>

SignalEarly ==
  /\ main = "early"
  /\ proc' = Signalled(Early)
  /\ MainGoto("joinEarly")
  /\ UNCHANGED <<tables, seen, size, names, expired>>

\* Variant of GivenUp: the joins have the short timeout.
GivenUpSoon(workers) == \A w \in workers : Living(w) => Overdue(tracked[w], "short")

\* The deadline is longer than every orderly end, and runs for all of them.
GivenUp(workers) == \A w \in workers : Living(w) => Overdue(tracked[w], "long")

JoinEarly ==
  /\ main = "joinEarly" /\ ~MayRaise(Early)
  /\ GivenUp(Early)
  /\ expired' = \E w \in Early : Living(w)
  /\ MainGoto("late")
  /\ UNCHANGED <<proc, tables, seen, size, names>>

SignalLate ==
  /\ main = "late"
  /\ proc' = Signalled(Late)
  /\ MainGoto("joinLate")
  /\ UNCHANGED <<tables, seen, size, names, expired>>

JoinLate ==
  /\ main = "joinLate" /\ ~MayRaise(Late)
  /\ expired \/ GivenUp(Late)
  /\ MainGoto("linger")
  /\ UNCHANGED <<proc, tables, seen, size, names, expired>>

\* terminate() and kill() for whatever is still in the table.
TerminateAll ==
  /\ main = "term" /\ Listed
  /\ proc' = Cut(Sensitive({tracked[w] : w \in Workers}))
  /\ MainGoto("lingerKill")
  /\ UNCHANGED <<tables, seen, size, names, expired>>

\* Variant of KillAll: SIGTERM once more.
TerminateAgain ==
  /\ main = "kill" /\ Listed
  /\ proc' = Cut(Sensitive({tracked[w] : w \in Workers}))
  /\ MainGoto("lingerLast")
  /\ UNCHANGED <<tables, seen, size, names, expired>>

KillAll ==
  /\ main = "kill" /\ Listed
  /\ proc' = Cut({tracked[w] : w \in Workers})
  /\ MainGoto("lingerLast")
  /\ UNCHANGED <<tables, seen, size, names, expired>>

Clear ==
  /\ main = "clear" /\ Listed
  /\ tracked' = [w \in Workers |-> 0] /\ intended' = {}
  /\ MainGoto("done")
  /\ UNCHANGED <<proc, seen, size, names, expired>>
-----------------------------------------------------------------------------
(* The worker processes, as far as the supervisor can tell.                *)

ProcessOnly == UNCHANGED <<closed, tables, handler, launcher, shutdown>>

\* The workers read the shutdown level themselves; the simulator does not.
Notice(p) ==
  /\ proc[p].life = "running" /\ shutdown /\ proc[p].worker # "simulator"
  /\ proc' = [proc EXCEPT ![p].life = "asked"]
  /\ UNCHANGED hist /\ ProcessOnly

End(p) ==
  /\ proc[p].life = "asked" /\ proc[p].worker \notin Stubborn
  /\ proc' = [proc EXCEPT ![p].life = "ended"]
  /\ UNCHANGED hist /\ ProcessOnly

Crash(p) ==
  /\ proc[p].life = "running" /\ proc[p].worker \in Crashing
  /\ proc' = [proc EXCEPT ![p].life = "ended"]
  /\ hist' = [hist EXCEPT !.failed = @ \/ proc[p].worker \in Base]
  /\ ProcessOnly
-----------------------------------------------------------------------------
Request ==
  \/ \E m \in Modes : \E selected \in SUBSET Candidates(m) : ApplyMode(m, selected)
  \/ \E part \in Parts : StartGroup(part) \/ StopGroup(part)
  \/ Status \/ RequestShutdown

HandlerStep ==
  \/ Start \/ StartManualWorker \/ Ensure \/ Bridge \/ Refresh \/ Settle \/ Select
  \/ Spawn \/ SpawnFails
  \/ Signal \/ Join \/ Terminate \/ Kill \/ Close \/ Forget \/ Discard

MainStep ==
  \/ Look \/ ReapSeen \/ Judge \/ LeaveUi
  \/ Listing \/ ShutdownRaises \/ Split \/ SignalEarly \/ JoinEarly \/ SignalLate \/ JoinLate
  \/ TerminateAll \/ KillAll \/ Clear

ProcessStep(p) == Notice(p) \/ End(p) \/ Crash(p)

LauncherEnded == main \in {"done", "raised"}
Terminated == LauncherEnded /\ UNCHANGED vars

Next ==
  Request \/ HandlerStep \/ MainStep \/ (\E p \in Procs : ProcessStep(p)) \/ Terminated

\* Both threads are scheduled, and a process that is not hung obeys.
Fairness ==
  /\ WF_vars(HandlerStep) /\ WF_vars(MainStep)
  /\ \A p \in Procs : WF_vars(Notice(p) \/ End(p))

Spec == Init /\ [][Next]_vars
FairSpec == Spec /\ Fairness
-----------------------------------------------------------------------------
(* Properties.                                                             *)

\* Every variable has its type.
ProcsOK ==
  /\ proc \in [Procs -> Process] /\ closed \subseteq Procs
  /\ tracked \in [Workers -> Procs \cup {0}] /\ intended \subseteq Workers
HandlerOK ==
  /\ todo \in Seq(Step) /\ mode \in Modes \cup {"none"} /\ requests \in 0..MaxRequests
LauncherOK ==
  /\ seen \in [Workers -> Procs \cup {0}] /\ size \in Nat /\ names \subseteq Workers
  /\ expired \in BOOLEAN /\ shutdown \in BOOLEAN /\ hist \in History
TypeOK == ProcsOK /\ HandlerOK /\ LauncherOK

\* No worker runs twice (two control processes would both command the robot),
\* unless the watchdog, from its stale copy, forgot a living process, or
\* shutdown_all() cleared the table beside a request.
OneProcessEach ==
  (~hist.forgot /\ main # "done") =>
    \A p, q \in Procs :
      (p # q /\ ~Ended(p) /\ ~Ended(q)) => proc[p].worker # proc[q].worker

\* Between requests the workers that care about the environment were started
\* for the one they are in, whatever the order in which simulator, control and
\* mode were started and stopped (unless the simulator died or a start raised).
EnvironmentAgrees ==
  (todo = <<>> /\ main \in {"watch", "reap", "judge"} /\ ~hist.broken) =>
    \A w \in Workers \cap Surrounded :
      tracked[w] # 0 => proc[tracked[w]].config.environment = EnvironmentOf(intended)

\* When shutdown_all() goes on to stop the simulator and to terminate what is
\* left, each worker it found running has ended by itself or is hung: the
\* safety sequence of control is neither cut nor left without its simulator.
SafetySequenceKept ==
  main \in {"late", "joinLate", "linger", "term", "lingerKill", "kill", "lingerLast", "clear"}
    => \A w \in Early \ Stubborn : Ended(seen[w])

\* shutdown_all() raises only beside a request the web UI had left under way.
RaisesOnlyBesideRequest == main = "raised" => hist.beside

\* shutdown_all() leaves no process, slow or hung, unless a request runs beside
\* it or the watchdog has forgotten one.
ShutdownLeavesNone ==
  (main = "done" /\ ~hist.beside /\ ~hist.forgot) => \A p \in Procs : Ended(p)

\* A base worker that died is noticed, or started again.
CrashNoticed ==
  \A w \in Base :
    (w \in intended /\ ~Living(w)) ~> (shutdown \/ Living(w) \/ w \notin intended)

\* A shutdown ends the launcher, whatever is hung and whatever a request does.
LauncherEnds == shutdown ~> LauncherEnded

\* A request ends, hung workers or not: the lock of the web UI is released.
RequestEnds == todo # <<>> ~> todo = <<>>

\* main.py:1508: the control worker is not terminated while its safety sequence
\* is active.
ControlNotCut == \A p \in Procs : proc[p].worker = "control" => ~proc[p].cut

\* server.py:3986: "base worker failure detected": the watchdog asks for a
\* shutdown only if a base worker failed.
WatchdogHonest == [][Judge /\ shutdown' /\ ~shutdown => hist.failed]_vars
=============================================================================
