-------------------------- MODULE SupervisorProofs --------------------------
(***************************************************************************)
(* The safety properties of Supervisor, for any workers, requests and       *)
(* number of processes.                                                     *)
(***************************************************************************)
EXTENDS Supervisor, FiniteSetTheorems, SequenceTheorems, TLAPS
-----------------------------------------------------------------------------
(* The inductive invariant, in named parts.                                *)

\* An entry, and the watchdog's copy of it, belong to the worker they are for.
OwnedOK ==
  \A w \in Workers :
    /\ tracked[w] # 0 => proc[tracked[w]].worker = w
    /\ seen[w] # 0 => proc[seen[w]].worker = w

\* A start waits only behind the stop of the same worker.
Later == {"ensure", "manual", "start", "bridge", "stop", "refresh", "settle", "select"}
PlanOK ==
  \A i \in DOMAIN todo :
    i > 1 => \/ todo[i].op \in Later
             \/ i = 2 /\ todo[i].op = "spawn" /\ todo[1].op \in Stopping
                      /\ todo[1].worker = todo[i].worker

\* What a stop has reached.
Holding == {"join", "terminate", "kill", "close", "forget"}
StageOK ==
  todo # <<>> =>
    /\ Top.op \in Holding =>
         /\ tracked[Top.worker] \in {0, Top.held}
         /\ Top.held # 0 => proc[Top.held].worker = Top.worker
    /\ Top.op \in {"close", "forget"} => Ended(Top.held)
    /\ Top.op = "discard" => tracked[Top.worker] = 0
    /\ Top.op = "spawn" => Ended(tracked[Top.worker])

\* A closed process is in the table only until the thread that closed it
\* drops the entry.
ClosedOK ==
  \A w \in Workers : tracked[w] \in closed => Doing("forget") /\ Top.worker = w

\* A living process is its worker's entry.
TrackedOK ==
  (~hist.forgot /\ main # "done") =>
    \A p \in Procs : ~Ended(p) => tracked[proc[p].worker] = p

\* An entry's worker is meant to run.
KnownOK == \A w \in Workers : tracked[w] # 0 => w \in intended

Watching == main \in {"watch", "reap", "judge"}

\* After the web UI: shutdown is requested, and nothing is under way unless
\* something was when it was left.
LeftOK ==
  ~Watching => /\ shutdown
               /\ hist.beside \/ todo = <<>>
SizeOK ==
  (main \in {"split", "term", "kill", "clear"} /\ ~hist.beside) => size = Cardinality(Entries)
RaisedOK == main = "raised" => hist.beside

\* What shutdown_all() found running is still the entry, or has ended.
AwaitedOK ==
  /\ main \in {"early", "joinEarly"} =>
       \A w \in names : seen[w] # 0 /\ (Ended(seen[w]) \/ tracked[w] = seen[w])
  /\ main \in {"late", "joinLate", "linger", "term", "lingerKill", "kill", "lingerLast", "clear"}
       => \A w \in names : seen[w] # 0

NoneLeftOK ==
  (main \in {"lingerLast", "clear", "done"} /\ ~hist.beside /\ ~hist.forgot)
    => \A p \in Procs : Ended(p)

SharedInv ==
  /\ OwnedOK /\ TrackedOK /\ LeftOK /\ SizeOK /\ RaisedOK /\ AwaitedOK
  /\ SafetySequenceKept /\ NoneLeftOK
PlanInv == PlanOK /\ StageOK /\ ClosedOK
CoreInv == TypeOK /\ SharedInv /\ PlanInv

\* Until the mode is settled each process of the mode's workers is of a selected
\* one or about to be stopped.
SettleOK ==
  \A i \in DOMAIN todo : todo[i].op = "settle" =>
    /\ i = Len(todo)
    /\ \A w \in Pool : tracked[w] # 0 =>
         \/ w \in todo[i].selected
         \/ \E j \in DOMAIN todo : todo[j].op \in Stopping /\ todo[j].worker = w
    /\ \A j \in DOMAIN todo : todo[j].op \in {"start", "spawn"} =>
         todo[j].worker \in todo[i].selected \/ todo[j].worker \notin Pool
    /\ \A j \in DOMAIN todo : todo[j].op # "refresh"

\* The walking logger runs in the walking mode only.
LoggerOK ==
  /\ \A i \in DOMAIN todo :
       (todo[i].op \in {"start", "spawn"} /\ todo[i].worker = "walking_logger")
         => todo[i].config.mode = "walking"
  /\ ("walking_logger" \in Workers /\ tracked["walking_logger"] # 0)
       => proc[tracked["walking_logger"]].config.mode = "walking"

Awaits(op, w) == \E i \in DOMAIN todo : todo[i].op = op /\ todo[i].worker = w
StopsSimulator == todo # <<>> /\ Top.op \in Stopping /\ Top.worker = "simulator"

\* The request under way starts workers for the environment e; behind a start of
\* the simulator each worker that cares is refreshed.
StepsFor(e) ==
  /\ \A i \in DOMAIN todo :
       /\ todo[i].op = "refresh" => todo[i].environment = e
       /\ todo[i].op \in {"start", "bridge"} => todo[i].config.environment = e
       /\ (todo[i].op = "spawn" /\ todo[i].worker \in Surrounded) =>
            todo[i].config.environment = e \/ Awaits("refresh", todo[i].worker)
       /\ (i > 1 /\ todo[i].op = "stop") => todo[i].worker # "simulator"
       /\ (todo[i].op \in {"manual", "spawn"} /\ todo[i].worker = "simulator") => e = "sim"
       /\ (todo[i].op = "manual" /\ todo[i].worker = "simulator") =>
            \A w \in Surrounded : \E j \in DOMAIN todo :
              j > i /\ todo[j].op = "refresh" /\ todo[j].worker = w

\* The environment is e, or will be once the simulator is started or stopped.
TurnsTo(e) ==
  /\ StopsSimulator /\ ~Awaits("spawn", "simulator") => e = "real"
  /\ \/ EnvironmentOf(intended) = e
     \/ Awaits("manual", "simulator") \/ Awaits("spawn", "simulator") \/ StopsSimulator

\* A worker that cares runs for e, or is to be refreshed or started.
RunsFor(e) ==
  \A w \in Workers \cap Surrounded : tracked[w] # 0 =>
    \/ proc[tracked[w]].config.environment = e
    \/ Awaits("refresh", w) \/ Awaits("spawn", w)

LeadsTo(e) == StepsFor(e) /\ TurnsTo(e) /\ RunsFor(e)
EnvironmentOK == (~hist.broken /\ main # "done") => \E e \in Environments : LeadsTo(e)

EnvironmentInv == KnownOK /\ SettleOK /\ LoggerOK /\ EnvironmentOK
-----------------------------------------------------------------------------
(* The plans of the requests.                                              *)

LEMMA Finite ==
  /\ Fixed \subseteq Workers /\ Manual \subseteq Workers /\ Pool \subseteq Workers
  /\ IsFiniteSet(Workers)
  /\ \A S \in SUBSET Workers : IsFiniteSet(S)
<1>1. IsFiniteSet(Fixed) /\ IsFiniteSet(Manual) /\ IsFiniteSet(Pool)
  BY WorkersAssumption
<1>2. IsFiniteSet(Fixed \cup Manual)
  BY <1>1, FS_Union
<1>3. IsFiniteSet(Workers)
  BY <1>1, <1>2, FS_Union DEF Workers
<1> QED
  BY <1>3, FS_Subset DEF Workers

\* A set in some order.
LEMMA Ordered ==
  ASSUME NEW S, IsFiniteSet(S)
  PROVE  /\ SetToSeq(S) \in Seq(S) /\ Len(SetToSeq(S)) = Cardinality(S)
         /\ Cardinality(S) \in Nat
         /\ \A x \in S : \E i \in DOMAIN SetToSeq(S) : SetToSeq(S)[i] = x
         /\ \A i, j \in DOMAIN SetToSeq(S) : SetToSeq(S)[i] = SetToSeq(S)[j] => i = j
<1> DEFINE n == Cardinality(S)
<1>1. n \in Nat /\ ExistsBijection(1..n, S)
  BY FS_CardinalityType
<1>2. PICK f \in [1..n -> S] : IsInjective(f)
  BY <1>1 DEF ExistsBijection, Bijection, Injection
<1>3. SetToSeq(S) \in [1..n -> S] /\ IsInjective(SetToSeq(S))
  BY <1>2 DEF SetToSeq
<1>4. SetToSeq(S) \in Injection(1..n, S)
  BY <1>3 DEF Injection
<1>5. Cardinality(1..n) = n
  BY <1>1, FS_Interval
<1>6. SetToSeq(S) \in Surjection(1..n, S)
  BY <1>4, <1>5, FS_Injection
<1> HIDE DEF n
<1>7. SetToSeq(S) \in Seq(S) /\ Len(SetToSeq(S)) = n /\ DOMAIN SetToSeq(S) = 1..n
  BY <1>1, <1>3
<1>8. \A x \in S : \E i \in 1..n : SetToSeq(S)[i] = x
  BY <1>6 DEF Surjection
<1>9. \A i, j \in 1..n : SetToSeq(S)[i] = SetToSeq(S)[j] => i = j
  BY <1>3, <1>7 DEF IsInjective
<1> QED
  BY <1>1, <1>7, <1>8, <1>9 DEF n

\* What the elements of two sequences have in common, those of both have.
LEMMA Concatenated ==
  ASSUME NEW X, NEW s \in Seq(X), NEW t \in Seq(X)
  PROVE  /\ s \o t \in Seq(X) /\ Len(s \o t) = Len(s) + Len(t)
         /\ \A i \in DOMAIN s : i \in DOMAIN (s \o t) /\ (s \o t)[i] = s[i]
         /\ \A i \in DOMAIN t : Len(s) + i \in DOMAIN (s \o t) /\ (s \o t)[Len(s) + i] = t[i]
  OBVIOUS

\* A sequence of some kind of elements is one of a wider kind.
LEMMA Wider ==
  ASSUME NEW S, NEW T, S \subseteq T, NEW s \in Seq(S)
  PROVE  s \in Seq(T)
  OBVIOUS

EnsureSteps == [op : {"ensure"}, worker : Fixed, config : Configs, undo : Undos]
StopSteps(ws) == [op : {"stop"}, worker : ws, patience : {"short", "long"}, held : {0}]
StartSteps(ws, c) == [op : {"start"}, worker : ws, config : {c}, undo : {<<>>}]
ManualSteps(ws) == [op : {"manual"}, worker : ws, config : Configs, undo : Undos]
RefreshSteps(e) == [op : {"refresh"}, worker : Surrounded, environment : {e}]

LEMMA PlanTypes ==
  /\ \A undo \in Undos : EnsureFixed(undo) \in Seq(EnsureSteps)
  /\ \A e \in Environments : \A w \in Manual :
       /\ Refreshes(w, e) \in Seq(RefreshSteps(e))
       /\ w # "simulator" => Refreshes(w, e) = <<>>
       /\ w = "simulator" => \A v \in Surrounded : \E i \in DOMAIN Refreshes(w, e) :
                               Refreshes(w, e)[i].worker = v
<1>1. ASSUME NEW undo \in Undos
      PROVE  EnsureFixed(undo) \in Seq(EnsureSteps)
  <2>1. SetToSeq(Fixed) \in Seq(Fixed)
    BY Finite, Ordered
  <2>2. Config("none", "real") \in Configs
    BY DEF Config, Configs, Environments
  <2> DEFINE o == SetToSeq(Fixed)
             step(w) == StartStep("ensure", w, Config("none", "real"), undo)
  <2>3. EnsureFixed(undo) = [i \in DOMAIN o |-> step(o[i])]
    BY DEF EnsureFixed, EachOf, Each
  <2>4. \A w \in Fixed : step(w) \in EnsureSteps
    BY <2>2 DEF StartStep, EnsureSteps
  <2> HIDE DEF o, step
  <2> QED
    BY <2>1, <2>3, <2>4 DEF o
<1>2. ASSUME NEW e \in Environments, NEW w \in Manual
      PROVE  /\ Refreshes(w, e) \in Seq(RefreshSteps(e))
             /\ w # "simulator" => Refreshes(w, e) = <<>>
             /\ w = "simulator" => \A v \in Surrounded : \E i \in DOMAIN Refreshes(w, e) :
                               Refreshes(w, e)[i].worker = v
  <2>1. CASE w # "simulator"
    BY <2>1 DEF Refreshes
  <2>2. CASE w = "simulator"
    <3> DEFINE r == Refreshes(w, e)
    <3>1. r = [i \in 1..4 |-> RefreshStep(<<"walking_logger", "control", "hand", "camera_topic">>[i], e)]
      BY <2>2 DEF Refreshes, Each
    <3>2. r = <<RefreshStep("walking_logger", e), RefreshStep("control", e),
                RefreshStep("hand", e), RefreshStep("camera_topic", e)>>
      BY <3>1
    <3> HIDE DEF r
    <3>3. r \in Seq(RefreshSteps(e)) /\ DOMAIN r = 1..4
      BY <3>2 DEF RefreshSteps, RefreshStep, Surrounded
    <3>4. /\ r[1].worker = "walking_logger" /\ r[2].worker = "control"
          /\ r[3].worker = "hand" /\ r[4].worker = "camera_topic"
      BY <3>2 DEF RefreshStep
    <3>5. \A v \in Surrounded : \E i \in 1..4 : r[i].worker = v
      BY <3>4 DEF Surrounded
    <3> QED
      BY <3>3, <3>5, <2>2 DEF r
  <2> QED BY <2>1, <2>2
<1> QED BY <1>1, <1>2

LEMMA StopPlan ==
  ASSUME NEW w \in Manual
  PROVE  /\ StopManual(w) \in Seq(StopSteps({w}) \cup RefreshSteps("real"))
         /\ StopManual(w) # <<>> /\ StopManual(w)[1] \in StopSteps({w})
         /\ \A i \in DOMAIN StopManual(w) : i > 1 => StopManual(w)[i] \in RefreshSteps("real")
         /\ w # "simulator" => StopManual(w) \in Seq(StopSteps({w}))
         /\ w = "simulator" => \A v \in Surrounded : \E i \in DOMAIN StopManual(w) :
              StopManual(w)[i].op = "refresh" /\ StopManual(w)[i].worker = v
<1> DEFINE r == Refreshes(w, "real")
           s == StopStep(w, IF w = "control" THEN "long" ELSE "short")
<1>1. /\ r \in Seq(RefreshSteps("real"))
      /\ w # "simulator" => r = <<>>
      /\ w = "simulator" => \A v \in Surrounded : \E i \in DOMAIN r : r[i].worker = v
  BY PlanTypes DEF Environments
<1>2. StopManual(w) = <<s>> \o r
  BY DEF StopManual
<1>3. s \in StopSteps({w})
  BY DEF StopSteps, StopStep
<1>4. \A x \in RefreshSteps("real") : x.op = "refresh"
  BY DEF RefreshSteps
<1> HIDE DEF r, s
<1>5. /\ <<s>> \o r \in Seq(StopSteps({w}) \cup RefreshSteps("real"))
      /\ <<s>> \o r # <<>> /\ (<<s>> \o r)[1] = s
      /\ \A i \in DOMAIN (<<s>> \o r) : i > 1 => (<<s>> \o r)[i] \in RefreshSteps("real")
      /\ r = <<>> => <<s>> \o r \in Seq(StopSteps({w}))
  BY <1>1, <1>3
<1>6. \A i \in DOMAIN r : 1 + i \in DOMAIN (<<s>> \o r) /\ (<<s>> \o r)[1 + i] = r[i]
  BY <1>1, <1>3
<1>7. ASSUME w = "simulator", NEW v \in Surrounded
      PROVE  \E i \in DOMAIN (<<s>> \o r) :
               (<<s>> \o r)[i].op = "refresh" /\ (<<s>> \o r)[i].worker = v
  <2>1. PICK i \in DOMAIN r : r[i].worker = v
    BY <1>1, <1>7
  <2>2. r[i].op = "refresh"
    BY <1>1, <1>4
  <2> QED BY <2>1, <2>2, <1>6
<1> QED
  BY <1>1, <1>2, <1>3, <1>5, <1>7

\* The simulator is started, and then each worker that cares is refreshed.
StartsFirst(plan) ==
  \E k \in DOMAIN plan :
    /\ plan[k].op = "manual" /\ plan[k].worker = "simulator"
    /\ \A i \in DOMAIN plan : plan[i].op = "manual" => i <= k
    /\ \A v \in Surrounded : \E j \in DOMAIN plan :
         j > k /\ plan[j].op = "refresh" /\ plan[j].worker = v

LEMMA StartPlan ==
  ASSUME NEW w \in Manual, NEW undo \in Undos
  PROVE  /\ StartManual(w, undo) \in Seq(EnsureSteps \cup ManualSteps({w}) \cup RefreshSteps("sim"))
         /\ w # "simulator" => StartManual(w, undo) \in Seq(EnsureSteps \cup ManualSteps({w}))
         /\ w = "simulator" => StartsFirst(StartManual(w, undo))
<1> DEFINE r == Refreshes(w, "sim")
           s == StartStep("manual", w, Config("none", "real"), undo)
           n == EnsureFixed(undo) \o <<s>>
<1>1. /\ r \in Seq(RefreshSteps("sim"))
      /\ w # "simulator" => r = <<>>
      /\ w = "simulator" => \A v \in Surrounded : \E i \in DOMAIN r : r[i].worker = v
  BY PlanTypes DEF Environments
<1>2. StartManual(w, undo) = n \o r
  BY DEF StartManual
<1>3. s \in ManualSteps({w}) /\ s.op = "manual" /\ s.worker = w
  BY DEF ManualSteps, StartStep, Config, Configs, Environments
<1>4. \A x \in RefreshSteps("sim") : x.op = "refresh"
  BY DEF RefreshSteps
<1>5. EnsureFixed(undo) \in Seq(EnsureSteps)
  BY PlanTypes
<1> HIDE DEF s
<1>6. /\ n \in Seq(EnsureSteps \cup ManualSteps({w}))
      /\ Len(n) \in DOMAIN n /\ n[Len(n)] = s
  BY <1>3, <1>5
<1> HIDE DEF r, n
<1> DEFINE narrow == EnsureSteps \cup ManualSteps({w})
           wide == narrow \cup RefreshSteps("sim")
<1>a. n \in Seq(wide) /\ r \in Seq(wide)
  BY <1>1, <1>6, Wider
<1> HIDE DEF narrow, wide
<1>7. /\ n \o r \in Seq(wide)
      /\ r = <<>> => n \o r = n
      /\ \A i \in DOMAIN n : i \in DOMAIN (n \o r) /\ (n \o r)[i] = n[i]
      /\ \A i \in DOMAIN r : Len(n) + i \in DOMAIN (n \o r) /\ (n \o r)[Len(n) + i] = r[i]
      /\ \A i \in DOMAIN (n \o r) : i > Len(n) => i - Len(n) \in DOMAIN r /\ (n \o r)[i] = r[i - Len(n)]
  BY <1>a
<1>8. ASSUME w = "simulator"
      PROVE  StartsFirst(n \o r)
  <2> DEFINE k == Len(n)
             plan == n \o r
  <2>1. k \in DOMAIN plan /\ plan[k].op = "manual" /\ plan[k].worker = "simulator"
    BY <1>3, <1>6, <1>7, <1>8
  <2>2. ASSUME NEW i \in DOMAIN plan, plan[i].op = "manual"
        PROVE  i <= k
    <3>1. CASE i > k
      <4>1. i - k \in DOMAIN r /\ plan[i] = r[i - k]
        BY <1>7, <3>1
      <4>2. plan[i] \in RefreshSteps("sim")
        BY <1>1, <4>1
      <4> QED BY <1>4, <2>2, <4>2
    <3>2. i \in Nat /\ k \in Nat
      BY <1>7, <1>a
    <3> QED BY <3>1, <3>2
  <2>3. ASSUME NEW v \in Surrounded
        PROVE  \E j \in DOMAIN plan : j > k /\ plan[j].op = "refresh" /\ plan[j].worker = v
    <3>1. PICK i \in DOMAIN r : r[i].worker = v
      BY <1>1, <1>8
    <3>2. r[i].op = "refresh" /\ i > 0 /\ i \in Nat /\ k \in Nat
      BY <1>1, <1>4, <1>a
    <3>3. k + i \in DOMAIN plan /\ plan[k + i] = r[i] /\ k + i > k
      BY <1>7, <3>2
    <3> QED BY <3>1, <3>2, <3>3
  <2> QED BY <2>1, <2>2, <2>3 DEF StartsFirst
<1> QED
  BY <1>1, <1>2, <1>6, <1>7, <1>8 DEF narrow, wide

\* The parts of a group that may be started or stopped.
LEMMA PartTypes ==
  ASSUME NEW part \in Parts, NEW ws \in SUBSET Manual, IsPart(part, ws)
  PROVE  \/ part = <<"simulator">> /\ "simulator" \in Manual
         \/ \E w \in Manual \ {"simulator"} : part = <<w>>
         \/ \E v, w \in Manual \ {"simulator"} : part = <<v, w>>
<1>1. \A i \in DOMAIN part : part[i] \in Manual
  BY DEF IsPart, ToSet
<1>2. CASE part = <<"control", "hand">>
  BY <1>1, <1>2
<1>3. CASE part # <<"control", "hand">>
  BY <1>1, <1>3 DEF Parts
<1> QED BY <1>2, <1>3

\* A part other than the simulator is started without any refresh, and every
\* surrounding worker is refreshed after the simulator.
LEMMA StartGroupPlan ==
  ASSUME NEW part \in Parts, NEW ws \in SUBSET Manual, IsPart(part, ws),
         NEW plan, plan = Joined([i \in DOMAIN part |-> StartManual(part[i], SubSeq(part, 1, i - 1))])
  PROVE  /\ plan \in Seq(EnsureSteps \cup ManualSteps(Manual) \cup RefreshSteps("sim"))
         /\ part # <<"simulator">> => plan \in Seq(EnsureSteps \cup ManualSteps(Manual \ {"simulator"}))
         /\ part = <<"simulator">> => StartsFirst(plan)
<1> DEFINE start(i) == StartManual(part[i], SubSeq(part, 1, i - 1))
           p == [i \in DOMAIN part |-> start(i)]
           narrow == EnsureSteps \cup ManualSteps(Manual \ {"simulator"})
           wide == EnsureSteps \cup ManualSteps(Manual) \cup RefreshSteps("sim")
<1>1. <<>> \in Undos /\ \A w \in Manual : <<w>> \in Undos
  BY DEF Undos
<1>2. ASSUME NEW w \in Manual, part = <<w>>
      PROVE  plan = StartManual(w, <<>>)
  <2>1. start(1) = StartManual(w, <<>>)
    <3>1. part[1] = w
      BY <1>2
    <3>2. SubSeq(part, 1, 1 - 1) = <<>>
      BY SubSeqEmpty
    <3> QED BY <3>1, <3>2
  <2> HIDE DEF start
  <2>2. Len(p) = 1 /\ p[1] = start(1)
    BY <1>2
  <2>3. Joined(p) = p[1]
    BY <2>2 DEF Joined
  <2> QED BY <2>1, <2>2, <2>3 DEF start
<1>3. ASSUME NEW w \in Manual
      PROVE  /\ EnsureSteps \cup ManualSteps({w}) \cup RefreshSteps("sim") \subseteq wide
             /\ w # "simulator" => EnsureSteps \cup ManualSteps({w}) \subseteq narrow
  BY DEF ManualSteps
<1>4. CASE part = <<"simulator">> /\ "simulator" \in Manual
  <2>1. plan = StartManual("simulator", <<>>)
    BY <1>2, <1>4
  <2> DEFINE mine == EnsureSteps \cup ManualSteps({"simulator"}) \cup RefreshSteps("sim")
  <2>3. plan \in Seq(mine)
    BY <2>1, <1>1, <1>4, StartPlan
  <2>5. StartsFirst(plan)
    BY <1>1, <1>4, <2>1, StartPlan
  <2>4. mine \subseteq wide
    BY <1>3, <1>4
  <2> HIDE DEF mine, wide
  <2>2. plan \in Seq(wide)
    BY <2>3, <2>4, Wider
  <2> QED BY <2>2, <2>5, <1>4 DEF wide
<1>5. ASSUME NEW w \in Manual \ {"simulator"}, part = <<w>>
      PROVE  plan \in Seq(narrow)
  <2> DEFINE mine == EnsureSteps \cup ManualSteps({w})
  <2>1. plan \in Seq(mine)
    BY <1>1, <1>2, <1>5, StartPlan
  <2>2. mine \subseteq narrow
    BY <1>3, <1>5
  <2> HIDE DEF mine, narrow
  <2> QED BY <2>1, <2>2, Wider
<1>6. ASSUME NEW v \in Manual \ {"simulator"}, NEW w \in Manual \ {"simulator"}, part = <<v, w>>
      PROVE  plan \in Seq(narrow)
  <2>1. start(1) = StartManual(v, <<>>)
    <3>1. part[1] = v
      BY <1>6
    <3>2. SubSeq(part, 1, 1 - 1) = <<>>
      BY SubSeqEmpty
    <3> QED BY <3>1, <3>2
  <2>2. start(2) = StartManual(w, <<v>>)
    <3>1. part \in Seq({v, w}) /\ part[1] = v
      BY <1>6
    <3>2. /\ SubSeq(part, 1, 1) \in Seq({v, w}) /\ Len(SubSeq(part, 1, 1)) = 1
          /\ SubSeq(part, 1, 1)[1] = v
      BY <3>1, <1>6, SubSeqProperties
    <3>3. <<v>> \in Seq({v, w}) /\ Len(<<v>>) = 1 /\ <<v>>[1] = v
      OBVIOUS
    <3>4. ASSUME NEW s \in Seq({v, w}), Len(s) = 1, s[1] = v
          PROVE  s = <<v>>
      BY <3>3, <3>4, SeqEqual
    <3>5. SubSeq(part, 1, 1) = <<v>>
      BY <3>2, <3>4
    <3>6. part[2] = w /\ 2 - 1 = 1
      BY <1>6
    <3> QED BY <3>5, <3>6
  <2>3. StartManual(v, <<>>) \in Seq(narrow)
    <3> DEFINE mine == EnsureSteps \cup ManualSteps({v})
    <3>1. StartManual(v, <<>>) \in Seq(mine)
      BY <1>1, StartPlan
    <3>2. mine \subseteq narrow
      BY <1>3
    <3> HIDE DEF mine, narrow
    <3> QED BY <3>1, <3>2, Wider
  <2>4. StartManual(w, <<v>>) \in Seq(narrow)
    <3> DEFINE mine == EnsureSteps \cup ManualSteps({w})
    <3>1. StartManual(w, <<v>>) \in Seq(mine)
      BY <1>1, StartPlan
    <3>2. mine \subseteq narrow
      BY <1>3
    <3> HIDE DEF mine, narrow
    <3> QED BY <3>1, <3>2, Wider
  <2> HIDE DEF start, narrow
  <2>5. Len(p) = 2 /\ p[1] = start(1) /\ p[2] = start(2)
    BY <1>6
  <2> HIDE DEF p
  <2>6. Joined(p) = p[1] \o p[2]
    BY <2>5 DEF Joined
  <2>7. plan = start(1) \o start(2)
    BY <2>5, <2>6 DEF p, start
  <2>8. plan = StartManual(v, <<>>) \o StartManual(w, <<v>>)
    BY <2>1, <2>2, <2>7
  <2> QED BY <2>3, <2>4, <2>8, Concatenated
<1>7. narrow \subseteq wide
  BY DEF ManualSteps
<1>8. ASSUME plan \in Seq(narrow), part # <<"simulator">>
      PROVE  plan \in Seq(wide)
  <2> HIDE DEF narrow, wide
  <2> QED BY <1>7, <1>8, Wider
<1>9. \A v, w : part \in {<<w>>, <<v, w>>} /\ w # "simulator" => part # <<"simulator">>
  OBVIOUS
<1> HIDE DEF narrow, wide
<1> QED
  BY PartTypes, <1>4, <1>5, <1>6, <1>8, <1>9 DEF narrow, wide

\* The simulator is stopped, and then each worker that cares is refreshed.
StopsFirst(plan) ==
  /\ plan # <<>> /\ plan[1] \in StopSteps({"simulator"})
  /\ \A i \in DOMAIN plan : i > 1 => plan[i] \in RefreshSteps("real")
  /\ \A v \in Surrounded : \E i \in DOMAIN plan :
       plan[i].op = "refresh" /\ plan[i].worker = v

LEMMA StopGroupPlan ==
  ASSUME NEW part \in Parts, NEW ws \in SUBSET Manual, IsPart(part, ws),
         NEW plan, plan = Joined(Each(StopManual, Reverse(part)))
  PROVE  /\ plan \in Seq(StopSteps(Manual) \cup RefreshSteps("real"))
         /\ part # <<"simulator">> => plan \in Seq(StopSteps(Manual \ {"simulator"}))
         /\ part = <<"simulator">> => StopsFirst(plan)
<1> DEFINE r == Reverse(part)
           p == [i \in DOMAIN r |-> StopManual(r[i])]
           narrow == StopSteps(Manual \ {"simulator"})
           wide == StopSteps(Manual) \cup RefreshSteps("real")
<1>1. plan = Joined(p)
  BY DEF Each
<1>2. ASSUME NEW w \in Manual, part = <<w>>
      PROVE  plan = StopManual(w)
  <2>1. r = <<w>>
    BY <1>2 DEF Reverse
  <2>2. Len(p) = 1 /\ p[1] = StopManual(w)
    BY <2>1
  <2> HIDE DEF p
  <2>3. Joined(p) = p[1]
    BY <2>2 DEF Joined
  <2> QED BY <2>2, <2>3, <1>1
<1>3. ASSUME NEW w \in Manual
      PROVE  /\ StopSteps({w}) \cup RefreshSteps("real") \subseteq wide
             /\ w # "simulator" => StopSteps({w}) \subseteq narrow
  BY DEF StopSteps
<1>4. CASE part = <<"simulator">> /\ "simulator" \in Manual
  <2>1. plan = StopManual("simulator")
    BY <1>2, <1>4
  <2> DEFINE mine == StopSteps({"simulator"}) \cup RefreshSteps("real")
  <2>3. plan \in Seq(mine)
    BY <2>1, <1>4, StopPlan
  <2>5. StopsFirst(plan)
    BY <2>1, <1>4, StopPlan DEF StopsFirst
  <2>4. mine \subseteq wide
    BY <1>3, <1>4
  <2> HIDE DEF mine, wide
  <2>2. plan \in Seq(wide)
    BY <2>3, <2>4, Wider
  <2> QED BY <2>2, <2>5, <1>4 DEF wide
<1>5. ASSUME NEW w \in Manual \ {"simulator"}, part = <<w>>
      PROVE  plan \in Seq(narrow)
  <2>1. plan \in Seq(StopSteps({w}))
    BY <1>2, <1>5, StopPlan
  <2> QED BY <2>1, <1>3, Wider
<1>6. ASSUME NEW v \in Manual \ {"simulator"}, NEW w \in Manual \ {"simulator"}, part = <<v, w>>
      PROVE  plan \in Seq(narrow)
  <2>1. r = <<w, v>>
    BY <1>6 DEF Reverse
  <2>2. Len(p) = 2 /\ p[1] = StopManual(w) /\ p[2] = StopManual(v)
    BY <2>1
  <2> HIDE DEF p
  <2>3. Joined(p) = p[1] \o p[2]
    BY <2>2 DEF Joined
  <2>4. StopManual(v) \in Seq(narrow) /\ StopManual(w) \in Seq(narrow)
    <3>1. StopManual(v) \in Seq(StopSteps({v})) /\ StopManual(w) \in Seq(StopSteps({w}))
      BY StopPlan
    <3>2. StopSteps({v}) \subseteq narrow /\ StopSteps({w}) \subseteq narrow
      BY <1>3
    <3> HIDE DEF narrow
    <3> QED BY <3>1, <3>2, Wider
  <2> HIDE DEF narrow
  <2> QED BY <2>2, <2>3, <2>4, <1>1
<1>7. narrow \subseteq wide
  BY DEF StopSteps
<1>8. ASSUME plan \in Seq(narrow), part # <<"simulator">>
      PROVE  plan \in Seq(wide)
  <2> HIDE DEF narrow, wide
  <2> QED BY <1>7, <1>8, Wider
<1>9. \A v, w : part \in {<<w>>, <<v, w>>} /\ w # "simulator" => part # <<"simulator">>
  OBVIOUS
<1> HIDE DEF narrow, wide
<1> QED
  BY PartTypes, <1>4, <1>5, <1>6, <1>8, <1>9 DEF narrow, wide

LEMMA RollbackPlan ==
  ASSUME NEW undo \in Undos
  PROVE  Joined(Each(StopManual, Reverse(undo))) \in Seq(StopSteps(Manual) \cup RefreshSteps("real"))
<1> DEFINE r == Reverse(undo)
           p == [i \in DOMAIN r |-> StopManual(r[i])]
<1>1. Joined(Each(StopManual, Reverse(undo))) = Joined(p)
  BY DEF Each
<1>2. CASE undo = <<>>
  <2>1. r = <<>>
    BY <1>2 DEF Reverse
  <2>2. Len(p) = 0
    BY <2>1
  <2> HIDE DEF p
  <2>3. Joined(p) = <<>>
    BY <2>2 DEF Joined
  <2> QED BY <1>1, <2>3
<1>3. ASSUME NEW w \in Manual, undo = <<w>>
      PROVE  Joined(p) \in Seq(StopSteps(Manual) \cup RefreshSteps("real"))
  <2>1. r = <<w>>
    BY <1>3 DEF Reverse
  <2>2. Len(p) = 1 /\ p[1] = StopManual(w)
    BY <2>1
  <2> HIDE DEF p
  <2>3. Joined(p) = StopManual(w)
    BY <2>2 DEF Joined
  <2> DEFINE mine == StopSteps({w}) \cup RefreshSteps("real")
             all == StopSteps(Manual) \cup RefreshSteps("real")
  <2>4. mine \subseteq all
    BY DEF StopSteps
  <2>5. Joined(p) \in Seq(mine)
    BY <2>3, StopPlan
  <2> HIDE DEF mine, all, p
  <2>6. Joined(p) \in Seq(all)
    BY <2>4, <2>5, Wider
  <2> QED BY <2>6 DEF all, p
<1> QED BY <1>1, <1>2, <1>3 DEF Undos
-----------------------------------------------------------------------------
(* The steps of a plan.                                                    *)

LEMMA StepTypes ==
  ASSUME NEW s \in Step
  PROVE  /\ s.op \in Later \cup {"spawn"} \cup Stopping
         /\ s.op = "ensure" => s.worker \in Fixed /\ s.config \in Configs /\ s.undo \in Undos
         /\ s.op = "manual" => s.worker \in Manual /\ s.config \in Configs /\ s.undo \in Undos
         /\ s.op = "start" => s.worker \in Pool /\ s.config \in Configs /\ s.undo = <<>>
         /\ s.op = "bridge" => s.worker \in Bridged /\ s.config \in Configs /\ s.undo = <<>>
         /\ s.op = "spawn" => s.worker \in Workers /\ s.config \in Configs /\ s.undo \in Undos
         /\ s.op \in Stopping => /\ s.worker \in Workers /\ s.patience \in {"short", "long"}
                                 /\ s.held \in Procs \cup {0}
                                 /\ s \in [op : Stopping, worker : Workers,
                                           patience : {"short", "long"}, held : Procs \cup {0}]
         /\ s.op = "refresh" => s.worker \in Surrounded /\ s.environment \in Environments
         /\ s.op = "settle" => s.mode \in Modes /\ s.selected \in SUBSET Pool
         /\ s.op = "select" => s.mode \in Modes
<1>1. CASE s \in [op : {"ensure"}, worker : Fixed, config : Configs, undo : Undos]
  BY <1>1 DEF Later, Stopping
<1>2. CASE s \in [op : {"manual"}, worker : Manual, config : Configs, undo : Undos]
  BY <1>2 DEF Later, Stopping
<1>3. CASE s \in [op : {"start"}, worker : Pool, config : Configs, undo : {<<>>}]
  BY <1>3 DEF Later, Stopping
<1>4. CASE s \in [op : {"bridge"}, worker : Bridged, config : Configs, undo : {<<>>}]
  BY <1>4 DEF Later, Stopping
<1>5. CASE s \in [op : {"spawn"}, worker : Workers, config : Configs, undo : Undos]
  BY <1>5 DEF Later, Stopping
<1>6. CASE s \in [op : Stopping, worker : Workers, patience : {"short", "long"}, held : Procs \cup {0}]
  BY <1>6 DEF Later, Stopping
<1>7. CASE s \in [op : {"refresh"}, worker : Surrounded, environment : Environments]
  BY <1>7 DEF Later, Stopping
<1>8. CASE s \in [op : {"settle"}, mode : Modes, selected : SUBSET Pool]
  BY <1>8 DEF Later, Stopping
<1>9. CASE s \in [op : {"select"}, mode : Modes]
  BY <1>9 DEF Later, Stopping
<1> QED
  BY <1>1, <1>2, <1>3, <1>4, <1>5, <1>6, <1>7, <1>8, <1>9 DEF Step

LEMMA StepsMade ==
  /\ \A w \in Workers, c \in Configs, undo \in Undos : StartStep("spawn", w, c, undo) \in Step
  /\ \A c \in Configs, w \in Bridged : StartStep("bridge", w, c, <<>>) \in Step
  /\ \A w \in Workers, p \in {"short", "long"} : StopStep(w, p) \in Step
  /\ \A m \in Modes : [op |-> "select", mode |-> m] \in Step
  /\ \A m \in Modes, ws \in SUBSET Pool : [op |-> "settle", mode |-> m, selected |-> ws] \in Step
  /\ EnsureSteps \subseteq Step /\ StopSteps(Manual) \subseteq Step /\ StopSteps(Pool) \subseteq Step
  /\ ManualSteps(Manual) \subseteq Step
  /\ \A e \in Environments : RefreshSteps(e) \subseteq Step
  /\ \A c \in Configs : StartSteps(Pool, c) \subseteq Step
<1>1. \A w \in Workers, c \in Configs, undo \in Undos : StartStep("spawn", w, c, undo) \in Step
  BY DEF StartStep, Step
<1>2. \A c \in Configs, w \in Bridged : StartStep("bridge", w, c, <<>>) \in Step
  BY DEF StartStep, Step
<1>3. \A w \in Workers, p \in {"short", "long"} : StopStep(w, p) \in Step
  BY DEF StopStep, Step, Stopping
<1>4. \A m \in Modes : [op |-> "select", mode |-> m] \in Step
  BY DEF Step
<1>5. \A m \in Modes, ws \in SUBSET Pool : [op |-> "settle", mode |-> m, selected |-> ws] \in Step
  BY DEF Step
<1>6. EnsureSteps \subseteq Step
  BY DEF EnsureSteps, Step
<1>7. \A ws \in SUBSET Workers : StopSteps(ws) \subseteq Step
  <2> TAKE ws \in SUBSET Workers
  <2>1. StopSteps(ws) \subseteq [op : Stopping, worker : Workers, patience : {"short", "long"},
                                 held : Procs \cup {0}]
    BY DEF StopSteps, Stopping
  <2> QED BY <2>1 DEF Step
<1>8. ManualSteps(Manual) \subseteq Step
  BY DEF ManualSteps, Step
<1>9. \A e \in Environments : RefreshSteps(e) \subseteq Step
  BY DEF RefreshSteps, Step
<1>10. \A c \in Configs : StartSteps(Pool, c) \subseteq Step
  BY DEF StartSteps, Step
<1> QED
  BY <1>1, <1>2, <1>3, <1>4, <1>5, <1>6, <1>7, <1>8, <1>9, <1>10, Finite

LEMMA StageMade ==
  ASSUME NEW s \in Step, s.op \in Stopping
  PROVE  /\ \A op \in Stopping : /\ [s EXCEPT !.op = op] \in Step
                                 /\ [s EXCEPT !.op = op].op = op
                                 /\ [s EXCEPT !.op = op].worker = s.worker
                                 /\ [s EXCEPT !.op = op].held = s.held
         /\ \A h \in Procs \cup {0} :
              /\ [s EXCEPT !.op = "join", !.held = h] \in Step
              /\ [s EXCEPT !.op = "join", !.held = h].op = "join"
              /\ [s EXCEPT !.op = "join", !.held = h].worker = s.worker
              /\ [s EXCEPT !.op = "join", !.held = h].held = h
<1> DEFINE S == [op : Stopping, worker : Workers, patience : {"short", "long"}, held : Procs \cup {0}]
<1>1. s \in S
  BY StepTypes
<1>2. \A op \in Stopping : [s EXCEPT !.op = op] \in S
  BY <1>1
<1>3. \A h \in Procs \cup {0} : [s EXCEPT !.op = "join", !.held = h] \in S
  BY <1>1 DEF Stopping
<1>4. S \subseteq Step
  BY DEF Step
<1> QED
  BY <1>1, <1>2, <1>3, <1>4

\* What a step of the handler leaves to do.
LEMMA ThenMakes ==
  ASSUME todo \in Seq(Step), todo # <<>>, NEW steps \in Seq(Step), Then(steps)
  PROVE  /\ todo' \in Seq(Step) /\ Len(todo') = Len(steps) + Len(todo) - 1
         /\ 1 \in DOMAIN todo /\ Top = todo[1] /\ Top \in Step
         /\ \A i \in DOMAIN todo' :
              \/ i \in DOMAIN steps /\ todo'[i] = steps[i]
              \/ /\ i > Len(steps) /\ i - Len(steps) + 1 \in DOMAIN todo
                 /\ todo'[i] = todo[i - Len(steps) + 1]
         /\ \A i \in DOMAIN steps : i \in DOMAIN todo' /\ todo'[i] = steps[i]
         /\ \A i \in DOMAIN todo : i > 1 =>
              i - 1 + Len(steps) \in DOMAIN todo' /\ todo'[i - 1 + Len(steps)] = todo[i]
         /\ todo' # <<>> => Head(todo') = todo'[1] /\ 1 \in DOMAIN todo'
<1>1. /\ 1 \in DOMAIN todo /\ Top = todo[1] /\ Top \in Step
  BY DEF Top
<1>2. /\ Tail(todo) \in Seq(Step) /\ Len(Tail(todo)) = Len(todo) - 1
      /\ \A i \in 1 .. Len(todo) - 1 : Tail(todo)[i] = todo[i + 1]
  BY HeadTailProperties
<1>3. todo' = steps \o Tail(todo)
  BY DEF Then
<1>4. /\ steps \o Tail(todo) \in Seq(Step)
      /\ Len(steps \o Tail(todo)) = Len(steps) + Len(Tail(todo))
      /\ \A i \in 1 .. Len(steps) + Len(Tail(todo)) :
           (steps \o Tail(todo))[i] = IF i <= Len(steps) THEN steps[i] ELSE Tail(todo)[i - Len(steps)]
  BY <1>2, ConcatProperties
<1>5. todo' \in Seq(Step) /\ Len(todo') = Len(steps) + Len(todo) - 1
  BY <1>2, <1>3, <1>4
<1>6. \A i \in 1 .. Len(steps) + Len(todo) - 1 :
         todo'[i] = IF i <= Len(steps) THEN steps[i] ELSE todo[i - Len(steps) + 1]
  BY <1>2, <1>3, <1>4
<1>7. /\ DOMAIN todo' = 1 .. Len(steps) + Len(todo) - 1
      /\ DOMAIN todo = 1 .. Len(todo) /\ DOMAIN steps = 1 .. Len(steps)
      /\ Len(todo) \in Nat /\ Len(steps) \in Nat
  BY <1>5
<1>8. todo' # <<>> => Head(todo') = todo'[1] /\ 1 \in DOMAIN todo'
  BY <1>5
<1>9. \A i \in DOMAIN todo' :
        \/ i \in DOMAIN steps /\ todo'[i] = steps[i]
        \/ /\ i > Len(steps) /\ i - Len(steps) + 1 \in DOMAIN todo
           /\ todo'[i] = todo[i - Len(steps) + 1]
  BY ONLY <1>6, <1>7
<1>10. \A i \in DOMAIN steps : i \in DOMAIN todo' /\ todo'[i] = steps[i]
  BY ONLY <1>6, <1>7, <1>1
<1>11. ASSUME NEW i \in DOMAIN todo, i > 1
       PROVE  i - 1 + Len(steps) \in DOMAIN todo' /\ todo'[i - 1 + Len(steps)] = todo[i]
  <2> DEFINE j == i - 1 + Len(steps)
  <2>1. j \in 1 .. Len(steps) + Len(todo) - 1 /\ j > Len(steps) /\ j - Len(steps) + 1 = i
    BY ONLY <1>7, <1>11
  <2> HIDE DEF j
  <2>2. j \in DOMAIN todo' /\ todo'[j] = todo[i]
    BY ONLY <1>6, <1>7, <2>1
  <2> QED BY <2>2 DEF j
<1> QED
  BY <1>1, <1>5, <1>8, <1>9, <1>10, <1>11
-----------------------------------------------------------------------------
(* Processes, tables and history.                                          *)

\* Processes may be asked or ended, and stay what they are.
Aged(new) ==
  /\ new \in [Procs -> Process]
  /\ \A p \in Procs : /\ new[p].worker = proc[p].worker /\ new[p].config = proc[p].config
                      /\ proc[p].life = "ended" => new[p].life = "ended"

LEMMA ProcsAge ==
  ASSUME ProcsOK
  PROVE  /\ Aged(proc)
         /\ \A ws : Aged(Signalled(ws))
         /\ \A ps : Aged(Cut(ps)) /\ \A p \in Procs \cap ps : Cut(ps)[p].life = "ended"
         /\ \A p \in Procs : /\ Aged([proc EXCEPT ![p].life = "ended"])
                             /\ proc[p].life = "running" => Aged([proc EXCEPT ![p].life = "asked"])
<1>1. Aged(proc)
  BY DEF ProcsOK, Aged
<1>2. ASSUME NEW ws
      PROVE  Aged(Signalled(ws))
  <2> DEFINE ps == {tracked[w] : w \in ws}
             new(p) == IF p \in ps /\ proc[p].life = "running"
                         THEN [proc[p] EXCEPT !.life = "asked"] ELSE proc[p]
  <2>1. Signalled(ws) = [p \in Procs |-> new(p)]
    BY DEF Signalled
  <2> HIDE DEF ps
  <2>2. \A p \in Procs : /\ new(p) \in Process
                         /\ new(p).worker = proc[p].worker /\ new(p).config = proc[p].config
                         /\ proc[p].life = "ended" => new(p).life = "ended"
    BY DEF ProcsOK, Process
  <2> HIDE DEF new
  <2> QED BY <2>1, <2>2 DEF Aged
<1>3. ASSUME NEW ps
      PROVE  Aged(Cut(ps)) /\ \A p \in Procs \cap ps : Cut(ps)[p].life = "ended"
  <2> DEFINE cut(p) == proc[p].cut \/ (proc[p].life = "asked" /\ proc[p].worker \notin Stubborn)
             new(p) == IF p \notin ps \/ Ended(p) THEN proc[p]
                       ELSE [proc[p] EXCEPT !.life = "ended", !.cut = cut(p)]
  <2>1. Cut(ps) = [p \in Procs |-> new(p)]
    BY DEF Cut
  <2>2. \A p \in Procs : cut(p) \in BOOLEAN
    BY DEF ProcsOK, Process
  <2> HIDE DEF cut
  <2>3. \A p \in Procs : /\ new(p) \in Process
                         /\ new(p).worker = proc[p].worker /\ new(p).config = proc[p].config
                         /\ proc[p].life = "ended" => new(p).life = "ended"
    BY <2>2 DEF ProcsOK, Process
  <2>4. \A p \in Procs \cap ps : new(p).life = "ended"
    BY <2>2 DEF ProcsOK, Process, Ended, Procs
  <2> HIDE DEF new
  <2> QED BY <2>1, <2>3, <2>4 DEF Aged
<1>4. ASSUME NEW p \in Procs
      PROVE  /\ Aged([proc EXCEPT ![p].life = "ended"])
             /\ proc[p].life = "running" => Aged([proc EXCEPT ![p].life = "asked"])
  BY DEF ProcsOK, Process, Aged
<1> QED BY <1>1, <1>2, <1>3, <1>4

LEMMA HistoryTypes ==
  ASSUME hist \in History, NEW b, b \in BOOLEAN
  PROVE  /\ [hist EXCEPT !.failed = b] \in History
         /\ [hist EXCEPT !.failed = b].forgot = hist.forgot
         /\ [hist EXCEPT !.failed = b].broken = hist.broken
         /\ [hist EXCEPT !.failed = b].beside = hist.beside
         /\ [hist EXCEPT !.broken = b] \in History
         /\ [hist EXCEPT !.broken = b].forgot = hist.forgot
         /\ [hist EXCEPT !.broken = b].broken = b
         /\ [hist EXCEPT !.broken = b].beside = hist.beside
         /\ [hist EXCEPT !.beside = b] \in History
         /\ [hist EXCEPT !.beside = b].forgot = hist.forgot
         /\ [hist EXCEPT !.beside = b].broken = hist.broken
         /\ [hist EXCEPT !.beside = b].beside = b
         /\ \A c \in BOOLEAN :
              /\ [hist EXCEPT !.forgot = c, !.broken = b] \in History
              /\ [hist EXCEPT !.forgot = c, !.broken = b].forgot = c
              /\ [hist EXCEPT !.forgot = c, !.broken = b].broken = b
              /\ [hist EXCEPT !.forgot = c, !.broken = b].beside = hist.beside
  BY DEF History

\* What a reap in the handler thread does to the tables.
LEMMA ReapDoes ==
  ASSUME TypeOK, NEW left, Reap(left)
  PROVE  /\ intended' = left /\ hist' \in History
         /\ hist'.forgot = hist.forgot /\ hist'.beside = hist.beside
         /\ hist'.broken <=> (hist.broken \/ "simulator" \in DeadEntries)
         /\ tracked' \in [Workers -> Procs \cup {0}]
         /\ \A w \in Workers : tracked'[w] = IF w \in DeadEntries THEN 0 ELSE tracked[w]
<1> DEFINE b == hist.broken \/ "simulator" \in DeadEntries
<1>1. hist \in History /\ b \in BOOLEAN
  BY DEF TypeOK, LauncherOK, History
<1>2. hist' = [hist EXCEPT !.broken = b]
  BY DEF Reap
<1> HIDE DEF b
<1>3. /\ hist' \in History /\ hist'.forgot = hist.forgot /\ hist'.beside = hist.beside
      /\ hist'.broken = b
  BY <1>1, <1>2, HistoryTypes
<1>4. /\ tracked' \in [Workers -> Procs \cup {0}]
      /\ \A w \in Workers : tracked'[w] = IF w \in DeadEntries THEN 0 ELSE tracked[w]
  BY DEF Reap, Without, TypeOK, ProcsOK
<1>5. intended' = left
  BY DEF Reap
<1> QED BY <1>3, <1>4, <1>5 DEF b

LEMMA TableTypes ==
  ASSUME TypeOK
  PROVE  /\ DeadEntries \subseteq Workers /\ Kept \subseteq intended /\ Kept \subseteq Workers
         /\ \A S : Dismissed(S) \subseteq intended
         /\ \A w \in DeadEntries : tracked[w] # 0 /\ Ended(tracked[w])
         /\ \A w \in intended \ Kept : w \in DeadEntries
  BY DEF TypeOK, ProcsOK, DeadEntries, Kept, Dismissed

LEMMA Pair ==
  ASSUME NEW x, NEW y
  PROVE  <<x>> \o <<y>> = <<x, y>>
<1> DEFINE S == {x, y}
<1>1. <<x>> \in Seq(S) /\ <<y>> \in Seq(S) /\ <<x, y>> \in Seq(S)
  OBVIOUS
<1>2. /\ <<x>> \o <<y>> \in Seq(S) /\ Len(<<x>> \o <<y>>) = 2
      /\ (<<x>> \o <<y>>)[1] = x /\ (<<x>> \o <<y>>)[2] = y
  BY <1>1
<1>3. Len(<<x, y>>) = 2 /\ <<x, y>>[1] = x /\ <<x, y>>[2] = y
  OBVIOUS
<1>4. ASSUME NEW s \in Seq(S), Len(s) = 2, s[1] = x, s[2] = y
      PROVE  s = <<x, y>>
  BY <1>1, <1>3, <1>4, SeqEqual
<1> HIDE DEF S
<1> QED BY <1>2, <1>4

\* _start_worker(): the entry of a living process is returned to, or its stop
\* comes first.
LEMMA StartWorkerDoes ==
  ASSUME TypeOK, todo # <<>>, NEW w \in Workers, NEW c \in Configs, NEW undo \in Undos,
         StartWorker(w, c, undo)
  PROVE  /\ \/ /\ Living(w) /\ proc[tracked[w]].config = c
               /\ Reap(Kept \cup {w}) /\ Then(<<>>)
            \/ /\ ~Living(w) /\ Reap(Kept)
               /\ Then(<<StartStep("spawn", w, c, undo)>>)
            \/ /\ Living(w) /\ proc[tracked[w]].config # c /\ Reap(Kept)
               /\ Then(<<StopStep(w, "short"), StartStep("spawn", w, c, undo)>>)
         /\ proc' = proc /\ closed' = closed /\ HandlerOnly
<1>1. CASE Living(w) /\ proc[tracked[w]].config = c
  BY <1>1 DEF StartWorker
<1>2. CASE ~Living(w)
  <2>1. <<>> \o <<StartStep("spawn", w, c, undo)>> = <<StartStep("spawn", w, c, undo)>>
    OBVIOUS
  <2> QED BY <1>2, <2>1 DEF StartWorker
<1>3. CASE Living(w) /\ proc[tracked[w]].config # c
  <2>1. <<StopStep(w, "short")>> \o <<StartStep("spawn", w, c, undo)>>
          = <<StopStep(w, "short"), StartStep("spawn", w, c, undo)>>
    BY Pair
  <2> QED BY <1>3, <2>1 DEF StartWorker
<1> QED BY <1>1, <1>2, <1>3

ConfigTypes == \A m \in Modes \cup {"none"}, e \in Environments : Config(m, e) \in Configs
LEMMA ConfigTyped ==
  /\ ConfigTypes /\ <<>> \in Undos
  /\ \A S : EnvironmentOf(S) \in Environments
  BY DEF ConfigTypes, Config, Configs, Undos, EnvironmentOf, Environments
-----------------------------------------------------------------------------
(* Types.                                                                  *)

Calling == Start \/ StartManualWorker \/ Ensure \/ Bridge \/ Refresh

LEMMA CallingDoes ==
  ASSUME TypeOK, Calling
  PROVE  /\ todo # <<>> /\ Top.op \in {"start", "manual", "ensure", "bridge", "refresh"}
         /\ proc' = proc /\ closed' = closed /\ HandlerOnly
         /\ \/ Then(<<>>) /\ UNCHANGED <<tables, hist>>
            \/ /\ Then(<<>>) /\ UNCHANGED <<tracked, hist>>
               /\ Top.worker \in Workers /\ intended' = intended \cup {Top.worker}
            \/ Then(<<>>) /\ Reap(Kept)
            \/ /\ Top.worker \in Workers
               /\ \E c \in Configs, undo \in Undos : StartWorker(Top.worker, c, undo)
<1>1. todo # <<>> /\ Top.op \in {"start", "manual", "ensure", "bridge", "refresh"}
  BY DEF Calling, Start, StartManualWorker, Ensure, Bridge, Refresh, Doing
<1>2. Top \in Step
  BY <1>1 DEF Top, TypeOK, HandlerOK
<1>3. /\ Top.op = "start" => Top.worker \in Workers /\ Top.config \in Configs /\ Top.undo \in Undos
      /\ Top.op = "manual" => Top.worker \in Workers /\ Top.undo \in Undos
      /\ Top.op = "ensure" => Top.worker \in Workers /\ Top.undo \in Undos
      /\ Top.op = "bridge" => Top.config \in Configs /\ Top.undo \in Undos
      /\ Top.op = "refresh" => Top.environment \in Environments
  BY <1>2, StepTypes, Finite, ConfigTyped
<1>4. mode \in Modes \cup {"none"} /\ intended \subseteq Workers
  BY DEF TypeOK, HandlerOK, ProcsOK
<1>5. ASSUME NEW w \in Workers, NEW c \in Configs, NEW undo \in Undos, StartWorker(w, c, undo)
      PROVE  proc' = proc /\ closed' = closed /\ HandlerOnly
  BY <1>1, <1>5, StartWorkerDoes
<1>6. CASE Start
  BY <1>1, <1>3, <1>5, <1>6 DEF Start, Doing
<1>7. CASE StartManualWorker
  <2>1. Config(mode, EnvironmentOf(Kept \cup ({Top.worker} \cap {"simulator"}))) \in Configs
    BY <1>4, ConfigTyped DEF ConfigTypes
  <2> QED
    BY <1>1, <1>3, <1>5, <1>7, <2>1 DEF StartManualWorker, Doing
<1>8. CASE Ensure
  <2>1. Config("none", EnvironmentOf(Kept)) \in Configs
    BY ConfigTyped DEF ConfigTypes
  <2>2. CASE Living(Top.worker)
    BY <1>1, <1>3, <1>8, <2>2 DEF Ensure, Doing
  <2>3. CASE ~Living(Top.worker)
    BY <1>1, <1>3, <1>5, <1>8, <2>1, <2>3 DEF Ensure, Doing
  <2> QED BY <2>2, <2>3
<1>9. CASE Bridge
  <2>1. CASE Top.worker \in intended \cap Manual
    BY <1>1, <1>3, <1>4, <1>5, <1>9, <2>1 DEF Bridge, Doing
  <2>2. CASE Top.worker \notin intended \cap Manual
    BY <1>1, <1>9, <2>2 DEF Bridge, Skip, tables
  <2> QED BY <2>1, <2>2
<1>10. CASE Refresh
  <2> DEFINE w == Top.worker
             old == proc[tracked[w]].config
             concerned == /\ w \in intended /\ tracked[w] # 0
                          /\ w \in {"control", "hand"} => w \in Manual
                          /\ w = "walking_logger" => old.mode = "walking"
             c == Config(old.mode, Top.environment)
  <2>1. CASE ~concerned
    <3>1. Skip
      BY <1>10, <2>1 DEF Refresh
    <3> QED BY <1>1, <3>1 DEF Skip, tables
  <2>2. CASE concerned /\ old.environment # Top.environment
    <3>1. StartWorker(w, c, <<>>)
      BY <1>10, <2>2 DEF Refresh
    <3>2. w \in Workers /\ tracked[w] \in Procs
      BY <1>4, <2>2 DEF TypeOK, ProcsOK
    <3>3. old.mode \in Modes \cup {"none"}
      BY <3>2 DEF TypeOK, ProcsOK, Process, Configs
    <3>4. c \in Configs /\ <<>> \in Undos
      BY <1>1, <1>3, <1>10, <3>3, ConfigTyped DEF ConfigTypes, Refresh, Doing
    <3> HIDE DEF c
    <3> QED BY <1>1, <1>5, <3>1, <3>2, <3>4
  <2>3. CASE concerned /\ old.environment = Top.environment
    BY <1>1, <1>10, <2>3 DEF Refresh
  <2> QED BY <2>1, <2>2, <2>3
<1> QED BY <1>6, <1>7, <1>8, <1>9, <1>10 DEF Calling

LEMMA ThenTyped ==
  ASSUME TypeOK, todo # <<>>, NEW steps \in Seq(Step), Then(steps)
  PROVE  todo' \in Seq(Step)
BY ThenMakes DEF TypeOK, HandlerOK

\* The handler thread leaves the other thread's variables alone.
LEMMA HandlerTyped ==
  ASSUME TypeOK, HandlerOnly, proc' \in [Procs -> Process], closed' \subseteq Procs,
         tracked' \in [Workers -> Procs \cup {0}], intended' \subseteq Workers,
         todo' \in Seq(Step), hist' \in History
  PROVE  TypeOK'
BY DEF TypeOK, ProcsOK, HandlerOK, LauncherOK, HandlerOnly, launcher

LEMMA CallingTyped ==
  ASSUME TypeOK, Calling
  PROVE  TypeOK'
<1>1. /\ todo # <<>> /\ proc' = proc /\ closed' = closed /\ HandlerOnly
  BY CallingDoes
<1>2. /\ proc' \in [Procs -> Process] /\ closed' \subseteq Procs
      /\ tracked \in [Workers -> Procs \cup {0}] /\ intended \subseteq Workers /\ hist \in History
  BY <1>1 DEF TypeOK, ProcsOK, LauncherOK
<1>3. \A left \in SUBSET Workers : Reap(left) =>
        /\ tracked' \in [Workers -> Procs \cup {0}] /\ intended' \subseteq Workers /\ hist' \in History
  BY ReapDoes
<1>4. Kept \in SUBSET Workers
  BY TableTypes
<1>5. <<>> \in Seq(Step)
  OBVIOUS
<1>6. CASE Then(<<>>) /\ UNCHANGED <<tables, hist>>
  BY <1>1, <1>2, <1>5, <1>6, ThenTyped, HandlerTyped DEF tables
<1>7. CASE /\ Then(<<>>) /\ UNCHANGED <<tracked, hist>>
           /\ Top.worker \in Workers /\ intended' = intended \cup {Top.worker}
  BY <1>1, <1>2, <1>5, <1>7, ThenTyped, HandlerTyped
<1>8. CASE Then(<<>>) /\ Reap(Kept)
  BY <1>1, <1>2, <1>3, <1>4, <1>5, <1>8, ThenTyped, HandlerTyped
<1>9. ASSUME Top.worker \in Workers, NEW c \in Configs, NEW undo \in Undos,
             StartWorker(Top.worker, c, undo)
      PROVE  TypeOK'
  <2> DEFINE w == Top.worker
             start == StartStep("spawn", w, c, undo)
             stop == StopStep(w, "short")
  <2>1. start \in Step /\ stop \in Step
    BY <1>9, StepsMade
  <2>2. Kept \cup {w} \in SUBSET Workers
    BY <1>4, <1>9
  <2>3. \/ Reap(Kept \cup {w}) /\ Then(<<>>)
        \/ Reap(Kept) /\ Then(<<start>>)
        \/ Reap(Kept) /\ Then(<<stop, start>>)
    BY <1>1, <1>9, StartWorkerDoes
  <2> HIDE DEF start, stop, w
  <2>4. <<start>> \in Seq(Step) /\ <<stop, start>> \in Seq(Step)
    BY <2>1
  <2>5. todo' \in Seq(Step)
    BY <1>1, <1>5, <2>3, <2>4, ThenTyped
  <2>6. tracked' \in [Workers -> Procs \cup {0}] /\ intended' \subseteq Workers /\ hist' \in History
    BY <1>3, <1>4, <2>2, <2>3
  <2> QED BY <1>1, <1>2, <2>5, <2>6, HandlerTyped
<1> QED BY <1>6, <1>7, <1>8, <1>9, CallingDoes
-----------------------------------------------------------------------------
(* What most steps keep.                                                   *)

\* A step other than a spawn, of a request or of a process: processes age, and
\* only entries of dead ones are dropped.
Quiet ==
  /\ Aged(proc')
  /\ \A w \in Workers : tracked'[w] = tracked[w] \/ (tracked'[w] = 0 /\ Ended(tracked[w]))
  /\ UNCHANGED launcher
  /\ shutdown => shutdown'
  /\ hist'.forgot = hist.forgot /\ hist'.beside = hist.beside
  /\ todo # <<>> \/ Watching \/ UNCHANGED <<todo, tracked>>

LEMMA QuietKeeps ==
  ASSUME TypeOK, SharedInv, Quiet
  PROVE  SharedInv'
<1>1. /\ proc \in [Procs -> Process] /\ tracked \in [Workers -> Procs \cup {0}]
      /\ seen \in [Workers -> Procs \cup {0}] /\ names \subseteq Workers
      /\ 0 \notin Procs
  BY DEF TypeOK, ProcsOK, LauncherOK, Procs
<1>2. /\ proc' \in [Procs -> Process]
      /\ \A p \in Procs : /\ proc'[p].worker = proc[p].worker
                          /\ proc[p].life = "ended" => proc'[p].life = "ended"
      /\ \A w \in Workers : tracked'[w] = tracked[w] \/ (tracked'[w] = 0 /\ Ended(tracked[w]))
      /\ main' = main /\ seen' = seen /\ size' = size /\ names' = names
      /\ shutdown => shutdown'
      /\ hist'.forgot = hist.forgot /\ hist'.beside = hist.beside
      /\ todo # <<>> \/ Watching \/ (todo' = todo /\ tracked' = tracked)
  <2>1. main' = main /\ seen' = seen /\ size' = size /\ names' = names
    BY DEF Quiet, launcher
  <2>2. todo # <<>> \/ Watching \/ (todo' = todo /\ tracked' = tracked)
    BY DEF Quiet
  <2>3. Aged(proc')
    BY DEF Quiet
  <2>4. /\ proc' \in [Procs -> Process]
        /\ \A p \in Procs : /\ proc'[p].worker = proc[p].worker
                            /\ proc[p].life = "ended" => proc'[p].life = "ended"
    BY <2>3 DEF Aged
  <2>5. /\ \A w \in Workers : tracked'[w] = tracked[w] \/ (tracked'[w] = 0 /\ Ended(tracked[w]))
        /\ shutdown => shutdown'
        /\ hist'.forgot = hist.forgot /\ hist'.beside = hist.beside
    BY DEF Quiet
  <2> QED BY <2>1, <2>2, <2>4, <2>5
<1>3. OwnedOK'
  BY <1>1, <1>2 DEF SharedInv, OwnedOK
<1>4. TrackedOK'
  <2> SUFFICES ASSUME ~hist'.forgot, main' # "done", NEW p \in Procs, ~Ended(p)'
               PROVE  tracked'[proc'[p].worker] = p
    BY DEF TrackedOK
  <2>1. ~Ended(p) /\ p # 0
    BY <1>1, <1>2 DEF Ended
  <2>2. tracked[proc[p].worker] = p /\ proc[p].worker \in Workers
    BY <1>1, <1>2, <2>1 DEF SharedInv, TrackedOK, Process
  <2> QED BY <1>2, <2>1, <2>2
<1>5. LeftOK'
  BY <1>2 DEF SharedInv, LeftOK, Watching
<1>6. SizeOK'
  BY <1>2 DEF SharedInv, LeftOK, SizeOK, Watching, Entries
<1>7. RaisedOK'
  BY <1>2 DEF SharedInv, RaisedOK
<1>8. AwaitedOK'
  BY <1>1, <1>2 DEF SharedInv, AwaitedOK, Ended
<1>9. SafetySequenceKept'
  BY <1>1, <1>2 DEF SharedInv, SafetySequenceKept, Ended, Early
<1>10. NoneLeftOK'
  BY <1>1, <1>2 DEF SharedInv, NoneLeftOK, Ended
<1> QED
  BY <1>3, <1>4, <1>5, <1>6, <1>7, <1>8, <1>9, <1>10 DEF SharedInv

\* A step of the main thread or of a process leaves the request alone.
LEMMA StillKeeps ==
  ASSUME TypeOK, PlanInv, Aged(proc'), UNCHANGED <<todo, closed>>,
         \A w \in Workers : tracked'[w] \in {0, tracked[w]}
  PROVE  PlanInv'
<1>1. /\ proc \in [Procs -> Process] /\ tracked \in [Workers -> Procs \cup {0}]
      /\ closed \subseteq Procs /\ 0 \notin Procs /\ todo \in Seq(Step)
  BY DEF TypeOK, ProcsOK, HandlerOK, Procs
<1>2. \A p \in Procs : /\ proc'[p].worker = proc[p].worker
                       /\ proc[p].life = "ended" => proc'[p].life = "ended"
  BY DEF Aged
<1>3. PlanOK'
  BY DEF PlanInv, PlanOK
<1>4. StageOK'
  <2> SUFFICES ASSUME todo # <<>>
               PROVE  StageOK'
    BY DEF StageOK
  <2>1. Top \in Step /\ Top' = Top
    BY <1>1 DEF Top
  <2>2. Top.op \in Holding \cup {"discard", "spawn"} => Top.worker \in Workers
    BY <2>1, StepTypes DEF Holding, Stopping
  <2>3. Top.op \in Holding => Top.held \in Procs \cup {0}
    BY <2>1, StepTypes DEF Holding, Stopping
  <2>4. /\ Top.op \in Holding =>
             /\ tracked[Top.worker] \in {0, Top.held}
             /\ Top.held # 0 => proc[Top.held].worker = Top.worker
        /\ Top.op \in {"close", "forget"} => Ended(Top.held)
        /\ Top.op = "discard" => tracked[Top.worker] = 0
        /\ Top.op = "spawn" => Ended(tracked[Top.worker])
    BY DEF PlanInv, StageOK
  <2> DEFINE t == Top
  <2>5. t' = t
    BY <2>1
  <2> HIDE DEF t
  <2>6. t.op \in Holding =>
             /\ tracked'[t.worker] \in {0, t.held}
             /\ t.held # 0 => proc'[t.held].worker = t.worker
    BY <1>2, <2>2, <2>3, <2>4 DEF t
  <2>7. t.op \in {"close", "forget"} => Ended(t.held)'
    BY <1>2, <2>3, <2>4, <2>5 DEF t, Ended, Holding
  <2>8. t.op = "discard" => tracked'[t.worker] = 0
    BY <2>2, <2>4 DEF t
  <2>9. t.op = "spawn" => Ended(tracked[t.worker])'
    BY <1>1, <1>2, <2>2, <2>4, <2>5 DEF t, Ended
  <2> QED BY <2>5, <2>6, <2>7, <2>8, <2>9 DEF StageOK, t
<1>5. ClosedOK'
  <2> SUFFICES ASSUME NEW w \in Workers, tracked'[w] \in closed'
               PROVE  (Doing("forget") /\ Top.worker = w)'
    BY DEF ClosedOK
  <2>1. Doing("forget") /\ Top.worker = w
    BY <1>1 DEF PlanInv, ClosedOK
  <2> QED BY <2>1 DEF Doing, Top
<1> QED BY <1>3, <1>4, <1>5 DEF PlanInv

\* What a step of the handler puts in front of the rest of the request.
LEMMA ThenPlans ==
  ASSUME TypeOK, PlanOK, todo # <<>>, NEW steps \in Seq(Step), Then(steps)
  PROVE  /\ steps # <<>> => todo' # <<>> /\ Top' = steps[1]
         /\ Top.op \notin Stopping /\ (\A i \in DOMAIN steps : i > 1 =>
               \/ steps[i].op \in Later
               \/ /\ i = 2 /\ steps[i].op = "spawn" /\ steps[1].op \in Stopping
                  /\ steps[1].worker = steps[i].worker)
              => PlanOK' /\ (steps = <<>> /\ todo' # <<>> => Top'.op \in Later)
         /\ Len(steps) = 1 /\ steps[1].op \in Stopping /\ steps[1].worker = Top.worker
              => PlanOK'
         /\ steps = <<>> => /\ PlanOK'
                            /\ todo' # <<>> => \/ Top'.op \in Later
                                               \/ Top'.op = "spawn" /\ Top'.worker = Top.worker
<1>1. /\ todo' \in Seq(Step) /\ Len(todo') = Len(steps) + Len(todo) - 1
      /\ 1 \in DOMAIN todo /\ Top = todo[1] /\ Top \in Step
      /\ \A i \in DOMAIN todo' :
              \/ i \in DOMAIN steps /\ todo'[i] = steps[i]
              \/ /\ i > Len(steps) /\ i - Len(steps) + 1 \in DOMAIN todo
                 /\ todo'[i] = todo[i - Len(steps) + 1]
      /\ \A i \in DOMAIN steps : i \in DOMAIN todo' /\ todo'[i] = steps[i]
      /\ todo' # <<>> => Head(todo') = todo'[1] /\ 1 \in DOMAIN todo'
  BY ThenMakes DEF TypeOK, HandlerOK
<1>2. \A i \in DOMAIN todo :
        i > 1 => \/ todo[i].op \in Later
                 \/ i = 2 /\ todo[i].op = "spawn" /\ Top.op \in Stopping
                          /\ Top.worker = todo[i].worker
  BY <1>1 DEF PlanOK
<1>3. /\ DOMAIN todo' = 1 .. Len(todo') /\ DOMAIN todo = 1 .. Len(todo)
      /\ DOMAIN steps = 1 .. Len(steps) /\ Len(steps) \in Nat
      /\ Len(todo) \in Nat /\ Len(todo') \in Nat
      /\ (steps = <<>>) = (Len(steps) = 0)
  BY <1>1 DEF TypeOK, HandlerOK
<1>4. steps # <<>> => todo' # <<>> /\ Top' = steps[1]
  <2> SUFFICES ASSUME steps # <<>>
               PROVE  todo' # <<>> /\ Top' = steps[1]
    OBVIOUS
  <2>1. 1 \in DOMAIN steps
    BY <1>3
  <2>2. 1 \in DOMAIN todo' /\ todo'[1] = steps[1]
    BY <1>1, <2>1
  <2> QED BY <1>1, <2>2 DEF Top
<1>5. steps = <<>> /\ todo' # <<>> => /\ 2 \in DOMAIN todo /\ Top' = todo[2]
  <2> SUFFICES ASSUME steps = <<>>, todo' # <<>>
               PROVE  2 \in DOMAIN todo /\ Top' = todo[2]
    OBVIOUS
  <2>1. 1 \in DOMAIN todo' /\ Head(todo') = todo'[1] /\ Len(steps) = 0 /\ 1 \notin DOMAIN steps
    BY <1>1, <1>3
  <2>2. 1 - Len(steps) + 1 \in DOMAIN todo /\ todo'[1] = todo[1 - Len(steps) + 1]
    BY ONLY <1>1, <2>1
  <2>3. 1 - Len(steps) + 1 = 2
    BY <2>1
  <2> QED BY <2>1, <2>2, <2>3 DEF Top
<1>6. ASSUME Top.op \notin Stopping,
             \A i \in DOMAIN steps : i > 1 =>
               \/ steps[i].op \in Later
               \/ /\ i = 2 /\ steps[i].op = "spawn" /\ steps[1].op \in Stopping
                  /\ steps[1].worker = steps[i].worker
      PROVE  PlanOK' /\ (steps = <<>> /\ todo' # <<>> => Top'.op \in Later)
  <2>1. \A i \in DOMAIN todo : i > 1 => todo[i].op \in Later
    BY <1>2, <1>6
  <2>2. ASSUME NEW i \in DOMAIN todo', i > 1
        PROVE  \/ todo'[i].op \in Later
               \/ i = 2 /\ todo'[i].op = "spawn" /\ todo'[1].op \in Stopping
                        /\ todo'[1].worker = todo'[i].worker
    <3>1. CASE i \in DOMAIN steps /\ todo'[i] = steps[i]
      <4>1. 1 \in DOMAIN steps
        BY <1>3, <2>2, <3>1
      <4>2. todo'[1] = steps[1]
        BY <1>1, <4>1
      <4> QED BY <1>6, <2>2, <3>1, <4>2
    <3>2. CASE i > Len(steps) /\ i - Len(steps) + 1 \in DOMAIN todo
               /\ todo'[i] = todo[i - Len(steps) + 1]
      <4>1. i - Len(steps) + 1 > 1
        BY <1>3, <3>2
      <4> QED BY <2>1, <3>2, <4>1
    <3> QED BY <1>1, <3>1, <3>2
  <2> QED BY <1>5, <2>1, <2>2 DEF PlanOK
<1>7. ASSUME Len(steps) = 1, steps[1].op \in Stopping, steps[1].worker = Top.worker
      PROVE  PlanOK'
  <2> SUFFICES ASSUME NEW i \in DOMAIN todo', i > 1
               PROVE  \/ todo'[i].op \in Later
                      \/ i = 2 /\ todo'[i].op = "spawn" /\ todo'[1].op \in Stopping
                               /\ todo'[1].worker = todo'[i].worker
    BY DEF PlanOK
  <2>1. i \notin DOMAIN steps /\ 1 \in DOMAIN steps /\ i - Len(steps) + 1 = i
    BY <1>3, <1>7
  <2>2. i \in DOMAIN todo /\ todo'[i] = todo[i] /\ todo'[1] = steps[1]
    BY <1>1, <2>1
  <2> QED BY <1>2, <1>7, <2>2
<1>8. ASSUME steps = <<>>
      PROVE  /\ PlanOK'
             /\ todo' # <<>> => \/ Top'.op \in Later
                                \/ Top'.op = "spawn" /\ Top'.worker = Top.worker
  <2>1. \A i \in DOMAIN todo : i > 2 => todo[i].op \in Later
    BY <1>2, <1>3
  <2>2. ASSUME NEW i \in DOMAIN todo', i > 1
        PROVE  todo'[i].op \in Later
    <3>1. i \notin DOMAIN steps /\ i - Len(steps) + 1 = i + 1
      BY <1>3, <1>8
    <3>2. i + 1 \in DOMAIN todo /\ todo'[i] = todo[i + 1]
      BY <1>1, <3>1
    <3> QED BY <1>3, <2>1, <2>2, <3>2
  <2> QED BY <1>2, <1>5, <1>8, <2>2 DEF PlanOK
<1> QED BY <1>4, <1>6, <1>7, <1>8
-----------------------------------------------------------------------------
(* The plan of a mode and of its end.                                      *)

SettleStep(m, selected) == [op |-> "settle", mode |-> m, selected |-> selected]
SelectStep(m) == [op |-> "select", mode |-> m]
BridgeSteps(c) == [op : {"bridge"}, worker : Bridged, config : {c}, undo : {<<>>}]

\* Each worker is stopped, and the mode is settled at the end.
StopsThenSettles(plan, stopped) ==
  /\ \A i \in DOMAIN plan : plan[i].op = "settle" => i = Len(plan)
  /\ \A w \in stopped : \E i \in DOMAIN plan : plan[i].op = "stop" /\ plan[i].worker = w

\* One step for each worker of a set.
LEMMA ApplyPlan ==
  ASSUME NEW m \in Modes, NEW selected \in SUBSET Pool, NEW stopped \in SUBSET Pool,
         NEW c \in Configs, NEW plan,
         plan = EachOf(LAMBDA w : StopStep(w, "short"), stopped)
                  \o EnsureFixed(<<>>)
                  \o EachOf(LAMBDA w : StartStep("start", w, c, <<>>), selected)
                  \o <<SettleStep(m, selected)>>
  PROVE  /\ plan \in Seq(StopSteps(stopped) \cup EnsureSteps \cup StartSteps(selected, c)
                           \cup {SettleStep(m, selected)})
         /\ StopsThenSettles(plan, stopped)
<1> DEFINE o == SetToSeq(stopped)
           q == SetToSeq(selected)
           stops == [i \in DOMAIN o |-> StopStep(o[i], "short")]
           starts == [i \in DOMAIN q |-> StartStep("start", q[i], c, <<>>)]
           ensure == EnsureFixed(<<>>)
           settle == SettleStep(m, selected)
           before == StopSteps(stopped) \cup EnsureSteps \cup StartSteps(selected, c)
<1>1. plan = ((stops \o ensure) \o starts) \o <<settle>>
  BY DEF EachOf, Each
<1>2. /\ o \in Seq(stopped) /\ q \in Seq(selected)
      /\ \A w \in stopped : \E i \in DOMAIN o : o[i] = w
  BY Finite, Ordered
<1>3. ensure \in Seq(EnsureSteps)
  BY PlanTypes, ConfigTyped
<1>4. \A w \in stopped : /\ StopStep(w, "short") \in StopSteps(stopped)
                         /\ StopStep(w, "short").op = "stop" /\ StopStep(w, "short").worker = w
  BY DEF StopStep, StopSteps
<1>5. \A w \in selected : StartStep("start", w, c, <<>>) \in StartSteps(selected, c)
  BY DEF StartStep, StartSteps
<1>6. \A s \in before : s.op # "settle"
  BY DEF StopSteps, EnsureSteps, StartSteps
<1>7. stops \in Seq(StopSteps(stopped)) /\ DOMAIN stops = DOMAIN o
  <2> DEFINE stop(w) == StopStep(w, "short")
  <2>1. stops = [i \in DOMAIN o |-> stop(o[i])] /\ \A w \in stopped : stop(w) \in StopSteps(stopped)
    BY <1>4
  <2> HIDE DEF o, stops, stop
  <2> QED BY <1>2, <2>1
<1>8. starts \in Seq(StartSteps(selected, c))
  <2> DEFINE start(w) == StartStep("start", w, c, <<>>)
  <2>1. starts = [i \in DOMAIN q |-> start(q[i])] /\ \A w \in selected : start(w) \in StartSteps(selected, c)
    BY <1>5
  <2> HIDE DEF q, starts, start
  <2> QED BY <1>2, <2>1
<1>9. \A w \in stopped : \E i \in DOMAIN stops : stops[i].op = "stop" /\ stops[i].worker = w
  <2> TAKE w \in stopped
  <2>1. PICK i \in DOMAIN o : o[i] = w
    BY <1>2
  <2>2. stops[i] = StopStep(w, "short")
    BY <2>1
  <2> QED BY <1>4, <1>7, <2>1, <2>2
<1> HIDE DEF o, q, stops, starts, ensure, settle
<1>10. stops \in Seq(before) /\ ensure \in Seq(before) /\ starts \in Seq(before)
  <2>1. /\ StopSteps(stopped) \subseteq before /\ EnsureSteps \subseteq before
        /\ StartSteps(selected, c) \subseteq before
    OBVIOUS
  <2> HIDE DEF before
  <2> QED BY <1>3, <1>7, <1>8, <2>1, Wider
<1> HIDE DEF before
<1> DEFINE a == stops \o ensure
           b == a \o starts
           all == before \cup {settle}
<1>11. a \in Seq(before) /\ \A i \in DOMAIN stops : i \in DOMAIN a /\ a[i] = stops[i]
  BY <1>10, Concatenated
<1> HIDE DEF a
<1>12. b \in Seq(before) /\ \A i \in DOMAIN a : i \in DOMAIN b /\ b[i] = a[i]
  BY <1>10, <1>11, Concatenated
<1> HIDE DEF b
<1>13. b \in Seq(all) /\ <<settle>> \in Seq(all)
  BY <1>12, Wider
<1> HIDE DEF all
<1>14. /\ plan \in Seq(all) /\ Len(plan) = Len(b) + 1
       /\ \A i \in DOMAIN b : i \in DOMAIN plan /\ plan[i] = b[i]
  <2>1. plan = b \o <<settle>>
    BY <1>1 DEF a, b
  <2>2. Len(<<settle>>) = 1
    OBVIOUS
  <2>3. /\ b \o <<settle>> \in Seq(all) /\ Len(b \o <<settle>>) = Len(b) + Len(<<settle>>)
        /\ \A i \in DOMAIN b : i \in DOMAIN (b \o <<settle>>) /\ (b \o <<settle>>)[i] = b[i]
    BY <1>13, Concatenated
  <2> QED BY <2>1, <2>2, <2>3
<1>15. ASSUME NEW i \in DOMAIN plan, plan[i].op = "settle"
       PROVE  i = Len(plan)
  <2>1. \A j \in DOMAIN b : b[j].op # "settle"
    BY <1>6, <1>12
  <2>2. i \notin DOMAIN b
    BY <1>14, <1>15, <2>1
  <2> QED BY <1>13, <1>14, <2>2
<1>16. \A i \in DOMAIN stops : i \in DOMAIN plan /\ plan[i] = stops[i]
  BY <1>11, <1>12, <1>14
<1>17. \A w \in stopped : \E i \in DOMAIN plan : plan[i].op = "stop" /\ plan[i].worker = w
  BY <1>9, <1>16
<1> QED BY <1>14, <1>15, <1>17 DEF all, before, settle, StopsThenSettles

LEMMA SettlePlan ==
  ASSUME NEW m \in Modes, NEW c \in Configs, NEW plan,
         plan = Each(LAMBDA w : StartStep("bridge", w, c, <<>>), <<"simulator", "control", "hand">>)
                  \o <<SelectStep(m)>>
  PROVE  plan \in Seq(BridgeSteps(c) \cup {SelectStep(m)})
<1> DEFINE bridges == <<StartStep("bridge", "simulator", c, <<>>),
                        StartStep("bridge", "control", c, <<>>),
                        StartStep("bridge", "hand", c, <<>>)>>
           order == <<"simulator", "control", "hand">>
           each == [i \in DOMAIN order |-> StartStep("bridge", order[i], c, <<>>)]
           select == SelectStep(m)
           all == BridgeSteps(c) \cup {select}
<1>1. plan = each \o <<select>>
  BY DEF Each
<1>2. each = bridges
  OBVIOUS
<1>3. \A w \in Bridged : StartStep("bridge", w, c, <<>>) \in BridgeSteps(c)
  BY DEF StartStep, BridgeSteps
<1>4. bridges \in Seq(BridgeSteps(c))
  BY <1>3 DEF Bridged
<1> HIDE DEF bridges, each, select
<1>5. BridgeSteps(c) \subseteq all /\ <<select>> \in Seq(all)
  OBVIOUS
<1> HIDE DEF all
<1>6. bridges \in Seq(all)
  BY <1>4, <1>5, Wider
<1>7. plan \in Seq(all)
  BY <1>1, <1>2, <1>5, <1>6, Concatenated
<1> QED BY <1>7 DEF all, select

\* Every step of a plan is a step that may be waiting.
LEMMA PlansMade ==
  ASSUME NEW c \in Configs, NEW m \in Modes, NEW selected \in SUBSET Pool,
         NEW stopped \in SUBSET Pool, NEW e \in Environments
  PROVE  /\ \A s \in StopSteps(stopped) \cup EnsureSteps \cup StartSteps(selected, c)
                       \cup {SettleStep(m, selected)} : s \in Step /\ s.op \in Later
         /\ \A s \in BridgeSteps(c) \cup {SelectStep(m)} : s \in Step /\ s.op \in Later
         /\ \A s \in EnsureSteps \cup ManualSteps(Manual) \cup RefreshSteps(e) :
              s \in Step /\ s.op \in Later
         /\ \A s \in StopSteps(Manual) \cup RefreshSteps(e) : s \in Step /\ s.op \in Later
<1>1. /\ StopSteps(stopped) \subseteq StopSteps(Pool)
      /\ StartSteps(selected, c) \subseteq StartSteps(Pool, c)
  BY DEF StopSteps, StartSteps
<1>2. /\ EnsureSteps \subseteq Step /\ StopSteps(Manual) \subseteq Step /\ StopSteps(Pool) \subseteq Step
      /\ ManualSteps(Manual) \subseteq Step
      /\ RefreshSteps(e) \subseteq Step /\ StartSteps(Pool, c) \subseteq Step
      /\ SettleStep(m, selected) \in Step /\ SelectStep(m) \in Step
  BY StepsMade DEF SettleStep, SelectStep
<1>3. \A s \in BridgeSteps(c) : s \in Step /\ s.op \in Later
  BY DEF BridgeSteps, Step, Later
<1>4. /\ \A s \in EnsureSteps : s.op \in Later
      /\ \A s \in StopSteps(Manual) \cup StopSteps(Pool) : s.op \in Later
      /\ \A s \in ManualSteps(Manual) : s.op \in Later
  BY DEF EnsureSteps, StopSteps, ManualSteps, Later
<1>5. /\ \A s \in RefreshSteps(e) : s.op \in Later
      /\ \A s \in StartSteps(Pool, c) : s.op \in Later
      /\ SettleStep(m, selected).op \in Later /\ SelectStep(m).op \in Later
  BY DEF RefreshSteps, StartSteps, SettleStep, SelectStep, Later
<1> QED BY <1>1, <1>2, <1>3, <1>4, <1>5
-----------------------------------------------------------------------------
(* The handler thread: calling and settling.                               *)

\* A request waiting at a step that is not part of a stop, and not a start.
LEMMA StageLater ==
  ASSUME todo' # <<>> => Top'.op \in Later
  PROVE  StageOK'
BY DEF StageOK, Later, Holding

LEMMA ClosedKept ==
  ASSUME TypeOK, ClosedOK, ~Doing("forget"), closed' \subseteq closed,
         \A w \in Workers : tracked'[w] \in {0, tracked[w]}
  PROVE  ClosedOK'
<1>1. \A w \in Workers : tracked[w] \notin closed
  BY DEF ClosedOK
<1>2. 0 \notin closed
  BY DEF TypeOK, ProcsOK, Procs
<1> QED BY <1>1, <1>2 DEF ClosedOK

LEMMA HandlerQuiet ==
  ASSUME Aged(proc'), HandlerOnly, todo # <<>>,
         \A w \in Workers : tracked'[w] = tracked[w] \/ (tracked'[w] = 0 /\ Ended(tracked[w])),
         hist'.forgot = hist.forgot, hist'.beside = hist.beside
  PROVE  Quiet
BY DEF Quiet, HandlerOnly, launcher

LEMMA ReapQuiet ==
  ASSUME TypeOK, NEW left \in SUBSET Workers, Reap(left)
  PROVE  /\ \A w \in Workers : tracked'[w] = tracked[w] \/ (tracked'[w] = 0 /\ Ended(tracked[w]))
         /\ \A w \in Workers : tracked'[w] \in {0, tracked[w]}
         /\ hist'.forgot = hist.forgot /\ hist'.beside = hist.beside
         /\ tracked' \in [Workers -> Procs \cup {0}] /\ intended' \subseteq Workers
         /\ hist' \in History
BY ReapDoes, TableTypes

LEMMA CallingKeeps ==
  ASSUME CoreInv, Calling
  PROVE  CoreInv'
<1>1. TypeOK /\ SharedInv /\ PlanOK /\ StageOK /\ ClosedOK
  BY DEF CoreInv, PlanInv
<1>2. /\ todo # <<>> /\ Top.op \in {"start", "manual", "ensure", "bridge", "refresh"}
      /\ proc' = proc /\ closed' = closed /\ HandlerOnly
  BY <1>1, CallingDoes
<1>3. TypeOK'
  BY <1>1, CallingTyped
<1>4. \/ UNCHANGED <<tables, hist>>
      \/ UNCHANGED <<tracked, hist>>
      \/ \E left \in SUBSET Workers : Reap(left)
  <2>1. \A w \in Workers : Kept \in SUBSET Workers /\ Kept \cup {w} \in SUBSET Workers
    BY <1>1, TableTypes
  <2>2. Kept \in SUBSET Workers
    BY <1>1, TableTypes
  <2>3. ASSUME NEW w \in Workers, NEW c \in Configs, NEW undo \in Undos, StartWorker(w, c, undo)
        PROVE  Reap(Kept \cup {w}) \/ Reap(Kept)
    BY <1>1, <1>2, <2>3, StartWorkerDoes
  <2> QED BY <1>1, <2>1, <2>2, <2>3, CallingDoes
<1>5. /\ \A w \in Workers : tracked'[w] = tracked[w] \/ (tracked'[w] = 0 /\ Ended(tracked[w]))
      /\ \A w \in Workers : tracked'[w] \in {0, tracked[w]}
      /\ hist'.forgot = hist.forgot /\ hist'.beside = hist.beside
  BY <1>1, <1>4, ReapQuiet DEF tables
<1>6. SharedInv'
  <2>1. Aged(proc')
    BY <1>1, <1>2, ProcsAge DEF TypeOK
  <2> QED BY <1>1, <1>2, <1>5, <2>1, HandlerQuiet, QuietKeeps
<1>7. ClosedOK'
  BY <1>1, <1>2, <1>5, ClosedKept DEF Doing
<1>8. Top.op \notin Stopping
  BY <1>2 DEF Stopping
<1>9. ASSUME Then(<<>>)
      PROVE  PlanOK' /\ StageOK'
  <2>1. <<>> \in Seq(Step) /\ \A i \in DOMAIN <<>> : FALSE
    OBVIOUS
  <2> QED BY <1>1, <1>2, <1>8, <1>9, <2>1, ThenPlans, StageLater
<1>10. ASSUME NEW w \in Workers, NEW c \in Configs, NEW undo \in Undos, StartWorker(w, c, undo)
       PROVE  PlanOK' /\ StageOK'
  <2> DEFINE start == StartStep("spawn", w, c, undo)
             stop == StopStep(w, "short")
  <2>1. /\ start \in Step /\ start.op = "spawn" /\ start.worker = w
        /\ stop \in Step /\ stop.op = "stop" /\ stop.worker = w
    BY StepsMade DEF StartStep, StopStep
  <2>2. \/ Then(<<>>)
        \/ ~Living(w) /\ Then(<<start>>)
        \/ Then(<<stop, start>>)
    BY <1>1, <1>2, <1>10, StartWorkerDoes
  <2> HIDE DEF start, stop
  <2>3. /\ <<start>> \in Seq(Step) /\ <<start>> # <<>> /\ <<start>>[1] = start
        /\ \A i \in DOMAIN <<start>> : i = 1
        /\ <<stop, start>> \in Seq(Step) /\ <<stop, start>> # <<>> /\ <<stop, start>>[1] = stop
        /\ <<stop, start>>[2] = start
        /\ \A i \in DOMAIN <<stop, start>> : i \in {1, 2}
    BY <2>1
  <2>4. CASE ~Living(w) /\ Then(<<start>>)
    <3> DEFINE steps == <<start>>
    <3>3. steps \in Seq(Step) /\ steps # <<>> /\ steps[1] = start /\ \A i \in DOMAIN steps : ~(i > 1)
      BY <2>3
    <3> HIDE DEF steps
    <3>4. Then(steps)
      BY <2>4 DEF steps
    <3>1. PlanOK' /\ Top' = start
      BY <1>1, <1>2, <1>8, <3>3, <3>4, ThenPlans
    <3>2. Ended(tracked[w])'
      BY <1>2, <1>5, <2>4 DEF Living, Ended
    <3> QED BY <2>1, <3>1, <3>2 DEF StageOK, Holding
  <2>5. CASE Then(<<stop, start>>)
    <3> DEFINE steps == <<stop, start>>
    <3>1. \A i \in DOMAIN steps : i > 1 =>
               \/ steps[i].op \in Later
               \/ /\ i = 2 /\ steps[i].op = "spawn" /\ steps[1].op \in Stopping
                  /\ steps[1].worker = steps[i].worker
      BY <2>1, <2>3 DEF Stopping
    <3> HIDE DEF steps
    <3>2. steps \in Seq(Step) /\ steps # <<>> /\ Then(steps) /\ steps[1] = stop
      BY <2>3, <2>5 DEF steps
    <3>3. PlanOK' /\ Top' = stop
      BY <1>1, <1>2, <1>8, <3>1, <3>2, ThenPlans
    <3> QED BY <2>1, <3>3, StageLater DEF Later
  <2> QED BY <1>9, <2>2, <2>4, <2>5
<1>11. PlanOK' /\ StageOK'
  BY <1>1, <1>9, <1>10, CallingDoes
<1> QED BY <1>3, <1>6, <1>7, <1>11 DEF CoreInv, PlanInv

\* A step that leaves only waiting steps in front.
LEMMA LaterPlans ==
  ASSUME TypeOK, PlanOK, todo # <<>>, Top.op \notin Stopping, NEW steps \in Seq(Step), Then(steps),
         \A i \in DOMAIN steps : steps[i].op \in Later
  PROVE  PlanOK' /\ StageOK' /\ todo' \in Seq(Step)
<1>1. PlanOK' /\ (steps = <<>> /\ todo' # <<>> => Top'.op \in Later)
  BY ThenPlans
<1>2. steps # <<>> => Top' = steps[1] /\ 1 \in DOMAIN steps
  BY ThenPlans
<1>3. StageOK'
  BY <1>1, <1>2, StageLater
<1> QED BY <1>1, <1>3, ThenTyped

LEMMA SettleKeeps ==
  ASSUME CoreInv, Settle
  PROVE  CoreInv'
<1> DEFINE running == (Kept \ Pool) \cup Top.selected \cup Fixed
           c == Config(Top.mode, EnvironmentOf(running))
           m == Top.mode
           steps == Each(LAMBDA w : StartStep("bridge", w, c, <<>>), <<"simulator", "control", "hand">>)
                      \o <<SelectStep(m)>>
<1>1. TypeOK /\ SharedInv /\ PlanOK /\ StageOK /\ ClosedOK
  BY DEF CoreInv, PlanInv
<1>2. /\ todo # <<>> /\ Top.op = "settle" /\ Reap(running) /\ Then(steps)
      /\ proc' = proc /\ closed' = closed /\ HandlerOnly
  BY DEF Settle, Doing, SelectStep
<1>3. Top.mode \in Modes /\ Top.selected \in SUBSET Pool
  <2>1. Top \in Step
    BY <1>1, <1>2 DEF TypeOK, HandlerOK, Top
  <2> QED BY <1>2, <2>1, StepTypes
<1>4. running \in SUBSET Workers /\ c \in Configs
  BY <1>1, <1>3, TableTypes, Finite, ConfigTyped DEF ConfigTypes
<1>5. steps \in Seq(Step) /\ \A i \in DOMAIN steps : steps[i].op \in Later
  <2> HIDE DEF c, m
  <2> DEFINE all == BridgeSteps(c) \cup {SelectStep(m)}
  <2>1. steps \in Seq(all)
    BY <1>3, <1>4, SettlePlan DEF m
  <2>2. {} \in SUBSET Pool /\ "real" \in Environments /\ m \in Modes
    BY <1>3 DEF Environments, m
  <2>3. \A s \in all : s \in Step /\ s.op \in Later
    BY <1>4, <2>2, PlansMade
  <2> HIDE DEF all, steps
  <2> QED BY <2>1, <2>3
<1> HIDE DEF running, c, steps, m
<1>6. PlanOK' /\ StageOK' /\ todo' \in Seq(Step)
  BY <1>1, <1>2, <1>5, LaterPlans DEF Stopping
<1>7. /\ \A w \in Workers : tracked'[w] = tracked[w] \/ (tracked'[w] = 0 /\ Ended(tracked[w]))
      /\ \A w \in Workers : tracked'[w] \in {0, tracked[w]}
      /\ hist'.forgot = hist.forgot /\ hist'.beside = hist.beside
      /\ tracked' \in [Workers -> Procs \cup {0}] /\ intended' \subseteq Workers
      /\ hist' \in History
  BY <1>1, <1>2, <1>4, ReapQuiet
<1>8. TypeOK'
  BY <1>1, <1>2, <1>6, <1>7, HandlerTyped DEF TypeOK, ProcsOK
<1>9. SharedInv'
  <2>1. Aged(proc')
    BY <1>1, <1>2, ProcsAge DEF TypeOK
  <2> QED BY <1>1, <1>2, <1>7, <2>1, HandlerQuiet, QuietKeeps
<1>10. ClosedOK'
  BY <1>1, <1>2, <1>7, ClosedKept DEF Doing
<1> QED BY <1>6, <1>8, <1>9, <1>10 DEF CoreInv, PlanInv

LEMMA SelectKeeps ==
  ASSUME CoreInv, Select
  PROVE  CoreInv'
<1>1. TypeOK /\ SharedInv /\ PlanOK /\ StageOK /\ ClosedOK
  BY DEF CoreInv, PlanInv
<1>2. /\ todo # <<>> /\ Top.op = "select" /\ Then(<<>>) /\ mode' = Top.mode
      /\ proc' = proc /\ closed' = closed /\ tracked' = tracked /\ intended' = intended
      /\ requests' = requests /\ shutdown' = shutdown /\ hist' = hist
      /\ UNCHANGED launcher
  BY DEF Select, Doing, tables
<1>3. Top.mode \in Modes
  <2>1. Top \in Step
    BY <1>1, <1>2 DEF TypeOK, HandlerOK, Top
  <2> QED BY <1>2, <2>1, StepTypes
<1>4. PlanOK' /\ StageOK' /\ todo' \in Seq(Step)
  <2>1. <<>> \in Seq(Step) /\ \A i \in DOMAIN <<>> : FALSE
    OBVIOUS
  <2> QED BY <1>1, <1>2, <2>1, LaterPlans DEF Stopping
<1>5. TypeOK'
  BY <1>1, <1>2, <1>3, <1>4 DEF TypeOK, ProcsOK, HandlerOK, LauncherOK, launcher
<1>6. SharedInv'
  <2>1. Aged(proc')
    BY <1>1, <1>2, ProcsAge DEF TypeOK
  <2>2. Quiet
    BY <1>2, <2>1 DEF Quiet
  <2> QED BY <1>1, <2>2, QuietKeeps
<1>7. ClosedOK'
  BY <1>1, <1>2, ClosedKept DEF Doing
<1> QED BY <1>4, <1>5, <1>6, <1>7 DEF CoreInv, PlanInv

LEMMA SpawnFailsKeeps ==
  ASSUME CoreInv, SpawnFails
  PROVE  CoreInv'
<1> DEFINE plan == Joined(Each(StopManual, Reverse(Top.undo)))
<1>1. TypeOK /\ SharedInv /\ PlanOK /\ StageOK /\ ClosedOK
  BY DEF CoreInv, PlanInv
<1>2. /\ todo # <<>> /\ Top.op = "spawn" /\ todo' = plan
      /\ hist' = [hist EXCEPT !.broken = TRUE]
      /\ proc' = proc /\ closed' = closed /\ tracked' = tracked /\ intended' = intended
      /\ HandlerOnly
  BY DEF SpawnFails, Doing, tables
<1>3. plan \in Seq(Step) /\ \A i \in DOMAIN plan : plan[i].op \in Later
  <2>1. Top \in Step
    BY <1>1, <1>2 DEF TypeOK, HandlerOK, Top
  <2>2. Top.undo \in Undos
    BY <1>2, <2>1, StepTypes
  <2> DEFINE all == StopSteps(Manual) \cup RefreshSteps("real")
  <2>3. plan \in Seq(all)
    BY <2>2, RollbackPlan
  <2>4. \A s \in all : s \in Step /\ s.op \in Later
    <3>1. "real" \in Environments
      BY DEF Environments
    <3> QED BY <3>1, StepsMade DEF StopSteps, RefreshSteps, Later
  <2> HIDE DEF all, plan
  <2> QED BY <2>3, <2>4
<1> HIDE DEF plan
<1>4. PlanOK' /\ StageOK'
  <2>1. todo' # <<>> => Top'.op \in Later
    BY <1>2, <1>3 DEF Top
  <2> QED BY <1>2, <1>3, <2>1, StageLater DEF PlanOK
<1>5. hist' \in History /\ hist'.forgot = hist.forgot /\ hist'.beside = hist.beside
  BY <1>1, <1>2, HistoryTypes DEF TypeOK, LauncherOK
<1>6. TypeOK'
  BY <1>1, <1>2, <1>3, <1>5, HandlerTyped DEF TypeOK, ProcsOK
<1>7. SharedInv'
  <2>1. Aged(proc')
    BY <1>1, <1>2, ProcsAge DEF TypeOK
  <2> QED BY <1>1, <1>2, <1>5, <2>1, HandlerQuiet, QuietKeeps
<1>8. ClosedOK'
  BY <1>1, <1>2, ClosedKept DEF Doing
<1> QED BY <1>4, <1>6, <1>7, <1>8 DEF CoreInv, PlanInv
-----------------------------------------------------------------------------
(* The handler thread: stopping a worker, and starting one.                *)

LEMMA StoppingTypes ==
  ASSUME TypeOK, todo # <<>>, Top.op \in Stopping
  PROVE  /\ Top \in Step /\ Top.worker \in Workers /\ Top.held \in Procs \cup {0}
         /\ tracked[Top.worker] \in Procs \cup {0}
<1>1. Top \in Step
  BY DEF TypeOK, HandlerOK, Top
<1> QED BY <1>1, StepTypes DEF TypeOK, ProcsOK

\* The next stage of a stop.
LEMMA StageDoes ==
  ASSUME TypeOK, PlanOK, todo # <<>>, Top.op \in Stopping, NEW s \in Step,
         s.op \in Stopping, s.worker = Top.worker, Then(<<s>>)
  PROVE  PlanOK' /\ todo' # <<>> /\ Top' = s /\ todo' \in Seq(Step)
<1> DEFINE steps == <<s>>
<1>1. steps \in Seq(Step) /\ steps # <<>> /\ Len(steps) = 1 /\ steps[1] = s
  OBVIOUS
<1> HIDE DEF steps
<1>2. Then(steps)
  BY DEF steps
<1> QED BY <1>1, <1>2, ThenPlans, ThenTyped

LEMMA GotoDoes ==
  ASSUME TypeOK, PlanOK, todo # <<>>, Top.op \in Stopping, NEW op \in Stopping, Goto(op)
  PROVE  /\ PlanOK' /\ todo' # <<>> /\ todo' \in Seq(Step) /\ HandlerOnly
         /\ Top'.op = op /\ Top'.worker = Top.worker /\ Top'.held = Top.held
<1> DEFINE s == [Top EXCEPT !.op = op]
<1>1. /\ s \in Step /\ s.op = op /\ s.worker = Top.worker /\ s.held = Top.held
  BY StoppingTypes, StageMade
<1>2. Then(<<s>>) /\ HandlerOnly
  BY DEF Goto
<1> HIDE DEF s
<1> QED BY <1>1, <1>2, StageDoes

LEMMA SignalKeeps ==
  ASSUME CoreInv, Signal
  PROVE  CoreInv'
<1> DEFINE s == [Top EXCEPT !.op = "join", !.held = tracked[Top.worker]]
<1>1. TypeOK /\ SharedInv /\ PlanOK /\ StageOK /\ ClosedOK
  BY DEF CoreInv, PlanInv
<1>2. /\ todo # <<>> /\ Top.op = "stop" /\ proc' = Signalled({Top.worker}) /\ Then(<<s>>)
      /\ closed' = closed /\ tracked' = tracked /\ intended' = intended /\ hist' = hist
      /\ HandlerOnly
  BY DEF Signal, Doing, tables
<1>3. /\ Top.worker \in Workers /\ tracked[Top.worker] \in Procs \cup {0} /\ Top \in Step
      /\ Top.op \in Stopping
  BY <1>1, <1>2, StoppingTypes DEF Stopping
<1>4. /\ s \in Step /\ s.op = "join" /\ s.worker = Top.worker /\ s.held = tracked[Top.worker]
  BY <1>3, StageMade
<1> HIDE DEF s
<1>5. PlanOK' /\ Top' = s /\ todo' \in Seq(Step)
  BY <1>1, <1>2, <1>3, <1>4, StageDoes DEF Stopping
<1>6. Aged(proc')
  BY <1>1, <1>2, ProcsAge DEF TypeOK
<1>7. StageOK'
  <2>1. s.held # 0 => proc[s.held].worker = s.worker
    BY <1>1, <1>3, <1>4 DEF SharedInv, OwnedOK
  <2>2. s.held # 0 => proc'[s.held].worker = s.worker
    BY <1>3, <1>4, <1>6, <2>1 DEF Aged
  <2>3. tracked'[s.worker] \in {0, s.held}
    BY <1>2, <1>4
  <2> QED BY <1>4, <1>5, <2>2, <2>3 DEF StageOK
<1>8. TypeOK'
  BY <1>1, <1>2, <1>5, <1>6, HandlerTyped DEF TypeOK, ProcsOK, LauncherOK, Aged
<1>9. SharedInv'
  BY <1>1, <1>2, <1>6, HandlerQuiet, QuietKeeps
<1>10. ClosedOK'
  BY <1>1, <1>2, ClosedKept DEF Doing
<1> QED BY <1>5, <1>7, <1>8, <1>9, <1>10 DEF CoreInv, PlanInv

\* The stages that hold a process: the tables and the history stay.
LEMMA HeldKeeps ==
  ASSUME CoreInv, todo # <<>>, Top.op \in Holding, NEW op \in Stopping, Goto(op),
         Aged(proc'), closed' \subseteq Procs, tracked' = tracked, UNCHANGED <<intended, hist>>
  PROVE  /\ TypeOK' /\ SharedInv' /\ PlanOK' /\ HandlerOnly /\ todo' # <<>>
         /\ Top'.op = op /\ Top'.worker = Top.worker /\ Top'.held = Top.held
         /\ Top.worker \in Workers /\ Top.held \in Procs \cup {0}
         /\ tracked'[Top.worker] \in {0, Top.held}
         /\ Top.held # 0 => proc'[Top.held].worker = Top.worker
<1>1. TypeOK /\ SharedInv /\ PlanOK /\ StageOK /\ ClosedOK
  BY DEF CoreInv, PlanInv
<1>2. Top.op \in Stopping
  BY DEF Holding, Stopping
<1>3. /\ PlanOK' /\ todo' # <<>> /\ todo' \in Seq(Step) /\ HandlerOnly
      /\ Top'.op = op /\ Top'.worker = Top.worker /\ Top'.held = Top.held
  BY <1>1, <1>2, GotoDoes
<1>4. Top.worker \in Workers /\ Top.held \in Procs \cup {0}
  BY <1>1, <1>2, StoppingTypes
<1>5. /\ tracked[Top.worker] \in {0, Top.held}
      /\ Top.held # 0 => proc[Top.held].worker = Top.worker
  BY <1>1 DEF StageOK
<1>6. Top.held # 0 => proc'[Top.held].worker = Top.worker
  BY <1>4, <1>5 DEF Aged
<1>7. TypeOK'
  BY <1>1, <1>3, HandlerTyped DEF TypeOK, ProcsOK, LauncherOK, Aged
<1>8. SharedInv'
  BY <1>1, <1>3, HandlerQuiet, QuietKeeps
<1> QED BY <1>3, <1>4, <1>5, <1>6, <1>7, <1>8

LEMMA JoinKeeps ==
  ASSUME CoreInv, Join
  PROVE  CoreInv'
<1>1. TypeOK /\ SharedInv /\ PlanOK /\ StageOK /\ ClosedOK
  BY DEF CoreInv, PlanInv
<1>2. /\ todo # <<>> /\ Top.op = "join" /\ proc' = proc
      /\ closed' = closed /\ tracked' = tracked /\ intended' = intended /\ hist' = hist
      /\ \/ Ended(Top.held) /\ Goto("close")
         \/ Goto("terminate")
  BY DEF Join, Doing, tables
<1>3. Aged(proc') /\ closed' \subseteq Procs
  BY <1>1, <1>2, ProcsAge DEF TypeOK, ProcsOK
<1>4. Top.op \in Holding /\ "close" \in Stopping /\ "terminate" \in Stopping
  BY <1>2 DEF Holding, Stopping
<1>5. ClosedOK'
  BY <1>1, <1>2, ClosedKept DEF Doing
<1>6. ASSUME NEW op \in {"close", "terminate"}, Goto(op), op = "close" => Ended(Top.held)
      PROVE  TypeOK' /\ SharedInv' /\ PlanOK' /\ StageOK'
  <2>1. op \in Stopping
    BY <1>4
  <2>2. /\ TypeOK' /\ SharedInv' /\ PlanOK' /\ todo' # <<>>
        /\ Top'.op = op /\ Top'.worker = Top.worker /\ Top'.held = Top.held
        /\ tracked'[Top.worker] \in {0, Top.held}
        /\ Top.held # 0 => proc'[Top.held].worker = Top.worker
    BY <1>2, <1>3, <1>4, <1>6, <2>1, HeldKeeps
  <2>3. op = "close" => Ended(Top.held)'
    BY <1>2, <1>6, <2>2 DEF Ended
  <2> QED BY <2>2, <2>3 DEF StageOK
<1>7. TypeOK' /\ SharedInv' /\ PlanOK' /\ StageOK'
  BY <1>2, <1>6
<1> QED BY <1>5, <1>7 DEF CoreInv, PlanInv

LEMMA TerminateKeeps ==
  ASSUME CoreInv, Terminate
  PROVE  CoreInv'
<1>1. TypeOK /\ SharedInv /\ PlanOK /\ StageOK /\ ClosedOK
  BY DEF CoreInv, PlanInv
<1>2. /\ todo # <<>> /\ Top.op = "terminate" /\ proc' = Cut(Sensitive({Top.held}))
      /\ closed' = closed /\ tracked' = tracked /\ intended' = intended /\ hist' = hist
      /\ Goto("kill")
  BY DEF Terminate, Doing, tables
<1>3. Aged(proc') /\ closed' \subseteq Procs
  BY <1>1, <1>2, ProcsAge DEF TypeOK, ProcsOK
<1>4. Top.op \in Holding /\ "kill" \in Stopping
  BY <1>2 DEF Holding, Stopping
<1>5. /\ TypeOK' /\ SharedInv' /\ PlanOK' /\ todo' # <<>>
      /\ Top'.op = "kill" /\ Top'.worker = Top.worker /\ Top'.held = Top.held
      /\ tracked'[Top.worker] \in {0, Top.held}
      /\ Top.held # 0 => proc'[Top.held].worker = Top.worker
  BY <1>2, <1>3, <1>4, HeldKeeps
<1>6. StageOK'
  BY <1>5 DEF StageOK
<1>7. ClosedOK'
  BY <1>1, <1>2, ClosedKept DEF Doing
<1> QED BY <1>5, <1>6, <1>7 DEF CoreInv, PlanInv

LEMMA KillKeeps ==
  ASSUME CoreInv, Kill
  PROVE  CoreInv'
<1>1. TypeOK /\ SharedInv /\ PlanOK /\ StageOK /\ ClosedOK
  BY DEF CoreInv, PlanInv
<1>2. /\ todo # <<>> /\ Top.op = "kill" /\ proc' = Cut({Top.held})
      /\ closed' = closed /\ tracked' = tracked /\ intended' = intended /\ hist' = hist
      /\ Goto("close")
  BY DEF Kill, Doing, tables
<1>3. /\ Aged(proc') /\ closed' \subseteq Procs
      /\ \A p \in Procs \cap {Top.held} : proc'[p].life = "ended"
  BY <1>1, <1>2, ProcsAge DEF TypeOK, ProcsOK
<1>4. Top.op \in Holding /\ "close" \in Stopping
  BY <1>2 DEF Holding, Stopping
<1>5. /\ TypeOK' /\ SharedInv' /\ PlanOK' /\ todo' # <<>>
      /\ Top'.op = "close" /\ Top'.worker = Top.worker /\ Top'.held = Top.held
      /\ Top.held \in Procs \cup {0}
      /\ tracked'[Top.worker] \in {0, Top.held}
      /\ Top.held # 0 => proc'[Top.held].worker = Top.worker
  BY <1>2, <1>3, <1>4, HeldKeeps
<1>6. Ended(Top.held)'
  BY <1>3, <1>5 DEF Ended
<1>7. StageOK'
  BY <1>5, <1>6 DEF StageOK
<1>8. ClosedOK'
  BY <1>1, <1>2, ClosedKept DEF Doing
<1> QED BY <1>5, <1>7, <1>8 DEF CoreInv, PlanInv

LEMMA CloseKeeps ==
  ASSUME CoreInv, Close
  PROVE  CoreInv'
<1>1. TypeOK /\ SharedInv /\ PlanOK /\ StageOK /\ ClosedOK
  BY DEF CoreInv, PlanInv
<1>2. /\ todo # <<>> /\ Top.op = "close" /\ closed' \subseteq closed \cup ({Top.held} \ {0})
      /\ proc' = proc /\ tracked' = tracked /\ intended' = intended /\ hist' = hist
      /\ Goto("forget")
  BY DEF Close, Doing, tables
<1>3. Top.worker \in Workers /\ Top.held \in Procs \cup {0}
  BY <1>1, <1>2, StoppingTypes DEF Stopping
<1>4. Aged(proc') /\ closed' \subseteq Procs
  BY <1>1, <1>2, <1>3, ProcsAge DEF TypeOK, ProcsOK
<1>5. Top.op \in Holding /\ "forget" \in Stopping
  BY <1>2 DEF Holding, Stopping
<1>6. /\ TypeOK' /\ SharedInv' /\ PlanOK' /\ todo' # <<>>
      /\ Top'.op = "forget" /\ Top'.worker = Top.worker /\ Top'.held = Top.held
      /\ tracked'[Top.worker] \in {0, Top.held}
      /\ Top.held # 0 => proc'[Top.held].worker = Top.worker
  BY <1>2, <1>4, <1>5, HeldKeeps
<1>7. Ended(Top.held)'
  BY <1>1, <1>2, <1>6 DEF StageOK, Ended
<1>8. StageOK'
  BY <1>6, <1>7 DEF StageOK
<1>9. ClosedOK'
  <2> SUFFICES ASSUME NEW w \in Workers, tracked'[w] \in closed'
               PROVE  Top'.worker = w
    BY <1>6 DEF ClosedOK, Doing
  <2>1. tracked[w] \notin closed
    BY <1>1, <1>2 DEF ClosedOK, Doing
  <2>2. tracked[w] = Top.held /\ Top.held # 0
    BY <1>2, <2>1
  <2>3. proc[tracked[w]].worker = w /\ proc[Top.held].worker = Top.worker
    BY <1>1, <1>2, <1>5, <2>2 DEF SharedInv, OwnedOK, StageOK
  <2> QED BY <1>6, <2>2, <2>3
<1> QED BY <1>6, <1>8, <1>9 DEF CoreInv, PlanInv

LEMMA ForgetKeeps ==
  ASSUME CoreInv, Forget
  PROVE  CoreInv'
<1>1. TypeOK /\ SharedInv /\ PlanOK /\ StageOK /\ ClosedOK
  BY DEF CoreInv, PlanInv
<1>2. /\ todo # <<>> /\ Top.op = "forget" /\ tracked' = [tracked EXCEPT ![Top.worker] = 0]
      /\ proc' = proc /\ closed' = closed /\ intended' = intended /\ hist' = hist
      /\ Goto("discard")
  BY DEF Forget, Doing
<1>3. /\ Top.worker \in Workers /\ Top.held \in Procs \cup {0} /\ Top.op \in Stopping
      /\ "discard" \in Stopping
  BY <1>1, <1>2, StoppingTypes DEF Stopping
<1>4. Aged(proc')
  BY <1>1, <1>2, ProcsAge DEF TypeOK
<1>5. /\ PlanOK' /\ todo' # <<>> /\ todo' \in Seq(Step) /\ HandlerOnly
      /\ Top'.op = "discard" /\ Top'.worker = Top.worker
  BY <1>1, <1>2, <1>3, GotoDoes
<1>6. /\ tracked' \in [Workers -> Procs \cup {0}] /\ tracked'[Top.worker] = 0
      /\ \A w \in Workers : w # Top.worker => tracked'[w] = tracked[w]
  BY <1>1, <1>2, <1>3 DEF TypeOK, ProcsOK
<1>7. Ended(tracked[Top.worker])
  BY <1>1, <1>2 DEF StageOK, Holding, Ended
<1>8. \A w \in Workers : tracked'[w] = tracked[w] \/ (tracked'[w] = 0 /\ Ended(tracked[w]))
  BY <1>6, <1>7
<1>9. TypeOK'
  BY <1>1, <1>2, <1>5, <1>6, HandlerTyped DEF TypeOK, ProcsOK, LauncherOK
<1>10. SharedInv'
  BY <1>1, <1>2, <1>4, <1>5, <1>8, HandlerQuiet, QuietKeeps
<1>11. StageOK'
  BY <1>5, <1>6 DEF StageOK, Holding
<1>12. ClosedOK'
  <2> SUFFICES ASSUME NEW w \in Workers, tracked'[w] \in closed'
               PROVE  FALSE
    BY DEF ClosedOK
  <2>1. 0 \notin closed
    BY <1>1 DEF TypeOK, ProcsOK, Procs
  <2>2. w # Top.worker /\ tracked[w] \in closed
    BY <1>2, <1>6, <2>1
  <2> QED BY <1>1, <2>2 DEF ClosedOK
<1> QED BY <1>5, <1>9, <1>10, <1>11, <1>12 DEF CoreInv, PlanInv

LEMMA DiscardKeeps ==
  ASSUME CoreInv, Discard
  PROVE  CoreInv'
<1>1. TypeOK /\ SharedInv /\ PlanOK /\ StageOK /\ ClosedOK
  BY DEF CoreInv, PlanInv
<1>2. /\ todo # <<>> /\ Top.op = "discard" /\ Then(<<>>) /\ intended' = intended \ {Top.worker}
      /\ proc' = proc /\ closed' = closed /\ tracked' = tracked /\ hist' = hist /\ HandlerOnly
  BY DEF Discard, Doing
<1>3. /\ PlanOK' /\ todo' \in Seq(Step)
      /\ todo' # <<>> => \/ Top'.op \in Later
                         \/ Top'.op = "spawn" /\ Top'.worker = Top.worker
  <2>1. <<>> \in Seq(Step)
    OBVIOUS
  <2> QED BY <1>1, <1>2, <2>1, ThenPlans, ThenTyped
<1>4. StageOK'
  <2>1. tracked[Top.worker] = 0
    BY <1>1, <1>2 DEF StageOK
  <2>2. todo' # <<>> /\ Top'.op = "spawn" /\ Top'.worker = Top.worker => Ended(tracked[Top.worker])'
    BY <1>2, <2>1 DEF Ended
  <2> QED BY <1>3, <2>2, StageLater DEF StageOK, Holding, Later
<1>5. TypeOK'
  BY <1>1, <1>2, <1>3, HandlerTyped DEF TypeOK, ProcsOK, LauncherOK
<1>6. SharedInv'
  <2>1. Aged(proc')
    BY <1>1, <1>2, ProcsAge DEF TypeOK
  <2> QED BY <1>1, <1>2, <2>1, HandlerQuiet, QuietKeeps
<1>7. ClosedOK'
  BY <1>1, <1>2, ClosedKept DEF Doing
<1> QED BY <1>3, <1>4, <1>5, <1>6, <1>7 DEF CoreInv, PlanInv

\* A new process takes a slot nothing refers to, and its worker has no living one.
LEMMA SpawnKeeps ==
  ASSUME CoreInv, Spawn
  PROVE  CoreInv'
<1> DEFINE p == CHOOSE q \in FreeSlots : TRUE
           w == Top.worker
<1>1. TypeOK /\ SharedInv /\ PlanOK /\ StageOK /\ ClosedOK
  BY DEF CoreInv, PlanInv
<1>2. /\ todo # <<>> /\ Top.op = "spawn" /\ FreeSlots # {}
      /\ proc' = [proc EXCEPT ![p] = NewProc(w, Top.config)]
      /\ closed' = closed \ {p} /\ tracked' = [tracked EXCEPT ![w] = p]
      /\ intended' = intended \cup {w} /\ Then(<<>>) /\ hist' = hist /\ HandlerOnly
  BY DEF Spawn, Doing
<1>3. /\ p \in Procs /\ Ended(p) /\ \A v \in Workers : tracked[v] # p /\ seen[v] # p
  <2>1. p \in FreeSlots
    BY <1>2
  <2> HIDE DEF p
  <2> QED BY <2>1 DEF FreeSlots
<1>4. w \in Workers /\ Top.config \in Configs
  <2>1. Top \in Step
    BY <1>1, <1>2 DEF TypeOK, HandlerOK, Top
  <2> QED BY <1>2, <2>1, StepTypes
<1>5. NewProc(w, Top.config) \in Process /\ NewProc(w, Top.config).worker = w
      /\ NewProc(w, Top.config).config = Top.config
  BY <1>4 DEF NewProc, Process
<1> HIDE DEF p, w
<1>6. /\ proc' \in [Procs -> Process] /\ proc'[p].worker = w
      /\ \A q \in Procs : q # p => proc'[q] = proc[q]
      /\ tracked' \in [Workers -> Procs \cup {0}] /\ tracked'[w] = p
      /\ \A v \in Workers : v # w => tracked'[v] = tracked[v]
  BY <1>1, <1>2, <1>3, <1>4, <1>5 DEF TypeOK, ProcsOK
<1>7. Ended(tracked[w])
  BY <1>1, <1>2 DEF StageOK, w
<1>8. /\ tracked \in [Workers -> Procs \cup {0}] /\ seen \in [Workers -> Procs \cup {0}]
      /\ names \subseteq Workers /\ 0 \notin Procs /\ closed \subseteq Procs
  BY <1>1 DEF TypeOK, ProcsOK, LauncherOK, Procs
<1>9. /\ main' = main /\ seen' = seen /\ size' = size /\ names' = names
      /\ shutdown' = shutdown
  BY <1>2 DEF HandlerOnly, launcher
<1>10. /\ PlanOK' /\ todo' \in Seq(Step) /\ StageOK'
  <2>1. <<>> \in Seq(Step) /\ \A i \in DOMAIN <<>> : FALSE
    OBVIOUS
  <2> QED BY <1>1, <1>2, <2>1, LaterPlans DEF Stopping
<1>11. TypeOK'
  <2>1. intended' \subseteq Workers /\ closed' \subseteq Procs /\ hist' \in History
    BY <1>1, <1>2, <1>4 DEF TypeOK, ProcsOK, LauncherOK
  <2> QED BY <1>1, <1>2, <1>6, <1>10, <2>1, HandlerTyped
<1>12. ClosedOK'
  <2>1. \A v \in Workers : tracked[v] \notin closed
    BY <1>1, <1>2 DEF ClosedOK, Doing
  <2> QED BY <1>2, <1>6, <2>1 DEF ClosedOK
<1>13. OwnedOK'
  <2> SUFFICES ASSUME NEW v \in Workers
               PROVE  /\ tracked'[v] # 0 => proc'[tracked'[v]].worker = v
                      /\ seen'[v] # 0 => proc'[seen'[v]].worker = v
    BY DEF OwnedOK
  <2>1. /\ tracked[v] # 0 => proc[tracked[v]].worker = v
        /\ seen[v] # 0 => proc[seen[v]].worker = v
    BY <1>1 DEF SharedInv, OwnedOK
  <2> QED BY <1>3, <1>6, <1>8, <1>9, <2>1
<1>14. TrackedOK'
  <2> SUFFICES ASSUME ~hist'.forgot, main' # "done", NEW q \in Procs, ~Ended(q)'
               PROVE  tracked'[proc'[q].worker] = q
    BY DEF TrackedOK
  <2>1. CASE q = p
    BY <1>6, <2>1
  <2>2. CASE q # p
    <3>1. ~Ended(q)
      BY <1>6, <1>8, <2>2 DEF Ended
    <3>2. tracked[proc[q].worker] = q /\ proc[q].worker \in Workers
      BY <1>1, <1>2, <1>9, <3>1 DEF SharedInv, TrackedOK, TypeOK, ProcsOK, Process
    <3>3. proc[q].worker # w
      BY <1>7, <3>1, <3>2
    <3> QED BY <1>6, <2>2, <3>2, <3>3
  <2> QED BY <2>1, <2>2
<1>15. LeftOK' /\ SizeOK' /\ RaisedOK' /\ NoneLeftOK'
  BY <1>1, <1>2, <1>9 DEF SharedInv, LeftOK, SizeOK, RaisedOK, NoneLeftOK, Watching
<1>16. \A v \in Workers : Ended(seen[v]) => Ended(seen[v])'
  BY <1>3, <1>6, <1>8, <1>9 DEF Ended
<1>17. AwaitedOK'
  <2>1. ASSUME NEW v \in names, seen[v] # 0 /\ (Ended(seen[v]) \/ tracked[v] = seen[v])
        PROVE  seen'[v] # 0 /\ (Ended(seen[v])' \/ tracked'[v] = seen'[v])
    BY <1>6, <1>7, <1>8, <1>9, <1>16, <2>1
  <2> QED BY <1>1, <1>9, <2>1 DEF SharedInv, AwaitedOK
<1>18. SafetySequenceKept'
  BY <1>1, <1>8, <1>9, <1>16 DEF SharedInv, SafetySequenceKept, Early
<1> QED BY <1>10, <1>11, <1>12, <1>13, <1>14, <1>15, <1>17, <1>18 DEF CoreInv, PlanInv, SharedInv

LEMMA HandlerKeeps ==
  ASSUME CoreInv, HandlerStep
  PROVE  CoreInv'
BY CallingKeeps, SettleKeeps, SelectKeeps, SpawnKeeps, SpawnFailsKeeps, SignalKeeps, JoinKeeps,
   TerminateKeeps, KillKeeps, CloseKeeps, ForgetKeeps, DiscardKeeps DEF HandlerStep, Calling
-----------------------------------------------------------------------------
(* The requests.                                                           *)

\* A request accepted while none is under way.
LEMMA FreshKeeps ==
  ASSUME CoreInv, todo = <<>>, main \in {"watch", "reap", "judge"}, NEW left \in SUBSET Workers,
         Reap(left), UNCHANGED <<proc, closed, mode, launcher, shutdown>>,
         requests' \in 0..MaxRequests,
         todo' \in Seq(Step), \A i \in DOMAIN todo' : todo'[i].op \in Later
  PROVE  CoreInv'
<1>1. TypeOK /\ SharedInv /\ PlanOK /\ StageOK /\ ClosedOK
  BY DEF CoreInv, PlanInv
<1>2. /\ \A w \in Workers : tracked'[w] = tracked[w] \/ (tracked'[w] = 0 /\ Ended(tracked[w]))
      /\ \A w \in Workers : tracked'[w] \in {0, tracked[w]}
      /\ hist'.forgot = hist.forgot /\ hist'.beside = hist.beside
      /\ tracked' \in [Workers -> Procs \cup {0}] /\ intended' \subseteq Workers
      /\ hist' \in History
  BY <1>1, ReapQuiet
<1>3. PlanOK' /\ StageOK'
  <2>1. todo' # <<>> => Top'.op \in Later
    BY DEF Top
  <2> QED BY <2>1, StageLater DEF PlanOK
<1>4. TypeOK'
  BY <1>1, <1>2 DEF TypeOK, ProcsOK, HandlerOK, LauncherOK, launcher
<1>5. SharedInv'
  <2>1. Aged(proc')
    BY <1>1, ProcsAge DEF TypeOK
  <2>2. Quiet
    BY <1>2, <2>1 DEF Quiet, Watching
  <2> QED BY <1>1, <2>2, QuietKeeps
<1>6. ClosedOK'
  BY <1>1, <1>2, ClosedKept DEF Doing
<1> QED BY <1>3, <1>4, <1>5, <1>6 DEF CoreInv, PlanInv

LEMMA AcceptDoes ==
  ASSUME TypeOK, NEW kind, Accept(kind)
  PROVE  main \in {"watch", "reap", "judge"} /\ requests' \in 0..MaxRequests
BY BoundsAssumption DEF Accept, TypeOK, HandlerOK

LEMMA ApplyModeKeeps ==
  ASSUME CoreInv, NEW m \in Modes, NEW selected \in SUBSET Candidates(m), ApplyMode(m, selected)
  PROVE  CoreInv'
<1> DEFINE c == Config(m, EnvironmentOf(Kept))
           stopped == {w \in Pool : \/ w \in Kept /\ w \notin selected
                                    \/ w \in selected /\ Living(w) /\ proc[tracked[w]].config # c}
           plan == EachOf(LAMBDA w : StopStep(w, "short"), stopped)
                     \o EnsureFixed(<<>>)
                     \o EachOf(LAMBDA w : StartStep("start", w, c, <<>>), selected)
                     \o <<SettleStep(m, selected)>>
<1>1. TypeOK
  BY DEF CoreInv
<1>2. /\ Accept("apply") /\ todo = <<>> /\ todo' = plan /\ Reap(Kept)
      /\ UNCHANGED <<proc, closed, mode, launcher, shutdown>>
  BY DEF ApplyMode, SettleStep
<1>3. selected \in SUBSET Pool /\ stopped \in SUBSET Pool
  BY DEF Candidates
<1>4. c \in Configs
  BY ConfigTyped DEF ConfigTypes
<1> HIDE DEF c, stopped
<1> DEFINE all == StopSteps(stopped) \cup EnsureSteps \cup StartSteps(selected, c)
                    \cup {SettleStep(m, selected)}
<1>5. plan \in Seq(all)
  BY <1>3, <1>4, ApplyPlan
<1>6. \A s \in all : s \in Step /\ s.op \in Later
  <2>1. "real" \in Environments
    BY DEF Environments
  <2> QED BY <1>3, <1>4, <2>1, PlansMade
<1> HIDE DEF plan, all
<1>7. todo' \in Seq(Step) /\ \A i \in DOMAIN todo' : todo'[i].op \in Later
  BY <1>2, <1>5, <1>6
<1> QED BY <1>1, <1>2, <1>7, AcceptDoes, TableTypes, FreshKeeps

LEMMA StartGroupKeeps ==
  ASSUME CoreInv, NEW part \in Parts, StartGroup(part)
  PROVE  CoreInv'
<1> DEFINE plan == Joined([i \in DOMAIN part |-> StartManual(part[i], SubSeq(part, 1, i - 1))])
           all == EnsureSteps \cup ManualSteps(Manual) \cup RefreshSteps("sim")
<1>1. TypeOK
  BY DEF CoreInv
<1>2. /\ Accept("start") /\ todo = <<>> /\ todo' = plan /\ Reap(Kept)
      /\ IsPart(part, Manual \ Kept)
      /\ UNCHANGED <<proc, closed, mode, launcher, shutdown>>
  BY DEF StartGroup
<1>3. plan \in Seq(all)
  BY <1>2, StartGroupPlan
<1>4. \A s \in all : s \in Step /\ s.op \in Later
  <2>1. "sim" \in Environments
    BY DEF Environments
  <2> QED BY <2>1, StepsMade DEF EnsureSteps, ManualSteps, RefreshSteps, Later
<1> HIDE DEF plan, all
<1>5. todo' \in Seq(Step) /\ \A i \in DOMAIN todo' : todo'[i].op \in Later
  BY <1>2, <1>3, <1>4
<1> QED BY <1>1, <1>2, <1>5, AcceptDoes, TableTypes, FreshKeeps

LEMMA StopGroupKeeps ==
  ASSUME CoreInv, NEW part \in Parts, StopGroup(part)
  PROVE  CoreInv'
<1> DEFINE plan == Joined(Each(StopManual, Reverse(part)))
           all == StopSteps(Manual) \cup RefreshSteps("real")
<1>1. TypeOK
  BY DEF CoreInv
<1>2. /\ Accept("stop") /\ todo = <<>> /\ todo' = plan /\ Reap(Kept)
      /\ IsPart(part, Manual \cap Kept)
      /\ UNCHANGED <<proc, closed, mode, launcher, shutdown>>
  BY DEF StopGroup
<1>3. plan \in Seq(all)
  BY <1>2, StopGroupPlan
<1>4. \A s \in all : s \in Step /\ s.op \in Later
  <2>1. "real" \in Environments
    BY DEF Environments
  <2> QED BY <2>1, StepsMade DEF StopSteps, RefreshSteps, Later
<1> HIDE DEF plan, all
<1>5. todo' \in Seq(Step) /\ \A i \in DOMAIN todo' : todo'[i].op \in Later
  BY <1>2, <1>3, <1>4
<1> QED BY <1>1, <1>2, <1>5, AcceptDoes, TableTypes, FreshKeeps

LEMMA StatusKeeps ==
  ASSUME CoreInv, Status
  PROVE  CoreInv'
<1>1. TypeOK
  BY DEF CoreInv
<1>2. /\ todo = <<>> /\ main \in {"watch", "reap", "judge"} /\ Reap(Kept)
      /\ todo' = todo /\ requests' = requests
      /\ UNCHANGED <<proc, closed, mode, launcher, shutdown>>
  BY DEF Status, handler
<1>3. todo' \in Seq(Step) /\ \A i \in DOMAIN todo' : todo'[i].op \in Later
  BY <1>2
<1>4. requests' \in 0..MaxRequests
  BY <1>1, <1>2 DEF TypeOK, HandlerOK
<1> QED BY <1>1, <1>2, <1>3, <1>4, TableTypes, FreshKeeps

LEMMA RequestShutdownKeeps ==
  ASSUME CoreInv, RequestShutdown
  PROVE  CoreInv'
<1>1. TypeOK /\ SharedInv /\ PlanInv
  BY DEF CoreInv
<1>2. /\ proc' = proc /\ closed' = closed /\ tracked' = tracked /\ intended' = intended
      /\ todo' = todo /\ mode' = mode /\ hist' = hist /\ shutdown' = TRUE /\ UNCHANGED launcher
      /\ requests' \in 0..MaxRequests
  BY <1>1, AcceptDoes DEF RequestShutdown, tables
<1>3. Aged(proc')
  BY <1>1, <1>2, ProcsAge DEF TypeOK
<1>4. TypeOK'
  BY <1>1, <1>2 DEF TypeOK, ProcsOK, HandlerOK, LauncherOK, launcher
<1>5. SharedInv'
  <2>1. Quiet
    BY <1>2, <1>3 DEF Quiet
  <2> QED BY <1>1, <2>1, QuietKeeps
<1>6. PlanInv'
  BY <1>1, <1>2, <1>3, StillKeeps
<1> QED BY <1>4, <1>5, <1>6 DEF CoreInv

LEMMA RequestKeeps ==
  ASSUME CoreInv, Request
  PROVE  CoreInv'
BY ApplyModeKeeps, StartGroupKeeps, StopGroupKeeps, StatusKeeps, RequestShutdownKeeps DEF Request

\* The worker processes.
LEMMA ProcessKeeps ==
  ASSUME CoreInv, NEW p \in Procs, ProcessStep(p)
  PROVE  CoreInv'
<1>1. TypeOK /\ SharedInv /\ PlanInv
  BY DEF CoreInv
<1>2. /\ closed' = closed /\ tracked' = tracked /\ intended' = intended /\ UNCHANGED handler
      /\ UNCHANGED launcher /\ shutdown' = shutdown
  BY DEF ProcessStep, Notice, End, Crash, ProcessOnly, tables
<1>3. Aged(proc')
  BY <1>1, ProcsAge DEF TypeOK, ProcessStep, Notice, End, Crash
<1>4. hist' \in History /\ hist'.forgot = hist.forgot /\ hist'.beside = hist.beside
  <2>1. CASE Notice(p) \/ End(p)
    BY <1>1, <2>1 DEF Notice, End, TypeOK, LauncherOK
  <2>2. CASE Crash(p)
    <3> DEFINE b == hist.failed \/ proc[p].worker \in Base
    <3>1. b \in BOOLEAN /\ hist \in History
      BY <1>1 DEF TypeOK, LauncherOK, History
    <3>2. hist' = [hist EXCEPT !.failed = b]
      BY <2>2 DEF Crash
    <3> HIDE DEF b
    <3> QED BY <3>1, <3>2, HistoryTypes
  <2> QED BY <2>1, <2>2 DEF ProcessStep
<1>5. TypeOK'
  BY <1>1, <1>2, <1>3, <1>4 DEF TypeOK, ProcsOK, HandlerOK, LauncherOK, launcher, handler, Aged
<1>6. SharedInv'
  <2>1. Quiet
    BY <1>2, <1>3, <1>4 DEF Quiet, handler
  <2> QED BY <1>1, <2>1, QuietKeeps
<1>7. PlanInv'
  BY <1>1, <1>2, <1>3, StillKeeps DEF handler
<1> QED BY <1>5, <1>6, <1>7 DEF CoreInv
-----------------------------------------------------------------------------
(* The main thread.                                                        *)

LEMMA MainTyped ==
  ASSUME TypeOK, PlanInv, UNCHANGED <<handler, closed>>, Aged(proc'),
         tracked' \in [Workers -> Procs \cup {0}], \A w \in Workers : tracked'[w] \in {0, tracked[w]},
         intended' \subseteq Workers, seen' \in [Workers -> Procs \cup {0}], size' \in Nat,
         names' \subseteq Workers, expired' \in BOOLEAN, shutdown' \in BOOLEAN, hist' \in History
  PROVE  TypeOK' /\ PlanInv'
<1>1. TypeOK'
  BY DEF TypeOK, ProcsOK, HandlerOK, LauncherOK, handler, Aged
<1>2. PlanInv'
  BY StillKeeps DEF handler
<1> QED BY <1>1, <1>2

LEMMA MainOwned ==
  ASSUME TypeOK, OwnedOK, Aged(proc'), \A w \in Workers : tracked'[w] \in {0, tracked[w]},
         \A w \in Workers : seen'[w] \in {0, seen[w], tracked[w]}
  PROVE  OwnedOK'
<1>1. /\ tracked \in [Workers -> Procs \cup {0}] /\ seen \in [Workers -> Procs \cup {0}]
      /\ \A p \in Procs : proc'[p].worker = proc[p].worker
  BY DEF TypeOK, ProcsOK, LauncherOK, Aged
<1> QED BY <1>1 DEF OwnedOK

LEMMA MainTracked ==
  ASSUME TypeOK, TrackedOK, Aged(proc'), tracked' = tracked, hist'.forgot = hist.forgot,
         main # "done"
  PROVE  TrackedOK'
<1>1. \A p \in Procs : /\ proc'[p].worker = proc[p].worker
                       /\ proc[p].life = "ended" => proc'[p].life = "ended"
  BY DEF Aged
<1> QED BY <1>1 DEF TrackedOK, Ended

\* The watchdog stays in the web UI.
WatchOnly == main' \in {"watch", "reap", "judge"}
LEMMA WatchKeeps ==
  ASSUME WatchOnly
  PROVE  LeftOK' /\ SizeOK' /\ RaisedOK' /\ AwaitedOK' /\ SafetySequenceKept' /\ NoneLeftOK'
BY DEF WatchOnly, LeftOK, SizeOK, RaisedOK, AwaitedOK, SafetySequenceKept, NoneLeftOK, Watching

LEMMA WatchdogKeeps ==
  ASSUME CoreInv, Look \/ Judge \/ ReapSeen
  PROVE  CoreInv'
<1>1. TypeOK /\ SharedInv /\ PlanInv /\ OwnedOK /\ TrackedOK
  BY DEF CoreInv, SharedInv
<1>2. /\ UNCHANGED <<handler, closed>> /\ proc' = proc /\ main # "done" /\ WatchOnly
      /\ size' = size /\ names' = names /\ expired' = expired
  BY DEF Look, Judge, ReapSeen, MainOnly, WatchOnly
<1>3. Aged(proc')
  BY <1>1, <1>2, ProcsAge DEF TypeOK
<1>4. /\ tracked \in [Workers -> Procs \cup {0}] /\ seen \in [Workers -> Procs \cup {0}]
      /\ intended \subseteq Workers /\ shutdown \in BOOLEAN /\ hist \in History
      /\ size \in Nat /\ names \subseteq Workers /\ expired \in BOOLEAN
  BY <1>1 DEF TypeOK, ProcsOK, LauncherOK
<1>5. CASE Look
  <2>1. /\ tracked' = tracked /\ intended' = intended /\ seen' = tracked /\ shutdown' = shutdown
        /\ hist' = hist
    BY <1>5 DEF Look, tables
  <2>2. TypeOK' /\ PlanInv' /\ OwnedOK' /\ TrackedOK'
    BY <1>1, <1>2, <1>3, <1>4, <2>1, MainTyped, MainOwned, MainTracked
  <2> QED BY <1>2, <2>2, WatchKeeps DEF CoreInv, SharedInv
<1>6. CASE Judge
  <2>1. /\ tracked' = tracked /\ intended' = intended /\ seen' = [w \in Workers |-> 0]
        /\ shutdown' \in BOOLEAN /\ hist' = hist
    BY <1>4, <1>6 DEF Judge, tables
  <2>2. TypeOK' /\ PlanInv' /\ OwnedOK' /\ TrackedOK'
    BY <1>1, <1>2, <1>3, <1>4, <2>1, MainTyped, MainOwned, MainTracked
  <2> QED BY <1>2, <2>2, WatchKeeps DEF CoreInv, SharedInv
<1>7. CASE ReapSeen
  <2>1. PICK entries \in SUBSET Workers :
          /\ tracked' = Without(entries) /\ intended' = Dismissed(entries)
          /\ hist' = [hist EXCEPT !.forgot = @ \/ \E w \in entries : Living(w),
                                  !.broken = @ \/ "simulator" \in entries]
    BY <1>7 DEF ReapSeen
  <2>2. seen' = seen /\ shutdown' = shutdown
    BY <1>7 DEF ReapSeen
  <2> DEFINE f == hist.forgot \/ \E w \in entries : Living(w)
             b == hist.broken \/ "simulator" \in entries
  <2>3. f \in BOOLEAN /\ b \in BOOLEAN
    BY <1>4 DEF History
  <2>4. hist' = [hist EXCEPT !.forgot = f, !.broken = b]
    BY <2>1
  <2> HIDE DEF f, b
  <2>5. hist' \in History /\ hist'.forgot = f
    BY <1>4, <2>3, <2>4, HistoryTypes
  <2>6. /\ tracked' \in [Workers -> Procs \cup {0}]
        /\ \A w \in Workers : tracked'[w] = IF w \in entries THEN 0 ELSE tracked[w]
    BY <1>4, <2>1 DEF Without
  <2>7. intended' \subseteq Workers
    BY <1>1, <1>4, <2>1, TableTypes
  <2>8. TypeOK' /\ PlanInv' /\ OwnedOK'
    BY <1>1, <1>2, <1>3, <1>4, <2>2, <2>5, <2>6, <2>7, MainTyped, MainOwned
  <2>9. TrackedOK'
    <3> SUFFICES ASSUME ~hist'.forgot, NEW p \in Procs, ~Ended(p)'
                 PROVE  tracked'[proc'[p].worker] = p
      BY DEF TrackedOK
    <3>1. ~hist.forgot /\ \A w \in entries : ~Living(w)
      BY <2>5 DEF f
    <3>2. ~Ended(p)
      BY <1>2 DEF Ended
    <3>3. tracked[proc[p].worker] = p /\ proc[p].worker \in Workers
      BY <1>1, <1>2, <3>1, <3>2 DEF TrackedOK, TypeOK, ProcsOK, Process
    <3>4. proc[p].worker \notin entries
      BY <3>1, <3>2, <3>3 DEF Living
    <3> QED BY <1>2, <2>6, <3>3, <3>4
  <2> QED BY <1>2, <2>8, <2>9, WatchKeeps DEF CoreInv, SharedInv
<1> QED BY <1>5, <1>6, <1>7

LEMMA LeaveUiKeeps ==
  ASSUME CoreInv, LeaveUi
  PROVE  CoreInv'
<1>1. TypeOK /\ SharedInv /\ PlanInv /\ OwnedOK /\ TrackedOK
  BY DEF CoreInv, SharedInv
<1> DEFINE b == todo # <<>>
<1>2. /\ UNCHANGED <<handler, closed>> /\ proc' = proc /\ main = "watch" /\ main' = "names"
      /\ shutdown /\ hist' = [hist EXCEPT !.beside = b]
      /\ tracked' = tracked /\ intended' = intended /\ seen' = seen
      /\ size' = size /\ names' = names /\ expired' = expired /\ shutdown' = shutdown
  BY DEF LeaveUi, MainOnly, tables
<1>3. Aged(proc')
  BY <1>1, <1>2, ProcsAge DEF TypeOK
<1>4. /\ tracked \in [Workers -> Procs \cup {0}] /\ seen \in [Workers -> Procs \cup {0}]
      /\ intended \subseteq Workers /\ shutdown \in BOOLEAN /\ hist \in History
      /\ size \in Nat /\ names \subseteq Workers /\ expired \in BOOLEAN
  BY <1>1 DEF TypeOK, ProcsOK, LauncherOK
<1>5. b \in BOOLEAN
  OBVIOUS
<1> HIDE DEF b
<1>6. hist' \in History /\ hist'.forgot = hist.forgot /\ hist'.beside = b
  BY <1>2, <1>4, <1>5, HistoryTypes
<1>7. TypeOK' /\ PlanInv' /\ OwnedOK' /\ TrackedOK'
  BY <1>1, <1>2, <1>3, <1>4, <1>6, MainTyped, MainOwned, MainTracked
<1>8. LeftOK'
  BY <1>2, <1>6 DEF LeftOK, handler, b
<1>9. SizeOK' /\ RaisedOK' /\ AwaitedOK' /\ SafetySequenceKept' /\ NoneLeftOK'
  BY <1>2 DEF SizeOK, RaisedOK, AwaitedOK, SafetySequenceKept, NoneLeftOK
<1> QED BY <1>7, <1>8, <1>9 DEF CoreInv, SharedInv

\* In shutdown_all(), short of its end, only processes and the thread's own
\* variables change.
Closing ==
  /\ ~Watching /\ main # "done" /\ main' \notin {"watch", "reap", "judge"}
  /\ Aged(proc') /\ UNCHANGED <<handler, closed, tracked, intended, shutdown, hist>>
  /\ seen' \in {seen, tracked} /\ size' \in Nat /\ names' \subseteq Workers /\ expired' \in BOOLEAN

LEMMA ClosingKeeps ==
  ASSUME CoreInv, Closing
  PROVE  /\ TypeOK' /\ PlanInv' /\ OwnedOK' /\ TrackedOK' /\ LeftOK'
         /\ \A p \in Procs : proc[p].life = "ended" => proc'[p].life = "ended"
<1>1. TypeOK /\ SharedInv /\ PlanInv /\ OwnedOK /\ TrackedOK /\ LeftOK
  BY DEF CoreInv, SharedInv
<1>2. /\ Aged(proc') /\ UNCHANGED <<handler, closed>> /\ tracked' = tracked
      /\ intended' = intended /\ shutdown' = shutdown /\ hist' = hist
      /\ main # "done" /\ ~Watching
  BY DEF Closing
<1>3. /\ tracked \in [Workers -> Procs \cup {0}] /\ seen \in [Workers -> Procs \cup {0}]
      /\ intended \subseteq Workers /\ shutdown \in BOOLEAN /\ hist \in History
  BY <1>1 DEF TypeOK, ProcsOK, LauncherOK
<1>4. /\ seen' \in [Workers -> Procs \cup {0}]
      /\ \A w \in Workers : seen'[w] \in {0, seen[w], tracked[w]}
      /\ size' \in Nat /\ names' \subseteq Workers /\ expired' \in BOOLEAN
  BY <1>3 DEF Closing
<1>5. TypeOK' /\ PlanInv' /\ OwnedOK' /\ TrackedOK'
  BY <1>1, <1>2, <1>3, <1>4, MainTyped, MainOwned, MainTracked
<1>6. LeftOK'
  BY <1>1, <1>2 DEF LeftOK, handler
<1>7. \A p \in Procs : proc[p].life = "ended" => proc'[p].life = "ended"
  BY <1>2 DEF Aged
<1> QED BY <1>5, <1>6, <1>7

LEMMA ListingKeeps ==
  ASSUME CoreInv, Listing
  PROVE  CoreInv'
<1>1. TypeOK /\ SharedInv
  BY DEF CoreInv
<1>2. /\ \/ main = "names" /\ main' = "split"
         \/ main = "linger" /\ main' = "term"
         \/ main = "lingerKill" /\ main' = "kill"
         \/ main = "lingerLast" /\ main' = "clear"
      /\ size' = Cardinality(Entries) /\ proc' = proc /\ tracked' = tracked /\ seen' = seen
      /\ names' = names /\ hist' = hist
  BY DEF Listing, List, MainGoto, tables
<1>3. Cardinality(Entries) \in Nat /\ Entries' = Entries
  <2>1. Entries \in SUBSET Workers
    BY DEF Entries
  <2> QED BY <1>2, <2>1, Finite, FS_CardinalityType DEF Entries
<1>4. Closing
  BY <1>1, <1>2, <1>3, ProcsAge
     DEF Closing, Watching, Listing, List, MainGoto, MainOnly, tables, TypeOK, LauncherOK
<1>5. TypeOK' /\ PlanInv' /\ OwnedOK' /\ TrackedOK' /\ LeftOK'
  BY <1>4, ClosingKeeps
<1>6. SizeOK' /\ RaisedOK'
  BY <1>2, <1>3 DEF SizeOK, RaisedOK
<1>7. AwaitedOK' /\ SafetySequenceKept' /\ NoneLeftOK'
  BY <1>1, <1>2 DEF SharedInv, AwaitedOK, SafetySequenceKept, NoneLeftOK, Early, Ended
<1> QED BY <1>5, <1>6, <1>7 DEF CoreInv, SharedInv

\* The table has changed its size, or holds a closed process: a request runs.
LEMMA ShutdownRaisesKeeps ==
  ASSUME CoreInv, ShutdownRaises
  PROVE  CoreInv'
<1>1. TypeOK /\ SharedInv /\ PlanInv
  BY DEF CoreInv
<1>2. /\ main \in {"split", "term", "kill", "clear", "joinEarly", "joinLate"} /\ main' = "raised"
      /\ \/ main \in {"split", "term", "kill", "clear"} /\ ~Listed
         \/ MayRaise(Early) \/ MayRaise(Late)
      /\ hist' = hist
  BY DEF ShutdownRaises, MainGoto
<1>3. Closing
  BY <1>1, <1>2, ProcsAge
     DEF Closing, Watching, ShutdownRaises, MainGoto, MainOnly, tables, TypeOK, LauncherOK
<1>4. TypeOK' /\ PlanInv' /\ OwnedOK' /\ TrackedOK' /\ LeftOK'
  BY <1>3, ClosingKeeps
<1>5. hist.beside
  <2> SUFFICES ASSUME ~hist.beside
               PROVE  FALSE
    OBVIOUS
  <2>1. todo = <<>>
    BY <1>1, <1>2 DEF SharedInv, LeftOK, Watching
  <2>2. \A w \in Workers : tracked[w] \notin closed
    BY <1>1, <2>1 DEF PlanInv, ClosedOK, Doing
  <2>3. Early \subseteq Workers /\ Late \subseteq Workers /\ Entries \subseteq Workers
    BY <1>1 DEF TypeOK, LauncherOK, Early, Late, Entries
  <2>4. ~MayRaise(Early) /\ ~MayRaise(Late) /\ ~MayRaise(Entries)
    BY <2>2, <2>3 DEF MayRaise
  <2> QED BY <1>1, <1>2, <2>4 DEF SharedInv, SizeOK, Listed
<1>6. SizeOK' /\ RaisedOK' /\ AwaitedOK' /\ SafetySequenceKept' /\ NoneLeftOK'
  BY <1>2, <1>5 DEF SizeOK, RaisedOK, AwaitedOK, SafetySequenceKept, NoneLeftOK
<1> QED BY <1>4, <1>6 DEF CoreInv, SharedInv

LEMMA SplitKeeps ==
  ASSUME CoreInv, Split
  PROVE  CoreInv'
<1>1. TypeOK
  BY DEF CoreInv
<1>2. /\ main = "split" /\ main' = "early" /\ proc' = proc /\ tracked' = tracked
      /\ names' = {w \in Workers : Living(w)} /\ seen' = tracked
  BY DEF Split, MainGoto, tables
<1>3. Closing
  BY <1>1, <1>2, ProcsAge
     DEF Closing, Watching, Split, MainGoto, MainOnly, tables, TypeOK, LauncherOK
<1>4. TypeOK' /\ PlanInv' /\ OwnedOK' /\ TrackedOK' /\ LeftOK'
  BY <1>3, ClosingKeeps
<1>5. AwaitedOK'
  BY <1>2 DEF AwaitedOK, Living, Ended
<1>6. SizeOK' /\ RaisedOK' /\ SafetySequenceKept' /\ NoneLeftOK'
  BY <1>2 DEF SizeOK, RaisedOK, SafetySequenceKept, NoneLeftOK
<1> QED BY <1>4, <1>5, <1>6 DEF CoreInv, SharedInv

LEMMA SignallingKeeps ==
  ASSUME CoreInv, SignalEarly \/ SignalLate
  PROVE  CoreInv'
<1>1. TypeOK /\ SharedInv
  BY DEF CoreInv
<1>2. /\ \/ main = "early" /\ main' = "joinEarly"
         \/ main = "late" /\ main' = "joinLate"
      /\ \E ws : proc' = Signalled(ws)
      /\ tracked' = tracked /\ names' = names /\ seen' = seen
  BY DEF SignalEarly, SignalLate, MainGoto, tables
<1>3. Aged(proc')
  BY <1>1, <1>2, ProcsAge DEF TypeOK
<1>4. Closing
  BY <1>1, <1>2, <1>3
     DEF Closing, Watching, SignalEarly, SignalLate, MainGoto, MainOnly, tables, TypeOK, LauncherOK
<1>5. /\ TypeOK' /\ PlanInv' /\ OwnedOK' /\ TrackedOK' /\ LeftOK'
      /\ \A p \in Procs : proc[p].life = "ended" => proc'[p].life = "ended"
  BY <1>4, ClosingKeeps
<1>6. seen \in [Workers -> Procs \cup {0}] /\ names \subseteq Workers
  BY <1>1 DEF TypeOK, LauncherOK
<1>7. AwaitedOK'
  BY <1>1, <1>2, <1>5, <1>6 DEF SharedInv, AwaitedOK, Ended
<1>8. SafetySequenceKept'
  BY <1>1, <1>2, <1>5, <1>6 DEF SharedInv, SafetySequenceKept, Ended, Early
<1>9. SizeOK' /\ RaisedOK' /\ NoneLeftOK'
  BY <1>2 DEF SizeOK, RaisedOK, NoneLeftOK
<1> QED BY <1>5, <1>7, <1>8, <1>9 DEF CoreInv, SharedInv

\* The join goes on only when each worker has ended or will not obey; they all
\* have been asked, by the shutdown level.
LEMMA JoinEarlyKeeps ==
  ASSUME CoreInv, JoinEarly
  PROVE  CoreInv'
<1>1. TypeOK /\ SharedInv
  BY DEF CoreInv
<1>2. /\ main = "joinEarly" /\ main' = "late" /\ GivenUp(Early) /\ proc' = proc
      /\ tracked' = tracked /\ names' = names /\ seen' = seen
      /\ expired' = \E w \in Early : Living(w)
  BY DEF JoinEarly, MainGoto, tables
<1>3. Aged(proc')
  BY <1>1, <1>2, ProcsAge DEF TypeOK
<1>4. Closing
  BY <1>1, <1>2, <1>3
     DEF Closing, Watching, JoinEarly, MainGoto, MainOnly, tables, TypeOK, LauncherOK
<1>5. TypeOK' /\ PlanInv' /\ OwnedOK' /\ TrackedOK' /\ LeftOK'
  BY <1>4, ClosingKeeps
<1>6. SafetySequenceKept'
  <2> SUFFICES ASSUME NEW w \in Early \ Stubborn, ~Ended(seen[w])
               PROVE  FALSE
    BY <1>2 DEF SafetySequenceKept, Early, Ended
  <2>1. w \in names /\ w \in Workers /\ w # "simulator"
    BY <1>1 DEF Early, TypeOK, LauncherOK
  <2>2. seen[w] # 0 /\ tracked[w] = seen[w]
    BY <1>1, <1>2, <2>1 DEF SharedInv, AwaitedOK
  <2>3. Living(w) /\ proc[tracked[w]].worker = w
    BY <1>1, <2>1, <2>2 DEF Living, SharedInv, OwnedOK
  <2>4. Overdue(tracked[w], "long")
    BY <1>2, <2>3 DEF GivenUp
  <2>5. shutdown
    BY <1>1, <1>2 DEF SharedInv, LeftOK, Watching
  <2>6. Obeys(tracked[w])
    BY <2>1, <2>3, <2>5 DEF Obeys
  <2> QED BY <2>4, <2>6 DEF Overdue
<1>7. AwaitedOK' /\ SizeOK' /\ RaisedOK' /\ NoneLeftOK'
  BY <1>1, <1>2 DEF SharedInv, AwaitedOK, SizeOK, RaisedOK, NoneLeftOK
<1> QED BY <1>5, <1>6, <1>7 DEF CoreInv, SharedInv

\* The last kill reaches every living process, each of which is in the table.
LEMMA CuttingKeeps ==
  ASSUME CoreInv, JoinLate \/ TerminateAll \/ KillAll
  PROVE  CoreInv'
<1>1. TypeOK /\ SharedInv
  BY DEF CoreInv
<1>2. /\ \/ main = "joinLate" /\ main' = "linger" /\ proc' = proc
         \/ main = "term" /\ main' = "lingerKill" /\ \E ps : proc' = Cut(ps)
         \/ main = "kill" /\ main' = "lingerLast" /\ proc' = Cut({tracked[w] : w \in Workers})
      /\ tracked' = tracked /\ names' = names /\ seen' = seen /\ hist' = hist
  BY DEF JoinLate, TerminateAll, KillAll, MainGoto, tables
<1>3. Aged(proc')
  BY <1>1, <1>2, ProcsAge DEF TypeOK
<1>4. Closing
  BY <1>1, <1>2, <1>3
     DEF Closing, Watching, JoinLate, TerminateAll, KillAll, MainGoto, MainOnly, tables,
         TypeOK, LauncherOK
<1>5. /\ TypeOK' /\ PlanInv' /\ OwnedOK' /\ TrackedOK' /\ LeftOK'
      /\ \A p \in Procs : proc[p].life = "ended" => proc'[p].life = "ended"
  BY <1>4, ClosingKeeps
<1>6. seen \in [Workers -> Procs \cup {0}] /\ names \subseteq Workers /\ 0 \notin Procs
  BY <1>1 DEF TypeOK, LauncherOK, Procs
<1>7. SafetySequenceKept'
  BY <1>1, <1>2, <1>5, <1>6 DEF SharedInv, SafetySequenceKept, Ended, Early
<1>8. AwaitedOK' /\ SizeOK' /\ RaisedOK'
  BY <1>1, <1>2 DEF SharedInv, AwaitedOK, SizeOK, RaisedOK
<1>9. NoneLeftOK'
  <2> SUFFICES ASSUME main' = "lingerLast", ~hist'.beside, ~hist'.forgot, NEW p \in Procs
               PROVE  Ended(p)'
    BY <1>2 DEF NoneLeftOK
  <2> DEFINE ps == {tracked[w] : w \in Workers}
  <2>1. main = "kill" /\ proc' = Cut(ps) /\ ~hist.forgot
    BY <1>2
  <2>2. CASE proc[p].life = "ended"
    BY <1>5, <2>2 DEF Ended
  <2>3. CASE proc[p].life # "ended"
    <3>1. ~Ended(p)
      BY <1>6, <2>3 DEF Ended
    <3>2. tracked[proc[p].worker] = p /\ proc[p].worker \in Workers
      BY <1>1, <2>1, <3>1 DEF SharedInv, TrackedOK, TypeOK, ProcsOK, Process
    <3>3. p \in Procs \cap ps
      BY <3>2
    <3> HIDE DEF ps
    <3>4. Cut(ps)[p].life = "ended"
      BY <1>1, <3>3, ProcsAge DEF TypeOK
    <3> QED BY <2>1, <3>4 DEF Ended
  <2> QED BY <2>2, <2>3
<1> QED BY <1>5, <1>7, <1>8, <1>9 DEF CoreInv, SharedInv

LEMMA ClearKeeps ==
  ASSUME CoreInv, Clear
  PROVE  CoreInv'
<1>1. TypeOK /\ SharedInv /\ PlanInv /\ OwnedOK
  BY DEF CoreInv, SharedInv
<1>2. /\ UNCHANGED <<handler, closed>> /\ proc' = proc /\ main = "clear" /\ main' = "done"
      /\ tracked' = [w \in Workers |-> 0] /\ intended' = {} /\ seen' = seen /\ size' = size
      /\ names' = names /\ expired' = expired /\ shutdown' = shutdown /\ hist' = hist
  BY DEF Clear, MainGoto, MainOnly
<1>3. Aged(proc')
  BY <1>1, <1>2, ProcsAge DEF TypeOK
<1>4. /\ seen \in [Workers -> Procs \cup {0}] /\ shutdown \in BOOLEAN /\ hist \in History
      /\ size \in Nat /\ names \subseteq Workers /\ expired \in BOOLEAN
  BY <1>1 DEF TypeOK, ProcsOK, LauncherOK
<1>5. TypeOK' /\ PlanInv' /\ OwnedOK'
  BY <1>1, <1>2, <1>3, <1>4, MainTyped, MainOwned
<1>6. LeftOK' /\ NoneLeftOK'
  BY <1>1, <1>2 DEF SharedInv, LeftOK, NoneLeftOK, Watching, handler, Ended
<1>7. TrackedOK' /\ SizeOK' /\ RaisedOK' /\ AwaitedOK' /\ SafetySequenceKept'
  BY <1>2 DEF TrackedOK, SizeOK, RaisedOK, AwaitedOK, SafetySequenceKept
<1> QED BY <1>5, <1>6, <1>7 DEF CoreInv, SharedInv

LEMMA MainKeeps ==
  ASSUME CoreInv, MainStep
  PROVE  CoreInv'
BY WatchdogKeeps, LeaveUiKeeps, ListingKeeps, ShutdownRaisesKeeps, SplitKeeps, SignallingKeeps,
   JoinEarlyKeeps, CuttingKeeps, ClearKeeps DEF MainStep
-----------------------------------------------------------------------------
(* The core invariant.                                                     *)

LEMMA InitCore == Init => CoreInv
<1> SUFFICES ASSUME Init
             PROVE  CoreInv
  OBVIOUS
<1> DEFINE fixed == SetToSeq(Fixed)
           first == NewProc(CHOOSE w \in Workers : TRUE, Config("none", "real"))
           none == [first EXCEPT !.life = "ended"]
<1>1. /\ fixed \in Seq(Fixed) /\ Len(fixed) <= MaxProcs /\ Len(fixed) \in Nat
      /\ DOMAIN fixed = 1 .. Len(fixed)
      /\ \A w \in Fixed : \E i \in DOMAIN fixed : fixed[i] = w
      /\ \A i, j \in DOMAIN fixed : fixed[i] = fixed[j] => i = j
  <2>1. IsFiniteSet(Fixed)
    BY Finite
  <2> QED BY <2>1, Ordered, BoundsAssumption
<1>2. /\ proc = [p \in Procs |-> IF p <= Len(fixed) THEN NewProc(fixed[p], Config("none", "real"))
                                 ELSE none]
      /\ tracked = [w \in Workers |-> IF w \in Fixed THEN CHOOSE p \in DOMAIN fixed : fixed[p] = w
                                      ELSE 0]
      /\ closed = {} /\ intended = Fixed /\ todo = <<>> /\ mode = "none" /\ requests = 0
      /\ main = "watch" /\ seen = [w \in Workers |-> 0] /\ size = 0 /\ names = {}
      /\ expired = FALSE /\ shutdown = FALSE
      /\ hist = [failed |-> FALSE, forgot |-> FALSE, broken |-> FALSE, beside |-> FALSE]
  BY DEF Init
<1>3. Config("none", "real") \in Configs
  BY DEF Config, Configs, Environments
<1>4. none \in Process /\ none.life = "ended"
  <2>1. (CHOOSE w \in Workers : TRUE) \in Workers
    BY WorkersAssumption DEF Workers
  <2> QED BY <1>3, <2>1 DEF NewProc, Process
<1>5. \A w \in Fixed : NewProc(w, Config("none", "real")) \in Process
                       /\ NewProc(w, Config("none", "real")).worker = w
  BY <1>3, Finite DEF NewProc, Process
<1> HIDE DEF fixed, none
<1>6. \A w \in Fixed : tracked[w] \in DOMAIN fixed /\ fixed[tracked[w]] = w
  <2> TAKE w \in Fixed
  <2>1. tracked[w] = CHOOSE p \in DOMAIN fixed : fixed[p] = w
    BY <1>2, Finite
  <2> QED BY <1>1, <2>1
<1>7. \A i \in DOMAIN fixed : i \in Procs /\ fixed[i] \in Fixed /\ proc[i] = NewProc(fixed[i], Config("none", "real"))
  BY <1>1, <1>2, BoundsAssumption DEF Procs
<1>8. \A p \in Procs \ DOMAIN fixed : proc[p] = none
  BY <1>1, <1>2, BoundsAssumption DEF Procs
<1>9. TypeOK
  <2>1. proc \in [Procs -> Process]
    BY <1>2, <1>4, <1>5, <1>7, <1>8
  <2>2. tracked \in [Workers -> Procs \cup {0}]
    BY <1>2, <1>6, <1>7
  <2>3. hist \in History
    BY <1>2 DEF History
  <2>4. ProcsOK
    BY <1>2, <2>1, <2>2, Finite DEF ProcsOK
  <2>5. HandlerOK
    BY <1>2, BoundsAssumption DEF HandlerOK
  <2>6. LauncherOK
    BY <1>2, <2>3 DEF LauncherOK
  <2> QED BY <2>4, <2>5, <2>6 DEF TypeOK
<1>10. OwnedOK /\ TrackedOK
  <2>1. \A w \in Workers : tracked[w] # 0 => w \in Fixed
    BY <1>2
  <2>2. OwnedOK
    BY <1>2, <1>5, <1>6, <1>7, <2>1 DEF OwnedOK
  <2>3. ASSUME NEW p \in Procs, ~Ended(p)
        PROVE  tracked[proc[p].worker] = p
    <3>1. p \in DOMAIN fixed
      BY <1>4, <1>8, <2>3 DEF Ended
    <3>2. proc[p].worker = fixed[p] /\ fixed[p] \in Fixed
      BY <1>5, <1>7, <3>1
    <3> QED BY <1>1, <1>6, <3>1, <3>2
  <2> QED BY <2>2, <2>3 DEF TrackedOK
<1>11. PlanInv
  BY <1>2 DEF PlanInv, PlanOK, StageOK, ClosedOK
<1>12. LeftOK /\ SizeOK /\ RaisedOK /\ AwaitedOK /\ SafetySequenceKept /\ NoneLeftOK
  BY <1>2 DEF LeftOK, SizeOK, RaisedOK, AwaitedOK, SafetySequenceKept, NoneLeftOK, Watching
<1> QED BY <1>9, <1>10, <1>11, <1>12 DEF CoreInv, SharedInv

LEMMA StepCore == CoreInv /\ [Next]_vars => CoreInv'
<1> SUFFICES ASSUME CoreInv, [Next]_vars
             PROVE  CoreInv'
  OBVIOUS
<1>1. CASE UNCHANGED vars
  BY <1>1 DEF vars, tables, handler, launcher, CoreInv, SharedInv, PlanInv, TypeOK, ProcsOK,
     HandlerOK, LauncherOK, OwnedOK, TrackedOK, LeftOK, SizeOK, RaisedOK, AwaitedOK,
     SafetySequenceKept, NoneLeftOK, PlanOK, StageOK, ClosedOK, Watching, Entries, Early, Ended,
     Doing, Top
<1>2. CASE Next
  BY <1>1, <1>2, RequestKeeps, HandlerKeeps, MainKeeps, ProcessKeeps DEF Next, Terminated
<1> QED BY <1>1, <1>2

\* Types, tables and plans: every entry is its worker's, every living process
\* its worker's entry, and a step of a stop or a start finds what it needs.
THEOREM Core == Spec => []CoreInv
<1> QED BY InitCore, StepCore, PTL DEF Spec

-----------------------------------------------------------------------------
(* The environment: what the steps of a request keep.                      *)

LEMMA AwaitsOn ==
  ASSUME TypeOK, todo # <<>>, NEW steps \in Seq(Step), Then(steps)
  PROVE  \A op, w :
           Awaits(op, w)' <=> \/ \E i \in DOMAIN steps : steps[i].op = op /\ steps[i].worker = w
                              \/ \E i \in DOMAIN todo : i > 1 /\ todo[i].op = op /\ todo[i].worker = w
<1>1. /\ \A i \in DOMAIN todo' :
              \/ i \in DOMAIN steps /\ todo'[i] = steps[i]
              \/ /\ i > Len(steps) /\ i - Len(steps) + 1 \in DOMAIN todo
                 /\ todo'[i] = todo[i - Len(steps) + 1]
      /\ \A i \in DOMAIN steps : i \in DOMAIN todo' /\ todo'[i] = steps[i]
      /\ \A i \in DOMAIN todo : i > 1 =>
              i - 1 + Len(steps) \in DOMAIN todo' /\ todo'[i - 1 + Len(steps)] = todo[i]
      /\ todo' \in Seq(Step)
  BY ThenMakes DEF TypeOK, HandlerOK
<1>2. \A i \in DOMAIN todo' : i > Len(steps) => i - Len(steps) + 1 > 1
  BY <1>1
<1>3. ASSUME NEW op, NEW w, Awaits(op, w)'
      PROVE  \/ \E i \in DOMAIN steps : steps[i].op = op /\ steps[i].worker = w
             \/ \E i \in DOMAIN todo : i > 1 /\ todo[i].op = op /\ todo[i].worker = w
  <2>1. PICK i \in DOMAIN todo' : todo'[i].op = op /\ todo'[i].worker = w
    BY <1>3 DEF Awaits
  <2> QED BY <1>1, <1>2, <2>1
<1>4. ASSUME NEW op, NEW w, NEW i \in DOMAIN steps, steps[i].op = op, steps[i].worker = w
      PROVE  Awaits(op, w)'
  BY <1>1, <1>4 DEF Awaits
<1>5. ASSUME NEW op, NEW w, NEW i \in DOMAIN todo, i > 1, todo[i].op = op, todo[i].worker = w
      PROVE  Awaits(op, w)'
  BY <1>1, <1>5 DEF Awaits
<1> QED BY <1>3, <1>4, <1>5

\* Only a stop has a start behind it.
LEMMA NoSpawnBehind ==
  ASSUME TypeOK, PlanOK, todo # <<>>
  PROVE  /\ 1 \in DOMAIN todo /\ todo[1] = Top
         /\ \A i \in DOMAIN todo : i > 1 /\ todo[i].op = "spawn" => Top.op \in Stopping
         /\ \A i \in DOMAIN todo : i > 1 /\ todo[i].op \in Stopping => todo[i].op = "stop"
<1>1. 1 \in DOMAIN todo /\ todo[1] = Top
  BY DEF TypeOK, HandlerOK, Top
<1> QED BY <1>1 DEF PlanOK, Later, Stopping

\* What a step puts in front: the stop and the start of a worker.
LEMMA StepsOn ==
  ASSUME TypeOK, PlanOK, todo # <<>>, NEW steps \in Seq(Step), Then(steps), NEW e, StepsFor(e),
         \A i \in DOMAIN steps :
           /\ steps[i].op \in Stopping \cup {"spawn"}
           /\ i > 1 => steps[i].op = "spawn"
           /\ steps[i].op = "spawn" /\ steps[i].worker = "simulator" => e = "sim"
           /\ steps[i].op = "spawn" /\ steps[i].worker \in Surrounded =>
                \/ steps[i].config.environment = e
                \/ \E j \in DOMAIN todo : /\ j > 1 /\ todo[j].op = "refresh"
                                          /\ todo[j].worker = steps[i].worker
  PROVE  StepsFor(e)'
<1>1. /\ \A i \in DOMAIN todo' :
              \/ i \in DOMAIN steps /\ todo'[i] = steps[i]
              \/ /\ i > Len(steps) /\ i - Len(steps) + 1 \in DOMAIN todo
                 /\ todo'[i] = todo[i - Len(steps) + 1]
      /\ \A i \in DOMAIN todo : i > 1 =>
              i - 1 + Len(steps) \in DOMAIN todo' /\ todo'[i - 1 + Len(steps)] = todo[i]
      /\ todo' \in Seq(Step)
  BY ThenMakes DEF TypeOK, HandlerOK
<1>2. /\ 1 \in DOMAIN todo /\ todo[1] = Top
      /\ \A i \in DOMAIN todo : i > 1 /\ todo[i].op = "spawn" => Top.op \in Stopping
  BY NoSpawnBehind
<1>3. \A v : (\E j \in DOMAIN todo : j > 1 /\ todo[j].op = "refresh" /\ todo[j].worker = v)
               => Awaits("refresh", v)'
  BY AwaitsOn
<1> DEFINE good(i) ==
       /\ todo'[i].op = "refresh" => todo'[i].environment = e
       /\ todo'[i].op \in {"start", "bridge"} => todo'[i].config.environment = e
       /\ (todo'[i].op = "spawn" /\ todo'[i].worker \in Surrounded) =>
            todo'[i].config.environment = e \/ Awaits("refresh", todo[i].worker)'
       /\ (i > 1 /\ todo'[i].op = "stop") => todo'[i].worker # "simulator"
       /\ (todo'[i].op \in {"manual", "spawn"} /\ todo'[i].worker = "simulator") => e = "sim"
       /\ (todo'[i].op = "manual" /\ todo'[i].worker = "simulator") =>
            \A w \in Surrounded : \E j \in DOMAIN todo' :
              j > i /\ todo'[j].op = "refresh" /\ todo'[j].worker = w
<1>4. ASSUME NEW i \in DOMAIN todo', i \in DOMAIN steps, todo'[i] = steps[i]
      PROVE  good(i)
  <2>1. /\ todo'[i].op \notin {"refresh", "start", "bridge", "manual"}
        /\ i > 1 => todo'[i].op # "stop"
        /\ todo'[i].op = "spawn" /\ todo'[i].worker = "simulator" => e = "sim"
    BY <1>4 DEF Stopping
  <2>2. (todo'[i].op = "spawn" /\ todo'[i].worker \in Surrounded) =>
            todo'[i].config.environment = e \/ Awaits("refresh", todo[i].worker)'
    <3> SUFFICES ASSUME todo'[i].op = "spawn", todo'[i].worker \in Surrounded,
                        todo'[i].config.environment # e
                 PROVE  Awaits("refresh", todo[i].worker)'
      OBVIOUS
    <3>1. \E j \in DOMAIN todo : j > 1 /\ todo[j].op = "refresh" /\ todo[j].worker = todo'[i].worker
      BY <1>4
    <3>2. PICK j \in DOMAIN todo : j > 1 /\ todo[j].op = "refresh" /\ todo[j].worker = todo'[i].worker
      BY <3>1
    <3>3. j - 1 + Len(steps) \in DOMAIN todo' /\ todo'[j - 1 + Len(steps)] = todo[j]
      BY <1>1, <3>2
    <3> QED BY <3>2, <3>3 DEF Awaits
  <2> QED BY <2>1, <2>2
<1>5. ASSUME NEW i \in DOMAIN todo', i > Len(steps), i - Len(steps) + 1 \in DOMAIN todo,
             todo'[i] = todo[i - Len(steps) + 1]
      PROVE  good(i)
  <2> DEFINE k == i - Len(steps) + 1
  <2>1. k \in DOMAIN todo /\ k > 1 /\ todo'[i] = todo[k] /\ i = k - 1 + Len(steps)
    BY <1>1, <1>5
  <2> HIDE DEF k
  <2>2. /\ todo[k].op = "refresh" => todo[k].environment = e
        /\ todo[k].op \in {"start", "bridge"} => todo[k].config.environment = e
        /\ (todo[k].op = "spawn" /\ todo[k].worker \in Surrounded) =>
             \/ todo[k].config.environment = e
             \/ \E j \in DOMAIN todo : todo[j].op = "refresh" /\ todo[j].worker = todo[k].worker
        /\ todo[k].op = "stop" => todo[k].worker # "simulator"
        /\ (todo[k].op \in {"manual", "spawn"} /\ todo[k].worker = "simulator") => e = "sim"
        /\ (todo[k].op = "manual" /\ todo[k].worker = "simulator") =>
             \A w \in Surrounded : \E j \in DOMAIN todo :
               j > k /\ todo[j].op = "refresh" /\ todo[j].worker = w
    BY <2>1 DEF StepsFor, Awaits
  <2>3. ASSUME todo[k].op = "spawn",
               NEW j \in DOMAIN todo, todo[j].op = "refresh", todo[j].worker = todo[k].worker
        PROVE  Awaits("refresh", todo[i].worker)'
    <3>1. Top.op \in Stopping
      BY <1>2, <2>1, <2>3
    <3>2. j # 1
      BY <1>2, <2>3, <3>1 DEF Stopping
    <3>3. j > 1
      BY <3>2 DEF TypeOK, HandlerOK
    <3>4. j - 1 + Len(steps) \in DOMAIN todo' /\ todo'[j - 1 + Len(steps)] = todo[j]
      BY <1>1, <3>3
    <3> QED BY <2>1, <2>3, <3>4 DEF Awaits
  <2>4. ASSUME todo[k].op = "manual", todo[k].worker = "simulator", NEW w \in Surrounded
        PROVE  \E j \in DOMAIN todo' : j > i /\ todo'[j].op = "refresh" /\ todo'[j].worker = w
    <3>1. PICK j \in DOMAIN todo : j > k /\ todo[j].op = "refresh" /\ todo[j].worker = w
      BY <2>2, <2>4
    <3>2. j > 1 /\ j - 1 + Len(steps) > i
      BY <2>1, <3>1 DEF TypeOK, HandlerOK
    <3>3. j - 1 + Len(steps) \in DOMAIN todo' /\ todo'[j - 1 + Len(steps)] = todo[j]
      BY <1>1, <3>2
    <3> QED BY <3>1, <3>2, <3>3
  <2> QED BY <2>1, <2>2, <2>3, <2>4
<1>6. \A i \in DOMAIN todo' : good(i)
  BY <1>1, <1>4, <1>5
<1> QED BY <1>6 DEF StepsFor

LEMMA RunsOn ==
  ASSUME TypeOK, todo # <<>>, NEW steps \in Seq(Step), Then(steps), NEW e, RunsFor(e),
         Aged(proc'), \A w \in Workers : tracked'[w] \in {0, tracked[w]},
         \A w \in Workers \cap Surrounded :
           Top.op \in {"refresh", "spawn"} /\ Top.worker = w =>
             \/ tracked'[w] = 0 \/ proc[tracked[w]].config.environment = e
             \/ \E i \in DOMAIN steps : steps[i].op = "spawn" /\ steps[i].worker = w
  PROVE  RunsFor(e)'
<1> SUFFICES ASSUME NEW w \in Workers \cap Surrounded, tracked'[w] # 0
             PROVE  \/ proc'[tracked'[w]].config.environment = e
                    \/ Awaits("refresh", w)' \/ Awaits("spawn", w)'
  BY DEF RunsFor
<1>1. /\ tracked[w] # 0 /\ tracked'[w] = tracked[w] /\ tracked[w] \in Procs
      /\ proc'[tracked[w]].config = proc[tracked[w]].config
  BY DEF TypeOK, ProcsOK, Aged
<1>2. \/ proc[tracked[w]].config.environment = e
      \/ Awaits("refresh", w) \/ Awaits("spawn", w)
  BY <1>1 DEF RunsFor
<1>3. \A op : Awaits(op, w) =>
        \/ Top.op = op /\ Top.worker = w
        \/ \E i \in DOMAIN todo : i > 1 /\ todo[i].op = op /\ todo[i].worker = w
  <2>1. Top = todo[1] /\ \A i \in DOMAIN todo : i = 1 \/ i > 1
    BY DEF TypeOK, HandlerOK, Top
  <2> QED BY <2>1 DEF Awaits
<1>4. \A op : \/ \E i \in DOMAIN steps : steps[i].op = op /\ steps[i].worker = w
              \/ \E i \in DOMAIN todo : i > 1 /\ todo[i].op = op /\ todo[i].worker = w
              => Awaits(op, w)'
  BY AwaitsOn
<1> QED BY <1>1, <1>2, <1>3, <1>4

\* The selected workers, and what a step may put in front before the mode is settled.
LEMMA SettleOn ==
  ASSUME TypeOK, SettleOK, todo # <<>>, NEW steps \in Seq(Step), Then(steps), Top.op # "settle",
         \A w \in Workers : tracked'[w] \in {0, tracked[w]},
         Top.op \in Stopping => \/ tracked'[Top.worker] = 0
                                \/ \E i \in DOMAIN steps : /\ steps[i].op \in Stopping
                                                           /\ steps[i].worker = Top.worker,
         \A i \in DOMAIN steps :
           /\ steps[i].op \in Stopping \cup {"spawn"}
           /\ steps[i].op = "spawn" => \A k \in DOMAIN todo : todo[k].op = "settle" =>
                steps[i].worker \in todo[k].selected \/ steps[i].worker \notin Pool
  PROVE  SettleOK'
<1>1. /\ \A i \in DOMAIN todo' :
              \/ i \in DOMAIN steps /\ todo'[i] = steps[i]
              \/ /\ i > Len(steps) /\ i - Len(steps) + 1 \in DOMAIN todo
                 /\ todo'[i] = todo[i - Len(steps) + 1]
      /\ \A i \in DOMAIN steps : i \in DOMAIN todo' /\ todo'[i] = steps[i]
      /\ \A i \in DOMAIN todo : i > 1 =>
              i - 1 + Len(steps) \in DOMAIN todo' /\ todo'[i - 1 + Len(steps)] = todo[i]
      /\ todo' \in Seq(Step) /\ Len(todo') = Len(steps) + Len(todo) - 1
      /\ 1 \in DOMAIN todo /\ Top = todo[1]
  BY ThenMakes DEF TypeOK, HandlerOK
<1>2. \A i \in DOMAIN steps : steps[i].op \notin {"settle", "start", "refresh"}
  BY DEF Stopping
<1> SUFFICES ASSUME NEW i \in DOMAIN todo', todo'[i].op = "settle"
             PROVE  /\ i = Len(todo')
                    /\ \A w \in Pool : tracked'[w] # 0 =>
                         \/ w \in todo'[i].selected
                         \/ \E j \in DOMAIN todo' : todo'[j].op \in Stopping /\ todo'[j].worker = w
                    /\ \A j \in DOMAIN todo' : todo'[j].op \in {"start", "spawn"} =>
                         todo'[j].worker \in todo'[i].selected \/ todo'[j].worker \notin Pool
                    /\ \A j \in DOMAIN todo' : todo'[j].op # "refresh"
  BY DEF SettleOK
<1> DEFINE k == i - Len(steps) + 1
<1>3. /\ i > Len(steps) /\ k \in DOMAIN todo /\ todo'[i] = todo[k] /\ todo[k].op = "settle"
  BY <1>1, <1>2
<1> HIDE DEF k
<1>4. /\ k = Len(todo)
      /\ \A w \in Pool : tracked[w] # 0 =>
           \/ w \in todo[k].selected
           \/ \E j \in DOMAIN todo : todo[j].op \in Stopping /\ todo[j].worker = w
      /\ \A j \in DOMAIN todo : todo[j].op \in {"start", "spawn"} =>
           todo[j].worker \in todo[k].selected \/ todo[j].worker \notin Pool
      /\ \A j \in DOMAIN todo : todo[j].op # "refresh"
  BY <1>3 DEF SettleOK
<1>5. i = Len(todo')
  BY <1>1, <1>3, <1>4 DEF TypeOK, HandlerOK, k
<1>6. ASSUME NEW w \in Pool, tracked'[w] # 0, w \notin todo[k].selected
      PROVE  \E j \in DOMAIN todo' : todo'[j].op \in Stopping /\ todo'[j].worker = w
  <2>1. w \in Workers /\ tracked[w] # 0
    BY <1>6, Finite
  <2>2. PICK j \in DOMAIN todo : todo[j].op \in Stopping /\ todo[j].worker = w
    BY <1>4, <1>6, <2>1
  <2>3. CASE j = 1
    <3>1. PICK l \in DOMAIN steps : steps[l].op \in Stopping /\ steps[l].worker = w
      BY <1>1, <1>6, <2>2, <2>3
    <3> QED BY <1>1, <3>1
  <2>4. CASE j > 1
    BY <1>1, <2>2, <2>4
  <2> QED BY <2>3, <2>4 DEF TypeOK, HandlerOK
<1>7. ASSUME NEW j \in DOMAIN todo'
      PROVE  /\ todo'[j].op # "refresh"
             /\ todo'[j].op \in {"start", "spawn"} =>
                  todo'[j].worker \in todo[k].selected \/ todo'[j].worker \notin Pool
  <2>1. CASE j \in DOMAIN steps /\ todo'[j] = steps[j]
    BY <1>2, <1>3, <2>1
  <2>2. CASE j - Len(steps) + 1 \in DOMAIN todo /\ todo'[j] = todo[j - Len(steps) + 1]
    BY <1>4, <2>2
  <2> QED BY <1>1, <2>1, <2>2
<1> QED BY <1>3, <1>5, <1>6, <1>7

LEMMA LoggerOn ==
  ASSUME TypeOK, LoggerOK, todo # <<>>, NEW steps \in Seq(Step), Then(steps),
         Aged(proc'), \A w \in Workers : tracked'[w] \in {0, tracked[w]},
         \A i \in DOMAIN steps :
           (steps[i].op \in {"start", "spawn"} /\ steps[i].worker = "walking_logger")
             => steps[i].config.mode = "walking"
  PROVE  LoggerOK'
<1>1. \A i \in DOMAIN todo' :
              \/ i \in DOMAIN steps /\ todo'[i] = steps[i]
              \/ /\ i - Len(steps) + 1 \in DOMAIN todo
                 /\ todo'[i] = todo[i - Len(steps) + 1]
  BY ThenMakes DEF TypeOK, HandlerOK
<1>2. \A i \in DOMAIN todo' :
        (todo'[i].op \in {"start", "spawn"} /\ todo'[i].worker = "walking_logger")
          => todo'[i].config.mode = "walking"
  BY <1>1 DEF LoggerOK
<1>3. "walking_logger" \in Workers /\ tracked'["walking_logger"] # 0 =>
        /\ tracked["walking_logger"] # 0 /\ tracked'["walking_logger"] = tracked["walking_logger"]
        /\ proc'[tracked["walking_logger"]].config = proc[tracked["walking_logger"]].config
  BY DEF TypeOK, ProcsOK, Aged
<1> QED BY <1>2, <1>3 DEF LoggerOK
-----------------------------------------------------------------------------
(* The environment: the calls of _start_worker().                          *)

CallOps == {"start", "manual", "ensure", "bridge", "refresh", "select"}

\* While no stop or start of the simulator is under way, the environment is
\* the one the request leads to, unless the simulator is still to be started.
LEMMA CallTurns ==
  ASSUME TypeOK, PlanOK, todo # <<>>, Top.op \in CallOps, NEW e \in Environments,
         StepsFor(e), TurnsTo(e)
  PROVE  /\ EnvironmentOf(intended) = e \/ Awaits("manual", "simulator")
         /\ Awaits("manual", "simulator") =>
              /\ e = "sim"
              /\ \A w \in Surrounded : \E j \in DOMAIN todo :
                   j > 1 /\ todo[j].op = "refresh" /\ todo[j].worker = w
         /\ "simulator" \in intended => e = "sim"
<1>1. /\ 1 \in DOMAIN todo /\ todo[1] = Top
      /\ \A i \in DOMAIN todo : i > 1 /\ todo[i].op = "spawn" => Top.op \in Stopping
  BY NoSpawnBehind
<1>2. \A i \in DOMAIN todo : i \in Nat /\ (i = 1 \/ i > 1)
  BY DEF TypeOK, HandlerOK
<1>3. Top.op \notin Stopping \cup {"spawn"}
  BY DEF CallOps, Stopping
<1>4. ~Awaits("spawn", "simulator") /\ ~StopsSimulator
  BY <1>1, <1>2, <1>3 DEF Awaits, StopsSimulator
<1>5. EnvironmentOf(intended) = e \/ Awaits("manual", "simulator")
  BY <1>4 DEF TurnsTo
<1>6. ASSUME Awaits("manual", "simulator")
      PROVE  /\ e = "sim"
             /\ \A w \in Surrounded : \E j \in DOMAIN todo :
                   j > 1 /\ todo[j].op = "refresh" /\ todo[j].worker = w
  <2>1. PICK i \in DOMAIN todo : todo[i].op = "manual" /\ todo[i].worker = "simulator"
    BY <1>6 DEF Awaits
  <2>2. e = "sim" /\ \A w \in Surrounded : \E j \in DOMAIN todo :
              j > i /\ todo[j].op = "refresh" /\ todo[j].worker = w
    BY <2>1 DEF StepsFor
  <2> QED BY <1>2, <2>2
<1> QED BY <1>5, <1>6 DEF EnvironmentOf

\* A call leaves the stop and the start of its worker to do, or nothing.
LEMMA CallLeads ==
  ASSUME CoreInv, todo # <<>>, Top.op \in CallOps, NEW e \in Environments, LeadsTo(e),
         NEW w, NEW steps \in Seq(Step), Then(steps),
         proc' = proc, \A v \in Workers : tracked'[v] \in {0, tracked[v]},
         \A i \in DOMAIN steps :
           steps[i].worker = w /\ (steps[i].op = "spawn" \/ (i = 1 /\ steps[i].op = "stop")),
         steps # <<>> => \E i \in DOMAIN steps : steps[i].op = "spawn",
         steps # <<>> /\ w = "simulator" => e = "sim",
         \A i \in DOMAIN steps : steps[i].op = "spawn" /\ w \in Surrounded =>
           \/ steps[i].config.environment = e
           \/ \E j \in DOMAIN todo : j > 1 /\ todo[j].op = "refresh" /\ todo[j].worker = w,
         \A v \in Workers \cap Surrounded : Top.op = "refresh" /\ Top.worker = v =>
           tracked'[v] = 0 \/ proc[tracked[v]].config.environment = e \/ (steps # <<>> /\ v = w),
         IF Top.op = "manual" /\ Top.worker = "simulator"
           THEN w = "simulator" /\ (steps # <<>> \/ "simulator" \in intended')
           ELSE "simulator" \in intended' <=> "simulator" \in intended
  PROVE  LeadsTo(e)'
<1>1. TypeOK /\ PlanOK /\ StepsFor(e) /\ TurnsTo(e) /\ RunsFor(e)
  BY DEF CoreInv, PlanInv, LeadsTo
<1>2. /\ 1 \in DOMAIN todo /\ todo[1] = Top
      /\ \A i \in DOMAIN todo : i > 1 /\ todo[i].op = "spawn" => Top.op \in Stopping
      /\ \A i \in DOMAIN todo : i = 1 \/ i > 1
  BY <1>1, NoSpawnBehind DEF TypeOK, HandlerOK
<1>3. Top.op \notin Stopping /\ Top.op # "spawn" /\ "stop" \in Stopping
  BY DEF CallOps, Stopping
<1>4. StepsFor(e)'
  <2>1. \A i \in DOMAIN steps :
           /\ steps[i].op \in Stopping \cup {"spawn"}
           /\ i > 1 => steps[i].op = "spawn"
           /\ steps[i].op = "spawn" /\ steps[i].worker = "simulator" => e = "sim"
           /\ steps[i].op = "spawn" /\ steps[i].worker \in Surrounded =>
                \/ steps[i].config.environment = e
                \/ \E j \in DOMAIN todo : /\ j > 1 /\ todo[j].op = "refresh"
                                          /\ todo[j].worker = steps[i].worker
    BY <1>3
  <2> QED BY <1>1, <2>1, StepsOn
<1>5. RunsFor(e)'
  <2>1. Aged(proc')
    BY <1>1, ProcsAge DEF TypeOK
  <2>2. \A v \in Workers \cap Surrounded :
           Top.op \in {"refresh", "spawn"} /\ Top.worker = v =>
             \/ tracked'[v] = 0 \/ proc[tracked[v]].config.environment = e
             \/ \E i \in DOMAIN steps : steps[i].op = "spawn" /\ steps[i].worker = v
    BY <1>3
  <2> QED BY <1>1, <2>1, <2>2, RunsOn
<1>6. /\ steps # <<>> /\ w = "simulator" => Awaits("spawn", "simulator")'
      /\ \A i \in DOMAIN todo : i > 1 /\ todo[i].op = "manual" /\ todo[i].worker = "simulator"
           => Awaits("manual", "simulator")'
  <2>1. \A op, v :
           Awaits(op, v)' <=> \/ \E i \in DOMAIN steps : steps[i].op = op /\ steps[i].worker = v
                              \/ \E i \in DOMAIN todo : i > 1 /\ todo[i].op = op /\ todo[i].worker = v
    BY <1>1, AwaitsOn
  <2> QED BY <2>1
<1>7. StopsSimulator' => Awaits("spawn", "simulator")'
  <2>1. steps # <<>> => Top' = steps[1] /\ 1 \in DOMAIN steps
    BY <1>1, ThenPlans
  <2>2. CASE steps # <<>>
    BY <1>6, <2>1, <2>2 DEF StopsSimulator
  <2>3. CASE steps = <<>>
    <3>1. todo' # <<>> => Top' = todo'[1] /\ 1 \in DOMAIN todo'
      BY ThenMakes, <1>1 DEF TypeOK, HandlerOK, Top
    <3>2. todo' # <<>> => 2 \in DOMAIN todo /\ todo'[1] = todo[2]
      <4>1. Len(steps) = 0 /\ 1 \notin DOMAIN steps
        BY <2>3
      <4>2. \A i \in DOMAIN todo' :
              \/ i \in DOMAIN steps
              \/ i - Len(steps) + 1 \in DOMAIN todo /\ todo'[i] = todo[i - Len(steps) + 1]
        BY ThenMakes, <1>1 DEF TypeOK, HandlerOK
      <4>3. 1 - Len(steps) + 1 = 2
        BY <4>1
      <4> QED BY <3>1, <4>1, <4>2, <4>3
    <3>3. 2 \in DOMAIN todo => \/ todo[2].op \notin Stopping
                               \/ todo[2].op = "stop" /\ todo[2].worker # "simulator"
      BY <1>1, NoSpawnBehind DEF StepsFor
    <3> QED BY <3>1, <3>2, <3>3 DEF StopsSimulator
  <2> QED BY <2>2, <2>3
<1>8. TurnsTo(e)'
  <2>1. EnvironmentOf(intended) = e \/ Awaits("manual", "simulator")
    BY <1>1, CallTurns
  <2>2. Awaits("manual", "simulator") =>
          \/ Top.op = "manual" /\ Top.worker = "simulator" /\ e = "sim"
          \/ Awaits("manual", "simulator")'
    BY <1>1, <1>2, <1>6 DEF Awaits, StepsFor
  <2>3. CASE Top.op = "manual" /\ Top.worker = "simulator"
    <3>1. e = "sim"
      BY <1>1, <1>2, <2>3 DEF StepsFor
    <3> QED BY <1>6, <1>7, <2>3, <3>1 DEF TurnsTo, EnvironmentOf
  <2>4. CASE ~(Top.op = "manual" /\ Top.worker = "simulator")
    <3>1. EnvironmentOf(intended') = EnvironmentOf(intended)
      BY <2>4 DEF EnvironmentOf
    <3> QED BY <1>7, <2>1, <2>2, <2>4, <3>1 DEF TurnsTo
  <2> QED BY <2>3, <2>4
<1> QED BY <1>4, <1>5, <1>8 DEF LeadsTo

\* The entries that are left are those of workers meant to run.
LEMMA ReapKnown ==
  ASSUME TypeOK, KnownOK, NEW left, Reap(left), Kept \subseteq left
  PROVE  /\ KnownOK'
         /\ ~hist'.broken => ~hist.broken /\ ("simulator" \in Kept <=> "simulator" \in intended)
<1>1. /\ intended' = left
      /\ hist'.broken <=> (hist.broken \/ "simulator" \in DeadEntries)
      /\ \A w \in Workers : tracked'[w] = IF w \in DeadEntries THEN 0 ELSE tracked[w]
  BY ReapDoes
<1>2. Kept \subseteq intended /\ \A w \in intended \ Kept : w \in DeadEntries
  BY TableTypes
<1>3. KnownOK'
  BY <1>1, <1>2 DEF KnownOK
<1> QED BY <1>1, <1>2, <1>3

LEMMA StartWorkerEnv ==
  ASSUME CoreInv, EnvironmentInv, todo # <<>>, Top.op \in CallOps,
         NEW w \in Workers, NEW c \in Configs, NEW undo \in Undos, StartWorker(w, c, undo),
         \A k \in DOMAIN todo : todo[k].op = "settle" => w \in todo[k].selected \/ w \notin Pool,
         w = "walking_logger" => c.mode = "walking",
         w = Top.worker,
         w = "simulator" => Top.op = "manual" \/ (Top.op = "bridge" /\ w \in intended),
         \A e \in Environments :
           ("simulator" \in Kept <=> "simulator" \in intended) /\ LeadsTo(e) =>
             /\ Top.op = "refresh" => c.environment = e
             /\ w \in Surrounded =>
                  \/ c.environment = e
                  \/ \E j \in DOMAIN todo : j > 1 /\ todo[j].op = "refresh" /\ todo[j].worker = w
  PROVE  EnvironmentInv'
<1> DEFINE start == StartStep("spawn", w, c, undo)
           stop == StopStep(w, "short")
<1>1. TypeOK /\ PlanOK /\ KnownOK /\ SettleOK /\ LoggerOK /\ EnvironmentOK
  BY DEF CoreInv, PlanInv, EnvironmentInv
<1>2. /\ start \in Step /\ start.op = "spawn" /\ start.worker = w /\ start.config = c
      /\ stop \in Step /\ stop.op = "stop" /\ stop.worker = w
  BY <1>1, StepsMade DEF StartStep, StopStep
<1>3. /\ \/ /\ Living(w) /\ proc[tracked[w]].config = c /\ Reap(Kept \cup {w}) /\ Then(<<>>)
         \/ Reap(Kept) /\ Then(<<start>>)
         \/ Reap(Kept) /\ Then(<<stop, start>>)
      /\ proc' = proc /\ closed' = closed /\ HandlerOnly
  BY <1>1, StartWorkerDoes
<1> HIDE DEF start, stop
<1>4. \E steps \in Seq(Step) : \E left \in SUBSET Workers :
        /\ Then(steps) /\ Reap(left) /\ Kept \subseteq left /\ left \subseteq Kept \cup {w}
        /\ steps = <<>> => w \in left /\ proc[tracked[w]].config = c
        /\ steps # <<>> => left = Kept /\ \E i \in DOMAIN steps : steps[i].op = "spawn"
        /\ \A i \in DOMAIN steps :
             /\ steps[i].worker = w /\ (steps[i].op = "spawn" \/ (i = 1 /\ steps[i].op = "stop"))
             /\ steps[i].op = "spawn" => steps[i].config = c
  <2>1. Kept \in SUBSET Workers /\ Kept \cup {w} \in SUBSET Workers
    BY <1>1, TableTypes
  <2>2. /\ <<>> \in Seq(Step) /\ \A i \in DOMAIN <<>> : FALSE
    OBVIOUS
  <2>3. CASE Living(w) /\ proc[tracked[w]].config = c /\ Reap(Kept \cup {w}) /\ Then(<<>>)
    BY <2>1, <2>2, <2>3
  <2>4. CASE Reap(Kept) /\ Then(<<start>>)
    <3> DEFINE steps == <<start>>
    <3>1. /\ steps \in Seq(Step) /\ steps # <<>> /\ 1 \in DOMAIN steps /\ steps[1] = start
          /\ \A i \in DOMAIN steps : i = 1
      BY <1>2
    <3>2. Then(steps)
      BY <2>4
    <3> HIDE DEF steps
    <3> QED BY <1>2, <2>1, <2>4, <3>1, <3>2
  <2>5. CASE Reap(Kept) /\ Then(<<stop, start>>)
    <3> DEFINE steps == <<stop, start>>
    <3>1. /\ steps \in Seq(Step) /\ steps # <<>> /\ 2 \in DOMAIN steps /\ steps[1] = stop
          /\ steps[2] = start /\ \A i \in DOMAIN steps : i \in {1, 2}
      BY <1>2
    <3>2. Then(steps)
      BY <2>5
    <3> HIDE DEF steps
    <3> QED BY <1>2, <2>1, <2>5, <3>1, <3>2
  <2> QED BY <1>3, <2>3, <2>4, <2>5
<1>5. PICK steps \in Seq(Step), left \in SUBSET Workers :
        /\ Then(steps) /\ Reap(left) /\ Kept \subseteq left /\ left \subseteq Kept \cup {w}
        /\ steps = <<>> => w \in left /\ proc[tracked[w]].config = c
        /\ steps # <<>> => left = Kept /\ \E i \in DOMAIN steps : steps[i].op = "spawn"
        /\ \A i \in DOMAIN steps :
             /\ steps[i].worker = w /\ (steps[i].op = "spawn" \/ (i = 1 /\ steps[i].op = "stop"))
             /\ steps[i].op = "spawn" => steps[i].config = c
  BY <1>4
<1>6. /\ \A v \in Workers : tracked'[v] \in {0, tracked[v]}
      /\ intended' = left
  BY <1>1, <1>5, ReapQuiet, ReapDoes
<1>7. /\ KnownOK'
      /\ ~hist'.broken => ~hist.broken /\ ("simulator" \in Kept <=> "simulator" \in intended)
  BY <1>1, <1>5, ReapKnown
<1>8. Top.op \notin Stopping /\ Top.op # "settle" /\ "stop" \in Stopping
  BY DEF CallOps, Stopping
<1>9. Aged(proc')
  BY <1>1, <1>3, ProcsAge DEF TypeOK
<1>10. SettleOK'
  BY <1>1, <1>5, <1>6, <1>8, SettleOn
<1>11. LoggerOK'
  BY <1>1, <1>5, <1>6, <1>9, LoggerOn
<1>12. EnvironmentOK'
  <2> SUFFICES ASSUME ~hist'.broken, main' # "done"
               PROVE  \E e \in Environments : LeadsTo(e)'
    BY DEF EnvironmentOK
  <2>1. ~hist.broken /\ main # "done" /\ ("simulator" \in Kept <=> "simulator" \in intended)
    BY <1>3, <1>7 DEF HandlerOnly, launcher
  <2>2. PICK e \in Environments : LeadsTo(e)
    BY <1>1, <2>1 DEF EnvironmentOK
  <2>3. /\ Top.op = "refresh" => c.environment = e
        /\ w \in Surrounded =>
             \/ c.environment = e
             \/ \E j \in DOMAIN todo : j > 1 /\ todo[j].op = "refresh" /\ todo[j].worker = w
    BY <2>1, <2>2
  <2>4. w = "simulator" => e = "sim"
    <3> SUFFICES ASSUME w = "simulator"
                 PROVE  e = "sim"
      OBVIOUS
    <3>1. CASE Top.op = "manual"
      <4>1. Awaits("manual", "simulator")
        BY <1>1, <3>1, NoSpawnBehind DEF Awaits
      <4> QED BY <1>1, <2>2, <4>1, CallTurns DEF LeadsTo
    <3>2. CASE w \in intended
      BY <1>1, <2>2, <3>2, CallTurns DEF LeadsTo
    <3> QED BY <3>1, <3>2
  <2>5. IF Top.op = "manual" /\ Top.worker = "simulator"
           THEN w = "simulator" /\ (steps # <<>> \/ "simulator" \in intended')
           ELSE "simulator" \in intended' <=> "simulator" \in intended
    BY <1>5, <1>6, <2>1
  <2>6. \A i \in DOMAIN steps : steps[i].op = "spawn" /\ w \in Surrounded =>
           \/ steps[i].config.environment = e
           \/ \E j \in DOMAIN todo : j > 1 /\ todo[j].op = "refresh" /\ todo[j].worker = w
    BY <1>5, <2>3
  <2>7. \A v \in Workers \cap Surrounded : Top.op = "refresh" /\ Top.worker = v =>
           tracked'[v] = 0 \/ proc[tracked[v]].config.environment = e \/ (steps # <<>> /\ v = w)
    BY <1>5, <2>3
  <2>8. LeadsTo(e)'
    BY <1>3, <1>5, <1>6, <2>2, <2>4, <2>5, <2>6, <2>7, CallLeads
  <2> QED BY <2>8
<1> QED BY <1>7, <1>10, <1>11, <1>12 DEF EnvironmentInv

\* A call that leaves nothing to do.
LEMMA SkipEnv ==
  ASSUME CoreInv, EnvironmentInv, todo # <<>>, Top.op \in CallOps, Then(<<>>),
         proc' = proc, main' = main, \A v \in Workers : tracked'[v] \in {0, tracked[v]}, KnownOK',
         ~hist'.broken => ~hist.broken /\ ("simulator" \in intended' <=> "simulator" \in intended),
         ~(Top.op = "manual" /\ Top.worker = "simulator"),
         \A e \in Environments, v \in Workers \cap Surrounded :
           LeadsTo(e) /\ Top.op = "refresh" /\ Top.worker = v =>
             tracked'[v] = 0 \/ proc[tracked[v]].config.environment = e
  PROVE  EnvironmentInv'
<1> DEFINE steps == <<>>
<1>1. TypeOK /\ PlanOK /\ KnownOK /\ SettleOK /\ LoggerOK /\ EnvironmentOK
  BY DEF CoreInv, PlanInv, EnvironmentInv
<1>2. steps \in Seq(Step) /\ Then(steps) /\ steps = <<>> /\ \A i \in DOMAIN steps : FALSE
  OBVIOUS
<1> HIDE DEF steps
<1>3. Top.op \notin Stopping
  BY DEF CallOps, Stopping
<1>4. Aged(proc')
  BY <1>1, ProcsAge DEF TypeOK
<1>5. SettleOK'
  <2>1. CASE Top.op # "settle"
    BY <1>1, <1>2, <1>3, <2>1, SettleOn
  <2> QED BY <2>1 DEF CallOps
<1>6. LoggerOK'
  BY <1>1, <1>2, <1>4, LoggerOn
<1>7. EnvironmentOK'
  <2> SUFFICES ASSUME ~hist'.broken, main' # "done"
               PROVE  \E e \in Environments : LeadsTo(e)'
    BY DEF EnvironmentOK
  <2>1. PICK e \in Environments : LeadsTo(e)
    BY <1>1 DEF EnvironmentOK
  <2>2. \A v \in Workers \cap Surrounded : Top.op = "refresh" /\ Top.worker = v =>
           tracked'[v] = 0 \/ proc[tracked[v]].config.environment = e
    BY <2>1
  <2>3. LeadsTo(e)'
    BY <1>2, <2>1, <2>2, CallLeads
  <2> QED BY <2>3
<1> QED BY <1>5, <1>6, <1>7 DEF EnvironmentInv

\* The environment a worker is started for: the current one, unless the
\* simulator is still to be started, and then the worker will be refreshed.
LEMMA CurrentFits ==
  ASSUME TypeOK, PlanOK, todo # <<>>, Top.op \in CallOps, NEW e \in Environments, LeadsTo(e),
         "simulator" \in Kept <=> "simulator" \in intended, NEW w \in Surrounded
  PROVE  \/ EnvironmentOf(Kept) = e
         \/ \E j \in DOMAIN todo : j > 1 /\ todo[j].op = "refresh" /\ todo[j].worker = w
<1>1. EnvironmentOf(Kept) = EnvironmentOf(intended)
  BY DEF EnvironmentOf
<1> QED BY <1>1, CallTurns DEF LeadsTo

LEMMA CallingEnv ==
  ASSUME CoreInv, EnvironmentInv, Calling
  PROVE  EnvironmentInv'
<1>1. TypeOK /\ PlanOK /\ KnownOK /\ SettleOK /\ LoggerOK /\ EnvironmentOK
  BY DEF CoreInv, PlanInv, EnvironmentInv
<1>2. /\ todo # <<>> /\ Top.op \in {"start", "manual", "ensure", "bridge", "refresh"}
      /\ proc' = proc /\ closed' = closed /\ HandlerOnly
  BY <1>1, CallingDoes
<1>3. Top \in Step /\ Top.op \in CallOps /\ main' = main
  BY <1>1, <1>2 DEF TypeOK, HandlerOK, Top, CallOps, HandlerOnly, launcher
<1>4. 1 \in DOMAIN todo /\ todo[1] = Top
  BY <1>1, <1>2, NoSpawnBehind
<1>5. /\ Top.op = "start" => Top.worker \in Pool /\ Top.config \in Configs /\ Top.undo \in Undos
      /\ Top.op = "manual" => Top.worker \in Manual /\ Top.undo \in Undos
      /\ Top.op = "ensure" => Top.worker \in Fixed /\ Top.undo \in Undos
      /\ Top.op = "bridge" => Top.config \in Configs /\ Top.undo \in Undos
      /\ Top.op = "refresh" => Top.worker \in Surrounded /\ Top.environment \in Environments
  BY <1>3, StepTypes, ConfigTyped
<1>6. mode \in Modes \cup {"none"} /\ intended \subseteq Workers
  BY <1>1 DEF TypeOK, HandlerOK, ProcsOK
<1>7. /\ \A w \in Manual \cup Fixed : w \in Workers /\ w \notin Pool /\ w # "walking_logger"
      /\ \A w \in Pool \cup Fixed : w \in Workers /\ w # "simulator"
      /\ \A w \in Workers \cap {"control", "hand"} : w \in Manual
      /\ "simulator" \notin Surrounded
  BY WorkersAssumption DEF Workers, Surrounded
<1>8. \A m, e : Config(m, e).environment = e /\ Config(m, e).mode = m
  BY DEF Config
<1>9. CASE Start
  <2> DEFINE w == Top.worker
             c == Top.config
  <2>1. Top.op = "start" /\ StartWorker(w, c, Top.undo)
    BY <1>9 DEF Start, Doing
  <2>2. \A k \in DOMAIN todo : todo[k].op = "settle" => w \in todo[k].selected \/ w \notin Pool
    BY <1>1, <1>4, <2>1 DEF SettleOK
  <2>3. w = "walking_logger" => c.mode = "walking"
    BY <1>1, <1>4, <2>1 DEF LoggerOK
  <2>4. \A e \in Environments : LeadsTo(e) => c.environment = e
    BY <1>4, <2>1 DEF LeadsTo, StepsFor
  <2> QED BY <1>2, <1>3, <1>5, <1>7, <2>1, <2>2, <2>3, <2>4, StartWorkerEnv
<1>10. CASE StartManualWorker
  <2> DEFINE w == Top.worker
             c == Config(mode, EnvironmentOf(Kept \cup ({w} \cap {"simulator"})))
  <2>1. Top.op = "manual" /\ StartWorker(w, c, Top.undo)
    BY <1>10 DEF StartManualWorker, Doing
  <2>2. c \in Configs
    BY <1>6, ConfigTyped DEF ConfigTypes
  <2>3. \A e \in Environments :
           ("simulator" \in Kept <=> "simulator" \in intended) /\ LeadsTo(e) /\ w \in Surrounded =>
                  \/ c.environment = e
                  \/ \E j \in DOMAIN todo : j > 1 /\ todo[j].op = "refresh" /\ todo[j].worker = w
    <3> SUFFICES ASSUME NEW e \in Environments, "simulator" \in Kept <=> "simulator" \in intended,
                        LeadsTo(e), w \in Surrounded
                 PROVE  \/ c.environment = e
                        \/ \E j \in DOMAIN todo : j > 1 /\ todo[j].op = "refresh" /\ todo[j].worker = w
      OBVIOUS
    <3>1. c.environment = EnvironmentOf(Kept)
      BY <1>7, <1>8 DEF EnvironmentOf
    <3> HIDE DEF c
    <3> QED BY <1>1, <1>2, <1>3, <3>1, CurrentFits
  <2> HIDE DEF c
  <2> QED BY <1>2, <1>3, <1>5, <1>7, <2>1, <2>2, <2>3, StartWorkerEnv
<1>11. CASE Ensure
  <2> DEFINE w == Top.worker
             c == Config("none", EnvironmentOf(Kept))
  <2>1. Top.op = "ensure" /\ w \in Fixed
    BY <1>5, <1>11 DEF Ensure, Doing
  <2>2. CASE Living(w)
    <3>1. /\ Then(<<>>) /\ tracked' = tracked /\ hist' = hist /\ intended' = intended \cup {w}
      BY <1>11, <2>2 DEF Ensure
    <3>2. KnownOK'
      BY <1>1, <3>1 DEF KnownOK
    <3> QED BY <1>2, <1>3, <1>7, <2>1, <3>1, <3>2, SkipEnv
  <2>3. CASE ~Living(w)
    <3>1. StartWorker(w, c, Top.undo)
      BY <1>11, <2>3 DEF Ensure
    <3>2. c \in Configs /\ c.environment = EnvironmentOf(Kept)
      BY <1>8, ConfigTyped DEF ConfigTypes
    <3> HIDE DEF c
    <3>3. \A e \in Environments :
           ("simulator" \in Kept <=> "simulator" \in intended) /\ LeadsTo(e) /\ w \in Surrounded =>
                  \/ c.environment = e
                  \/ \E j \in DOMAIN todo : j > 1 /\ todo[j].op = "refresh" /\ todo[j].worker = w
      BY <1>1, <1>2, <1>3, <3>2, CurrentFits
    <3> QED BY <1>2, <1>3, <1>5, <1>7, <2>1, <3>1, <3>2, <3>3, StartWorkerEnv
  <2> QED BY <2>2, <2>3
<1>12. CASE Bridge
  <2> DEFINE w == Top.worker
             c == Top.config
  <2>1. Top.op = "bridge"
    BY <1>12 DEF Bridge, Doing
  <2>2. CASE w \in intended \cap Manual
    <3>1. StartWorker(w, c, Top.undo)
      BY <1>12, <2>2 DEF Bridge
    <3>2. \A e \in Environments : LeadsTo(e) => c.environment = e
      BY <1>4, <2>1 DEF LeadsTo, StepsFor
    <3> QED BY <1>2, <1>3, <1>5, <1>7, <2>1, <2>2, <3>1, <3>2, StartWorkerEnv
  <2>3. CASE w \notin intended \cap Manual
    <3>1. Then(<<>>) /\ tracked' = tracked /\ intended' = intended /\ hist' = hist
      BY <1>12, <2>3 DEF Bridge, Skip, tables
    <3>2. KnownOK'
      BY <1>1, <3>1 DEF KnownOK
    <3> QED BY <1>2, <1>3, <2>1, <3>1, <3>2, SkipEnv
  <2> QED BY <2>2, <2>3
<1>13. CASE Refresh
  <2> DEFINE w == Top.worker
             old == proc[tracked[w]].config
             concerned == /\ w \in intended /\ tracked[w] # 0
                          /\ w \in {"control", "hand"} => w \in Manual
                          /\ w = "walking_logger" => old.mode = "walking"
             c == Config(old.mode, Top.environment)
  <2>1. Top.op = "refresh" /\ Top.environment \in Environments
    BY <1>5, <1>13 DEF Refresh, Doing
  <2>2. \A e \in Environments : LeadsTo(e) => Top.environment = e
    BY <1>4, <2>1 DEF LeadsTo, StepsFor
  <2>3. CASE ~concerned
    <3>1. Then(<<>>) /\ tracked' = tracked /\ intended' = intended /\ hist' = hist
      <4>1. Skip
        BY <1>13, <2>3 DEF Refresh
      <4> QED BY <4>1 DEF Skip, tables
    <3>2. KnownOK'
      BY <1>1, <3>1 DEF KnownOK
    <3>3. w \in Workers => tracked[w] = 0
      BY <1>1, <1>7, <2>3 DEF KnownOK, LoggerOK
    <3> QED BY <1>2, <1>3, <2>1, <3>1, <3>2, <3>3, SkipEnv
  <2>4. CASE concerned /\ old.environment # Top.environment
    <3>1. StartWorker(w, c, <<>>)
      BY <1>13, <2>4 DEF Refresh
    <3>2. w \in Workers /\ tracked[w] \in Procs
      BY <1>1, <1>6, <2>4 DEF TypeOK, ProcsOK
    <3>3. old.mode \in Modes \cup {"none"}
      BY <1>1, <3>2 DEF TypeOK, ProcsOK, Process, Configs
    <3>4. c \in Configs /\ <<>> \in Undos /\ c.environment = Top.environment /\ c.mode = old.mode
      BY <1>8, <2>1, <3>3, ConfigTyped DEF ConfigTypes
    <3>5. \A k \in DOMAIN todo : todo[k].op = "settle" => w \in todo[k].selected \/ w \notin Pool
      BY <1>1, <1>4, <2>1 DEF SettleOK
    <3>6. w # "simulator" /\ (w = "walking_logger" => c.mode = "walking")
      BY <1>5, <1>7, <2>1, <2>4, <3>4
    <3> HIDE DEF c
    <3> QED BY <1>2, <1>3, <2>1, <2>2, <3>1, <3>2, <3>4, <3>5, <3>6, StartWorkerEnv
  <2>5. CASE concerned /\ old.environment = Top.environment
    <3>1. Reap(Kept) /\ Then(<<>>)
      BY <1>13, <2>5 DEF Refresh
    <3>2. /\ KnownOK'
          /\ ~hist'.broken => ~hist.broken /\ ("simulator" \in Kept <=> "simulator" \in intended)
      BY <1>1, <3>1, ReapKnown
    <3>3. intended' = Kept /\ \A v \in Workers : tracked'[v] \in {0, tracked[v]}
      BY <1>1, <3>1, ReapDoes
    <3>4. \A e \in Environments : LeadsTo(e) => proc[tracked[w]].config.environment = e
      BY <2>2, <2>5
    <3> QED BY <1>2, <1>3, <2>1, <3>1, <3>2, <3>3, <3>4, SkipEnv
  <2> QED BY <2>3, <2>4, <2>5
<1> QED BY <1>9, <1>10, <1>11, <1>12, <1>13 DEF Calling

LEMMA SelectEnv ==
  ASSUME CoreInv, EnvironmentInv, Select
  PROVE  EnvironmentInv'
<1>1. /\ todo # <<>> /\ Top.op = "select" /\ Then(<<>>) /\ proc' = proc /\ tracked' = tracked
      /\ intended' = intended /\ hist' = hist /\ main' = main
  BY DEF Select, Doing, tables, launcher
<1>2. KnownOK'
  BY <1>1 DEF EnvironmentInv, KnownOK
<1> QED BY <1>1, <1>2, SkipEnv DEF CallOps
-----------------------------------------------------------------------------
(* The environment: the other steps of the handler thread.                 *)

LEMMA SettleEnv ==
  ASSUME CoreInv, EnvironmentInv, Settle
  PROVE  EnvironmentInv'
<1> DEFINE running == (Kept \ Pool) \cup Top.selected \cup Fixed
           c == Config(Top.mode, EnvironmentOf(running))
           m == Top.mode
           steps == Each(LAMBDA w : StartStep("bridge", w, c, <<>>), <<"simulator", "control", "hand">>)
                      \o <<SelectStep(m)>>
           all == BridgeSteps(c) \cup {SelectStep(m)}
<1>1. TypeOK /\ PlanOK /\ KnownOK /\ SettleOK /\ LoggerOK /\ EnvironmentOK
  BY DEF CoreInv, PlanInv, EnvironmentInv
<1>2. /\ todo # <<>> /\ Top.op = "settle" /\ Reap(running) /\ Then(steps)
      /\ proc' = proc /\ HandlerOnly
  BY DEF Settle, Doing, SelectStep
<1>3. Top.mode \in Modes /\ Top.selected \in SUBSET Pool
  <2>1. Top \in Step
    BY <1>1, <1>2 DEF TypeOK, HandlerOK, Top
  <2> QED BY <1>2, <2>1, StepTypes
<1>4. running \in SUBSET Workers /\ c \in Configs /\ c.environment = EnvironmentOf(running)
  BY <1>1, <1>3, TableTypes, Finite, ConfigTyped DEF ConfigTypes, Config
<1>5. /\ steps \in Seq(all)
      /\ \A s \in all : /\ s \in Step /\ s.op \in {"bridge", "select"}
                        /\ s.op = "bridge" => s.config = c
  <2> HIDE DEF c
  <2>1. steps \in Seq(all)
    BY <1>3, <1>4, SettlePlan
  <2>2. {} \in SUBSET Pool /\ "real" \in Environments /\ m \in Modes
    BY <1>3 DEF Environments
  <2>3. \A s \in all : s \in Step
    BY <1>4, <2>2, PlansMade
  <2>4. \A s \in all : s.op \in {"bridge", "select"} /\ (s.op = "bridge" => s.config = c)
    BY DEF BridgeSteps, SelectStep
  <2> QED BY <2>1, <2>3, <2>4
<1> HIDE DEF c, m, steps, all
<1>6. steps \in Seq(Step)
  BY <1>5
<1>7. /\ 1 \in DOMAIN todo /\ todo[1] = Top /\ Len(todo) = 1
      /\ \A w \in Pool : tracked[w] # 0 => w \in Top.selected
  <2>1. 1 \in DOMAIN todo /\ todo[1] = Top
    BY <1>1, <1>2, NoSpawnBehind
  <2>2. 1 = Len(todo)
    BY <1>1, <1>2, <2>1 DEF SettleOK
  <2>3. \A j \in DOMAIN todo : j = 1
    BY <1>1, <2>2 DEF TypeOK, HandlerOK
  <2>4. \A w \in Pool : tracked[w] # 0 => w \in Top.selected
    BY <1>1, <1>2, <2>1, <2>3 DEF SettleOK, Stopping
  <2> QED BY <2>1, <2>2, <2>4
<1>8. /\ \A i \in DOMAIN todo' : todo'[i] \in all
      /\ todo' # <<>> => Top' \in all
  <2>1. /\ \A i \in DOMAIN todo' :
              \/ i \in DOMAIN steps /\ todo'[i] = steps[i]
              \/ i > Len(steps) /\ i - Len(steps) + 1 \in DOMAIN todo
        /\ todo' # <<>> => Top' = todo'[1] /\ 1 \in DOMAIN todo'
        /\ todo' \in Seq(Step)
    BY <1>1, <1>2, <1>6, ThenMakes DEF TypeOK, HandlerOK, Top
  <2>2. \A i \in DOMAIN todo' : i > Len(steps) => i - Len(steps) + 1 \notin DOMAIN todo
    BY <1>1, <1>6, <1>7, <2>1 DEF TypeOK, HandlerOK
  <2> QED BY <1>5, <2>1, <2>2
<1>9. /\ \A i \in DOMAIN todo' : /\ todo'[i].op \in {"bridge", "select"}
                                 /\ todo'[i].op = "bridge" => todo'[i].config = c
      /\ todo' # <<>> => Top'.op \in {"bridge", "select"}
  BY <1>5, <1>8
<1>10. /\ intended' = running
       /\ hist'.broken <=> (hist.broken \/ "simulator" \in DeadEntries)
       /\ \A w \in Workers : tracked'[w] = IF w \in DeadEntries THEN 0 ELSE tracked[w]
  BY <1>1, <1>2, ReapDoes
<1>11. KnownOK'
  <2>1. \A w \in intended \ Kept : w \in DeadEntries
    BY <1>1, TableTypes
  <2> QED BY <1>1, <1>7, <1>10, <2>1 DEF KnownOK
<1>12. SettleOK'
  BY <1>9 DEF SettleOK
<1>13. LoggerOK'
  BY <1>1, <1>2, <1>9, <1>10 DEF LoggerOK
<1>14. EnvironmentOK'
  <2> SUFFICES ASSUME ~hist'.broken, main' # "done"
               PROVE  \E e \in Environments : LeadsTo(e)'
    BY DEF EnvironmentOK
  <2>1. ~hist.broken /\ main # "done" /\ "simulator" \notin DeadEntries
    BY <1>2, <1>10 DEF HandlerOnly, launcher
  <2>2. PICK e \in Environments : LeadsTo(e)
    BY <1>1, <2>1 DEF EnvironmentOK
  <2>3. \A op, w : Awaits(op, w) => op = "settle"
    BY <1>1, <1>2, <1>7 DEF TypeOK, HandlerOK, Awaits
  <2>4. EnvironmentOf(intended) = e
    BY <1>2, <2>2, <2>3 DEF LeadsTo, TurnsTo, StopsSimulator, Stopping
  <2>5. "simulator" \in running <=> "simulator" \in intended
    <3>1. Kept \subseteq intended /\ \A w \in intended \ Kept : w \in DeadEntries
      BY <1>1, TableTypes
    <3> QED BY <1>3, <2>1, <3>1, WorkersAssumption
  <2>6. EnvironmentOf(running) = e
    BY <2>4, <2>5 DEF EnvironmentOf
  <2>7. StepsFor(e)'
    BY <1>4, <1>9, <2>6 DEF StepsFor
  <2>8. TurnsTo(e)'
    BY <1>9, <1>10, <2>6 DEF TurnsTo, StopsSimulator, Stopping
  <2>9. RunsFor(e)'
    BY <1>2, <1>10, <2>2, <2>3 DEF RunsFor, LeadsTo
  <2>10. LeadsTo(e)'
    BY <2>7, <2>8, <2>9 DEF LeadsTo
  <2> QED BY <2>10
<1> QED BY <1>11, <1>12, <1>13, <1>14 DEF EnvironmentInv

\* The stages of a stop.
LEMMA StageEnv ==
  ASSUME CoreInv, EnvironmentInv, todo # <<>>, Top.op \in Stopping,
         NEW steps \in Seq(Step), Then(steps), \A i \in DOMAIN steps : i = 1,
         \A i \in DOMAIN steps : steps[i].op \in Stopping /\ steps[i].worker = Top.worker,
         steps = <<>> => tracked[Top.worker] = 0,
         intended' = IF steps = <<>> THEN intended \ {Top.worker} ELSE intended,
         Aged(proc'), \A w \in Workers : tracked'[w] \in {0, tracked[w]},
         hist' = hist, main' = main
  PROVE  EnvironmentInv'
<1>1. TypeOK /\ PlanOK /\ KnownOK /\ SettleOK /\ LoggerOK /\ EnvironmentOK
  BY DEF CoreInv, PlanInv, EnvironmentInv
<1>2. Top.op \notin {"settle", "refresh", "spawn", "manual"} /\ Top.worker \in Workers
  BY <1>1, StoppingTypes DEF Stopping
<1>3. \A i \in DOMAIN steps : steps[i].op \notin {"start", "spawn"}
  BY DEF Stopping
<1>4. /\ steps # <<>> => 1 \in DOMAIN steps /\ Top' = steps[1] /\ todo' # <<>>
      /\ steps = <<>> /\ todo' # <<>> => Top'.op \in Later \cup {"spawn"}
  BY <1>1, ThenPlans
<1>5. KnownOK'
  BY <1>1 DEF KnownOK
<1>6. SettleOK'
  <2>1. \/ tracked'[Top.worker] = 0
        \/ \E i \in DOMAIN steps : steps[i].op \in Stopping /\ steps[i].worker = Top.worker
    BY <1>2, <1>4
  <2>2. \A i \in DOMAIN steps :
           /\ steps[i].op \in Stopping \cup {"spawn"}
           /\ steps[i].op = "spawn" => \A k \in DOMAIN todo : todo[k].op = "settle" =>
                steps[i].worker \in todo[k].selected \/ steps[i].worker \notin Pool
    BY <1>3
  <2> QED BY <1>1, <1>2, <2>1, <2>2, SettleOn
<1>7. LoggerOK'
  BY <1>1, <1>3, LoggerOn
<1>8. ASSUME NEW e \in Environments, LeadsTo(e)
      PROVE  LeadsTo(e)'
  <2>1. StepsFor(e) /\ TurnsTo(e) /\ RunsFor(e)
    BY <1>8 DEF LeadsTo
  <2>2. StepsFor(e)'
    <3>1. \A i \in DOMAIN steps :
           /\ steps[i].op \in Stopping \cup {"spawn"}
           /\ i > 1 => steps[i].op = "spawn"
           /\ steps[i].op = "spawn" /\ steps[i].worker = "simulator" => e = "sim"
           /\ steps[i].op = "spawn" /\ steps[i].worker \in Surrounded =>
                \/ steps[i].config.environment = e
                \/ \E j \in DOMAIN todo : /\ j > 1 /\ todo[j].op = "refresh"
                                          /\ todo[j].worker = steps[i].worker
      BY <1>3
    <3> QED BY <1>1, <2>1, <3>1, StepsOn
  <2>3. RunsFor(e)'
    BY <1>1, <1>2, <2>1, RunsOn
  <2>4. \A op \in {"manual", "spawn"} : Awaits(op, "simulator")' <=> Awaits(op, "simulator")
    <3>1. \A op, w :
           Awaits(op, w)' <=> \/ \E i \in DOMAIN steps : steps[i].op = op /\ steps[i].worker = w
                              \/ \E i \in DOMAIN todo : i > 1 /\ todo[i].op = op /\ todo[i].worker = w
      BY <1>1, AwaitsOn
    <3>2. Top = todo[1] /\ \A i \in DOMAIN todo : i = 1 \/ i > 1
      BY <1>1 DEF TypeOK, HandlerOK, Top
    <3>3. \A op \in {"manual", "spawn"} : Awaits(op, "simulator") <=>
             \E i \in DOMAIN todo : i > 1 /\ todo[i].op = op /\ todo[i].worker = "simulator"
      BY <1>2, <3>2 DEF Awaits
    <3>4. \A op \in {"manual", "spawn"} :
             ~ \E i \in DOMAIN steps : steps[i].op = op /\ steps[i].worker = "simulator"
      BY DEF Stopping
    <3> QED BY <3>1, <3>3, <3>4
  <2>5. CASE steps # <<>>
    <3>1. StopsSimulator' <=> StopsSimulator
      BY <1>4, <2>5 DEF StopsSimulator
    <3> QED BY <2>1, <2>2, <2>3, <2>4, <2>5, <3>1 DEF LeadsTo, TurnsTo
  <2>6. CASE steps = <<>>
    <3>1. ~StopsSimulator'
      <4>1. todo' # <<>> => Top' = todo'[1] /\ 1 \in DOMAIN todo'
        BY ThenMakes, <1>1 DEF TypeOK, HandlerOK, Top
      <4>2. todo' # <<>> => 2 \in DOMAIN todo /\ todo'[1] = todo[2]
        <5>1. Len(steps) = 0 /\ 1 \notin DOMAIN steps
          BY <2>6
        <5>2. \A i \in DOMAIN todo' :
                \/ i \in DOMAIN steps
                \/ i - Len(steps) + 1 \in DOMAIN todo /\ todo'[i] = todo[i - Len(steps) + 1]
          BY ThenMakes, <1>1 DEF TypeOK, HandlerOK
        <5>3. 1 - Len(steps) + 1 = 2
          BY <5>1
        <5> QED BY <4>1, <5>1, <5>2, <5>3
      <4>3. 2 \in DOMAIN todo => \/ todo[2].op \notin Stopping
                                 \/ todo[2].op = "stop" /\ todo[2].worker # "simulator"
        BY <1>1, <2>1, NoSpawnBehind DEF StepsFor
      <4> QED BY <4>1, <4>2, <4>3 DEF StopsSimulator
    <3>2. CASE Top.worker = "simulator"
      <4>1. StopsSimulator
        BY <3>2 DEF StopsSimulator
      <4>2. EnvironmentOf(intended') = "real"
        BY <2>6, <3>2 DEF EnvironmentOf
      <4> QED BY <2>1, <2>2, <2>3, <2>4, <3>1, <4>1, <4>2 DEF LeadsTo, TurnsTo
    <3>3. CASE Top.worker # "simulator"
      <4>1. EnvironmentOf(intended') = EnvironmentOf(intended) /\ ~StopsSimulator
        BY <2>6, <3>3 DEF EnvironmentOf, StopsSimulator
      <4> QED BY <2>1, <2>2, <2>3, <2>4, <3>1, <4>1 DEF LeadsTo, TurnsTo
    <3> QED BY <3>2, <3>3
  <2> QED BY <2>5, <2>6
<1>9. EnvironmentOK'
  BY <1>1, <1>8 DEF EnvironmentOK
<1> QED BY <1>5, <1>6, <1>7, <1>9 DEF EnvironmentInv

LEMMA StoppingEnv ==
  ASSUME CoreInv, EnvironmentInv,
         Signal \/ Join \/ Terminate \/ Kill \/ Close \/ Forget \/ Discard
  PROVE  EnvironmentInv'
<1>1. TypeOK /\ PlanOK /\ StageOK
  BY DEF CoreInv, PlanInv
<1>2. /\ todo # <<>> /\ Top.op \in Stopping /\ hist' = hist /\ HandlerOnly
      /\ \A w \in Workers : tracked'[w] \in {0, tracked[w]}
  <2>1. todo # <<>> /\ Top.op \in Stopping /\ hist' = hist
    BY DEF Signal, Join, Terminate, Kill, Close, Forget, Discard, Doing, Stopping
  <2>2. HandlerOnly
    BY DEF Signal, Join, Terminate, Kill, Close, Forget, Discard, Goto
  <2>3. tracked' = tracked \/ tracked' = [tracked EXCEPT ![Top.worker] = 0]
    BY DEF Signal, Join, Terminate, Kill, Close, Forget, Discard, tables
  <2> QED BY <1>1, <2>1, <2>2, <2>3, StoppingTypes DEF TypeOK, ProcsOK
<1>3. Aged(proc')
  BY <1>1, ProcsAge DEF TypeOK, Signal, Join, Terminate, Kill, Close, Forget, Discard, tables
<1>4. Top \in Step /\ Top.worker \in Workers /\ tracked[Top.worker] \in Procs \cup {0}
  BY <1>1, <1>2, StoppingTypes
<1>5. CASE ~Discard
  <2>1. intended' = intended
    BY <1>5 DEF Signal, Join, Terminate, Kill, Close, Forget, tables
  <2>2. \E s \in Step : s.op \in Stopping /\ s.worker = Top.worker /\ Then(<<s>>)
    <3>1. CASE Signal
      BY <1>2, <1>4, <3>1, StageMade DEF Signal, Stopping
    <3>2. CASE ~Signal
      <4>1. \E op \in Stopping : Goto(op)
        BY <1>5, <3>2 DEF Join, Terminate, Kill, Close, Forget, Stopping
      <4> QED BY <1>2, <1>4, <4>1, StageMade DEF Goto
    <3> QED BY <3>1, <3>2
  <2>3. PICK s \in Step : s.op \in Stopping /\ s.worker = Top.worker /\ Then(<<s>>)
    BY <2>2
  <2> DEFINE steps == <<s>>
  <2>4. /\ steps \in Seq(Step) /\ steps # <<>> /\ \A i \in DOMAIN steps : i = 1 /\ steps[i] = s
    OBVIOUS
  <2>5. Then(steps)
    BY <2>3
  <2> HIDE DEF steps
  <2> QED BY <1>2, <1>3, <2>1, <2>3, <2>4, <2>5, StageEnv DEF HandlerOnly, launcher
<1>6. CASE Discard
  <2> DEFINE steps == <<>>
  <2>1. steps \in Seq(Step) /\ steps = <<>> /\ \A i \in DOMAIN steps : FALSE
    OBVIOUS
  <2>2. Then(steps) /\ intended' = intended \ {Top.worker}
    BY <1>6 DEF Discard
  <2>3. tracked[Top.worker] = 0
    BY <1>1, <1>6 DEF Discard, Doing, StageOK
  <2> HIDE DEF steps
  <2> QED BY <1>2, <1>3, <2>1, <2>2, <2>3, StageEnv DEF HandlerOnly, launcher
<1> QED BY <1>5, <1>6

LEMMA SpawnEnv ==
  ASSUME CoreInv, EnvironmentInv, Spawn
  PROVE  EnvironmentInv'
<1> DEFINE p == CHOOSE q \in FreeSlots : TRUE
           w == Top.worker
           steps == <<>>
<1>1. TypeOK /\ PlanOK /\ KnownOK /\ SettleOK /\ LoggerOK /\ EnvironmentOK
  BY DEF CoreInv, PlanInv, EnvironmentInv
<1>2. /\ todo # <<>> /\ Top.op = "spawn" /\ FreeSlots # {}
      /\ proc' = [proc EXCEPT ![p] = NewProc(w, Top.config)]
      /\ tracked' = [tracked EXCEPT ![w] = p]
      /\ intended' = intended \cup {w} /\ Then(steps) /\ hist' = hist /\ main' = main
  BY DEF Spawn, Doing, HandlerOnly, launcher
<1>3. /\ p \in Procs /\ p # 0 /\ \A v \in Workers : tracked[v] # p
  <2>1. p \in FreeSlots
    BY <1>2
  <2> HIDE DEF p
  <2> QED BY <2>1 DEF FreeSlots, Procs
<1>4. w \in Workers /\ Top.config \in Configs
  <2>1. Top \in Step
    BY <1>1, <1>2 DEF TypeOK, HandlerOK, Top
  <2> QED BY <1>2, <2>1, StepTypes
<1>5. NewProc(w, Top.config).config = Top.config
  BY DEF NewProc
<1>6. steps \in Seq(Step) /\ steps = <<>> /\ \A i \in DOMAIN steps : FALSE
  OBVIOUS
<1> HIDE DEF p, steps
<1>7. /\ proc'[p].config = Top.config /\ tracked'[w] = p
      /\ \A q \in Procs : q # p => proc'[q] = proc[q]
      /\ \A v \in Workers : v # w => tracked'[v] = tracked[v]
      /\ \A v \in Workers : tracked[v] \in Procs \cup {0}
  BY <1>1, <1>2, <1>3, <1>4, <1>5 DEF TypeOK, ProcsOK
<1>8. /\ 1 \in DOMAIN todo /\ todo[1] = Top
      /\ \A i \in DOMAIN todo : i > 1 => todo[i].op # "spawn"
      /\ \A i \in DOMAIN todo : i > 1 /\ todo[i].op \in Stopping => todo[i].op = "stop"
      /\ \A i \in DOMAIN todo : i = 1 \/ i > 1
  BY <1>1, <1>2, NoSpawnBehind DEF TypeOK, HandlerOK, Stopping
<1>9. /\ \A i \in DOMAIN todo' : i + 1 \in DOMAIN todo /\ todo'[i] = todo[i + 1]
      /\ \A i \in DOMAIN todo : i > 1 => i - 1 \in DOMAIN todo' /\ todo'[i - 1] = todo[i]
      /\ Len(todo') = Len(todo) - 1
      /\ todo' # <<>> => Top' = todo'[1] /\ 1 \in DOMAIN todo'
      /\ todo' \in Seq(Step)
  <2>1. /\ \A i \in DOMAIN todo' :
              \/ i \in DOMAIN steps
              \/ i - Len(steps) + 1 \in DOMAIN todo /\ todo'[i] = todo[i - Len(steps) + 1]
        /\ \A i \in DOMAIN todo : i > 1 =>
              i - 1 + Len(steps) \in DOMAIN todo' /\ todo'[i - 1 + Len(steps)] = todo[i]
        /\ Len(todo') = Len(steps) + Len(todo) - 1
        /\ todo' # <<>> => Top' = todo'[1] /\ 1 \in DOMAIN todo'
        /\ todo' \in Seq(Step)
    BY <1>1, <1>2, <1>6, ThenMakes DEF TypeOK, HandlerOK, Top
  <2>2. Len(steps) = 0 /\ Len(todo) \in Nat /\ \A i \in DOMAIN todo : i \in Nat
    BY <1>1, <1>6 DEF TypeOK, HandlerOK
  <2>3. \A i \in DOMAIN todo' : i - Len(steps) + 1 = i + 1
    BY <2>1, <2>2
  <2>4. \A i \in DOMAIN todo : i - 1 + Len(steps) = i - 1
    BY <2>2
  <2>5. Len(todo') = Len(todo) - 1
    BY <2>1, <2>2
  <2> QED BY <1>6, <2>1, <2>3, <2>4, <2>5
<1>10. KnownOK'
  BY <1>1, <1>2, <1>7 DEF KnownOK
<1>11. SettleOK'
  <2> SUFFICES ASSUME NEW i \in DOMAIN todo', todo'[i].op = "settle"
             PROVE  /\ i = Len(todo')
                    /\ \A v \in Pool : tracked'[v] # 0 =>
                         \/ v \in todo'[i].selected
                         \/ \E j \in DOMAIN todo' : todo'[j].op \in Stopping /\ todo'[j].worker = v
                    /\ \A j \in DOMAIN todo' : todo'[j].op \in {"start", "spawn"} =>
                         todo'[j].worker \in todo'[i].selected \/ todo'[j].worker \notin Pool
                    /\ \A j \in DOMAIN todo' : todo'[j].op # "refresh"
    BY DEF SettleOK
  <2> DEFINE k == i + 1
  <2>1. k \in DOMAIN todo /\ todo'[i] = todo[k] /\ todo[k].op = "settle"
    BY <1>9
  <2> HIDE DEF k
  <2>2. /\ k = Len(todo)
        /\ \A v \in Pool : tracked[v] # 0 =>
           \/ v \in todo[k].selected
           \/ \E j \in DOMAIN todo : todo[j].op \in Stopping /\ todo[j].worker = v
        /\ \A j \in DOMAIN todo : todo[j].op \in {"start", "spawn"} =>
           todo[j].worker \in todo[k].selected \/ todo[j].worker \notin Pool
        /\ \A j \in DOMAIN todo : todo[j].op # "refresh"
    BY <1>1, <2>1 DEF SettleOK
  <2>3. i = Len(todo')
    BY <1>1, <1>9, <2>2 DEF TypeOK, HandlerOK, k
  <2>4. ASSUME NEW v \in Pool, tracked'[v] # 0, v \notin todo[k].selected
        PROVE  \E j \in DOMAIN todo' : todo'[j].op \in Stopping /\ todo'[j].worker = v
    <3>1. v # w
      BY <1>2, <1>8, <2>2, <2>4
    <3>2. tracked[v] # 0
      BY <1>7, <2>4, <3>1, Finite
    <3>3. PICK j \in DOMAIN todo : todo[j].op \in Stopping /\ todo[j].worker = v
      BY <2>2, <2>4, <3>2
    <3>4. j > 1
      BY <1>2, <1>8, <3>3 DEF Stopping
    <3> QED BY <1>9, <3>3, <3>4
  <2>5. \A j \in DOMAIN todo' : /\ todo'[j].op # "refresh"
                                /\ todo'[j].op \in {"start", "spawn"} =>
                                     todo'[j].worker \in todo[k].selected \/ todo'[j].worker \notin Pool
    BY <1>9, <2>2
  <2> QED BY <2>1, <2>3, <2>4, <2>5
<1>12. LoggerOK'
  <2>1. w = "walking_logger" => Top.config.mode = "walking"
    BY <1>1, <1>2, <1>8 DEF LoggerOK
  <2>2. "walking_logger" \in Workers /\ tracked'["walking_logger"] # 0
          => proc'[tracked'["walking_logger"]].config.mode = "walking"
    BY <1>1, <1>3, <1>7, <2>1 DEF LoggerOK
  <2>3. \A i \in DOMAIN todo' :
          (todo'[i].op \in {"start", "spawn"} /\ todo'[i].worker = "walking_logger")
            => todo'[i].config.mode = "walking"
    BY <1>1, <1>9 DEF LoggerOK
  <2> QED BY <2>2, <2>3 DEF LoggerOK
<1>13. ASSUME NEW e \in Environments, LeadsTo(e)
       PROVE  LeadsTo(e)'
  <2>1. StepsFor(e) /\ TurnsTo(e) /\ RunsFor(e)
    BY <1>13 DEF LeadsTo
  <2>2. StepsFor(e)'
    BY <1>1, <1>2, <1>6, <2>1, StepsOn
  <2>3. \A op, v :
           Awaits(op, v)' <=> \E i \in DOMAIN todo : i > 1 /\ todo[i].op = op /\ todo[i].worker = v
    <3>1. \A op, v :
           Awaits(op, v)' <=> \/ \E i \in DOMAIN steps : steps[i].op = op /\ steps[i].worker = v
                              \/ \E i \in DOMAIN todo : i > 1 /\ todo[i].op = op /\ todo[i].worker = v
      BY <1>1, <1>2, <1>6, AwaitsOn
    <3> QED BY <1>6, <3>1
  <2>4. TurnsTo(e)'
    <3>1. ~StopsSimulator'
      BY <1>8, <1>9, <2>1 DEF StopsSimulator, StepsFor
    <3>2. ~StopsSimulator
      BY <1>2 DEF StopsSimulator, Stopping
    <3>3. CASE w = "simulator"
      <4>1. e = "sim"
        BY <1>2, <1>8, <2>1, <3>3 DEF StepsFor
      <4>2. EnvironmentOf(intended') = "sim"
        BY <1>2, <3>3 DEF EnvironmentOf
      <4> QED BY <3>1, <4>1, <4>2 DEF TurnsTo
    <3>4. CASE w # "simulator"
      <4>1. EnvironmentOf(intended') = EnvironmentOf(intended)
        BY <1>2, <3>4 DEF EnvironmentOf
      <4>2. ~Awaits("spawn", "simulator") /\ (Awaits("manual", "simulator") => Awaits("manual", "simulator")')
        BY <1>2, <1>8, <2>3, <3>4 DEF Awaits
      <4> QED BY <2>1, <3>1, <3>2, <4>1, <4>2 DEF TurnsTo
    <3> QED BY <3>3, <3>4
  <2>5. RunsFor(e)'
    <3> SUFFICES ASSUME NEW v \in Workers \cap Surrounded, tracked'[v] # 0
                 PROVE  proc'[tracked'[v]].config.environment = e \/ Awaits("refresh", v)' \/ Awaits("spawn", v)'
      BY DEF RunsFor
    <3>1. Awaits("refresh", v) => Awaits("refresh", v)'
      BY <1>2, <1>8, <2>3 DEF Awaits
    <3>2. CASE v = w
      <4>1. Top.config.environment = e \/ Awaits("refresh", w)
        BY <1>2, <1>8, <2>1, <3>2 DEF StepsFor
      <4> QED BY <1>7, <3>1, <3>2, <4>1
    <3>3. CASE v # w
      <4>1. ~Awaits("spawn", v)
        BY <1>2, <1>8, <3>3 DEF Awaits
      <4>2. tracked'[v] = tracked[v] /\ proc'[tracked[v]] = proc[tracked[v]]
        BY <1>3, <1>7, <3>3
      <4> QED BY <2>1, <3>1, <4>1, <4>2 DEF RunsFor
    <3> QED BY <3>2, <3>3
  <2> QED BY <2>2, <2>4, <2>5 DEF LeadsTo
<1>14. EnvironmentOK'
  BY <1>1, <1>2, <1>13 DEF EnvironmentOK
<1> QED BY <1>10, <1>11, <1>12, <1>14 DEF EnvironmentInv

\* A start that raises: nothing is promised of the environment any more.
LEMMA SpawnFailsEnv ==
  ASSUME CoreInv, EnvironmentInv, SpawnFails
  PROVE  EnvironmentInv'
<1> DEFINE plan == Joined(Each(StopManual, Reverse(Top.undo)))
           all == StopSteps(Manual) \cup RefreshSteps("real")
<1>1. TypeOK /\ KnownOK /\ SettleOK /\ LoggerOK
  BY DEF CoreInv, EnvironmentInv
<1>2. /\ todo # <<>> /\ Top.op = "spawn" /\ todo' = plan
      /\ hist' = [hist EXCEPT !.broken = TRUE]
      /\ proc' = proc /\ tracked' = tracked /\ intended' = intended
  BY DEF SpawnFails, Doing, tables
<1>3. Top.undo \in Undos
  <2>1. Top \in Step
    BY <1>1, <1>2 DEF TypeOK, HandlerOK, Top
  <2> QED BY <1>2, <2>1, StepTypes
<1>4. plan \in Seq(all)
  BY <1>3, RollbackPlan
<1>5. \A s \in all : s.op \in {"stop", "refresh"}
  BY DEF StopSteps, RefreshSteps
<1> HIDE DEF plan, all
<1>6. \A i \in DOMAIN todo' : todo'[i].op \in {"stop", "refresh"}
  BY <1>2, <1>4, <1>5
<1>7. KnownOK'
  BY <1>1, <1>2 DEF KnownOK
<1>8. SettleOK'
  BY <1>6 DEF SettleOK
<1>9. LoggerOK'
  BY <1>1, <1>2, <1>6 DEF LoggerOK
<1>10. hist'.broken
  BY <1>1, <1>2, HistoryTypes DEF TypeOK, LauncherOK
<1>11. EnvironmentOK'
  BY <1>10 DEF EnvironmentOK
<1> QED BY <1>7, <1>8, <1>9, <1>11 DEF EnvironmentInv

LEMMA HandlerEnv ==
  ASSUME CoreInv, EnvironmentInv, HandlerStep
  PROVE  EnvironmentInv'
BY CallingEnv, SettleEnv, SelectEnv, SpawnEnv, SpawnFailsEnv, StoppingEnv DEF HandlerStep, Calling
-----------------------------------------------------------------------------
(* The environment: the requests.                                          *)

\* Before a request each worker that cares runs for the current environment.
LEMMA FreshEnv ==
  ASSUME CoreInv, EnvironmentInv, todo = <<>>, Reap(Kept), proc' = proc, main' = main,
         \A i \in DOMAIN todo' :
           /\ todo'[i].op # "spawn"
           /\ todo'[i].op = "start" /\ todo'[i].worker = "walking_logger"
                => todo'[i].config.mode = "walking"
  PROVE  /\ KnownOK' /\ LoggerOK' /\ intended' = Kept
         /\ ~hist'.broken /\ main' # "done" =>
              \A w \in Workers \cap Surrounded : tracked'[w] # 0 =>
                proc'[tracked'[w]].config.environment = EnvironmentOf(Kept)
<1>1. TypeOK /\ KnownOK /\ LoggerOK /\ EnvironmentOK
  BY DEF CoreInv, EnvironmentInv
<1>2. /\ intended' = Kept
      /\ \A w \in Workers : tracked'[w] = IF w \in DeadEntries THEN 0 ELSE tracked[w]
  BY <1>1, ReapDoes
<1>3. /\ KnownOK'
      /\ ~hist'.broken => ~hist.broken /\ ("simulator" \in Kept <=> "simulator" \in intended)
  BY <1>1, ReapKnown
<1>4. LoggerOK'
  BY <1>1, <1>2 DEF LoggerOK
<1>5. ASSUME ~hist'.broken, main' # "done", NEW w \in Workers \cap Surrounded, tracked'[w] # 0
      PROVE  proc'[tracked'[w]].config.environment = EnvironmentOf(Kept)
  <2>1. PICK e \in Environments : LeadsTo(e)
    BY <1>1, <1>3, <1>5 DEF EnvironmentOK
  <2>2. ~StopsSimulator /\ \A op, v : ~Awaits(op, v)
    BY DEF StopsSimulator, Awaits
  <2>3. EnvironmentOf(intended) = e
    BY <2>1, <2>2 DEF LeadsTo, TurnsTo
  <2>4. EnvironmentOf(Kept) = e
    BY <1>3, <1>5, <2>3 DEF EnvironmentOf
  <2>5. tracked'[w] = tracked[w] /\ tracked[w] # 0
    BY <1>2, <1>5
  <2> QED BY <2>1, <2>2, <2>4, <2>5 DEF LeadsTo, RunsFor
<1> QED BY <1>2, <1>3, <1>4, <1>5

\* A request that neither starts nor stops the simulator.
LEMMA SameEnv ==
  ASSUME todo' \in Seq(Step), intended' = Kept,
         ~hist'.broken /\ main' # "done" =>
              \A w \in Workers \cap Surrounded : tracked'[w] # 0 =>
                proc'[tracked'[w]].config.environment = EnvironmentOf(Kept),
         \A i \in DOMAIN todo' :
           /\ todo'[i].op \notin {"refresh", "bridge", "spawn"}
           /\ todo'[i].op = "start" => todo'[i].config.environment = EnvironmentOf(Kept)
           /\ todo'[i].op \in Stopping \cup {"manual"} => todo'[i].worker # "simulator"
  PROVE  EnvironmentOK'
<1> SUFFICES ASSUME ~hist'.broken, main' # "done"
             PROVE  \E e \in Environments : LeadsTo(e)'
  BY DEF EnvironmentOK
<1>1. todo' # <<>> => 1 \in DOMAIN todo' /\ Top' = todo'[1]
  BY DEF Top
<1>2. ~StopsSimulator'
  BY <1>1 DEF StopsSimulator
<1>3. "stop" \in Stopping
  BY DEF Stopping
<1>4. PICK e \in Environments : e = EnvironmentOf(Kept)
  BY ConfigTyped
<1>5. StepsFor(e)'
  BY <1>4, <1>3 DEF StepsFor
<1>6. TurnsTo(e)'
  BY <1>4, <1>2 DEF TurnsTo
<1>7. RunsFor(e)'
  BY <1>4 DEF RunsFor
<1> QED BY <1>5, <1>6, <1>7 DEF LeadsTo

LEMMA StatusEnv ==
  ASSUME CoreInv, EnvironmentInv, Status
  PROVE  EnvironmentInv'
<1>1. /\ todo = <<>> /\ Reap(Kept) /\ proc' = proc /\ main' = main /\ todo' = todo
  BY DEF Status, handler, launcher
<1>2. todo' \in Seq(Step) /\ \A i \in DOMAIN todo' : FALSE
  BY <1>1
<1>3. /\ KnownOK' /\ LoggerOK' /\ intended' = Kept
      /\ ~hist'.broken /\ main' # "done" =>
              \A w \in Workers \cap Surrounded : tracked'[w] # 0 =>
                proc'[tracked'[w]].config.environment = EnvironmentOf(Kept)
  BY <1>1, <1>2, FreshEnv
<1>4. EnvironmentOK'
  BY <1>2, <1>3, SameEnv
<1>5. SettleOK'
  BY <1>2 DEF SettleOK
<1> QED BY <1>3, <1>4, <1>5 DEF EnvironmentInv

LEMMA ApplyModeEnv ==
  ASSUME CoreInv, EnvironmentInv, NEW m \in Modes, NEW selected \in SUBSET Candidates(m),
         ApplyMode(m, selected)
  PROVE  EnvironmentInv'
<1> DEFINE c == Config(m, EnvironmentOf(Kept))
           stopped == {w \in Pool : \/ w \in Kept /\ w \notin selected
                                    \/ w \in selected /\ Living(w) /\ proc[tracked[w]].config # c}
           plan == EachOf(LAMBDA w : StopStep(w, "short"), stopped)
                     \o EnsureFixed(<<>>)
                     \o EachOf(LAMBDA w : StartStep("start", w, c, <<>>), selected)
                     \o <<SettleStep(m, selected)>>
           all == StopSteps(stopped) \cup EnsureSteps \cup StartSteps(selected, c)
                    \cup {SettleStep(m, selected)}
<1>1. /\ todo = <<>> /\ todo' = plan /\ Reap(Kept) /\ proc' = proc /\ main' = main
  BY DEF ApplyMode, SettleStep, launcher
<1>2. selected \in SUBSET Pool /\ stopped \in SUBSET Pool /\ \A w \in Pool \cap Kept : w \in selected \cup stopped
  BY DEF Candidates
<1>3. c \in Configs /\ c.mode = m /\ c.environment = EnvironmentOf(Kept)
  BY ConfigTyped DEF ConfigTypes, Config
<1>4. "walking_logger" \in selected => m = "walking"
  BY DEF Candidates
<1>5. "simulator" \notin Pool /\ "simulator" \notin Fixed /\ "walking_logger" \notin Fixed
  BY WorkersAssumption
<1> HIDE DEF c, stopped
<1>6. plan \in Seq(all) /\ StopsThenSettles(plan, stopped)
  BY <1>2, <1>3, ApplyPlan
<1> HIDE DEF plan
<1>7. \A s \in all : s \in Step
  <2>1. "real" \in Environments
    BY DEF Environments
  <2> QED BY <1>2, <1>3, <2>1, PlansMade
<1>8. ASSUME NEW s \in all
      PROVE  /\ s.op \in {"stop", "ensure", "start", "settle"}
             /\ s.op = "stop" => s.worker \in stopped
             /\ s.op = "start" => s.worker \in selected /\ s.config = c
             /\ s.op = "settle" => s.selected = selected
  <2>1. CASE s \in StopSteps(stopped)
    BY <2>1 DEF StopSteps
  <2>2. CASE s \in EnsureSteps
    BY <2>2 DEF EnsureSteps
  <2>3. CASE s \in StartSteps(selected, c)
    BY <2>3 DEF StartSteps
  <2>4. CASE s = SettleStep(m, selected)
    BY <2>4 DEF SettleStep
  <2> QED BY <2>1, <2>2, <2>3, <2>4
<1> HIDE DEF all
<1>9. /\ todo' \in Seq(Step) /\ Len(todo') = Len(plan)
      /\ \A i \in DOMAIN todo' : /\ todo'[i] \in all
                                 /\ todo'[i].op = "settle" => i = Len(todo')
      /\ \A w \in stopped : \E i \in DOMAIN todo' : todo'[i].op = "stop" /\ todo'[i].worker = w
  BY <1>1, <1>6, <1>7 DEF StopsThenSettles
<1>10. \A i \in DOMAIN todo' :
         /\ todo'[i].op \in {"stop", "ensure", "start", "settle"}
         /\ todo'[i].op = "stop" => todo'[i].worker \in stopped
         /\ todo'[i].op = "start" => todo'[i].worker \in selected /\ todo'[i].config = c
         /\ todo'[i].op = "settle" => todo'[i].selected = selected
  BY <1>8, <1>9
<1>11. /\ KnownOK' /\ LoggerOK' /\ intended' = Kept
       /\ ~hist'.broken /\ main' # "done" =>
              \A w \in Workers \cap Surrounded : tracked'[w] # 0 =>
                proc'[tracked'[w]].config.environment = EnvironmentOf(Kept)
  <2>1. \A i \in DOMAIN todo' :
           /\ todo'[i].op # "spawn"
           /\ todo'[i].op = "start" /\ todo'[i].worker = "walking_logger"
                => todo'[i].config.mode = "walking"
    BY <1>3, <1>4, <1>10
  <2> QED BY <1>1, <2>1, FreshEnv
<1>12. EnvironmentOK'
  <2>1. \A i \in DOMAIN todo' :
           /\ todo'[i].op \notin {"refresh", "bridge", "spawn"}
           /\ todo'[i].op = "start" => todo'[i].config.environment = EnvironmentOf(Kept)
           /\ todo'[i].op \in Stopping \cup {"manual"} => todo'[i].worker # "simulator"
    BY <1>2, <1>3, <1>5, <1>10 DEF Stopping
  <2> QED BY <1>9, <1>11, <2>1, SameEnv
<1>13. SettleOK'
  <2> SUFFICES ASSUME NEW i \in DOMAIN todo', todo'[i].op = "settle"
             PROVE  /\ i = Len(todo')
                    /\ \A w \in Pool : tracked'[w] # 0 =>
                         \/ w \in todo'[i].selected
                         \/ \E j \in DOMAIN todo' : todo'[j].op \in Stopping /\ todo'[j].worker = w
                    /\ \A j \in DOMAIN todo' : todo'[j].op \in {"start", "spawn"} =>
                         todo'[j].worker \in todo'[i].selected \/ todo'[j].worker \notin Pool
                    /\ \A j \in DOMAIN todo' : todo'[j].op # "refresh"
    BY DEF SettleOK
  <2>1. \A w \in Pool : tracked'[w] # 0 => w \in selected \cup stopped
    BY <1>2, <1>11, Finite DEF KnownOK
  <2>2. "stop" \in Stopping
    BY DEF Stopping
  <2> QED BY <1>9, <1>10, <2>1, <2>2
<1> QED BY <1>11, <1>12, <1>13 DEF EnvironmentInv

LEMMA StartGroupEnv ==
  ASSUME CoreInv, EnvironmentInv, NEW part \in Parts, StartGroup(part)
  PROVE  EnvironmentInv'
<1> DEFINE plan == Joined([i \in DOMAIN part |-> StartManual(part[i], SubSeq(part, 1, i - 1))])
           all == EnsureSteps \cup ManualSteps(Manual) \cup RefreshSteps("sim")
           other == EnsureSteps \cup ManualSteps(Manual \ {"simulator"})
<1>1. /\ todo = <<>> /\ todo' = plan /\ Reap(Kept) /\ IsPart(part, Manual \ Kept)
      /\ proc' = proc /\ main' = main
  BY DEF StartGroup, launcher
<1>2. /\ plan \in Seq(all)
      /\ part # <<"simulator">> => plan \in Seq(other)
      /\ part = <<"simulator">> => StartsFirst(plan)
  BY <1>1, StartGroupPlan
<1>3. ASSUME NEW s \in all
      PROVE  /\ s \in Step /\ s.op \in {"ensure", "manual", "refresh"}
             /\ s.op = "refresh" => s.environment = "sim"
  <2>1. s \in Step
    BY StepsMade DEF Environments
  <2> QED BY <2>1 DEF EnsureSteps, ManualSteps, RefreshSteps
<1>4. \A s \in other : s.op \in {"ensure", "manual"} /\ (s.op = "manual" => s.worker # "simulator")
  BY DEF EnsureSteps, ManualSteps
<1> HIDE DEF plan, all, other
<1>5. /\ todo' \in Seq(Step)
      /\ \A i \in DOMAIN todo' : /\ todo'[i].op \in {"ensure", "manual", "refresh"}
                                 /\ todo'[i].op = "refresh" => todo'[i].environment = "sim"
      /\ todo' # <<>> => 1 \in DOMAIN todo' /\ Top' = todo'[1]
  <2>1. todo' \in Seq(Step) /\ \A i \in DOMAIN todo' : todo'[i] \in all
    BY <1>1, <1>2, <1>3
  <2> QED BY <1>3, <2>1 DEF Top
<1>6. /\ KnownOK' /\ LoggerOK' /\ intended' = Kept
      /\ ~hist'.broken /\ main' # "done" =>
              \A w \in Workers \cap Surrounded : tracked'[w] # 0 =>
                proc'[tracked'[w]].config.environment = EnvironmentOf(Kept)
  BY <1>1, <1>5, FreshEnv
<1>7. SettleOK'
  BY <1>5 DEF SettleOK
<1>8. CASE part # <<"simulator">>
  <2>1. \A i \in DOMAIN todo' : todo'[i] \in other
    BY <1>1, <1>2, <1>8
  <2>2. \A i \in DOMAIN todo' :
           /\ todo'[i].op \notin {"refresh", "bridge", "spawn"}
           /\ todo'[i].op = "start" => todo'[i].config.environment = EnvironmentOf(Kept)
           /\ todo'[i].op \in Stopping \cup {"manual"} => todo'[i].worker # "simulator"
    BY <1>4, <2>1 DEF Stopping
  <2>3. EnvironmentOK'
    BY <1>5, <1>6, <2>2, SameEnv
  <2> QED BY <1>6, <1>7, <2>3 DEF EnvironmentInv
<1>9. CASE part = <<"simulator">>
  <2>1. PICK k \in DOMAIN todo' :
          /\ todo'[k].op = "manual" /\ todo'[k].worker = "simulator"
          /\ \A i \in DOMAIN todo' : todo'[i].op = "manual" => i <= k
          /\ \A v \in Surrounded : \E j \in DOMAIN todo' :
               j > k /\ todo'[j].op = "refresh" /\ todo'[j].worker = v
    BY <1>1, <1>2, <1>9 DEF StartsFirst
  <2>2. ASSUME NEW i \in DOMAIN todo', todo'[i].op = "manual", NEW v \in Surrounded
        PROVE  \E j \in DOMAIN todo' : j > i /\ todo'[j].op = "refresh" /\ todo'[j].worker = v
    <3>1. PICK j \in DOMAIN todo' : j > k /\ todo'[j].op = "refresh" /\ todo'[j].worker = v
      BY <2>1
    <3>2. j > i
      BY <1>5, <2>1, <2>2, <3>1
    <3> QED BY <3>1, <3>2
  <2>3. StepsFor("sim")'
    BY <1>5, <2>2 DEF StepsFor
  <2>4. TurnsTo("sim")'
    BY <1>5, <2>1 DEF TurnsTo, StopsSimulator, Stopping, Awaits
  <2>5. RunsFor("sim")'
    BY <2>1 DEF RunsFor, Awaits
  <2>6. EnvironmentOK'
    <3>1. "sim" \in Environments
      BY DEF Environments
    <3> QED BY <2>3, <2>4, <2>5, <3>1 DEF EnvironmentOK, LeadsTo
  <2> QED BY <1>6, <1>7, <2>6 DEF EnvironmentInv
<1> QED BY <1>8, <1>9

LEMMA StopGroupEnv ==
  ASSUME CoreInv, EnvironmentInv, NEW part \in Parts, StopGroup(part)
  PROVE  EnvironmentInv'
<1> DEFINE plan == Joined(Each(StopManual, Reverse(part)))
           all == StopSteps(Manual) \cup RefreshSteps("real")
           other == StopSteps(Manual \ {"simulator"})
<1>1. /\ todo = <<>> /\ todo' = plan /\ Reap(Kept) /\ IsPart(part, Manual \cap Kept)
      /\ proc' = proc /\ main' = main
  BY DEF StopGroup, launcher
<1>2. /\ plan \in Seq(all)
      /\ part # <<"simulator">> => plan \in Seq(other)
      /\ part = <<"simulator">> => StopsFirst(plan)
  BY <1>1, StopGroupPlan
<1>3. ASSUME NEW s \in all
      PROVE  /\ s \in Step /\ s.op \in {"stop", "refresh"}
             /\ s.op = "refresh" => s.environment = "real"
  <2>1. s \in Step
    BY StepsMade DEF Environments
  <2> QED BY <2>1 DEF StopSteps, RefreshSteps
<1>4. /\ \A s \in other : s.op = "stop" /\ s.worker # "simulator"
      /\ \A s \in StopSteps({"simulator"}) : s.op = "stop" /\ s.worker = "simulator"
      /\ \A s \in RefreshSteps("real") : s.op = "refresh"
  BY DEF StopSteps, RefreshSteps
<1> HIDE DEF plan, all, other
<1>5. /\ todo' \in Seq(Step)
      /\ \A i \in DOMAIN todo' : /\ todo'[i].op \in {"stop", "refresh"}
                                 /\ todo'[i].op = "refresh" => todo'[i].environment = "real"
      /\ todo' # <<>> => 1 \in DOMAIN todo' /\ Top' = todo'[1]
  <2>1. todo' \in Seq(Step) /\ \A i \in DOMAIN todo' : todo'[i] \in all
    BY <1>1, <1>2, <1>3
  <2> QED BY <1>3, <2>1 DEF Top
<1>6. /\ KnownOK' /\ LoggerOK' /\ intended' = Kept
      /\ ~hist'.broken /\ main' # "done" =>
              \A w \in Workers \cap Surrounded : tracked'[w] # 0 =>
                proc'[tracked'[w]].config.environment = EnvironmentOf(Kept)
  BY <1>1, <1>5, FreshEnv
<1>7. SettleOK'
  BY <1>5 DEF SettleOK
<1>8. CASE part # <<"simulator">>
  <2>1. \A i \in DOMAIN todo' : todo'[i] \in other
    BY <1>1, <1>2, <1>8
  <2>2. \A i \in DOMAIN todo' :
           /\ todo'[i].op \notin {"refresh", "bridge", "spawn"}
           /\ todo'[i].op = "start" => todo'[i].config.environment = EnvironmentOf(Kept)
           /\ todo'[i].op \in Stopping \cup {"manual"} => todo'[i].worker # "simulator"
    BY <1>4, <2>1 DEF Stopping
  <2>3. EnvironmentOK'
    BY <1>5, <1>6, <2>2, SameEnv
  <2> QED BY <1>6, <1>7, <2>3 DEF EnvironmentInv
<1>9. CASE part = <<"simulator">>
  <2>1. /\ todo' # <<>> /\ todo'[1].op = "stop" /\ todo'[1].worker = "simulator"
        /\ \A i \in DOMAIN todo' : i > 1 => todo'[i].op = "refresh"
        /\ \A v \in Surrounded : \E i \in DOMAIN todo' :
             todo'[i].op = "refresh" /\ todo'[i].worker = v
    BY <1>1, <1>2, <1>4, <1>9 DEF StopsFirst
  <2>2. StepsFor("real")'
    BY <1>5, <2>1 DEF StepsFor
  <2>3. TurnsTo("real")'
    BY <1>5, <2>1 DEF TurnsTo, StopsSimulator, Stopping
  <2>4. RunsFor("real")'
    BY <2>1 DEF RunsFor, Awaits
  <2>5. EnvironmentOK'
    <3>1. "real" \in Environments
      BY DEF Environments
    <3> QED BY <2>2, <2>3, <2>4, <3>1 DEF EnvironmentOK, LeadsTo
  <2> QED BY <1>6, <1>7, <2>5 DEF EnvironmentInv
<1> QED BY <1>8, <1>9
-----------------------------------------------------------------------------
(* The environment: the main thread and the processes.                     *)

\* A step of the main thread or of a process leaves the request alone.
LEMMA StillEnv ==
  ASSUME TypeOK, EnvironmentInv, Aged(proc'), todo' = todo,
         \A w \in Workers : tracked'[w] \in {0, tracked[w]},
         \A w \in intended : tracked'[w] # 0 => w \in intended',
         ~hist'.broken /\ main' # "done" =>
           ~hist.broken /\ main # "done" /\ ("simulator" \in intended' <=> "simulator" \in intended)
  PROVE  EnvironmentInv'
<1>1. KnownOK /\ SettleOK /\ LoggerOK /\ EnvironmentOK
  BY DEF EnvironmentInv
<1>2. \A w \in Workers : tracked'[w] # 0 =>
        /\ tracked'[w] = tracked[w] /\ tracked[w] # 0
        /\ proc'[tracked'[w]].config = proc[tracked[w]].config
  BY DEF TypeOK, ProcsOK, Aged
<1>3. KnownOK'
  BY <1>1, <1>2 DEF KnownOK
<1>4. SettleOK'
  BY <1>1, <1>2, Finite DEF SettleOK
<1>5. LoggerOK'
  BY <1>1, <1>2 DEF LoggerOK
<1>6. EnvironmentOK'
  <2> SUFFICES ASSUME ~hist'.broken, main' # "done"
               PROVE  \E e \in Environments : LeadsTo(e)'
    BY DEF EnvironmentOK
  <2>1. PICK e \in Environments : LeadsTo(e)
    BY <1>1 DEF EnvironmentOK
  <2>2. \A op, w : Awaits(op, w)' <=> Awaits(op, w)
    BY DEF Awaits
  <2>3. (StopsSimulator' <=> StopsSimulator) /\ EnvironmentOf(intended') = EnvironmentOf(intended)
    BY DEF StopsSimulator, Top, EnvironmentOf
  <2>4. StepsFor(e)'
    BY <2>1 DEF LeadsTo, StepsFor, Awaits
  <2>5. TurnsTo(e)'
    BY <2>1, <2>2, <2>3 DEF LeadsTo, TurnsTo
  <2>6. RunsFor(e)'
    BY <1>2, <2>1, <2>2 DEF LeadsTo, RunsFor
  <2> QED BY <2>4, <2>5, <2>6 DEF LeadsTo
<1> QED BY <1>3, <1>4, <1>5, <1>6 DEF EnvironmentInv

LEMMA RequestEnv ==
  ASSUME CoreInv, EnvironmentInv, Request
  PROVE  EnvironmentInv'
<1>1. CASE RequestShutdown
  <2>1. TypeOK
    BY DEF CoreInv
  <2>2. /\ proc' = proc /\ tracked' = tracked /\ intended' = intended /\ todo' = todo
        /\ hist' = hist /\ main' = main
    BY <1>1 DEF RequestShutdown, tables, launcher
  <2> QED BY <2>1, <2>2, ProcsAge, StillEnv DEF TypeOK
<1> QED BY <1>1, ApplyModeEnv, StartGroupEnv, StopGroupEnv, StatusEnv DEF Request

LEMMA ProcessEnv ==
  ASSUME CoreInv, EnvironmentInv, NEW p \in Procs, ProcessStep(p)
  PROVE  EnvironmentInv'
<1>1. TypeOK
  BY DEF CoreInv
<1>2. tracked' = tracked /\ intended' = intended /\ todo' = todo /\ main' = main
  BY DEF ProcessStep, Notice, End, Crash, ProcessOnly, tables, handler, launcher
<1>3. Aged(proc')
  BY <1>1, ProcsAge DEF TypeOK, ProcessStep, Notice, End, Crash
<1>4. hist'.broken = hist.broken
  <2>1. CASE Notice(p) \/ End(p)
    BY <2>1 DEF Notice, End
  <2>2. CASE Crash(p)
    <3> DEFINE b == hist.failed \/ proc[p].worker \in Base
    <3>1. b \in BOOLEAN /\ hist \in History
      BY <1>1 DEF TypeOK, LauncherOK, History
    <3>2. hist' = [hist EXCEPT !.failed = b]
      BY <2>2 DEF Crash
    <3> HIDE DEF b
    <3> QED BY <3>1, <3>2, HistoryTypes
  <2> QED BY <2>1, <2>2 DEF ProcessStep
<1> QED BY <1>1, <1>2, <1>3, <1>4, StillEnv

LEMMA ReapSeenEnv ==
  ASSUME CoreInv, EnvironmentInv, ReapSeen
  PROVE  EnvironmentInv'
<1>1. TypeOK
  BY DEF CoreInv
<1>2. PICK entries \in SUBSET Workers :
        /\ tracked' = Without(entries) /\ intended' = Dismissed(entries)
        /\ hist' = [hist EXCEPT !.forgot = @ \/ \E w \in entries : Living(w),
                                !.broken = @ \/ "simulator" \in entries]
  BY DEF ReapSeen
<1> DEFINE b == hist.broken \/ "simulator" \in entries
           f == hist.forgot \/ \E w \in entries : Living(w)
<1>3. b \in BOOLEAN /\ f \in BOOLEAN /\ hist \in History
  BY <1>1 DEF TypeOK, LauncherOK, History
<1>4. hist' = [hist EXCEPT !.forgot = f, !.broken = b]
  BY <1>2
<1> HIDE DEF b, f
<1>5. hist'.broken = b
  BY <1>3, <1>4, HistoryTypes
<1>6. ~hist'.broken => ~hist.broken /\ "simulator" \notin entries
  BY <1>5 DEF b
<1>7. /\ proc' = proc /\ todo' = todo /\ main # "done"
  BY DEF ReapSeen, MainOnly, handler
<1>8. Aged(proc')
  BY <1>1, <1>7, ProcsAge DEF TypeOK
<1>9. \A w \in Workers : /\ tracked'[w] \in {0, tracked[w]}
                         /\ tracked'[w] # 0 => w \notin entries
  BY <1>2 DEF Without
<1>10. /\ intended \subseteq Workers
       /\ \A w \in intended \ entries : w \in intended'
       /\ intended' \subseteq intended
  BY <1>1, <1>2 DEF TypeOK, ProcsOK, Dismissed
<1>11. \A w \in intended : tracked'[w] # 0 => w \in intended'
  BY <1>9, <1>10
<1> QED BY <1>1, <1>6, <1>7, <1>8, <1>9, <1>10, <1>11, StillEnv

LEMMA MainEnv ==
  ASSUME CoreInv, EnvironmentInv, MainStep
  PROVE  EnvironmentInv'
<1>1. TypeOK /\ ProcsOK
  BY DEF CoreInv, TypeOK
<1>2. CASE Look \/ Judge \/ LeaveUi
  <2>1. /\ proc' = proc /\ tracked' = tracked /\ intended' = intended /\ todo' = todo
        /\ main # "done"
    BY <1>2 DEF Look, Judge, LeaveUi, MainOnly, tables, handler
  <2>2. hist'.broken = hist.broken
    <3>1. CASE Look \/ Judge
      BY <3>1 DEF Look, Judge
    <3>2. CASE LeaveUi
      <4> DEFINE b == todo # <<>>
      <4>1. b \in BOOLEAN /\ hist \in History /\ hist' = [hist EXCEPT !.beside = b]
        BY <1>1, <3>2 DEF LeaveUi, TypeOK, LauncherOK
      <4> HIDE DEF b
      <4> QED BY <4>1, HistoryTypes
    <3> QED BY <1>2, <3>1, <3>2
  <2> QED BY <1>1, <2>1, <2>2, ProcsAge, StillEnv
<1>3. CASE ReapSeen
  BY <1>3, ReapSeenEnv
<1>4. CASE \/ Listing \/ ShutdownRaises \/ Split \/ SignalEarly \/ JoinEarly \/ SignalLate
           \/ JoinLate \/ TerminateAll \/ KillAll
  <2>1. /\ tracked' = tracked /\ intended' = intended /\ todo' = todo /\ hist' = hist
        /\ main # "done"
    BY <1>4 DEF Listing, List, ShutdownRaises, Split, SignalEarly, JoinEarly, SignalLate,
       JoinLate, TerminateAll, KillAll, MainGoto, MainOnly, tables, handler
  <2>2. Aged(proc')
    BY <1>1, <1>4, ProcsAge DEF Listing, List, ShutdownRaises, Split, SignalEarly, JoinEarly,
       SignalLate, JoinLate, TerminateAll, KillAll
  <2> QED BY <1>1, <2>1, <2>2, StillEnv
<1>5. CASE Clear
  <2>1. /\ proc' = proc /\ tracked' = [w \in Workers |-> 0] /\ todo' = todo /\ main' = "done"
    BY <1>5 DEF Clear, MainGoto, MainOnly, handler
  <2>2. /\ \A w \in Workers : tracked'[w] \in {0, tracked[w]}
        /\ \A w \in intended : tracked'[w] # 0 => w \in intended'
    BY <1>1, <2>1 DEF ProcsOK
  <2> QED BY <1>1, <2>1, <2>2, ProcsAge, StillEnv
<1> QED BY <1>2, <1>3, <1>4, <1>5 DEF MainStep
-----------------------------------------------------------------------------
(* The environment: the invariant.                                         *)

LEMMA InitEnvironment == Init => EnvironmentInv
<1> SUFFICES ASSUME Init
             PROVE  EnvironmentInv
  OBVIOUS
<1>1. CoreInv
  BY InitCore
<1> DEFINE fixed == SetToSeq(Fixed)
<1>2. /\ DOMAIN fixed = 1 .. Len(fixed) /\ Len(fixed) \in Nat /\ Len(fixed) <= MaxProcs
      /\ \A w \in Fixed : \E i \in DOMAIN fixed : fixed[i] = w
  BY Finite, Ordered, BoundsAssumption
<1>3. /\ todo = <<>> /\ intended = Fixed
      /\ \A w \in Workers : tracked[w] # 0 =>
           /\ w \in Fixed
           /\ tracked[w] = CHOOSE p \in DOMAIN fixed : fixed[p] = w
      /\ \A p \in DOMAIN fixed : proc[p] = NewProc(fixed[p], Config("none", "real"))
  <2>1. proc = [p \in Procs |->
                  IF p <= Len(fixed) THEN NewProc(fixed[p], Config("none", "real"))
                  ELSE [NewProc(CHOOSE w \in Workers : TRUE, Config("none", "real"))
                          EXCEPT !.life = "ended"]]
    BY DEF Init
  <2>2. \A p \in DOMAIN fixed : p \in Procs /\ p <= Len(fixed)
    BY <1>2, BoundsAssumption DEF Procs
  <2>3. \A w \in Workers : tracked[w] # 0 =>
           /\ w \in Fixed
           /\ tracked[w] = CHOOSE p \in DOMAIN fixed : fixed[p] = w
    BY DEF Init
  <2>4. todo = <<>> /\ intended = Fixed
    BY DEF Init
  <2> HIDE DEF fixed
  <2> QED BY <2>1, <2>2, <2>3, <2>4
<1> HIDE DEF fixed
<1>4. \A w \in Workers : tracked[w] # 0 => tracked[w] \in DOMAIN fixed
  BY <1>2, <1>3
<1>5. \A w \in Workers : tracked[w] # 0 => proc[tracked[w]].config.environment = "real"
  <2>1. \A w : NewProc(w, Config("none", "real")).config.environment = "real"
    BY DEF NewProc, Config
  <2> QED BY <1>3, <1>4, <2>1
<1>6. "walking_logger" \notin Fixed /\ "simulator" \notin Fixed
  BY WorkersAssumption
<1>7. KnownOK /\ SettleOK /\ LoggerOK
  BY <1>3, <1>6 DEF KnownOK, SettleOK, LoggerOK
<1>8. LeadsTo("real")
  <2>1. EnvironmentOf(intended) = "real" /\ ~StopsSimulator
    BY <1>3, <1>6 DEF EnvironmentOf, StopsSimulator
  <2> QED BY <1>3, <1>5, <2>1 DEF LeadsTo, StepsFor, TurnsTo, RunsFor
<1> QED BY <1>7, <1>8 DEF EnvironmentInv, EnvironmentOK, Environments

LEMMA StepEnvironment == CoreInv /\ EnvironmentInv /\ [Next]_vars => EnvironmentInv'
<1> SUFFICES ASSUME CoreInv, EnvironmentInv, [Next]_vars
             PROVE  EnvironmentInv'
  OBVIOUS
<1>1. CASE UNCHANGED vars
  <2>1. TypeOK
    BY DEF CoreInv
  <2>2. /\ proc' = proc /\ tracked' = tracked /\ intended' = intended /\ todo' = todo
        /\ hist' = hist /\ main' = main
    BY <1>1 DEF vars, tables, handler, launcher
  <2> QED BY <2>1, <2>2, ProcsAge, StillEnv DEF TypeOK
<1>2. CASE Next
  BY <1>1, <1>2, RequestEnv, HandlerEnv, MainEnv, ProcessEnv DEF Next, Terminated
<1> QED BY <1>1, <1>2

\* What a request leads to is kept by every step, beside the core invariant.
THEOREM Environment == Spec => []EnvironmentInv
<1> QED BY InitEnvironment, StepEnvironment, Core, PTL DEF Spec
-----------------------------------------------------------------------------
(* The theorems.                                                           *)

\* Every variable keeps its type.
THEOREM Typing == Spec => []TypeOK
<1>1. CoreInv => TypeOK
  BY DEF CoreInv
<1> QED BY <1>1, Core, PTL

\* No worker runs twice, unless the watchdog forgot a living process.
THEOREM OneProcess == Spec => []OneProcessEach
<1>1. CoreInv => OneProcessEach
  <2> SUFFICES ASSUME CoreInv, ~hist.forgot, main # "done", NEW p \in Procs, NEW q \in Procs,
                      ~Ended(p), ~Ended(q), proc[p].worker = proc[q].worker
               PROVE  p = q
    BY DEF OneProcessEach
  <2> QED BY DEF CoreInv, SharedInv, TrackedOK
<1> QED BY <1>1, Core, PTL

\* The workers' orderly ends come before the simulator and the kills.
THEOREM SafetySequence == Spec => []SafetySequenceKept
<1>1. CoreInv => SafetySequenceKept
  BY DEF CoreInv, SharedInv
<1> QED BY <1>1, Core, PTL

\* shutdown_all() raises only beside a request.
THEOREM RaisesBeside == Spec => []RaisesOnlyBesideRequest
<1>1. CoreInv => RaisesOnlyBesideRequest
  BY DEF CoreInv, SharedInv, RaisedOK, RaisesOnlyBesideRequest
<1> QED BY <1>1, Core, PTL

\* Nothing is left after shutdown_all().
THEOREM NoneLeft == Spec => []ShutdownLeavesNone
<1>1. CoreInv => ShutdownLeavesNone
  BY DEF CoreInv, SharedInv, NoneLeftOK, ShutdownLeavesNone
<1> QED BY <1>1, Core, PTL

\* Between requests the workers that care about the environment were started
\* for the one they are in, unless the simulator died or a start raised.
THEOREM EnvironmentKept == Spec => []EnvironmentAgrees
<1>1. EnvironmentInv => EnvironmentAgrees
  <2> SUFFICES ASSUME EnvironmentInv, todo = <<>>, main \in {"watch", "reap", "judge"},
                      ~hist.broken, NEW w \in Workers \cap Surrounded, tracked[w] # 0
               PROVE  proc[tracked[w]].config.environment = EnvironmentOf(intended)
    BY DEF EnvironmentAgrees
  <2>1. PICK e \in Environments : LeadsTo(e)
    BY DEF EnvironmentInv, EnvironmentOK
  <2>2. ~StopsSimulator /\ \A op, v : ~Awaits(op, v)
    BY DEF StopsSimulator, Awaits
  <2> QED BY <2>1, <2>2 DEF LeadsTo, TurnsTo, RunsFor
<1> QED BY <1>1, Environment, PTL
=============================================================================
