------------------------- MODULE RecordSessionProofs -------------------------
(***************************************************************************)
(* Proofs about RecordSession, for any requests, any number of them and any *)
(* length of the buffer: its types, that start and home settle to one, and  *)
(* that an episode holds the frames of one take.                            *)
(***************************************************************************)
EXTENDS RecordSession, SequenceTheorems, TLAPS

------------------------------------------------------------------------------
(* The bus.                                                                 *)

\* What a writer may have to clear: the clears of a request, or their rest.
Clears == {<<>>, <<"home">>, <<"start">>, <<"start", "home">>,
           <<"home", "start", "home">>, <<"start", "start", "home">>,
           <<"ready", "start", "home">>}

LEMMA RestOfClears ==
  ASSUME NEW c \in Clears, c # <<>>
  PROVE  /\ Tail(c) \in Clears /\ Head(c) \in Level
         /\ Head(c) \notin {"start", "home"} => Tail(c) # <<>>
  <1>1. ASSUME NEW x \in {"home", "start"}, c = <<x>> PROVE Tail(c) = <<>> /\ Head(c) = x
    BY <1>1
  <1>2. CASE c = <<"start", "home">>
    BY <1>2 DEF Clears, Level
  <1>3. CASE c = <<"home", "start", "home">>
    BY <1>3 DEF Clears, Level
  <1>4. CASE c = <<"start", "start", "home">>
    BY <1>4 DEF Clears, Level
  <1>5. CASE c = <<"ready", "start", "home">>
    BY <1>5 DEF Clears, Level
  <1>6. CASE c = <<"home">> \/ c = <<"start">>
    BY <1>6, <1>1 DEF Clears, Level
  <1> QED
    BY <1>6, <1>2, <1>3, <1>4, <1>5 DEF Clears

LEMMA ClearsAreSequences == Clears \subseteq Seq(Level)
  BY DEF Clears, Level

LEMMA Prefix ==
  ASSUME NEW x \in Level
  PROVE  <<x>> \o <<"start", "home">> = <<x, "start", "home">>
  <1> DEFINE a == <<x>> b == <<"start","home">> c == <<x,"start","home">>
  <1>1. a \in Seq(Level) /\ b \in Seq(Level) /\ c \in Seq(Level)
    BY DEF Level
  <1>2. Len(a) = 1 /\ Len(b) = 2 /\ Len(c) = 3
    OBVIOUS
  <1>3. /\ a \o b \in Seq(Level) /\ Len(a \o b) = Len(a) + Len(b)
        /\ \A i \in 1..Len(a)+Len(b) : (a \o b)[i] = IF i <= Len(a) THEN a[i] ELSE b[i - Len(a)]
    <2> HIDE DEF a, b, c
    <2> QED BY <1>1, ConcatProperties, Zenon
  <1>4. c[1] = x /\ c[2] = "start" /\ c[3] = "home" /\ a[1] = x /\ b[1] = "start" /\ b[2] = "home"
    OBVIOUS
  <1> HIDE DEF a, b, c
  <1>5. \A i \in 1..3 : (a \o b)[i] = c[i]
    BY <1>2, <1>3, <1>4
  <1>6. a \o b = c
    <2>1. Len(a \o b) = Len(c)
      BY <1>2, <1>3
    <2>2. \A i \in 1..Len(a \o b) : (a \o b)[i] = c[i]
      BY <1>2, <1>5, <2>1
    <2> QED
      BY <1>1, <1>3, <2>1, <2>2, SeqEqual, Zenon
  <1> QED BY <1>6 DEF a, b, c

\* The clears of a request, with those of the gate behind them.
LEMMA GateClears ==
  /\ Gate \in Clears
  /\ \A l \in {"start", "home"} : <<l>> \o Gate \in Clears
  <1>1. CASE "ready" \in levels
    <2>1. Gate = <<>>
      BY <1>1 DEF Gate
    <2>2. \A l \in {"start", "home"} : <<l>> \in Seq(Level) /\ <<l>> \in Clears
      BY DEF Level, Clears
    <2>3. \A l \in {"start", "home"} : <<l>> \o <<>> = <<l>>
      BY <2>2, ConcatEmptySeq, Zenon
    <2> QED
      BY <2>1, <2>2, <2>3 DEF Clears
  <1>2. CASE "ready" \notin levels
    <2>1. Gate = <<"start", "home">>
      BY <1>2 DEF Gate
    <2>2. \A l \in {"start", "home"} : <<l>> \o Gate = <<l, "start", "home">>
      BY <2>1, Prefix DEF Level
    <2> QED
      BY <2>1, <2>2 DEF Clears
  <1> QED
    BY <1>1, <1>2

\* The bus alone: its types, and that start and home are both set only while
\* somebody has still to clear one of them.
BusOK ==
  /\ levels \subseteq Level /\ todo \in [Writer -> Clears]
  /\ {"start", "home"} \subseteq levels => \E w \in Writer : todo[w] # <<>>

LEMMA RaiseBus ==
  ASSUME BusOK, NEW w \in Writer, NEW l \in Level, NEW others \in Clears,
         Raise(w, l, others), l \in {"start", "home"} => others # <<>>,
         others # <<>> \/ todo[w] = <<>>
  PROVE  BusOK'
  <1>1. todo' \in [Writer -> Clears] /\ levels' \subseteq Level
    BY DEF Raise, BusOK
  <1>2. todo'[w] = others /\ \A v \in Writer \ {w} : todo'[v] = todo[v]
    BY DEF Raise, BusOK
  <1>3. ASSUME {"start", "home"} \subseteq levels'
        PROVE  \E v \in Writer : todo'[v] # <<>>
    <2>1. CASE others # <<>>
      BY <2>1, <1>2
    <2>2. CASE others = <<>>
      BY <2>2, <1>2, <1>3 DEF Raise, BusOK
    <2> QED
      BY <2>1, <2>2
  <1> QED
    BY <1>1, <1>3 DEF BusOK

LEMMA ClearAllBus ==
  ASSUME BusOK, NEW w \in Writer, NEW ls \in Clears, ClearAll(w, ls),
         ls # <<>> \/ todo[w] = <<>>
  PROVE  BusOK'
  <1>1. todo' \in [Writer -> Clears] /\ levels' = levels
    BY DEF ClearAll, BusOK
  <1>2. todo'[w] = ls /\ \A v \in Writer \ {w} : todo'[v] = todo[v]
    BY DEF ClearAll, BusOK
  <1> QED
    BY <1>1, <1>2 DEF BusOK

LEMMA ClearNextBus ==
  ASSUME BusOK, NEW w \in Writer, ClearNext(w)
  PROVE  BusOK'
  <1>1. /\ Tail(todo[w]) \in Clears /\ Head(todo[w]) \in Level
        /\ Head(todo[w]) \notin {"start", "home"} => Tail(todo[w]) # <<>>
    BY RestOfClears DEF BusOK, ClearNext
  <1>2. todo' \in [Writer -> Clears] /\ levels' \subseteq Level
    BY <1>1 DEF ClearNext, BusOK
  <1>3. todo'[w] = Tail(todo[w])
    BY DEF ClearNext, BusOK
  <1> QED
    BY <1>1, <1>2, <1>3 DEF BusOK, ClearNext

\* A request of one writer: it had finished its last.
LEMMA UiBus == BusOK /\ (UiReady \/ UiStart \/ UiHome \/ UiClear \/ UiQuit \/ UiRecord) => BusOK'
  <1> SUFFICES ASSUME BusOK, UiReady \/ UiStart \/ UiHome \/ UiClear \/ UiQuit \/ UiRecord
               PROVE  BusOK'
    OBVIOUS
  <1>0. /\ "ui" \in Writer /\ {"ready", "start", "home", "shutdown"} \subseteq Level
        /\ {<<>>, <<"home">>, <<"start">>, <<"ready", "start", "home">>} \subseteq Clears
        /\ <<"home">> # <<>> /\ <<"start">> # <<>>
    BY DEF Writer, Level, Clears
  <1>a. todo["ui"] = <<>>
    BY DEF Asks, UiReady, UiStart, UiHome, UiClear, UiQuit, UiRecord
  <1>1. CASE UiReady
    BY <1>0, <1>a, <1>1, RaiseBus DEF UiReady
  <1>2. CASE UiStart
    BY <1>0, <1>2, RaiseBus DEF UiStart
  <1>3. CASE UiHome
    BY <1>0, <1>3, RaiseBus DEF UiHome
  <1>4. CASE UiClear
    <2>1. PICK ls \in Clears : ClearAll("ui", ls)
      BY <1>0, <1>4, GateClears DEF UiClear
    <2> QED
      BY <1>0, <1>a, <2>1, ClearAllBus
  <1>5. CASE UiQuit
    BY <1>0, <1>a, <1>5, RaiseBus DEF UiQuit
  <1>6. CASE UiRecord
    BY <1>0, <1>a, <1>6, GateClears, ClearAllBus DEF UiRecord
  <1> QED
    BY <1>1, <1>2, <1>3, <1>4, <1>5, <1>6

LEMMA KeyBus ==
  BusOK /\ (KeyReady \/ KeyStart \/ KeyHome \/ KeyPause \/ KeyQuit \/ KeyRecord) => BusOK'
  <1> SUFFICES ASSUME BusOK, KeyReady \/ KeyStart \/ KeyHome \/ KeyPause \/ KeyQuit \/ KeyRecord
               PROVE  BusOK'
    OBVIOUS
  <1>0. /\ "keyboard" \in Writer /\ {"ready", "start", "home", "shutdown"} \subseteq Level
        /\ {<<>>, <<"home">>, <<"start">>, <<"start", "home">>} \subseteq Clears
        /\ <<"home">> # <<>> /\ <<"start">> # <<>>
    BY DEF Writer, Level, Clears
  <1>a. todo["keyboard"] = <<>>
    BY DEF Asks, KeyReady, KeyStart, KeyHome, KeyPause, KeyQuit, KeyRecord
  <1>1. CASE KeyReady
    BY <1>0, <1>a, <1>1, RaiseBus DEF KeyReady
  <1>2. CASE KeyStart
    <2>1. CASE "start" \in levels
      BY <1>0, <1>a, <1>2, <2>1, ClearAllBus DEF KeyStart
    <2>2. CASE "start" \notin levels
      BY <1>0, <1>2, <2>2, RaiseBus DEF KeyStart
    <2> QED
      BY <2>1, <2>2
  <1>3. CASE KeyHome
    <2>1. CASE "home" \in levels
      BY <1>0, <1>a, <1>3, <2>1, ClearAllBus DEF KeyHome
    <2>2. CASE "home" \notin levels
      BY <1>0, <1>3, <2>2, RaiseBus DEF KeyHome
    <2> QED
      BY <2>1, <2>2
  <1>4. CASE KeyPause
    BY <1>0, <1>a, <1>4, ClearAllBus DEF KeyPause
  <1>5. CASE KeyQuit
    BY <1>0, <1>a, <1>5, RaiseBus DEF KeyQuit
  <1>6. CASE KeyRecord
    BY <1>6 DEF KeyRecord, bus, BusOK
  <1> QED
    BY <1>1, <1>2, <1>3, <1>4, <1>5, <1>6

LEMMA CollectBus == BusOK /\ Collect => BusOK'
  <1> SUFFICES ASSUME BusOK, Collect PROVE BusOK'
    OBVIOUS
  <1>0. /\ "collect" \in Writer /\ {"start", "home"} \subseteq Level
        /\ {<<"home">>, <<"start">>} \subseteq Clears /\ <<"home">> # <<>> /\ <<"start">> # <<>>
    BY DEF Writer, Level, Clears
  <1>a. ASSUME UNCHANGED bus PROVE BusOK'
    BY <1>a DEF bus, BusOK
  <1>1. CASE Transition
    <2>1. \/ Raise("collect", "start", <<"home">>) \/ Raise("collect", "home", <<"start">>)
          \/ UNCHANGED bus
      BY <1>1 DEF Transition, SyncLevels
    <2> QED
      BY <1>0, <1>a, <2>1, RaiseBus
  <1>2. CASE Sync
    <2>1. UNCHANGED bus \/ ClearNext("collect")
      BY <1>2 DEF Sync
    <2> QED
      BY <1>0, <1>a, <2>1, ClearNextBus
  <1>3. CASE Poll \/ ClearFlags \/ NotRunning \/ HandleReset \/ HandleDone \/ HandleFrame
    BY <1>3, <1>a DEF Poll, ClearFlags, NotRunning, HandleReset, HandleDone, HandleFrame, Handle, bus
  <1> QED
    BY <1>1, <1>2, <1>3 DEF Collect

THEOREM BusSettles == Spec => []BusOK
  <1>1. Init => BusOK
    BY DEF Init, BusOK, Clears, Level
  <1>2. BusOK /\ [Next]_vars => BusOK'
    <2> SUFFICES ASSUME BusOK, [Next]_vars PROVE BusOK'
      OBVIOUS
    <2>1. ASSUME NEW w \in Writer, FinishWrite(w) PROVE BusOK'
      BY <2>1, ClearNextBus DEF FinishWrite
    <2>2. CASE HeadMoves
      BY <2>2 DEF HeadMoves, bus, BusOK
    <2>3. CASE Operator
      BY <2>2, <2>3, UiBus, KeyBus DEF Operator
    <2>4. CASE UNCHANGED vars
      BY <2>4 DEF vars, bus, BusOK
    <2> QED
      BY <2>1, <2>3, <2>4, CollectBus DEF Next
  <1> QED
    BY <1>1, <1>2, PTL DEF Spec

\* Three processes write start and home, each in two steps and without a common
\* lock; once nobody is half-way they are never both set.
THEOREM StartOrHome == Spec => []StartHomeExclusive
  <1>1. BusOK => StartHomeExclusive
    BY DEF BusOK, StartHomeExclusive
  <1> QED
    BY <1>1, BusSettles, PTL

------------------------------------------------------------------------------
(* Types.                                                                   *)

\* What the operator, and the writes of others, leave alone, and the rest.
OperatorOK ==
  flags \subseteq Flag /\ blocked \in BOOLEAN /\ requests \in 0..MaxRequests

WorkerOK ==
  /\ snapshot \subseteq Flag /\ recording \in BOOLEAN /\ halted \in BOOLEAN
  /\ at \in {"poll", "clear", "step", "sync", "handle", "stopped"}
  /\ mode \in Modes /\ record \in RecordState
  /\ buffer \in Seq(Nat) /\ Len(buffer) <= MaxFrames
  /\ take \in Nat /\ kept \subseteq Reason

LEMMA TypesSplit == BusOK /\ OperatorOK /\ WorkerOK => TypeOK
  BY ClearsAreSequences DEF BusOK, OperatorOK, WorkerOK, TypeOK

LEMMA OperatorTypes == OperatorOK /\ Operator => OperatorOK' /\ UNCHANGED <<at, mode, snapshot, record, dataset>>
  <1> SUFFICES ASSUME OperatorOK, Operator
               PROVE  OperatorOK' /\ UNCHANGED <<at, mode, snapshot, record, dataset>>
    OBVIOUS
  <1>1. ASSUME NEW w, NEW request, Asks(w, request), flags' \subseteq Flag
        PROVE  OperatorOK' /\ UNCHANGED <<at, mode, snapshot, record, dataset>>
    BY <1>1, BoundsAssumption DEF Asks, OperatorOK, BoundsAssumption
  <1>2. ASSUME NEW request \in {"recordStart", "recordDone", "recordReset"}
        PROVE  Requested(request) \subseteq Flag
    BY <1>2 DEF Requested, Flag, OperatorOK
  <1>3. CASE HeadMoves
    BY <1>3 DEF HeadMoves, OperatorOK
  <1>4. CASE UiRecord
    BY <1>1, <1>2, <1>4 DEF UiRecord
  <1>5. CASE KeyRecord
    BY <1>1, <1>2, <1>5 DEF KeyRecord
  <1>6. flags \subseteq Flag
    BY DEF OperatorOK
  <1>7. CASE UiReady \/ UiStart \/ UiHome \/ UiClear \/ UiQuit
    BY <1>1, <1>6, <1>7 DEF UiReady, UiStart, UiHome, UiClear, UiQuit
  <1>8. CASE KeyReady \/ KeyStart \/ KeyHome \/ KeyPause \/ KeyQuit
    BY <1>1, <1>6, <1>8 DEF KeyReady, KeyStart, KeyHome, KeyPause, KeyQuit
  <1> QED
    BY <1>3, <1>4, <1>5, <1>7, <1>8 DEF Operator

LEMMA StepInModes ==
  ASSUME NEW m \in Modes, NEW ev \in Levels
  PROVE  StepMode(m, ev).mode \in Modes
  BY DEF StepMode, FromWaitConnect, FromWaitStart, FromRun, FromHome, FromPause, Result,
         Modes, Levels

LEMMA StepInRecordStates ==
  ASSUME NEW state \in RecordState, NEW ev
  PROVE  StepRecord(state, ev) \in RecordState
  BY DEF StepRecord, RecordState

LEMMA CollectTypes == OperatorOK /\ WorkerOK /\ Collect => OperatorOK' /\ WorkerOK'
  <1> SUFFICES ASSUME OperatorOK, WorkerOK, Collect PROVE OperatorOK' /\ WorkerOK'
    OBVIOUS
  <1>1. OperatorOK'
    BY DEF Collect, Poll, ClearFlags, Transition, Sync, NotRunning, HandleReset, HandleDone,
           HandleFrame, Handle, operator, OperatorOK
  <1> SUFFICES WorkerOK'
    BY <1>1
  <1>a. <<>> \in Seq(Nat) /\ Len(<<>>) = 0 /\ 0 <= MaxFrames
    BY BoundsAssumption DEF BoundsAssumption
  <1>b. WhyStill \subseteq Reason /\ \A r \in Reason : Why(r) \subseteq Reason
    BY DEF Why, WhyStill, WorkerOK
  <1>2. CASE Poll
    <2>1. Snapshot \in Levels
      BY DEF Snapshot, Levels
    <2> QED
      BY <1>2, <1>a, <2>1, StepInModes DEF Poll, WorkerOK, OperatorOK, dataset
  <1>3. CASE ClearFlags \/ Sync
    BY <1>3 DEF ClearFlags, Sync, WorkerOK, dataset
  <1>4. CASE Transition
    BY <1>4, StepInRecordStates DEF Transition, WorkerOK
  <1>5. CASE NotRunning
    BY <1>5 DEF NotRunning, Handle, WorkerOK, Reason
  <1>6. CASE HandleReset
    <2>1. kept' \subseteq Reason /\ buffer' \in {<<>>, buffer}
      BY <1>6, <1>b DEF HandleReset, Discard, Reason
    <2> QED
      BY <1>6, <1>a, <2>1 DEF HandleReset, Handle, WorkerOK
  <1>7. CASE HandleDone
    <2>1. kept' \subseteq Reason /\ buffer' \in {<<>>, buffer}
      BY <1>7, <1>b DEF HandleDone, Reason
    <2> QED
      BY <1>7, <1>a, <2>1 DEF HandleDone, Handle, WorkerOK, RecordState
  <1>8. CASE HandleFrame
    <2>1. kept' \subseteq Reason /\ halted' \in BOOLEAN
      BY <1>8, <1>b DEF HandleFrame, Reason, WorkerOK
    <2>2. recording' \in BOOLEAN
      BY <1>8 DEF HandleFrame, WorkerOK
    <2>3. buffer' \in Seq(Nat) /\ Len(buffer') <= MaxFrames
      BY <1>8, BoundsAssumption DEF HandleFrame, WorkerOK, BoundsAssumption
    <2> QED
      BY <1>8, <2>1, <2>2, <2>3 DEF HandleFrame, Handle, WorkerOK
  <1> QED
    BY <1>1, <1>2, <1>3, <1>4, <1>5, <1>6, <1>7, <1>8 DEF Collect

LEMMA Types == Spec => [](OperatorOK /\ WorkerOK)
  <1>1. Init => OperatorOK /\ WorkerOK
    <2>1. <<>> \in Seq(Nat) /\ Len(<<>>) = 0 /\ 0 <= MaxFrames /\ 0 \in 0..MaxRequests
      BY BoundsAssumption DEF BoundsAssumption
    <2>2. Init => OperatorOK
      BY <2>1 DEF Init, OperatorOK
    <2>3. Init => buffer = <<>> /\ kept = {} /\ snapshot = {} /\ take = 0
      BY DEF Init
    <2>4. Init => /\ recording \in BOOLEAN /\ halted \in BOOLEAN /\ at = "poll"
                  /\ mode \in Modes /\ record \in RecordState
      BY DEF Init, Modes, RecordState
    <2>5. Init => WorkerOK
      BY <2>1, <2>3, <2>4 DEF WorkerOK
    <2> QED
      BY <2>2, <2>5
  <1>2. OperatorOK /\ WorkerOK /\ [Next]_vars => (OperatorOK /\ WorkerOK)'
    <2> SUFFICES ASSUME OperatorOK, WorkerOK, [Next]_vars PROVE OperatorOK' /\ WorkerOK'
      OBVIOUS
    <2>1. ASSUME UNCHANGED <<at, mode, snapshot, record, dataset>> PROVE WorkerOK'
      BY <2>1 DEF WorkerOK, dataset
    <2>2. CASE UNCHANGED vars
      BY <2>1, <2>2 DEF vars, operator, OperatorOK
    <2>3. ASSUME NEW w \in Writer, FinishWrite(w) PROVE OperatorOK' /\ WorkerOK'
      BY <2>1, <2>3 DEF FinishWrite, operator, OperatorOK
    <2> QED
      BY <2>1, <2>2, <2>3, OperatorTypes, CollectTypes DEF Next
  <1> QED
    BY <1>1, <1>2, PTL DEF Spec

\* Every variable keeps its type, and the episode buffer its bound.
THEOREM Typing == Spec => []TypeOK
  BY Types, BusSettles, TypesSplit, PTL

------------------------------------------------------------------------------
(* One take per episode.                                                    *)

\* Recording, or frames in the buffer, without an excuse: then a take is going
\* on, or has ended in this pass and is about to be handled; and every frame
\* is of that take.
Going == kept = {} /\ (recording \/ buffer # <<>>)
OneTake ==
  /\ Going => \/ record = "START"
              \/ record \in {"DONE", "RESET"} /\ at \in {"sync", "handle"}
  /\ kept = {} /\ buffer # <<>> => recording
  /\ kept = {} => \A i \in 1..Len(buffer) : buffer[i] = take

LEMMA TakeSteps == WorkerOK /\ OneTake /\ Collect => OneTake'
  <1> SUFFICES ASSUME WorkerOK, OneTake, Collect PROVE OneTake'
    OBVIOUS
  <1>a. \A i \in 1..Len(<<>>) : FALSE
    OBVIOUS
  <1>1. CASE Poll
    <2>1. /\ at = "poll" /\ UNCHANGED <<record, recording, take>>
          /\ kept' = kept /\ buffer' \in {<<>>, buffer}
      BY <1>1 DEF Poll, dataset
    <2> QED
      BY <1>a, <2>1 DEF OneTake, Going
  <1>2. CASE ClearFlags \/ Sync
    BY <1>2 DEF ClearFlags, Sync, dataset, OneTake, Going
  <1>3. CASE Transition
    <2>1. CASE record' = "START" /\ record # "START"
      <3>1. at = "step" /\ record' = "START" /\ recording' = recording /\ buffer' = buffer
        BY <1>3, <2>1 DEF Transition
      <3>2. buffer = <<>> \/ (buffer # <<>> /\ kept' = kept)
        BY <1>3, <2>1 DEF Transition
      <3>3. buffer = <<>> \/ kept # {}
        BY <2>1, <3>1 DEF OneTake, Going
      <3> QED
        BY <1>a, <3>1, <3>2, <3>3 DEF OneTake, Going
    <2>2. CASE ~(record' = "START" /\ record # "START")
      <3>1. UNCHANGED <<recording, buffer, take, kept>> /\ at = "step" /\ at' = "sync"
        BY <1>3, <2>2 DEF Transition
      <3>2. record = "START" => record' \in {"START", "DONE", "RESET"}
        BY <1>3 DEF Transition, StepRecord
      <3> QED
        BY <3>1, <3>2 DEF OneTake, Going
    <2> QED
      BY <2>1, <2>2
  <1>4. CASE NotRunning
    BY <1>4 DEF NotRunning, Handle, OneTake, Going
  <1>5. CASE HandleReset
    <2>1. ~recording' /\ (kept' = {} => buffer' = <<>> \/ (buffer' = buffer /\ kept = {} /\ ~recording))
      BY <1>5 DEF HandleReset, Discard, Why, WhyStill
    <2> QED
      BY <1>a, <2>1 DEF OneTake, Going
  <1>6. CASE HandleDone
    <2>1. ~recording' /\ (kept' = {} => buffer' = <<>> \/ (buffer' = buffer /\ kept = {} /\ ~recording))
      BY <1>6 DEF HandleDone, Why, WhyStill
    <2> QED
      BY <1>a, <2>1 DEF OneTake, Going
  <1>7. CASE HandleFrame
    <2>1. at = "handle" /\ record' = record /\ take' = take /\ record \in {"START", "WAIT"}
      BY <1>7 DEF HandleFrame, Handle
    <2>2. CASE recording' = (recording \/ record = "START") /\ UNCHANGED <<buffer, kept>>
      BY <2>1, <2>2 DEF OneTake, Going, WorkerOK
    <2>3. CASE /\ recording \/ record = "START"
               /\ recording' = TRUE /\ buffer' = Append(buffer, take) /\ kept' = kept
      <3>1. Len(buffer') = Len(buffer) + 1 /\ buffer'[Len(buffer) + 1] = take
        BY <2>3 DEF WorkerOK
      <3>2. \A i \in 1..Len(buffer) : buffer'[i] = buffer[i]
        BY <2>3 DEF WorkerOK
      <3>3. kept = {} => \A i \in 1..Len(buffer') : buffer'[i] = take
        BY <3>1, <3>2 DEF OneTake, WorkerOK
      <3> QED
        BY <2>1, <2>3, <3>3 DEF OneTake, Going
    <2>4. CASE ~recording' /\ buffer' = buffer /\ kept' = Why("addFailed")
      BY <1>a, <2>4 DEF OneTake, Going, Why
    <2> QED
      BY <1>7, <2>2, <2>3, <2>4 DEF HandleFrame
  <1> QED
    BY <1>1, <1>2, <1>3, <1>4, <1>5, <1>6, <1>7 DEF Collect

\* An episode never holds frames of two takes, whatever the operator does, unless
\* an ended take went on for one of the four reasons the code has.
THEOREM OneTakePerEpisode == Spec => []TakesKeptApart
  <1>1. Init => OneTake
    BY DEF Init, OneTake, Going
  <1>2. WorkerOK /\ OneTake /\ [Next]_vars => OneTake'
    <2> SUFFICES ASSUME WorkerOK, OneTake, [Next]_vars PROVE OneTake'
      OBVIOUS
    <2>1. CASE Collect
      BY <2>1, TakeSteps
    <2>2. CASE UNCHANGED <<at, mode, snapshot, record, dataset>>
      BY <2>2 DEF dataset, OneTake, Going
    <2>3. CASE Operator
      BY <2>2, <2>3 DEF Operator, HeadMoves, UiReady, UiStart, UiHome, UiClear, UiQuit,
            UiRecord, KeyReady, KeyStart, KeyHome, KeyPause, KeyQuit, KeyRecord, Asks
    <2>4. ASSUME NEW w \in Writer, FinishWrite(w) PROVE OneTake'
      BY <2>2, <2>4 DEF FinishWrite
    <2>5. CASE UNCHANGED vars
      BY <2>2, <2>5 DEF vars
    <2> QED
      BY <2>1, <2>3, <2>4, <2>5 DEF Next
  <1>3. OneTake => TakesKeptApart
    BY DEF OneTake, TakesKeptApart, Mixed
  <1> QED
    BY <1>1, <1>2, <1>3, Types, PTL DEF Spec
==============================================================================
