---------------------------- MODULE RecordSession ----------------------------
(***************************************************************************)
(* Recording an episode.  The operator drives two things at once, from the  *)
(* web UI and from the keyboard: the level events of the bus, and the three *)
(* request flags of record_shm.  The record worker                          *)
(* (workers/worker_collect_data.py) polls both, runs its own small machine  *)
(* (core/record_state_machine.py), writes levels back to the bus, and fills,*)
(* saves or discards the episode buffer of the dataset.                     *)
(*                                                                          *)
(* Nothing is atomic across processes: raising "start" and clearing "home"  *)
(* are two writes, and the worker clears the flags in a write that follows  *)
(* its read of them.                                                        *)
(***************************************************************************)
EXTENDS ModeMachine, Naturals, Sequences

CONSTANTS
  UiRequests, KeyRequests,  \* what the operator may do in each place
  MaxRequests,              \* bound: how often, all together
  MaxFrames                 \* bound: frames of the episode buffer

Request == {"ready", "unready", "start", "unstart", "home", "unhome", "pause",
            "quit", "status", "recordStart", "recordDone", "recordReset"}
ASSUME RequestsAssumption == UiRequests \subseteq Request /\ KeyRequests \subseteq Request
ASSUME BoundsAssumption == MaxRequests \in Nat /\ MaxFrames \in Nat \ {0}

Level == {"ready", "start", "home", "shutdown"}
Flag == {"record_start", "record_done", "record_reset"}
Writer == {"ui", "keyboard", "collect"}
RecordState == {"WAIT", "START", "DONE", "RESET"}

VARIABLES
  levels,     \* the level events that are set
  todo,       \* per writer: the levels it has yet to clear, in order
  flags,      \* the request flags of record_shm that are set
  blocked,    \* does the VR head start guard refuse a start?
  requests,   \* how many requests the operator has made
  at, mode,   \* the record worker: its place in step_once(), its mode
  snapshot,   \* the flags it has read
  record,     \* _record_state
  recording,  \* _recording
  buffer,     \* the episode buffer: of each frame, the take it belongs to
  take,       \* history: record starts taken so far
  kept,       \* history: why an ended take goes on or is still in the buffer
  halted      \* history: add_frame() failed and no start was requested since

operator == <<flags, blocked, requests>>
bus == <<levels, todo>>
dataset == <<recording, buffer, take, kept, halted>>
vars == <<bus, operator, at, mode, snapshot, record, dataset>>

Reason == {"saveFailed", "addFailed", "clearFailed", "notRunning"}

TypeOK ==
  /\ levels \subseteq Level /\ flags \subseteq Flag /\ snapshot \subseteq Flag
  /\ todo \in [Writer -> Seq(Level)]
  /\ blocked \in BOOLEAN /\ recording \in BOOLEAN /\ halted \in BOOLEAN
  /\ requests \in 0..MaxRequests
  /\ at \in {"poll", "clear", "step", "sync", "handle", "stopped"}
  /\ mode \in Modes /\ record \in RecordState
  /\ buffer \in Seq(Nat) /\ Len(buffer) <= MaxFrames
  /\ take \in Nat /\ kept \subseteq Reason

Init ==
  /\ levels = {} /\ todo = [w \in Writer |-> <<>>]
  /\ flags = {} /\ blocked \in BOOLEAN /\ requests = 0
  /\ at = "poll" /\ mode = "WAIT_CONNECT" /\ snapshot = {}
  /\ record = "WAIT" /\ recording = FALSE /\ buffer = <<>>
  /\ take = 0 /\ kept = {} /\ halted = FALSE

------------------------------------------------------------------------------
(* Writers of the bus.                                                      *)

\* Variant: the other level is left as it is.
RaiseAlone(w, l, others) ==
  levels' = levels \cup {l} /\ todo' = todo

\* set_level(l), then clear_level() of the others in writes of their own.
Raise(w, l, others) ==
  levels' = levels \cup {l} /\ todo' = [todo EXCEPT ![w] = others]

ClearAll(w, ls) == levels' = levels /\ todo' = [todo EXCEPT ![w] = ls]

ClearNext(w) ==
  /\ todo[w] # <<>>
  /\ levels' = levels \ {Head(todo[w])}
  /\ todo' = [todo EXCEPT ![w] = Tail(@)]

\* One more clear of a writer that is not the record worker.
FinishWrite(w) ==
  /\ w # "collect" /\ ClearNext(w)
  /\ UNCHANGED <<operator, at, mode, snapshot, record, dataset>>

Asks(w, request) ==
  /\ request \in IF w = "ui" THEN UiRequests ELSE KeyRequests
  /\ todo[w] = <<>>         \* one request at a time: WebUIState.lock, one key loop
  /\ requests < MaxRequests
  /\ requests' = requests + 1
  /\ UNCHANGED <<blocked, at, mode, snapshot, record, dataset>>

------------------------------------------------------------------------------
(* The web UI (a mode is applied; the collect worker is alive).             *)

\* _enforce_level_event_gate(), run by every request through status().
Gate == IF "ready" \in levels THEN <<>> ELSE <<"start", "home">>

UiReady ==
  /\ Asks("ui", "ready") /\ Raise("ui", "ready", <<>>) /\ UNCHANGED flags

UiStart ==
  /\ Asks("ui", "start") /\ "ready" \in levels /\ ~blocked
  /\ Raise("ui", "start", <<"home">>) /\ UNCHANGED flags

UiHome ==
  /\ Asks("ui", "home") /\ "ready" \in levels
  /\ Raise("ui", "home", <<"start">>) /\ UNCHANGED flags

UiClear ==
  /\ \/ Asks("ui", "unready") /\ ClearAll("ui", <<"ready", "start", "home">>)
     \/ Asks("ui", "unstart") /\ ClearAll("ui", <<"start">> \o Gate)
     \/ Asks("ui", "unhome") /\ ClearAll("ui", <<"home">> \o Gate)
     \/ Asks("ui", "status") /\ ClearAll("ui", Gate)
  /\ UNCHANGED flags

UiQuit ==
  /\ Asks("ui", "quit") /\ Raise("ui", "shutdown", <<>>) /\ UNCHANGED flags

\* What a record request leaves in record_shm: "done" does not lower "reset".
Requested(request) ==
  CASE request = "recordStart" -> {"record_start"}
    [] request = "recordDone"  -> (flags \ {"record_start"}) \cup {"record_done"}
    [] request = "recordReset" -> {"record_reset"}

UiRecord ==
  \E request \in {"recordStart", "recordDone", "recordReset"} :
    /\ at # "stopped"
    /\ Asks("ui", request) /\ ClearAll("ui", Gate) /\ flags' = Requested(request)

------------------------------------------------------------------------------
(* The keyboard worker: toggles, read and then written.                     *)

KeyReady ==
  /\ Asks("keyboard", "ready") /\ Raise("keyboard", "ready", <<>>) /\ UNCHANGED flags

KeyStart ==
  /\ Asks("keyboard", "start") /\ "ready" \in levels
  /\ IF "start" \in levels
       THEN ClearAll("keyboard", <<"start", "home">>)
       ELSE ~blocked /\ Raise("keyboard", "start", <<"home">>)
  /\ UNCHANGED flags

KeyHome ==
  /\ Asks("keyboard", "home") /\ "ready" \in levels
  /\ IF "home" \in levels
       THEN ClearAll("keyboard", <<"home">>)
       ELSE Raise("keyboard", "home", <<"start">>)
  /\ UNCHANGED flags

KeyPause ==
  /\ Asks("keyboard", "pause") /\ ClearAll("keyboard", <<"start", "home">>)
  /\ UNCHANGED flags

KeyQuit ==
  /\ Asks("keyboard", "quit") /\ Raise("keyboard", "shutdown", <<>>) /\ UNCHANGED flags

KeyRecord ==
  \E request \in {"recordStart", "recordDone", "recordReset"} :
    /\ Asks("keyboard", request) /\ flags' = Requested(request) /\ UNCHANGED bus

\* The operator's head moves in or out of the guard's limits.
HeadMoves ==
  /\ blocked' = ~blocked
  /\ UNCHANGED <<bus, flags, requests, at, mode, snapshot, record, dataset>>

Operator ==
  \/ UiReady \/ UiStart \/ UiHome \/ UiClear \/ UiQuit \/ UiRecord
  \/ KeyReady \/ KeyStart \/ KeyHome \/ KeyPause \/ KeyQuit \/ KeyRecord
  \/ HeadMoves

------------------------------------------------------------------------------
(* The record machine.                                                      *)

\* step_record(state, ev)
StepRecord(state, ev) ==
  CASE state \in {"WAIT", "START", "DONE"} /\ "record_reset" \in ev -> "RESET"
    [] state \in {"WAIT", "DONE"} /\ "record_start" \in ev /\ "record_reset" \notin ev
         -> "START"
    [] state = "START" /\ "record_done" \in ev /\ "record_reset" \notin ev -> "DONE"
    [] state = "RESET" /\ "record_reset" \notin ev -> "WAIT"
    [] OTHER -> state

------------------------------------------------------------------------------
(* One pass of the record worker's loop.                                    *)

Snapshot == [shutdown |-> "shutdown" \in levels, ready |-> "ready" \in levels,
             start |-> "start" \in levels, home |-> "home" \in levels]

\* poll(), then the read of record_shm; in EXIT the loop ends and on_stop()
\* throws away what was not saved (flush_on_close is off in the shipped config).
Poll ==
  /\ at = "poll"
  /\ mode' = StepMode(mode, Snapshot).mode
  /\ IF mode' = "EXIT"
       THEN /\ at' = "stopped" /\ buffer' = <<>>
            /\ UNCHANGED <<snapshot, recording, take, kept, halted>>
       ELSE /\ at' = "clear" /\ snapshot' = flags
            /\ UNCHANGED dataset
  /\ UNCHANGED <<bus, operator, record>>

ClearFlags ==
  /\ at = "clear" /\ at' = "step"
  /\ flags' = {}
  /\ UNCHANGED <<bus, blocked, requests, mode, snapshot, record, dataset>>

\* Variant of SyncLevels: a start lowers "home" and forgets to raise "start".
SyncLevelsHomeOnly(from, to) ==
  CASE to = "START" /\ from # to -> ClearAll("collect", <<"home">>)
    [] to = "DONE" /\ from # to  -> Raise("collect", "home", <<"start">>)
    [] OTHER                     -> UNCHANGED bus

\* _sync_mode_with_record_state()
SyncLevels(from, to) ==
  CASE to = "START" /\ from # to -> Raise("collect", "start", <<"home">>)
    [] to = "DONE" /\ from # to  -> Raise("collect", "home", <<"start">>)
    [] OTHER                     -> UNCHANGED bus

Transition ==
  /\ at = "step" /\ at' = "sync"
  /\ record' = StepRecord(record, snapshot)
  /\ SyncLevels(record, record')
  /\ LET begins == record' = "START" /\ record # "START" IN
     /\ take' = IF begins THEN take + 1 ELSE take
     /\ kept' = IF begins /\ buffer = <<>> THEN {} ELSE kept
     /\ halted' = (halted /\ ~begins)
  /\ UNCHANGED <<operator, mode, snapshot, recording, buffer>>

Sync ==
  /\ at = "sync" /\ at' = "handle"
  /\ IF todo["collect"] = <<>> THEN UNCHANGED bus ELSE ClearNext("collect")
  /\ UNCHANGED <<operator, mode, snapshot, record, dataset>>

------------------------------------------------------------------------------
(* The last part of step_once(): only in RUN, by the record state.          *)

Handle == at = "handle" /\ at' = "poll" /\ UNCHANGED <<bus, operator, mode, snapshot>>

WhyStill == IF buffer = <<>> THEN {} ELSE kept
Why(reason) == IF buffer = <<>> THEN {} ELSE kept \cup {reason}

\* Outside RUN nothing is handled: a "done" or a "reset" ends the take for the
\* operator, but its frames stay, and so does _recording: after a "reset" even
\* the state WAIT goes on recording.
NotRunning ==
  /\ Handle /\ mode # "RUN"
  /\ kept' = IF record \in {"DONE", "RESET"} /\ (recording \/ buffer # <<>>)
               THEN kept \cup {"notRunning"} ELSE kept
  /\ UNCHANGED <<record, recording, buffer, take, halted>>

\* Variant of Discard: the buffer is kept although the clear succeeds.
DiscardNothing(ok) == buffer' = buffer

\* clear_episode_buffer()
Discard(ok) == buffer' = IF ok THEN <<>> ELSE buffer

HandleReset ==
  /\ Handle /\ mode = "RUN" /\ record = "RESET"
  /\ IF recording
       THEN \E ok \in BOOLEAN :
              Discard(ok) /\ kept' = IF ok THEN {} ELSE Why("clearFailed")
       ELSE kept' = WhyStill /\ UNCHANGED buffer
  /\ recording' = FALSE
  /\ UNCHANGED <<record, take, halted>>

HandleDone ==
  /\ Handle /\ mode = "RUN" /\ record = "DONE"
  /\ IF recording /\ buffer # <<>>
       THEN \/ buffer' = <<>> /\ kept' = {}                     \* save_episode()
            \/ buffer' = buffer /\ kept' = Why("saveFailed")    \* ... raised
       ELSE kept' = WhyStill /\ UNCHANGED buffer
  /\ recording' = FALSE
  /\ record' = "WAIT"
  /\ UNCHANGED <<take, halted>>

\* START begins recording, WAIT goes on with it; then one frame: skipped when a
\* source has none yet, added, or refused by add_frame(), which stops recording.
HandleFrame ==
  /\ Handle /\ mode = "RUN" /\ record \in {"START", "WAIT"}
  /\ LET now == recording \/ record = "START" IN
       \/ recording' = now /\ UNCHANGED <<buffer, kept, halted>>
       \/ /\ now /\ Len(buffer) < MaxFrames
          /\ recording' = TRUE /\ buffer' = Append(buffer, take)
          /\ UNCHANGED <<kept, halted>>
       \/ /\ now /\ recording' = FALSE /\ UNCHANGED buffer
          /\ kept' = Why("addFailed") /\ halted' = TRUE
  /\ UNCHANGED <<record, take>>

Collect ==
  \/ Poll \/ ClearFlags \/ Transition \/ Sync
  \/ NotRunning \/ HandleReset \/ HandleDone \/ HandleFrame

Next == (\E w \in Writer : FinishWrite(w)) \/ Operator \/ Collect

Spec == Init /\ [][Next]_vars

\* The worker's loop runs, a writer finishes what it began, and the web UI's
\* clients poll status(); the operator need not do anything.
FairSpec ==
  /\ Spec
  /\ WF_vars(Collect)
  /\ \A w \in Writer : WF_vars(FinishWrite(w))

------------------------------------------------------------------------------
(* Properties.                                                              *)

\* An episode never holds frames of two takes, whatever the operator does and
\* in whatever order the requests arrive, unless an ended take went on for one of
\* the four reasons the code has: save_episode(), add_frame() or
\* clear_episode_buffer() failed, or "done" or "reset" came outside RUN.
Mixed == \E i, j \in 1..Len(buffer) : buffer[i] # buffer[j]
TakesKeptApart == Mixed => kept # {}

\* Three processes write "start" and "home", each in two steps and without a
\* common lock.  Once nobody is half-way, they are never both set: every writer
\* raises its level before it clears the other.
StartHomeExclusive ==
  (\A w \in Writer : todo[w] = <<>>) => ~({"start", "home"} \subseteq levels)

\* A record start that changes the record state leads to recording, through the
\* levels the worker raises and its own later poll of them, or to add_frame()
\* failing; unless the operator had another request under way, or makes one more.
Alone(n) ==
  /\ requests = n /\ flags = {} /\ \A w \in Writer : todo[w] = <<>>
  /\ "ready" \in levels /\ "shutdown" \notin levels
Taken == at = "step" /\ record # "START" /\ StepRecord(record, snapshot) = "START"
RecordStartTakesEffect ==
  \A n \in 0..MaxRequests :
    (Taken /\ Alone(n)) ~> ((record = "START" /\ (recording \/ halted)) \/ requests # n)
==============================================================================
