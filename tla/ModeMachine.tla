----------------------------- MODULE ModeMachine -----------------------------
(***************************************************************************)
(* The global mode machine every worker shares: the pure function step() of *)
(* core/state_machine.py.  A worker reads the level events of the bus into  *)
(* a snapshot and applies step() to its own mode; the second component of   *)
(* the result is the reason string the worker's handlers react to.          *)
(***************************************************************************)

Modes == {"WAIT_CONNECT", "WAIT_START", "RUN", "PAUSE", "HOME", "EXIT"}

\* The reasons of the edges; "" stands for every reason of a step that stays
\* in its mode ("Running", "Homing", "Paused", "Waiting for ...").
StartReasons == {"start_set", "home_cleared_start_set"}
Reasons == StartReasons \cup
             {"", "ready", "home_set", "home_cleared", "start_cleared", "shutdown"}

\* The level events step() looks at.
Levels == [shutdown : BOOLEAN, ready : BOOLEAN, start : BOOLEAN, home : BOOLEAN]
NoLevels == [shutdown |-> FALSE, ready |-> FALSE, start |-> FALSE, home |-> FALSE]

Result(mode, reason) == [mode |-> mode, reason |-> reason]

FromWaitConnect(ev) ==
  IF ev.ready THEN Result("WAIT_START", "ready") ELSE Result("WAIT_CONNECT", "")

FromWaitStart(ev) ==
  CASE ~ev.ready            -> Result("WAIT_START", "")
    [] ev.ready /\ ev.home  -> Result("HOME", "home_set")
    [] ev.ready /\ ~ev.home -> IF ev.start THEN Result("RUN", "start_set")
                                           ELSE Result("WAIT_START", "")

\* Variant of FromRun: clearing "start" does not pause.
FromRunSticky(ev) ==
  IF ev.home THEN Result("HOME", "home_set") ELSE Result("RUN", "")

FromRun(ev) ==
  CASE ev.home              -> Result("HOME", "home_set")
    [] ~ev.home /\ ~ev.start -> Result("PAUSE", "start_cleared")
    [] ~ev.home /\ ev.start -> Result("RUN", "")

\* Variant of FromHome: a start raised in HOME pauses first.
FromHomePausing(ev) ==
  IF ev.home THEN Result("HOME", "") ELSE Result("PAUSE", "home_cleared")

FromHome(ev) ==
  CASE ev.home              -> Result("HOME", "")
    [] ~ev.home /\ ev.start -> Result("RUN", "home_cleared_start_set")
    [] ~ev.home /\ ~ev.start -> Result("PAUSE", "home_cleared")

FromPause(ev) ==
  CASE ev.home              -> Result("HOME", "home_set")
    [] ~ev.home /\ ~ev.start -> Result("PAUSE", "")
    [] ~ev.home /\ ev.start -> Result("RUN", "start_set")

\* Variant of StepMode: EXIT falls through to the handler of PAUSE.
StepModeResuming(mode, ev) ==
  CASE ev.shutdown -> Result("EXIT", "shutdown")
    [] ~ev.shutdown /\ mode = "WAIT_CONNECT" -> FromWaitConnect(ev)
    [] ~ev.shutdown /\ mode = "WAIT_START" -> FromWaitStart(ev)
    [] ~ev.shutdown /\ mode = "RUN" -> FromRun(ev)
    [] ~ev.shutdown /\ mode = "HOME" -> FromHome(ev)
    [] ~ev.shutdown /\ mode \in {"PAUSE", "EXIT"} -> FromPause(ev)

\* step(state, ev): shutdown has priority in every mode, EXIT is final.
StepMode(mode, ev) ==
  CASE ev.shutdown -> Result("EXIT", "shutdown")
    [] ~ev.shutdown /\ mode = "WAIT_CONNECT" -> FromWaitConnect(ev)
    [] ~ev.shutdown /\ mode = "WAIT_START" -> FromWaitStart(ev)
    [] ~ev.shutdown /\ mode = "RUN" -> FromRun(ev)
    [] ~ev.shutdown /\ mode = "HOME" -> FromHome(ev)
    [] ~ev.shutdown /\ mode = "PAUSE" -> FromPause(ev)
    [] ~ev.shutdown /\ mode = "EXIT" -> Result("EXIT", "")
==============================================================================
