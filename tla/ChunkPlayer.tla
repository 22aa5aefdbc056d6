----------------------------- MODULE ChunkPlayer -----------------------------
(***************************************************************************)
(* What the playback of action chunks promises, however results arrive: a   *)
(* chunk is played until a queued one takes over, a queued one begins at    *)
(* least Stride steps after the one played, and an earlier one may replace  *)
(* it but a later one may not.  A chunk is named by its first step.         *)
(***************************************************************************)
EXTENDS Integers

CONSTANT Stride    \* a positive number

VARIABLES playing, queued

Nothing == -1

Init == playing = Nothing /\ queued = Nothing

Clear == playing' = Nothing /\ queued' = Nothing

Take ==
  /\ playing = Nothing
  /\ playing' \in Nat /\ queued' = Nothing

Queue ==
  /\ playing # Nothing
  /\ queued' \in Nat /\ queued' >= playing + Stride
  /\ queued = Nothing \/ queued' < queued
  /\ playing' = playing

TakeOver ==
  /\ queued # Nothing
  /\ playing' = queued /\ queued' = Nothing

Next == Clear \/ Take \/ Queue \/ TakeOver

Spec == Init /\ [][Next]_<<playing, queued>>
==============================================================================
