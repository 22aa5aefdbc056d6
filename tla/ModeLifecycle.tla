---------------------------- MODULE ModeLifecycle ----------------------------
(***************************************************************************)
(* What the mode of a worker promises to the rest of the system, whoever    *)
(* polls it and however stale the snapshots are: it starts disconnected, it *)
(* cannot run or home before it has been through WAIT_START, it never goes  *)
(* back there, and EXIT is final.                                           *)
(***************************************************************************)

VARIABLE mode

Init == mode = "WAIT_CONNECT"

Edge(from, targets) == mode \in from /\ mode' \in targets

Connect == Edge({"WAIT_CONNECT"}, {"WAIT_START"})
Begin   == Edge({"WAIT_START"}, {"HOME", "RUN"})
Leave   == Edge({"RUN"}, {"HOME", "PAUSE"}) \/ Edge({"HOME"}, {"RUN", "PAUSE"})
Resume  == Edge({"PAUSE"}, {"RUN", "HOME"})
Exit    == mode' = "EXIT"

Next == Connect \/ Begin \/ Leave \/ Resume \/ Exit

Spec == Init /\ [][Next]_mode
==============================================================================
