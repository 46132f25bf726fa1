---------------------------- MODULE MCTargetFSM ----------------------------
(* TargetFSM on one target: every method touches one target's entry only. *)
EXTENDS TargetFSM

MCOutcomes ==
    {[success |-> TRUE,  latencyMs |-> 1, loss |-> 0],
     [success |-> TRUE,  latencyMs |-> 9, loss |-> 0],
     [success |-> FALSE, latencyMs |-> 0, loss |-> 0]}

NoWindow == [start |-> 0, end |-> 0]

Plain == [downThreshold |-> 0, recoveryThreshold |-> 0, latencyWarnMs |-> 0,
          packetLossWarnPct |-> 0, maintenance |-> NoWindow]

\* A target with thresholds of its own: one failure is an outage, and the slow
\* result is not slow for it.
Hasty == [Plain EXCEPT !.downThreshold = 1, !.latencyWarnMs = 20]

\* A window that opens and closes while the run lasts.
Windowed == [Plain EXCEPT !.maintenance = [start |-> 3, end |-> 5]]

MCConfigs == {Plain, Hasty, Windowed}
PlainOnly == {Plain}
WindowedOnly == {Windowed}
=============================================================================
