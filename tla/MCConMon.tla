------------------------------ MODULE MCConMon ------------------------------
(* One target: every step is about one, except the restarts.                  *)
EXTENDS ConMon

CONSTANT web

MCTargets == {web}

Plain == [downThreshold |-> 0, recoveryThreshold |-> 0, latencyWarnMs |-> 0,
          packetLossWarnPct |-> 0, maintenance |-> [start |-> 0, end |-> 0]]

MCMonitors == [t \in {web} |-> Plain]
MCNewTargets == {Plain}

\* A PUT that announces a maintenance.
MCChanges == {[maintenance |-> [start |-> 2, end |-> 9]]}

MCOutcomes ==
    {[success |-> TRUE,  latencyMs |-> 1, loss |-> 0],
     [success |-> FALSE, latencyMs |-> 0, loss |-> 0]}
=============================================================================
