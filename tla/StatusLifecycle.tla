-------------------------- MODULE StatusLifecycle --------------------------
(***************************************************************************)
(* What the status machine promises to those who read it: the status a     *)
(* target shows, the changes that are announced by an event, and those     *)
(* that are not.  Thresholds, counters, windows and clocks are left out.   *)
(* TargetFSM implements this specification.                                *)
(***************************************************************************)
CONSTANT Targets

VARIABLES
    shown,   \* the status GetState returns, "ABSENT" for none
    muted,   \* whether the operator has silenced the target
    feed     \* the events the last step announced, as [id, from, to]

lifecycleVars == <<shown, muted, feed>>

\* The statuses an announced change may lead to.
Announced ==
    [ABSENT      |-> {"UP", "FLAPPING"},
     UNKNOWN     |-> {"UP", "FLAPPING"},
     UP          |-> {"DEGRADED", "DOWN", "FLAPPING"},
     DEGRADED    |-> {"UP", "DOWN", "FLAPPING"},
     DOWN        |-> {"UP", "FLAPPING"},
     FLAPPING    |-> {"UP", "DOWN"},
     MAINTENANCE |-> {},
     SILENT      |-> {}]

Init ==
    /\ shown = [t \in Targets |-> "ABSENT"]
    /\ muted = [t \in Targets |-> FALSE]
    /\ feed = {}

\* A change that is reported; a target never seen before counts as UNKNOWN.
Announce(t, to) ==
    /\ ~muted[t]
    /\ to \in Announced[shown[t]]
    /\ shown' = [shown EXCEPT ![t] = to]
    /\ feed' = {[id |-> t, to |-> to,
                 from |-> IF shown[t] = "ABSENT" THEN "UNKNOWN" ELSE shown[t]]}
    /\ UNCHANGED muted

\* A target enters its maintenance window: nobody is told.
Maintain(t) ==
    /\ shown' = [shown EXCEPT ![t] = "MAINTENANCE"]
    /\ feed' = {}
    /\ UNCHANGED muted

\* A result that changes nothing, or the first one of a target that is not up.
Observe(t) ==
    /\ shown' = [shown EXCEPT ![t] = IF @ = "ABSENT" THEN "UNKNOWN" ELSE @]
    /\ feed' = {}
    /\ UNCHANGED muted

Mute(t) ==
    /\ shown' = [shown EXCEPT ![t] = "SILENT"]
    /\ muted' = [muted EXCEPT ![t] = TRUE]
    /\ feed' = {}

\* Un-silencing leaves MAINTENANCE alone: only a shown SILENT is lifted.
Unmute(t) ==
    /\ shown' = [shown EXCEPT ![t] = IF @ \in {"ABSENT", "SILENT"}
                                       THEN "UNKNOWN" ELSE @]
    /\ muted' = [muted EXCEPT ![t] = FALSE]
    /\ feed' = {}

Forget(t) ==
    /\ shown' = [shown EXCEPT ![t] = "ABSENT"]
    /\ muted' = [muted EXCEPT ![t] = FALSE]
    /\ feed' = {}

Quiet == feed' = {} /\ UNCHANGED <<shown, muted>>

Next ==
    \/ Quiet
    \/ \E t \in Targets :
          \/ \E to \in Announced[shown[t]] : Announce(t, to)
          \/ Maintain(t) \/ Observe(t) \/ Mute(t) \/ Unmute(t) \/ Forget(t)

Spec == Init /\ [][Next]_lifecycleVars
=============================================================================
