----------------------------- MODULE Scheduler -----------------------------
(***************************************************************************)
(* internal/probe/probe.go: the Scheduler.  Add, Remove, Stop and the end  *)
(* of reschedule run under s.mu, so each is one action; a probe and the    *)
(* result handler run outside the lock, in the goroutine of the timer that *)
(* fired.                                                                  *)
(*                                                                         *)
(* A timer re-creates itself after its probe.  The timers that descend     *)
(* from one Add are one chain here: at any moment a chain is armed (its    *)
(* timer is set), probing (the prober or the handler runs) or finishing    *)
(* (it is about to call reschedule).  s.timers maps a target to the last   *)
(* timer set for it, hence to a chain.  A timer may fire any time after it *)
(* was set: its delay, and with it the outcome of the probe it depends on, *)
(* is left out.                                                            *)
(***************************************************************************)

CONSTANTS
    Targets,  \* target IDs
    Specs,    \* the *model.Target values Add is called with
    Chains    \* names for chains, as many as may be alive at a time

\* A Target has an ID, a protocol the registry has a prober for (known) or has
\* not, and settings that no step depends on.
ASSUME SpecAssumption ==
    \A spec \in Specs : spec.id \in Targets /\ spec.known \in BOOLEAN

VARIABLES
    targets,  \* Scheduler.targets
    timers,   \* Scheduler.timers
    chain,    \* the chains that are alive
    stopped   \* Stop has been called

(* Auxiliary: an Add for the target found one of its probes in flight, and  *)
(* a chain of the target has been alive ever since.                         *)
VARIABLE overlapped

vars == <<targets, timers, chain, stopped, overlapped>>

-----------------------------------------------------------------------------
Live == DOMAIN chain
Registered(t) == t \in DOMAIN targets
ChainsOf(t) == {c \in Live : chain[c].spec.id = t}
InFlight(t) == \E c \in ChainsOf(t) : chain[c].phase # "armed"

Put(f, k, v) == [x \in DOMAIN f \union {k} |-> IF x = k THEN v ELSE f[x]]
Without(f, S) == [x \in DOMAIN f \ S |-> f[x]]

Armed(spec) == [phase |-> "armed", spec |-> spec]
Running(phase, spec) == [phase |-> phase, spec |-> spec]

MutantCancelNone(t) == {}

\* timer.Stop() on the timer the map holds for t: it has an effect on a timer
\* that has not fired yet.
Cancelled(t) == {c \in Live : /\ t \in DOMAIN timers /\ timers[t] = c
                              /\ chain[c].phase = "armed"}

\* What is left of the overlap marks when the chains in gone end.
Overlaps(gone) ==
    [t \in Targets |-> overlapped[t] /\ ChainsOf(t) \ gone # {}]

-----------------------------------------------------------------------------
Init ==
    /\ targets = [t \in {} |-> {}]
    /\ timers = [t \in {} |-> {}]
    /\ chain = [c \in {} |-> {}]
    /\ stopped = FALSE
    /\ overlapped = [t \in Targets |-> FALSE]

\* Scheduler.Add.  runServer adds targets before it waits for the signal that
\* leads to Stop.
Add(spec) ==
    LET t == spec.id
    IN  /\ ~stopped
        /\ targets' = Put(targets, t, spec)
        /\ \E c \in Chains \ (Live \ Cancelled(t)) :
              /\ chain' = Put(Without(chain, Cancelled(t)), c, Armed(spec))
              /\ timers' = Put(timers, t, c)
        /\ overlapped' = [overlapped EXCEPT ![t] = @ \/ InFlight(t)]
        /\ UNCHANGED stopped

\* Scheduler.Remove
Remove(t) ==
    /\ targets' = Without(targets, {t})
    /\ timers' = Without(timers, {t})
    /\ chain' = Without(chain, Cancelled(t))
    /\ overlapped' = Overlaps(Cancelled(t))
    /\ UNCHANGED stopped

MutantStop ==
    /\ ~stopped
    /\ stopped' = TRUE
    /\ targets' = [t \in {} |-> {}]
    /\ timers' = [t \in {} |-> {}]
    /\ UNCHANGED <<chain, overlapped>>

\* Scheduler.Stop
Stop ==
    LET gone == UNION {Cancelled(t) : t \in Targets}
    IN  /\ ~stopped
        /\ stopped' = TRUE
        /\ chain' = Without(chain, gone)
        /\ overlapped' = Overlaps(gone)
        /\ UNCHANGED <<targets, timers>>

MutantFireDropsUnknown(c) ==
    LET spec == chain[c].spec
    IN  /\ chain[c].phase = "armed"
        /\ chain' = IF spec.known
                      THEN [chain EXCEPT ![c] = Running("probing", spec)]
                      ELSE Without(chain, {c})
        /\ UNCHANGED <<targets, timers, stopped, overlapped>>

\* The timer expires: runOnce starts a probe, or skips to reschedule when no
\* prober is registered for the protocol.
Fire(c) ==
    LET spec == chain[c].spec
    IN  /\ chain[c].phase = "armed"
        /\ chain' = [chain EXCEPT ![c] =
                        IF spec.known THEN Running("probing", spec)
                        ELSE Running("finishing", spec)]
        /\ UNCHANGED <<targets, timers, stopped, overlapped>>

\* The prober has returned a result or an error, and the handler its result.
ProbeDone(c) ==
    /\ chain[c].phase = "probing"
    /\ chain' = [chain EXCEPT ![c] = Running("finishing", chain[c].spec)]
    /\ UNCHANGED <<targets, timers, stopped, overlapped>>

MutantRescheduleAlways(c) ==
    LET spec == chain[c].spec
    IN  /\ chain[c].phase = "finishing"
        /\ chain' = [chain EXCEPT ![c] = Armed(spec)]
        /\ timers' = Put(timers, spec.id, c)
        /\ UNCHANGED <<targets, stopped, overlapped>>

\* Scheduler.reschedule: the chain ends when its target is gone.
Reschedule(c) ==
    LET spec == chain[c].spec
    IN  /\ chain[c].phase = "finishing"
        /\ \/ /\ Registered(spec.id)
              /\ chain' = [chain EXCEPT ![c] = Armed(spec)]
              /\ timers' = Put(timers, spec.id, c)
              /\ UNCHANGED overlapped
           \/ /\ ~Registered(spec.id)
              /\ chain' = Without(chain, {c})
              /\ overlapped' = Overlaps({c})
              /\ UNCHANGED timers
        /\ UNCHANGED <<targets, stopped>>

Run(c) == Fire(c) \/ ProbeDone(c) \/ Reschedule(c)

Next ==
    \/ \E spec \in Specs : Add(spec)
    \/ \E t \in Targets : Remove(t)
    \/ Stop
    \/ \E c \in Live : Fire(c) \/ ProbeDone(c) \/ Reschedule(c)

\* The runtime fires every timer and schedules every goroutine, and a probe
\* returns: its context has a deadline.
Fairness == \A c \in Chains : WF_vars(c \in Live /\ Run(c))

Spec == Init /\ [][Next]_vars /\ Fairness

-----------------------------------------------------------------------------
Phases == {"armed", "probing", "finishing"}

\* Types; the two maps always hold the same keys, and a timer of the map
\* belongs to the target it is stored under.
TypeOK ==
    /\ DOMAIN targets \subseteq Targets
    /\ \A t \in DOMAIN targets : targets[t] \in Specs /\ targets[t].id = t
    /\ DOMAIN timers = DOMAIN targets
    /\ \A t \in DOMAIN timers : timers[t] \in Chains
    /\ Live \subseteq Chains
    /\ chain \in [Live -> [phase : Phases, spec : Specs]]
    /\ stopped \in BOOLEAN
    /\ overlapped \in [Targets -> BOOLEAN]

\* No target is lost: until Stop, the timer the map holds for a registered
\* target is set or its probe is in flight, whatever Adds and Removes came
\* between a probe and its reschedule.
NoTargetIsLost ==
    ~stopped => \A t \in DOMAIN targets : timers[t] \in ChainsOf(t)

\* Unless an Add overlapped a probe, a target has one chain, which probes it
\* as the last Add described it and which Remove cancels: probes of one target
\* follow each other, so its results reach the handler in order.
OneChainUnlessOverlapped ==
    \A t \in Targets : ~overlapped[t] =>
        /\ \A c, d \in ChainsOf(t) : c = d
        /\ \A c \in ChainsOf(t) :
              IF Registered(t) THEN chain[c].spec = targets[t]
              ELSE chain[c].phase # "armed"

\* Of a target no Add overlapped, Stop leaves no timer set, whatever Adds and
\* Removes came before: the only chains that go on (reschedule does not ask
\* whether Stop was called) are those whose probe was in flight.
StopLeavesOnlyProbesInFlight ==
    [][Stop => \A c \in DOMAIN chain' :
                  chain'[c].phase = "armed" => overlapped[chain[c].spec.id]]_vars

Added(t) == \E spec \in Specs : spec.id = t /\ Add(spec)

\* A target that stays registered while the scheduler runs, and is not added
\* over and over (each Add starts its interval anew), is probed again and
\* again; its timer fires again and again when no prober knows its protocol.
RegisteredIsProbed ==
    \A t \in Targets :
        <>[](Registered(t) /\ ~stopped) /\ <>[][~Added(t)]_vars
            => []<>InFlight(t)

\* Once a target is removed, and not added again, its last probe ends.
RemovedFallsQuiet ==
    \A t \in Targets : <>[](~Registered(t)) => <>[](ChainsOf(t) = {})
=============================================================================
