----------------------------- MODULE TargetFSM -----------------------------
(***************************************************************************)
(* internal/fsm: the status machine of every target.  Each public method   *)
(* holds f.mu from its first line to its last, so each is one action.  The *)
(* target's configuration is an argument of every call (the caller reads   *)
(* it from the store just before), so any of TargetConfigs may come with   *)
(* any result.  Results of one target carry increasing timestamps: one     *)
(* timer chain probes it, and the chain re-arms after the handler returned.*)
(***************************************************************************)
EXTENDS StatusRules

CONSTANTS
    Targets,        \* target IDs
    Outcomes,       \* results without their timestamp
    TargetConfigs,  \* configurations a target may have when it is read
    MaxTime         \* bound on the clock, for model checking

ASSUME InputAssumption ==
    /\ Outcomes \subseteq [success : BOOLEAN, latencyMs : Nat, loss : Nat]
    /\ TargetConfigs \subseteq Target

VARIABLES
    states,   \* FSM.states: target ID -> TargetState, for the IDs it holds
    history,  \* FlapTracker.history; a missing key is the empty slice
    now,      \* wall clock
    emitted   \* the event the last call returned, as a set

fsmVars == <<states, history, now, emitted>>

(* Auxiliary variables: what an observer of the calls remembers.            *)
VARIABLES
    muted,     \* the operator's wish: silenced and not un-silenced since
    reported,  \* the status the events tell, "UNKNOWN" after a reset
    recent,    \* times of the events since the last reset, one window deep
    trace      \* successes and failures since the entry was created

auxVars == <<muted, reported, recent, trace>>
vars == <<fsmVars, auxVars>>

-----------------------------------------------------------------------------
Known(t) == t \in DOMAIN states

\* FSM.getOrCreate
Entry(t) == IF Known(t) THEN states[t] ELSE NewState

StoreEntry(t, s) ==
    states' = [u \in DOMAIN states \union {t} |-> IF u = t THEN s ELSE states[u]]

Result(o) == [success |-> o.success, latencyMs |-> o.latencyMs, loss |-> o.loss,
              ts |-> now]

Init ==
    /\ states = [t \in {} |-> NewState]
    /\ history = [t \in Targets |-> <<>>]
    /\ now = 1
    /\ emitted = {}
    /\ muted = [t \in Targets |-> FALSE]
    /\ reported = [t \in Targets |-> "UNKNOWN"]
    /\ recent = [t \in Targets |-> {}]
    /\ trace = [t \in Targets |-> <<>>]

\* FSM.Process
Process(t, o, target) ==
    LET r == Result(o)
        p == Processed(t, Entry(t), history[t], r, target)
    IN  /\ Entry(t).lastProbeAt < now
        /\ StoreEntry(t, p.state)
        /\ history' = [history EXCEPT ![t] = p.history]
        /\ emitted' = p.events
        /\ reported' = [reported EXCEPT ![t] =
                          IF p.events = {} THEN @ ELSE p.state.status]
        /\ recent' = [recent EXCEPT ![t] =
                        IF p.events = {} THEN @
                        ELSE {x \in @ : x >= now - FlapWindow} \union {now}]
        /\ trace' = [trace EXCEPT ![t] = Append(@, o.success)]
        /\ UNCHANGED <<now, muted>>

\* FSM.SetSilent(t, true)
Silence(t) ==
    /\ StoreEntry(t, [Entry(t) EXCEPT !.status = "SILENT"])
    /\ emitted' = {}
    /\ muted' = [muted EXCEPT ![t] = TRUE]
    /\ UNCHANGED <<history, now, reported, recent, trace>>

\* FSM.SetSilent(t, false): a status other than SILENT is left as it is.
Unsilence(t) ==
    LET lifted == Entry(t).status = "SILENT"
    IN  /\ StoreEntry(t, [Entry(t) EXCEPT
                            !.status = IF lifted THEN "UNKNOWN" ELSE @])
        /\ emitted' = {}
        /\ muted' = [muted EXCEPT ![t] = FALSE]
        /\ reported' = [reported EXCEPT ![t] = IF lifted THEN "UNKNOWN" ELSE @]
        /\ recent' = [recent EXCEPT ![t] = IF lifted THEN {} ELSE @]
        /\ UNCHANGED <<history, now, trace>>

MutantRemoveKeepsHistory(t) ==
    /\ states' = [u \in DOMAIN states \ {t} |-> states[u]]
    /\ emitted' = {}
    /\ muted' = [muted EXCEPT ![t] = FALSE]
    /\ reported' = [reported EXCEPT ![t] = "UNKNOWN"]
    /\ recent' = [recent EXCEPT ![t] = {}]
    /\ trace' = [trace EXCEPT ![t] = <<>>]
    /\ UNCHANGED <<history, now>>

\* FSM.Remove
Remove(t) ==
    /\ states' = [u \in DOMAIN states \ {t} |-> states[u]]
    /\ history' = [history EXCEPT ![t] = <<>>]
    /\ emitted' = {}
    /\ muted' = [muted EXCEPT ![t] = FALSE]
    /\ reported' = [reported EXCEPT ![t] = "UNKNOWN"]
    /\ recent' = [recent EXCEPT ![t] = {}]
    /\ trace' = [trace EXCEPT ![t] = <<>>]
    /\ UNCHANGED now

\* Time passes between calls.
Tick ==
    /\ now < MaxTime
    /\ now' = now + 1
    /\ emitted' = {}
    /\ UNCHANGED <<states, history, auxVars>>

Next ==
    \/ Tick
    \/ \E t \in Targets :
          \/ \E o \in Outcomes, target \in TargetConfigs : Process(t, o, target)
          \/ Silence(t) \/ Unsilence(t) \/ Remove(t)

Spec == Init /\ [][Next]_vars

-----------------------------------------------------------------------------
\* Types of the variables the code has and of the auxiliary ones.
TypeOK ==
    /\ DOMAIN states \subseteq Targets
    /\ states \in [DOMAIN states -> TargetState]
    /\ history \in [Targets -> Seq(Nat)]
    /\ now \in Nat
    /\ emitted \in SUBSET [id : Targets, from : Status, to : Status, ts : Nat]
    /\ muted \in [Targets -> BOOLEAN]
    /\ reported \in [Targets -> Status]
    /\ recent \in [Targets -> SUBSET Nat]
    /\ trace \in [Targets -> Seq(BOOLEAN)]

\* A silenced target stays silenced until the operator lifts it: whatever
\* results arrive and whatever window opens or closes meanwhile, Process
\* returns no event for it (fsm.go: "no state change is reported").
NoEventWhileMuted ==
    [][\A e \in emitted' : ~muted[e.id]]_vars

\* An observer who folds the events knows the status of every target that is
\* neither in maintenance nor silenced: no status change is lost, none is
\* announced that did not happen, and consecutive events chain (each starts
\* where the previous one ended).  Lifting a silence resets both to UNKNOWN.
ReportedIsCurrent ==
    \A t \in DOMAIN states :
        states[t].status \notin {"MAINTENANCE", "SILENT"}
            => states[t].status = reported[t]

\* A target in FLAPPING has the evidence for it: its flap history holds at
\* least FlapThreshold entries, all within FlapWindow of its last probe and
\* none inherited from a deleted target of the same ID, and FlapCount10m tells
\* how many.
FlappingHasEvidence ==
    \A t \in DOMAIN states :
        states[t].status = "FLAPPING" =>
            /\ states[t].flapCount = Len(history[t])
            /\ Len(history[t]) >= FlapThreshold
            /\ Len(history[t]) <= Len(trace[t])
            /\ \A i \in DOMAIN history[t] :
                  history[t][i] \in states[t].lastProbeAt - FlapWindow .. now

\* The history is sorted and spans at most one window, so trim's prefix scan
\* drops exactly the old entries and the history cannot grow without bound.
HistoryIsOneWindow ==
    \A t \in Targets : \A i, j \in DOMAIN history[t] :
        i < j => /\ history[t][i] < history[t][j]
                 /\ history[t][j] - history[t][i] <= FlapWindow

\* What flap detection is for: a target announces at most FlapThreshold
\* changes in any FlapWindow, however its probes turn out.
EventRateBounded ==
    \A t \in Targets : Cardinality(recent[t]) <= FlapThreshold

LastAll(seq, n, value) ==
    n <= Len(seq) /\ \A i \in Len(seq) - n + 1 .. Len(seq) : seq[i] = value

\* An outage is announced only on evidence: UP or DEGRADED turns DOWN after
\* as many consecutive failed probes as the target's threshold asks for, and
\* DOWN turns UP after as many consecutive successes, silences, maintenance
\* windows and re-configurations in between notwithstanding.
OutageHasEvidence ==
    [][\A t \in Targets, o \in Outcomes, target \in TargetConfigs :
         Process(t, o, target) =>
           \A e \in emitted' :
             /\ (e.to = "DOWN" /\ e.from \in {"UP", "DEGRADED"}) =>
                    LastAll(trace'[t], DownTh(target), FALSE)
             /\ (e.to = "UP" /\ e.from \in {"DOWN", "FLAPPING"}) =>
                    LastAll(trace'[t], RecoveryTh(target), TRUE)]_vars

-----------------------------------------------------------------------------
\* The status machine implements the life cycle its readers rely on.
Lifecycle == INSTANCE StatusLifecycle WITH
    shown <- [t \in Targets |-> IF Known(t) THEN states[t].status ELSE "ABSENT"],
    muted <- muted,
    feed  <- {[id |-> e.id, from |-> e.from, to |-> e.to] : e \in emitted}

\* Every step of the machine is a step of the abstract life cycle: only the
\* listed changes are announced, MAINTENANCE and SILENT are entered and left
\* without an event, and nothing is announced for a muted target.
ImplementsLifecycle == Lifecycle!Spec

-----------------------------------------------------------------------------
(* Claims of the documentation that the code does not keep.                 *)

\* model.go: a maintenance window suppresses alerts during the window.  A
\* result that arrives outside the window leaves the target in a status that
\* probing can change.
MaintenanceEndsWithWindow ==
    [][\A t \in Targets, o \in Outcomes, target \in TargetConfigs :
         Process(t, o, target) /\ ~IsActive(target.maintenance, now)
           => states'[t].status # "MAINTENANCE"]_vars

\* docs/troubleshooting.md: FLAPPING is left by itself once there were fewer
\* changes than the threshold for a window.  A target that failed whatever it
\* takes to be DOWN, and then for a whole window more, is not FLAPPING (it gives
\* one result per tick at most).
FlappingEndsWhenQuiet ==
    \A t \in DOMAIN states :
        LastAll(trace[t], DownThreshold + FlapWindow, FALSE)
            => states[t].status # "FLAPPING"

\* README.md: DOWN means the target's probes failed in a row.  A target that is
\* neither in maintenance nor silenced and whose last DownThreshold results
\* all failed is DOWN (or FLAPPING).
FailingTargetIsDown ==
    \A t \in DOMAIN states :
        /\ states[t].status \notin {"MAINTENANCE", "SILENT"}
        /\ LastAll(trace[t], DownThreshold, FALSE)
        => states[t].status \in {"DOWN", "FLAPPING"}
=============================================================================
