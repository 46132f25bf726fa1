---------------------------- MODULE StatusRules ----------------------------
(***************************************************************************)
(* The pure part of internal/fsm: how one probe result moves one target's  *)
(* state, and the sliding window of the flap tracker.  No variables: the   *)
(* modules that hold state (TargetFSM, ConMon) apply these operators.      *)
(*                                                                         *)
(*   ProbeResult  [success, latencyMs, loss, ts]    loss 0 = not reported  *)
(*   Target       [downThreshold, recoveryThreshold, latencyWarnMs,        *)
(*                 packetLossWarnPct, maintenance]  0 = use the default    *)
(*   TargetState  [status, fails, succ, flapCount, lastProbeAt]            *)
(*   Event        [id, from, to, ts]                                       *)
(*                                                                         *)
(* A Go function that returns (bool, *Event) returns a set here: {} for    *)
(* (false, nil) and {e} for (true, e).  Times are integers; latency and    *)
(* loss are integers in any unit.                                          *)
(***************************************************************************)
EXTENDS Integers, Sequences, FiniteSets

CONSTANTS
    DownThreshold,      \* Config.DownThreshold
    RecoveryThreshold,  \* Config.RecoveryThreshold
    FlapWindow,         \* Config.FlapWindow
    FlapThreshold,      \* Config.FlapThreshold
    DegradedLatencyMs,  \* Config.DegradedLatencyMs
    DegradedLossPct     \* Config.DegradedLossPct

\* DefaultConfig uses 3, 2, 10 minutes, 5, 1000 and 0.1.
ASSUME ThresholdAssumption ==
    /\ DownThreshold \in Nat \ {0}
    /\ RecoveryThreshold \in Nat \ {0}
    /\ FlapWindow \in Nat
    /\ FlapThreshold \in Nat \ {0}
    /\ DegradedLatencyMs \in Nat
    /\ DegradedLossPct \in Nat

Status ==
    {"UNKNOWN", "UP", "DOWN", "DEGRADED", "FLAPPING", "MAINTENANCE", "SILENT"}

ProbeResult == [success : BOOLEAN, latencyMs : Nat, loss : Nat, ts : Nat]

\* A nil *MaintenanceWindow is the window [start |-> 0, end |-> 0], which is
\* never active.
Target == [downThreshold : Nat, recoveryThreshold : Nat, latencyWarnMs : Nat,
           packetLossWarnPct : Nat, maintenance : [start : Nat, end : Nat]]

TargetState == [status : Status, fails : Nat, succ : Nat, flapCount : Nat,
                lastProbeAt : Nat]

-----------------------------------------------------------------------------
(* Each definition named Mutant... is a mistake its successor could have    *)
(* been written with; no specification uses it.                             *)

MutantZeroState == [status |-> "", fails |-> 0, succ |-> 0, flapCount |-> 0,
                    lastProbeAt |-> 0]

\* getOrCreate's new entry.
NewState == [status |-> "UNKNOWN", fails |-> 0, succ |-> 0, flapCount |-> 0,
             lastProbeAt |-> 0]

IsActive(window, t) == window.start < t /\ t < window.end

\* A per-target threshold wins over the FSM's own when it is positive.
Override(own, default) == IF own > 0 THEN own ELSE default

DownTh(target) == Override(target.downThreshold, DownThreshold)
RecoveryTh(target) == Override(target.recoveryThreshold, RecoveryThreshold)

IsDegraded(r, target) ==
    LET latTh  == Override(target.latencyWarnMs, DegradedLatencyMs)
        lossTh == Override(target.packetLossWarnPct, DegradedLossPct)
    IN  /\ r.success
        /\ \/ latTh > 0 /\ r.latencyMs > latTh
           \/ lossTh > 0 /\ r.loss > lossTh

-----------------------------------------------------------------------------
MutantCountedNoReset(s, r) ==
    [s EXCEPT !.lastProbeAt = r.ts,
              !.fails = IF r.success THEN @ ELSE @ + 1,
              !.succ  = IF r.success THEN @ + 1 ELSE 0]

\* The consecutive counters and LastProbeAt.
Counted(s, r) ==
    [s EXCEPT !.lastProbeAt = r.ts,
              !.fails = IF r.success THEN 0 ELSE @ + 1,
              !.succ  = IF r.success THEN @ + 1 ELSE 0]

MutantStarting == {"UNKNOWN", "MAINTENANCE"}

\* The statuses one success turns into UP.
Starting == {"UNKNOWN"}

\* The status the new counters call for, from the status s still has.
Derive(s, r, target) ==
    CASE s.status \in Starting -> IF r.success THEN "UP" ELSE "UNKNOWN"
      [] s.status \in {"UP", "DEGRADED"} ->
             IF s.fails >= DownTh(target) THEN "DOWN"
             ELSE IF IsDegraded(r, target) THEN "DEGRADED" ELSE "UP"
      [] s.status \in {"DOWN", "FLAPPING"} ->
             IF s.succ >= RecoveryTh(target) THEN "UP" ELSE "DOWN"
      [] OTHER -> s.status

-----------------------------------------------------------------------------
\* FlapTracker.trim's scan: the first entry that is not older than the window.
FirstLive(history, t) ==
    CHOOSE i \in 1 .. Len(history) + 1 :
        /\ \A j \in 1 .. i - 1 : history[j] < t - FlapWindow
        /\ i <= Len(history) => history[i] >= t - FlapWindow

MutantNoTrim(history, t) == history

\* FlapTracker.trim: the history without the entries before the first live one.
Trim(history, t) == SubSeq(history, FirstLive(history, t), Len(history))

MutantOverwrite(history, t) == <<t>>

Record(history, t) == Append(Trim(history, t), t)

-----------------------------------------------------------------------------
MutantNoFlapEvent(id, from, to, ts) ==
    IF to \in {from, "FLAPPING"} THEN {}
    ELSE {[id |-> id, from |-> from, to |-> to, ts |-> ts]}

\* An event for a status that changed, none for one that did not.
EventFor(id, from, to, ts) ==
    IF to = from THEN {}
    ELSE {[id |-> id, from |-> from, to |-> to, ts |-> ts]}

\* A derived status that differs from the current one counts as a change in
\* the flap history, and becomes FLAPPING when the history is full enough.
Changed(id, s, c, derived, history, ts) ==
    LET kept   == Trim(Record(history, ts), ts)
        status == IF Len(kept) >= FlapThreshold THEN "FLAPPING" ELSE derived
    IN  [state   |-> [c EXCEPT !.status = status, !.flapCount = Len(kept)],
         history |-> kept,
         events  |-> EventFor(id, s.status, status, ts)]

\* FSM.Process on the entry s and the flap history of target id: the entry and
\* the history it leaves and the event it returns.
Processed(id, s, history, r, target) ==
    LET c       == Counted(s, r)
        derived == Derive(c, r, target)
        quiet(status) == [state   |-> [c EXCEPT !.status = status],
                          history |-> history,
                          events  |-> {}]
    IN  IF IsActive(target.maintenance, r.ts) THEN quiet("MAINTENANCE")
        ELSE IF s.status = "SILENT" \/ derived = s.status THEN quiet(s.status)
        ELSE Changed(id, s, c, derived, history, r.ts)
=============================================================================
