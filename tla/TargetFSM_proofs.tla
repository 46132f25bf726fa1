-------------------------- MODULE TargetFSM_proofs --------------------------
(***************************************************************************)
(* Theorems about TargetFSM, for every set of targets, outcomes and        *)
(* configurations and every threshold and window.                          *)
(***************************************************************************)
EXTENDS TargetFSM, StatusRules_proofs

-----------------------------------------------------------------------------
(* Type correctness.                                                        *)

\* What storing an entry does to the map, and to the entry of every target.
LEMMA StoreEntryProperties ==
    ASSUME TypeOK, NEW t \in Targets, NEW s \in TargetState, StoreEntry(t, s)
    PROVE  /\ DOMAIN states' \subseteq Targets
           /\ states' \in [DOMAIN states' -> TargetState]
           /\ DOMAIN states' = DOMAIN states \union {t}
           /\ \A u : Entry(u)' = IF u = t THEN s ELSE Entry(u)
BY DEF TypeOK, StoreEntry, Entry, Known

\* What removing an entry does to the map, and to the entry of every target.
LEMMA RemoveEntryProperties ==
    ASSUME TypeOK, NEW t \in Targets,
           states' = [u \in DOMAIN states \ {t} |-> states[u]]
    PROVE  /\ DOMAIN states' \subseteq Targets
           /\ states' \in [DOMAIN states' -> TargetState]
           /\ DOMAIN states' = DOMAIN states \ {t}
           /\ \A u : Entry(u)' = IF u = t THEN NewState ELSE Entry(u)
BY DEF TypeOK, Entry, Known

\* Every target has a well-typed entry, getOrCreate's one if none is stored.
LEMMA EntryType ==
    ASSUME TypeOK, NEW t
    PROVE  Entry(t) \in TargetState
BY DEF TypeOK, Entry, Known, NewState, TargetState, Status

\* A probe result made now is well typed and carries the time and outcome.
LEMMA ResultType ==
    ASSUME TypeOK, NEW o \in Outcomes
    PROVE  /\ Result(o) \in ProbeResult
           /\ Result(o).ts = now
           /\ Result(o).success = o.success
           /\ o.success \in BOOLEAN
<1>1. /\ o.success \in BOOLEAN /\ o.latencyMs \in Nat /\ o.loss \in Nat
      /\ now \in Nat
    BY InputAssumption DEF InputAssumption, TypeOK
<1> QED
    BY <1>1 DEF Result, ProbeResult

\* The event a change is announced by, if any.
LEMMA EventForType ==
    ASSUME NEW id \in Targets, NEW from \in Status, NEW to \in Status,
           NEW ts \in Nat
    PROVE  EventFor(id, from, to, ts)
             \in SUBSET [id : Targets, from : Status, to : Status, ts : Nat]
BY DEF EventFor

\* The type invariant holds: in particular every status is one of the seven,
\* every counter is a natural number and every event names a known target.
THEOREM TypeCorrect == Spec => []TypeOK
<1>1. Init => TypeOK
    BY EmptySeq DEF Init, TypeOK, Status
<1>2. TypeOK /\ [Next]_vars => TypeOK'
  <2> SUFFICES ASSUME TypeOK, [Next]_vars
               PROVE  TypeOK'
    OBVIOUS
  <2>1. ASSUME NEW t \in Targets, NEW o \in Outcomes,
               NEW target \in TargetConfigs, Process(t, o, target)
        PROVE  TypeOK'
    <3> DEFINE p == Processed(t, Entry(t), history[t], Result(o), target)
    <3>1. /\ Entry(t) \in TargetState /\ history[t] \in Seq(Nat)
          /\ Result(o) \in ProbeResult /\ Result(o).ts = now /\ now \in Nat
          /\ o.success \in BOOLEAN /\ trace[t] \in Seq(BOOLEAN)
      BY EntryType, ResultType DEF TypeOK
    <3>2. /\ p.state \in TargetState
          /\ p.history \in Seq(Nat)
          /\ \/ QuietOutcome(Entry(t), history[t], p)
             \/ RecordedOutcome(t, Entry(t), history[t], Result(o), target, p)
      BY <3>1, ProcessedProperties
    <3>3. /\ StoreEntry(t, p.state)
          /\ history' = [history EXCEPT ![t] = p.history]
          /\ emitted' = p.events
          /\ reported' = [reported EXCEPT ![t] =
                            IF p.events = {} THEN @ ELSE p.state.status]
          /\ recent' = [recent EXCEPT ![t] =
                          IF p.events = {} THEN @
                          ELSE {x \in @ : x >= now - FlapWindow} \union {now}]
          /\ trace' = [trace EXCEPT ![t] = Append(@, o.success)]
          /\ UNCHANGED <<now, muted>>
      BY <2>1 DEF Process
    <3>4. p.events \in SUBSET [id : Targets, from : Status, to : Status, ts : Nat]
      <4>1. CASE QuietOutcome(Entry(t), history[t], p)
        BY <4>1 DEF QuietOutcome
      <4>2. CASE RecordedOutcome(t, Entry(t), history[t], Result(o), target, p)
        <5>1. p.events = EventFor(t, Entry(t).status, p.state.status, now)
          BY <3>1, <4>2 DEF RecordedOutcome
        <5>2. Entry(t).status \in Status /\ p.state.status \in Status
          BY <3>1, <3>2 DEF TargetState
        <5> QED
          BY <3>1, <5>1, <5>2, EventForType
      <4> QED
        BY <3>2, <4>1, <4>2
    <3>5. p.state.status \in Status
      BY <3>2 DEF TargetState
    <3>6. Append(trace[t], o.success) \in Seq(BOOLEAN)
      BY <3>1, AppendProperties
    <3> HIDE DEF p
    <3>7. DOMAIN states' \subseteq Targets /\ states' \in [DOMAIN states' -> TargetState]
      BY <3>2, <3>3, StoreEntryProperties
    <3>8. recent' \in [Targets -> SUBSET Nat]
      BY <3>1, <3>3 DEF TypeOK
    <3>9. reported' \in [Targets -> Status]
      BY <3>3, <3>5 DEF TypeOK
    <3>10. history' \in [Targets -> Seq(Nat)] /\ trace' \in [Targets -> Seq(BOOLEAN)]
      BY <3>2, <3>3, <3>6 DEF TypeOK
    <3> QED
      BY <3>3, <3>4, <3>7, <3>8, <3>9, <3>10 DEF TypeOK
  <2>2. ASSUME NEW t \in Targets, Silence(t)
        PROVE  TypeOK'
    <3>1. [Entry(t) EXCEPT !.status = "SILENT"] \in TargetState
      BY EntryType DEF TargetState, Status
    <3>2. DOMAIN states' \subseteq Targets /\ states' \in [DOMAIN states' -> TargetState]
      BY <2>2, <3>1, StoreEntryProperties DEF Silence
    <3> QED
      BY <2>2, <3>2 DEF TypeOK, Silence
  <2>3. ASSUME NEW t \in Targets, Unsilence(t)
        PROVE  TypeOK'
    <3> DEFINE lifted == Entry(t).status = "SILENT"
               s == [Entry(t) EXCEPT !.status = IF lifted THEN "UNKNOWN" ELSE @]
    <3>1. s \in TargetState
      BY EntryType DEF TargetState, Status
    <3>2. StoreEntry(t, s)
      BY <2>3 DEF Unsilence
    <3>3. DOMAIN states' \subseteq Targets /\ states' \in [DOMAIN states' -> TargetState]
      <4> HIDE DEF s
      <4> QED
        BY <3>1, <3>2, StoreEntryProperties
    <3>4. reported' \in [Targets -> Status] /\ recent' \in [Targets -> SUBSET Nat]
      BY <2>3 DEF TypeOK, Unsilence, Status
    <3> QED
      BY <2>3, <3>3, <3>4 DEF TypeOK, Unsilence
  <2>4. ASSUME NEW t \in Targets, Remove(t)
        PROVE  TypeOK'
    <3>1. DOMAIN states' \subseteq Targets /\ states' \in [DOMAIN states' -> TargetState]
      BY <2>4, RemoveEntryProperties DEF Remove
    <3>2. history' \in [Targets -> Seq(Nat)] /\ trace' \in [Targets -> Seq(BOOLEAN)]
      BY <2>4, EmptySeq DEF TypeOK, Remove
    <3> QED
      BY <2>4, <3>1, <3>2 DEF TypeOK, Remove, Status
  <2>5. CASE Tick
    BY <2>5 DEF TypeOK, Tick, auxVars
  <2>6. CASE UNCHANGED vars
    BY <2>6 DEF TypeOK, vars, fsmVars, auxVars
  <2> QED
    BY <2>1, <2>2, <2>3, <2>4, <2>5, <2>6 DEF Next
<1> QED
    BY <1>1, <1>2, PTL DEF Spec
\* A set whose members all occur in a sequence is no larger than the sequence
\* is long.
LEMMA OccurrencesBounded ==
    ASSUME NEW seq \in Seq(Nat), NEW R,
           \A x \in R : \E k \in 1 .. Len(seq) : seq[k] = x
    PROVE  IsFiniteSet(R) /\ Cardinality(R) <= Len(seq)
<1> DEFINE n == Len(seq)
           place == [x \in R |-> CHOOSE k \in 1 .. n : seq[k] = x]
<1>1. n \in Nat
    BY LenProperties
<1> HIDE DEF n
<1>2. \A x \in R : place[x] \in 1 .. n /\ seq[place[x]] = x
    BY DEF n
<1>3. place \in [R -> 1 .. n]
    BY <1>2
<1>4. \A x, y \in R : place[x] = place[y] => x = y
  <2> HIDE DEF place
  <2> QED
    BY <1>2
<1>5. place \in Injection(R, 1 .. n)
  <2> HIDE DEF place
  <2> QED
    BY <1>3, <1>4 DEF Injection, IsInjective
<1>6. IsFiniteSet(1 .. n) /\ Cardinality(1 .. n) = n
    BY <1>1, FS_Interval
<1> HIDE DEF place
<1>7. IsFiniteSet(R) /\ Cardinality(R) <= Cardinality(1 .. n)
    BY <1>5, <1>6, FS_Injection
<1> QED
    BY <1>6, <1>7 DEF n

\* A run of n equal values grows with the sequence, or starts anew.
LEMMA LastAllAppend ==
    ASSUME NEW seq \in Seq(BOOLEAN), NEW v \in BOOLEAN, NEW n \in Nat,
           LastAll(seq, n, v)
    PROVE  /\ LastAll(Append(seq, v), n + 1, v)
           /\ \A w : LastAll(Append(seq, w), 0, v)
           /\ \A m \in 0 .. n : LastAll(seq, m, v)
<1>1. Len(seq) \in Nat /\ n <= Len(seq)
    BY LenProperties DEF LastAll
<1>2. /\ Len(Append(seq, v)) = Len(seq) + 1
      /\ \A i \in 1 .. Len(seq) : Append(seq, v)[i] = seq[i]
      /\ Append(seq, v)[Len(seq) + 1] = v
    BY AppendProperties
<1>3. \A i \in Len(seq) - n + 1 .. Len(seq) : seq[i] = v
    BY DEF LastAll
<1>4. ASSUME NEW i \in (Len(seq) + 1) - (n + 1) + 1 .. Len(seq) + 1
      PROVE  Append(seq, v)[i] = v
  <2>1. CASE i = Len(seq) + 1
    BY <1>2, <2>1
  <2>2. CASE i # Len(seq) + 1
    <3>1. i \in 1 .. Len(seq) /\ i \in Len(seq) - n + 1 .. Len(seq)
      BY <1>1, <2>2
    <3> QED
      BY <1>2, <1>3, <3>1
  <2> QED
    BY <2>1, <2>2
<1>5. LastAll(Append(seq, v), n + 1, v)
    BY <1>1, <1>2, <1>4 DEF LastAll
<1>6. \A w : LastAll(Append(seq, w), 0, v)
  <2> TAKE w
  <2>1. Len(Append(seq, w)) = Len(seq) + 1
    BY <1>1
  <2> QED
    BY <1>1, <2>1 DEF LastAll
<1>7. \A m \in 0 .. n : LastAll(seq, m, v)
    BY <1>1, <1>3 DEF LastAll
<1> QED
    BY <1>5, <1>6, <1>7

-----------------------------------------------------------------------------
(* The inductive invariant.                                                 *)

\* The flap history is in increasing order, no younger than the last probe,
\* spans one window and has no more entries than results came in.
HistoryInv(t) ==
    /\ Increasing(history[t])
    /\ \A i \in 1 .. Len(history[t]) : history[t][i] <= Entry(t).lastProbeAt
    /\ \A i, j \in 1 .. Len(history[t]) :
          i < j => history[t][j] - history[t][i] <= FlapWindow
    /\ Len(history[t]) <= Len(trace[t])
    /\ Entry(t).lastProbeAt <= now

\* A target is FLAPPING only while its last probe saw a full history.
FlappingInv(t) ==
    Entry(t).status = "FLAPPING" =>
        /\ Entry(t).flapCount = Len(history[t])
        /\ Len(history[t]) >= FlapThreshold
        /\ \A i \in 1 .. Len(history[t]) :
              history[t][i] >= Entry(t).lastProbeAt - FlapWindow

\* The operator's wish and the events tell the status.
StatusInv(t) ==
    /\ muted[t] => Entry(t).status \in {"SILENT", "MAINTENANCE"}
    /\ Entry(t).status \notin {"SILENT", "MAINTENANCE"} =>
          Entry(t).status = reported[t]

\* The counters are the length of a run of equal outcomes.
TraceInv(t) ==
    /\ LastAll(trace[t], Entry(t).fails, FALSE)
    /\ LastAll(trace[t], Entry(t).succ, TRUE)

\* Every recent event is an entry of the flap history or older than the window
\* of the last probe; one place is kept free for the event that announces
\* FLAPPING.
RateInv(t) ==
    /\ \A x \in recent[t] :
          \/ x < Entry(t).lastProbeAt - FlapWindow
          \/ \E k \in 1 .. Len(history[t]) : history[t][k] = x
    /\ IsFiniteSet(recent[t])
    /\ Cardinality(recent[t]) <= FlapThreshold
    /\ reported[t] # "FLAPPING" => Cardinality(recent[t]) < FlapThreshold

TargetInv(t) ==
    HistoryInv(t) /\ FlappingInv(t) /\ StatusInv(t) /\ TraceInv(t) /\ RateInv(t)

IInv == TypeOK /\ \A t \in Targets : TargetInv(t)

\* A target none of whose variables changes keeps its invariant while time
\* goes on.
LEMMA Frame ==
    ASSUME NEW t, TargetInv(t), now \in Nat, now' \in Nat, now <= now',
           TypeOK,
           Entry(t)' = Entry(t), history'[t] = history[t], muted'[t] = muted[t],
           reported'[t] = reported[t], recent'[t] = recent[t],
           trace'[t] = trace[t]
    PROVE  TargetInv(t)'
<1>1. Entry(t).lastProbeAt \in Nat
    BY EntryType DEF TargetState
<1>2. HistoryInv(t)'
    BY <1>1 DEF TargetInv, HistoryInv
<1>3. FlappingInv(t)'
    BY DEF TargetInv, FlappingInv
<1>4. StatusInv(t)' /\ TraceInv(t)'
    BY DEF TargetInv, StatusInv, TraceInv
<1>5. RateInv(t)'
    BY DEF TargetInv, RateInv
<1> QED
    BY <1>2, <1>3, <1>4, <1>5 DEF TargetInv

\* Processing a result keeps the invariant of its target.
LEMMA ProcessKeepsInv ==
    ASSUME TypeOK, NEW t \in Targets, TargetInv(t), NEW o \in Outcomes,
           NEW target \in TargetConfigs, Process(t, o, target)
    PROVE  TargetInv(t)'
<1> DEFINE s == Entry(t)
           h == history[t]
           r == Result(o)
           p == Processed(t, s, h, r, target)
<1> USE ThresholdAssumption DEF ThresholdAssumption
<1>1. /\ s \in TargetState /\ h \in Seq(Nat)
      /\ r \in ProbeResult /\ r.ts = now /\ now \in Nat
      /\ r.success = o.success /\ o.success \in BOOLEAN
      /\ trace[t] \in Seq(BOOLEAN)
    BY EntryType, ResultType DEF TypeOK
<1>2. /\ s.lastProbeAt \in Nat /\ s.fails \in Nat /\ s.succ \in Nat
      /\ s.lastProbeAt < now
      /\ Len(h) \in Nat
      /\ \A i \in 1 .. Len(h) : h[i] \in Nat
  <2>1. s.lastProbeAt < now
    BY DEF Process
  <2> QED
    BY <1>1, <2>1, LenProperties, ElementOfSeq DEF TargetState
<1>3. /\ p.state \in TargetState
      /\ p.history \in Seq(Nat)
      /\ p.state.lastProbeAt = now
      /\ p.state.fails = (IF o.success THEN 0 ELSE s.fails + 1)
      /\ p.state.succ = (IF o.success THEN s.succ + 1 ELSE 0)
      /\ \/ QuietOutcome(s, h, p)
         \/ RecordedOutcome(t, s, h, r, target, p)
    BY <1>1, ProcessedProperties
<1>4. /\ StoreEntry(t, p.state)
      /\ history' = [history EXCEPT ![t] = p.history]
      /\ reported' = [reported EXCEPT ![t] =
                        IF p.events = {} THEN @ ELSE p.state.status]
      /\ recent' = [recent EXCEPT ![t] =
                      IF p.events = {} THEN @
                      ELSE {x \in @ : x >= now - FlapWindow} \union {now}]
      /\ trace' = [trace EXCEPT ![t] = Append(@, o.success)]
      /\ now' = now
      /\ muted' = muted
    BY DEF Process
<1> HIDE DEF p
<1>5. Entry(t)' = p.state
    BY <1>3, <1>4, StoreEntryProperties
<1>6. /\ history'[t] = p.history
      /\ muted'[t] = muted[t]
      /\ trace'[t] = Append(trace[t], o.success)
      /\ Len(trace'[t]) = Len(trace[t]) + 1
      /\ reported'[t] = (IF p.events = {} THEN reported[t] ELSE p.state.status)
      /\ recent'[t] = (IF p.events = {} THEN recent[t]
                       ELSE {x \in recent[t] : x >= now - FlapWindow} \union {now})
    BY <1>1, <1>4, AppendProperties DEF TypeOK
<1>7. recent[t] \in SUBSET Nat /\ Len(trace[t]) \in Nat
    BY <1>1, LenProperties DEF TypeOK
<1> HIDE DEF s, h, r
<1>8. TraceInv(t)'
  <2>1. LastAll(trace[t], s.fails, FALSE) /\ LastAll(trace[t], s.succ, TRUE)
    BY DEF TargetInv, TraceInv, s
  <2>2. CASE o.success = TRUE
    <3>1. p.state.fails = 0 /\ p.state.succ = s.succ + 1
      BY <1>3, <2>2
    <3>2. /\ LastAll(Append(trace[t], TRUE), s.succ + 1, TRUE)
          /\ LastAll(Append(trace[t], TRUE), 0, FALSE)
      BY <1>1, <1>2, <2>1, LastAllAppend
    <3> QED
      BY <1>5, <1>6, <2>2, <3>1, <3>2 DEF TraceInv
  <2>3. CASE o.success = FALSE
    <3>1. p.state.succ = 0 /\ p.state.fails = s.fails + 1
      BY <1>3, <2>3
    <3>2. /\ LastAll(Append(trace[t], FALSE), s.fails + 1, FALSE)
          /\ LastAll(Append(trace[t], FALSE), 0, TRUE)
      BY <1>1, <1>2, <2>1, LastAllAppend
    <3> QED
      BY <1>5, <1>6, <2>3, <3>1, <3>2 DEF TraceInv
  <2> QED
    BY <1>1, <2>2, <2>3
<1>9. /\ Increasing(h)
      /\ \A i \in 1 .. Len(h) : h[i] <= s.lastProbeAt /\ h[i] < now
      /\ \A i, j \in 1 .. Len(h) : i < j => h[j] - h[i] <= FlapWindow
      /\ Len(h) <= Len(trace[t])
    BY <1>1, <1>2 DEF TargetInv, HistoryInv, s, h
<1>10. CASE QuietOutcome(s, h, p)
  <2>1. /\ p.history = h /\ p.events = {}
        /\ p.state.status \in {s.status, "MAINTENANCE"}
        /\ p.state.status # "FLAPPING"
    BY <1>10 DEF QuietOutcome
  <2>2. HistoryInv(t)'
    <3>1. history'[t] = h /\ Entry(t).lastProbeAt' = now /\ now' = now
      BY <1>3, <1>4, <1>5, <1>6, <2>1
    <3>2. \A i \in 1 .. Len(h) : h[i] <= now
      BY <1>1, <1>2, <1>9
    <3>3. Len(h) <= Len(trace'[t])
      BY <1>2, <1>6, <1>7, <1>9
    <3> QED
      BY <1>1, <1>9, <3>1, <3>2, <3>3 DEF HistoryInv
  <2>3. FlappingInv(t)'
    BY <1>5, <2>1 DEF FlappingInv
  <2>4. StatusInv(t)'
    BY <1>5, <1>6, <2>1 DEF TargetInv, StatusInv, s
  <2>5. RateInv(t)'
    <3>1. ASSUME NEW x \in recent[t]
          PROVE  \/ x < now - FlapWindow
                 \/ \E k \in 1 .. Len(h) : h[k] = x
      <4>1. \/ x < s.lastProbeAt - FlapWindow
            \/ \E k \in 1 .. Len(h) : h[k] = x
        BY DEF TargetInv, RateInv, s, h
      <4> QED
        BY <1>1, <1>2, <1>7, <4>1
    <3>2. /\ IsFiniteSet(recent[t])
          /\ Cardinality(recent[t]) <= FlapThreshold
          /\ reported[t] # "FLAPPING" => Cardinality(recent[t]) < FlapThreshold
      BY DEF TargetInv, RateInv
    <3>3. /\ Entry(t).lastProbeAt' = now /\ history'[t] = h
          /\ recent'[t] = recent[t] /\ reported'[t] = reported[t]
      BY <1>3, <1>5, <1>6, <2>1
    <3> QED
      BY <3>1, <3>2, <3>3 DEF RateInv
  <2> QED
    BY <1>8, <2>2, <2>3, <2>4, <2>5 DEF TargetInv
<1>11. CASE RecordedOutcome(t, s, h, r, target, p)
  <2>1. /\ s.status \notin {"MAINTENANCE", "SILENT"}
        /\ p.history = Trim(Record(h, now), now)
        /\ p.state.flapCount = Len(p.history)
        /\ p.events = EventFor(t, s.status, p.state.status, now)
        /\ \/ Len(p.history) >= FlapThreshold /\ p.state.status = "FLAPPING"
           \/ Len(p.history) < FlapThreshold /\ p.state.status # "FLAPPING"
    <3>1. Counted(s, r) \in TargetState /\ Counted(s, r).status = s.status
      BY <1>1, CountedProperties DEF s, r
    <3>2. Derive(Counted(s, r), r, target) # "FLAPPING"
          \/ Derive(Counted(s, r), r, target) = s.status
      <4>1. s.status \in Status
        BY <1>1 DEF TargetState, s
      <4> QED
        BY <3>1, <4>1, DeriveProperties DEF Status
    <3> QED
      BY <1>1, <1>11, <3>2 DEF RecordedOutcome, r
  <2>2. /\ Len(p.history) \in 1 .. Len(h) + 1
        /\ Increasing(p.history)
        /\ \A k \in 1 .. Len(p.history) :
              now - FlapWindow <= p.history[k] /\ p.history[k] <= now
        /\ p.history[Len(p.history)] = now
        /\ \A j \in 1 .. Len(h) : h[j] >= now - FlapWindow =>
              \E k \in 1 .. Len(p.history) : p.history[k] = h[j]
    <3> DEFINE kept == Trim(Record(h, now), now)
    <3>1. /\ Len(kept) \in 1 .. Len(h) + 1
          /\ Increasing(kept)
          /\ \A k \in 1 .. Len(kept) : now - FlapWindow <= kept[k] /\ kept[k] <= now
          /\ kept[Len(kept)] = now
          /\ \A j \in 1 .. Len(h) : h[j] >= now - FlapWindow =>
                \E k \in 1 .. Len(kept) : kept[k] = h[j]
      <4>1. h \in Seq(Nat) /\ now \in Nat /\ Increasing(h)
            /\ \A j \in 1 .. Len(h) : h[j] < now
        BY <1>1, <1>9
      <4> QED
        BY <4>1, KeptProperties
    <3> HIDE DEF kept
    <3>2. p.history = kept
      BY <2>1 DEF kept
    <3> QED
      BY <3>1, <3>2
  <2>3. \A k \in 1 .. Len(p.history) : p.history[k] \in Nat
    BY <1>3, ElementOfSeq
  <2>4. HistoryInv(t)'
    <3>1. \A i, j \in 1 .. Len(p.history) :
             i < j => p.history[j] - p.history[i] <= FlapWindow
      <4> TAKE i, j \in 1 .. Len(p.history)
      <4>1. p.history[i] \in Nat /\ p.history[j] \in Nat
            /\ now - FlapWindow <= p.history[i] /\ p.history[j] <= now
        BY <2>2, <2>3
      <4> QED
        BY <1>1, <4>1
    <3>2. Len(p.history) <= Len(trace[t]) + 1
      BY <1>2, <1>7, <1>9, <2>2
    <3>3. \A k \in 1 .. Len(p.history) : p.history[k] <= now
      BY <2>2
    <3>4. /\ history'[t] = p.history /\ Entry(t).lastProbeAt' = now /\ now' = now
          /\ Len(trace'[t]) = Len(trace[t]) + 1
      BY <1>3, <1>4, <1>5, <1>6
    <3> HIDE DEF p
    <3> QED
      BY <1>1, <2>2, <3>1, <3>2, <3>3, <3>4 DEF HistoryInv
  <2>5. FlappingInv(t)'
    BY <1>1, <1>3, <1>5, <1>6, <2>1, <2>2, <2>3 DEF FlappingInv
  <2>6. ~ muted[t] /\ reported[t] = s.status
    BY <2>1 DEF TargetInv, StatusInv, s
  <2>7. p.events = {} <=> p.state.status = s.status
    BY <2>1 DEF EventFor
  <2>8. StatusInv(t)'
    BY <1>5, <1>6, <2>6, <2>7 DEF StatusInv
  <2>9. ASSUME NEW x \in recent[t], x >= now - FlapWindow
        PROVE  \E k \in 1 .. Len(p.history) : p.history[k] = x
    <3>1. \/ x < s.lastProbeAt - FlapWindow
          \/ \E k \in 1 .. Len(h) : h[k] = x
      BY DEF TargetInv, RateInv, s, h
    <3>2. \E k \in 1 .. Len(h) : h[k] = x
      BY SMTT(30), <1>1, <1>2, <1>7, <2>9, <3>1
    <3> QED
      BY <2>2, <2>9, <3>2
  <2>10. /\ IsFiniteSet(recent[t])
         /\ Cardinality(recent[t]) \in Nat
         /\ Cardinality(recent[t]) <= FlapThreshold
         /\ reported[t] # "FLAPPING" => Cardinality(recent[t]) < FlapThreshold
    BY FS_CardinalityType DEF TargetInv, RateInv
  <2>11. RateInv(t)'
    <3>1. CASE p.events = {}
      <4>1. \A x \in recent[t] : \/ x < now - FlapWindow
                                 \/ \E k \in 1 .. Len(p.history) : p.history[k] = x
        BY <1>1, <1>7, <2>9
      <4> QED
        BY <1>3, <1>5, <1>6, <2>10, <3>1, <4>1 DEF RateInv
    <3>2. CASE p.events # {}
      <4> DEFINE Q == {x \in recent[t] : x >= now - FlapWindow}
      <4>1. \A x \in Q \union {now} :
               \E k \in 1 .. Len(p.history) : p.history[k] = x
        BY <2>2, <2>9
      <4>2. /\ IsFiniteSet(Q \union {now})
            /\ Cardinality(Q \union {now}) \in Nat
            /\ Cardinality(Q \union {now}) <= Len(p.history)
        <5> HIDE DEF Q
        <5> QED
          BY <1>3, <4>1, OccurrencesBounded, FS_CardinalityType
      <4>3. /\ IsFiniteSet(Q)
            /\ Cardinality(Q) \in Nat
            /\ Cardinality(Q) <= Cardinality(recent[t])
        BY <2>10, FS_Subset, FS_CardinalityType
      <4>4. Cardinality(Q \union {now}) <= Cardinality(Q) + 1
        <5> HIDE DEF Q
        <5>1. IsFiniteSet(Q)
          BY <4>3
        <5>2. Cardinality(Q \union {now}) =
                IF now \in Q THEN Cardinality(Q) ELSE Cardinality(Q) + 1
          BY <5>1, FS_AddElement
        <5> QED
          BY <4>3, <5>2
      <4>5. recent'[t] = Q \union {now} /\ reported'[t] = p.state.status
        BY <1>6, <3>2
      <4>6. /\ Cardinality(Q \union {now}) <= FlapThreshold
            /\ p.state.status # "FLAPPING" =>
                  Cardinality(Q \union {now}) < FlapThreshold
        <5>1. CASE p.state.status = "FLAPPING"
          <6>1. Cardinality(recent[t]) < FlapThreshold
            BY <2>6, <2>7, <2>10, <3>2, <5>1
          <6> HIDE DEF Q
          <6> QED
            BY <2>10, <4>2, <4>3, <4>4, <5>1, <6>1
        <5>2. CASE p.state.status # "FLAPPING"
          <6>1. Len(p.history) < FlapThreshold /\ Len(p.history) \in Nat
            BY <1>2, <2>1, <2>2, <5>2
          <6> HIDE DEF Q
          <6> QED
            BY <4>2, <6>1
        <5> QED
          BY <5>1, <5>2
      <4> HIDE DEF Q
      <4>7. \A x \in recent'[t] : \E k \in 1 .. Len(history'[t]) : history'[t][k] = x
        BY <1>6, <4>1, <4>5
      <4> QED
        BY <4>2, <4>5, <4>6, <4>7 DEF RateInv
    <3> QED
      BY <3>1, <3>2
  <2> QED
    BY <1>8, <2>4, <2>5, <2>8, <2>11 DEF TargetInv
<1> QED
    BY <1>3, <1>10, <1>11

\* The other calls on a target keep its invariant.
LEMMA SilenceKeepsInv ==
    ASSUME TypeOK, NEW t \in Targets, TargetInv(t), Silence(t)
    PROVE  TargetInv(t)'
<1> DEFINE s == [Entry(t) EXCEPT !.status = "SILENT"]
<1>1. /\ Entry(t) \in TargetState /\ s \in TargetState
      /\ s.status = "SILENT" /\ s.lastProbeAt = Entry(t).lastProbeAt
      /\ s.fails = Entry(t).fails /\ s.succ = Entry(t).succ
    BY EntryType DEF TargetState, Status
<1>2. StoreEntry(t, s)
    BY DEF Silence
<1> HIDE DEF s
<1>3. Entry(t)' = s
    BY <1>1, <1>2, StoreEntryProperties
<1>4. UNCHANGED <<history, now, reported, recent, trace>>
    BY DEF Silence
<1>5. HistoryInv(t)'
    BY <1>1, <1>3, <1>4 DEF TargetInv, HistoryInv
<1>6. FlappingInv(t)' /\ StatusInv(t)'
    BY <1>1, <1>3 DEF FlappingInv, StatusInv
<1>7. TraceInv(t)'
    BY <1>1, <1>3, <1>4 DEF TargetInv, TraceInv
<1>8. RateInv(t)'
    BY <1>1, <1>3, <1>4 DEF TargetInv, RateInv
<1> QED
    BY <1>5, <1>6, <1>7, <1>8 DEF TargetInv

\* Unsilence keeps the invariant of its target: UNKNOWN asks for no evidence.
LEMMA UnsilenceKeepsInv ==
    ASSUME TypeOK, NEW t \in Targets, TargetInv(t), Unsilence(t)
    PROVE  TargetInv(t)'
<1> DEFINE lifted == Entry(t).status = "SILENT"
           s == [Entry(t) EXCEPT !.status = IF lifted THEN "UNKNOWN" ELSE @]
<1>1. /\ Entry(t) \in TargetState /\ s \in TargetState
      /\ s.status = (IF lifted THEN "UNKNOWN" ELSE Entry(t).status)
      /\ s.lastProbeAt = Entry(t).lastProbeAt
      /\ s.fails = Entry(t).fails /\ s.succ = Entry(t).succ
      /\ s.flapCount = Entry(t).flapCount
    BY EntryType DEF TargetState, Status
<1>2. StoreEntry(t, s)
    BY DEF Unsilence
<1> HIDE DEF s
<1>3. Entry(t)' = s
    BY <1>1, <1>2, StoreEntryProperties
<1>4. /\ UNCHANGED <<history, now, trace>>
      /\ muted'[t] = FALSE
      /\ reported'[t] = (IF lifted THEN "UNKNOWN" ELSE reported[t])
      /\ recent'[t] = (IF lifted THEN {} ELSE recent[t])
    BY DEF Unsilence, TypeOK
<1>5. HistoryInv(t)'
    BY <1>1, <1>3, <1>4 DEF TargetInv, HistoryInv
<1>6. FlappingInv(t)'
    BY <1>1, <1>3, <1>4 DEF TargetInv, FlappingInv
<1>7. StatusInv(t)'
    BY <1>1, <1>3, <1>4 DEF TargetInv, StatusInv
<1>8. TraceInv(t)'
    BY <1>1, <1>3, <1>4 DEF TargetInv, TraceInv
<1>9. RateInv(t)'
  <2>1. CASE lifted
    <3>1. recent'[t] = {}
      BY <1>4, <2>1
    <3>2. IsFiniteSet({}) /\ Cardinality({}) = 0
      BY FS_EmptySet
    <3> QED
      BY <3>1, <3>2, ThresholdAssumption DEF RateInv, ThresholdAssumption
  <2>2. CASE ~ lifted
    BY <1>1, <1>3, <1>4, <2>2 DEF TargetInv, RateInv
  <2> QED
    BY <2>1, <2>2
<1> QED
    BY <1>5, <1>6, <1>7, <1>8, <1>9 DEF TargetInv

\* A target without history, events or results satisfies the invariant in
\* getOrCreate's initial state.
Fresh(t) ==
    /\ Entry(t) = NewState
    /\ history[t] = <<>>
    /\ muted[t] = FALSE
    /\ reported[t] = "UNKNOWN"
    /\ recent[t] = {}
    /\ trace[t] = <<>>
    /\ now \in Nat

\* A fresh target satisfies the invariant.
LEMMA FreshInv == \A t : Fresh(t) => TargetInv(t)
<1> SUFFICES ASSUME NEW t, Fresh(t)
             PROVE  TargetInv(t)
    OBVIOUS
<1> USE DEF Fresh
<1>1. Len(history[t]) = 0 /\ Len(trace[t]) = 0
    BY EmptySeq
<1>2. IsFiniteSet(recent[t]) /\ Cardinality(recent[t]) = 0
    BY FS_EmptySet
<1>3. HistoryInv(t)
    BY <1>1 DEF HistoryInv, Increasing, NewState
<1>4. FlappingInv(t) /\ StatusInv(t)
    BY DEF FlappingInv, StatusInv, NewState
<1>5. TraceInv(t)
    BY <1>1 DEF TraceInv, LastAll, NewState
<1>6. RateInv(t)
    BY <1>2, ThresholdAssumption DEF RateInv, ThresholdAssumption
<1> QED
    BY <1>3, <1>4, <1>5, <1>6 DEF TargetInv

\* The same, of the state after a step.
LEMMA FreshInvNext == (\A t : Fresh(t) => TargetInv(t))'
BY FreshInv, PTL

\* Remove leaves a fresh target, which satisfies the invariant.
LEMMA RemoveKeepsInv ==
    ASSUME TypeOK, NEW t \in Targets, Remove(t)
    PROVE  TargetInv(t)'
<1>1. Entry(t)' = NewState
    BY RemoveEntryProperties DEF Remove
<1>2. Fresh(t)'
    BY <1>1 DEF Fresh, Remove, TypeOK
<1> QED
    BY <1>2, FreshInvNext

\* A call on one target leaves every other target alone.
LEMMA OthersKeepInv ==
    ASSUME TypeOK, NEW t \in Targets, NEW u \in Targets, u # t, TargetInv(u),
           \/ \E o \in Outcomes, target \in TargetConfigs : Process(t, o, target)
           \/ Silence(t)
           \/ Unsilence(t)
           \/ Remove(t)
    PROVE  TargetInv(u)'
<1> SUFFICES /\ Entry(u)' = Entry(u) /\ history'[u] = history[u]
             /\ muted'[u] = muted[u] /\ reported'[u] = reported[u]
             /\ recent'[u] = recent[u] /\ trace'[u] = trace[u]
             /\ now' = now
  <2>1. now \in Nat
    BY DEF TypeOK
  <2> QED
    BY <2>1, Frame
<1>1. ASSUME NEW o \in Outcomes, NEW target \in TargetConfigs,
             Process(t, o, target)
      PROVE  /\ Entry(u)' = Entry(u) /\ history'[u] = history[u]
             /\ muted'[u] = muted[u] /\ reported'[u] = reported[u]
             /\ recent'[u] = recent[u] /\ trace'[u] = trace[u]
             /\ now' = now
  <2> DEFINE p == Processed(t, Entry(t), history[t], Result(o), target)
  <2>1. StoreEntry(t, p.state)
    BY <1>1 DEF Process
  <2>2. Entry(u)' = Entry(u)
    <3> HIDE DEF p
    <3> QED
      BY <2>1 DEF StoreEntry, Entry, Known
  <2> QED
    BY <1>1, <2>2 DEF Process, TypeOK
<1>2. ASSUME NEW s, StoreEntry(t, s)
      PROVE  Entry(u)' = Entry(u)
    BY <1>2 DEF StoreEntry, Entry, Known
<1>3. CASE Silence(t)
    BY <1>2, <1>3 DEF Silence, TypeOK
<1>4. CASE Unsilence(t)
    BY <1>2, <1>4 DEF Unsilence, TypeOK
<1>5. CASE Remove(t)
  <2>1. Entry(u)' = Entry(u)
    BY <1>5, RemoveEntryProperties DEF Remove
  <2> QED
    BY <1>5, <2>1 DEF Remove, TypeOK
<1> QED
    BY <1>1, <1>3, <1>4, <1>5

\* The inductive invariant holds.
THEOREM InductiveInvariant == Spec => []IInv
<1>1. Init => IInv
  <2> SUFFICES ASSUME Init
               PROVE  IInv
    OBVIOUS
  <2>1. TypeOK
    BY EmptySeq DEF Init, TypeOK, Status
  <2>2. ASSUME NEW t \in Targets
        PROVE  TargetInv(t)
    <3>1. Entry(t) = NewState
      BY DEF Init, Entry, Known
    <3> QED
      BY <3>1, FreshInv DEF Init, Fresh
  <2> QED
    BY <2>1, <2>2 DEF IInv
<1>2. TypeOK /\ TypeOK' /\ IInv /\ [Next]_vars => IInv'
  <2> SUFFICES ASSUME TypeOK, TypeOK', [Next]_vars,
                      \A t \in Targets : TargetInv(t),
                      NEW u \in Targets
               PROVE  TargetInv(u)'
    BY DEF IInv
  <2>1. ASSUME NEW t \in Targets, NEW o \in Outcomes,
               NEW target \in TargetConfigs, Process(t, o, target)
        PROVE  TargetInv(u)'
    BY <2>1, ProcessKeepsInv, OthersKeepInv
  <2>2. ASSUME NEW t \in Targets, Silence(t)
        PROVE  TargetInv(u)'
    BY <2>2, SilenceKeepsInv, OthersKeepInv
  <2>3. ASSUME NEW t \in Targets, Unsilence(t)
        PROVE  TargetInv(u)'
    BY <2>3, UnsilenceKeepsInv, OthersKeepInv
  <2>4. ASSUME NEW t \in Targets, Remove(t)
        PROVE  TargetInv(u)'
    BY <2>4, RemoveKeepsInv, OthersKeepInv
  <2>5. CASE Tick
    <3>1. now \in Nat /\ now' \in Nat /\ now <= now'
      BY <2>5 DEF TypeOK, Tick
    <3>2. Entry(u)' = Entry(u) /\ history' = history /\ UNCHANGED auxVars
      BY <2>5 DEF Tick, Entry, Known
    <3> QED
      BY <3>1, <3>2, Frame DEF auxVars
  <2>6. CASE UNCHANGED vars
    <3>1. Entry(u)' = Entry(u) /\ UNCHANGED <<history, now, auxVars>>
      BY <2>6 DEF vars, fsmVars, Entry, Known
    <3>2. now \in Nat /\ now' \in Nat /\ now <= now'
      BY <3>1 DEF TypeOK
    <3> QED
      BY <3>1, <3>2, Frame DEF auxVars
  <2> QED
    BY <2>1, <2>2, <2>3, <2>4, <2>5, <2>6 DEF Next
<1>3. Spec => []TypeOK
    BY TypeCorrect
<1> QED
    BY <1>1, <1>2, <1>3, PTL DEF Spec
-----------------------------------------------------------------------------
(* What follows from it.                                                    *)

\* Outside maintenance and silence, the events tell every target's status.
THEOREM ReportedStatusIsCurrent == Spec => []ReportedIsCurrent
<1>1. IInv => ReportedIsCurrent
  <2> SUFFICES ASSUME IInv, NEW t \in DOMAIN states,
                      states[t].status \notin {"MAINTENANCE", "SILENT"}
               PROVE  states[t].status = reported[t]
    BY DEF ReportedIsCurrent
  <2>1. t \in Targets /\ Entry(t) = states[t]
    BY DEF IInv, TypeOK, Entry, Known
  <2> QED
    BY <2>1 DEF IInv, TargetInv, StatusInv
<1> QED
    BY <1>1, InductiveInvariant, PTL

\* FLAPPING is entered on the evidence of a full flap history, and kept only
\* while every later result finds it full.
THEOREM FlappingIsJustified == Spec => []FlappingHasEvidence
<1>1. IInv => FlappingHasEvidence
  <2> SUFFICES ASSUME IInv, NEW t \in DOMAIN states,
                      states[t].status = "FLAPPING"
               PROVE  /\ states[t].flapCount = Len(history[t])
                      /\ Len(history[t]) >= FlapThreshold
                      /\ Len(history[t]) <= Len(trace[t])
                      /\ \A i \in DOMAIN history[t] :
                            history[t][i] \in
                                states[t].lastProbeAt - FlapWindow .. now
    BY DEF FlappingHasEvidence
  <2>1. t \in Targets /\ Entry(t) = states[t] /\ TypeOK
    BY DEF IInv, TypeOK, Entry, Known
  <2>2. /\ history[t] \in Seq(Nat) /\ now \in Nat
        /\ DOMAIN history[t] = 1 .. Len(history[t])
        /\ \A i \in 1 .. Len(history[t]) : history[t][i] \in Nat
    BY <2>1, LenProperties, ElementOfSeq DEF TypeOK
  <2>3. states[t].lastProbeAt \in Nat
    BY <2>1, EntryType DEF TargetState
  <2>4. HistoryInv(t) /\ FlappingInv(t)
    BY <2>1 DEF IInv, TargetInv
  <2>5. /\ states[t].flapCount = Len(history[t])
        /\ Len(history[t]) >= FlapThreshold
        /\ \A i \in 1 .. Len(history[t]) :
              history[t][i] >= states[t].lastProbeAt - FlapWindow
    BY <2>1, <2>4 DEF FlappingInv
  <2>6. /\ \A i \in 1 .. Len(history[t]) : history[t][i] <= states[t].lastProbeAt
        /\ states[t].lastProbeAt <= now
        /\ Len(history[t]) <= Len(trace[t])
    BY <2>1, <2>4 DEF HistoryInv
  <2>7. ASSUME NEW i \in DOMAIN history[t]
        PROVE  history[t][i] \in states[t].lastProbeAt - FlapWindow .. now
    <3>1. i \in 1 .. Len(history[t])
      BY <2>2
    <3>2. /\ history[t][i] \in Nat
          /\ history[t][i] >= states[t].lastProbeAt - FlapWindow
          /\ history[t][i] <= states[t].lastProbeAt
      BY <2>2, <2>5, <2>6, <3>1
    <3>3. FlapWindow \in Nat
      BY ThresholdAssumption DEF ThresholdAssumption
    <3> QED
      BY <2>2, <2>3, <2>6, <3>2, <3>3
  <2> QED
    BY <2>5, <2>6, <2>7
<1> QED
    BY <1>1, InductiveInvariant, PTL

\* The flap history of every target is sorted and spans at most one window.
THEOREM HistorySpansOneWindow == Spec => []HistoryIsOneWindow
<1>1. IInv => HistoryIsOneWindow
  <2> SUFFICES ASSUME IInv, NEW t \in Targets
               PROVE  \A i, j \in DOMAIN history[t] :
                         i < j => /\ history[t][i] < history[t][j]
                                  /\ history[t][j] - history[t][i] <= FlapWindow
    BY DEF HistoryIsOneWindow
  <2>1. DOMAIN history[t] = 1 .. Len(history[t])
    BY LenProperties DEF IInv, TypeOK
  <2> QED
    BY <2>1 DEF IInv, TargetInv, HistoryInv, Increasing
<1> QED
    BY <1>1, InductiveInvariant, PTL

\* No target announces more than FlapThreshold changes in any FlapWindow.
THEOREM EventsAreRateLimited == Spec => []EventRateBounded
<1>1. IInv => EventRateBounded
    BY DEF IInv, TargetInv, RateInv, EventRateBounded
<1> QED
    BY <1>1, InductiveInvariant, PTL

\* What a result announces, in terms of the state it is processed in.
LEMMA ProcessAnnounces ==
    ASSUME IInv, NEW t \in Targets, NEW o \in Outcomes,
           NEW target \in TargetConfigs, Process(t, o, target),
           NEW e \in emitted'
    PROVE  /\ e.id = t
           /\ e.from = Entry(t).status
           /\ Entry(t).status \notin {"MAINTENANCE", "SILENT"}
           /\ e.to = Entry(t).status' /\ e.to # e.from
           /\ \/ e.to = "FLAPPING"
              \/ e.to = Derive(Counted(Entry(t), Result(o)), Result(o), target)
<1> DEFINE s == Entry(t)
           r == Result(o)
           p == Processed(t, s, history[t], r, target)
<1>1. /\ s \in TargetState /\ history[t] \in Seq(Nat) /\ r \in ProbeResult
      /\ TypeOK
    BY EntryType, ResultType DEF IInv, TypeOK
<1>2. /\ p.state \in TargetState
      /\ \/ QuietOutcome(s, history[t], p)
         \/ RecordedOutcome(t, s, history[t], r, target, p)
    BY <1>1, ProcessedProperties
<1>3. emitted' = p.events /\ StoreEntry(t, p.state)
    BY DEF Process
<1> HIDE DEF p
<1>4. Entry(t)' = p.state
    BY <1>1, <1>2, <1>3, StoreEntryProperties
<1>5. RecordedOutcome(t, s, history[t], r, target, p)
    BY <1>2, <1>3 DEF QuietOutcome
<1>6. /\ s.status \notin {"MAINTENANCE", "SILENT"}
      /\ e \in EventFor(t, s.status, p.state.status, r.ts)
      /\ \/ p.state.status = "FLAPPING"
         \/ p.state.status = Derive(Counted(s, r), r, target)
    BY <1>3, <1>5 DEF RecordedOutcome
<1>7. /\ e = [id |-> t, from |-> s.status, to |-> p.state.status, ts |-> r.ts]
      /\ p.state.status # s.status
    BY <1>6 DEF EventFor
<1>8. e.id = t /\ e.from = s.status /\ e.to = p.state.status
    BY <1>7
<1> QED
    BY <1>4, <1>6, <1>7, <1>8

\* While a target is silenced, no result makes Process return an event for it.
THEOREM MutedTargetsAreQuiet == Spec => NoEventWhileMuted
<1>1. IInv /\ [Next]_vars => [\A e \in emitted' : ~ muted[e.id]]_vars
  <2> SUFFICES ASSUME IInv, Next, NEW e \in emitted'
               PROVE  ~ muted[e.id]
    OBVIOUS
  <2>1. PICK t \in Targets, o \in Outcomes, target \in TargetConfigs :
           Process(t, o, target)
    BY DEF Next, Tick, Silence, Unsilence, Remove
  <2>2. e.id = t /\ Entry(t).status \notin {"MAINTENANCE", "SILENT"}
    BY <2>1, ProcessAnnounces
  <2> QED
    BY <2>2 DEF IInv, TargetInv, StatusInv
<1> QED
    BY <1>1, InductiveInvariant, PTL DEF Spec, NoEventWhileMuted

\* An outage and its end are announced only after as many consecutive failures,
\* or successes, as the target's thresholds ask for.
THEOREM OutagesAreJustified == Spec => OutageHasEvidence
<1> DEFINE Justified(t, o, target) ==
             Process(t, o, target) =>
               \A e \in emitted' :
                 /\ (e.to = "DOWN" /\ e.from \in {"UP", "DEGRADED"}) =>
                        LastAll(trace'[t], DownTh(target), FALSE)
                 /\ (e.to = "UP" /\ e.from \in {"DOWN", "FLAPPING"}) =>
                        LastAll(trace'[t], RecoveryTh(target), TRUE)
<1>1. ASSUME IInv, IInv', NEW t \in Targets, NEW o \in Outcomes,
             NEW target \in TargetConfigs, Process(t, o, target),
             NEW e \in emitted'
      PROVE  /\ (e.to = "DOWN" /\ e.from \in {"UP", "DEGRADED"}) =>
                    LastAll(trace'[t], DownTh(target), FALSE)
             /\ (e.to = "UP" /\ e.from \in {"DOWN", "FLAPPING"}) =>
                    LastAll(trace'[t], RecoveryTh(target), TRUE)
  <2> DEFINE s == Entry(t)
             r == Result(o)
             c == Counted(s, r)
             p == Processed(t, s, history[t], r, target)
  <2>1. /\ s \in TargetState /\ history[t] \in Seq(Nat) /\ r \in ProbeResult
        /\ TypeOK /\ trace[t] \in Seq(BOOLEAN)
    BY <1>1, EntryType, ResultType DEF IInv, TypeOK
  <2>2. /\ e.from = s.status
        /\ e.to = "FLAPPING" \/ e.to = Derive(c, r, target)
    BY <1>1, ProcessAnnounces
  <2>3. /\ c \in TargetState /\ c.status = s.status
        /\ c.fails = (IF r.success THEN 0 ELSE s.fails + 1)
        /\ c.succ = (IF r.success THEN s.succ + 1 ELSE 0)
    BY <2>1, CountedProperties
  <2>4. /\ p.state \in TargetState /\ p.state.fails = c.fails
        /\ p.state.succ = c.succ
    BY <2>1, <2>3, ProcessedProperties
  <2>5. StoreEntry(t, p.state)
    BY <1>1 DEF Process
  <2> HIDE DEF p
  <2>6. Entry(t)' = p.state
    BY <2>1, <2>4, <2>5, StoreEntryProperties
  <2> HIDE DEF c
  <2>7. /\ LastAll(trace'[t], c.fails, FALSE) /\ LastAll(trace'[t], c.succ, TRUE)
        /\ c.fails \in Nat /\ c.succ \in Nat /\ trace'[t] \in Seq(BOOLEAN)
    BY <1>1, <2>3, <2>4, <2>6 DEF IInv, TargetInv, TraceInv, TargetState, TypeOK
  <2>8. DownTh(target) \in Nat /\ RecoveryTh(target) \in Nat
    BY InputAssumption, ThresholdAssumption
       DEF InputAssumption, ThresholdAssumption, DownTh, RecoveryTh, Override,
           Target
  <2>9. CASE e.to = "DOWN" /\ e.from \in {"UP", "DEGRADED"}
    <3>1. c.fails >= DownTh(target)
      BY <2>2, <2>3, <2>9, DeriveProperties
    <3>2. DownTh(target) \in 0 .. c.fails
      BY <2>7, <2>8, <3>1
    <3> QED
      BY <2>7, <2>9, <3>2, LastAllAppend
  <2>10. CASE e.to = "UP" /\ e.from \in {"DOWN", "FLAPPING"}
    <3>1. c.succ >= RecoveryTh(target)
      BY <2>2, <2>3, <2>10, DeriveProperties
    <3>2. RecoveryTh(target) \in 0 .. c.succ
      BY <2>7, <2>8, <3>1
    <3> QED
      BY <2>7, <2>10, <3>2, LastAllAppend
  <2> QED
    BY <2>9, <2>10
<1>2. IInv /\ IInv' /\ [Next]_vars =>
        [\A t \in Targets, o \in Outcomes, target \in TargetConfigs :
             Justified(t, o, target)]_vars
    BY <1>1
<1> QED
    BY <1>2, InductiveInvariant, PTL DEF Spec, OutageHasEvidence
-----------------------------------------------------------------------------
(* The status machine implements the abstract life cycle.                   *)

Shown == [t \in Targets |-> IF Known(t) THEN states[t].status ELSE "ABSENT"]
Feed == {[id |-> e.id, from |-> e.from, to |-> e.to] : e \in emitted}

\* What a call that stores entry s for t changes in what is shown.
LEMMA ShownAfterStore ==
    ASSUME TypeOK, NEW t \in Targets, NEW s \in TargetState, StoreEntry(t, s)
    PROVE  Shown' = [Shown EXCEPT ![t] = s.status]
<1>1. DOMAIN states' = DOMAIN states \union {t}
    BY StoreEntryProperties
<1>2. states'[t] = s /\ \A u \in DOMAIN states : u # t => states'[u] = states[u]
    BY DEF StoreEntry
<1>3. ASSUME NEW u \in Targets
      PROVE  Shown'[u] = IF u = t THEN s.status ELSE Shown[u]
    BY <1>1, <1>2 DEF Shown, Known
<1>4. Shown \in [Targets -> {Shown[u] : u \in Targets}]
    BY DEF Shown
<1>5. Shown' = [u \in Targets |-> Shown'[u]]
    BY DEF Shown
<1> QED
  <2>1. [Shown EXCEPT ![t] = s.status] =
          [u \in Targets |-> IF u = t THEN s.status ELSE Shown[u]]
    BY <1>4
  <2> QED
    BY <1>3, <1>5, <2>1

\* What is shown of a target, in terms of its entry.
LEMMA ShownIsStatus ==
    ASSUME TypeOK, NEW t \in Targets
    PROVE  /\ Shown[t] \in Status \union {"ABSENT"}
           /\ Shown[t] = "ABSENT" => Entry(t).status = "UNKNOWN"
           /\ Shown[t] # "ABSENT" => Entry(t).status = Shown[t]
BY DEF Shown, Entry, Known, TypeOK, TargetState, NewState, Status

\* Processing a result is announcing a change, entering a maintenance window,
\* or changing nothing that is shown.
LEMMA ProcessImplements ==
    ASSUME IInv, NEW t \in Targets, NEW o \in Outcomes,
           NEW target \in TargetConfigs, Process(t, o, target)
    PROVE  \/ \E to \in Lifecycle!Announced[Shown[t]] : Lifecycle!Announce(t, to)
           \/ Lifecycle!Maintain(t)
           \/ Lifecycle!Observe(t)
<1> DEFINE s == Entry(t)
           r == Result(o)
           p == Processed(t, s, history[t], r, target)
           d == Derive(Counted(s, r), r, target)
<1>1. /\ s \in TargetState /\ history[t] \in Seq(Nat) /\ r \in ProbeResult
      /\ r.ts = now /\ TypeOK
    BY EntryType, ResultType DEF IInv, TypeOK
<1>2. /\ p.state \in TargetState
      /\ \/ QuietOutcome(s, history[t], p)
         \/ RecordedOutcome(t, s, history[t], r, target, p)
    BY <1>1, ProcessedProperties
<1>3. emitted' = p.events /\ StoreEntry(t, p.state) /\ muted' = muted
    BY DEF Process
<1>4. Counted(s, r) \in TargetState /\ Counted(s, r).status = s.status
    BY <1>1, CountedProperties
<1>5. /\ s.status = "UNKNOWN" => d \in {"UNKNOWN", "UP"}
      /\ s.status \in {"UP", "DEGRADED"} => d \in {"UP", "DEGRADED", "DOWN"}
      /\ s.status \in {"DOWN", "FLAPPING"} => d \in {"UP", "DOWN"}
    BY <1>4, DeriveProperties
<1> HIDE DEF p, d
<1>6. Shown' = [Shown EXCEPT ![t] = p.state.status]
    BY <1>1, <1>2, <1>3, ShownAfterStore
<1>7. /\ Shown[t] \in Status \union {"ABSENT"}
      /\ Shown[t] = "ABSENT" => s.status = "UNKNOWN"
      /\ Shown[t] # "ABSENT" => s.status = Shown[t]
    BY <1>1, ShownIsStatus
<1>8. s.status \in Status /\ p.state.status \in Status
    BY <1>1, <1>2 DEF TargetState
<1> HIDE DEF s, r
<1>9. CASE p.events = {}
  <2>1. p.state.status \in {s.status, "MAINTENANCE"}
    BY <1>2, <1>9 DEF QuietOutcome, RecordedOutcome, EventFor
  <2>2. Feed' = {}
    BY <1>3, <1>9 DEF Feed
  <2>3. CASE p.state.status = "MAINTENANCE"
    BY <1>3, <1>6, <2>2, <2>3 DEF Lifecycle!Maintain, Shown, Feed
  <2>4. CASE p.state.status = s.status
    <3>1. s.status = IF Shown[t] = "ABSENT" THEN "UNKNOWN" ELSE Shown[t]
      BY <1>7
    <3>2. Shown' = [Shown EXCEPT ![t] =
                      IF Shown[t] = "ABSENT" THEN "UNKNOWN" ELSE Shown[t]]
      BY <1>6, <2>4, <3>1
    <3> QED
      BY <1>3, <2>2, <3>2 DEF Lifecycle!Observe, Shown, Feed
  <2> QED
    BY <2>1, <2>3, <2>4
<1>10. CASE p.events # {}
  <2>1. RecordedOutcome(t, s, history[t], r, target, p)
    BY <1>2, <1>10 DEF QuietOutcome
  <2>2. /\ s.status \notin {"MAINTENANCE", "SILENT"}
        /\ p.events = EventFor(t, s.status, p.state.status, now)
        /\ p.state.status = "FLAPPING" \/ p.state.status = d
    BY <1>1, <2>1 DEF RecordedOutcome, d, r
  <2> DEFINE e == [id |-> t, from |-> s.status, to |-> p.state.status, ts |-> now]
             to == p.state.status
  <2>3. p.events = {e} /\ to # s.status
    BY <1>10, <2>2 DEF EventFor
  <2>4. ~ muted[t]
    BY <2>2 DEF IInv, TargetInv, StatusInv, s
  <2>5. s.status = IF Shown[t] = "ABSENT" THEN "UNKNOWN" ELSE Shown[t]
    BY <1>7
  <2>6. Feed' = {[id |-> t, from |-> s.status, to |-> to]}
    BY <1>3, <2>3 DEF Feed
  <2>7. to \in Lifecycle!Announced[Shown[t]]
    <3>1. \/ s.status = "UNKNOWN" /\ to \in {"UP", "FLAPPING"}
          \/ s.status = "UP" /\ to \in {"DEGRADED", "DOWN", "FLAPPING"}
          \/ s.status = "DEGRADED" /\ to \in {"UP", "DOWN", "FLAPPING"}
          \/ s.status = "DOWN" /\ to \in {"UP", "FLAPPING"}
          \/ s.status = "FLAPPING" /\ to \in {"UP", "DOWN"}
      BY <1>5, <1>8, <2>2, <2>3 DEF Status
    <3> HIDE DEF to
    <3> QED
      BY <1>7, <3>1 DEF Lifecycle!Announced
  <2> HIDE DEF to, e
  <2>8. PICK x : x = to
    OBVIOUS
  <2>9. Lifecycle!Announce(t, x)
    BY <1>3, <1>6, <2>4, <2>5, <2>6, <2>7, <2>8
       DEF Lifecycle!Announce, Shown, Feed, to
  <2> QED
    BY <2>7, <2>8, <2>9
<1> QED
    BY <1>9, <1>10

\* Every behaviour of the status machine is a behaviour of the life cycle.
THEOREM LifecycleImplemented == Spec => ImplementsLifecycle
<1>1. Init => Lifecycle!Init
    BY DEF Init, Lifecycle!Init, Known
<1>2. IInv /\ [Next]_vars => [Lifecycle!Next]_(Lifecycle!lifecycleVars)
  <2> SUFFICES ASSUME IInv, [Next]_vars
               PROVE  \/ Lifecycle!Next
                      \/ UNCHANGED <<Shown, muted, Feed>>
    BY DEF Lifecycle!lifecycleVars, Shown, Feed
  <2>0. TypeOK
    BY DEF IInv
  <2>1. ASSUME NEW t \in Targets, NEW o \in Outcomes,
               NEW target \in TargetConfigs, Process(t, o, target)
        PROVE  Lifecycle!Next
    BY <2>1, ProcessImplements DEF Lifecycle!Next, Shown
  <2>2. ASSUME NEW t \in Targets, Silence(t)
        PROVE  Lifecycle!Mute(t)
    <3> DEFINE s == [Entry(t) EXCEPT !.status = "SILENT"]
    <3>1. s \in TargetState /\ s.status = "SILENT"
      BY <2>0, EntryType DEF TargetState, Status
    <3>2. StoreEntry(t, s) /\ emitted' = {} /\ muted' = [muted EXCEPT ![t] = TRUE]
      BY <2>2 DEF Silence
    <3> HIDE DEF s
    <3>3. Shown' = [Shown EXCEPT ![t] = "SILENT"]
      BY <2>0, <3>1, <3>2, ShownAfterStore
    <3> QED
      BY <3>2, <3>3 DEF Lifecycle!Mute, Shown
  <2>3. ASSUME NEW t \in Targets, Unsilence(t)
        PROVE  Lifecycle!Unmute(t)
    <3> DEFINE s == [Entry(t) EXCEPT !.status =
                       IF Entry(t).status = "SILENT" THEN "UNKNOWN" ELSE @]
    <3>1. s \in TargetState
          /\ s.status = IF Entry(t).status = "SILENT" THEN "UNKNOWN"
                        ELSE Entry(t).status
      BY <2>0, EntryType DEF TargetState, Status
    <3>2. StoreEntry(t, s) /\ emitted' = {} /\ muted' = [muted EXCEPT ![t] = FALSE]
      BY <2>3 DEF Unsilence
    <3> HIDE DEF s
    <3>3. Shown' = [Shown EXCEPT ![t] = s.status]
      BY <2>0, <3>1, <3>2, ShownAfterStore
    <3>4. s.status = IF Shown[t] \in {"ABSENT", "SILENT"} THEN "UNKNOWN"
                     ELSE Shown[t]
      BY <2>0, <3>1, ShownIsStatus
    <3>5. Shown' = [Shown EXCEPT ![t] =
                      IF Shown[t] \in {"ABSENT", "SILENT"} THEN "UNKNOWN"
                      ELSE Shown[t]]
      BY <3>3, <3>4
    <3> QED
      BY <3>2, <3>5 DEF Lifecycle!Unmute, Shown
  <2>4. ASSUME NEW t \in Targets, Remove(t)
        PROVE  Lifecycle!Forget(t)
    <3>1. /\ states' = [u \in DOMAIN states \ {t} |-> states[u]]
          /\ emitted' = {} /\ muted' = [muted EXCEPT ![t] = FALSE]
      BY <2>4 DEF Remove
    <3>2. Shown' = [Shown EXCEPT ![t] = "ABSENT"]
      BY <3>1 DEF Shown, Known
    <3> QED
      BY <3>1, <3>2 DEF Lifecycle!Forget, Shown
  <2>5. CASE Tick
    BY <2>5 DEF Tick, auxVars, Lifecycle!Next, Lifecycle!Quiet, Known
  <2>6. CASE UNCHANGED vars
    BY <2>6 DEF vars, fsmVars, auxVars, Shown, Feed, Known
  <2> QED
    BY <2>1, <2>2, <2>3, <2>4, <2>5, <2>6 DEF Next, Lifecycle!Next
<1> QED
    BY <1>1, <1>2, InductiveInvariant, PTL DEF Spec, ImplementsLifecycle, Lifecycle!Spec
=============================================================================
