---------------------------- MODULE ConMon_proofs ----------------------------
(***************************************************************************)
(* Theorems about ConMon, for any targets, monitors, bodies of requests,   *)
(* results and thresholds: what the event log, the listeners and the API   *)
(* tell of a target agrees, whatever requests and restarts come between.   *)
(***************************************************************************)
EXTENDS ConMon, StatusRules_proofs

-----------------------------------------------------------------------------
(* The inductive invariant, target by target.                               *)

\* The last row of a target's log.
LastRow(t) == rows[t][Len(rows[t])]

\* The row that t's handler holds.
Holds(t) == handler[t].phase \in {"changed", "saved"}

\* The handler holds a row that is not yet in the log and that belongs to the
\* life t has now.
Pending(t) == handler[t].phase = "changed" /\ handler[t].row.life = life[t]

\* A state has a target or a known cause, and so has a state that a handler is
\* about to create.
GhostInv(t) ==
    t \in DOMAIN states \/ handler[t].phase = "read"
        => Stored(t) \/ t \in deletes \/ t \in orphaned

\* The status probing has reached was announced, or is about to be.
PushInv(t) ==
    t \in DOMAIN states /\ states[t].status \notin {"UNKNOWN", "MAINTENANCE", "SILENT"}
        => IF Holds(t) THEN handler[t].row.event.to = states[t].status
           ELSE \E row \in pushed[t] : row.event.to = states[t].status

\* Results come in order: the log ends before the result that is being handled.
ClockInv(t) ==
    /\ rows[t] # <<>> => LastRow(t).event.ts <= clock
    /\ handler[t].phase = "read" =>
          /\ handler[t].result.ts <= clock
          /\ rows[t] # <<>> => LastRow(t).event.ts < handler[t].result.ts
    /\ Holds(t) => handler[t].row.event.ts <= clock
    /\ handler[t].phase = "changed" /\ rows[t] # <<>> =>
          LastRow(t).event.ts < handler[t].row.event.ts

\* No event is of a life that is yet to come, and none is saved after one of a
\* later life.  One event at most is the last that was announced.
LifeInv(t) ==
    /\ rows[t] # <<>> => LastRow(t).life <= life[t]
    /\ Holds(t) => handler[t].row.life <= life[t]
    /\ handler[t].phase = "changed" /\ rows[t] # <<>> =>
          LastRow(t).life <= handler[t].row.life
    /\ \A row \in pushed[t] : row.life <= life[t] /\ pushed[t] = {row}

\* The log tells the status of t, but for a maintenance, which is not an event,
\* and for an event that is not yet in it; that one continues the log.
ChainInv(t) ==
    /\ ~Pending(t) /\ rows[t] # <<>> /\ LastRow(t).life = life[t] =>
          Entry(t).status \in {LastRow(t).event.to, "MAINTENANCE"}
    /\ Pending(t) => Entry(t).status = handler[t].row.event.to
    /\ handler[t].phase = "changed" /\ rows[t] # <<>>
            /\ LastRow(t).life = handler[t].row.life =>
          handler[t].row.event.from = LastRow(t).event.to

\* The log and the listeners agree on the life t has now.  Between SaveEvent and
\* the announcement the log is ahead by the row that the handler holds.
LogInv(t) ==
    LET inLog == rows[t] # <<>> /\ LastRow(t).life = life[t]
        told  == \E row \in pushed[t] : row.life = life[t]
    IN  t \notin deletes =>
          \/ /\ inLog <=> told
             /\ inLog => pushed[t] = {LastRow(t)}
             /\ handler[t].phase = "saved" => ~inLog /\ handler[t].row.life < life[t]
          \/ /\ handler[t].phase = "saved" /\ handler[t].row.life = life[t]
             /\ inLog /\ LastRow(t) = handler[t].row

\* The rows of t follow one another.
LogChains(t) ==
    \A i \in 1 .. Len(rows[t]) - 1 :
        /\ rows[t][i].life <= rows[t][i + 1].life
        /\ rows[t][i].life = rows[t][i + 1].life =>
              /\ rows[t][i + 1].event.from = rows[t][i].event.to
              /\ rows[t][i + 1].event.ts > rows[t][i].event.ts

TargetInv(t) ==
    /\ GhostInv(t) /\ PushInv(t) /\ ClockInv(t) /\ LifeInv(t)
    /\ ChainInv(t) /\ LogInv(t) /\ LogChains(t)

IInv == TypeOK /\ \A t \in Targets : TargetInv(t)

-----------------------------------------------------------------------------
(* Operators of ConMon.                                                     *)

\* What the body of a PUT leaves of a target.
LEMMA OverlayType ==
    ASSUME NEW body \in Changes, NEW target \in Target
    PROVE  Overlay(body, target) \in Target
<1> DEFINE o == Overlay(body, target)
<1>1. DOMAIN target = {"downThreshold", "recoveryThreshold", "latencyWarnMs",
                       "packetLossWarnPct", "maintenance"}
  BY DEF Target
<1>2. DOMAIN body \subseteq DOMAIN target
  BY <1>1, ServerAssumption DEF ServerAssumption
<1>3. DOMAIN o = DOMAIN target
  BY <1>2 DEF Overlay
<1>4. \A x \in DOMAIN target : o[x] = IF x \in DOMAIN body THEN body[x] ELSE target[x]
  BY DEF Overlay
<1>5. /\ o.downThreshold \in Nat /\ o.recoveryThreshold \in Nat
      /\ o.latencyWarnMs \in Nat /\ o.packetLossWarnPct \in Nat
      /\ o.maintenance \in [start : Nat, end : Nat]
  BY <1>1, <1>3, <1>4, ServerAssumption DEF ServerAssumption, Target
<1>6. o = [downThreshold |-> o.downThreshold,
           recoveryThreshold |-> o.recoveryThreshold,
           latencyWarnMs |-> o.latencyWarnMs,
           packetLossWarnPct |-> o.packetLossWarnPct,
           maintenance |-> o.maintenance]
  BY <1>1, <1>3 DEF Overlay
<1> HIDE DEF o
<1> QED
  BY <1>5, <1>6 DEF Target, o

\* Writing and dropping an entry of a partial function over the targets.
LEMMA PutProperties ==
    ASSUME NEW S, NEW f, f \in [DOMAIN f -> S], DOMAIN f \subseteq Targets,
           NEW t \in Targets, NEW v \in S
    PROVE  /\ DOMAIN Put(f, t, v) = DOMAIN f \union {t}
           /\ DOMAIN Put(f, t, v) \subseteq Targets
           /\ Put(f, t, v) \in [DOMAIN Put(f, t, v) -> S]
           /\ Put(f, t, v)[t] = v
           /\ \A u \in DOMAIN f \ {t} : Put(f, t, v)[u] = f[u]
BY DEF Put

LEMMA WithoutProperties ==
    ASSUME NEW S, NEW f, f \in [DOMAIN f -> S], DOMAIN f \subseteq Targets,
           NEW t \in Targets
    PROVE  /\ DOMAIN Without(f, {t}) = DOMAIN f \ {t}
           /\ DOMAIN Without(f, {t}) \subseteq Targets
           /\ Without(f, {t}) \in [DOMAIN Without(f, {t}) -> S]
           /\ \A u \in DOMAIN f \ {t} : Without(f, {t})[u] = f[u]
BY DEF Without

LEMMA EmptyProperties ==
    /\ DOMAIN Empty = {}
    /\ \A S : Empty \in [DOMAIN Empty -> S]
BY DEF Empty

LEMMA EntryType ==
    ASSUME TypeOK, NEW t \in Targets
    PROVE  Entry(t) \in TargetState
BY DEF TypeOK, Entry, NewState, TargetState, Status

\* A handler in each of its phases, and what it may become.
LEMMA HandlerTypes ==
    ASSUME TypeOK, NEW t \in Targets
    PROVE  LET h == handler[t]
           IN  /\ h.phase \in {"idle", "read", "changed", "saved"}
               /\ h.phase = "idle" <=> h = Idle
               /\ h.phase = "read" => h.target \in Target /\ h.result \in ProbeResult
               /\ h.phase \in {"changed", "saved"} =>
                     /\ h.row \in Row /\ h.row.event.id = t
                     /\ [h EXCEPT !.phase = "saved"] \in HandlerState
                     /\ [h EXCEPT !.phase = "saved"].phase = "saved"
                     /\ [h EXCEPT !.phase = "saved"].row = h.row
<1> DEFINE h == handler[t]
<1>1. h \in HandlerState /\ (h.phase \in {"changed", "saved"} => h.row.event.id = t)
  BY DEF TypeOK
<1> HIDE DEF h
<1>2. CASE h = Idle
  BY <1>2 DEF Idle, h
<1>3. CASE h \in [phase : {"read"}, target : Target, result : ProbeResult]
  BY <1>3 DEF Idle, h
<1>4. CASE h \in [phase : {"changed", "saved"}, row : Row]
  BY <1>1, <1>4 DEF Idle, h, HandlerState
<1> QED
  BY <1>1, <1>2, <1>3, <1>4 DEF HandlerState

\* What one result announces: nothing, and the status is kept or maintenance
\* begins, or the change from the old status to the new.
LEMMA ProcessedEvent ==
    ASSUME NEW id \in Targets, NEW s \in TargetState, NEW h \in Seq(Nat),
           NEW r \in ProbeResult, NEW target
    PROVE  LET p == Processed(id, s, h, r, target)
           IN  \/ p.events = {} /\ p.state.status \in {s.status, "MAINTENANCE"}
               \/ LET e == [id |-> id, from |-> s.status, to |-> p.state.status,
                            ts |-> r.ts]
                  IN  /\ p.events = {e} /\ (CHOOSE x \in p.events : TRUE) = e
                      /\ e \in [id : Targets, from : Status, to : Status, ts : Nat]
                      /\ s.status \notin {"MAINTENANCE", "SILENT"}
<1> DEFINE p == Processed(id, s, h, r, target)
           e == [id |-> id, from |-> s.status, to |-> p.state.status, ts |-> r.ts]
<1>1. /\ p.state \in TargetState
      /\ QuietOutcome(s, h, p) \/ RecordedOutcome(id, s, h, r, target, p)
  BY ProcessedProperties
<1> HIDE DEF p
<1>2. CASE QuietOutcome(s, h, p)
  BY <1>2 DEF QuietOutcome, p
<1>3. CASE RecordedOutcome(id, s, h, r, target, p)
  <2>1. /\ s.status \notin {"MAINTENANCE", "SILENT"}
        /\ p.events = EventFor(id, s.status, p.state.status, r.ts)
    BY <1>3 DEF RecordedOutcome
  <2>2. CASE p.state.status = s.status
    BY <2>1, <2>2 DEF EventFor, p
  <2>3. CASE p.state.status # s.status
    <3>1. p.events = {e}
      BY <2>1, <2>3 DEF EventFor
    <3>2. e \in [id : Targets, from : Status, to : Status, ts : Nat]
      BY <1>1 DEF TargetState, ProbeResult
    <3>3. (CHOOSE x \in p.events : TRUE) = e
      BY <3>1
    <3> QED
      BY <2>1, <3>1, <3>2, <3>3 DEF p
  <2> QED
    BY <2>2, <2>3
<1> QED
  BY <1>1, <1>2, <1>3

-----------------------------------------------------------------------------
(* Types.                                                                   *)

LEMMA TypeInit == Init => TypeOK
<1> SUFFICES ASSUME Init PROVE TypeOK
  OBVIOUS
<1>1. stored \in [DOMAIN stored -> Target] /\ DOMAIN stored \subseteq Targets
  BY ServerAssumption DEF ServerAssumption, Init
<1>2. /\ rows \in [Targets -> Seq(Row)] /\ history \in [Targets -> Seq(Nat)]
      /\ \A t \in Targets : DOMAIN rows[t] = {}
  <2>1. <<>> \in Seq(Row) /\ <<>> \in Seq(Nat) /\ DOMAIN <<>> = {}
    OBVIOUS
  <2> QED
    BY <2>1 DEF Init
<1>3. /\ DOMAIN states = {} /\ states \in [DOMAIN states -> TargetState]
      /\ DOMAIN puts = {} /\ puts \in [DOMAIN puts -> Target]
  BY EmptyProperties DEF Init
<1>4. /\ handler \in [Targets -> HandlerState]
      /\ \A t \in Targets : handler[t].phase = "idle"
  BY DEF Init, Idle, HandlerState
<1>5. probed \subseteq Targets
  BY <1>1 DEF Init
<1> QED
  BY <1>1, <1>2, <1>3, <1>4, <1>5 DEF Init, TypeOK

\* The steps of a handler.
LEMMA TypeHandler ==
    ASSUME TypeOK, NEW t \in Targets,
           (\E o \in Outcomes : Receive(t, o)) \/ Process(t) \/ Save(t) \/ Push(t)
    PROVE  TypeOK'
<1>1. ASSUME NEW o \in Outcomes, Receive(t, o)
      PROVE  TypeOK'
  <2> DEFINE r == [success |-> o.success, latencyMs |-> o.latencyMs, loss |-> o.loss,
                   ts |-> clock + 1]
             h == IF Stored(t) THEN [phase |-> "read", target |-> stored[t], result |-> r]
                  ELSE Idle
  <2>1. r \in ProbeResult /\ clock + 1 \in Nat
    BY ServerAssumption DEF TypeOK, ProbeResult, ServerAssumption
  <2>2. h \in HandlerState /\ h.phase \in {"read", "idle"}
    BY <2>1 DEF TypeOK, Stored, HandlerState, Idle
  <2>3. handler' = [handler EXCEPT ![t] = h] /\ clock' = clock + 1
    BY <1>1 DEF Receive
  <2> HIDE DEF h, r
  <2>4. /\ handler' \in [Targets -> HandlerState]
        /\ \A u \in Targets : handler'[u].phase \in {"changed", "saved"} =>
              handler'[u].row.event.id = u
    BY <2>2, <2>3 DEF TypeOK
  <2> QED
    BY <1>1, <2>1, <2>3, <2>4 DEF Receive, TypeOK, dbVars, fsmVars, auxVars
<1>2. ASSUME Process(t)
      PROVE  TypeOK'
  <2> DEFINE h == handler[t]
             p == Processed(t, Entry(t), history[t], h.result, h.target)
             row == [event |-> CHOOSE e \in p.events : TRUE, life |-> life[t]]
             n == IF p.events = {} THEN Idle ELSE [phase |-> "changed", row |-> row]
  <2>1. /\ h.result \in ProbeResult /\ Entry(t) \in TargetState
        /\ history[t] \in Seq(Nat) /\ life[t] \in Nat
    <3>1. history[t] \in Seq(Nat) /\ life[t] \in Nat
      BY DEF TypeOK
    <3>2. h.result \in ProbeResult
      BY <1>2, HandlerTypes DEF Process
    <3> QED
      BY <3>1, <3>2, EntryType
  <2>2. p.state \in TargetState /\ p.history \in Seq(Nat)
    BY <2>1, ProcessedProperties
  <2>3. p.events # {} => row \in Row /\ row.event.id = t
    <3> DEFINE e == CHOOSE x \in p.events : TRUE
    <3>1. p.events # {} =>
             /\ e \in [id : Targets, from : Status, to : Status, ts : Nat]
             /\ e.id = t
      <4>1. \/ p.events = {}
            \/ LET x == [id |-> t, from |-> Entry(t).status, to |-> p.state.status,
                         ts |-> h.result.ts]
               IN  /\ e = x
                   /\ x \in [id : Targets, from : Status, to : Status, ts : Nat]
        BY <2>1, ProcessedEvent
      <4> HIDE DEF e, p, h
      <4> QED
        BY <4>1
    <3> HIDE DEF e, p
    <3>2. p.events # {} => [event |-> e, life |-> life[t]] \in Row
      BY <2>1, <3>1 DEF Row
    <3> QED
      BY <3>1, <3>2 DEF e
  <2>4. /\ states' = Put(states, t, p.state)
        /\ history' = [history EXCEPT ![t] = p.history]
        /\ handler' = [handler EXCEPT ![t] = n]
    BY <1>2 DEF Process
  <2> HIDE DEF p, row
  <2>5. /\ n \in HandlerState
        /\ n.phase \in {"changed", "saved"} => n.row.event.id = t
    BY <2>3 DEF HandlerState, Idle
  <2> HIDE DEF n, h
  <2>6. /\ handler' \in [Targets -> HandlerState]
        /\ \A u \in Targets : handler'[u].phase \in {"changed", "saved"} =>
              handler'[u].row.event.id = u
    BY <2>4, <2>5 DEF TypeOK
  <2>7. DOMAIN states' \subseteq Targets /\ states' \in [DOMAIN states' -> TargetState]
    <3>1. DOMAIN states \subseteq Targets /\ states \in [DOMAIN states -> TargetState]
      BY DEF TypeOK
    <3> QED
      BY <2>2, <2>4, <3>1, PutProperties
  <2>8. history' \in [Targets -> Seq(Nat)]
    BY <2>2, <2>4 DEF TypeOK
  <2> QED
    BY <1>2, <2>6, <2>7, <2>8 DEF Process, TypeOK, dbVars, auxVars
<1>3. ASSUME Save(t)
      PROVE  TypeOK'
  <2> DEFINE row == handler[t].row
             n == [handler[t] EXCEPT !.phase = "saved"]
  <2>1. /\ row \in Row /\ row.event.id = t
        /\ n \in HandlerState /\ n.row.event.id = t
    BY <1>3, HandlerTypes DEF Save
  <2>2. /\ handler' = [handler EXCEPT ![t] = n]
        /\ \/ rows' = [rows EXCEPT ![t] = Append(@, row)] /\ life' = life
           \/ /\ rows' = rows
              /\ life' = [life EXCEPT ![t] = IF @ = row.life THEN @ + 1 ELSE @]
    BY <1>3 DEF Save
  <2> HIDE DEF row, n
  <2>3. /\ handler' \in [Targets -> HandlerState]
        /\ \A u \in Targets : handler'[u].phase \in {"changed", "saved"} =>
              handler'[u].row.event.id = u
    BY <2>1, <2>2 DEF TypeOK
  <2>4. /\ rows' \in [Targets -> Seq(Row)]
        /\ \A u \in Targets : \A i \in DOMAIN rows'[u] : rows'[u][i].event.id = u
        /\ life' \in [Targets -> Nat]
    <3>1. CASE rows' = [rows EXCEPT ![t] = Append(@, row)] /\ life' = life
      <4>1. rows[t] \in Seq(Row)
        BY DEF TypeOK
      <4>2. /\ rows'[t] \in Seq(Row)
            /\ \A i \in DOMAIN rows'[t] :
                  \/ rows'[t][i] = row
                  \/ i \in DOMAIN rows[t] /\ rows'[t][i] = rows[t][i]
        BY <2>1, <3>1, <4>1 DEF TypeOK
      <4>3. /\ \A u \in Targets : \A i \in DOMAIN rows[u] : rows[u][i].event.id = u
            /\ rows \in [Targets -> Seq(Row)] /\ life \in [Targets -> Nat]
        BY DEF TypeOK
      <4>4. \A i \in DOMAIN rows'[t] : rows'[t][i].event.id = t
        <5>1. \A i \in DOMAIN rows[t] : rows[t][i].event.id = t
          BY <4>3
        <5> QED
          BY <2>1, <4>2, <5>1
      <4>5. \A u \in Targets \ {t} : rows'[u] = rows[u]
        BY <3>1, <4>3
      <4>6. rows' \in [Targets -> Seq(Row)]
        BY <3>1, <4>2, <4>3
      <4>7. \A u \in Targets : \A i \in DOMAIN rows'[u] : rows'[u][i].event.id = u
        <5> SUFFICES ASSUME NEW u \in Targets, NEW i \in DOMAIN rows'[u]
                     PROVE  rows'[u][i].event.id = u
          OBVIOUS
        <5>1. CASE u = t
          BY <4>4, <5>1
        <5>2. CASE u # t
          BY <4>3, <4>5, <5>2
        <5> QED
          BY <5>1, <5>2
      <4> QED
        BY <3>1, <4>3, <4>6, <4>7
    <3>2. CASE /\ rows' = rows
               /\ life' = [life EXCEPT ![t] = IF @ = row.life THEN @ + 1 ELSE @]
      BY <3>2 DEF TypeOK
    <3> QED
      BY <2>2, <3>1, <3>2
  <2> QED
    BY <1>3, <2>3, <2>4 DEF Save, TypeOK, fsmVars
<1>4. ASSUME Push(t)
      PROVE  TypeOK'
  <2>1. handler[t].row \in Row
    BY <1>4, HandlerTypes DEF Push
  <2>2. /\ handler' \in [Targets -> HandlerState]
        /\ \A u \in Targets : handler'[u].phase \in {"changed", "saved"} =>
              handler'[u].row.event.id = u
    BY <1>4 DEF Push, TypeOK, HandlerState, Idle
  <2> QED
    BY <1>4, <2>1, <2>2 DEF Push, TypeOK, dbVars, fsmVars
<1> QED
  BY <1>1, <1>2, <1>3, <1>4

\* The steps of requests.
LEMMA TypeRequest ==
    ASSUME TypeOK, NEW t \in Targets,
           \/ \E target \in NewTargets : Create(t, target)
           \/ ReadForUpdate(t) \/ Update(t) \/ Delete(t) \/ Forget(t)
           \/ \E silent \in BOOLEAN : SetSilent(t, silent)
    PROVE  TypeOK'
<1> USE DEF dbVars, fsmVars, auxVars
<1>0. /\ DOMAIN stored \subseteq Targets /\ stored \in [DOMAIN stored -> Target]
      /\ DOMAIN states \subseteq Targets /\ states \in [DOMAIN states -> TargetState]
      /\ DOMAIN puts \subseteq Targets /\ puts \in [DOMAIN puts -> Target]
  BY DEF TypeOK
<1>a. Change => count' \in [changes : Nat, restarts : Nat]
  <2>1. count \in [changes : Nat, restarts : Nat]
    BY DEF TypeOK
  <2> QED
    BY <2>1 DEF Change
<1>1. ASSUME NEW target \in NewTargets, Create(t, target)
      PROVE  TypeOK'
  <2>1. target \in Target
    BY ServerAssumption DEF ServerAssumption
  <2>2. DOMAIN stored' \subseteq Targets /\ stored' \in [DOMAIN stored' -> Target]
    BY <1>0, <1>1, <2>1, PutProperties DEF Create, SaveTarget
  <2> QED
    BY <1>a, <1>1, <2>2 DEF Create, TypeOK
<1>2. ASSUME ReadForUpdate(t)
      PROVE  TypeOK'
  <2>1. stored[t] \in Target
    BY <1>2 DEF ReadForUpdate, Stored, TypeOK
  <2>2. DOMAIN puts' \subseteq Targets /\ puts' \in [DOMAIN puts' -> Target]
    BY <1>0, <1>2, <2>1, PutProperties DEF ReadForUpdate
  <2> QED
    BY <1>a, <1>2, <2>2 DEF ReadForUpdate, TypeOK
<1>3. ASSUME Update(t)
      PROVE  TypeOK'
  <2>1. DOMAIN puts' \subseteq Targets /\ puts' \in [DOMAIN puts' -> Target]
    BY <1>3, WithoutProperties DEF Update, TypeOK
  <2>2. DOMAIN stored' \subseteq Targets /\ stored' \in [DOMAIN stored' -> Target]
    <3>1. CASE UNCHANGED stored
      BY <3>1 DEF TypeOK
    <3>2. ASSUME NEW body \in Changes, SaveTarget(t, Overlay(body, puts[t]))
          PROVE  DOMAIN stored' \subseteq Targets /\ stored' \in [DOMAIN stored' -> Target]
      <4>1. Overlay(body, puts[t]) \in Target
        BY <1>3, OverlayType DEF Update, TypeOK
      <4> QED
        BY <1>0, <3>2, <4>1, PutProperties DEF SaveTarget
    <3> QED
      BY <1>3, <3>1, <3>2 DEF Update
  <2> QED
    BY <1>3, <2>1, <2>2 DEF Update, TypeOK
<1>4. ASSUME Delete(t)
      PROVE  TypeOK'
  <2>1. DOMAIN stored' \subseteq Targets /\ stored' \in [DOMAIN stored' -> Target]
    BY <1>4, WithoutProperties DEF Delete, TypeOK
  <2>2. /\ rows' \in [Targets -> Seq(Row)]
        /\ \A u \in Targets : \A i \in DOMAIN rows'[u] : rows'[u][i].event.id = u
    <3>1. <<>> \in Seq(Row) /\ DOMAIN <<>> = {}
      OBVIOUS
    <3> QED
      BY <1>4, <3>1 DEF Delete, TypeOK
  <2> QED
    BY <1>a, <1>4, <2>1, <2>2 DEF Delete, TypeOK
<1>5. ASSUME Forget(t)
      PROVE  TypeOK'
  <2>1. DOMAIN states' \subseteq Targets /\ states' \in [DOMAIN states' -> TargetState]
    BY <1>5, WithoutProperties DEF Forget, TypeOK
  <2>2. history' \in [Targets -> Seq(Nat)]
    BY <1>5 DEF Forget, TypeOK
  <2>3. life' \in [Targets -> Nat]
    BY <1>5 DEF Forget, Anew, TypeOK
  <2>4. orphaned' \subseteq Targets /\ deletes' \subseteq Targets
    BY <1>5 DEF Forget, TypeOK
  <2> QED
    BY <1>5, <2>1, <2>2, <2>3, <2>4 DEF Forget, TypeOK
<1>6. ASSUME NEW silent \in BOOLEAN, SetSilent(t, silent)
      PROVE  TypeOK'
  <2> DEFINE s == Entry(t)
             to == IF silent THEN "SILENT"
                   ELSE IF s.status = "SILENT" THEN "UNKNOWN" ELSE s.status
  <2>1. s \in TargetState /\ to \in Status
    BY EntryType DEF TargetState, Status
  <2>2. [s EXCEPT !.status = to] \in TargetState
    BY <2>1 DEF TargetState
  <2> DEFINE n == [s EXCEPT !.status = to]
  <2>3. states' = Put(states, t, n) /\ n \in TargetState
    BY <1>6, <2>2 DEF SetSilent
  <2> HIDE DEF n, s, to
  <2>4. DOMAIN states' \subseteq Targets /\ states' \in [DOMAIN states' -> TargetState]
    BY <1>0, <2>3, PutProperties
  <2>5. life' \in [Targets -> Nat]
    <3>1. \/ life' = life
          \/ life' = [life EXCEPT ![t] = @ + 1]
      BY <1>6 DEF SetSilent, Anew
    <3>2. life \in [Targets -> Nat]
      BY DEF TypeOK
    <3> QED
      BY <3>1, <3>2
  <2>6. orphaned' \subseteq Targets
    BY <1>6 DEF SetSilent, TypeOK
  <2>7. Change /\ UNCHANGED <<stored, rows, cascades, history, probed, handler, puts,
                             deletes, clock, pushed>>
    BY <1>6 DEF SetSilent
  <2> QED
    BY <1>a, <2>4, <2>5, <2>6, <2>7 DEF TypeOK
<1> QED
  BY <1>1, <1>2, <1>3, <1>4, <1>5, <1>6

LEMMA TypeRestart ==
    ASSUME TypeOK, Restart
    PROVE  TypeOK'
<1>1. PICK saved \in SUBSET DOMAIN Monitors, listed \in BOOLEAN :
         Started(stored, saved, listed)
  BY DEF Restart
<1>2. /\ DOMAIN Monitors \subseteq Targets
      /\ Monitors \in [DOMAIN Monitors -> Target]
  BY ServerAssumption DEF ServerAssumption
<1>3. DOMAIN stored' \subseteq Targets /\ stored' \in [DOMAIN stored' -> Target]
  BY <1>1, <1>2 DEF Started, Overlay, TypeOK
<1>4. probed' \subseteq Targets
  BY <1>1, <1>2 DEF Started, TypeOK
<1>5. history' \in [Targets -> Seq(Nat)]
  <2>1. <<>> \in Seq(Nat)
    OBVIOUS
  <2> QED
    BY <2>1 DEF Restart
<1>6. /\ DOMAIN states' = {} /\ states' \in [DOMAIN states' -> TargetState]
      /\ DOMAIN puts' = {} /\ puts' \in [DOMAIN puts' -> Target]
  BY EmptyProperties DEF Restart
<1>7. /\ handler' \in [Targets -> HandlerState]
      /\ \A t \in Targets : handler'[t].phase = "idle"
  BY DEF Restart, Idle, HandlerState
<1> QED
  BY <1>3, <1>4, <1>5, <1>6, <1>7 DEF Restart, TypeOK

LEMMA TypeStep == TypeOK /\ [Next]_vars => TypeOK'
<1> SUFFICES ASSUME TypeOK, [Next]_vars PROVE TypeOK'
  OBVIOUS
<1>1. CASE UNCHANGED vars
  BY <1>1 DEF vars, dbVars, fsmVars, auxVars, TypeOK
<1>2. CASE Next
  BY <1>2, TypeHandler, TypeRequest, TypeRestart DEF Next
<1> QED
  BY <1>1, <1>2

\* The variables keep their types, and a row is found under the target it names.
THEOREM TypeCorrect == Spec => []TypeOK
BY TypeInit, TypeStep, PTL DEF Spec

-----------------------------------------------------------------------------
(* Steps about another target, or about nothing TargetInv looks at.         *)

\* The log of t, its last row in particular.
LEMMA LastRowType ==
    ASSUME TypeOK, NEW t \in Targets, rows[t] # <<>>
    PROVE  /\ Len(rows[t]) \in Nat \ {0}
           /\ LastRow(t) \in Row
           /\ LastRow(t).life \in Nat /\ LastRow(t).event.ts \in Nat
           /\ LastRow(t).event.to \in Status
<1>1. rows[t] \in Seq(Row)
  BY DEF TypeOK
<1>2. Len(rows[t]) \in Nat \ {0} /\ LastRow(t) \in Row
  BY <1>1, EmptySeq, LenProperties, ElementOfSeq DEF LastRow
<1> QED
  BY <1>2 DEF Row

LEMMA Untouched ==
    ASSUME TypeOK, NEW t \in Targets, TargetInv(t),
           rows'[t] = rows[t], handler'[t] = handler[t], pushed'[t] = pushed[t],
           life'[t] = life[t], clock' \in Nat, clock' >= clock,
           t \in DOMAIN states' <=> t \in DOMAIN states,
           t \in DOMAIN states => states'[t] = states[t],
           Stored(t) => Stored(t)', t \in orphaned => t \in orphaned',
           t \in deletes' <=> t \in deletes
    PROVE  TargetInv(t)'
<1> USE DEF TargetInv
<1>1. LastRow(t)' = LastRow(t) /\ Holds(t)' = Holds(t) /\ Pending(t)' = Pending(t)
  BY DEF LastRow, Holds, Pending
<1>2. Entry(t)' = Entry(t)
  BY DEF Entry
<1>3. GhostInv(t)' /\ PushInv(t)'
  BY <1>1 DEF GhostInv, PushInv
<1>4. ClockInv(t)'
  <2>1. rows[t] # <<>> => LastRow(t).event.ts \in Nat
    BY LastRowType
  <2>2. handler[t].phase = "read" => handler[t].result.ts \in Nat
    BY HandlerTypes DEF ProbeResult
  <2>3. Holds(t) => handler[t].row.event.ts \in Nat
    BY HandlerTypes DEF Row, Holds
  <2>4. clock \in Nat
    BY DEF TypeOK
  <2> QED
    BY <1>1, <2>1, <2>2, <2>3, <2>4 DEF ClockInv
<1>5. LifeInv(t)'
  BY <1>1 DEF LifeInv
<1>6. ChainInv(t)'
  BY <1>1, <1>2 DEF ChainInv
<1>7. LogInv(t)'
  BY <1>1 DEF LogInv
<1>8. LogChains(t)'
  BY DEF LogChains
<1> QED
  BY <1>3, <1>4, <1>5, <1>6, <1>7, <1>8

LEMMA InvInit == Init => IInv
<1> SUFFICES ASSUME Init PROVE IInv
  OBVIOUS
<1>1. ASSUME NEW t \in Targets
      PROVE  TargetInv(t)
  <2>1. /\ rows[t] = <<>> /\ handler[t].phase = "idle" /\ pushed[t] = {}
        /\ t \notin DOMAIN states /\ Len(<<>>) = 0
    BY EmptyProperties DEF Init, Idle
  <2> QED
    BY <2>1 DEF TargetInv, GhostInv, PushInv, ClockInv, LifeInv, ChainInv, LogInv,
                LogChains, Holds, Pending
<1> QED
  BY <1>1, TypeInit DEF IInv

-----------------------------------------------------------------------------
(* The steps of a handler.                                                  *)

LEMMA InvReceive ==
    ASSUME IInv, NEW t \in Targets, NEW o \in Outcomes, Receive(t, o),
           NEW u \in Targets
    PROVE  TargetInv(u)'
<1> USE DEF IInv, dbVars, fsmVars, auxVars
<1>1. /\ TypeOK /\ TargetInv(u) /\ TargetInv(t) /\ handler[t] = Idle
      /\ clock \in Nat /\ clock' = clock + 1 /\ clock' \in Nat /\ clock' >= clock
      /\ handler \in [Targets -> HandlerState]
      /\ UNCHANGED <<rows, pushed, life, states, stored, orphaned, deletes>>
  BY DEF Receive, TypeOK
<1>2. CASE u # t \/ ~Stored(t)
  <2>1. handler'[u] = handler[u]
    BY <1>1, <1>2 DEF Receive
  <2> QED
    BY <1>1, <2>1, Untouched DEF Stored
<1>3. CASE u = t /\ Stored(t)
  <2>1. /\ handler'[t].phase = "read" /\ handler'[t].result.ts = clock + 1
        /\ handler[t].phase = "idle"
    BY <1>1, <1>3 DEF Receive, Idle
  <2>2. rows[t] # <<>> => LastRow(t).event.ts \in Nat
    BY <1>1, LastRowType
  <2>3. LastRow(t)' = LastRow(t) /\ Entry(t)' = Entry(t) /\ ~Holds(t)' /\ ~Pending(t)'
        /\ ~Holds(t) /\ ~Pending(t)
    BY <1>1, <2>1 DEF LastRow, Entry, Holds, Pending
  <2>4. GhostInv(t)' /\ PushInv(t)'
    BY <1>1, <1>3, <2>3 DEF TargetInv, GhostInv, PushInv, Stored
  <2>5. ClockInv(t)'
    BY <1>1, <2>1, <2>2, <2>3 DEF TargetInv, ClockInv
  <2>6. LifeInv(t)' /\ ChainInv(t)'
    BY <1>1, <2>1, <2>3 DEF TargetInv, LifeInv, ChainInv
  <2>7. LogInv(t)'
    BY <1>1, <2>1, <2>3 DEF TargetInv, LogInv
  <2>8. LogChains(t)'
    BY <1>1 DEF TargetInv, LogChains
  <2> QED
    BY <1>3, <2>4, <2>5, <2>6, <2>7, <2>8 DEF TargetInv
<1> QED
  BY <1>2, <1>3

LEMMA InvProcess ==
    ASSUME IInv, NEW t \in Targets, Process(t), NEW u \in Targets
    PROVE  TargetInv(u)'
<1> USE DEF IInv, dbVars, auxVars
<1> DEFINE h == handler[t]
           p == Processed(t, Entry(t), history[t], h.result, h.target)
           e == [id |-> t, from |-> Entry(t).status, to |-> p.state.status,
                 ts |-> h.result.ts]
<1>1. /\ TypeOK /\ TargetInv(u) /\ TargetInv(t) /\ h.phase = "read"
      /\ clock \in Nat /\ clock' = clock
      /\ handler \in [Targets -> HandlerState] /\ states \in [DOMAIN states -> TargetState]
      /\ life[t] \in Nat
      /\ UNCHANGED <<rows, pushed, life, stored, orphaned, deletes>>
      /\ states' = Put(states, t, p.state)
  BY DEF Process, TypeOK
<1>2. /\ h.result \in ProbeResult /\ h.result.ts \in Nat /\ Entry(t) \in TargetState
      /\ history[t] \in Seq(Nat)
  <2>1. h.result \in ProbeResult
    BY <1>1, HandlerTypes
  <2>2. Entry(t) \in TargetState /\ history[t] \in Seq(Nat)
    BY <1>1, EntryType DEF TypeOK
  <2> HIDE DEF h
  <2> QED
    BY <2>1, <2>2 DEF ProbeResult
<1>3. p.state \in TargetState
  BY <1>2, ProcessedProperties
<1>4. \/ /\ p.events = {} /\ p.state.status \in {Entry(t).status, "MAINTENANCE"}
         /\ handler' = [handler EXCEPT ![t] = Idle]
      \/ /\ Entry(t).status \notin {"MAINTENANCE", "SILENT"}
         /\ handler' = [handler EXCEPT ![t] =
                          [phase |-> "changed", row |-> [event |-> e, life |-> life[t]]]]
  <2>1. \/ p.events = {} /\ p.state.status \in {Entry(t).status, "MAINTENANCE"}
        \/ /\ p.events = {e} /\ (CHOOSE x \in p.events : TRUE) = e
           /\ Entry(t).status \notin {"MAINTENANCE", "SILENT"}
    <3>1. \/ p.events = {} /\ p.state.status \in {Entry(t).status, "MAINTENANCE"}
          \/ LET x == [id |-> t, from |-> Entry(t).status, to |-> p.state.status,
                       ts |-> h.result.ts]
             IN  /\ p.events = {x} /\ (CHOOSE y \in p.events : TRUE) = x
                 /\ x \in [id : Targets, from : Status, to : Status, ts : Nat]
                 /\ Entry(t).status \notin {"MAINTENANCE", "SILENT"}
      <4> HIDE DEF h
      <4> QED
        BY <1>2, ProcessedEvent
    <3> HIDE DEF p, h
    <3> QED
      BY <3>1
  <2>2. handler' = [handler EXCEPT ![t] =
             IF p.events = {} THEN Idle
             ELSE [phase |-> "changed",
                   row |-> [event |-> CHOOSE x \in p.events : TRUE, life |-> life[t]]]]
    BY DEF Process
  <2> HIDE DEF p, h, e
  <2>3. {e} # {}
    OBVIOUS
  <2> QED
    BY <2>1, <2>2, <2>3
<1> HIDE DEF p
<1>5. CASE u # t
  <2>1. handler'[u] = handler[u]
    BY <1>1, <1>4, <1>5
  <2>2. /\ u \in DOMAIN states' <=> u \in DOMAIN states
        /\ u \in DOMAIN states => states'[u] = states[u]
    BY <1>1, <1>5 DEF Put
  <2> QED
    BY <1>1, <2>1, <2>2, Untouched DEF Stored
<1>6. CASE u = t
  <2>1. /\ t \in DOMAIN states' /\ states'[t] = p.state /\ Entry(t)' = p.state
        /\ t \in DOMAIN states => states[t] = Entry(t)
        /\ t \notin DOMAIN states => Entry(t).status = "UNKNOWN"
    BY <1>1 DEF Put, Entry, NewState
  <2>2. LastRow(t)' = LastRow(t) /\ ~Holds(t) /\ ~Pending(t)
    BY <1>1 DEF LastRow, Holds, Pending
  <2>3. rows[t] # <<>> => LastRow(t).event.ts \in Nat /\ LastRow(t).life \in Nat
    BY <1>1, LastRowType
  <2>4. LogChains(t)'
    BY <1>1 DEF TargetInv, LogChains
  <2>5. CASE /\ p.state.status \in {Entry(t).status, "MAINTENANCE"}
             /\ handler' = [handler EXCEPT ![t] = Idle]
    <3>1. handler'[t].phase = "idle" /\ ~Holds(t)' /\ ~Pending(t)'
      BY <1>1, <2>5 DEF Idle, Holds, Pending
    <3>2. GhostInv(t)' /\ PushInv(t)'
      BY <1>1, <2>1, <2>2, <2>5, <3>1 DEF TargetInv, GhostInv, PushInv, Stored
    <3>3. ClockInv(t)' /\ LifeInv(t)'
      BY <1>1, <2>2, <3>1 DEF TargetInv, ClockInv, LifeInv
    <3>4. ChainInv(t)'
      BY <1>1, <2>1, <2>2, <2>5, <3>1 DEF TargetInv, ChainInv
    <3>5. LogInv(t)'
      BY <1>1, <2>2, <3>1 DEF TargetInv, LogInv
    <3> QED
      BY <1>6, <2>4, <3>2, <3>3, <3>4, <3>5 DEF TargetInv
  <2>6. CASE /\ Entry(t).status \notin {"MAINTENANCE", "SILENT"}
             /\ handler' = [handler EXCEPT ![t] =
                   [phase |-> "changed", row |-> [event |-> e, life |-> life[t]]]]
    <3>1. /\ handler'[t].phase = "changed" /\ Holds(t)' /\ Pending(t)'
          /\ handler'[t].row.life = life[t]
          /\ handler'[t].row.event.from = Entry(t).status
          /\ handler'[t].row.event.to = p.state.status
          /\ handler'[t].row.event.ts = h.result.ts
      BY <1>1, <2>6 DEF Holds, Pending
    <3>2. GhostInv(t)' /\ PushInv(t)'
      BY <1>1, <2>1, <2>2, <2>6, <3>1 DEF TargetInv, GhostInv, PushInv, Stored
    <3>3. ClockInv(t)'
      BY <1>1, <2>2, <3>1 DEF TargetInv, ClockInv
    <3>4. LifeInv(t)'
      BY <1>1, <2>2, <3>1 DEF TargetInv, LifeInv
    <3>5. ChainInv(t)'
      BY <1>1, <2>1, <2>2, <2>6, <3>1 DEF TargetInv, ChainInv
    <3>6. LogInv(t)'
      BY <1>1, <2>2, <3>1 DEF TargetInv, LogInv
    <3> QED
      BY <1>6, <2>4, <3>2, <3>3, <3>4, <3>5, <3>6 DEF TargetInv
  <2> QED
    BY <1>4, <2>5, <2>6
<1> QED
  BY <1>5, <1>6

LEMMA InvSave ==
    ASSUME IInv, NEW t \in Targets, Save(t), NEW u \in Targets
    PROVE  TargetInv(u)'
<1> USE DEF IInv, fsmVars
<1> DEFINE row == handler[t].row
<1>1. /\ TypeOK /\ TargetInv(u) /\ TargetInv(t) /\ handler[t].phase = "changed"
      /\ clock \in Nat /\ clock' = clock
      /\ rows \in [Targets -> Seq(Row)] /\ life \in [Targets -> Nat]
      /\ handler \in [Targets -> HandlerState]
      /\ UNCHANGED <<pushed, states, stored, orphaned, deletes>>
      /\ handler' = [handler EXCEPT ![t] = [@ EXCEPT !.phase = "saved"]]
  BY DEF Save, TypeOK
<1>2. /\ row \in Row /\ row.life \in Nat /\ row.event.ts \in Nat
      /\ [handler[t] EXCEPT !.phase = "saved"].phase = "saved"
      /\ [handler[t] EXCEPT !.phase = "saved"].row = row
  BY <1>1, HandlerTypes DEF Row
<1>3. \/ rows' = [rows EXCEPT ![t] = Append(@, row)] /\ life' = life
      \/ /\ rows' = rows
         /\ life' = [life EXCEPT ![t] = IF @ = row.life THEN @ + 1 ELSE @]
  BY DEF Save
<1>4. CASE u # t
  <2>1. handler'[u] = handler[u] /\ rows'[u] = rows[u] /\ life'[u] = life[u]
    BY <1>1, <1>3, <1>4
  <2> QED
    BY <1>1, <2>1, Untouched DEF Stored
<1>5. CASE u = t
  <2>1. /\ handler'[t].phase = "saved" /\ handler'[t].row = row
        /\ Holds(t) /\ Holds(t)' /\ ~Pending(t)' /\ Entry(t)' = Entry(t)
    BY <1>1, <1>2 DEF Holds, Pending, Entry
  <2>2. rows[t] # <<>> =>
           LastRow(t).event.ts \in Nat /\ LastRow(t).life \in Nat
    BY <1>1, LastRowType
  <2>3. GhostInv(t)' /\ PushInv(t)'
    BY <1>1, <2>1 DEF TargetInv, GhostInv, PushInv, Stored
  <2>4. ~Pending(t) => t \in deletes \/
           /\ ~(rows[t] # <<>> /\ LastRow(t).life = life[t])
           /\ ~ \E r \in pushed[t] : r.life = life[t]
    BY <1>1, <1>2, <2>1, <2>2 DEF TargetInv, LogInv, LifeInv, Pending
  <2>5. CASE rows' = [rows EXCEPT ![t] = Append(@, row)] /\ life' = life
    <3>1. /\ rows[t] \in Seq(Row) /\ Len(rows[t]) \in Nat
          /\ rows'[t] = Append(rows[t], row)
      BY <1>1, <2>5, LenProperties
    <3>2. /\ Len(rows'[t]) = Len(rows[t]) + 1 /\ rows'[t] # <<>>
          /\ \A i \in 1 .. Len(rows[t]) : rows'[t][i] = rows[t][i]
          /\ LastRow(t)' = row
          /\ rows[t] # <<>> => Len(rows[t]) # 0
      BY <1>2, <3>1 DEF LastRow
    <3>3. ClockInv(t)'
      BY <1>1, <2>1, <3>2 DEF TargetInv, ClockInv
    <3>4. LifeInv(t)'
      BY <1>1, <2>1, <2>5, <3>2 DEF TargetInv, LifeInv
    <3>5. ChainInv(t)'
      BY <1>1, <2>1, <2>5, <3>2 DEF TargetInv, ChainInv, Pending
    <3>6. LogInv(t)'
      <4>1. CASE row.life = life[t]
        BY <1>1, <2>1, <2>5, <3>2, <4>1 DEF LogInv
      <4>2. CASE row.life # life[t]
        <5>1. ~Pending(t) /\ row.life < life[t]
          BY <1>1, <1>2, <2>1, <4>2 DEF Pending, TargetInv, LifeInv
        <5> QED
          BY <1>1, <2>1, <2>4, <2>5, <3>2, <5>1, <4>2 DEF LogInv
      <4> QED
        BY <4>1, <4>2
    <3>7. LogChains(t)'
      <4> SUFFICES ASSUME NEW i \in 1 .. Len(rows'[t]) - 1
                   PROVE  /\ rows'[t][i].life <= rows'[t][i + 1].life
                          /\ rows'[t][i].life = rows'[t][i + 1].life =>
                              /\ rows'[t][i + 1].event.from = rows'[t][i].event.to
                              /\ rows'[t][i + 1].event.ts > rows'[t][i].event.ts
        BY DEF LogChains
      <4>1. CASE i < Len(rows[t])
        <5>1. /\ i \in 1 .. Len(rows[t]) - 1 /\ rows'[t][i] = rows[t][i]
              /\ rows'[t][i + 1] = rows[t][i + 1]
          BY <3>1, <3>2, <4>1
        <5> QED
          BY <1>1, <5>1 DEF TargetInv, LogChains
      <4>2. CASE ~(i < Len(rows[t]))
        <5>1. i = Len(rows[t]) /\ i \in 1 .. Len(rows[t])
          BY <3>1, <3>2, <4>2
        <5>2. /\ rows'[t][i] = LastRow(t) /\ rows[t] # <<>>
              /\ rows'[t][i + 1] = row
          BY <3>1, <3>2, <5>1 DEF LastRow
        <5>3. /\ LastRow(t).life <= row.life
              /\ LastRow(t).event.ts < row.event.ts
              /\ LastRow(t).life = row.life => row.event.from = LastRow(t).event.to
          BY <1>1, <5>2 DEF TargetInv, LifeInv, ClockInv, ChainInv
        <5> QED
          BY <1>2, <2>2, <5>2, <5>3
      <4> QED
        BY <4>1, <4>2
    <3> QED
      BY <1>5, <2>3, <3>3, <3>4, <3>5, <3>6, <3>7 DEF TargetInv
  <2>6. CASE /\ rows' = rows
             /\ life' = [life EXCEPT ![t] = IF @ = row.life THEN @ + 1 ELSE @]
    <3>1. /\ life[t] \in Nat /\ row.life <= life[t]
          /\ life'[t] = IF life[t] = row.life THEN life[t] + 1 ELSE life[t]
      BY <1>1, <2>1, <2>6 DEF TargetInv, LifeInv
    <3>2. life'[t] \in Nat /\ life'[t] >= life[t] /\ row.life < life'[t]
      BY <1>2, <3>1
    <3>3. LastRow(t)' = LastRow(t) /\ rows'[t] = rows[t]
      BY <2>6 DEF LastRow
    <3>4. /\ rows[t] # <<>> => LastRow(t).life <= row.life
          /\ \A r \in pushed[t] : /\ r.life <= life[t] /\ r.life \in Nat
                                  /\ pushed[t] = {r}
      BY <1>1 DEF TargetInv, LifeInv, TypeOK, Row
    <3>5. LogChains(t)' /\ ClockInv(t)'
      BY <1>1, <2>1, <3>3 DEF TargetInv, LogChains, ClockInv
    <3>6. LifeInv(t)'
      <4>1. rows[t] # <<>> => LastRow(t).life <= life'[t]
        BY <1>2, <2>2, <3>2, <3>4
      <4>2. \A r \in pushed[t] : r.life <= life'[t]
        BY <3>1, <3>2, <3>4
      <4> QED
        BY <1>1, <1>2, <2>1, <3>2, <3>3, <3>4, <4>1, <4>2 DEF LifeInv
    <3>7. ~(rows[t] # <<>> /\ LastRow(t).life = life'[t])
      BY <1>2, <2>2, <3>2, <3>4
    <3>8. ChainInv(t)'
      BY <2>1, <3>3, <3>7 DEF ChainInv
    <3>9. LogInv(t)'
      <4>1. t \in deletes \/ ~ \E r \in pushed[t] : r.life = life'[t]
        <5>1. CASE life[t] = row.life
          BY <3>1, <3>4, <5>1
        <5>2. CASE life[t] # row.life
          BY <2>1, <2>4, <3>1, <5>2 DEF Pending
        <5> QED
          BY <5>1, <5>2
      <4> QED
        BY <1>1, <2>1, <3>2, <3>3, <3>7, <4>1 DEF LogInv
    <3> QED
      BY <1>5, <2>3, <3>5, <3>6, <3>8, <3>9 DEF TargetInv
  <2> QED
    BY <1>3, <2>5, <2>6
<1> QED
  BY <1>4, <1>5

LEMMA InvPush ==
    ASSUME IInv, NEW t \in Targets, Push(t), NEW u \in Targets
    PROVE  TargetInv(u)'
<1> USE DEF IInv, dbVars, fsmVars
<1> DEFINE row == handler[t].row
<1>1. /\ TypeOK /\ TargetInv(u) /\ TargetInv(t) /\ handler[t].phase = "saved"
      /\ clock \in Nat /\ clock' = clock
      /\ handler \in [Targets -> HandlerState] /\ pushed \in [Targets -> SUBSET Row]
      /\ UNCHANGED <<rows, life, states, stored, orphaned, deletes>>
      /\ handler' = [handler EXCEPT ![t] = Idle]
      /\ pushed' = [pushed EXCEPT ![t] = {row}]
  BY DEF Push, TypeOK
<1>2. CASE u # t
  <2>1. handler'[u] = handler[u] /\ pushed'[u] = pushed[u]
    BY <1>1, <1>2
  <2> QED
    BY <1>1, <2>1, Untouched DEF Stored
<1>3. CASE u = t
  <2>1. /\ handler'[t].phase = "idle" /\ pushed'[t] = {row} /\ ~Holds(t)' /\ Holds(t)
        /\ Entry(t)' = Entry(t) /\ LastRow(t)' = LastRow(t)
        /\ ~Pending(t) /\ ~Pending(t)'
    BY <1>1 DEF Idle, Holds, Pending, Entry, LastRow
  <2>2. GhostInv(t)' /\ PushInv(t)'
    BY <1>1, <2>1 DEF TargetInv, GhostInv, PushInv, Stored
  <2>3. ClockInv(t)' /\ LogChains(t)' /\ ChainInv(t)'
    BY <1>1, <2>1 DEF TargetInv, ClockInv, LogChains, ChainInv
  <2>4. LifeInv(t)'
    BY <1>1, <2>1 DEF TargetInv, LifeInv
  <2>5. LogInv(t)'
    <3>1. row.life \in Nat /\ life[t] \in Nat
      BY <1>1, HandlerTypes DEF Row, TypeOK
    <3> QED
      BY <1>1, <2>1, <3>1 DEF TargetInv, LogInv
  <2> QED
    BY <1>3, <2>2, <2>3, <2>4, <2>5 DEF TargetInv
<1> QED
  BY <1>2, <1>3

-----------------------------------------------------------------------------
(* Requests and restarts.                                                   *)

\* When a new life begins, no event belongs to it: whatever becomes of the status,
\* the log and the listeners have nothing to disagree on.
LEMMA Renewed ==
    ASSUME TypeOK, NEW t \in Targets, TargetInv(t),
           life'[t] = life[t] + 1, rows'[t] = rows[t], clock' = clock,
           \/ handler'[t] = handler[t] /\ pushed'[t] = pushed[t]
           \/ handler'[t] = Idle /\ pushed'[t] = {}
    PROVE  ClockInv(t)' /\ LifeInv(t)' /\ ChainInv(t)' /\ LogInv(t)' /\ LogChains(t)'
<1>1. life[t] \in Nat /\ pushed[t] \subseteq Row /\ clock \in Nat
  BY DEF TypeOK
<1>2. LastRow(t)' = LastRow(t) /\ Idle.phase = "idle"
  BY DEF LastRow, Idle
<1>3. Holds(t) => handler[t].row.life \in Nat /\ handler[t].row.life < life'[t]
  <2>1. Holds(t) => handler[t].row \in Row
    BY HandlerTypes DEF Holds
  <2>2. Holds(t) => handler[t].row.life \in Nat
    BY <2>1 DEF Row
  <2>3. Holds(t) => handler[t].row.life <= life[t]
    BY DEF TargetInv, LifeInv
  <2> QED
    BY <1>1, <2>2, <2>3
<1>4. rows[t] # <<>> => LastRow(t).life \in Nat /\ LastRow(t).life < life'[t]
  BY <1>1, LastRowType DEF TargetInv, LifeInv
<1>5. \A row \in pushed[t] : row.life < life'[t] /\ pushed[t] = {row}
  BY <1>1 DEF Row, TargetInv, LifeInv
<1>6. \A row \in pushed'[t] : row.life < life'[t] /\ pushed'[t] = {row} /\ row.life \in Nat
  BY <1>1, <1>5 DEF Row
<1>7. Holds(t)' => handler'[t] = handler[t] /\ Holds(t)
  BY <1>2 DEF Holds
<1>8. ClockInv(t)' /\ LogChains(t)'
  BY <1>2, <1>7 DEF TargetInv, ClockInv, LogChains, Holds
<1>9. LifeInv(t)'
  BY <1>1, <1>2, <1>3, <1>4, <1>6, <1>7 DEF TargetInv, LifeInv, Holds
<1>10. ~Pending(t)' /\ ~(rows'[t] # <<>> /\ LastRow(t)'.life = life'[t])
  BY <1>1, <1>2, <1>3, <1>4, <1>7 DEF Pending, Holds
<1>11. ChainInv(t)'
  BY <1>2, <1>7, <1>10 DEF TargetInv, ChainInv, Holds
<1>12. LogInv(t)'
  <2>1. ~ \E row \in pushed'[t] : row.life = life'[t]
    BY <1>1, <1>6
  <2>2. handler'[t].phase = "saved" => handler'[t].row.life < life'[t]
    BY <1>2, <1>3 DEF Holds
  <2> QED
    BY <1>10, <2>1, <2>2 DEF LogInv
<1> QED
  BY <1>8, <1>9, <1>11, <1>12

LEMMA InvWrites ==
    ASSUME IInv, NEW t \in Targets,
           (\E target \in NewTargets : Create(t, target)) \/ ReadForUpdate(t) \/ Update(t),
           NEW u \in Targets
    PROVE  TargetInv(u)'
<1>1. /\ clock \in Nat /\ clock' = clock
      /\ UNCHANGED <<rows, handler, pushed, life, states, orphaned, deletes>>
  BY DEF IInv, TypeOK, Create, ReadForUpdate, Update, dbVars, fsmVars, auxVars
<1>2. Stored(u) => Stored(u)'
  BY DEF Create, ReadForUpdate, Update, SaveTarget, Stored, Put, dbVars
<1> QED
  BY <1>1, <1>2, Untouched DEF IInv

LEMMA InvDelete ==
    ASSUME IInv, NEW t \in Targets, Delete(t), NEW u \in Targets
    PROVE  TargetInv(u)'
<1> USE DEF IInv, fsmVars
<1>1. /\ TypeOK /\ TargetInv(u) /\ TargetInv(t) /\ clock \in Nat /\ clock' = clock
      /\ rows \in [Targets -> Seq(Row)]
      /\ rows' = IF cascades THEN [rows EXCEPT ![t] = <<>>] ELSE rows
      /\ stored' = Without(stored, {t}) /\ deletes' = deletes \union {t}
      /\ UNCHANGED <<handler, pushed, life, states, orphaned>>
  BY DEF Delete, TypeOK
<1>2. CASE u # t
  <2>1. rows'[u] = rows[u] /\ (u \in deletes' <=> u \in deletes)
    BY <1>1, <1>2
  <2>2. Stored(u) => Stored(u)'
    BY <1>1, <1>2 DEF Stored, Without
  <2> QED
    BY <1>1, <2>1, <2>2, Untouched
<1>3. CASE u = t
  <2>1. /\ t \in deletes' /\ Holds(t)' = Holds(t) /\ Pending(t)' = Pending(t)
        /\ Entry(t)' = Entry(t)
    BY <1>1 DEF Holds, Pending, Entry
  <2>2. \/ rows'[t] = <<>> /\ Len(rows'[t]) = 0
        \/ rows'[t] = rows[t] /\ LastRow(t)' = LastRow(t)
    <3>1. Len(<<>>) = 0
      OBVIOUS
    <3> QED
      BY <1>1, <3>1 DEF LastRow
  <2>3. GhostInv(t)' /\ PushInv(t)' /\ LogInv(t)'
    BY <1>1, <2>1 DEF TargetInv, GhostInv, PushInv, LogInv
  <2>4. ClockInv(t)' /\ LifeInv(t)'
    BY <1>1, <2>1, <2>2 DEF TargetInv, ClockInv, LifeInv
  <2>5. ChainInv(t)'
    BY <1>1, <2>1, <2>2 DEF TargetInv, ChainInv
  <2>6. LogChains(t)'
    BY <1>1, <2>2 DEF TargetInv, LogChains
  <2> QED
    BY <1>3, <2>3, <2>4, <2>5, <2>6 DEF TargetInv
<1> QED
  BY <1>2, <1>3

LEMMA InvForget ==
    ASSUME IInv, NEW t \in Targets, Forget(t), NEW u \in Targets
    PROVE  TargetInv(u)'
<1> USE DEF IInv, dbVars
<1>1. /\ TypeOK /\ TargetInv(u) /\ TargetInv(t) /\ clock \in Nat /\ clock' = clock
      /\ life \in [Targets -> Nat]
      /\ states' = Without(states, {t}) /\ deletes' = deletes \ {t}
      /\ life' = [life EXCEPT ![t] = @ + 1]
      /\ orphaned' = IF handler[t].phase = "read" THEN orphaned \union {t}
                      ELSE orphaned \ {t}
      /\ UNCHANGED <<rows, handler, pushed, stored>>
  BY DEF Forget, Anew, TypeOK
<1>2. CASE u # t
  <2>1. /\ u \in DOMAIN states' <=> u \in DOMAIN states
        /\ u \in DOMAIN states => states'[u] = states[u]
        /\ life'[u] = life[u] /\ (u \in deletes' <=> u \in deletes)
        /\ u \in orphaned => u \in orphaned'
    BY <1>1, <1>2 DEF Without
  <2>2. /\ rows'[u] = rows[u] /\ handler'[u] = handler[u] /\ pushed'[u] = pushed[u]
        /\ clock' \in Nat /\ clock' >= clock /\ (Stored(u) => Stored(u)')
    BY <1>1 DEF Stored
  <2>3. TypeOK /\ TargetInv(u)
    BY <1>1
  <2> HIDE DEF IInv
  <2> QED
    BY <2>1, <2>2, <2>3, Untouched
<1>3. CASE u = t
  <2>1. t \notin DOMAIN states' /\ life'[t] = life[t] + 1
    BY <1>1 DEF Without
  <2>2. GhostInv(t)' /\ PushInv(t)'
    BY <1>1, <2>1 DEF GhostInv, PushInv
  <2> QED
    BY <1>1, <1>3, <2>1, <2>2, Renewed DEF TargetInv
<1> QED
  BY <1>2, <1>3

LEMMA InvSetSilent ==
    ASSUME IInv, NEW t \in Targets, NEW silent \in BOOLEAN, SetSilent(t, silent),
           NEW u \in Targets
    PROVE  TargetInv(u)'
<1> USE DEF IInv, dbVars
<1> DEFINE s == Entry(t)
           to == IF silent THEN "SILENT"
                 ELSE IF s.status = "SILENT" THEN "UNKNOWN" ELSE s.status
           n == [s EXCEPT !.status = to]
<1>1. /\ TypeOK /\ TargetInv(u) /\ TargetInv(t) /\ clock \in Nat /\ clock' = clock
      /\ life \in [Targets -> Nat] /\ s \in TargetState
      /\ orphaned' = IF Stored(t) THEN orphaned ELSE orphaned \union {t}
      /\ UNCHANGED <<rows, handler, pushed, stored, deletes>>
  BY EntryType DEF SetSilent, TypeOK
<1>2. states' = Put(states, t, n) /\ n.status = to
  BY <1>1 DEF SetSilent, TargetState
<1>3. IF to # s.status THEN life' = [life EXCEPT ![t] = @ + 1] ELSE life' = life
  BY DEF SetSilent, Anew
<1>4. to \in {s.status, "SILENT", "UNKNOWN"}
  OBVIOUS
<1> HIDE DEF n, to
<1>5. CASE u # t
  <2>1. /\ u \in DOMAIN states' <=> u \in DOMAIN states
        /\ u \in DOMAIN states => states'[u] = states[u]
        /\ life'[u] = life[u]
        /\ u \in orphaned => u \in orphaned'
    BY <1>1, <1>2, <1>3, <1>5 DEF Put
  <2> QED
    BY <1>1, <2>1, Untouched DEF Stored
<1>6. CASE u = t
  <2>1. /\ t \in DOMAIN states' /\ states'[t].status = to /\ Entry(t)'.status = to
        /\ t \in DOMAIN states => s = states[t]
        /\ t \notin DOMAIN states => s.status = "UNKNOWN"
    BY <1>1, <1>2 DEF Put, Entry, NewState
  <2>2. Holds(t)' = Holds(t) /\ LastRow(t)' = LastRow(t)
    BY <1>1 DEF Holds, LastRow
  <2>3. GhostInv(t)' /\ PushInv(t)'
    BY <1>1, <1>4, <2>1, <2>2 DEF TargetInv, GhostInv, PushInv, Stored
  <2>4. CASE to = s.status
    <3>1. life' = life /\ Pending(t)' = Pending(t)
      BY <1>1, <1>3, <2>4 DEF Pending
    <3>2. ClockInv(t)' /\ LifeInv(t)' /\ LogChains(t)'
      BY <1>1, <2>2, <3>1 DEF TargetInv, ClockInv, LifeInv, LogChains
    <3>3. ChainInv(t)'
      BY <1>1, <2>1, <2>2, <2>4, <3>1 DEF TargetInv, ChainInv
    <3>4. LogInv(t)'
      BY <1>1, <2>2, <3>1 DEF TargetInv, LogInv
    <3> QED
      BY <1>6, <2>3, <3>2, <3>3, <3>4 DEF TargetInv
  <2>5. CASE to # s.status
    <3>1. life'[t] = life[t] + 1
      BY <1>1, <1>3, <2>5
    <3> QED
      BY <1>1, <1>6, <2>3, <3>1, Renewed DEF TargetInv
  <2> QED
    BY <2>4, <2>5
<1> QED
  BY <1>5, <1>6

LEMMA InvRestart ==
    ASSUME IInv, Restart, NEW t \in Targets
    PROVE  TargetInv(t)'
<1>1. /\ TypeOK /\ TargetInv(t)
      /\ life'[t] = life[t] + 1 /\ rows' = rows /\ clock' = clock
      /\ handler'[t] = Idle /\ pushed'[t] = {} /\ t \notin DOMAIN states'
  BY EmptyProperties DEF Restart, IInv
<1>2. GhostInv(t)' /\ PushInv(t)'
  BY <1>1 DEF GhostInv, PushInv, Idle
<1> QED
  BY <1>1, <1>2, Renewed DEF TargetInv

LEMMA InvStep == IInv /\ [Next]_vars => IInv'
<1> SUFFICES ASSUME IInv, [Next]_vars PROVE IInv'
  OBVIOUS
<1>1. TypeOK'
  BY TypeStep DEF IInv
<1>2. ASSUME NEW u \in Targets
      PROVE  TargetInv(u)'
  <2>1. CASE UNCHANGED vars
    <3>1. /\ clock \in Nat /\ clock' = clock /\ Stored(u)' = Stored(u)
          /\ UNCHANGED <<rows, handler, pushed, life, states, orphaned, deletes>>
      BY <2>1 DEF vars, dbVars, fsmVars, auxVars, IInv, TypeOK, Stored
    <3> QED
      BY <3>1, Untouched DEF IInv
  <2>2. CASE Next
    BY <2>2, InvReceive, InvProcess, InvSave, InvPush, InvWrites, InvDelete,
       InvForget, InvSetSilent, InvRestart DEF Next
  <2> QED
    BY <2>1, <2>2
<1> QED
  BY <1>1, <1>2 DEF IInv

\* The inductive invariant of the server holds throughout.
THEOREM InductiveInvariant == Spec => []IInv
BY InvInit, InvStep, PTL DEF Spec

-----------------------------------------------------------------------------
\* The log of a target chains, in every life it has: no event is lost, doubled or
\* out of order within one.
THEOREM LogsChain == Spec => []SavedEventsChain
<1>1. IInv => SavedEventsChain
  BY DEF IInv, TargetInv, LogChains, SavedEventsChain
<1> QED
  BY <1>1, InductiveInvariant, PTL

\* Once nothing is on its way, a status that probing has reached is the one that
\* was announced last.
THEOREM AnnouncedIsCurrent == Spec => []PushedIsCurrent
<1>1. ASSUME IInv, NEW t \in DOMAIN states, Settled(t)
      PROVE  t \in Targets /\ PushInv(t) /\ ~Holds(t)
  BY <1>1 DEF IInv, TypeOK, TargetInv, Settled, Holds
<1>2. IInv => PushedIsCurrent
  BY <1>1 DEF PushedIsCurrent, PushInv
<1> QED
  BY <1>2, InductiveInvariant, PTL

\* The log and the listeners agree on the last event of every target.
THEOREM LogsAgree == Spec => []LogAgreesWithPush
<1>1. ASSUME IInv, NEW t \in Targets, Settled(t), t \notin deletes
      PROVE  LET inLog == rows[t] # <<>> /\ LastRow(t).life = life[t]
                 told  == \E row \in pushed[t] : row.life = life[t]
             IN  (inLog <=> told) /\ (inLog => pushed[t] = {LastRow(t)})
  BY <1>1 DEF IInv, TargetInv, LogInv, Settled
<1>2. IInv => LogAgreesWithPush
  BY <1>1 DEF LogAgreesWithPush, LastRow
<1> QED
  BY <1>2, InductiveInvariant, PTL

\* A state outlives its target only for one of the known causes.
THEOREM GhostsAreExplained == Spec => []GhostsHaveCause
<1>1. IInv => GhostsHaveCause
  BY DEF IInv, TypeOK, TargetInv, GhostInv, GhostsHaveCause
<1> QED
  BY <1>1, InductiveInvariant, PTL
=============================================================================
