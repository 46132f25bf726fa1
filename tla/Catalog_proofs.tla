--------------------------- MODULE Catalog_proofs ---------------------------
(* Proofs about Catalog.tla, for every set of targets, files and requests.  *)
EXTENDS Catalog, FiniteSetTheorems, TLAPS

(* The agent and the server derive the same probe settings from a monitor:  *)
(* the conversions of cmd/conmon/probe.go:87 and cmd/conmon/server.go:143,  *)
(* each written from its own code, agree on these fields.                   *)
LEMMA AgentProbesAlike ==
    ASSUME NEW spec \in Specs,
           NEW x \in {"name", "host", "protocol", "interval", "timeout"}
    PROVE  AgentTarget(spec)[x] = SpecToTarget(spec)[x]
<1>1. CASE x = "name"
  BY <1>1 DEF AgentTarget, SpecToTarget, DefaultTarget
<1>2. CASE x = "host"
  BY <1>2 DEF AgentTarget, SpecToTarget, DefaultTarget
<1>3. CASE x = "protocol"
  BY <1>3 DEF AgentTarget, SpecToTarget, DefaultTarget
<1>4. CASE x = "interval"
  BY <1>4 DEF AgentTarget, SpecToTarget, DefaultTarget, IntervalOf
<1>5. CASE x = "timeout"
  BY <1>5 DEF AgentTarget, SpecToTarget, DefaultTarget, TimeoutOf
<1> QED
  BY <1>1, <1>2, <1>3, <1>4, <1>5

-----------------------------------------------------------------------------
(* The types of the rows the server computes.                               *)
LEMMA DurationTypes ==
    ASSUME NEW spec \in Specs
    PROVE  IntervalOf(spec) \in Int /\ TimeoutOf(spec) \in Int
BY DEF IntervalOf, TimeoutOf, DefaultTarget, Specs

LEMMA EmptyTargetType == EmptyTarget \in Targets
BY DEF EmptyTarget, Targets

LEMMA DefaultTargetType == DefaultTarget \in Targets
BY DEF DefaultTarget, Targets, Fields

LEMMA SpecToTargetType ==
    ASSUME NEW spec \in Specs
    PROVE  SpecToTarget(spec) \in Targets
BY DurationTypes DEF SpecToTarget, DefaultTarget, Targets, Fields, Specs

LEMMA OverlayType ==
    ASSUME NEW over, IsPartial(over), NEW base \in Targets
    PROVE  Overlay(over, base) \in Targets
BY DEF IsPartial, Overlay, Targets

LEMMA OverlayPartial ==
    ASSUME NEW over, IsPartial(over), NEW base, IsPartial(base)
    PROVE  IsPartial(Overlay(over, base))
BY DEF IsPartial, Overlay

LEMMA PostTargetType ==
    ASSUME NEW body, IsPartial(body)
    PROVE  PostTarget(body) \in Targets
<1>1. Overlay(body, EmptyTarget) \in Targets
  BY OverlayType, EmptyTargetType
<1> DEFINE t == Overlay(body, EmptyTarget)
           i == IF t.interval = 0 THEN DefaultTarget.interval ELSE t.interval
           m == IF t.timeout = 0 THEN DefaultTarget.timeout ELSE t.timeout
<1>2. i \in Int /\ m \in Int
  BY <1>1 DEF DefaultTarget, Targets, Fields
<1>3. PostTarget(body) = [t EXCEPT !.interval = i, !.timeout = m]
  BY DEF PostTarget
<1> HIDE DEF t, i, m
<1>4. t \in [Fields -> Int]
  BY <1>1 DEF t, Targets
<1> QED
  BY <1>2, <1>3, <1>4 DEF Targets

-----------------------------------------------------------------------------
(* Type correctness.                                                        *)
LEMMA TypeInit == Init => TypeOK
<1>1. IsPartial(Nothing)
  BY DEF IsPartial, Nothing
<1>2. IdlePut \in Put
  BY DEF IdlePut, Put
<1>3. ASSUME Init
      PROVE  /\ DOMAIN owed = Ids /\ \A t \in Ids : IsPartial(owed[t])
             /\ puts \in [Requests -> Put]
             /\ \A r \in Requests : puts[r] = IdlePut
             /\ \A i \in 1..Len(file) : file[i] \in Specs /\ SpecId(file[i]) \in Ids
  BY <1>1, <1>2, <1>3 DEF Init
<1>4. ASSUME Init
      PROVE  /\ stored \in [Ids -> Targets \union {NoTarget}]
             /\ sched \in [Ids -> Targets \union {NoTarget}]
             /\ phase = "down" /\ next \in Nat \ {0}
             /\ touched \subseteq Ids /\ created \subseteq touched
             /\ gone \subseteq Ids
             /\ puts = [r \in Requests |-> IdlePut] /\ walk = NoWalk
  BY <1>4 DEF Init
<1>5. Init => partial \in BOOLEAN
  BY DEF Init
<1> QED
  BY <1>3, <1>4, <1>5 DEF TypeOK

LEMMA SpecIdType ==
    ASSUME NEW f \in Files, NEW i \in 1..Len(f.monitors)
    PROVE  f.monitors[i] \in Specs /\ SpecId(f.monitors[i]) \in Ids
BY FileAssumption DEF FileAssumption, SpecId, Specs

\* Marking the requests that are overtaken changes nothing else of them.
LEMMA OvertakenProperties ==
    ASSUME TypeOK, NEW t \in Ids, NEW r
    PROVE  /\ Overtaken(t, r) \in [Requests -> Put]
           /\ \A s \in Requests :
                 /\ \/ Overtaken(t, r)[s] = IdlePut
                    \/ /\ Overtaken(t, r)[s].id \in Ids
                       /\ Overtaken(t, r)[s].read \in Targets
                 /\ Overtaken(t, r)[s].id = puts[s].id
                 /\ Overtaken(t, r)[s].read = puts[s].read
                 /\ puts[s] = IdlePut => Overtaken(t, r)[s] = IdlePut
                 /\ s # r /\ puts[s].id = t => Overtaken(t, r)[s].stale = TRUE
                 /\ puts[s].id # t => Overtaken(t, r)[s] = puts[s]
<1>1. \A s \in Requests : puts[s] \in Put
  BY DEF TypeOK
<1>2. t # NoId
  BY IdAssumption DEF IdAssumption
<1>3. ASSUME NEW s \in Requests, s # r, puts[s].id = t
      PROVE  /\ Overtaken(t, r)[s] = [puts[s] EXCEPT !.stale = TRUE]
             /\ Overtaken(t, r)[s] \in Put
             /\ Overtaken(t, r)[s].id = puts[s].id
             /\ Overtaken(t, r)[s].read = puts[s].read
             /\ Overtaken(t, r)[s].stale = TRUE
             /\ puts[s] # IdlePut
  <2>1. Overtaken(t, r)[s] = [puts[s] EXCEPT !.stale = TRUE]
    BY <1>3 DEF Overtaken
  <2>2. puts[s] # IdlePut
    BY <1>2, <1>3 DEF IdlePut
  <2> QED
    BY <1>1, <2>1, <2>2 DEF Put
<1>4. ASSUME NEW s \in Requests, s = r \/ puts[s].id # t
      PROVE  Overtaken(t, r)[s] = puts[s]
  BY <1>4 DEF Overtaken
<1>5. Overtaken(t, r) = [s \in Requests |-> Overtaken(t, r)[s]]
  BY DEF Overtaken
<1>6. \A s \in Requests : Overtaken(t, r)[s] \in Put
  BY <1>1, <1>3, <1>4
<1>7. Overtaken(t, r) \in [Requests -> Put]
  <2> DEFINE o == Overtaken(t, r)
  <2> HIDE DEF o
  <2>1. o = [s \in Requests |-> o[s]] /\ \A s \in Requests : o[s] \in Put
    BY <1>5, <1>6 DEF o
  <2> QED
    BY <2>1 DEF o
<1>8. \A s \in Requests : puts[s] = IdlePut \/ (puts[s].id \in Ids
                                              /\ puts[s].read \in Targets)
  BY DEF TypeOK
<1> QED
  BY <1>3, <1>4, <1>7, <1>8

\* A write by the API: what it leaves of the bookkeeping has its types.
LEMMA WriteTypes ==
    ASSUME TypeOK, NEW t \in Ids, Written(t), phase = "serving",
           NEW row \in Targets \union {NoTarget},
           stored' = [stored EXCEPT ![t] = row],
           gone' \subseteq Ids, created' \subseteq created \union {t},
           NEW o, IsPartial(o), owed' = [owed EXCEPT ![t] = o],
           puts' \in [Requests -> Put],
           \A r \in Requests : puts'[r] = IdlePut \/ (puts'[r].id \in Ids
                                                     /\ puts'[r].read \in Targets)
    PROVE  TypeOK'
<1>1. /\ stored' \in [Ids -> Targets \union {NoTarget}]
      /\ touched' \subseteq Ids /\ created' \subseteq touched'
  BY DEF TypeOK, Written
<1>2. \A u \in Ids : IsPartial(owed'[u])
  BY DEF TypeOK
<1>3. UNCHANGED <<sched, phase, file, next, partial>>
  BY DEF Written, server
<1>4. \A i \in 1..Len(file') : file'[i] \in Specs /\ SpecId(file'[i]) \in Ids
  BY <1>3 DEF TypeOK
<1> QED
  BY <1>1, <1>2, <1>3, <1>4 DEF TypeOK

LEMMA RowCount == Cardinality(Rows(stored)) \in Nat
<1>1. Rows(stored) \subseteq Ids
  BY DEF Rows
<1>2. IsFiniteSet(Rows(stored))
  BY <1>1, IdAssumption, FS_Subset DEF IdAssumption
<1> QED
  BY <1>2, FS_CardinalityType

LEMMA StartPageSize == PageSize(StartLimit) \in Nat
BY RequestAssumption DEF RequestAssumption, PageSize

LEMMA TypeStep == TypeOK /\ [Next]_vars => TypeOK'
<1> SUFFICES ASSUME TypeOK, [Next]_vars PROVE TypeOK'
  OBVIOUS
<1> USE DEF promises, server
<1>1. ASSUME NEW f \in Files, Start(f) PROVE TypeOK'
  BY <1>1, SpecIdType DEF Start, TypeOK
<1>2. CASE SaveMonitor
  <2> DEFINE t == SpecId(file[next])
             row == SpecToTarget(file[next])
  <2>1. t \in Ids /\ row \in Targets
    BY <1>2, SpecToTargetType DEF SaveMonitor, TypeOK
  <2>2. IsPartial(Nothing)
    BY DEF IsPartial, Nothing
  <2>3. /\ stored' \in [Ids -> Targets \union {NoTarget}]
        /\ sched' \in [Ids -> Targets \union {NoTarget}]
        /\ DOMAIN owed' = Ids /\ \A u \in Ids : IsPartial(owed'[u])
        /\ gone' \subseteq Ids
    <3> HIDE DEF t, row
    <3>1. \/ /\ stored' = [stored EXCEPT ![t] = row]
             /\ sched' = [sched EXCEPT ![t] = row]
             /\ owed' = [owed EXCEPT ![t] = Nothing]
             /\ gone' = gone \ {t}
          \/ UNCHANGED <<stored, sched, owed, gone>>
      BY <1>2 DEF SaveMonitor, t, row
    <3>2. \A u \in Ids : IsPartial(owed'[u])
      <4>1. \A u \in Ids : IsPartial(owed[u])
        BY DEF TypeOK
      <4>2. CASE owed' = [owed EXCEPT ![t] = Nothing]
        BY <2>1, <2>2, <4>1, <4>2
      <4>3. CASE UNCHANGED owed
        BY <4>1, <4>3
      <4> QED
        BY <3>1, <4>2, <4>3
    <3> QED
      BY <2>1, <3>1, <3>2 DEF TypeOK
  <2>4. next' \in Nat \ {0}
    BY <1>2 DEF SaveMonitor, TypeOK
  <2>5. UNCHANGED <<phase, file, puts, walk, touched, created, partial>>
    BY <1>2 DEF SaveMonitor
  <2> QED
    BY <2>3, <2>4, <2>5 DEF TypeOK
<1>3. CASE ListStored
  <2>1. sched' \in [Ids -> Targets \union {NoTarget}]
    <3>1. \/ \E read :
                sched' = [t \in Ids |-> IF t \in read THEN stored[t] ELSE sched[t]]
          \/ UNCHANGED sched
      BY <1>3 DEF ListStored
    <3> QED
      BY <3>1 DEF TypeOK
  <2>2. partial' \in BOOLEAN
    <3>1. (Cardinality(Rows(stored)) > PageSize(StartLimit)) \in BOOLEAN
      BY RowCount, StartPageSize
    <3>2. \/ partial' = (Cardinality(Rows(stored)) > PageSize(StartLimit))
          \/ partial' = TRUE
      BY <1>3, Zenon DEF ListStored
    <3> QED
      BY <3>1, <3>2, Zenon
  <2>3. /\ phase' = "serving" /\ file' = <<>> /\ next' = 1
        /\ UNCHANGED <<stored, puts, walk, touched, created, owed, gone>>
    BY <1>3 DEF ListStored
  <2> QED
    BY <2>1, <2>2, <2>3 DEF TypeOK
<1>4. ASSUME NEW post \in Posts, Create(post) PROVE TypeOK'
  <2>1. PostTarget(post.body) \in Targets
    BY PostTargetType, RequestAssumption DEF RequestAssumption
  <2>2. PICK t \in Ids : /\ stored' = [stored EXCEPT ![t] = PostTarget(post.body)]
                         /\ created' = created \union {t}
                         /\ owed' = [owed EXCEPT ![t] = Nothing]
                         /\ gone' = gone \ {t}
                         /\ puts' = Overtaken(t, NoId)
                         /\ Written(t)
    BY <1>4, RequestAssumption, IdAssumption
    DEF RequestAssumption, IdAssumption, Create
  <2>3. IsPartial(Nothing)
    BY DEF IsPartial, Nothing
  <2>4. phase = "serving"
    BY <1>4 DEF Create, CanWrite
  <2>5. /\ puts' \in [Requests -> Put]
        /\ \A r \in Requests : puts'[r] = IdlePut \/ (puts'[r].id \in Ids
                                                     /\ puts'[r].read \in Targets)
    BY <2>2, OvertakenProperties
  <2>6. gone' \subseteq Ids
    BY <2>2 DEF TypeOK
  <2> QED
    BY <2>1, <2>2, <2>3, <2>4, <2>5, <2>6, WriteTypes
<1>5. ASSUME NEW r \in Requests, NEW t \in Ids, ReadForUpdate(r, t) PROVE TypeOK'
  <2> DEFINE p == [id |-> t, read |-> stored[t], stale |-> FALSE]
  <2>1. p \in Put /\ p.id \in Ids /\ p.read \in Targets
    BY <1>5 DEF ReadForUpdate, TypeOK, Put
  <2>2. puts' = [puts EXCEPT ![r] = p]
    BY <1>5 DEF ReadForUpdate
  <2> HIDE DEF p
  <2>3. /\ puts' \in [Requests -> Put]
        /\ \A s \in Requests : puts'[s] = IdlePut \/ (puts'[s].id \in Ids
                                                     /\ puts'[s].read \in Targets)
    BY <2>1, <2>2 DEF TypeOK
  <2>4. phase = "serving" /\ UNCHANGED <<stored, sched, phase, file, next, touched,
                                         created, owed, gone, partial>>
    BY <1>5 DEF ReadForUpdate
  <2> QED
    BY <2>3, <2>4 DEF TypeOK
<1>6. ASSUME NEW r \in Requests, NEW body \in Changes, Update(r, body) PROVE TypeOK'
  <2> DEFINE t == puts[r].id
             row == Overlay(body, puts[r].read)
             o == IF puts[r].stale THEN body ELSE Overlay(body, owed[t])
  <2>1. t \in Ids /\ puts[r].read \in Targets
    BY <1>6 DEF Update, TypeOK, IdlePut
  <2>2. IsPartial(body)
    BY RequestAssumption DEF RequestAssumption
  <2>3. row \in Targets
    BY <2>1, <2>2, OverlayType
  <2>4. IsPartial(o)
    BY <2>1, <2>2, OverlayPartial DEF TypeOK
  <2>5. /\ phase = "serving" /\ Written(t)
        /\ stored' = [stored EXCEPT ![t] = row]
        /\ owed' = [owed EXCEPT ![t] = o]
        /\ created' = created
        /\ gone' \subseteq gone
        /\ puts' = [Overtaken(t, r) EXCEPT ![r] = IdlePut]
    BY <1>6 DEF Update, CanWrite
  <2>6. IdlePut \in Put
    BY DEF IdlePut, Put
  <2> HIDE DEF t, row, o
  <2>7. /\ puts' \in [Requests -> Put]
        /\ \A s \in Requests : puts'[s] = IdlePut \/ (puts'[s].id \in Ids
                                                     /\ puts'[s].read \in Targets)
    BY <2>1, <2>5, <2>6, OvertakenProperties
  <2>8. gone' \subseteq Ids /\ created' \subseteq created \union {t}
    BY <2>5 DEF TypeOK
  <2> QED
    BY <2>1, <2>3, <2>4, <2>5, <2>7, <2>8, WriteTypes
<1>7. ASSUME NEW r \in Requests, UpdateFails(r) PROVE TypeOK'
  <2>1. IdlePut \in Put
    BY DEF IdlePut, Put
  <2> QED
    BY <1>7, <2>1 DEF UpdateFails, TypeOK
<1>8. ASSUME NEW t \in Ids, Delete(t) PROVE TypeOK'
  <2>1. IsPartial(Nothing)
    BY DEF IsPartial, Nothing
  <2>2. /\ puts' \in [Requests -> Put]
        /\ \A r \in Requests : puts'[r] = IdlePut \/ (puts'[r].id \in Ids
                                                     /\ puts'[r].read \in Targets)
    <3>1. puts' = Overtaken(t, NoId)
      BY <1>8 DEF Delete
    <3> QED
      BY <3>1, OvertakenProperties
  <2>3. /\ phase = "serving" /\ Written(t)
        /\ stored' = [stored EXCEPT ![t] = NoTarget]
        /\ owed' = [owed EXCEPT ![t] = Nothing]
        /\ created' \subseteq created \union {t}
        /\ gone' \subseteq Ids
    BY <1>8 DEF Delete, CanWrite, TypeOK
  <2> QED
    BY <2>1, <2>2, <2>3, WriteTypes
<1>9. ASSUME NEW q \in Queries, BeginWalk(q) PROVE TypeOK'
  BY <1>9 DEF BeginWalk, TypeOK
<1>10. CASE Count
  BY <1>10 DEF Count, TypeOK, NoWalk
<1>11. CASE Select
  <2>1. phase = "serving"
    BY <1>11 DEF Select, TypeOK, NoWalk
  <2> QED
    BY <1>11, <2>1 DEF Select, TypeOK
<1>12. CASE Stop
  <2>1. IdlePut \in Put
    BY DEF IdlePut, Put
  <2>2. sched' \in [Ids -> Targets \union {NoTarget}]
    BY <1>12 DEF Stop
  <2>3. /\ phase' = "down" /\ file' = <<>> /\ next' = 1 /\ partial' = FALSE
        /\ touched' = {} /\ created' = {} /\ walk' = NoWalk
        /\ puts' = [r \in Requests |-> IdlePut]
        /\ UNCHANGED <<stored, owed, gone>>
    BY <1>12 DEF Stop
  <2>4. puts' \in [Requests -> Put] /\ \A r \in Requests : puts'[r] = IdlePut
    BY <2>1, <2>3
  <2>5. partial' \in BOOLEAN
    BY <2>3
  <2> QED
    BY <2>2, <2>3, <2>4, <2>5 DEF TypeOK
<1>13. CASE UNCHANGED vars
  BY <1>13 DEF vars, TypeOK
<1> QED
  BY <1>1, <1>2, <1>3, <1>4, <1>5, <1>6, <1>7, <1>8, <1>9, <1>10, <1>11, <1>12,
     <1>13 DEF Next

(* Every state has its types, and requests and walks exist only while the   *)
(* server serves.                                                           *)
THEOREM TypeCorrect == Spec => []TypeOK
BY TypeInit, TypeStep, PTL DEF Spec
-----------------------------------------------------------------------------
(* The scheduler agrees with the store.                                     *)

\* A start that has room for all rows reads all of them.
LEMMA FirstPageIsAll ==
    ASSUME NEW S, IsFiniteSet(S), NEW order \in Listings(S),
           NEW limit \in Nat, Cardinality(S) <= limit
    PROVE  Page(order, 0, limit) = S
<1>1. /\ order \in [1..Cardinality(S) -> S]
      /\ \A t \in S : \E i \in DOMAIN order : order[i] = t
  BY DEF Listings
<1>2. Cardinality(S) \in Nat
  BY FS_CardinalityType
<1>3. ASSUME NEW i \in DOMAIN order
      PROVE  0 < i /\ i <= 0 + limit
  BY <1>1, <1>2
<1> QED
  BY <1>1, <1>3 DEF Page

LEMMA ScheduledStep ==
    TypeOK /\ ScheduledIsStored /\ [Next]_vars => ScheduledIsStored'
<1> SUFFICES ASSUME TypeOK, ScheduledIsStored, [Next]_vars
             PROVE  ScheduledIsStored'
  OBVIOUS
<1> DEFINE Agrees == \A t \in Ids \ touched : sched[t] # NoTarget => sched[t] = stored[t]
           Complete == phase = "serving" /\ ~partial =>
                         \A t \in Ids \ touched : stored[t] # NoTarget => sched[t] # NoTarget
<1> USE DEF promises, server
<1>a. Agrees /\ Complete
  BY DEF ScheduledIsStored
<1>b. SUFFICES Agrees' /\ Complete'
  BY DEF ScheduledIsStored
<1>1. ASSUME NEW f \in Files, Start(f) PROVE Agrees' /\ Complete'
  BY <1>a, <1>1 DEF Start
<1>2. CASE SaveMonitor
  <2> DEFINE t == SpecId(file[next])
             row == SpecToTarget(file[next])
  <2>1. t \in Ids
    BY <1>2 DEF SaveMonitor, TypeOK
  <2>2. /\ phase' = "saving" /\ touched' = touched
        /\ \/ /\ stored' = [stored EXCEPT ![t] = row]
              /\ sched' = [sched EXCEPT ![t] = row]
           \/ UNCHANGED <<stored, sched>>
    BY <1>2 DEF SaveMonitor
  <2> HIDE DEF t, row
  <2> QED
    BY <1>a, <2>1, <2>2 DEF TypeOK
<1>3. CASE ListStored
  <2>1. CASE UNCHANGED sched /\ partial' = TRUE
    BY <1>3, <1>a, <2>1 DEF ListStored
  <2>2. CASE \E order \in Listings(Rows(stored)) :
                /\ sched' = [t \in Ids |->
                       IF t \in Page(order, 0, PageSize(StartLimit)) THEN stored[t]
                       ELSE sched[t]]
                /\ partial' = (Cardinality(Rows(stored)) > PageSize(StartLimit))
    <3>1. PICK order \in Listings(Rows(stored)) :
                /\ sched' = [t \in Ids |->
                       IF t \in Page(order, 0, PageSize(StartLimit)) THEN stored[t]
                       ELSE sched[t]]
                /\ partial' = (Cardinality(Rows(stored)) > PageSize(StartLimit))
      BY <2>2
    <3>2. UNCHANGED <<stored, touched>>
      BY <1>3 DEF ListStored
    <3>3. Agrees'
      BY <1>a, <3>1, <3>2
    <3>4. ASSUME ~partial' PROVE Page(order, 0, PageSize(StartLimit)) = Rows(stored)
      <4>1. ~(Cardinality(Rows(stored)) > PageSize(StartLimit))
        BY <3>1, <3>4, Zenon
      <4>2. Cardinality(Rows(stored)) <= PageSize(StartLimit)
        BY <4>1, RowCount, StartPageSize
      <4>3. IsFiniteSet(Rows(stored))
        BY IdAssumption, FS_Subset DEF IdAssumption, Rows
      <4> QED
        BY <4>2, <4>3, StartPageSize, FirstPageIsAll
    <3>5. Complete'
      BY <3>1, <3>2, <3>4 DEF Rows
    <3> QED
      BY <3>3, <3>5
  <2> QED
    BY <1>3, <2>1, <2>2, Zenon DEF ListStored
<1>4. ASSUME NEW t \in Ids, Written(t), NEW row, stored' = [stored EXCEPT ![t] = row]
      PROVE  Agrees' /\ Complete'
  BY <1>a, <1>4 DEF Written, TypeOK
<1>5. ASSUME NEW post \in Posts, Create(post) PROVE Agrees' /\ Complete'
  <2>1. PICK t \in Ids : /\ Written(t)
                         /\ stored' = [stored EXCEPT ![t] = PostTarget(post.body)]
    BY <1>5, RequestAssumption, IdAssumption
    DEF RequestAssumption, IdAssumption, Create
  <2> QED
    BY <1>4, <2>1
<1>6. ASSUME NEW r \in Requests, NEW body \in Changes, Update(r, body)
      PROVE  Agrees' /\ Complete'
  <2>1. puts[r].id \in Ids
    BY <1>6 DEF Update, TypeOK, IdlePut
  <2> QED
    BY <1>4, <1>6, <2>1 DEF Update
<1>7. ASSUME NEW t \in Ids, Delete(t) PROVE Agrees' /\ Complete'
  BY <1>4, <1>7 DEF Delete
<1>8. CASE Stop
  BY <1>8 DEF Stop
<1>9. CASE \/ \E r \in Requests : \/ \E t \in Ids : ReadForUpdate(r, t)
                                  \/ UpdateFails(r)
           \/ \E q \in Queries : BeginWalk(q)
           \/ Count \/ Select
           \/ UNCHANGED vars
  <2>1. UNCHANGED <<stored, sched, phase, touched, partial>>
    BY <1>9 DEF ReadForUpdate, UpdateFails, BeginWalk, Count, Select, vars
  <2> QED
    BY <1>a, <2>1
<1> QED
  BY <1>1, <1>2, <1>3, <1>5, <1>6, <1>7, <1>8, <1>9 DEF Next

(* Whatever fails at a start and in whichever order requests come after it, *)
(* the scheduler holds what the store holds, save for the targets the API   *)
(* wrote since and the rows the start did not read.                         *)
THEOREM SchedulerFollowsStore == Spec => []ScheduledIsStored
<1>1. Init => ScheduledIsStored
  BY DEF Init, ScheduledIsStored
<1> QED
  BY <1>1, TypeCorrect, ScheduledStep, PTL DEF Spec
-----------------------------------------------------------------------------
(* What clients were promised.                                              *)

\* A request that was not overtaken still holds the row as it is stored: what
\* makes writing the whole row back harmless.
ReadIsCurrent ==
    \A r \in Requests : puts[r].id # NoId /\ puts[r].stale = FALSE =>
        stored[puts[r].id] = puts[r].read

Kept(t) == /\ t \notin gone
           /\ \A x \in DOMAIN owed[t] : stored[t][x] = owed[t][x]

PromiseInv == ReadIsCurrent /\ \A t \in Ids : stored[t] # NoTarget => Kept(t)

LEMMA PromiseInit == Init => PromiseInv
BY DEF Init, PromiseInv, ReadIsCurrent, IdlePut

\* A write by the API keeps the promises about the other targets, and marks the
\* other requests that read the row.
LEMMA WriteKeeps ==
    ASSUME TypeOK, PromiseInv, NEW t \in Ids, NEW r, NEW row, NEW o,
           stored' = [stored EXCEPT ![t] = row],
           owed' = [owed EXCEPT ![t] = o],
           gone' \ {t} = gone \ {t},
           \A s \in Requests \ {r} : puts'[s] = Overtaken(t, r)[s],
           r \in Requests => puts'[r] = IdlePut,
           row # NoTarget => t \notin gone' /\ \A x \in DOMAIN o : row[x] = o[x]
    PROVE  PromiseInv'
<1>1. ASSUME NEW s \in Requests, puts'[s].id # NoId, puts'[s].stale = FALSE
      PROVE  stored'[puts'[s].id] = puts'[s].read
  <2>1. s # r
    BY <1>1 DEF IdlePut
  <2>2. puts'[s] = Overtaken(t, r)[s]
    BY <2>1
  <2>3. puts[s].id # t
    <3>1. puts[s].id = t => Overtaken(t, r)[s].stale = TRUE
      BY <2>1, OvertakenProperties
    <3> QED
      BY <1>1, <2>2, <3>1
  <2>4. puts'[s] = puts[s]
    <3>1. Overtaken(t, r)[s] = puts[s]
      BY <2>3, OvertakenProperties
    <3> QED
      BY <2>2, <3>1
  <2>5. stored[puts[s].id] = puts[s].read
    BY <1>1, <2>4 DEF PromiseInv, ReadIsCurrent
  <2>6. puts[s].id \in Ids
    BY <1>1, <2>4 DEF TypeOK, IdlePut
  <2> QED
    BY <2>3, <2>4, <2>5, <2>6 DEF TypeOK
<1>2. ASSUME NEW u \in Ids, stored'[u] # NoTarget
      PROVE  /\ u \notin gone'
             /\ \A x \in DOMAIN owed'[u] : stored'[u][x] = owed'[u][x]
  <2>1. CASE u = t
    BY <1>2, <2>1 DEF TypeOK
  <2>2. CASE u # t
    <3>1. stored'[u] = stored[u] /\ owed'[u] = owed[u]
      BY <2>2 DEF TypeOK
    <3>2. u \notin gone' <=> u \notin gone
      BY <2>2
    <3> QED
      BY <1>2, <3>1, <3>2 DEF PromiseInv, Kept
  <2> QED
    BY <2>1, <2>2
<1> QED
  BY <1>1, <1>2 DEF PromiseInv, ReadIsCurrent, Kept
LEMMA PromiseStep == TypeOK /\ PromiseInv /\ [Next]_vars => PromiseInv'
<1> SUFFICES ASSUME TypeOK, PromiseInv, [Next]_vars PROVE PromiseInv'
  OBVIOUS
<1> USE DEF promises, server
<1>1. NoId \notin Ids /\ NoId \notin Requests /\ NoTarget \notin Targets
  BY IdAssumption DEF IdAssumption
<1>2. CASE SaveMonitor
  <2>1. \A r \in Requests : puts'[r].id = NoId
    BY <1>2 DEF SaveMonitor, TypeOK, IdlePut
  <2>2. ASSUME NEW u \in Ids, stored'[u] # NoTarget PROVE Kept(u)'
    <3>1. CASE UNCHANGED <<stored, owed, gone>>
      BY <2>2, <3>1 DEF PromiseInv, Kept
    <3>2. CASE /\ stored' = [stored EXCEPT ![SpecId(file[next])] = SpecToTarget(file[next])]
               /\ owed' = [owed EXCEPT ![SpecId(file[next])] = Nothing]
               /\ gone' = gone \ {SpecId(file[next])}
      <4> DEFINE t == SpecId(file[next])
                 row == SpecToTarget(file[next])
      <4> HIDE DEF t, row
      <4>1. /\ stored' = [stored EXCEPT ![t] = row]
            /\ owed' = [owed EXCEPT ![t] = Nothing]
            /\ gone' = gone \ {t}
        BY <3>2 DEF t, row
      <4>2. CASE u = t
        BY <4>1, <4>2 DEF TypeOK, Kept, Nothing
      <4>3. CASE u # t
        BY <2>2, <4>1, <4>3 DEF TypeOK, PromiseInv, Kept
      <4> QED
        BY <4>2, <4>3
    <3> QED
      BY <1>2, <3>1, <3>2 DEF SaveMonitor
  <2> QED
    BY <2>1, <2>2 DEF PromiseInv, ReadIsCurrent
<1>3. ASSUME NEW post \in Posts, Create(post) PROVE PromiseInv'
  <2>1. PICK t \in Ids : /\ stored' = [stored EXCEPT ![t] = PostTarget(post.body)]
                         /\ owed' = [owed EXCEPT ![t] = Nothing]
                         /\ gone' = gone \ {t}
                         /\ puts' = Overtaken(t, NoId)
    BY <1>3, RequestAssumption, IdAssumption
    DEF RequestAssumption, IdAssumption, Create
  <2>2. \A x \in DOMAIN Nothing : PostTarget(post.body)[x] = Nothing[x]
    BY DEF Nothing
  <2> QED
    BY <1>1, <2>1, <2>2, WriteKeeps
<1>4. ASSUME NEW r \in Requests, NEW t \in Ids, ReadForUpdate(r, t)
      PROVE  PromiseInv'
  <2>1. puts' = [puts EXCEPT ![r] = [id |-> t, read |-> stored[t], stale |-> FALSE]]
    BY <1>4 DEF ReadForUpdate
  <2>2. UNCHANGED <<stored, owed, gone>>
    BY <1>4 DEF ReadForUpdate
  <2>3. ASSUME NEW s \in Requests, puts'[s].id # NoId, puts'[s].stale = FALSE
        PROVE  stored'[puts'[s].id] = puts'[s].read
    <3>1. CASE s = r
      BY <2>1, <2>2, <3>1 DEF TypeOK
    <3>2. CASE s # r
      BY <2>1, <2>2, <2>3, <3>2 DEF TypeOK, PromiseInv, ReadIsCurrent
    <3> QED
      BY <3>1, <3>2
  <2> QED
    BY <2>2, <2>3 DEF PromiseInv, ReadIsCurrent, Kept
<1>5. ASSUME NEW r \in Requests, NEW body \in Changes, Update(r, body)
      PROVE  PromiseInv'
  <2> DEFINE t == puts[r].id
             row == Overlay(body, puts[r].read)
             o == IF puts[r].stale THEN body ELSE Overlay(body, owed[t])
  <2>1. t \in Ids /\ puts[r].read \in Targets /\ puts[r].stale \in BOOLEAN
    BY <1>5 DEF Update, TypeOK, IdlePut, Put
  <2>2. IsPartial(body)
    BY RequestAssumption DEF RequestAssumption
  <2>3. /\ stored' = [stored EXCEPT ![t] = row]
        /\ owed' = [owed EXCEPT ![t] = o]
        /\ gone' = IF puts[r].stale THEN gone \ {t} ELSE gone
        /\ puts' = [Overtaken(t, r) EXCEPT ![r] = IdlePut]
    BY <1>5 DEF Update
  <2>4. t \notin gone' /\ \A x \in DOMAIN o : row[x] = o[x]
    <3>1. CASE puts[r].stale = TRUE
      BY <2>1, <2>2, <2>3, <3>1 DEF Overlay, IsPartial, Targets
    <3>2. CASE puts[r].stale = FALSE
      <4>1. stored[t] = puts[r].read /\ stored[t] # NoTarget
        BY <1>1, <2>1, <3>2 DEF PromiseInv, ReadIsCurrent
      <4>2. Kept(t)
        BY <2>1, <4>1 DEF PromiseInv
      <4>3. o = Overlay(body, owed[t]) /\ gone' = gone
        BY <2>3, <3>2
      <4>4. IsPartial(owed[t])
        BY <2>1 DEF TypeOK
      <4>5. ASSUME NEW x \in DOMAIN Overlay(body, owed[t])
            PROVE  row[x] = Overlay(body, owed[t])[x]
        <5>1. x \in Fields /\ (x \in DOMAIN body \/ x \in DOMAIN owed[t])
          BY <2>2, <4>4, <4>5 DEF Overlay, IsPartial
        <5>2. x \in DOMAIN puts[r].read
          BY <2>1, <5>1 DEF Targets
        <5>3. row[x] = IF x \in DOMAIN body THEN body[x] ELSE puts[r].read[x]
          BY <5>2 DEF Overlay
        <5>4. Overlay(body, owed[t])[x] =
                 IF x \in DOMAIN body THEN body[x] ELSE owed[t][x]
          BY <5>1 DEF Overlay
        <5> QED
          BY <4>1, <4>2, <5>1, <5>3, <5>4 DEF Kept
      <4> QED
        BY <4>2, <4>3, <4>5 DEF Kept
    <3> QED
      BY <2>1, <3>1, <3>2
  <2>5. /\ gone' \ {t} = gone \ {t}
        /\ \A s \in Requests \ {r} : puts'[s] = Overtaken(t, r)[s]
        /\ puts'[r] = IdlePut
    BY <2>1, <2>3, OvertakenProperties
  <2> HIDE DEF t, row, o
  <2> QED
    BY <2>1, <2>3, <2>4, <2>5, WriteKeeps
<1>6. ASSUME NEW t \in Ids, Delete(t) PROVE PromiseInv'
  <2>1. /\ stored' = [stored EXCEPT ![t] = NoTarget]
        /\ owed' = [owed EXCEPT ![t] = Nothing]
        /\ gone' = gone \union {t}
        /\ puts' = Overtaken(t, NoId)
    BY <1>6 DEF Delete
  <2> QED
    BY <1>1, <2>1, WriteKeeps
<1>7. ASSUME NEW r \in Requests, UpdateFails(r) PROVE PromiseInv'
  BY <1>7 DEF UpdateFails, TypeOK, PromiseInv, ReadIsCurrent, Kept, IdlePut
<1>8. ASSUME UNCHANGED <<stored, owed, gone, puts>> PROVE PromiseInv'
  BY <1>8 DEF PromiseInv, ReadIsCurrent, Kept
<1>9. CASE \/ \E f \in Files : Start(f)
           \/ ListStored
           \/ \E q \in Queries : BeginWalk(q)
           \/ Count \/ Select
           \/ UNCHANGED vars
  <2>1. UNCHANGED <<stored, owed, gone, puts>>
    BY <1>9 DEF Start, ListStored, BeginWalk, Count, Select, vars
  <2> QED
    BY <1>8, <2>1
<1>10. CASE Stop
  <2>1. \A r \in Requests : puts'[r].id = NoId
    BY <1>10 DEF Stop, IdlePut
  <2>2. UNCHANGED <<stored, owed, gone>>
    BY <1>10 DEF Stop
  <2> QED
    BY <2>1, <2>2 DEF PromiseInv, ReadIsCurrent, Kept
<1> QED
  BY <1>2, <1>3, <1>4, <1>5, <1>6, <1>7, <1>9, <1>10 DEF Next

LEMMA PromiseAlways == Spec => []PromiseInv
BY TypeCorrect, PromiseInit, PromiseStep, PTL DEF Spec

(* A PUT that read the row after another was acknowledged keeps what that   *)
(* one set, across restarts; a PUT that read before, a POST, a DELETE and   *)
(* the file end the promise.                                                *)
THEOREM AcknowledgedChangesSurvive == Spec => []AcknowledgedChangeSurvives
<1>1. PromiseInv => AcknowledgedChangeSurvives
  BY DEF PromiseInv, Kept, AcknowledgedChangeSurvives
<1> QED
  BY <1>1, PromiseAlways, PTL

(* Only a POST, the file or a PUT that was under way brings a deleted       *)
(* target back, across restarts.                                            *)
THEOREM DeletedTargetsStayDeleted == Spec => []DeletedStaysDeleted
<1>1. PromiseInv => DeletedStaysDeleted
  BY DEF PromiseInv, Kept, DeletedStaysDeleted, Rows
<1> QED
  BY <1>1, PromiseAlways, PTL
-----------------------------------------------------------------------------
(* The paged list.                                                          *)

\* The rows of a list that come before x.
Before(S, x) == {u \in S : stored[u].name < stored[x].name}

WalkState == [at : {"counting", "selecting"}, query : Queries, offset : Nat,
              total : Nat, seen : SUBSET Ids, present : SUBSET Ids]

\* A row that the client is to meet and has not met yet is beyond the offset of
\* the next page, so many rows come before it.
WalkInv ==
    /\ WalkSeesAll
    /\ Walking =>
          /\ walk \in WalkState
          /\ walk.present \subseteq Matching(walk.query)
          /\ \A x \in walk.present \ walk.seen :
                Cardinality(Before(Matching(walk.query), x)) >= walk.offset
    /\ walk.at = "selecting" => walk.total = Cardinality(Matching(walk.query))

LEMMA MatchingTypes ==
    ASSUME TypeOK, NEW q
    PROVE  /\ Matching(q) \subseteq Ids /\ IsFiniteSet(Matching(q))
           /\ Cardinality(Matching(q)) \in Nat
           /\ \A x \in Matching(q) : stored[x] \in Targets /\ stored[x].name \in Int
           /\ \A x : /\ IsFiniteSet(Before(Matching(q), x))
                     /\ Cardinality(Before(Matching(q), x)) \in Nat
<1>1. Matching(q) \subseteq Ids
  BY DEF Matching, Rows
<1>2. IsFiniteSet(Matching(q)) /\ Cardinality(Matching(q)) \in Nat
  BY <1>1, FS_Subset, FS_CardinalityType, IdAssumption DEF IdAssumption
<1>3. ASSUME NEW x \in Matching(q)
      PROVE  stored[x] \in Targets /\ stored[x].name \in Int
  <2>1. stored[x] \in Targets
    BY <1>3 DEF Matching, Rows, TypeOK
  <2> QED
    BY <2>1 DEF Targets, Fields
<1>4. ASSUME NEW x
      PROVE  /\ IsFiniteSet(Before(Matching(q), x))
             /\ Cardinality(Before(Matching(q), x)) \in Nat
  <2>1. Before(Matching(q), x) \subseteq Matching(q)
    BY DEF Before
  <2> QED
    BY <1>2, <2>1, FS_Subset, FS_CardinalityType
<1> QED
  BY <1>1, <1>2, <1>3, <1>4

\* Where no two rows have one name, a row's place tells how many come before it.
LEMMA PlaceInListing ==
    ASSUME NEW S, IsFiniteSet(S), \A x \in S : stored[x].name \in Int,
           NEW order \in Listings(S),
           \A i, j \in DOMAIN order :
              i # j => stored[order[i]].name # stored[order[j]].name,
           NEW i \in DOMAIN order
    PROVE  Cardinality(Before(S, order[i])) = i - 1
<1> DEFINE T == Before(S, order[i])
           f == [j \in 1 .. i - 1 |-> order[j]]
<1>1. /\ Cardinality(S) \in Nat /\ DOMAIN order = 1 .. Cardinality(S)
      /\ \A j \in DOMAIN order : order[j] \in S
      /\ \A t \in S : \E j \in DOMAIN order : order[j] = t
      /\ \A j, k \in DOMAIN order :
            j < k => stored[order[j]].name <= stored[order[k]].name
  BY FS_CardinalityType DEF Listings
<1>2. /\ i \in Nat \ {0} /\ \A j \in 1 .. i - 1 : j \in DOMAIN order /\ j < i
      /\ \A j \in DOMAIN order : j < i => j \in 1 .. i - 1
  BY <1>1
<1>3. \A j \in 1 .. i - 1 : f[j] \in T
  <2> SUFFICES ASSUME NEW j \in 1 .. i - 1
               PROVE  order[j] \in T
    OBVIOUS
  <2>1. /\ stored[order[j]].name <= stored[order[i]].name
        /\ stored[order[j]].name # stored[order[i]].name
        /\ stored[order[j]].name \in Int /\ stored[order[i]].name \in Int
        /\ order[j] \in S
    BY <1>1, <1>2
  <2> QED
    BY <2>1 DEF Before
<1>4. ASSUME NEW u \in T PROVE \E j \in 1 .. i - 1 : f[j] = u
  <2>1. PICK j \in DOMAIN order : order[j] = u
    BY <1>1 DEF Before
  <2>2. stored[order[j]].name < stored[order[i]].name
    BY <2>1 DEF Before
  <2>3. stored[order[j]].name \in Int /\ stored[order[i]].name \in Int
    BY <1>1
  <2>4. j < i
    <3>1. j # i
      BY <2>2, <2>3
    <3>2. ~(i < j)
      BY <1>1, <2>2, <2>3
    <3> QED
      BY <1>1, <3>1, <3>2
  <2> QED
    BY <1>2, <2>1, <2>4
<1>5. \A j, k \in 1 .. i - 1 : f[j] = f[k] => j = k
  BY <1>2
<1>6. f \in Surjection(1 .. i - 1, T) /\ f \in Injection(1 .. i - 1, T)
  <2>1. f \in [1 .. i - 1 -> T]
    BY <1>3
  <2> DEFINE D == 1 .. i - 1
  <2>2. /\ f \in [D -> T] /\ \A u \in T : \E j \in D : f[j] = u
        /\ \A j, k \in D : f[j] = f[k] => j = k
    BY <1>4, <1>5, <2>1
  <2> HIDE DEF f, T, D
  <2>3. f \in Surjection(D, T)
    BY <2>2 DEF Surjection
  <2>4. f \in Injection(D, T)
    BY <2>2 DEF Injection, IsInjective
  <2> QED
    BY <2>3, <2>4 DEF D
<1>7. IsFiniteSet(1 .. i - 1) /\ Cardinality(1 .. i - 1) = i - 1
  <2>1. i - 1 \in Int /\ 1 \in Int /\ (1 > i - 1 => i - 1 = 0) /\ i - 1 - 1 + 1 = i - 1
    BY <1>2
  <2> QED
    BY <2>1, FS_Interval
<1> HIDE DEF f, T
<1>8. Cardinality(T) = i - 1
  BY <1>6, <1>7, FS_Surjection
<1> QED
  BY <1>8 DEF T

\* A page has no more rows than were asked for.
LEMMA PageIsBounded ==
    ASSUME NEW S, IsFiniteSet(S), NEW order \in Listings(S),
           NEW offset \in Nat, NEW limit \in Nat
    PROVE  /\ Cardinality(Page(order, offset, limit)) \in Nat
           /\ Cardinality(Page(order, offset, limit)) <= limit
<1> DEFINE P == Page(order, offset, limit)
           K == {j \in DOMAIN order : offset < j /\ j <= offset + limit}
           f == [j \in K |-> order[j]]
<1>1. DOMAIN order = 1 .. Cardinality(S) /\ Cardinality(S) \in Nat
  BY FS_CardinalityType DEF Listings
<1>2. K \subseteq offset + 1 .. offset + limit
  BY <1>1
<1>3. /\ IsFiniteSet(offset + 1 .. offset + limit)
      /\ Cardinality(offset + 1 .. offset + limit) = limit
  <2>1. /\ offset + 1 \in Int /\ offset + limit \in Int
        /\ offset + 1 > offset + limit => limit = 0
        /\ (offset + limit) - (offset + 1) + 1 = limit
    OBVIOUS
  <2> QED
    BY <2>1, FS_Interval
<1>4. IsFiniteSet(K) /\ Cardinality(K) \in Nat /\ Cardinality(K) <= limit
  <2> HIDE DEF K
  <2> QED
    BY <1>2, <1>3, FS_Subset, FS_CardinalityType
<1>5. f \in Surjection(K, P)
  BY DEF Surjection, Page
<1> HIDE DEF f, K, P
<1>6. Cardinality(P) \in Nat /\ Cardinality(P) <= limit
  BY <1>4, <1>5, FS_Surjection, FS_CardinalityType
<1> QED
  BY <1>6 DEF P

\* A write leaves the walk alone only when every row of the list keeps its place
\* among the others: the row is a new one, or keeps its name and the query.
LEMMA WalkWrite ==
    ASSUME TypeOK, WalkInv, NEW t \in Ids, NEW row \in Targets \union {NoTarget},
           stored' = [stored EXCEPT ![t] = row], walk' = WalkAfter(t, row)
    PROVE  WalkInv'
<1>1. CASE walk' = NoWalk
  BY <1>1 DEF WalkInv, WalkSeesAll, Walking, NoWalk
<1>2. CASE walk' = walk /\ ~Walking
  BY <1>2 DEF WalkInv, WalkSeesAll, Walking
<1>3. CASE walk' = walk /\ Walking /\ walk.at # "selecting" /\ ~Moves(t, row)
  <2> DEFINE q == walk.query
  <2>1. /\ walk' = walk /\ Walking' /\ walk.at = "counting" /\ WalkSeesAll'
        /\ walk \in WalkState
        /\ walk.present \subseteq Matching(q)
        /\ \A x \in walk.present \ walk.seen :
              Cardinality(Before(Matching(q), x)) >= walk.offset
    BY <1>3 DEF WalkInv, WalkSeesAll, Walking
  <2>2. \A u \in Ids \ {t} : stored'[u] = stored[u]
    BY DEF TypeOK
  <2>3. ASSUME NEW u \in Matching(q)
        PROVE  u \in Matching(q)' /\ stored'[u].name = stored[u].name
    <3>1. u \in Ids /\ stored[u] # NoTarget /\ Matches(stored[u], q)
      BY DEF Matching, Rows
    <3>2. CASE u # t
      BY <2>1, <2>2, <3>1, <3>2 DEF Matching, Rows
    <3>3. CASE u = t
      <4>1. /\ row # NoTarget /\ row.name = stored[t].name
            /\ Matches(row, q) = Matches(stored[t], q)
        BY <1>3, <3>1, <3>3 DEF Moves
      <4>2. stored'[t] = row
        BY DEF TypeOK
      <4> QED
        BY <2>1, <3>1, <3>3, <4>1, <4>2 DEF Matching, Rows
    <3> QED
      BY <3>2, <3>3
  <2>4. ASSUME NEW x \in walk.present \ walk.seen
        PROVE  Cardinality(Before(Matching(q), x)') >= walk.offset
    <3>1. x \in Matching(q)
      BY <2>1
    <3>2. Before(Matching(q), x) \subseteq Before(Matching(q), x)'
      BY <2>3, <3>1 DEF Before
    <3>3. /\ IsFiniteSet(Before(Matching(q), x)')
          /\ Cardinality(Before(Matching(q), x)') \in Nat
      <4>1. Before(Matching(q), x)' \subseteq Ids
        BY DEF Before, Matching, Rows
      <4> QED
        BY <4>1, FS_Subset, FS_CardinalityType, IdAssumption DEF IdAssumption
    <3>4. /\ Cardinality(Before(Matching(q), x)) \in Nat
          /\ Cardinality(Before(Matching(q), x)) <= Cardinality(Before(Matching(q), x)')
      BY <3>2, <3>3, FS_Subset, MatchingTypes
    <3>5. walk.offset \in Nat /\ Cardinality(Before(Matching(q), x)) >= walk.offset
      BY <2>1 DEF WalkState
    <3> QED
      BY <3>3, <3>4, <3>5
  <2>5. walk.present \subseteq Matching(q)'
    BY <2>1, <2>3
  <2>6. WalkState' = WalkState
    BY DEF WalkState
  <2> QED
    BY <2>1, <2>4, <2>5, <2>6 DEF WalkInv
<1> QED
  BY <1>1, <1>2, <1>3 DEF WalkAfter

LEMMA PageSizes == \A q \in Queries : PageSize(q.limit) \in Nat \ {0}
BY RequestAssumption DEF RequestAssumption, PageSize

\* A page that is read: what is beyond it is beyond the next offset, and when it
\* is the last one there is nothing beyond it.
LEMMA WalkSelect ==
    ASSUME TypeOK, WalkInv, Select
    PROVE  WalkInv'
<1> DEFINE q == walk.query
           S == Matching(q)
           o == walk.offset
           l == PageSize(q.limit)
<1>1. /\ walk \in WalkState /\ walk.at = "selecting" /\ walk.total = Cardinality(S)
      /\ walk.present \subseteq S
      /\ \A x \in walk.present \ walk.seen : Cardinality(Before(S, x)) >= o
      /\ stored' = stored
  BY DEF Select, WalkInv, Walking
<1>2. /\ o \in Nat /\ l \in Nat \ {0} /\ Cardinality(S) \in Nat
      /\ IsFiniteSet(S) /\ S \subseteq Ids
      /\ \A x \in S : stored[x].name \in Int
  BY <1>1, PageSizes, MatchingTypes DEF WalkState
<1>3. PICK order \in Listings(S) :
          LET page == Page(order, o, l)
              read == o + Cardinality(page)
              seen == walk.seen \union page
              tied == \E i, j \in DOMAIN order :
                         i # j /\ stored[order[i]].name = stored[order[j]].name
          IN  \/ /\ ~tied /\ page # {} /\ read < walk.total
                 /\ walk' = [walk EXCEPT !.at = "counting", !.offset = read,
                                         !.seen = seen]
              \/ /\ ~tied /\ (page = {} \/ read >= walk.total)
                 /\ walk' = [at |-> "done", present |-> walk.present, seen |-> seen]
              \/ /\ tied
                 /\ walk' = NoWalk
  BY DEF Select
<1> DEFINE page == Page(order, o, l)
           read == o + Cardinality(page)
           seen == walk.seen \union page
           tied == \E i, j \in DOMAIN order :
                      i # j /\ stored[order[i]].name = stored[order[j]].name
<1>4. /\ DOMAIN order = 1 .. Cardinality(S)
      /\ \A x \in S : \E i \in DOMAIN order : order[i] = x
      /\ \A i \in DOMAIN order : order[i] \in S
  BY DEF Listings
<1>5. Cardinality(page) \in Nat /\ Cardinality(page) <= l /\ page \subseteq S
  <2>1. page \subseteq S
    BY <1>4 DEF Page
  <2> HIDE DEF S, o, l
  <2> QED
    BY <1>2, <2>1, PageIsBounded
<1>6. ASSUME ~tied, NEW x \in walk.present \ seen
      PROVE  /\ page # {} /\ read < Cardinality(S)
             /\ Cardinality(Before(S, x)) >= read
  <2>1. /\ x \in S /\ x \notin page /\ Cardinality(Before(S, x)) >= o
    BY <1>1
  <2>2. PICK i \in DOMAIN order : order[i] = x
    BY <1>4, <2>1
  <2>3. Cardinality(Before(S, x)) = i - 1
    <3>1. \A j, k \in DOMAIN order :
             j # k => stored[order[j]].name # stored[order[k]].name
      BY <1>6
    <3> HIDE DEF S
    <3> QED
      BY <1>2, <2>2, <3>1, PlaceInListing
  <2>4. i \in Nat /\ i <= Cardinality(S) /\ o + 1 <= i
    BY <1>2, <1>4, <2>1, <2>3
  <2>5. ~(i <= o + l)
    <3>1. i <= o + l => x \in page
      BY <1>2, <2>2, <2>4 DEF Page
    <3> QED
      BY <2>1, <3>1
  <2>6. order[o + 1] \in page
    <3>1. o + 1 \in DOMAIN order /\ o < o + 1 /\ o + 1 <= o + l
      BY <1>2, <1>4, <2>4
    <3> QED
      BY <3>1 DEF Page
  <2> HIDE DEF S, o, l, page
  <2> QED
    BY <1>2, <1>5, <2>3, <2>4, <2>5, <2>6
<1>7. CASE /\ ~tied /\ page # {} /\ read < walk.total
           /\ walk' = [walk EXCEPT !.at = "counting", !.offset = read, !.seen = seen]
  <2>1. read \in Nat /\ seen \subseteq Ids
    BY <1>1, <1>2, <1>5 DEF WalkState
  <2>2. /\ walk' \in WalkState /\ walk'.at = "counting" /\ walk'.query = q
        /\ walk'.present = walk.present /\ walk'.seen = seen /\ walk'.offset = read
    <3> HIDE DEF read, seen
    <3> QED
      BY <1>1, <1>7, <2>1 DEF WalkState
  <2>3. /\ Matching(walk.query)' = S
        /\ \A x : Before(Matching(walk.query), x)' = Before(S, x)
    <3>1. walk'.query = walk.query /\ stored' = stored
      BY <1>1, <2>2
    <3> QED
      BY <3>1 DEF Matching, Rows, Before
  <2>4. WalkState' = WalkState
    BY DEF WalkState
  <2>5. \A x \in walk.present \ seen : Cardinality(Before(S, x)) >= read
    BY <1>6, <1>7
  <2>6. walk.present \subseteq S
    BY <1>1
  <2> HIDE DEF S, q, o, read, seen, page, tied
  <2> QED
    BY <2>2, <2>3, <2>4, <2>5, <2>6 DEF WalkInv, WalkSeesAll
<1>8. CASE /\ ~tied /\ (page = {} \/ read >= walk.total)
           /\ walk' = [at |-> "done", present |-> walk.present, seen |-> seen]
  <2>1. walk.present \subseteq seen
    <3> SUFFICES ASSUME NEW x \in walk.present \ seen PROVE FALSE
      OBVIOUS
    <3>1. page # {} /\ read < Cardinality(S)
      BY <1>6, <1>8
    <3>2. ~(read >= walk.total)
      <4> HIDE DEF S, o, page
      <4> QED
        BY <1>1, <1>2, <1>5, <3>1
    <3> QED
      BY <1>8, <3>1, <3>2
  <2> HIDE DEF seen
  <2> QED
    BY <1>8, <2>1 DEF WalkInv, WalkSeesAll, Walking
<1>9. CASE walk' = NoWalk
  BY <1>9 DEF WalkInv, WalkSeesAll, Walking, NoWalk
<1> QED
  BY <1>3, <1>7, <1>8, <1>9

LEMMA WalkStep == TypeOK /\ WalkInv /\ [Next]_vars => WalkInv'
<1> SUFFICES ASSUME TypeOK, WalkInv, [Next]_vars PROVE WalkInv'
  OBVIOUS
<1>1. CASE walk' = walk /\ (stored' = stored \/ phase # "serving")
  <2>1. CASE stored' = stored
    BY <1>1, <2>1 DEF WalkInv, WalkSeesAll, Walking, WalkState, Matching, Rows, Before
  <2>2. CASE phase # "serving"
    <3>1. walk' = NoWalk
      BY <1>1, <2>2 DEF TypeOK
    <3> QED
      BY <3>1 DEF WalkInv, WalkSeesAll, Walking, NoWalk
  <2> QED
    BY <1>1, <2>1, <2>2
<1>2. ASSUME NEW post \in Posts, Create(post) PROVE WalkInv'
  <2>1. PICK t \in Ids : /\ stored' = [stored EXCEPT ![t] = PostTarget(post.body)]
                         /\ walk' = WalkAfter(t, PostTarget(post.body))
    BY <1>2, RequestAssumption, IdAssumption
    DEF RequestAssumption, IdAssumption, Create
  <2>2. PostTarget(post.body) \in Targets
    BY RequestAssumption, PostTargetType DEF RequestAssumption
  <2> QED
    BY <2>1, <2>2, WalkWrite
<1>3. ASSUME NEW r \in Requests, NEW body \in Changes, Update(r, body)
      PROVE  WalkInv'
  <2>1. puts[r].id \in Ids /\ puts[r].read \in Targets
    BY <1>3 DEF Update, TypeOK, IdlePut
  <2>2. Overlay(body, puts[r].read) \in Targets
    BY <2>1, RequestAssumption, OverlayType DEF RequestAssumption
  <2> QED
    BY <1>3, <2>1, <2>2, WalkWrite DEF Update
<1>4. ASSUME NEW t \in Ids, Delete(t) PROVE WalkInv'
  BY <1>4, WalkWrite DEF Delete
<1>5. ASSUME NEW q \in Queries, BeginWalk(q) PROVE WalkInv'
  <2>1. /\ Matching(q) \subseteq Ids /\ stored' = stored
        /\ walk' = [at |-> "counting", query |-> q, offset |-> 0, total |-> 0,
                    seen |-> {}, present |-> Matching(q)]
    BY <1>5, MatchingTypes DEF BeginWalk
  <2>2. walk' \in WalkState'
    BY <2>1 DEF WalkState
  <2>3. /\ walk'.at = "counting" /\ walk'.query = q /\ walk'.present = Matching(q)
        /\ walk'.offset = 0
        /\ Matching(walk.query)' = Matching(q) /\ walk'.seen = {}
    BY <2>1 DEF Matching, Rows
  <2>4. \A x : Cardinality(Before(Matching(walk.query), x)') >= 0
    <3>1. \A x : Cardinality(Before(Matching(q), x)) \in Nat
      BY MatchingTypes
    <3>2. \A x : Before(Matching(walk.query), x)' = Before(Matching(q), x)
      BY <2>1, <2>3 DEF Before
    <3> QED
      BY <3>1, <3>2
  <2> QED
    BY <2>2, <2>3, <2>4 DEF WalkInv, WalkSeesAll
<1>6. CASE Count
  <2>1. /\ walk.at = "counting" /\ Walking /\ walk \in WalkState /\ stored' = stored
        /\ Cardinality(Matching(walk.query)) \in Nat
    BY <1>6, MatchingTypes DEF Count, WalkInv, Walking
  <2>2. /\ walk' \in WalkState' /\ walk'.at = "selecting" /\ walk'.query = walk.query
        /\ walk'.present = walk.present /\ walk'.seen = walk.seen
        /\ walk'.offset = walk.offset
        /\ walk'.total = Cardinality(Matching(walk.query))
    BY <1>6, <2>1 DEF Count, WalkState
  <2>3. /\ Matching(walk.query)' = Matching(walk.query)
        /\ \A x : Before(Matching(walk.query), x)' = Before(Matching(walk.query), x)
    BY <2>1, <2>2 DEF Matching, Rows, Before
  <2> QED
    BY <2>1, <2>2, <2>3 DEF WalkInv, WalkSeesAll
<1>7. CASE Select
  BY <1>7, WalkSelect
<1>8. CASE Stop
  BY <1>8 DEF Stop, WalkInv, WalkSeesAll, Walking, NoWalk
<1> QED
  <2>1. CASE \/ \E f \in Files : Start(f)
             \/ SaveMonitor \/ ListStored
             \/ \E r \in Requests : \/ \E t \in Ids : ReadForUpdate(r, t)
                                    \/ UpdateFails(r)
             \/ UNCHANGED vars
    <3>1. walk' = walk /\ (stored' = stored \/ phase # "serving")
      BY <2>1 DEF Start, SaveMonitor, ListStored, ReadForUpdate, UpdateFails, vars
    <3> QED
      BY <1>1, <3>1
  <2> QED
    BY <1>2, <1>3, <1>4, <1>5, <1>6, <1>7, <1>8, <2>1 DEF Next

(* A client that reads the list page by page, with any page size, meets     *)
(* every target that was there when it began, whatever is created, as long  *)
(* as no row leaves the list or moves in it and no two have one name.       *)
THEOREM WalksAreComplete == Spec => []WalkSeesAll
<1>1. Init => WalkInv
  BY DEF Init, WalkInv, WalkSeesAll, Walking, NoWalk
<1>2. WalkInv => WalkSeesAll
  BY DEF WalkInv
<1> QED
  BY <1>1, <1>2, TypeCorrect, WalkStep, PTL DEF Spec
=============================================================================
