------------------------------ MODULE Catalog ------------------------------
(***************************************************************************)
(* What is monitored: the monitors of the configuration file               *)
(* (internal/config/config.go), the targets table of the store             *)
(* (internal/storage/sqlite/sqlite.go), the requests that create, change,  *)
(* delete and list targets (internal/api/server.go) and the targets the    *)
(* server registers with its scheduler when it starts                      *)
(* (cmd/conmon/server.go).                                                 *)
(*                                                                         *)
(* A statement of the store is one action: its only connection runs one at *)
(* a time (SetMaxOpenConns(1)).  A request made of two statements is two   *)
(* actions.  The store outlives the process; the scheduler's targets and   *)
(* the requests under way do not.                                          *)
(*                                                                         *)
(* A text is a number, its place in the order of names, 0 for "".          *)
(* Durations of the file are in microseconds, the rest as in model.Target. *)
(***************************************************************************)
EXTENDS Integers, Sequences, FiniteSets

CONSTANTS
    Ids,          \* target IDs
    Minted,       \* those newID may return, which no file uses
    DefaultId(_), \* "target-" + name
    NoId,         \* the empty ID
    NoTarget,     \* no row, no registration
    Files,        \* contents the configuration file has at some start
    Posts,        \* bodies of POST /targets: the fields the client gave
    Changes,      \* bodies of PUT /targets/:id
    Requests,     \* PUT requests under way at a time
    Queries,      \* filters and page sizes of GET /targets
    StartLimit,   \* rows runServer reads back at a start
    MaxWrites,    \* bound: writes of the API
    MaxStarts     \* bound: starts of the server

Fields == {"name", "host", "protocol", "interval", "timeout", "down"}
Targets == [Fields -> Int]
IsPartial(b) == DOMAIN b \subseteq Fields /\ b \in [DOMAIN b -> Int]

\* The part of model.MonitorSpec the target is built from: what is copied as
\* it is stands in host and protocol, what has a default in down.
Specs == [id : Ids \union {NoId}, name : Nat, host : Nat, protocol : Nat,
          interval : Int, timeout : Int, down : Int]

ASSUME IdAssumption ==
    /\ NoId \notin Ids \union Requests
    /\ Minted \subseteq Ids
    /\ NoTarget \notin Targets
    /\ IsFiniteSet(Ids)
ASSUME FileAssumption ==
    \A f \in Files :
        /\ f.bind \in Nat
        /\ \A i \in 1..Len(f.monitors) :
              /\ f.monitors[i] \in Specs
              /\ DefaultId(f.monitors[i].name) \in Ids
ASSUME RequestAssumption ==
    /\ \A post \in Posts : post.id \in Ids \union {NoId} /\ IsPartial(post.body)
    /\ \A body \in Changes : IsPartial(body)
    /\ \A q \in Queries : /\ q.protocol \in Nat /\ q.search \subseteq Nat
                          /\ q.limit \in Int
    /\ StartLimit \in Nat

VARIABLES
    stored,   \* the targets table
    sched,    \* Scheduler.targets
    phase,    \* where runServer is: "down", "saving", "serving"
    file,     \* the monitors this process read
    next,     \* the monitor to save next
    puts,     \* the PUT requests, between their read and their save
    walk      \* a client reading the list page by page

(* Auxiliary: what the API changed since the start; what has been promised *)
(* to clients and not replaced since; and the bounds.                      *)
VARIABLES
    touched,  \* targets written or deleted by the API since the start
    created,  \* targets created by the API since the start
    owed,     \* the fields of acknowledged PUTs
    gone,     \* targets deleted and not created again
    partial,  \* the rows were not all read back at the start
    writes, starts

server == <<sched, phase, file, next>>
promises == <<touched, created, owed, gone, partial>>
vars == <<stored, server, puts, walk, promises, writes, starts>>

-----------------------------------------------------------------------------
Rows(table) == {t \in Ids : table[t] # NoTarget}
Overlay(over, base) ==
    [x \in DOMAIN over \union DOMAIN base |->
        IF x \in DOMAIN over THEN over[x] ELSE base[x]]
Nothing == [x \in {} |-> 0]

DefaultTarget == [name |-> 0, host |-> 0, protocol |-> 0,
                  interval |-> 30, timeout |-> 5000, down |-> 3]
EmptyTarget == [x \in Fields |-> 0]

\* config.Load and validate: a file that does not pass keeps the server from
\* starting.
Loads(f) ==
    /\ f.bind # 0
    /\ \A i \in 1..Len(f.monitors) :
          0 \notin {f.monitors[i].name, f.monitors[i].host, f.monitors[i].protocol}

MutantSpecId(spec) == spec.id

SpecId(spec) == IF spec.id = NoId THEN DefaultId(spec.name) ELSE spec.id

\* The conversion of a duration cuts what is below one unit off.
IntervalOf(spec) == IF spec.interval > 0 THEN spec.interval \div 1000000
                    ELSE DefaultTarget.interval
TimeoutOf(spec) == IF spec.timeout > 0 THEN spec.timeout \div 1000
                   ELSE DefaultTarget.timeout

\* specToTarget of the server.
SpecToTarget(spec) ==
    [name |-> spec.name, host |-> spec.host, protocol |-> spec.protocol,
     interval |-> IntervalOf(spec), timeout |-> TimeoutOf(spec),
     down |-> IF spec.down > 0 THEN spec.down ELSE DefaultTarget.down]

\* specToTargetFromProbe of the agent, a conversion of its own: it starts from
\* the defaults, converts the two durations itself and leaves the rest alone.
AgentTarget(spec) ==
    [DefaultTarget EXCEPT
        !.name = spec.name, !.host = spec.host, !.protocol = spec.protocol,
        !.interval = IF spec.interval > 0 THEN spec.interval \div 1000000 ELSE @,
        !.timeout = IF spec.timeout > 0 THEN spec.timeout \div 1000 ELSE @]

\* handleCreateTarget: a field that is missing, or zero, of those that have a
\* default gets it.
PostTarget(body) ==
    LET t == Overlay(body, EmptyTarget)
    IN  [t EXCEPT !.interval = IF @ = 0 THEN DefaultTarget.interval ELSE @,
                  !.timeout  = IF @ = 0 THEN DefaultTarget.timeout ELSE @]

\* buildTargetWhere: search is the set of texts the pattern matches.
Matches(row, q) ==
    /\ q.protocol # 0 => row.protocol = q.protocol
    /\ row.name \in q.search \/ row.host \in q.search
Matching(q) == {t \in Rows(stored) : Matches(stored[t], q)}

\* ORDER BY name: rows of one name come in any order.
Listings(S) ==
    {order \in [1..Cardinality(S) -> S] :
        /\ \A t \in S : \E i \in DOMAIN order : order[i] = t
        /\ \A i, j \in DOMAIN order :
              i < j => stored[order[i]].name <= stored[order[j]].name}

\* LIMIT and OFFSET.
MutantPage(order, offset, limit) ==
    {order[i] : i \in {j \in DOMAIN order :
                         offset + 1 < j /\ j <= offset + limit}}
Page(order, offset, limit) ==
    {order[i] : i \in {j \in DOMAIN order : offset < j /\ j <= offset + limit}}
PageSize(limit) == IF limit <= 0 THEN 100 ELSE limit

-----------------------------------------------------------------------------
\* The effect of a write of row (or of NoTarget) under t on the requests that
\* read before it, and on the page walk under way: it is not followed further
\* when a row leaves the list or moves in it, nor when any write comes between
\* the two statements of a page.
Overtaken(t, r) ==
    [s \in Requests |-> IF s # r /\ puts[s].id = t
                          THEN [puts[s] EXCEPT !.stale = TRUE] ELSE puts[s]]
IdlePut == [id |-> NoId, read |-> NoTarget, stale |-> FALSE]
NoWalk == [at |-> "off"]
Walking == walk.at \in {"counting", "selecting"}
Moves(t, row) ==
    /\ stored[t] # NoTarget
    /\ row # NoTarget => \/ row.name # stored[t].name
                         \/ Matches(row, walk.query) # Matches(stored[t], walk.query)
WalkAfter(t, row) ==
    IF Walking /\ (walk.at = "selecting" \/ Moves(t, row)) THEN NoWalk ELSE walk

Init ==
    /\ stored = [t \in Ids |-> NoTarget]
    /\ sched = [t \in Ids |-> NoTarget]
    /\ phase = "down"
    /\ file = <<>>
    /\ next = 1
    /\ puts = [r \in Requests |-> IdlePut]
    /\ walk = NoWalk
    /\ touched = {}
    /\ created = {}
    /\ owed = [t \in Ids |-> Nothing]
    /\ gone = {}
    /\ partial = FALSE
    /\ writes = 0
    /\ starts = 0

\* runServer up to its loop over the monitors.
Start(f) ==
    /\ phase = "down" /\ Loads(f)
    /\ starts < MaxStarts
    /\ phase' = "saving"
    /\ file' = f.monitors
    /\ next' = 1
    /\ starts' = starts + 1
    /\ UNCHANGED <<stored, sched, puts, walk, promises, writes>>

MutantSaveMonitor ==
    LET t == SpecId(file[next])
        row == SpecToTarget(file[next])
    IN  /\ phase = "saving" /\ next <= Len(file)
        /\ next' = next + 1
        /\ \/ /\ stored' = [stored EXCEPT ![t] = row]
              /\ owed' = [owed EXCEPT ![t] = Nothing]
              /\ gone' = gone \ {t}
           \/ UNCHANGED <<stored, owed, gone>>
        /\ sched' = [sched EXCEPT ![t] = row]
        /\ UNCHANGED <<phase, file, puts, walk, touched, created, partial,
                       writes, starts>>

\* One turn of the loop: a monitor that could not be saved is skipped.  Two
\* monitors of one ID are one target, the later one.
SaveMonitor ==
    LET t == SpecId(file[next])
        row == SpecToTarget(file[next])
    IN  /\ phase = "saving" /\ next <= Len(file)
        /\ next' = next + 1
        /\ \/ /\ stored' = [stored EXCEPT ![t] = row]
              /\ sched' = [sched EXCEPT ![t] = row]
              /\ owed' = [owed EXCEPT ![t] = Nothing]
              /\ gone' = gone \ {t}
           \/ UNCHANGED <<stored, sched, owed, gone>>
        /\ UNCHANGED <<phase, file, puts, walk, touched, created, partial,
                       writes, starts>>

\* The rows are read back, of earlier starts and of the API too, and added.
\* No request is served yet, so the two statements see one table.
ListStored ==
    /\ phase = "saving" /\ next > Len(file)
    /\ phase' = "serving"
    /\ file' = <<>>
    /\ next' = 1
    /\ \/ \E order \in Listings(Rows(stored)) :
             LET read == Page(order, 0, PageSize(StartLimit))
             IN  sched' = [t \in Ids |-> IF t \in read THEN stored[t] ELSE sched[t]]
          /\ partial' = (Cardinality(Rows(stored)) > PageSize(StartLimit))
       \/ /\ partial' = TRUE
          /\ UNCHANGED sched
    /\ UNCHANGED <<stored, puts, walk, touched, created, owed, gone,
                   writes, starts>>

-----------------------------------------------------------------------------
(* Requests, served until the process ends.  A statement that fails changes *)
(* nothing and its client is told so.                                       *)
CanWrite == phase = "serving" /\ writes < MaxWrites

\* What a write by the API leaves of the bookkeeping.
Written(t) ==
    /\ writes' = writes + 1
    /\ touched' = touched \union {t}
    /\ UNCHANGED <<server, partial, starts>>

\* handleCreateTarget.  A POST with the ID of a stored target replaces it.
Create(post) ==
    /\ CanWrite
    /\ \E t \in IF post.id # NoId THEN {post.id}
                ELSE {u \in Minted : stored[u] = NoTarget /\ u \notin gone} :
          LET row == PostTarget(post.body)
          IN  /\ stored' = [stored EXCEPT ![t] = row]
              /\ created' = created \union {t}
              /\ owed' = [owed EXCEPT ![t] = Nothing]
              /\ gone' = gone \ {t}
              /\ puts' = Overtaken(t, NoId)
              /\ walk' = WalkAfter(t, row)
              /\ Written(t)

MutantReadAnyway(r, t) ==
    /\ phase = "serving"
    /\ puts[r] = IdlePut
    /\ puts' = [puts EXCEPT ![r] =
                  [id |-> t, stale |-> FALSE,
                   read |-> IF stored[t] = NoTarget THEN EmptyTarget ELSE stored[t]]]
    /\ UNCHANGED <<stored, server, walk, promises, writes, starts>>

\* handleUpdateTarget up to its GetTarget; without a row the answer is 404.
ReadForUpdate(r, t) ==
    /\ phase = "serving"
    /\ puts[r] = IdlePut
    /\ stored[t] # NoTarget
    /\ puts' = [puts EXCEPT ![r] = [id |-> t, read |-> stored[t], stale |-> FALSE]]
    /\ UNCHANGED <<stored, server, walk, promises, writes, starts>>

MutantBindFresh(r, body) ==
    LET t == puts[r].id
        row == Overlay(body, EmptyTarget)
    IN  /\ CanWrite
        /\ t # NoId
        /\ stored' = [stored EXCEPT ![t] = row]
        /\ owed' = [owed EXCEPT ![t] = IF puts[r].stale THEN body ELSE Overlay(body, @)]
        /\ gone' = IF puts[r].stale THEN gone \ {t} ELSE gone
        /\ puts' = [Overtaken(t, r) EXCEPT ![r] = IdlePut]
        /\ walk' = WalkAfter(t, row)
        /\ Written(t)
        /\ UNCHANGED created

\* The rest of handleUpdateTarget: the body is decoded over the row that was
\* read, without the defaults of a POST, and the whole row is saved.  When the
\* row was written or deleted in between, only this body is still promised.
Update(r, body) ==
    LET t == puts[r].id
        row == Overlay(body, puts[r].read)
    IN  /\ CanWrite
        /\ t # NoId
        /\ stored' = [stored EXCEPT ![t] = row]
        /\ owed' = [owed EXCEPT ![t] = IF puts[r].stale THEN body ELSE Overlay(body, @)]
        /\ gone' = IF puts[r].stale THEN gone \ {t} ELSE gone
        /\ puts' = [Overtaken(t, r) EXCEPT ![r] = IdlePut]
        /\ walk' = WalkAfter(t, row)
        /\ Written(t)
        /\ UNCHANGED created

\* The body does not decode, or the save fails.
UpdateFails(r) ==
    /\ phase = "serving"
    /\ puts[r] # IdlePut
    /\ puts' = [puts EXCEPT ![r] = IdlePut]
    /\ UNCHANGED <<stored, server, walk, promises, writes, starts>>

\* handleDeleteTarget; Scheduler.Remove is not called.  Deleting what is not
\* there succeeds.  (FSM.Remove, which follows, is in ConMon.)
Delete(t) ==
    /\ CanWrite
    /\ stored' = [stored EXCEPT ![t] = NoTarget]
    /\ owed' = [owed EXCEPT ![t] = Nothing]
    /\ gone' = gone \union {t}
    /\ puts' = Overtaken(t, NoId)
    /\ walk' = WalkAfter(t, NoTarget)
    /\ Written(t)
    /\ UNCHANGED created

\* A client starts to read the list page by page, each from the offset the
\* pages before it ended at, until it has as many rows as there are.
BeginWalk(q) ==
    /\ phase = "serving" /\ ~Walking
    /\ walk' = [at |-> "counting", query |-> q, offset |-> 0, total |-> 0,
                seen |-> {}, present |-> Matching(q)]
    /\ UNCHANGED <<stored, server, puts, promises, writes, starts>>

\* ListTargets, first statement.
Count ==
    /\ walk.at = "counting"
    /\ walk' = [walk EXCEPT !.at = "selecting",
                            !.total = Cardinality(Matching(walk.query))]
    /\ UNCHANGED <<stored, server, puts, promises, writes, starts>>

\* ListTargets, second statement.  Two rows of one name may change places
\* between two pages: such a walk is not followed either.
Select ==
    /\ walk.at = "selecting"
    /\ \E order \in Listings(Matching(walk.query)) :
          LET page == Page(order, walk.offset, PageSize(walk.query.limit))
              read == walk.offset + Cardinality(page)
              seen == walk.seen \union page
              tied == \E i, j \in DOMAIN order :
                         i # j /\ stored[order[i]].name = stored[order[j]].name
          IN  \/ /\ ~tied /\ page # {} /\ read < walk.total
                 /\ walk' = [walk EXCEPT !.at = "counting", !.offset = read,
                                         !.seen = seen]
              \/ /\ ~tied /\ (page = {} \/ read >= walk.total)
                 /\ walk' = [at |-> "done", present |-> walk.present, seen |-> seen]
              \/ /\ tied
                 /\ walk' = NoWalk
    /\ UNCHANGED <<stored, server, puts, promises, writes, starts>>

\* The process ends, on a signal or not, at any moment: what it has in memory
\* and the requests under way are lost.
Stop ==
    /\ phase # "down"
    /\ phase' = "down"
    /\ sched' = [t \in Ids |-> NoTarget]
    /\ file' = <<>>
    /\ next' = 1
    /\ puts' = [r \in Requests |-> IdlePut]
    /\ walk' = NoWalk
    /\ touched' = {}
    /\ created' = {}
    /\ partial' = FALSE
    /\ UNCHANGED <<stored, owed, gone, writes, starts>>

Next ==
    \/ \E f \in Files : Start(f)
    \/ SaveMonitor
    \/ ListStored
    \/ \E post \in Posts : Create(post)
    \/ \E r \in Requests :
          \/ \E t \in Ids : ReadForUpdate(r, t)
          \/ \E body \in Changes : Update(r, body)
          \/ UpdateFails(r)
    \/ \E t \in Ids : Delete(t)
    \/ \E q \in Queries : BeginWalk(q)
    \/ Count
    \/ Select
    \/ Stop

Spec == Init /\ [][Next]_vars

-----------------------------------------------------------------------------
Put == [id : Ids \union {NoId}, read : Targets \union {NoTarget}, stale : BOOLEAN]

\* Types, and which parts of the state go with which phase.
TypeOK ==
    /\ stored \in [Ids -> Targets \union {NoTarget}]
    /\ sched \in [Ids -> Targets \union {NoTarget}]
    /\ phase \in {"down", "saving", "serving"}
    /\ \A i \in 1..Len(file) : file[i] \in Specs /\ SpecId(file[i]) \in Ids
    /\ next \in Nat \ {0}
    /\ puts \in [Requests -> Put]
    /\ \A r \in Requests : puts[r] = IdlePut \/ (puts[r].id \in Ids
                                                 /\ puts[r].read \in Targets)
    /\ touched \subseteq Ids /\ created \subseteq touched
    /\ DOMAIN owed = Ids /\ \A t \in Ids : IsPartial(owed[t])
    /\ gone \subseteq Ids
    /\ partial \in BOOLEAN
    /\ phase # "serving" => puts = [r \in Requests |-> IdlePut] /\ walk = NoWalk

\* The server probes what is stored: a target it registered is registered with
\* the settings in the store, whichever saves and reads failed at the start and
\* however often the file names an ID, and a stored target is registered; except
\* for the targets the API has written since, and for rows the start did not
\* read back.
ScheduledIsStored ==
    /\ \A t \in Ids \ touched : sched[t] # NoTarget => sched[t] = stored[t]
    /\ phase = "serving" /\ ~partial =>
          \A t \in Ids \ touched : stored[t] # NoTarget => sched[t] # NoTarget

\* A field a PUT was acknowledged for keeps its value until another PUT gives
\* the field, a PUT that read the row before is saved over it (the code's lost
\* update: such a PUT owes only its own body), or a POST, the file or a DELETE
\* replaces the target.  PUTs that follow each other do not revert each other.
AcknowledgedChangeSurvives ==
    \A t \in Ids : stored[t] # NoTarget =>
        \A x \in DOMAIN owed[t] : stored[t][x] = owed[t][x]

\* A deleted target stays deleted until a POST, the file or a PUT that read the
\* row before it was deleted brings it back, restarts included.
DeletedStaysDeleted == gone \intersect Rows(stored) = {}

\* A client that reads the list page by page meets every target that was there
\* when it began, although targets are created meanwhile and others changed in
\* fields that neither name them nor match.  Nothing is said of a walk in which
\* a row left the list or moved in it, two rows had one name, or a write came
\* between a page's count and its rows: there OFFSET may skip a row.
WalkSeesAll == walk.at = "done" => walk.present \subseteq walk.seen

\* docs/maintenance-guide.md:124-127 of a POST: the target is monitored at once,
\* without a restart.  handleCreateTarget saves it and adds nothing to the
\* scheduler.
CreatedIsProbed ==
    \A t \in created : stored[t] # NoTarget => sched[t] # NoTarget
=============================================================================
