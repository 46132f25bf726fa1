------------------------------- MODULE ConMon -------------------------------
(***************************************************************************)
(* The server as runServer wires it: the store, the status machine, the    *)
(* result handler that joins them, and the API's changes to both.          *)
(*                                                                         *)
(* No lock spans two of these parts.  The handler reads the target, runs   *)
(* FSM.Process, saves the event and announces it in separate steps; DELETE *)
(* and PUT take two steps each.  The process may stop between any two      *)
(* steps: the database survives, the rest starts afresh.                   *)
(*                                                                         *)
(* A target has one timer chain here (Scheduler says when it has more),    *)
(* and its timer may fire at any time.  AlertEngine and Hub say what       *)
(* becomes of an event once it is announced.                               *)
(***************************************************************************)
EXTENDS StatusRules

CONSTANTS
    Targets,      \* target IDs
    Monitors,     \* the monitors of the configuration file: ID -> Target
    NewTargets,   \* the Targets POST is called with
    Changes,      \* the bodies PUT is called with: some fields of a Target
    Outcomes,     \* results without their timestamp
    MaxTime,      \* bound on the probes, for model checking
    MaxChanges,   \* bound on the API's changes, for model checking
    MaxRestarts   \* bound on the restarts, for model checking

ASSUME ServerAssumption ==
    /\ DOMAIN Monitors \subseteq Targets
    /\ Monitors \in [DOMAIN Monitors -> Target]
    /\ NewTargets \subseteq Target
    /\ \A body \in Changes : \A x \in DOMAIN body :
          \/ /\ x \in {"downThreshold", "recoveryThreshold", "latencyWarnMs",
                      "packetLossWarnPct"}
             /\ body[x] \in Nat
          \/ x = "maintenance" /\ body[x] \in [start : Nat, end : Nat]
    /\ Outcomes \subseteq [success : BOOLEAN, latencyMs : Nat, loss : Nat]

VARIABLES
    stored,    \* the rows of table targets: ID -> Target
    rows,      \* table events, of a target, oldest first: [event, life]
    cascades,  \* the database enforces its foreign keys
    states,    \* FSM.states
    history,   \* FlapTracker.history
    probed,    \* the targets of the scheduler
    handler,   \* of a target: [phase] and what the handler holds in it
    puts,      \* the PUT requests between GetTarget and SaveTarget
    deletes,   \* the DELETE requests between DeleteTarget and FSM.Remove
    clock      \* timestamps of results

(* Auxiliary: what is needed to tell what went wrong.                       *)
VARIABLES
    life,      \* of a target: how often its events had to start anew
    pushed,    \* of a target: the row of the last event announced, as a set
    orphaned,  \* targets whose state outlived them for a cause that is known
    count      \* [changes, restarts] so far

dbVars == <<stored, rows, cascades>>
fsmVars == <<states, history>>
auxVars == <<life, pushed, orphaned, count>>
vars == <<dbVars, fsmVars, probed, handler, puts, deletes, clock, auxVars>>

-----------------------------------------------------------------------------
Stored(t) == t \in DOMAIN stored

\* FSM.getOrCreate
Entry(t) == IF t \in DOMAIN states THEN states[t] ELSE NewState

Put(f, k, v) == [x \in DOMAIN f \union {k} |-> IF x = k THEN v ELSE f[x]]
Without(f, S) == [x \in DOMAIN f \ S |-> f[x]]

\* f where over says nothing else.
Overlay(over, f) ==
    [x \in DOMAIN f \union DOMAIN over |->
        IF x \in DOMAIN over THEN over[x] ELSE f[x]]

\* Store.SaveTarget inserts the row or overwrites it.
SaveTarget(t, target) == stored' = Put(stored, t, target)

Empty == [x \in {} |-> NewState]

Idle == [phase |-> "idle"]

\* The next event of t does not continue the last one.
Anew(t) == life' = [life EXCEPT ![t] = @ + 1]

\* runServer saves the monitors of the configuration file, each of which may
\* fail, and adds the saved ones; then it adds every target of the database,
\* unless it cannot list them.
Started(db, saved, listed) ==
    /\ stored' = Overlay([t \in saved |-> Monitors[t]], db)
    /\ probed' = IF listed THEN saved \union DOMAIN db ELSE saved

Init ==
    /\ cascades \in BOOLEAN
    /\ stored = Monitors
    /\ probed = DOMAIN Monitors
    /\ rows = [t \in Targets |-> <<>>]
    /\ states = Empty
    /\ history = [t \in Targets |-> <<>>]
    /\ handler = [t \in Targets |-> Idle]
    /\ puts = Empty
    /\ deletes = {}
    /\ clock = 0
    /\ life = [t \in Targets |-> 0]
    /\ pushed = [t \in Targets |-> {}]
    /\ orphaned = {}
    /\ count = [changes |-> 0, restarts |-> 0]

-----------------------------------------------------------------------------
(* The result handler.                                                      *)

\* A probe of t is over and the handler reads its configuration; it returns at
\* once when the target is not stored.
Receive(t, o) ==
    /\ t \in probed /\ handler[t] = Idle /\ clock < MaxTime
    /\ clock' = clock + 1
    /\ handler' = [handler EXCEPT ![t] =
         IF Stored(t)
           THEN [phase |-> "read", target |-> stored[t],
                 result |-> [success |-> o.success, latencyMs |-> o.latencyMs,
                             loss |-> o.loss, ts |-> clock + 1]]
           ELSE Idle]
    /\ UNCHANGED <<dbVars, fsmVars, probed, puts, deletes, auxVars>>

\* FSM.Process with the configuration read before.
Process(t) ==
    LET h == handler[t]
        p == Processed(t, Entry(t), history[t], h.result, h.target)
    IN  /\ h.phase = "read"
        /\ states' = Put(states, t, p.state)
        /\ history' = [history EXCEPT ![t] = p.history]
        /\ handler' = [handler EXCEPT ![t] =
             IF p.events = {} THEN Idle
             ELSE [phase |-> "changed",
                   row |-> [event |-> CHOOSE e \in p.events : TRUE,
                            life  |-> life[t]]]]
        /\ UNCHANGED <<dbVars, probed, puts, deletes, clock, auxVars>>

MutantSaveOnlyOutages(t) ==
    LET row == handler[t].row
    IN  /\ handler[t].phase = "changed"
        /\ \/ /\ ~cascades \/ Stored(t)
              /\ rows' = IF row.event.to = "UP" THEN rows
                         ELSE [rows EXCEPT ![t] = Append(@, row)]
              /\ UNCHANGED life
           \/ /\ life' = [life EXCEPT ![t] = IF @ = row.life THEN @ + 1 ELSE @]
              /\ UNCHANGED rows
        /\ handler' = [handler EXCEPT ![t].phase = "saved"]
        /\ UNCHANGED <<stored, cascades, fsmVars, probed, puts, deletes, clock,
                       pushed, orphaned, count>>

MutantSaveUntilStored(t) ==
    /\ handler[t].phase = "changed"
    /\ ~cascades \/ Stored(t)
    /\ rows' = [rows EXCEPT ![t] = Append(@, handler[t].row)]
    /\ handler' = [handler EXCEPT ![t].phase = "saved"]
    /\ UNCHANGED <<stored, cascades, fsmVars, probed, puts, deletes, clock,
                   auxVars>>

\* Store.SaveEvent, which fails for a target that is gone when foreign keys are
\* enforced, and may fail otherwise; its error is ignored.
Save(t) ==
    LET row == handler[t].row
    IN  /\ handler[t].phase = "changed"
        /\ \/ /\ ~cascades \/ Stored(t)
              /\ rows' = [rows EXCEPT ![t] = Append(@, row)]
              /\ UNCHANGED life
           \/ /\ life' = [life EXCEPT ![t] = IF @ = row.life THEN @ + 1 ELSE @]
              /\ UNCHANGED rows
        /\ handler' = [handler EXCEPT ![t].phase = "saved"]
        /\ UNCHANGED <<stored, cascades, fsmVars, probed, puts, deletes, clock,
                       pushed, orphaned, count>>

\* Engine.Process takes the event, unless its target is no longer stored, and
\* Hub.BroadcastEvent sends it to the clients.
Push(t) ==
    /\ handler[t].phase = "saved"
    /\ handler' = [handler EXCEPT ![t] = Idle]
    /\ pushed' = [pushed EXCEPT ![t] = {handler[t].row}]
    /\ UNCHANGED <<dbVars, fsmVars, probed, puts, deletes, clock, life, orphaned,
                   count>>

-----------------------------------------------------------------------------
(* The API.                                                                 *)

Change == /\ count.changes < MaxChanges
          /\ count' = [count EXCEPT !.changes = @ + 1]

\* handleCreateTarget: an ID that is in use is overwritten.
Create(t, target) ==
    /\ Change
    /\ SaveTarget(t, target)
    /\ UNCHANGED <<rows, cascades, fsmVars, probed, handler, puts, deletes, clock,
                   life, pushed, orphaned>>

\* handleUpdateTarget reads the target ...
ReadForUpdate(t) ==
    /\ Change
    /\ Stored(t) /\ t \notin DOMAIN puts
    /\ puts' = Put(puts, t, stored[t])
    /\ UNCHANGED <<dbVars, fsmVars, probed, handler, deletes, clock, life, pushed,
                   orphaned>>

\* ... changes what the body names and saves it, whether it is still there or
\* not; or it fails.
Update(t) ==
    /\ t \in DOMAIN puts
    /\ \/ \E body \in Changes : SaveTarget(t, Overlay(body, puts[t]))
       \/ UNCHANGED stored
    /\ puts' = Without(puts, {t})
    /\ UNCHANGED <<rows, cascades, fsmVars, probed, handler, deletes, clock,
                   auxVars>>

\* handleDeleteTarget deletes the row, with its events when foreign keys are
\* enforced ...
Delete(t) ==
    /\ Change
    /\ t \notin deletes
    /\ stored' = Without(stored, {t})
    /\ rows' = IF cascades THEN [rows EXCEPT ![t] = <<>>] ELSE rows
    /\ deletes' = deletes \union {t}
    /\ UNCHANGED <<cascades, fsmVars, probed, handler, puts, clock, life, pushed,
                   orphaned>>

MutantForgetKeepsState(t) ==
    /\ t \in deletes
    /\ deletes' = deletes \ {t}
    /\ Anew(t)
    /\ orphaned' = IF handler[t].phase = "read" THEN orphaned \union {t}
                   ELSE orphaned \ {t}
    /\ history' = [history EXCEPT ![t] = <<>>]
    /\ states' = IF Entry(t).status = "SILENT" THEN states
                 ELSE Without(states, {t})
    /\ UNCHANGED <<dbVars, probed, handler, puts, clock, pushed, count>>

\* ... and calls FSM.Remove, but not Scheduler.Remove.  A handler that has read
\* the target and not yet processed its result will create the state again.
Forget(t) ==
    /\ t \in deletes
    /\ deletes' = deletes \ {t}
    /\ Anew(t)
    /\ orphaned' = IF handler[t].phase = "read" THEN orphaned \union {t}
                   ELSE orphaned \ {t}
    /\ history' = [history EXCEPT ![t] = <<>>]
    /\ states' = Without(states, {t})
    /\ UNCHANGED <<dbVars, probed, handler, puts, clock, pushed, count>>

\* handleSilenceTarget and handleUnsilenceTarget, which do not ask the store
\* whether there is such a target.
SetSilent(t, silent) ==
    LET s == Entry(t)
        to == IF silent THEN "SILENT"
              ELSE IF s.status = "SILENT" THEN "UNKNOWN" ELSE s.status
    IN  /\ Change
        /\ states' = Put(states, t, [s EXCEPT !.status = to])
        /\ orphaned' = IF Stored(t) THEN orphaned ELSE orphaned \union {t}
        /\ IF to # s.status THEN Anew(t) ELSE UNCHANGED life
        /\ UNCHANGED <<dbVars, history, probed, handler, puts, deletes, clock,
                       pushed>>

-----------------------------------------------------------------------------
\* The process stops, at whatever point it was, and is started again.
Restart ==
    /\ count.restarts < MaxRestarts
    /\ count' = [count EXCEPT !.restarts = @ + 1]
    /\ \E saved \in SUBSET DOMAIN Monitors, listed \in BOOLEAN :
          Started(stored, saved, listed)
    /\ states' = Empty
    /\ history' = [t \in Targets |-> <<>>]
    /\ handler' = [t \in Targets |-> Idle]
    /\ puts' = Empty
    /\ deletes' = {}
    /\ life' = [t \in Targets |-> life[t] + 1]
    /\ pushed' = [t \in Targets |-> {}]
    /\ orphaned' = {}
    /\ UNCHANGED <<rows, cascades, clock>>

Handle(t) == Process(t) \/ Save(t) \/ Push(t)

Next ==
    \/ \E t \in Targets :
          \/ \E o \in Outcomes : Receive(t, o)
          \/ Process(t) \/ Save(t) \/ Push(t)
          \/ \E target \in NewTargets : Create(t, target)
          \/ ReadForUpdate(t) \/ Update(t) \/ Delete(t) \/ Forget(t)
          \/ \E silent \in BOOLEAN : SetSilent(t, silent)
    \/ Restart

\* A handler that has started runs on, and so does a request.
Fairness == \A t \in Targets : /\ WF_vars(Handle(t))
                               /\ WF_vars(Update(t))
                               /\ WF_vars(Forget(t))

Spec == Init /\ [][Next]_vars /\ Fairness
-----------------------------------------------------------------------------
\* A row of table events, with the life of its target that it belongs to.
Row == [event : [id : Targets, from : Status, to : Status, ts : Nat], life : Nat]

\* What a handler holds in each of its phases.
HandlerState ==
    {Idle}
      \union [phase : {"read"}, target : Target, result : ProbeResult]
      \union [phase : {"changed", "saved"}, row : Row]

\* Types; a row belongs to the target under which it is found.
TypeOK ==
    /\ DOMAIN stored \subseteq Targets
    /\ stored \in [DOMAIN stored -> Target]
    /\ rows \in [Targets -> Seq(Row)]
    /\ cascades \in BOOLEAN
    /\ DOMAIN states \subseteq Targets
    /\ states \in [DOMAIN states -> TargetState]
    /\ history \in [Targets -> Seq(Nat)]
    /\ probed \subseteq Targets
    /\ handler \in [Targets -> HandlerState]
    /\ \A t \in Targets :
          /\ \A i \in DOMAIN rows[t] : rows[t][i].event.id = t
          /\ handler[t].phase \in {"changed", "saved"} => handler[t].row.event.id = t
    /\ DOMAIN puts \subseteq Targets
    /\ puts \in [DOMAIN puts -> Target]
    /\ deletes \subseteq Targets
    /\ clock \in Nat
    /\ life \in [Targets -> Nat]
    /\ pushed \in [Targets -> SUBSET Row]
    /\ orphaned \subseteq Targets
    /\ count \in [changes : Nat, restarts : Nat]

\* No change of t is on its way from the FSM to its listeners.
Settled(t) == handler[t].phase \in {"idle", "read"}

\* The saved events of a target chain: each starts in the status where the one
\* before it ended and is younger, unless the target was deleted, silenced or
\* un-silenced in between, an event could not be saved, or the process was
\* restarted.  No event is saved after one of a later life.
SavedEventsChain ==
    \A t \in Targets : \A i \in 1 .. Len(rows[t]) - 1 :
        LET row  == rows[t][i]
            next == rows[t][i + 1]
        IN  /\ row.life <= next.life
            /\ row.life = next.life => /\ next.event.from = row.event.to
                                      /\ next.event.ts > row.event.ts

\* What was announced last is what the API shows: a status that probing has
\* reached is the one the last announcement of this process named, whatever was
\* deleted, created again, silenced or lifted in between.
PushedIsCurrent ==
    \A t \in DOMAIN states :
        /\ Settled(t)
        /\ states[t].status \notin {"UNKNOWN", "MAINTENANCE", "SILENT"}
        => \E row \in pushed[t] : row.event.to = states[t].status

\* The event log and the listeners agree on the last event of a target, unless
\* the target was deleted or silenced since or the event could not be saved:
\* neither has an event the other does not have.
LogAgreesWithPush ==
    \A t \in Targets :
        LET log == rows[t]
            inLog == log # <<>> /\ log[Len(log)].life = life[t]
            told == \E row \in pushed[t] : row.life = life[t]
        IN  Settled(t) /\ t \notin deletes =>
                /\ inLog <=> told
                /\ inLog => pushed[t] = {log[Len(log)]}

\* A state of a target that is not stored has one of the known causes: its
\* deletion is under way, or a result was being handled when it was deleted, or
\* it was silenced or un-silenced although it was not stored.
GhostsHaveCause ==
    \A t \in DOMAIN states : Stored(t) \/ t \in deletes \/ t \in orphaned

\* The handler of a change ends, also when the change cannot be saved because
\* its target is gone or the database fails: it comes to Push, the only step
\* that makes it idle again but a restart, and the timer chain of the target
\* does not hang.
ResultIsHandled ==
    \A t \in Targets : handler[t].phase = "changed" ~> handler[t] = Idle
=============================================================================
