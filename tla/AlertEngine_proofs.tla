------------------------- MODULE AlertEngine_proofs -------------------------
(***************************************************************************)
(* Theorems about AlertEngine, for any targets, workers, alerting sections *)
(* and events: the throttle spaces the alerts and holds none back without  *)
(* a reason, and every match is answered, however the workers interleave.  *)
(***************************************************************************)
EXTENDS AlertEngine, SequenceTheorems, TLAPS

-----------------------------------------------------------------------------
(* The inductive invariant.                                                 *)

\* An event is handled by one worker.
OneWorker ==
    \A v, w \in Workers :
        v # w /\ worker[v] # Idle => worker[v].event # worker[w].event

\* Where w is with its event is what has been decided and stored for it: all of
\* it is for the rules before the worker's, but for the match the worker is
\* firing.
PlaceInv(w) ==
    LET n == worker[w].event
        k == worker[w].rule
        p == worker[w].phase
    IN  worker[w] # Idle =>
          /\ \A d \in decisions : d.event = n =>
                d.rule < k \/ (d.rule = k /\ p # "matching" /\ d.fired)
          /\ \A a \in alerts : a.event = n =>
                a.rule < k \/ (a.rule = k /\ p = "dispatching")
          /\ p # "matching" => Decided(n, k, TRUE) /\ Matched(w)
          /\ p = "dispatching" => Alerted(n, k)

\* The time that Engine.throttle holds is that of the last alert that was let
\* pass under this key.
ThrottleInv ==
    /\ now >= 1
    /\ \A key \in Keys :
          /\ throttle[key] <= now
          /\ throttle[key] > 0 =>
                \E d \in decisions : d.fired /\ KeyOf(d) = key /\ d.at = throttle[key]
    /\ \A d \in decisions : d.fired => d.at >= 1 /\ d.at <= throttle[KeyOf(d)]

IInv ==
    /\ TypeOK
    /\ ThrottleInv /\ ThrottleSpacing /\ SuppressedHasReason
    /\ OneWorker /\ \A w \in Workers : PlaceInv(w)
    /\ MatchesAreAnswered

-----------------------------------------------------------------------------
(* Types.                                                                   *)

\* The rules, of the file or built in.
LEMMA RuleTypes ==
    ASSUME TypeOK
    PROVE  /\ Len(rules) \in Nat \ {0} /\ RuleIds = 1 .. Len(rules)
           /\ \A k \in RuleIds : /\ rules[k].throttle \in Nat
                                 /\ DOMAIN rules[k].channels \subseteq Nat
<1>1. rules \in Seq(RuleConfig \union {DefaultDown}) /\ rules # <<>>
  BY DEF TypeOK
<1>2. Len(rules) \in Nat \ {0} /\ RuleIds = 1 .. Len(rules)
  BY <1>1, EmptySeq DEF RuleIds
<1>3. \A k \in RuleIds : rules[k] \in RuleConfig \union {DefaultDown}
  BY <1>1, <1>2, ElementOfSeq
<1>4. \A k \in RuleIds : /\ rules[k].throttle \in Nat
                         /\ DOMAIN rules[k].channels \subseteq Nat
  <2>1. DefaultDown.throttle \in Nat /\ DOMAIN DefaultDown.channels \subseteq Nat
    BY DEF DefaultDown
  <2>2. \A rule \in RuleConfig :
           rule.throttle \in Nat /\ DOMAIN rule.channels \subseteq Nat
    BY DEF RuleConfig
  <2> QED
    BY <1>3, <2>1, <2>2
<1> QED
  BY <1>2, <1>4

\* What a worker's state tells, whatever it is doing.
LEMMA WorkerTypes ==
    ASSUME TypeOK, NEW w \in Workers
    PROVE  /\ worker[w].event \in Nat /\ worker[w].rule \in Nat
           /\ worker[w].phase = "idle" <=> worker[w] = Idle
           /\ worker[w] = Idle <=> worker[w].event = 0
           /\ worker[w] # Idle =>
                 /\ worker[w].phase \in {"matching", "firing", "dispatching"}
                 /\ worker[w].event \in EventIds /\ worker[w].rule \in RuleIds
                 /\ Event(w) \in [target : Targets, from : STRING, to : STRING]
                 /\ Rule(w).throttle \in Nat /\ KeyOf(worker[w]) \in Keys
<1>1. /\ worker[w] \in WorkerState
      /\ events \in Seq([target : Targets, from : STRING, to : STRING])
  BY DEF TypeOK
<1>2. CASE worker[w] = Idle
  BY <1>2 DEF Idle
<1>3. CASE worker[w] \in [phase : {"matching", "firing", "dispatching"},
                          event : EventIds, rule : RuleIds]
  <2>1. /\ worker[w].phase \in {"matching", "firing", "dispatching"}
        /\ worker[w].event \in EventIds /\ worker[w].rule \in RuleIds
    BY <1>3
  <2>2. worker[w].event \in Nat \ {0} /\ worker[w].rule \in Nat
    <3>1. EventIds = 1 .. Len(events) /\ Len(events) \in Nat
      BY <1>1, LenProperties DEF EventIds
    <3> QED
      BY <2>1, <3>1, RuleTypes
  <2>3. Event(w) \in [target : Targets, from : STRING, to : STRING]
    <3>1. worker[w].event \in 1 .. Len(events)
      BY <1>1, <2>1 DEF EventIds
    <3> HIDE DEF TypeOK
    <3> QED
      BY <1>1, <3>1, ElementOfSeq DEF Event
  <2>4. Rule(w).throttle \in Nat /\ KeyOf(worker[w]) \in Keys
    <3>1. Rule(w).throttle \in Nat /\ Rule(w).name \in RuleNames
      BY <2>1, RuleTypes DEF Rule, RuleNames
    <3>2. Event(w).target \in Targets
      BY <2>3
    <3> QED
      BY <3>1, <3>2 DEF KeyOf, Keys, Event, Rule
  <2> QED
    BY <2>1, <2>2, <2>3, <2>4 DEF Idle
<1> QED
  BY <1>1, <1>2, <1>3 DEF WorkerState

\* A worker that is done with a rule turns to the next, or to none.
LEMMA AfterTypes ==
    ASSUME TypeOK, NEW w \in Workers, worker[w] # Idle
    PROVE  LET k == worker[w].rule
               a == After(w, k)
           IN  /\ a \in WorkerState
               /\ \/ /\ k < Len(rules) /\ a.phase = "matching" /\ a.rule = k + 1
                     /\ a.event = worker[w].event /\ a # Idle
                  \/ k = Len(rules) /\ a = Idle
<1> DEFINE k == worker[w].rule
<1>1. worker[w] \in [phase : {"matching", "firing", "dispatching"},
                     event : EventIds, rule : RuleIds]
  BY DEF TypeOK, WorkerState
<1>2. k \in 1 .. Len(rules) /\ Len(rules) \in Nat /\ RuleIds = 1 .. Len(rules)
  BY <1>1, RuleTypes
<1>3. CASE k < Len(rules)
  <2>1. k + 1 \in RuleIds
    BY <1>2, <1>3
  <2> QED
    BY <1>1, <1>3, <2>1 DEF After, WorkerState, Idle
<1>4. CASE k = Len(rules)
  BY <1>2, <1>4 DEF After, WorkerState
<1> QED
  BY <1>2, <1>3, <1>4

LEMMA TypeInit == Init => TypeOK
<1> SUFFICES ASSUME Init PROVE TypeOK
  OBVIOUS
<1>1. PICK cfg \in Configs : rules = BuildRules(cfg.rules) /\ channels = cfg.channels
  BY DEF Init
<1>2. /\ cfg.rules \in Seq(RuleConfig)
      /\ channels \in Seq([name : STRING, type : STRING])
  BY <1>1, ConfigAssumption DEF ConfigAssumption
<1>3. rules \in Seq(RuleConfig \union {DefaultDown}) /\ rules # <<>>
  <2>1. CASE cfg.rules = <<>>
    BY <1>1, <2>1 DEF BuildRules
  <2>2. CASE cfg.rules # <<>>
    BY <1>1, <1>2, <2>2 DEF BuildRules
  <2> QED
    BY <2>1, <2>2
<1>4. /\ events \in Seq([target : Targets, from : STRING, to : STRING])
      /\ now \in Nat
      /\ worker \in [Workers -> WorkerState]
      /\ throttle \in [Keys -> Nat]
  BY DEF Init, WorkerState
<1> QED
  BY <1>2, <1>3, <1>4 DEF Init, TypeOK

\* While no event comes in, the types stay what they are.
LEMMA SameTypes ==
    ASSUME UNCHANGED <<config, events>>
    PROVE  /\ rules' = rules /\ channels' = channels /\ events' = events
           /\ EventIds' = EventIds /\ RuleIds' = RuleIds /\ Keys' = Keys
           /\ WorkerState' = WorkerState /\ Alert' = Alert
           /\ \A r : Known(r)' = Known(r)
<1>1. rules' = rules /\ channels' = channels /\ events' = events
  BY DEF config
<1>2. EventIds' = EventIds /\ RuleIds' = RuleIds /\ Keys' = Keys
  BY <1>1 DEF EventIds, RuleIds, RuleNames, Keys
<1> QED
  BY <1>1, <1>2 DEF WorkerState, Alert, Known

\* An event that comes in gets a place of its own.
LEMMA Grown ==
    ASSUME TypeOK, NEW w \in Workers, NEW t \in Targets, NEW change \in Transitions,
           Begin(w, t, change)
    PROVE  /\ Len(events) + 1 \in EventIds' /\ Len(events) + 1 \notin EventIds
           /\ EventIds \subseteq EventIds' /\ EventIds' \subseteq EventIds \union {Len(events) + 1}
           /\ Len(events) + 1 # 0 /\ 0 \notin EventIds'
           /\ events' \in Seq([target : Targets, from : STRING, to : STRING])
           /\ \A n \in EventIds : events'[n] = events[n]
           /\ rules' = rules /\ channels' = channels
           /\ RuleIds' = RuleIds /\ Keys' = Keys /\ 1 \in RuleIds
           /\ \A r : Known(r)' = Known(r)
<1> DEFINE e == [target |-> t, from |-> change[1], to |-> change[2]]
           E == [target : Targets, from : STRING, to : STRING]
<1>1. e \in E
  BY ConfigAssumption DEF ConfigAssumption
<1>2. events \in Seq(E) /\ events' = Append(events, e)
  BY DEF TypeOK, Begin
<1> HIDE DEF e, E
<1>3. /\ events' \in Seq(E) /\ Len(events) \in Nat /\ Len(events') = Len(events) + 1
      /\ \A n \in 1 .. Len(events) : events'[n] = events[n]
  BY <1>1, <1>2, AppendProperties, LenProperties
<1>4. EventIds = 1 .. Len(events) /\ EventIds' = 1 .. Len(events) + 1
  BY <1>2, <1>3, LenProperties DEF EventIds
<1>5. rules' = rules /\ channels' = channels
  BY DEF Begin, config
<1>6. RuleIds' = RuleIds /\ Keys' = Keys /\ 1 \in RuleIds
  BY <1>5, RuleTypes DEF RuleIds, RuleNames, Keys
<1>7. \A r : Known(r)' = Known(r)
  BY <1>5 DEF Known
<1> QED
  BY <1>3, <1>4, <1>5, <1>6, <1>7 DEF E

LEMMA TypeBegin ==
    ASSUME TypeOK, NEW w \in Workers, NEW t \in Targets, NEW change \in Transitions,
           Begin(w, t, change)
    PROVE  TypeOK'
<1>1. UNCHANGED <<now, throttle, alerts, sends, decisions>>
  BY DEF Begin
<1>2. worker' \in [Workers -> WorkerState']
  <2> DEFINE n == [phase |-> "matching", rule |-> 1, event |-> Len(events) + 1]
  <2>1. worker' = [worker EXCEPT ![w] = n]
    BY DEF Begin
  <2>2. n \in WorkerState' /\ WorkerState \subseteq WorkerState'
    BY Grown DEF WorkerState
  <2> HIDE DEF n
  <2>3. worker \in [Workers -> WorkerState]
    BY DEF TypeOK
  <2> QED
    BY <2>1, <2>2, <2>3
<1>3. /\ alerts' \subseteq Alert'
      /\ \A a \in alerts' : /\ a.target = events'[a.event].target
                            /\ Matches(rules'[a.rule].condition, events'[a.event])
                            /\ a.sentAt <= now'
  <2>1. /\ alerts \subseteq Alert
        /\ \A a \in alerts : /\ a.event \in EventIds
                             /\ a.target = events[a.event].target
                             /\ Matches(rules[a.rule].condition, events[a.event])
                             /\ a.sentAt <= now
    BY DEF TypeOK, Alert
  <2>2. Alert \subseteq Alert'
    BY Grown DEF Alert
  <2>3. \A a \in alerts : events'[a.event] = events[a.event]
    BY <2>1, Grown
  <2> QED
    BY <1>1, <2>1, <2>2, <2>3, Grown
<1>4. /\ sends' \subseteq [event : EventIds', rule : RuleIds', slot : Nat,
                           state : {"started", "returned"}]
      /\ \A s \in sends' : /\ \E a \in alerts' : a.event = s.event /\ a.rule = s.rule
                           /\ s.slot \in Known(s.rule)'
  BY <1>1, Grown DEF TypeOK
<1>5. /\ decisions' \subseteq [event : EventIds', rule : RuleIds', fired : BOOLEAN,
                               at : Nat]
      /\ \A d \in decisions' : d.at <= now'
  BY <1>1, Grown DEF TypeOK
<1> QED
  BY <1>1, <1>2, <1>3, <1>4, <1>5, Grown DEF TypeOK

\* The steps of a worker.
LEMMA TypeHandle ==
    ASSUME TypeOK, NEW w \in Workers, PlaceInv(w), Handle(w)
    PROVE  TypeOK'
<1> DEFINE n == worker[w].event
           k == worker[w].rule
<1>1. /\ worker[w] # Idle /\ n \in EventIds /\ k \in RuleIds
      /\ Event(w).target \in Targets /\ KeyOf(worker[w]) \in Keys
  <2>1. worker[w].phase # "idle"
    BY DEF Handle, Skip, Suppress, Pass, Store, Dispatch
  <2> QED
    BY <2>1, WorkerTypes
<1>2. worker \in [Workers -> WorkerState] /\ now \in Nat
  BY DEF TypeOK
<1>3. UNCHANGED <<config, events>> /\ now' = now
  BY DEF Handle, Skip, Suppress, Pass, Store, Dispatch
<1>4. worker' \in [Workers -> WorkerState]
  <2>1. CASE worker' = [worker EXCEPT ![w] = After(w, k)]
    BY <1>1, <1>2, <2>1, AfterTypes
  <2>2. ASSUME NEW p \in {"firing", "dispatching"}, worker' = [worker EXCEPT ![w].phase = p]
        PROVE  worker' \in [Workers -> WorkerState]
    <3>1. worker[w] \in [phase : {"matching", "firing", "dispatching"},
                         event : EventIds, rule : RuleIds]
      BY <1>1, <1>2 DEF WorkerState
    <3>2. [worker[w] EXCEPT !.phase = p] \in WorkerState
      BY <3>1 DEF WorkerState
    <3> QED
      BY <1>2, <2>2, <3>2
  <2> QED
    BY <2>1, <2>2 DEF Handle, Skip, Suppress, Pass, Store, Dispatch
<1>5. throttle' \in [Keys -> Nat]
  <2>1. throttle \in [Keys -> Nat]
    BY DEF TypeOK
  <2>2. CASE throttle' = [throttle EXCEPT ![KeyOf(worker[w])] = now]
    BY <1>1, <1>2, <2>1, <2>2
  <2> QED
    BY <2>1, <2>2 DEF Handle, Skip, Suppress, Pass, Store, Dispatch
<1>6. /\ alerts' \subseteq Alert /\ alerts \subseteq alerts'
      /\ \A a \in alerts' : /\ a.target = events[a.event].target
                            /\ Matches(rules[a.rule].condition, events[a.event])
                            /\ a.sentAt <= now
  <2>1. /\ alerts \subseteq Alert
        /\ \A a \in alerts : /\ a.target = events[a.event].target
                             /\ Matches(rules[a.rule].condition, events[a.event])
                             /\ a.sentAt <= now
    BY DEF TypeOK
  <2>2. CASE Store(w)
    <3> DEFINE b == [event |-> n, rule |-> k, target |-> Event(w).target,
                     status |-> "firing", sentAt |-> now]
    <3>1. alerts' = alerts \union {b}
      BY <2>2 DEF Store
    <3>2. /\ b \in Alert /\ b.target = events[b.event].target
          /\ b.sentAt <= now
      BY <1>1, <1>2 DEF Alert, Event
    <3>3. Matches(rules[b.rule].condition, events[b.event])
      BY <1>1, <2>2 DEF PlaceInv, Store, Matched, Rule, Event
    <3> HIDE DEF b
    <3> QED
      BY <2>1, <3>1, <3>2, <3>3
  <2> QED
    BY <2>1, <2>2 DEF Handle, Skip, Suppress, Pass, Dispatch
<1>7. /\ sends' \subseteq [event : EventIds, rule : RuleIds, slot : Nat,
                           state : {"started", "returned"}]
      /\ \A s \in sends' : /\ \E a \in alerts : a.event = s.event /\ a.rule = s.rule
                           /\ s.slot \in Known(s.rule)
  <2>1. /\ sends \subseteq [event : EventIds, rule : RuleIds, slot : Nat,
                            state : {"started", "returned"}]
        /\ \A s \in sends : /\ \E a \in alerts : a.event = s.event /\ a.rule = s.rule
                            /\ s.slot \in Known(s.rule)
    BY DEF TypeOK
  <2>2. CASE Dispatch(w)
    <3>1. \E a \in alerts : a.event = n /\ a.rule = k
      BY <1>1, <2>2 DEF PlaceInv, Alerted, Dispatch
    <3>2. \A slot \in Known(k) : slot \in Nat
      BY <1>1, RuleTypes DEF Known
    <3>3. \A s \in sends' \ sends :
            \E slot \in Known(k) : s = [event |-> n, rule |-> k, slot |-> slot,
                                        state |-> "started"]
      BY <2>2 DEF Dispatch
    <3> QED
      BY <1>1, <2>1, <3>1, <3>2, <3>3
  <2> QED
    BY <2>1, <2>2 DEF Handle, Skip, Suppress, Pass, Store
<1>8. /\ decisions' \subseteq [event : EventIds, rule : RuleIds, fired : BOOLEAN,
                               at : Nat]
      /\ \A d \in decisions' : d.at <= now
  <2>1. /\ decisions \subseteq [event : EventIds, rule : RuleIds, fired : BOOLEAN,
                                at : Nat]
        /\ \A d \in decisions : d.at <= now
    BY DEF TypeOK
  <2>2. ASSUME NEW fired \in BOOLEAN, Decide(w, fired)
        PROVE  /\ decisions' \subseteq [event : EventIds, rule : RuleIds,
                                       fired : BOOLEAN, at : Nat]
               /\ \A d \in decisions' : d.at <= now
    BY <1>1, <1>2, <2>1, <2>2 DEF Decide
  <2>3. CASE decisions' = decisions
    BY <2>1, <2>3
  <2> QED
    <3>1. (\E fired \in BOOLEAN : Decide(w, fired)) \/ decisions' = decisions
      BY DEF Handle, Skip, Suppress, Pass, Store, Dispatch
    <3> QED
      BY <2>2, <2>3, <3>1
<1> QED
  BY <1>3, <1>4, <1>5, <1>6, <1>7, <1>8, SameTypes DEF TypeOK

\* What happens outside of Process.
LEMMA TypeOutside ==
    ASSUME TypeOK, (\E s \in sends : Return(s)) \/ (\E a \in alerts : AckAlert(a)) \/ Tick
    PROVE  TypeOK'
<1> DEFINE Send == [event : EventIds, rule : RuleIds, slot : Nat,
                    state : {"started", "returned"}]
<1>1. /\ alerts \subseteq Alert /\ sends \subseteq Send
      /\ \A a \in alerts : /\ a.target = events[a.event].target
                           /\ Matches(rules[a.rule].condition, events[a.event])
                           /\ a.sentAt <= now
      /\ \A s \in sends : /\ \E a \in alerts : a.event = s.event /\ a.rule = s.rule
                          /\ s.slot \in Known(s.rule)
  BY DEF TypeOK
<1>2. ASSUME NEW s \in sends, Return(s)
      PROVE  TypeOK'
  <2> DEFINE z == [s EXCEPT !.state = "returned"]
  <2>1. z \in Send /\ z.event = s.event /\ z.rule = s.rule /\ z.slot = s.slot
    BY <1>1
  <2>2. sends' = (sends \ {s}) \union {z}
    BY <1>2 DEF Return
  <2> HIDE DEF z, Send
  <2>3. /\ sends' \subseteq Send
        /\ \A x \in sends' : /\ \E a \in alerts : a.event = x.event /\ a.rule = x.rule
                             /\ x.slot \in Known(x.rule)
    BY <1>1, <2>1, <2>2
  <2>4. UNCHANGED <<config, events>>
    BY <1>2 DEF Return
  <2> QED
    BY <1>2, <2>3, <2>4, SameTypes DEF TypeOK, Return, Send
<1>3. ASSUME NEW a \in alerts, AckAlert(a)
      PROVE  TypeOK'
  <2> DEFINE z == [a EXCEPT !.status = "acknowledged"]
  <2>1. /\ z \in Alert /\ z.event = a.event /\ z.rule = a.rule /\ z.target = a.target
        /\ z.sentAt = a.sentAt
    BY <1>1 DEF Alert
  <2>2. alerts' = (alerts \ {a}) \union {z}
    BY <1>3 DEF AckAlert
  <2> HIDE DEF z
  <2>3. /\ alerts' \subseteq Alert
        /\ \A x \in alerts' : /\ x.target = events[x.event].target
                              /\ Matches(rules[x.rule].condition, events[x.event])
                              /\ x.sentAt <= now
    BY <1>1, <2>1, <2>2
  <2>4. \A s \in sends : \E x \in alerts' : x.event = s.event /\ x.rule = s.rule
    BY <1>1, <2>1, <2>2
  <2>5. UNCHANGED <<config, events>>
    BY <1>3 DEF AckAlert
  <2> QED
    BY <1>1, <1>3, <2>3, <2>4, <2>5, SameTypes DEF TypeOK, AckAlert
<1>4. CASE Tick
  <2>1. UNCHANGED <<config, events>> /\ now' = now + 1 /\ now \in Nat
    BY <1>4 DEF Tick, TypeOK
  <2>2. \A a \in alerts : a.sentAt <= now'
    <3>1. \A a \in alerts : a.sentAt \in Nat /\ a.sentAt <= now
      BY <1>1 DEF Alert
    <3> QED
      BY <2>1, <3>1
  <2>3. \A d \in decisions : d.at <= now'
    <3>1. \A d \in decisions : d.at \in Nat /\ d.at <= now
      BY DEF TypeOK
    <3> QED
      BY <2>1, <3>1
  <2>4. now' \in Nat
    BY <2>1
  <2> HIDE DEF Send
  <2> QED
    BY <1>1, <1>4, <2>1, <2>2, <2>3, <2>4, SameTypes DEF TypeOK, Tick
<1> QED
  BY <1>2, <1>3, <1>4

LEMMA TypeStep == IInv /\ [Next]_vars => TypeOK'
<1> SUFFICES ASSUME IInv, [Next]_vars PROVE TypeOK'
  OBVIOUS
<1>1. TypeOK /\ \A w \in Workers : PlaceInv(w)
  BY DEF IInv
<1>2. CASE UNCHANGED vars
  <2>1. UNCHANGED <<config, events>>
    BY <1>2 DEF vars
  <2> QED
    BY <1>1, <1>2, <2>1, SameTypes DEF vars, TypeOK
<1>3. CASE \E w \in Workers, t \in Targets, change \in Transitions : Begin(w, t, change)
  BY <1>1, <1>3, TypeBegin
<1>4. CASE \E w \in Workers : Handle(w)
  BY <1>1, <1>4, TypeHandle
<1> QED
  BY <1>1, <1>2, <1>3, <1>4, TypeOutside DEF Next, Handle

-----------------------------------------------------------------------------
(* The throttle.                                                            *)

\* Who fired when is not changed by what neither decides nor brings an event.
LEMMA ThrottleKept ==
    ASSUME TypeOK, ThrottleInv, ThrottleSpacing, SuppressedHasReason,
           UNCHANGED <<config, throttle, decisions>>,
           \A n \in EventIds : events'[n] = events[n],
           now' \in Nat, now' >= now
    PROVE  ThrottleInv' /\ ThrottleSpacing' /\ SuppressedHasReason'
<1>1. /\ rules' = rules /\ Keys' = Keys
      /\ throttle' = throttle /\ decisions' = decisions
  BY DEF config, Keys, RuleNames, RuleIds
<1>2. \A d \in decisions : /\ d.event \in EventIds /\ events'[d.event] = events[d.event]
                           /\ KeyOf(d)' = KeyOf(d)
  BY <1>1 DEF TypeOK, KeyOf
<1>3. now \in Nat /\ \A key \in Keys : throttle[key] \in Nat
  BY DEF TypeOK
<1>4. ThrottleInv'
  BY <1>1, <1>2, <1>3 DEF ThrottleInv
<1>5. ThrottleSpacing'
  BY <1>1, <1>2 DEF ThrottleSpacing, SameTarget
<1>6. SuppressedHasReason'
  BY <1>1, <1>2 DEF SuppressedHasReason
<1> QED
  BY <1>4, <1>5, <1>6

\* The alert is held back for the one whose time the throttle holds.
LEMMA ThrottleSuppress ==
    ASSUME TypeOK, ThrottleInv, ThrottleSpacing, SuppressedHasReason,
           NEW w \in Workers, Suppress(w)
    PROVE  ThrottleInv' /\ ThrottleSpacing' /\ SuppressedHasReason'
<1> DEFINE n == [event |-> worker[w].event, rule |-> worker[w].rule,
                 fired |-> FALSE, at |-> now]
           key == KeyOf(worker[w])
<1>1. /\ decisions' = decisions \union {n}
      /\ rules' = rules /\ events' = events /\ throttle' = throttle /\ now' = now
      /\ Keys' = Keys
  <2>1. decisions' = decisions \union {n}
    BY DEF Suppress, Decide
  <2>2. UNCHANGED <<config, events, throttle, now>>
    BY DEF Suppress
  <2> QED
    BY <2>1, <2>2, SameTypes
<1>2. key \in Keys
  <2>1. worker[w].phase # "idle"
    BY DEF Suppress
  <2> QED
    BY <2>1, WorkerTypes
<1>3. /\ n.fired = FALSE /\ n.at = now /\ KeyOf(n) = key
      /\ rules[n.rule].throttle = Rule(w).throttle
  BY DEF KeyOf, Rule
<1>4. throttle[key] > 0 /\ now - throttle[key] < Rule(w).throttle
      /\ throttle[key] <= now
  BY <1>2 DEF Suppress, Throttled, LastFired, ThrottleInv
<1>5. PICK e \in decisions : e.fired /\ KeyOf(e) = key /\ e.at = throttle[key]
  BY <1>2, <1>4 DEF ThrottleInv
<1> HIDE DEF n, key
<1>0. \A d : KeyOf(d)' = KeyOf(d)
  BY <1>1 DEF KeyOf
<1>6. SuppressedHasReason'
  <2> SUFFICES ASSUME NEW d \in decisions', ~d.fired
               PROVE  \E x \in decisions :
                        /\ x.fired /\ KeyOf(x) = KeyOf(d)
                        /\ x.at <= d.at /\ d.at - x.at < rules[d.rule].throttle
    BY <1>0, <1>1 DEF SuppressedHasReason
  <2>1. CASE d \in decisions
    BY <2>1 DEF SuppressedHasReason
  <2>2. CASE d = n
    BY <1>3, <1>4, <1>5, <2>2
  <2> QED
    BY <1>1, <2>1, <2>2
<1>7. ThrottleInv'
  BY <1>0, <1>1, <1>3 DEF ThrottleInv
<1>8. ThrottleSpacing'
  BY <1>1, <1>3 DEF ThrottleSpacing, SameTarget
<1> QED
  BY <1>6, <1>7, <1>8

\* The alert that is let pass is a throttle younger than every other.
LEMMA ThrottlePass ==
    ASSUME TypeOK, ThrottleInv, ThrottleSpacing, SuppressedHasReason,
           NEW w \in Workers, Pass(w)
    PROVE  ThrottleInv' /\ ThrottleSpacing' /\ SuppressedHasReason'
<1> DEFINE n == [event |-> worker[w].event, rule |-> worker[w].rule,
                 fired |-> TRUE, at |-> now]
           key == KeyOf(worker[w])
           last == throttle[key]
<1>1. /\ decisions' = decisions \union {n}
      /\ throttle' = [throttle EXCEPT ![key] = now]
      /\ rules' = rules /\ events' = events /\ now' = now
      /\ Keys' = Keys
  <2>1. decisions' = decisions \union {n}
    BY DEF Pass, Decide
  <2>2. throttle' = [throttle EXCEPT ![key] = now]
    BY DEF Pass
  <2>3. UNCHANGED <<config, events, now>>
    BY DEF Pass
  <2> QED
    BY <2>1, <2>2, <2>3, SameTypes
<1>2. key \in Keys /\ Rule(w).throttle \in Nat
  <2>1. worker[w].phase # "idle"
    BY DEF Pass
  <2> QED
    BY <2>1, WorkerTypes
<1>3. /\ n.fired = TRUE /\ n.at = now /\ KeyOf(n) = key
      /\ rules[n.rule].throttle = Rule(w).throttle
  BY DEF KeyOf, Rule
<1>4. /\ now \in Nat /\ now >= 1 /\ last \in Nat /\ last <= now
      /\ throttle \in [Keys -> Nat]
  BY <1>2 DEF TypeOK, ThrottleInv
<1>5. last = 0 \/ Rule(w).throttle = 0 \/ now - last >= Rule(w).throttle
  BY <1>2, <1>4 DEF Pass, Throttled, LastFired
<1>6. \A d \in decisions : /\ d.event \in EventIds /\ d.rule \in RuleIds /\ d.at \in Nat
                           /\ d.at <= now
  BY DEF TypeOK
<1>7. \A d \in decisions : KeyOf(d) \in Keys
  <2>1. events \in Seq([target : Targets, from : STRING, to : STRING])
    BY DEF TypeOK
  <2>2. EventIds = 1 .. Len(events)
    BY <2>1, LenProperties DEF EventIds
  <2>3. \A i \in EventIds : events[i] \in [target : Targets, from : STRING, to : STRING]
    BY <2>1, <2>2, ElementOfSeq
  <2>4. \A d \in decisions : events[d.event].target \in Targets
    BY <1>6, <2>3
  <2>5. \A d \in decisions : rules[d.rule].name \in RuleNames
    BY <1>6 DEF RuleNames
  <2> QED
    BY <2>4, <2>5 DEF KeyOf, Keys
<1> HIDE DEF n, key
<1>8. \A d : KeyOf(d)' = KeyOf(d)
  BY <1>1 DEF KeyOf
<1>9. \A k \in Keys : throttle'[k] = IF k = key THEN now ELSE throttle[k]
  BY <1>1, <1>2, <1>4
<1>10. ThrottleInv'
  <2>1. now' >= 1
    BY <1>1, <1>4
  <2>2. ASSUME NEW k \in Keys
        PROVE  /\ throttle'[k] <= now
               /\ throttle'[k] > 0 =>
                    \E d \in decisions' :
                       d.fired /\ KeyOf(d) = k /\ d.at = throttle'[k]
    <3>1. CASE k = key
      BY <1>1, <1>3, <1>4, <1>9, <3>1
    <3>2. CASE k # key
      BY <1>1, <1>9, <3>2 DEF ThrottleInv
    <3> QED
      BY <3>1, <3>2
  <2>3. ASSUME NEW d \in decisions', d.fired
        PROVE  d.at >= 1 /\ d.at <= throttle'[KeyOf(d)]
    <3>1. CASE d = n
      BY <1>2, <1>3, <1>4, <1>9, <3>1
    <3>2. CASE d \in decisions
      <4>1. d.at >= 1 /\ d.at <= now /\ d.at <= throttle[KeyOf(d)]
        BY <1>6, <2>3, <3>2 DEF ThrottleInv
      <4> QED
        BY <1>7, <1>9, <3>2, <4>1
    <3> QED
      BY <1>1, <3>1, <3>2
  <2> QED
    BY <1>1, <1>8, <2>1, <2>2, <2>3 DEF ThrottleInv
<1>11. ThrottleSpacing'
  <2>1. ASSUME NEW d \in decisions, d.fired, d.rule = n.rule, SameTarget(d, n)
        PROVE  /\ now - d.at >= rules[n.rule].throttle
               /\ n.at <= d.at => d.at - now >= rules[n.rule].throttle
    <3>1. KeyOf(d) = key
      BY <1>3, <2>1 DEF SameTarget, KeyOf
    <3>2. d.at >= 1 /\ d.at <= last /\ d.at \in Nat /\ d.at <= now
      BY <1>6, <2>1, <3>1 DEF ThrottleInv
    <3> QED
      BY <1>2, <1>3, <1>4, <1>5, <3>2
  <2> SUFFICES ASSUME NEW d \in decisions', NEW e \in decisions',
                      d # e, d.fired, e.fired, d.rule = e.rule,
                      SameTarget(d, e), d.at <= e.at
               PROVE  e.at - d.at >= rules[d.rule].throttle
    BY <1>1 DEF ThrottleSpacing, SameTarget
  <2>2. CASE d \in decisions /\ e \in decisions
    BY <2>2 DEF ThrottleSpacing
  <2>3. CASE d \in decisions /\ e = n
    BY <1>3, <2>1, <2>3
  <2>4. CASE d = n /\ e \in decisions
    <3>1. SameTarget(e, n)
      BY <2>4 DEF SameTarget
    <3> QED
      BY <1>3, <2>1, <2>4, <3>1
  <2> QED
    BY <1>1, <2>2, <2>3, <2>4
<1>12. SuppressedHasReason'
  BY <1>1, <1>3, <1>8 DEF SuppressedHasReason
<1> QED
  BY <1>10, <1>11, <1>12

LEMMA ThrottleStep ==
    IInv /\ [Next]_vars => ThrottleInv' /\ ThrottleSpacing' /\ SuppressedHasReason'
<1> SUFFICES ASSUME IInv, [Next]_vars
             PROVE  ThrottleInv' /\ ThrottleSpacing' /\ SuppressedHasReason'
  OBVIOUS
<1>1. TypeOK /\ ThrottleInv /\ ThrottleSpacing /\ SuppressedHasReason /\ now \in Nat
  BY DEF IInv, TypeOK
<1>2. CASE \E w \in Workers, t \in Targets, change \in Transitions : Begin(w, t, change)
  <2>1. /\ UNCHANGED <<config, throttle, decisions>> /\ now' = now
        /\ \A n \in EventIds : events'[n] = events[n]
    BY <1>1, <1>2, Grown DEF Begin
  <2> QED
    BY <1>1, <2>1, ThrottleKept
<1>3. CASE \/ UNCHANGED vars \/ Tick
           \/ \E w \in Workers : Skip(w) \/ Store(w) \/ Dispatch(w)
           \/ (\E s \in sends : Return(s)) \/ (\E a \in alerts : AckAlert(a))
  <2>1. /\ UNCHANGED <<config, throttle, decisions>> /\ events' = events
        /\ now' \in {now, now + 1}
    BY <1>3 DEF vars, Tick, Skip, Store, Dispatch, Return, AckAlert
  <2> QED
    BY <1>1, <2>1, ThrottleKept
<1>4. CASE \E w \in Workers : Suppress(w) \/ Pass(w)
  BY <1>1, <1>4, ThrottleSuppress, ThrottlePass
<1> QED
  BY <1>2, <1>3, <1>4 DEF Next

-----------------------------------------------------------------------------
(* Workers and answers.                                                     *)

WorkInv == OneWorker /\ (\A w \in Workers : PlaceInv(w)) /\ MatchesAreAnswered

\* What is decided and stored for the rules of an event stays that, and so does
\* the place of its worker.
LEMMA PlaceKept ==
    ASSUME TypeOK, NEW w \in Workers, PlaceInv(w), worker'[w] = worker[w],
           rules' = rules, \A n \in EventIds : events'[n] = events[n],
           \A d \in decisions' \ decisions : d.event # worker[w].event,
           \A a \in alerts' \ alerts :
              a.event = worker[w].event =>
                 \E b \in alerts : b.event = a.event /\ b.rule = a.rule,
           decisions \subseteq decisions',
           \A b \in alerts : \E a \in alerts' : a.event = b.event /\ a.rule = b.rule
    PROVE  PlaceInv(w)'
<1> SUFFICES ASSUME worker[w] # Idle
             PROVE  PlaceInv(w)'
  BY DEF PlaceInv
<1> DEFINE n == worker[w].event
           k == worker[w].rule
           p == worker[w].phase
<1>1. /\ \A d \in decisions : d.event = n =>
            d.rule < k \/ (d.rule = k /\ p # "matching" /\ d.fired)
      /\ \A a \in alerts : a.event = n => a.rule < k \/ (a.rule = k /\ p = "dispatching")
      /\ p # "matching" => Decided(n, k, TRUE) /\ Matched(w)
      /\ p = "dispatching" => Alerted(n, k)
  BY DEF PlaceInv
<1>2. n \in EventIds
  BY WorkerTypes
<1>3. /\ \A d \in decisions' : d.event = n =>
            d.rule < k \/ (d.rule = k /\ p # "matching" /\ d.fired)
      /\ \A a \in alerts' : a.event = n => a.rule < k \/ (a.rule = k /\ p = "dispatching")
  BY <1>1
<1>4. Decided(n, k, TRUE) => Decided(n, k, TRUE)'
  BY DEF Decided
<1>5. Alerted(n, k) => Alerted(n, k)'
  BY DEF Alerted
<1>6. Matched(w)' = Matched(w)
  BY <1>2 DEF Matched, Rule, Event
<1> QED
  BY <1>1, <1>3, <1>4, <1>5, <1>6 DEF PlaceInv, Decided, Alerted

\* An answer stays an answer as long as nothing is decided or stored for it.
LEMMA AnswerKept ==
    ASSUME NEW n, NEW r, DoneWith(n, r),
           n \in EventIds, r \in RuleIds, MatchesAreAnswered,
           rules' = rules, events'[n] = events[n],
           \A d \in decisions' \ decisions : ~(d.event = n /\ d.rule = r),
           \A a \in alerts' \ alerts :
              a.event = n /\ a.rule = r =>
                 \E b \in alerts : b.event = n /\ b.rule = r,
           decisions \subseteq decisions',
           \A b \in alerts : \E a \in alerts' : a.event = b.event /\ a.rule = b.rule
    PROVE  /\ Matches(rules[r].condition, events[n])'
                 <=> Decided(n, r, TRUE)' \/ Decided(n, r, FALSE)'
           /\ Alerted(n, r)' <=> Decided(n, r, TRUE)'
           /\ ~(Decided(n, r, TRUE)' /\ Decided(n, r, FALSE)')
<1>1. \A fired : Decided(n, r, fired)' <=> Decided(n, r, fired)
  BY DEF Decided
<1>2. Alerted(n, r)' <=> Alerted(n, r)
  BY DEF Alerted
<1>3. Matches(rules[r].condition, events[n])' = Matches(rules[r].condition, events[n])
  OBVIOUS
<1> QED
  BY <1>1, <1>2, <1>3 DEF MatchesAreAnswered

\* A worker that turns from a rule leaves that rule, and no other, newly done.
LEMMA NewlyDone ==
    ASSUME TypeOK, OneWorker, NEW w \in Workers, worker[w] # Idle,
           worker' = [worker EXCEPT ![w] = After(w, worker[w].rule)],
           NEW n \in EventIds, NEW r \in RuleIds, DoneWith(n, r)'
    PROVE  DoneWith(n, r) \/ (n = worker[w].event /\ r = worker[w].rule)
<1> DEFINE a == After(w, worker[w].rule)
<1>1. /\ worker'[w] = a /\ \A v \in Workers \ {w} : worker'[v] = worker[v]
      /\ \A v \in Workers : worker'[v].event = n => worker'[v].rule > r
  BY DEF TypeOK, DoneWith
<1>2. /\ worker[w].rule \in Nat /\ r \in 1 .. Len(rules) /\ Len(rules) \in Nat
      /\ \/ /\ worker[w].rule < Len(rules) /\ a.rule = worker[w].rule + 1
            /\ a.event = worker[w].event
         \/ worker[w].rule = Len(rules)
  BY WorkerTypes, AfterTypes, RuleTypes
<1> HIDE DEF a
<1>3. CASE n = worker[w].event
  <2>1. r <= worker[w].rule
    BY <1>1, <1>2, <1>3
  <2>2. \A v \in Workers \ {w} : worker[v].event # n
    BY <1>3 DEF OneWorker
  <2> QED
    BY <1>2, <1>3, <2>1, <2>2 DEF DoneWith
<1>4. CASE n # worker[w].event
  BY <1>1, <1>4 DEF DoneWith
<1> QED
  BY <1>3, <1>4

\* Where the workers are, and who they are, once w has turned from its rule.
LEMMA TurnedWorkers ==
    ASSUME TypeOK, OneWorker, NEW w \in Workers, worker[w] # Idle,
           worker' = [worker EXCEPT ![w] = After(w, worker[w].rule)]
    PROVE  /\ OneWorker'
           /\ \A v \in Workers \ {w} :
                 worker'[v] = worker[v] /\ worker[v].event # worker[w].event
<1>1. /\ worker'[w] = After(w, worker[w].rule)
      /\ \A v \in Workers \ {w} : worker'[v] = worker[v]
  BY DEF TypeOK
<1>2. /\ worker[w].event # 0
      /\ worker'[w].event \in {worker[w].event, 0}
      /\ worker'[w] = Idle \/ worker'[w].event = worker[w].event
      /\ \A v \in Workers : worker[v] # Idle => worker[v].event # 0
  BY <1>1, WorkerTypes, AfterTypes DEF Idle
<1> QED
  BY <1>1, <1>2 DEF OneWorker

LEMMA WorkBegin ==
    ASSUME TypeOK, WorkInv, NEW w \in Workers, NEW t \in Targets,
           NEW change \in Transitions, Begin(w, t, change)
    PROVE  WorkInv'
<1> DEFINE m == Len(events) + 1
           n == [phase |-> "matching", rule |-> 1, event |-> m]
<1>1. /\ worker' = [worker EXCEPT ![w] = n] /\ worker[w] = Idle
      /\ decisions' = decisions /\ alerts' = alerts
      /\ worker \in [Workers -> WorkerState]
  BY DEF Begin, TypeOK
<1>2. /\ m \in EventIds' /\ m \notin EventIds /\ m # 0 /\ n # Idle
      /\ EventIds' \subseteq EventIds \union {m} /\ 0 \notin EventIds'
      /\ \A i \in EventIds : events'[i] = events[i]
      /\ rules' = rules /\ RuleIds' = RuleIds
  BY Grown DEF Idle
<1>3. \A v \in Workers : worker[v].event # m /\ (worker[v] # Idle => worker[v].event # 0)
  BY <1>2, WorkerTypes
<1>4. n.event = m /\ n.rule = 1 /\ n.phase = "matching" /\ Idle.event = 0
  BY DEF Idle
<1> HIDE DEF m, n
<1>5. OneWorker'
  BY <1>1, <1>2, <1>3, <1>4 DEF OneWorker, WorkInv
<1>6. ASSUME NEW v \in Workers PROVE PlaceInv(v)'
  <2>1. CASE v # w
    BY <1>1, <1>2, <2>1, PlaceKept DEF WorkInv
  <2>2. CASE v = w
    <3>1. \A d \in decisions : d.event # m
      BY <1>2 DEF TypeOK
    <3>2. \A a \in alerts : a.event # m
      BY <1>2 DEF TypeOK, Alert
    <3> QED
      BY <1>1, <1>4, <2>2, <3>1, <3>2 DEF PlaceInv
  <2> QED
    BY <2>1, <2>2
<1>7. MatchesAreAnswered'
  <2> SUFFICES ASSUME NEW i \in EventIds', NEW r \in RuleIds', DoneWith(i, r)'
               PROVE  /\ Matches(rules[r].condition, events[i])'
                            <=> Decided(i, r, TRUE)' \/ Decided(i, r, FALSE)'
                      /\ Alerted(i, r)' <=> Decided(i, r, TRUE)'
                      /\ ~(Decided(i, r, TRUE)' /\ Decided(i, r, FALSE)')
    BY DEF MatchesAreAnswered, Decided, Alerted
  <2>1. r \in RuleIds /\ r \in Nat /\ r >= 1
    BY <1>2, RuleTypes
  <2>2. i # m
    BY <1>1, <1>4, <2>1 DEF DoneWith
  <2>3. i \in EventIds /\ DoneWith(i, r)
    <3>1. i \in EventIds /\ worker[w].event # i
      BY <1>1, <1>2, <1>4, <2>2
    <3> QED
      BY <1>1, <3>1 DEF DoneWith
  <2> QED
    BY <1>1, <1>2, <2>1, <2>3, AnswerKept DEF WorkInv
<1> QED
  BY <1>5, <1>6, <1>7 DEF WorkInv

\* A worker turns from a rule that it has answered.
LEMMA WorkTurn ==
    ASSUME TypeOK, WorkInv, NEW w \in Workers, NEW n, NEW k,
           n = worker[w].event, k = worker[w].rule, worker[w] # Idle,
           worker' = [worker EXCEPT ![w] = After(w, k)],
           UNCHANGED <<config, events, alerts>>, decisions \subseteq decisions',
           \A d \in decisions' \ decisions : d.event = n /\ d.rule = k,
           Matches(rules[k].condition, events[n])
              <=> Decided(n, k, TRUE)' \/ Decided(n, k, FALSE)',
           Alerted(n, k) <=> Decided(n, k, TRUE)',
           ~(Decided(n, k, TRUE)' /\ Decided(n, k, FALSE)')
    PROVE  WorkInv'
<1>1. /\ rules' = rules /\ events' = events /\ alerts' = alerts
      /\ EventIds' = EventIds /\ RuleIds' = RuleIds
  BY SameTypes
<1>2. /\ n \in EventIds /\ k \in RuleIds /\ k \in Nat
      /\ \A d \in decisions : d.rule \in Nat
      /\ \A a \in alerts : a.rule \in Nat
  <2>1. n \in EventIds /\ k \in RuleIds /\ RuleIds \subseteq Nat
    BY WorkerTypes, RuleTypes
  <2>2. /\ \A d \in decisions : d.rule \in RuleIds
        /\ \A a \in alerts : a.rule \in RuleIds
    BY DEF TypeOK, Alert
  <2> QED
    BY <2>1, <2>2
<1>3. /\ OneWorker'
      /\ \A v \in Workers \ {w} :
            worker'[v] = worker[v] /\ worker[v].event # worker[w].event
  BY TurnedWorkers DEF WorkInv
<1>4. ASSUME NEW v \in Workers PROVE PlaceInv(v)'
  <2>1. CASE v # w
    <3>1. \A d \in decisions' \ decisions : d.event # worker[v].event
      BY <1>3, <2>1
    <3> QED
      BY <1>1, <1>3, <2>1, <3>1, PlaceKept DEF WorkInv
  <2>2. CASE v = w
    <3> SUFFICES ASSUME worker'[w] # Idle
                 PROVE  PlaceInv(w)'
      BY <2>2 DEF PlaceInv
    <3>1. /\ worker'[w].event = n /\ worker'[w].rule = k + 1
          /\ worker'[w].phase = "matching"
      BY AfterTypes DEF TypeOK
    <3>2. /\ \A d \in decisions : d.event = n => d.rule <= k
          /\ \A a \in alerts : a.event = n => a.rule <= k
      <4>1. /\ \A d \in decisions : d.event = n => d.rule < k \/ d.rule = k
            /\ \A a \in alerts : a.event = n => a.rule < k \/ a.rule = k
        BY DEF WorkInv, PlaceInv
      <4> QED
        BY <1>2, <4>1
    <3>3. /\ \A d \in decisions' : d.event = n => d.rule < k + 1
          /\ \A a \in alerts' : a.event = n => a.rule < k + 1
      BY <1>1, <1>2, <3>2
    <3> QED
      BY <3>1, <3>3 DEF PlaceInv
  <2> QED
    BY <2>1, <2>2
<1>5. MatchesAreAnswered'
  <2> SUFFICES ASSUME NEW i \in EventIds, NEW r \in RuleIds, DoneWith(i, r)'
               PROVE  /\ Matches(rules[r].condition, events[i])'
                            <=> Decided(i, r, TRUE)' \/ Decided(i, r, FALSE)'
                      /\ Alerted(i, r)' <=> Decided(i, r, TRUE)'
                      /\ ~(Decided(i, r, TRUE)' /\ Decided(i, r, FALSE)')
    BY <1>1 DEF MatchesAreAnswered, Decided, Alerted
  <2>1. CASE i = n /\ r = k
    BY <1>1, <2>1 DEF Alerted
  <2>2. CASE ~(i = n /\ r = k)
    <3>1. DoneWith(i, r)
      BY <2>2, NewlyDone DEF WorkInv
    <3> QED
      BY <1>1, <2>2, <3>1, AnswerKept DEF WorkInv
  <2> QED
    BY <2>1, <2>2
<1> QED
  BY <1>3, <1>4, <1>5 DEF WorkInv

LEMMA WorkAnswer ==
    ASSUME TypeOK, WorkInv, NEW w \in Workers,
           Skip(w) \/ Suppress(w) \/ Dispatch(w)
    PROVE  WorkInv'
<1>0. PICK n, k : n = worker[w].event /\ k = worker[w].rule
  OBVIOUS
<1>1. /\ worker[w] # Idle /\ worker' = [worker EXCEPT ![w] = After(w, k)]
      /\ UNCHANGED <<config, events, alerts>>
  <2>1. worker[w].phase # "idle"
    BY DEF Skip, Suppress, Dispatch
  <2> QED
    BY <1>0, <2>1, WorkerTypes DEF Skip, Suppress, Dispatch
<1>2. Matched(w) = Matches(rules[k].condition, events[n])
  BY <1>0 DEF Matched, Rule, Event
<1>3. /\ k \in Nat
      /\ \A d \in decisions : d.rule \in Nat /\ d.fired \in BOOLEAN
      /\ \A a \in alerts : a.rule \in Nat
      /\ PlaceInv(w)
  <2>1. RuleIds \subseteq Nat /\ k \in RuleIds
    BY <1>0, <1>1, WorkerTypes, RuleTypes
  <2>2. /\ \A d \in decisions : d.rule \in RuleIds /\ d.fired \in BOOLEAN
        /\ \A a \in alerts : a.rule \in RuleIds
    BY DEF TypeOK, Alert
  <2> QED
    BY <2>1, <2>2 DEF WorkInv
<1>4. CASE Skip(w)
  <2>1. ~Matched(w) /\ decisions' = decisions /\ worker[w].phase = "matching"
    BY <1>4 DEF Skip
  <2>2. /\ \A d \in decisions' : ~(d.event = n /\ d.rule = k)
        /\ \A a \in alerts : ~(a.event = n /\ a.rule = k)
    BY <1>0, <1>1, <1>3, <2>1 DEF PlaceInv
  <2>3. ~Decided(n, k, TRUE)' /\ ~Decided(n, k, FALSE)' /\ ~Alerted(n, k)
    BY <2>2 DEF Decided, Alerted
  <2>4. \A d \in decisions' \ decisions : d.event = n /\ d.rule = k
    BY <2>1
  <2> QED
    BY <1>0, <1>1, <1>2, <2>1, <2>3, <2>4, WorkTurn
<1>5. CASE Suppress(w)
  <2> DEFINE e == [event |-> n, rule |-> k, fired |-> FALSE, at |-> now]
  <2>1. /\ Matched(w) /\ decisions' = decisions \union {e}
        /\ worker[w].phase = "matching"
    BY <1>0, <1>5 DEF Suppress, Decide
  <2>2. e.event = n /\ e.rule = k /\ e.fired = FALSE
    OBVIOUS
  <2> HIDE DEF e
  <2>3. /\ \A d \in decisions : ~(d.event = n /\ d.rule = k)
        /\ \A a \in alerts : ~(a.event = n /\ a.rule = k)
    BY <1>0, <1>1, <1>3, <2>1 DEF PlaceInv
  <2>4. ~Decided(n, k, TRUE)' /\ Decided(n, k, FALSE)' /\ ~Alerted(n, k)
    BY <1>1, <2>1, <2>2, <2>3 DEF Decided, Alerted
  <2>5. \A d \in decisions' \ decisions : d.event = n /\ d.rule = k
    BY <2>1, <2>2
  <2> QED
    <3>1. /\ Matches(rules[k].condition, events[n])
                <=> Decided(n, k, TRUE)' \/ Decided(n, k, FALSE)'
          /\ Alerted(n, k) <=> Decided(n, k, TRUE)'
          /\ ~(Decided(n, k, TRUE)' /\ Decided(n, k, FALSE)')
      BY <1>2, <2>1, <2>4
    <3>2. decisions \subseteq decisions'
      BY <2>1
    <3> QED
      BY <1>0, <1>1, <2>5, <3>1, <3>2, WorkTurn
<1>6. CASE Dispatch(w)
  <2>1. decisions' = decisions /\ worker[w].phase = "dispatching"
    BY <1>6 DEF Dispatch
  <2>2. /\ \A d \in decisions : d.event = n /\ d.rule = k => d.fired
        /\ Decided(n, k, TRUE) /\ Alerted(n, k) /\ Matched(w)
    <3>1. /\ \A d \in decisions : d.event = n => d.rule < k \/ d.fired
          /\ Decided(n, k, TRUE) /\ Alerted(n, k) /\ Matched(w)
      BY <1>0, <1>1, <1>3, <2>1 DEF PlaceInv
    <3>2. \A d \in decisions : d.rule = k => ~(d.rule < k)
      BY <1>3
    <3> QED
      BY <3>1, <3>2
  <2>3. Decided(n, k, TRUE)' /\ ~Decided(n, k, FALSE)'
    BY <2>1, <2>2, <1>3 DEF Decided
  <2>4. \A d \in decisions' \ decisions : d.event = n /\ d.rule = k
    BY <2>1
  <2> QED
    BY <1>0, <1>1, <1>2, <2>1, <2>2, <2>3, <2>4, WorkTurn
<1> QED
  BY <1>4, <1>5, <1>6

\* A worker goes on with its rule ...
LEMMA KeepsRule ==
    ASSUME TypeOK, OneWorker, NEW w \in Workers, NEW n, NEW k,
           n = worker[w].event, k = worker[w].rule, worker[w] # Idle,
           \/ worker' = [worker EXCEPT ![w].phase = "firing"]
           \/ worker' = [worker EXCEPT ![w].phase = "dispatching"]
    PROVE  /\ OneWorker'
           /\ worker'[w].phase \in {"firing", "dispatching"}
           /\ worker'[w].event = n /\ worker'[w].rule = k /\ worker'[w] # Idle
           /\ \A v \in Workers \ {w} : worker'[v] = worker[v] /\ worker[v].event # n
<1>1. /\ worker[w] \in [phase : {"matching", "firing", "dispatching"},
                        event : EventIds, rule : RuleIds]
      /\ worker \in [Workers -> WorkerState]
  BY DEF TypeOK, WorkerState
<1>2. /\ worker'[w].phase \in {"firing", "dispatching"}
      /\ worker'[w].event = n /\ worker'[w].rule = k
      /\ \A v \in Workers \ {w} : worker'[v] = worker[v]
  BY <1>1
<1>3. worker'[w] # Idle
  BY <1>2 DEF Idle
<1>4. \A v \in Workers \ {w} : worker[v].event # n
  BY DEF OneWorker
<1>5. OneWorker'
  <2> SUFFICES ASSUME NEW u \in Workers, NEW v \in Workers, u # v, worker'[u] # Idle
               PROVE  worker'[u].event # worker'[v].event
    BY DEF OneWorker
  <2>1. CASE u = w \/ v = w
    BY <1>2, <1>4, <2>1
  <2>2. CASE u # w /\ v # w
    BY <1>2, <2>2 DEF OneWorker
  <2> QED
    BY <2>1, <2>2
<1> QED
  BY <1>2, <1>3, <1>4, <1>5

\* ... and is not done with it, nor is any other worker newly done.
LEMMA NotDone ==
    ASSUME NEW w \in Workers, NEW n, NEW k, worker[w].event = n, worker[w].rule = k,
           k \in Nat, worker'[w].event = n, worker'[w].rule = k,
           \A v \in Workers \ {w} : worker'[v] = worker[v],
           NEW i, NEW r, DoneWith(i, r)'
    PROVE  DoneWith(i, r) /\ ~(i = n /\ r = k)
<1>1. \A v \in Workers : worker[v].event = i => worker[v].rule > r
  BY DEF DoneWith
<1>2. ~(k > k)
  OBVIOUS
<1> QED
  BY <1>1, <1>2 DEF DoneWith

LEMMA WorkFire ==
    ASSUME TypeOK, WorkInv, NEW w \in Workers, Pass(w) \/ Store(w)
    PROVE  WorkInv'
<1>0. PICK n, k : n = worker[w].event /\ k = worker[w].rule
  OBVIOUS
<1>1. /\ worker[w] # Idle /\ UNCHANGED <<config, events>> /\ PlaceInv(w)
      /\ n \in EventIds /\ k \in RuleIds
  <2>1. worker[w].phase # "idle"
    BY DEF Pass, Store
  <2> QED
    BY <1>0, <2>1, WorkerTypes DEF Pass, Store, WorkInv
<1>2. /\ rules' = rules /\ events' = events
      /\ EventIds' = EventIds /\ RuleIds' = RuleIds
  BY <1>1, SameTypes
<1>3. PICK p : p = worker'[w].phase
  OBVIOUS
<1>4. /\ OneWorker'
      /\ p \in {"firing", "dispatching"} /\ worker'[w].phase = p
      /\ worker'[w].event = n /\ worker'[w].rule = k /\ worker'[w] # Idle
      /\ \A v \in Workers \ {w} : worker'[v] = worker[v] /\ worker[v].event # n
  <2>1. OneWorker
    BY DEF WorkInv
  <2>2. \/ worker' = [worker EXCEPT ![w].phase = "firing"]
        \/ worker' = [worker EXCEPT ![w].phase = "dispatching"]
    BY DEF Pass, Store
  <2> QED
    BY <1>0, <1>1, <1>3, <2>1, <2>2, KeepsRule
<1>5. /\ decisions \subseteq decisions' /\ alerts \subseteq alerts'
      /\ \A d \in decisions' \ decisions : d.event = n /\ d.rule = k
      /\ \A a \in alerts' \ alerts : a.event = n /\ a.rule = k
  BY <1>0 DEF Pass, Store, Decide
<1>6. MatchesAreAnswered'
  <2> SUFFICES ASSUME NEW i \in EventIds, NEW r \in RuleIds, DoneWith(i, r)'
               PROVE  /\ Matches(rules[r].condition, events[i])'
                            <=> Decided(i, r, TRUE)' \/ Decided(i, r, FALSE)'
                      /\ Alerted(i, r)' <=> Decided(i, r, TRUE)'
                      /\ ~(Decided(i, r, TRUE)' /\ Decided(i, r, FALSE)')
    BY <1>2 DEF MatchesAreAnswered, Decided, Alerted
  <2>1. DoneWith(i, r) /\ ~(i = n /\ r = k)
    <3>1. k \in Nat
      BY <1>1, RuleTypes
    <3> QED
      BY <1>0, <1>4, <3>1, NotDone
  <2> QED
    BY <1>2, <1>5, <2>1, AnswerKept DEF WorkInv
<1>7. ASSUME NEW v \in Workers, v # w PROVE PlaceInv(v)'
  <2>1. /\ worker'[v] = worker[v] /\ PlaceInv(v)
        /\ \A d \in decisions' \ decisions : d.event # worker[v].event
        /\ \A a \in alerts' \ alerts : a.event # worker[v].event
    BY <1>4, <1>5, <1>7 DEF WorkInv
  <2> QED
    BY <1>2, <1>5, <2>1, PlaceKept
<1>8. PlaceInv(w)'
  <2>1. Matched(w)' = Matched(w)
    BY <1>0, <1>2, <1>4 DEF Matched, Rule, Event
  <2>2. CASE Pass(w)
    <3> DEFINE e == [event |-> n, rule |-> k, fired |-> TRUE, at |-> now]
    <3>1. /\ decisions' = decisions \union {e} /\ alerts' = alerts
          /\ worker[w].phase = "matching" /\ Matched(w) /\ p = "firing"
      <4>1. worker'[w].phase = "firing"
        BY <2>2 DEF Pass, TypeOK, WorkerState
      <4> QED
        BY <1>0, <1>4, <2>2, <4>1 DEF Pass, Decide
    <3>2. e.event = n /\ e.rule = k /\ e.fired = TRUE
      OBVIOUS
    <3> HIDE DEF e
    <3>3. /\ \A d \in decisions : d.event = n => d.rule < k
          /\ \A a \in alerts : a.event = n => a.rule < k
      BY <1>0, <1>1, <3>1 DEF PlaceInv
    <3>4. Decided(n, k, TRUE)'
      BY <3>1, <3>2 DEF Decided
    <3>5. \A d \in decisions' : d.event = n =>
             d.rule < k \/ (d.rule = k /\ p # "matching" /\ d.fired)
      BY <3>1, <3>2, <3>3
    <3> QED
      BY <1>4, <2>1, <3>1, <3>3, <3>4, <3>5 DEF PlaceInv, Decided
  <2>3. CASE Store(w)
    <3>1. /\ decisions' = decisions /\ worker[w].phase = "firing"
          /\ \E a \in alerts' : a.event = n /\ a.rule = k
      <4> DEFINE b == [event |-> n, rule |-> k, target |-> Event(w).target,
                       status |-> "firing", sentAt |-> now]
      <4>1. b \in alerts' /\ b.event = n /\ b.rule = k
        BY <1>0, <2>3 DEF Store
      <4> HIDE DEF b
      <4> QED
        BY <2>3, <4>1 DEF Store
    <3>2. worker'[w].phase = "dispatching"
      BY <1>1, <2>3 DEF Store, TypeOK, WorkerState
    <3>3. /\ \A d \in decisions : d.event = n =>
                d.rule < k \/ (d.rule = k /\ p # "matching" /\ d.fired)
          /\ \A a \in alerts : a.event = n => a.rule < k
          /\ Decided(n, k, TRUE) /\ Matched(w)
      <4>1. /\ \A d \in decisions : d.event = n => d.rule < k \/ (d.rule = k /\ d.fired)
            /\ \A a \in alerts : a.event = n => a.rule < k
            /\ Decided(n, k, TRUE) /\ Matched(w)
        BY <1>0, <1>1, <3>1 DEF PlaceInv
      <4>2. p # "matching"
        BY <1>4
      <4> QED
        BY <4>1, <4>2
    <3>4. \A a \in alerts' : a.event = n => a.rule < k \/ (a.rule = k /\ p = "dispatching")
      BY <1>4, <1>5, <3>2, <3>3
    <3> QED
      BY <1>4, <2>1, <3>1, <3>2, <3>3, <3>4 DEF PlaceInv, Decided, Alerted
  <2> QED
    BY <2>2, <2>3
<1> QED
  BY <1>4, <1>6, <1>7, <1>8 DEF WorkInv

LEMMA WorkInit == Init => WorkInv
<1> SUFFICES ASSUME Init PROVE WorkInv
  OBVIOUS
<1>1. \A w \in Workers : worker[w] = Idle
  BY DEF Init
<1>2. EventIds = {}
  <2>1. events = <<>> /\ DOMAIN <<>> = {}
    BY DEF Init
  <2> QED
    BY <2>1 DEF EventIds
<1> QED
  BY <1>1, <1>2 DEF WorkInv, OneWorker, PlaceInv, MatchesAreAnswered

\* The steps that neither decide nor store anything, nor move a worker.
LEMMA WorkOutside ==
    ASSUME TypeOK, WorkInv,
           \/ UNCHANGED vars \/ Tick
           \/ (\E s \in sends : Return(s)) \/ (\E a \in alerts : AckAlert(a))
    PROVE  WorkInv'
<1>1. UNCHANGED <<config, events>> /\ worker' = worker /\ decisions' = decisions
  BY DEF vars, Tick, Return, AckAlert
<1>2. /\ rules' = rules /\ events' = events
      /\ EventIds' = EventIds /\ RuleIds' = RuleIds
  BY <1>1, SameTypes
<1>3. /\ \A a \in alerts' \ alerts :
            \E b \in alerts : b.event = a.event /\ b.rule = a.rule
      /\ \A b \in alerts : \E a \in alerts' : a.event = b.event /\ a.rule = b.rule
  <2>1. CASE alerts' = alerts
    BY <2>1
  <2>2. ASSUME NEW a \in alerts, AckAlert(a)
        PROVE  /\ \A x \in alerts' \ alerts :
                     \E b \in alerts : b.event = x.event /\ b.rule = x.rule
               /\ \A b \in alerts :
                     \E x \in alerts' : x.event = b.event /\ x.rule = b.rule
    <3> DEFINE z == [a EXCEPT !.status = "acknowledged"]
    <3>1. z.event = a.event /\ z.rule = a.rule
      BY DEF TypeOK, Alert
    <3>2. alerts' = (alerts \ {a}) \union {z}
      BY <2>2 DEF AckAlert
    <3> HIDE DEF z
    <3> QED
      BY <3>1, <3>2
  <2> QED
    BY <2>1, <2>2 DEF vars, Tick, Return
<1>4. OneWorker'
  BY <1>1 DEF OneWorker, WorkInv
<1>5. ASSUME NEW v \in Workers PROVE PlaceInv(v)'
  <2>1. worker'[v] = worker[v] /\ PlaceInv(v)
    BY <1>1 DEF WorkInv
  <2> QED
    BY <1>1, <1>2, <1>3, <2>1, PlaceKept
<1>6. MatchesAreAnswered'
  <2> SUFFICES ASSUME NEW i \in EventIds, NEW r \in RuleIds, DoneWith(i, r)'
               PROVE  /\ Matches(rules[r].condition, events[i])'
                            <=> Decided(i, r, TRUE)' \/ Decided(i, r, FALSE)'
                      /\ Alerted(i, r)' <=> Decided(i, r, TRUE)'
                      /\ ~(Decided(i, r, TRUE)' /\ Decided(i, r, FALSE)')
    BY <1>2 DEF MatchesAreAnswered, Decided, Alerted
  <2>1. DoneWith(i, r)
    BY <1>1 DEF DoneWith
  <2> QED
    BY <1>1, <1>2, <1>3, <2>1, AnswerKept DEF WorkInv
<1> QED
  BY <1>4, <1>5, <1>6 DEF WorkInv

LEMMA WorkStep == IInv /\ [Next]_vars => WorkInv'
<1> SUFFICES ASSUME IInv, [Next]_vars PROVE WorkInv'
  OBVIOUS
<1>1. TypeOK /\ WorkInv
  BY DEF IInv, WorkInv
<1>2. CASE \E w \in Workers, t \in Targets, change \in Transitions : Begin(w, t, change)
  BY <1>1, <1>2, WorkBegin
<1>3. CASE \E w \in Workers : Skip(w) \/ Suppress(w) \/ Dispatch(w)
  BY <1>1, <1>3, WorkAnswer
<1>4. CASE \E w \in Workers : Pass(w) \/ Store(w)
  BY <1>1, <1>4, WorkFire
<1>5. CASE \/ UNCHANGED vars \/ Tick
           \/ (\E s \in sends : Return(s)) \/ (\E a \in alerts : AckAlert(a))
  BY <1>1, <1>5, WorkOutside
<1> QED
  BY <1>2, <1>3, <1>4, <1>5 DEF Next

-----------------------------------------------------------------------------
(* The theorems.                                                            *)

LEMMA ThrottleInit == Init => ThrottleInv /\ ThrottleSpacing /\ SuppressedHasReason
BY DEF Init, ThrottleInv, ThrottleSpacing, SuppressedHasReason

\* The inductive invariant of the alert engine: the throttle holds the times of
\* the alerts that were let pass, and every worker stands where its decisions and
\* alerts say.
THEOREM InductiveInvariant == Spec => []IInv
<1>1. Init => IInv
  BY TypeInit, ThrottleInit, WorkInit DEF IInv, WorkInv
<1>2. IInv /\ [Next]_vars => IInv'
  BY TypeStep, ThrottleStep, WorkStep DEF IInv, WorkInv
<1> QED
  BY <1>1, <1>2, PTL DEF Spec

\* Every alert and every notification belongs to an event that Engine.Process was
\* called with and to a rule that the event matches.
THEOREM TypeCorrect == Spec => []TypeOK
<1>1. IInv => TypeOK
  BY DEF IInv
<1> QED
  BY <1>1, InductiveInvariant, PTL

\* The throttle check and its update under one lock space the alerts of a rule
\* for one target, whatever goroutines process its events.
THEOREM AlertsAreSpaced == Spec => []ThrottleSpacing
<1>1. IInv => ThrottleSpacing
  BY DEF IInv
<1> QED
  BY <1>1, InductiveInvariant, PTL

\* The throttle holds an alert back only for a recent one of the same key, whatever
\* the workers do at the same time.
THEOREM SuppressionsAreJustified == Spec => []SuppressedHasReason
<1>1. IInv => SuppressedHasReason
  BY DEF IInv
<1> QED
  BY <1>1, InductiveInvariant, PTL

\* Engine.Process, once past a rule, has answered it: a match was held back or
\* has its alert, and what does not match has none.
THEOREM EveryMatchIsAnswered == Spec => []MatchesAreAnswered
<1>1. IInv => MatchesAreAnswered
  BY DEF IInv
<1> QED
  BY <1>1, InductiveInvariant, PTL
=============================================================================
