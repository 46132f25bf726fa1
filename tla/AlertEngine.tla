---------------------------- MODULE AlertEngine ----------------------------
(***************************************************************************)
(* internal/alerter/engine.go: events are matched against the rules, and   *)
(* every match that is not throttled fires an alert, which is stored and   *)
(* sent to the rule's channels by one goroutine per channel.  What the     *)
(* rules and channels are is settled at the start, from the configuration  *)
(* (buildRules and buildChannels of cmd/conmon/server.go, New).            *)
(*                                                                         *)
(* Process runs in the goroutine that handles a result, a worker here.     *)
(* e.mu guards the throttle check with its update, the store of the alert, *)
(* and AckAlert; everything between them interleaves.                      *)
(***************************************************************************)
EXTENDS Naturals, Sequences, FiniteSets

CONSTANTS
    Targets,
    Workers,     \* goroutines that may be in Process at a time
    Configs,     \* alerting sections a server may be started with
    Notifiers,   \* the types of the notifiers runServer registers
    Transitions, \* the <<from, to>> of the events
    MaxEvents,   \* bound on the events, for model checking
    MaxTime      \* bound on the clock, for model checking

\* A rule names its channels, which need not be configured; neither names of
\* rules nor names of channels are checked for being unique.
RuleConfig == [name : STRING, condition : STRING, channels : Seq(STRING),
               throttle : Nat]

ASSUME ConfigAssumption ==
    /\ \A cfg \in Configs : /\ cfg.rules \in Seq(RuleConfig)
                            /\ cfg.channels \in Seq([name : STRING, type : STRING])
    /\ Targets \subseteq STRING
    /\ Transitions \subseteq STRING \X STRING

\* buildRules: a configuration without rules gets one, which alerts no one.
DefaultDown == [name |-> "default_down", condition |-> "event.to_status == 'DOWN'",
                channels |-> <<>>, throttle |-> 0]
BuildRules(rules) == IF rules = <<>> THEN <<DefaultDown>> ELSE rules

\* New and dispatch: a channel's notifier, of the last channel of that name; at
\* most one.
NotifierOf(channels, name) ==
    LET named == {i \in DOMAIN channels : channels[i].name = name}
    IN  IF named = {} THEN {}
        ELSE {channels[CHOOSE i \in named : \A j \in named : i >= j].type}
                \intersect Notifiers

VARIABLES
    rules,     \* Engine.rules, a sequence
    channels,  \* the channels of the configuration, a sequence
    now,       \* the clock
    events,    \* the events Process was called with, in the order of the calls
    worker,    \* of a worker: [event, rule, phase, decided]
    throttle,  \* Engine.throttle: when an alert of a key was last let pass, 0
               \* never
    alerts,    \* Engine.alerts, as records
    sends      \* the goroutines of dispatch: [event, rule, slot, state], slot
               \* being the place of the channel in the rule

(* Auxiliary: what the throttle check decided, and when.                    *)
VARIABLE decisions  \* a set of [event, rule, fired, at]

config == <<rules, channels>>
vars == <<config, now, events, worker, throttle, alerts, sends, decisions>>

RuleIds == DOMAIN rules
RuleNames == {rules[r].name : r \in RuleIds}

\* The key of the throttle.  IDs and names are any texts: two rules of one name
\* share their keys, and so do "web", "x:down" and "web:x", "down".
ThrottleKey(t, name) == t \o ":" \o name
Keys == {ThrottleKey(t, name) : t \in Targets, name \in RuleNames}

\* The key of what concerns an event and a rule: a worker or a decision.
KeyOf(d) == ThrottleKey(events[d.event].target, rules[d.rule].name)

-----------------------------------------------------------------------------
Idle == [phase |-> "idle", event |-> 0, rule |-> 0]

Event(w) == events[worker[w].event]
Rule(w) == rules[worker[w].rule]

\* matchRule and evalSimpleCondition: a condition that is not one of the known
\* ones holds for every event, which is a status change.
Matches(condition, e) ==
    CASE condition = "" -> FALSE
      [] condition \in {"DOWN", "event.to_status == 'DOWN'"} -> e.to = "DOWN"
      [] condition \in {"UP", "event.to_status == 'UP' && event.from_status == 'DOWN'"}
            -> e.to = "UP" /\ e.from = "DOWN"
      [] OTHER -> TRUE

MutantMatchedAlways(w) == TRUE

Matched(w) == Matches(Rule(w).condition, Event(w))

MutantFirstRuleOnly(w, r) == Idle

\* The worker turns to the rule after r, or is done with its event.
After(w, r) ==
    IF r < Len(rules) THEN [worker[w] EXCEPT !.phase = "matching", !.rule = r + 1]
    ELSE Idle

Init ==
    /\ \E cfg \in Configs : rules = BuildRules(cfg.rules) /\ channels = cfg.channels
    /\ now = 1
    /\ events = <<>>
    /\ worker = [w \in Workers |-> Idle]
    /\ throttle = [key \in Keys |-> 0]
    /\ alerts = {}
    /\ sends = {}
    /\ decisions = {}

-----------------------------------------------------------------------------
\* Engine.Process is called with a new event whose target is in the store; it
\* returns at once, which changes nothing, when the target is not.
Begin(w, t, change) ==
    /\ worker[w] = Idle /\ Len(events) < MaxEvents
    /\ events' = Append(events, [target |-> t, from |-> change[1],
                                 to |-> change[2]])
    /\ worker' = [worker EXCEPT ![w] =
                     [phase |-> "matching", rule |-> 1, event |-> Len(events) + 1]]
    /\ UNCHANGED <<config, now, throttle, alerts, sends, decisions>>

\* The rule does not match.
Skip(w) ==
    /\ worker[w].phase = "matching" /\ ~Matched(w)
    /\ worker' = [worker EXCEPT ![w] = After(w, worker[w].rule)]
    /\ UNCHANGED <<config, now, events, throttle, alerts, sends, decisions>>

MutantLastFiredOfRule(w) ==
    LET times == {throttle[ThrottleKey(t, Rule(w).name)] : t \in Targets}
    IN  CHOOSE x \in times : \A y \in times : y <= x

LastFired(w) == throttle[KeyOf(worker[w])]

\* An alert of this key was let pass less than a throttle ago.
Throttled(w) ==
    LastFired(w) > 0 /\ Rule(w).throttle > 0 /\ now - LastFired(w) < Rule(w).throttle

Decide(w, fired) ==
    decisions' = decisions \union {[event |-> worker[w].event,
                                    rule |-> worker[w].rule,
                                    fired |-> fired, at |-> now]}

\* The throttle check holds the alert back ...
Suppress(w) ==
    /\ worker[w].phase = "matching" /\ Matched(w) /\ Throttled(w)
    /\ worker' = [worker EXCEPT ![w] = After(w, worker[w].rule)]
    /\ Decide(w, FALSE)
    /\ UNCHANGED <<config, now, events, throttle, alerts, sends>>

MutantPassUnmarked(w) ==
    /\ worker[w].phase = "matching" /\ Matched(w) /\ ~Throttled(w)
    /\ worker' = [worker EXCEPT ![w].phase = "firing"]
    /\ Decide(w, TRUE)
    /\ UNCHANGED <<config, now, events, throttle, alerts, sends>>

\* ... or lets it pass, and takes its time down under the same lock.
Pass(w) ==
    /\ worker[w].phase = "matching" /\ Matched(w) /\ ~Throttled(w)
    /\ throttle' = [throttle EXCEPT ![KeyOf(worker[w])] = now]
    /\ worker' = [worker EXCEPT ![w].phase = "firing"]
    /\ Decide(w, TRUE)
    /\ UNCHANGED <<config, now, events, alerts, sends>>

\* buildAlert and storeAlert: the alert is firing as of now.
Store(w) ==
    /\ worker[w].phase = "firing"
    /\ alerts' = alerts \union
          {[event |-> worker[w].event, rule |-> worker[w].rule,
            target |-> Event(w).target, status |-> "firing", sentAt |-> now]}
    /\ worker' = [worker EXCEPT ![w].phase = "dispatching"]
    /\ UNCHANGED <<config, now, events, throttle, sends, decisions>>

\* The channels of a rule that have a notifier.
Known(r) == {slot \in DOMAIN rules[r].channels :
               NotifierOf(channels, rules[r].channels[slot]) # {}}

MutantDispatchUntilUnknown(w) ==
    LET known == Known(worker[w].rule)
    IN  /\ worker[w].phase = "dispatching"
        /\ sends' = sends \union
              {[event |-> worker[w].event, rule |-> worker[w].rule, slot |-> slot,
                state |-> "started"] : slot \in {k \in known : 1..k \subseteq known}}
        /\ worker' = [worker EXCEPT ![w] = After(w, worker[w].rule)]
        /\ UNCHANGED <<config, now, events, throttle, alerts, decisions>>

\* dispatch: one goroutine per channel with a notifier, the others are skipped.
Dispatch(w) ==
    /\ worker[w].phase = "dispatching"
    /\ sends' = sends \union
          {[event |-> worker[w].event, rule |-> worker[w].rule, slot |-> slot,
            state |-> "started"] : slot \in Known(worker[w].rule)}
    /\ worker' = [worker EXCEPT ![w] = After(w, worker[w].rule)]
    /\ UNCHANGED <<config, now, events, throttle, alerts, decisions>>

\* Notifier.Send returns, or its 15 seconds are over: the outcome is logged,
\* and a failure is not retried.
Return(s) ==
    /\ s.state = "started"
    /\ sends' = (sends \ {s}) \union {[s EXCEPT !.state = "returned"]}
    /\ UNCHANGED <<config, now, events, worker, throttle, alerts, decisions>>

\* Engine.AckAlert, whatever the status of the alert.
AckAlert(a) ==
    /\ alerts' = (alerts \ {a}) \union {[a EXCEPT !.status = "acknowledged"]}
    /\ UNCHANGED <<config, now, events, worker, throttle, sends, decisions>>

Tick ==
    /\ now < MaxTime
    /\ now' = now + 1
    /\ UNCHANGED <<config, events, worker, throttle, alerts, sends, decisions>>

Handle(w) == Skip(w) \/ Suppress(w) \/ Pass(w) \/ Store(w) \/ Dispatch(w)

Next ==
    \/ Tick
    \/ \E w \in Workers :
          \/ \E t \in Targets, change \in Transitions : Begin(w, t, change)
          \/ Skip(w) \/ Suppress(w) \/ Pass(w) \/ Store(w) \/ Dispatch(w)
    \/ \E s \in sends : Return(s)
    \/ \E a \in alerts : AckAlert(a)

\* Go schedules every goroutine, and a Send has a deadline.
Fairness ==
    /\ \A w \in Workers : WF_vars(Handle(w))
    /\ WF_vars(\E s \in sends : Return(s))

Spec == Init /\ [][Next]_vars /\ Fairness

-----------------------------------------------------------------------------
EventIds == DOMAIN events

\* What a worker may be doing.
WorkerState ==
    {Idle} \union [phase : {"matching", "firing", "dispatching"},
                   event : EventIds, rule : RuleIds]

Alert == [event : EventIds, rule : RuleIds, target : Targets,
          status : {"firing", "acknowledged"}, sentAt : Nat]

\* Types; an alert and a notification belong to an event that came in and to a
\* rule it matches.
TypeOK ==
    /\ rules \in Seq(RuleConfig \union {DefaultDown}) /\ rules # <<>>
    /\ channels \in Seq([name : STRING, type : STRING])
    /\ now \in Nat
    /\ events \in Seq([target : Targets, from : STRING, to : STRING])
    /\ worker \in [Workers -> WorkerState]
    /\ throttle \in [Keys -> Nat]
    /\ alerts \subseteq Alert
    /\ \A a \in alerts : /\ a.target = events[a.event].target
                         /\ Matches(rules[a.rule].condition, events[a.event])
                         /\ a.sentAt <= now
    /\ sends \subseteq [event : EventIds, rule : RuleIds, slot : Nat,
                        state : {"started", "returned"}]
    /\ \A s \in sends : /\ \E a \in alerts : a.event = s.event /\ a.rule = s.rule
                        /\ s.slot \in Known(s.rule)
    /\ decisions \subseteq [event : EventIds, rule : RuleIds, fired : BOOLEAN,
                            at : Nat]
    /\ \A d \in decisions : d.at <= now

SameTarget(d, e) == events[d.event].target = events[e.event].target

\* A rule fires for one target at most once per throttle, even when several
\* goroutines process events of that target at the same time.
ThrottleSpacing ==
    \A d, e \in decisions :
        /\ d # e /\ d.fired /\ e.fired
        /\ d.rule = e.rule /\ SameTarget(d, e) /\ d.at <= e.at
        => e.at - d.at >= rules[d.rule].throttle

\* An alert is held back only for an alert of the same key that was let pass
\* less than a throttle before.
SuppressedHasReason ==
    \A d \in decisions : ~d.fired =>
        \E e \in decisions : /\ e.fired /\ KeyOf(e) = KeyOf(d)
                             /\ e.at <= d.at
                             /\ d.at - e.at < rules[d.rule].throttle

DoneWith(n, r) ==
    \A w \in Workers : worker[w].event = n => worker[w].rule > r

Decided(n, r, fired) ==
    \E d \in decisions : d.event = n /\ d.rule = r /\ d.fired = fired

Alerted(n, r) == \E a \in alerts : a.event = n /\ a.rule = r

\* Every event is answered by every rule: once a worker is past the rule, the
\* match was either held back or has its alert, and nothing else has one.
MatchesAreAnswered ==
    \A n \in EventIds, r \in RuleIds :
        DoneWith(n, r) =>
            /\ Matches(rules[r].condition, events[n])
                  <=> Decided(n, r, TRUE) \/ Decided(n, r, FALSE)
            /\ Alerted(n, r) <=> Decided(n, r, TRUE)
            /\ ~(Decided(n, r, TRUE) /\ Decided(n, r, FALSE))

\* A channel of that name has a notifier: of two channels, the later counts.
Configured(name) ==
    \E i \in DOMAIN channels :
        /\ channels[i].name = name /\ channels[i].type \in Notifiers
        /\ \A j \in DOMAIN channels : j > i => channels[j].name # name

\* The rules event n was let pass for, with the places of their channels that
\* are to be tried.
DueSends(n) ==
    UNION {{<<d.rule, slot>> :
              slot \in {k \in DOMAIN rules[d.rule].channels :
                          Configured(rules[d.rule].channels[k])}} :
           d \in {e \in decisions : e.event = n /\ e.fired}}

\* A match that was let pass is eventually tried on every channel of its rule
\* that is configured with a type there is a notifier for, whatever becomes of
\* the other channels.
PassedIsTried ==
    \A n \in 1 .. MaxEvents :
        DueSends(n) # {} ~>
            \A due \in DueSends(n) :
                \E s \in sends : /\ <<s.event, s.rule, s.slot>> = <<n>> \o due
                                 /\ s.state = "returned"
=============================================================================
