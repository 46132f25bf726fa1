----------------------------- MODULE Hub_proofs -----------------------------
(* Proofs about Hub.tla, for any senders, clients and capacity of the       *)
(* channels.                                                                *)
EXTENDS Hub, TLAPS

-----------------------------------------------------------------------------
(* What a client has been told of a sender, v, and what its channel q says  *)
(* of it, against the sender's last event, top, and its silent statuses, Q. *)

\* Events come in order, none is younger than the last, and what the client
\* knows is no younger either, unless it is a silent status.
InOrder(q, s, v, top, Q) ==
    /\ v <= top \/ v \in Q
    /\ \A i \in DOMAIN q :
          q[i].from = s => (v <= q[i].version \/ v \in Q) /\ q[i].version <= top
    /\ \A i, j \in DOMAIN q :
          i < j /\ q[i].from = s /\ q[j].from = s => q[i].version <= q[j].version

\* The last word on the sender is its last event, or something later.
EndsAt(q, s, v, top) ==
    /\ (\A i \in DOMAIN q : q[i].from # s) => v >= top
    /\ \A i \in DOMAIN q :
          q[i].from = s /\ (\A j \in DOMAIN q : j > i => q[j].from # s)
              => q[i].version = top

LEMMA AppendProperties ==
    ASSUME NEW q \in Seq(Message), NEW m \in Message
    PROVE  /\ Append(q, m) \in Seq(Message)
           /\ DOMAIN q = 1 .. Len(q) /\ Len(q) \in Nat
           /\ DOMAIN Append(q, m) = 1 .. Len(q) + 1
           /\ Len(Append(q, m)) = Len(q) + 1
           /\ \A i \in 1 .. Len(q) : Append(q, m)[i] = q[i] /\ q[i] \in Message
           /\ Append(q, m)[Len(q) + 1] = m
OBVIOUS

LEMMA TailProperties ==
    ASSUME NEW q \in Seq(Message), q # <<>>
    PROVE  /\ Tail(q) \in Seq(Message)
           /\ DOMAIN q = 1 .. Len(q) /\ Len(q) \in Nat /\ Len(q) >= 1
           /\ DOMAIN Tail(q) = 1 .. Len(q) - 1
           /\ Len(Tail(q)) = Len(q) - 1
           /\ \A i \in 1 .. Len(q) - 1 : Tail(q)[i] = q[i + 1]
           /\ \A i \in 1 .. Len(q) : q[i] \in Message
           /\ Head(q) = q[1] /\ Head(q) \in Message
OBVIOUS

\* The sender's own message, with its status, ends the channel.
LEMMA AppendOwn ==
    ASSUME NEW q \in Seq(Message), NEW s \in Senders, NEW v \in Nat, NEW top \in Nat,
           NEW Q, InOrder(q, s, v, top, Q)
    PROVE  LET r == Append(q, [from |-> s, version |-> top])
           IN  InOrder(r, s, v, top, Q) /\ EndsAt(r, s, v, top)
<1> DEFINE m == [from |-> s, version |-> top]
           r == Append(q, m)
<1>1. m \in Message /\ m.from = s /\ m.version = top
  BY DEF Message
<1> HIDE DEF m
<1>2. /\ DOMAIN q = 1 .. Len(q) /\ Len(q) \in Nat /\ DOMAIN r = 1 .. Len(q) + 1
      /\ \A i \in 1 .. Len(q) : r[i] = q[i] /\ q[i].version \in Nat
      /\ r[Len(q) + 1] = m
  <2>1. /\ DOMAIN q = 1 .. Len(q) /\ Len(q) \in Nat /\ DOMAIN r = 1 .. Len(q) + 1
        /\ \A i \in 1 .. Len(q) : r[i] = q[i] /\ q[i] \in Message
        /\ r[Len(q) + 1] = m
    BY <1>1, AppendProperties
  <2> HIDE DEF r
  <2>2. \A n \in Message : n.version \in Nat
    BY DEF Message
  <2> QED
    BY <2>1, <2>2
<1> HIDE DEF r
<1>3. InOrder(r, s, v, top, Q)
  <2>1. \A i \in DOMAIN r : (i \in DOMAIN q /\ r[i] = q[i]) \/ (i = Len(q) + 1 /\ r[i] = m)
    BY <1>2
  <2>2. \A i \in DOMAIN q : q[i].from = s => q[i].version <= top
    BY DEF InOrder
  <2>3. ASSUME NEW i \in DOMAIN r, r[i].from = s
        PROVE  (v <= r[i].version \/ v \in Q) /\ r[i].version <= top
    BY <1>1, <2>1, <2>3 DEF InOrder
  <2>4. ASSUME NEW i \in DOMAIN r, NEW j \in DOMAIN r,
               i < j, r[i].from = s, r[j].from = s
        PROVE  r[i].version <= r[j].version
    <3>1. i \in DOMAIN q /\ r[i] = q[i]
      BY <1>2, <2>4
    <3> QED
      BY <1>1, <2>1, <2>2, <2>4, <3>1 DEF InOrder
  <2>5. v <= top \/ v \in Q
    BY DEF InOrder
  <2> QED
    BY <2>3, <2>4, <2>5 DEF InOrder
<1>4. EndsAt(r, s, v, top)
  <2>1. Len(q) + 1 \in DOMAIN r /\ r[Len(q) + 1].from = s
    BY <1>1, <1>2
  <2>2. ASSUME NEW i \in DOMAIN r, \A j \in DOMAIN r : j > i => r[j].from # s
        PROVE  r[i].version = top
    BY <1>1, <1>2, <2>1, <2>2
  <2> QED
    BY <2>1, <2>2 DEF EndsAt
<1> QED
  BY <1>3, <1>4 DEF m, r

\* Another sender's message says nothing of this one.
LEMMA AppendOther ==
    ASSUME NEW q \in Seq(Message), NEW s \in Senders, NEW v \in Nat, NEW top \in Nat,
           NEW Q, NEW m \in Message, m.from # s
    PROVE  /\ InOrder(q, s, v, top, Q) => InOrder(Append(q, m), s, v, top, Q)
           /\ EndsAt(q, s, v, top) => EndsAt(Append(q, m), s, v, top)
<1> DEFINE r == Append(q, m)
<1>1. /\ DOMAIN q = 1 .. Len(q) /\ Len(q) \in Nat /\ DOMAIN r = 1 .. Len(q) + 1
      /\ \A i \in 1 .. Len(q) : r[i] = q[i]
      /\ r[Len(q) + 1] = m
  BY AppendProperties
<1> HIDE DEF r
<1>2. \A i \in DOMAIN r : r[i].from = s => i \in DOMAIN q /\ r[i] = q[i]
  BY <1>1
<1>3. \A i \in DOMAIN q : i \in DOMAIN r /\ r[i] = q[i]
  BY <1>1
<1>4. InOrder(q, s, v, top, Q) => InOrder(r, s, v, top, Q)
  BY <1>2 DEF InOrder
<1>5. EndsAt(q, s, v, top) => EndsAt(r, s, v, top)
  BY <1>2, <1>3 DEF EndsAt
<1> QED
  BY <1>4, <1>5 DEF r

\* The client reads a message.
LEMMA ReadOne ==
    ASSUME NEW q \in Seq(Message), q # <<>>, NEW s \in Senders, NEW v \in Nat,
           NEW top \in Nat, NEW Q, InOrder(q, s, v, top, Q),
           NEW w, w = IF Head(q).from = s THEN Head(q).version ELSE v
    PROVE  /\ w \in Nat /\ (w >= v \/ v \in Q)
           /\ InOrder(Tail(q), s, w, top, Q)
           /\ EndsAt(q, s, v, top) => EndsAt(Tail(q), s, w, top)
<1> DEFINE r == Tail(q)
<1>1. /\ DOMAIN q = 1 .. Len(q) /\ Len(q) \in Nat /\ Len(q) >= 1
      /\ DOMAIN r = 1 .. Len(q) - 1
      /\ \A i \in DOMAIN r : r[i] = q[i + 1] /\ i + 1 \in DOMAIN q
      /\ \A i \in DOMAIN q : q[i].version \in Nat
      /\ Head(q) = q[1] /\ 1 \in DOMAIN q
  <2>1. /\ DOMAIN q = 1 .. Len(q) /\ Len(q) \in Nat /\ Len(q) >= 1
        /\ DOMAIN r = 1 .. Len(q) - 1
        /\ \A i \in 1 .. Len(q) - 1 : r[i] = q[i + 1]
        /\ \A i \in 1 .. Len(q) : q[i] \in Message
        /\ Head(q) = q[1]
    BY TailProperties
  <2> HIDE DEF r
  <2>2. \A m \in Message : m.version \in Nat
    BY DEF Message
  <2> QED
    BY <2>1, <2>2
<1> HIDE DEF r
<1>2. w \in Nat /\ (w >= v \/ v \in Q) /\ (w <= top \/ w \in Q)
  <2>1. CASE Head(q).from = s
    BY <1>1, <2>1 DEF InOrder
  <2>2. CASE Head(q).from # s
    BY <2>2 DEF InOrder
  <2> QED
    BY <2>1, <2>2
<1>3. \A i \in DOMAIN q : q[i].from = s => w <= q[i].version \/ w \in Q
  <2>1. ASSUME NEW i \in DOMAIN q, q[i].from = s
        PROVE  w <= q[i].version \/ w \in Q
    <3>1. CASE q[1].from # s
      BY <1>1, <2>1, <3>1 DEF InOrder
    <3>2. CASE q[1].from = s /\ i = 1
      BY <1>1, <3>2
    <3>3. CASE q[1].from = s /\ 1 < i
      <4>1. q[1].version <= q[i].version
        BY <1>1, <2>1, <3>3 DEF InOrder
      <4> QED
        BY <1>1, <3>3, <4>1
    <3> QED
      BY <1>1, <3>1, <3>2, <3>3
  <2> QED
    BY <2>1
<1>4. InOrder(r, s, w, top, Q)
  <2>1. ASSUME NEW i \in DOMAIN r, r[i].from = s
        PROVE  (w <= r[i].version \/ w \in Q) /\ r[i].version <= top
    <3>1. i + 1 \in DOMAIN q /\ q[i + 1].from = s /\ q[i + 1] = r[i]
      BY <1>1, <2>1
    <3> QED
      BY <1>3, <3>1 DEF InOrder
  <2>2. ASSUME NEW i \in DOMAIN r, NEW j \in DOMAIN r,
               i < j, r[i].from = s, r[j].from = s
        PROVE  r[i].version <= r[j].version
    <3>1. i + 1 < j + 1 /\ i + 1 \in DOMAIN q /\ j + 1 \in DOMAIN q
      BY <1>1, <2>2
    <3> QED
      BY <1>1, <2>2, <3>1 DEF InOrder
  <2> QED
    BY <1>2, <2>1, <2>2 DEF InOrder
<1>5. ASSUME EndsAt(q, s, v, top)
      PROVE  EndsAt(r, s, w, top)
  <2>1. ASSUME \A i \in DOMAIN r : r[i].from # s
        PROVE  w >= top
    <3>1. \A i \in DOMAIN q : i > 1 => q[i].from # s
      <4>1. ASSUME NEW i \in DOMAIN q, i > 1
            PROVE  q[i].from # s
        <5>1. i - 1 \in DOMAIN r /\ r[i - 1] = q[i]
          BY <1>1, <4>1
        <5> QED
          BY <2>1, <5>1
      <4> QED
        BY <4>1
    <3>2. CASE q[1].from = s
      BY <1>1, <1>5, <3>1, <3>2 DEF EndsAt
    <3>3. CASE q[1].from # s
      <4>1. \A i \in DOMAIN q : q[i].from # s
        BY <1>1, <3>1, <3>3
      <4> QED
        BY <1>1, <1>5, <3>3, <4>1 DEF EndsAt
    <3> QED
      BY <3>2, <3>3
  <2>2. ASSUME NEW i \in DOMAIN r, r[i].from = s,
               \A j \in DOMAIN r : j > i => r[j].from # s
        PROVE  r[i].version = top
    <3>1. i + 1 \in DOMAIN q /\ q[i + 1] = r[i]
      BY <1>1
    <3>2. ASSUME NEW j \in DOMAIN q, j > i + 1
          PROVE  q[j].from # s
      <4>1. j - 1 \in DOMAIN r /\ r[j - 1] = q[j] /\ j - 1 > i
        BY <1>1, <3>2
      <4> QED
        BY <2>2, <4>1
    <3> QED
      BY <1>5, <2>2, <3>1, <3>2 DEF EndsAt
  <2> QED
    BY <2>1, <2>2 DEF EndsAt
<1> QED
  BY <1>2, <1>4, <1>5 DEF r

-----------------------------------------------------------------------------
(* Types.                                                                   *)
LEMMA TypeInit == Init => TypeOK
<1> SUFFICES ASSUME Init PROVE TypeOK
  OBVIOUS
<1>1. <<>> \in Seq(Message) /\ Len(<<>>) = 0
  OBVIOUS
<1>2. /\ channel \in [Clients -> Seq(Message)]
      /\ \A c \in Clients : Len(channel[c]) <= Capacity
  BY <1>1, CapacityAssumption DEF Init, CapacityAssumption
<1>3. /\ view \in [Clients -> [Senders -> Nat]]
      /\ missed \in [Clients -> [Senders -> BOOLEAN]]
      /\ truth \in [Senders -> Nat] /\ event \in [Senders -> Nat]
      /\ quiet \in [Senders -> SUBSET Nat]
  BY DEF Init, Blank
<1> QED
  BY <1>2, <1>3 DEF Init, TypeOK

LEMMA TypeStep == TypeOK /\ [Next]_vars => TypeOK'
<1> SUFFICES ASSUME TypeOK, [Next]_vars PROVE TypeOK'
  OBVIOUS
<1> USE DEF TypeOK, statuses
<1>1. CASE UNCHANGED vars
  BY <1>1 DEF vars
<1>2. ASSUME NEW s \in Senders, Change(s)
      PROVE  TypeOK'
  BY <1>2 DEF Change
<1>11. ASSUME NEW s \in Senders, Quiet(s)
       PROVE  TypeOK'
  BY <1>11 DEF Quiet
<1>3. ASSUME NEW s \in Senders, BeginBroadcast(s)
      PROVE  TypeOK'
  BY <1>3 DEF BeginBroadcast
<1>4. ASSUME NEW s \in Senders, NEW c \in pending[s], Visit(s, c)
      PROVE  TypeOK'
  <2>1. c \in Clients /\ [from |-> s, version |-> event[s]] \in Message
    BY <1>4 DEF Message
  <2>2. CASE /\ Len(channel[c]) < Capacity
             /\ channel' = [channel EXCEPT ![c] =
                              Append(@, [from |-> s, version |-> event[s]])]
             /\ missed' = [missed EXCEPT ![c][s] = FALSE]
    <3>1. /\ channel'[c] \in Seq(Message) /\ Len(channel'[c]) = Len(channel[c]) + 1
          /\ Len(channel[c]) \in Nat
      BY <2>1, <2>2, AppendProperties
    <3>2. /\ channel' \in [Clients -> Seq(Message)]
          /\ \A d \in Clients : Len(channel'[d]) <= Capacity
      BY <2>1, <2>2, <3>1, CapacityAssumption DEF CapacityAssumption
    <3> QED
      BY <1>4, <2>1, <2>2, <3>2 DEF Visit
  <2>3. CASE /\ Len(channel[c]) >= Capacity
             /\ missed' = [missed EXCEPT ![c][s] = TRUE]
             /\ UNCHANGED channel
    BY <1>4, <2>1, <2>3 DEF Visit
  <2> QED
    BY <1>4, <2>2, <2>3 DEF Visit
<1>5. ASSUME NEW s \in Senders, EndBroadcast(s)
      PROVE  TypeOK'
  BY <1>5 DEF EndBroadcast
<1>6. ASSUME NEW c \in Clients, Greet(c)
      PROVE  TypeOK'
  BY <1>6 DEF Greet
<1>7. ASSUME NEW c \in Clients, Subscribe(c)
      PROVE  TypeOK'
  BY <1>7 DEF Subscribe
<1>8. ASSUME NEW c \in Clients, Receive(c)
      PROVE  TypeOK'
  <2>1. channel[c] \in Seq(Message) /\ channel[c] # <<>>
    BY <1>8 DEF Receive
  <2>2. /\ Head(channel[c]).from \in Senders /\ Head(channel[c]).version \in Nat
        /\ Tail(channel[c]) \in Seq(Message)
        /\ Len(Tail(channel[c])) = Len(channel[c]) - 1 /\ Len(channel[c]) \in Nat
    <3>1. \A m \in Message : m.from \in Senders /\ m.version \in Nat
      BY DEF Message
    <3> QED
      BY <2>1, <3>1, TailProperties
  <2>3. /\ channel' \in [Clients -> Seq(Message)]
        /\ \A d \in Clients : Len(channel'[d]) <= Capacity
    BY <1>8, <2>2, CapacityAssumption DEF Receive, CapacityAssumption
  <2>4. view' \in [Clients -> [Senders -> Nat]]
    BY <1>8, <2>2 DEF Receive
  <2> QED
    BY <1>8, <2>3, <2>4 DEF Receive
<1>9. ASSUME NEW c \in Clients, Leave(c)
      PROVE  TypeOK'
  BY <1>9 DEF Leave
<1>10. ASSUME NEW c \in Clients, Close(c)
       PROVE  TypeOK'
  <2>1. <<>> \in Seq(Message) /\ Len(<<>>) = 0
    OBVIOUS
  <2>2. /\ channel' \in [Clients -> Seq(Message)]
        /\ \A d \in Clients : Len(channel'[d]) <= Capacity
    BY <1>10, <2>1, CapacityAssumption DEF Close, CapacityAssumption
  <2>3. /\ view' \in [Clients -> [Senders -> Nat]]
        /\ missed' \in [Clients -> [Senders -> BOOLEAN]]
    BY <1>10 DEF Close, Blank
  <2> QED
    BY <1>10, <2>2, <2>3 DEF Close
<1> QED
  BY <1>1, <1>2, <1>3, <1>4, <1>5, <1>6, <1>7, <1>8, <1>9, <1>10, <1>11 DEF Next

\* Every variable of the hub keeps its type, and no channel holds more than its
\* capacity.
THEOREM TypeCorrect == Spec => []TypeOK
BY TypeInit, TypeStep, PTL DEF Spec

-----------------------------------------------------------------------------
(* Who may be sent to.                                                      *)

\* The hub's clients are the live connections, and only a sender under the read
\* lock has channels to visit, those of clients.
Subscribed ==
    /\ \A c \in Clients : c \in clients <=> conn[c] = "live"
    /\ \A s \in Senders : /\ pending[s] \subseteq clients
                          /\ pending[s] # {} => Reading(s)

LEMMA SubscribedInit == Init => Subscribed
BY DEF Init, Subscribed

LEMMA SubscribedStep == TypeOK /\ Subscribed /\ [Next]_vars => Subscribed'
<1> SUFFICES ASSUME TypeOK, Subscribed, [Next]_vars PROVE Subscribed'
  OBVIOUS
<1> USE DEF TypeOK, Subscribed, Reading, statuses
<1>1. CASE UNCHANGED vars
  BY <1>1 DEF vars
<1>2. ASSUME NEW s \in Senders, Change(s)
      PROVE  Subscribed'
  BY <1>2 DEF Change
<1>11. ASSUME NEW s \in Senders, Quiet(s)
       PROVE  Subscribed'
  BY <1>11 DEF Quiet
<1>3. ASSUME NEW s \in Senders, BeginBroadcast(s)
      PROVE  Subscribed'
  BY <1>3 DEF BeginBroadcast
<1>4. ASSUME NEW s \in Senders, NEW c \in pending[s], Visit(s, c)
      PROVE  Subscribed'
  BY <1>4 DEF Visit
<1>5. ASSUME NEW s \in Senders, EndBroadcast(s)
      PROVE  Subscribed'
  BY <1>5 DEF EndBroadcast
<1>6. ASSUME NEW c \in Clients, Greet(c)
      PROVE  Subscribed'
  BY <1>6 DEF Greet
<1>7. ASSUME NEW c \in Clients, Subscribe(c)
      PROVE  Subscribed'
  BY <1>7 DEF Subscribe
<1>8. ASSUME NEW c \in Clients, Receive(c)
      PROVE  Subscribed'
  BY <1>8 DEF Receive
<1>9. ASSUME NEW c \in Clients, Leave(c)
      PROVE  Subscribed'
  <2>1. \A s \in Senders : pending[s] = {}
    BY <1>9 DEF Leave, WriteLockFree
  <2> QED
    BY <1>9, <2>1 DEF Leave
<1>10. ASSUME NEW c \in Clients, Close(c)
       PROVE  Subscribed'
  BY <1>10 DEF Close
<1> QED
  BY <1>1, <1>2, <1>3, <1>4, <1>5, <1>6, <1>7, <1>8, <1>9, <1>10, <1>11 DEF Next

LEMMA SubscribedAlways == Spec => [](TypeOK /\ Subscribed)
<1>1. Init => TypeOK /\ Subscribed
  BY TypeInit, SubscribedInit
<1>2. TypeOK /\ Subscribed /\ [Next]_vars => (TypeOK /\ Subscribed)'
  BY TypeStep, SubscribedStep
<1> QED
  BY <1>1, <1>2, PTL DEF Spec

\* No message is sent on a channel that is closed, or about to be.
THEOREM SendsMeetOpenChannels == Spec => []NoSendOnClosedChannel
<1>1. TypeOK /\ Subscribed => NoSendOnClosedChannel
  BY DEF TypeOK, Subscribed, NoSendOnClosedChannel
<1> QED
  BY <1>1, SubscribedAlways, PTL

-----------------------------------------------------------------------------
(* What a client knows of a sender.                                         *)

\* The status of a sender is its last event's, or a later one that is silent.
Numbered ==
    \A s \in Senders : /\ event[s] <= truth[s]
                       /\ truth[s] = event[s] \/ truth[s] \in quiet[s]

LEMMA NumberedInit == Init => Numbered
BY DEF Init, Numbered, Blank

LEMMA NumberedStep == TypeOK /\ Numbered /\ [Next]_vars => Numbered'
<1> SUFFICES ASSUME TypeOK, Numbered, [Next]_vars PROVE Numbered'
  OBVIOUS
<1>1. CASE UNCHANGED statuses
  BY <1>1 DEF statuses, Numbered
<1>2. ASSUME NEW s \in Senders, Change(s)
      PROVE  Numbered'
  BY <1>2 DEF Change, TypeOK, Numbered
<1>3. ASSUME NEW s \in Senders, Quiet(s)
      PROVE  Numbered'
  BY <1>3 DEF Quiet, TypeOK, Numbered
<1>4. \/ UNCHANGED statuses
      \/ \E s \in Senders : Change(s) \/ Quiet(s)
  BY DEF Next, vars, statuses, BeginBroadcast, Visit, EndBroadcast, Greet,
         Subscribe, Receive, Leave, Close
<1> QED
  BY <1>1, <1>2, <1>3, <1>4

Connected(c) == conn[c] \in {"greeted", "live"}

\* The last event of s is broadcast, as far as c is concerned.
Settled(c, s) == /\ phase[s] = "idle" \/ (phase[s] = "sending" /\ c \notin pending[s])
                 /\ missed[c][s] = FALSE

Informed(c, s) ==
    /\ conn[c] \in {"off", "greeted"} => channel[c] = <<>>
    /\ conn[c] = "off" => missed[c][s] = FALSE
    /\ Connected(c) =>
          /\ view[c][s] <= truth[s]
          /\ InOrder(channel[c], s, view[c][s], event[s], quiet[s])
          /\ Settled(c, s) => EndsAt(channel[c], s, view[c][s], event[s])

AllInformed == \A c \in Clients, s \in Senders : Informed(c, s)

LEMMA EmptyChannel ==
    ASSUME NEW s \in Senders, NEW v \in Nat, NEW top \in Nat, NEW Q
    PROVE  /\ InOrder(<<>>, s, v, top, Q) <=> v <= top \/ v \in Q
           /\ EndsAt(<<>>, s, v, top) <=> v >= top
BY DEF InOrder, EndsAt

LEMMA InformedInit == Init => AllInformed
BY DEF Init, AllInformed, Informed, Connected

\* Nothing Informed looks at changes for c and s, but that s may be further
\* from having broadcast its change.
LEMMA Unaffected ==
    ASSUME NEW c \in Clients, NEW s \in Senders, Informed(c, s),
           conn'[c] = conn[c], channel'[c] = channel[c],
           view'[c][s] = view[c][s],
           truth'[s] = truth[s], event'[s] = event[s], quiet'[s] = quiet[s],
           missed'[c][s] = missed[c][s], Settled(c, s)' => Settled(c, s)
    PROVE  Informed(c, s)'
BY DEF Informed, Connected

\* What is in order stays so when another event or silent status comes.
LEMMA InOrderGrows ==
    ASSUME NEW q \in Seq(Message), NEW s \in Senders, NEW v \in Nat,
           NEW top \in Nat, NEW newer \in Nat, top <= newer,
           NEW Q, NEW R, Q \subseteq R, InOrder(q, s, v, top, Q)
    PROVE  InOrder(q, s, v, newer, R)
<1>1. \A i \in DOMAIN q : q[i].version \in Nat
  <2>1. \A i \in DOMAIN q : q[i] \in Message
    OBVIOUS
  <2>2. \A m \in Message : m.version \in Nat
    BY DEF Message
  <2> QED
    BY <2>1, <2>2
<1> QED
  BY <1>1 DEF InOrder

LEMMA InformedStep ==
    ASSUME TypeOK, Subscribed, Numbered, AllInformed, [Next]_vars
    PROVE  AllInformed'
<1> SUFFICES ASSUME NEW d \in Clients, NEW u \in Senders
             PROVE  Informed(d, u)'
  BY DEF AllInformed
<1> USE DEF statuses
<1>0. Informed(d, u)
  BY DEF AllInformed
<1>a. /\ view[d][u] \in Nat /\ truth[u] \in Nat /\ event[u] \in Nat
      /\ channel[d] \in Seq(Message)
      /\ missed[d][u] \in BOOLEAN /\ phase[u] \in {"idle", "changed", "sending"}
      /\ conn[d] \in {"off", "greeted", "live", "leaving"}
  BY DEF TypeOK
<1>b. /\ event[u] <= truth[u]
      /\ truth[u] = event[u] \/ truth[u] \in quiet[u]
  BY DEF Numbered
<1>1. CASE UNCHANGED vars
  BY <1>0, <1>1, Unaffected DEF vars, Settled
<1>2. ASSUME NEW s \in Senders, Change(s)
      PROVE  Informed(d, u)'
  <2>1. CASE u = s
    <3>1. /\ truth'[u] = truth[u] + 1 /\ event'[u] = truth[u] + 1
          /\ phase'[u] = "changed" /\ quiet' = quiet
          /\ conn' = conn /\ channel' = channel /\ view' = view /\ missed' = missed
      BY <1>2, <2>1 DEF Change, TypeOK
    <3>2. InOrder(channel[d], u, view[d][u], event[u], quiet[u])
             => InOrder(channel[d], u, view[d][u], truth[u] + 1, quiet[u])
      BY <1>a, <1>b, InOrderGrows
    <3>3. view[d][u] <= truth[u] => view[d][u] <= truth[u] + 1
      BY <1>a
    <3> QED
      BY <1>0, <3>1, <3>2, <3>3 DEF Informed, Connected, Settled
  <2>2. CASE u # s
    BY <1>0, <1>2, <2>2, Unaffected DEF Change, Settled, TypeOK
  <2> QED
    BY <2>1, <2>2
<1>11. ASSUME NEW s \in Senders, Quiet(s)
       PROVE  Informed(d, u)'
  <2>1. CASE u = s
    <3>1. /\ truth'[u] = truth[u] + 1 /\ event' = event /\ phase' = phase
          /\ pending' = pending /\ quiet[u] \subseteq quiet'[u]
          /\ conn' = conn /\ channel' = channel /\ view' = view /\ missed' = missed
      BY <1>11, <2>1 DEF Quiet, TypeOK
    <3>2. InOrder(channel[d], u, view[d][u], event[u], quiet[u])
             => InOrder(channel[d], u, view[d][u], event[u], quiet'[u])
      BY <1>a, <3>1, InOrderGrows
    <3>3. view[d][u] <= truth[u] => view[d][u] <= truth[u] + 1
      BY <1>a
    <3> QED
      BY <1>0, <3>1, <3>2, <3>3 DEF Informed, Connected, Settled
  <2>2. CASE u # s
    BY <1>0, <1>11, <2>2, Unaffected DEF Quiet, Settled, TypeOK
  <2> QED
    BY <2>1, <2>2
<1>3. ASSUME NEW s \in Senders, BeginBroadcast(s)
      PROVE  Informed(d, u)'
  <2>1. /\ conn' = conn /\ channel' = channel /\ view' = view
        /\ truth' = truth /\ event' = event /\ quiet' = quiet
    BY <1>3 DEF BeginBroadcast
  <2>2. CASE u = s
    <3>1. /\ phase'[u] = "sending" /\ pending'[u] = clients
      BY <1>3, <2>2 DEF BeginBroadcast, TypeOK
    <3>2. missed'[d][u] = IF conn[d] = "greeted" /\ view[d][u] < event[u]
                            THEN TRUE ELSE missed[d][u]
      BY <1>3, <2>2 DEF BeginBroadcast, TypeOK
    <3>3. CASE conn[d] = "greeted"
      <4>1. channel[d] = <<>>
        BY <1>0, <3>3 DEF Informed
      <4>2. Settled(d, u)' => view[d][u] >= event[u]
        BY <1>a, <3>2, <3>3 DEF Settled
      <4> QED
        BY <1>0, <1>a, <2>1, <3>3, <4>1, <4>2, EmptyChannel DEF Informed, Connected
    <3>4. CASE conn[d] = "live"
      <4>1. ~Settled(d, u)'
        BY <3>1, <3>4 DEF Settled, Subscribed
      <4> QED
        BY <1>0, <2>1, <3>4, <4>1 DEF Informed, Connected
    <3>5. CASE conn[d] \in {"off", "leaving"}
      BY <1>0, <2>1, <3>2, <3>5 DEF Informed, Connected
    <3> QED
      BY <1>a, <3>3, <3>4, <3>5
  <2>3. CASE u # s
    <3>1. missed'[d][u] = missed[d][u] /\ phase'[u] = phase[u] /\ pending'[u] = pending[u]
      BY <1>3, <2>3 DEF BeginBroadcast, TypeOK
    <3> QED
      BY <1>0, <2>1, <3>1, Unaffected DEF Settled
  <2> QED
    BY <2>2, <2>3
<1>4. ASSUME NEW s \in Senders, NEW c \in pending[s], Visit(s, c)
      PROVE  Informed(d, u)'
  <2>1. /\ c \in Clients /\ conn[c] = "live"
        /\ conn' = conn /\ view' = view /\ phase' = phase
        /\ truth' = truth /\ event' = event /\ quiet' = quiet
    BY <1>4 DEF Visit, TypeOK, Subscribed
  <2>2. pending'[u] = IF u = s THEN pending[s] \ {c} ELSE pending[u]
    BY <1>4 DEF Visit, TypeOK
  <2>3. CASE d # c
    <3>1. channel'[d] = channel[d] /\ missed'[d][u] = missed[d][u]
      BY <1>4, <2>1, <2>3 DEF Visit, TypeOK
    <3> QED
      BY <1>0, <2>1, <2>2, <2>3, <3>1, Unaffected DEF Settled
  <2>4. CASE d = c /\ Len(channel[c]) < Capacity
    <3> DEFINE m == [from |-> s, version |-> event[s]]
    <3>1. /\ m \in Message /\ m.from = s
          /\ channel'[d] = Append(channel[d], m)
          /\ missed'[d][u] = IF u = s THEN FALSE ELSE missed[d][u]
      <4>1. m \in Message /\ m.from = s
        BY DEF TypeOK, Message
      <4>2. \/ channel' = [channel EXCEPT ![c] = Append(@, m)]
               /\ missed' = [missed EXCEPT ![c][s] = FALSE]
            \/ Len(channel[c]) >= Capacity
        BY <1>4 DEF Visit
      <4>3. ~(Len(channel[c]) >= Capacity)
        BY <1>a, <2>4, CapacityAssumption DEF CapacityAssumption
      <4> HIDE DEF m
      <4>4. channel'[d] = Append(channel[d], m)
        BY <2>1, <2>4, <4>2, <4>3 DEF TypeOK
      <4>5. missed'[d][u] = IF u = s THEN FALSE ELSE missed[d][u]
        <5>1. missed' = [missed EXCEPT ![c][s] = FALSE]
          BY <4>2, <4>3
        <5> QED
          BY <2>1, <2>4, <5>1 DEF TypeOK
      <4> QED
        BY <4>1, <4>4, <4>5
    <3>2. InOrder(channel[d], u, view[d][u], event[u], quiet[u])
      BY <1>0, <2>1, <2>4 DEF Informed, Connected
    <3>3. CASE u = s
      <4>1. /\ InOrder(channel'[d], u, view[d][u], event[u], quiet[u])
            /\ EndsAt(channel'[d], u, view[d][u], event[u])
        BY <1>a, <3>1, <3>2, <3>3, AppendOwn
      <4> QED
        BY <1>0, <2>1, <2>4, <4>1 DEF Informed, Connected
    <3>4. CASE u # s
      <4>1. /\ InOrder(channel'[d], u, view[d][u], event[u], quiet[u])
            /\ EndsAt(channel[d], u, view[d][u], event[u])
                  => EndsAt(channel'[d], u, view[d][u], event[u])
        <5> HIDE DEF m
        <5> QED
          BY <1>a, <3>1, <3>2, <3>4, AppendOther
      <4>2. Settled(d, u)' => Settled(d, u)
        BY <2>1, <2>2, <3>1, <3>4 DEF Settled
      <4> QED
        BY <1>0, <2>1, <2>4, <4>1, <4>2 DEF Informed, Connected
    <3> QED
      BY <3>3, <3>4
  <2>5. CASE d = c /\ ~(Len(channel[c]) < Capacity)
    <3>1. channel' = channel /\ missed' = [missed EXCEPT ![c][s] = TRUE]
      BY <1>4, <2>5 DEF Visit
    <3>2. missed'[d][u] = IF u = s THEN TRUE ELSE missed[d][u]
      BY <2>1, <2>5, <3>1 DEF TypeOK
    <3>3. Settled(d, u)' => Settled(d, u)
      BY <2>1, <2>2, <3>2 DEF Settled
    <3> QED
      BY <1>0, <2>1, <2>5, <3>1, <3>3 DEF Informed, Connected
  <2> QED
    BY <2>3, <2>4, <2>5
<1>5. ASSUME NEW s \in Senders, EndBroadcast(s)
      PROVE  Informed(d, u)'
  BY <1>0, <1>5, Unaffected DEF EndBroadcast, Settled, Reading, TypeOK
<1>6. ASSUME NEW c \in Clients, Greet(c)
      PROVE  Informed(d, u)'
  <2>1. CASE d = c
    <3>1. /\ channel'[d] = <<>> /\ view'[d][u] = truth[u] /\ conn'[d] = "greeted"
          /\ truth' = truth /\ event' = event /\ quiet' = quiet
      BY <1>0, <1>6, <2>1 DEF Greet, Informed, TypeOK
    <3>2. /\ InOrder(<<>>, u, truth[u], event[u], quiet[u])
          /\ EndsAt(<<>>, u, truth[u], event[u])
      BY <1>a, <1>b, EmptyChannel
    <3>3. truth[u] <= truth[u]
      BY <1>a
    <3> QED
      BY <3>1, <3>2, <3>3 DEF Informed, Connected
  <2>2. CASE d # c
    BY <1>0, <1>6, <2>2, Unaffected DEF Greet, Settled, TypeOK
  <2> QED
    BY <2>1, <2>2
<1>7. ASSUME NEW c \in Clients, Subscribe(c)
      PROVE  Informed(d, u)'
  <2>1. CASE d = c
    <3>1. /\ conn[d] = "greeted" /\ conn'[d] = "live"
          /\ truth' = truth /\ event' = event /\ quiet' = quiet
          /\ phase' = phase /\ pending' = pending
          /\ channel' = channel /\ view' = view /\ missed' = missed
      BY <1>7, <2>1 DEF Subscribe, TypeOK
    <3>2. Settled(d, u)' => Settled(d, u)
      BY <3>1 DEF Settled
    <3> QED
      BY <1>0, <3>1, <3>2 DEF Informed, Connected
  <2>2. CASE d # c
    BY <1>0, <1>7, <2>2, Unaffected DEF Subscribe, Settled, TypeOK
  <2> QED
    BY <2>1, <2>2
<1>8. ASSUME NEW c \in Clients, Receive(c)
      PROVE  Informed(d, u)'
  <2>1. /\ conn[c] = "live" /\ channel[c] # <<>>
        /\ channel' = [channel EXCEPT ![c] = Tail(@)]
        /\ truth' = truth /\ event' = event /\ quiet' = quiet
        /\ phase' = phase /\ pending' = pending /\ conn' = conn /\ missed' = missed
    BY <1>8 DEF Receive
  <2>2. CASE d = c
    <3>1. channel'[d] = Tail(channel[d])
      BY <2>1, <2>2 DEF TypeOK
    <3>2. view'[d][u] = IF Head(channel[d]).from = u THEN Head(channel[d]).version
                        ELSE view[d][u]
      BY <1>8, <2>2 DEF Receive, TypeOK
    <3>3. InOrder(channel[d], u, view[d][u], event[u], quiet[u])
      BY <1>0, <2>1, <2>2 DEF Informed, Connected
    <3>4. /\ InOrder(channel'[d], u, view'[d][u], event[u], quiet[u])
          /\ EndsAt(channel[d], u, view[d][u], event[u])
                => EndsAt(channel'[d], u, view'[d][u], event[u])
      BY <1>a, <2>1, <2>2, <3>1, <3>2, <3>3, ReadOne
    <3>5. Settled(d, u)' => Settled(d, u)
      BY <2>1 DEF Settled
    <3>6. view'[d][u] <= truth[u]
      <4>1. CASE Head(channel[d]).from = u
        <5>1. /\ 1 \in DOMAIN channel[d] /\ channel[d][1] = Head(channel[d])
              /\ Head(channel[d]) \in Message
          BY <1>a, <2>1, <2>2, TailProperties
        <5>2. Head(channel[d]).version <= event[u] /\ Head(channel[d]).version \in Nat
          BY <3>3, <4>1, <5>1 DEF InOrder, Message
        <5> QED
          BY <1>a, <1>b, <3>2, <4>1, <5>2
      <4>2. CASE Head(channel[d]).from # u
        BY <1>0, <2>1, <2>2, <3>2, <4>2 DEF Informed, Connected
      <4> QED
        BY <4>1, <4>2
    <3> QED
      BY <1>0, <2>1, <2>2, <3>4, <3>5, <3>6 DEF Informed, Connected
  <2>3. CASE d # c
    <3>1. channel'[d] = channel[d] /\ view'[d] = view[d]
      BY <1>8, <2>3 DEF Receive, TypeOK
    <3> QED
      BY <1>0, <2>1, <3>1, Unaffected DEF Settled
  <2> QED
    BY <2>2, <2>3
<1>9. ASSUME NEW c \in Clients, Leave(c)
      PROVE  Informed(d, u)'
  <2>1. CASE d = c
    <3>1. conn'[d] = "leaving"
      BY <1>9, <2>1 DEF Leave, TypeOK
    <3> QED
      BY <3>1 DEF Informed, Connected
  <2>2. CASE d # c
    BY <1>0, <1>9, <2>2, Unaffected DEF Leave, Settled, TypeOK
  <2> QED
    BY <2>1, <2>2
<1>10. ASSUME NEW c \in Clients, Close(c)
       PROVE  Informed(d, u)'
  <2>1. CASE d = c
    <3>1. conn'[d] = "off" /\ channel'[d] = <<>> /\ missed'[d][u] = FALSE
      BY <1>10, <2>1 DEF Close, TypeOK
    <3> QED
      BY <3>1 DEF Informed, Connected
  <2>2. CASE d # c
    BY <1>0, <1>10, <2>2, Unaffected DEF Close, Settled, TypeOK
  <2> QED
    BY <2>1, <2>2
<1> QED
  BY <1>1, <1>2, <1>3, <1>4, <1>5, <1>6, <1>7, <1>8, <1>9, <1>10, <1>11 DEF Next

IInv == TypeOK /\ Subscribed /\ Numbered /\ AllInformed

LEMMA InductiveInvariant == Spec => []IInv
<1>1. Init => IInv
  BY TypeInit, SubscribedInit, NumberedInit, InformedInit DEF IInv
<1>2. IInv /\ [Next]_vars => IInv'
  BY TypeStep, SubscribedStep, NumberedStep, InformedStep DEF IInv
<1> QED
  BY <1>1, <1>2, PTL DEF Spec

\* A connected client that has read its channel and missed nothing knows no
\* status of a target older than the one last announced, however many silent
\* changes, slow clients and reconnections there are.
THEOREM ReadersKnow == Spec => []ReadersAreCurrent
<1>1. ASSUME IInv, NEW c \in Clients, NEW s \in Senders, UpToDate(c, s)
      PROVE  view[c][s] \in event[s] .. truth[s]
  <2>1. missed[c][s] = FALSE
    BY <1>1 DEF IInv, TypeOK, UpToDate
  <2>2. /\ EndsAt(channel[c], s, view[c][s], event[s])
        /\ view[c][s] <= truth[s]
    BY <1>1, <2>1 DEF IInv, AllInformed, Informed, Connected, Settled, UpToDate
  <2>3. view[c][s] >= event[s]
    BY <1>1, <2>2 DEF EndsAt, InChannel, UpToDate
  <2>4. view[c][s] \in Nat /\ event[s] \in Nat /\ truth[s] \in Nat
    BY <1>1 DEF IInv, TypeOK
  <2> QED
    BY <2>2, <2>3, <2>4
<1>2. IInv => ReadersAreCurrent
  BY <1>1 DEF ReadersAreCurrent
<1> QED
  BY <1>2, InductiveInvariant, PTL

\* What a connected client is told of a target goes back in time only from a
\* status that was changed without an event.
THEOREM ViewsAdvance == Spec => ViewGoesBackOnlyFromQuiet
<1>1. ASSUME IInv, [Next]_vars, NEW c \in Clients, NEW s \in Senders,
             conn[c] \in {"greeted", "live"}, view'[c][s] < view[c][s]
      PROVE  view[c][s] \in quiet[s]
  <2> USE DEF IInv, TypeOK
  <2>1. view[c][s] \in Nat
    BY <1>1
  <2>2. CASE view' = view
    BY <1>1, <2>1, <2>2
  <2>3. ASSUME NEW d \in Clients, Greet(d) \/ Close(d)
        PROVE  view[c][s] \in quiet[s]
    <3>1. d # c
      BY <1>1, <2>3 DEF Greet, Close
    <3>2. view'[c] = view[c]
      BY <1>1, <2>3, <3>1 DEF Greet, Close
    <3> QED
      BY <1>1, <2>1, <3>2
  <2>4. ASSUME NEW d \in Clients, Receive(d)
        PROVE  view[c][s] \in quiet[s]
    <3>1. CASE d # c
      BY <1>1, <2>1, <2>4, <3>1 DEF Receive
    <3>2. CASE d = c
      <4>1. view'[c][s] = IF Head(channel[c]).from = s THEN Head(channel[c]).version
                          ELSE view[c][s]
        BY <1>1, <2>4, <3>2 DEF Receive
      <4>2. /\ channel[c] \in Seq(Message) /\ channel[c] # <<>> /\ event[s] \in Nat
            /\ InOrder(channel[c], s, view[c][s], event[s], quiet[s])
        BY <1>1, <2>4, <3>2 DEF Receive, AllInformed, Informed, Connected
      <4>3. view'[c][s] \in Nat /\ (view'[c][s] >= view[c][s] \/ view[c][s] \in quiet[s])
        BY <2>1, <4>1, <4>2, ReadOne
      <4> QED
        BY <1>1, <2>1, <4>3
    <3> QED
      BY <3>1, <3>2
  <2>5. \/ view' = view
        \/ \E d \in Clients : Greet(d) \/ Close(d) \/ Receive(d)
    BY <1>1 DEF Next, vars, Change, Quiet, BeginBroadcast, Visit, EndBroadcast,
                Subscribe, Leave
  <2> QED
    BY <2>2, <2>3, <2>4, <2>5
<1>2. IInv /\ [Next]_vars =>
          [\A c \in Clients, s \in Senders :
             conn[c] \in {"greeted", "live"} /\ view'[c][s] < view[c][s]
                 => view[c][s] \in quiet[s]]_vars
  BY <1>1
<1> QED
  BY <1>2, InductiveInvariant, PTL DEF Spec, ViewGoesBackOnlyFromQuiet
=============================================================================
