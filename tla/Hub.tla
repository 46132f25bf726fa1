-------------------------------- MODULE Hub --------------------------------
(***************************************************************************)
(* internal/api/ws.go: the Hub that pushes status changes to the clients   *)
(* of /api/v1/ws/status.                                                   *)
(*                                                                         *)
(* A sender is the goroutine that handles one target's results: it changes *)
(* the target's status in the FSM, and some time later broadcasts the      *)
(* event under the read lock, to one channel after the other.  (A target   *)
(* has one such goroutine at a time unless an Add overlapped a probe, see  *)
(* Scheduler.)  Other changes of a status have no event and are told to    *)
(* nobody.  A client is one connection at a time: handleWS sends it a      *)
(* snapshot of the FSM, subscribes a channel, forwards what the channel    *)
(* holds, and unsubscribes when the request ends.  Statuses are numbered:  *)
(* a target's n-th status is n.                                            *)
(***************************************************************************)
EXTENDS Naturals, Sequences, FiniteSets

CONSTANTS
    Senders,    \* targets, each with the goroutine that handles its results
    Clients,
    Capacity,   \* of a client's channel, 32 in Subscribe
    MaxVersion  \* of a target: bound on its statuses, for model checking

ASSUME CapacityAssumption == Capacity \in Nat \ {0}

VARIABLES
    truth,    \* the status the FSM holds for a target
    event,    \* the status that the last event of a target tells
    phase,    \* of a sender: "idle", "changed" (event not broadcast), "sending"
    pending,  \* the channels a sending sender has yet to visit
    clients,  \* Hub.clients
    conn,     \* of a client: "off", "greeted", "live" or "leaving"
    channel,  \* the client's channel, as [from, version] messages
    view      \* the status a client has been told that a target has

(* Auxiliary: the last event of the target never got into the channel; the  *)
(* statuses of a target that came without an event.                         *)
VARIABLES missed, quiet

vars == <<truth, event, phase, pending, clients, conn, channel, view, missed,
          quiet>>

statuses == <<truth, event, quiet>>

-----------------------------------------------------------------------------
Reading(s) == phase[s] = "sending"

\* h.mu is held for writing by no one while a sender holds it for reading.
WriteLockFree == \A s \in Senders : ~Reading(s)

Blank == [s \in Senders |-> 0]

Init ==
    /\ truth = Blank
    /\ event = Blank
    /\ quiet = [s \in Senders |-> {}]
    /\ phase = [s \in Senders |-> "idle"]
    /\ pending = [s \in Senders |-> {}]
    /\ clients = {}
    /\ conn = [c \in Clients |-> "off"]
    /\ channel = [c \in Clients |-> <<>>]
    /\ view = [c \in Clients |-> Blank]
    /\ missed = [c \in Clients |-> [s \in Senders |-> FALSE]]

-----------------------------------------------------------------------------
(* Changes of a status.                                                     *)

\* FSM.Process returned an event: the FSM has the new status already.
Change(s) ==
    /\ phase[s] = "idle" /\ truth[s] < MaxVersion[s]
    /\ truth' = [truth EXCEPT ![s] = @ + 1]
    /\ event' = [event EXCEPT ![s] = truth'[s]]
    /\ phase' = [phase EXCEPT ![s] = "changed"]
    /\ UNCHANGED <<pending, clients, conn, channel, view, missed, quiet>>

\* The status changes and nobody is told: a request silences the target, lifts
\* its silence (SetSilent) or removes its state (Remove), at any moment, or a
\* result moves it to MAINTENANCE, for which Process returns no event.
Quiet(s) ==
    /\ truth[s] < MaxVersion[s]
    /\ truth' = [truth EXCEPT ![s] = @ + 1]
    /\ quiet' = [quiet EXCEPT ![s] = @ \union {truth'[s]}]
    /\ UNCHANGED <<event, phase, pending, clients, conn, channel, view, missed>>

-----------------------------------------------------------------------------
(* Senders.                                                                 *)

\* BroadcastEvent enters Broadcast: RLock, and the range over h.clients.  A
\* client between snapshot and subscription is not among them.
BeginBroadcast(s) ==
    /\ phase[s] = "changed"
    /\ phase' = [phase EXCEPT ![s] = "sending"]
    /\ pending' = [pending EXCEPT ![s] = clients]
    /\ missed' = [c \in Clients |->
                    IF conn[c] = "greeted" /\ view[c][s] < event[s]
                      THEN [missed[c] EXCEPT ![s] = TRUE] ELSE missed[c]]
    /\ UNCHANGED <<statuses, clients, conn, channel, view>>

MutantBlockingVisit(s, c) ==
    /\ Reading(s) /\ c \in pending[s]
    /\ Len(channel[c]) < Capacity
    /\ channel' = [channel EXCEPT ![c] =
                     Append(@, [from |-> s, version |-> event[s]])]
    /\ missed' = [missed EXCEPT ![c][s] = FALSE]
    /\ pending' = [pending EXCEPT ![s] = @ \ {c}]
    /\ UNCHANGED <<statuses, phase, clients, conn, view>>

MutantDropOldest(s, c) ==
    /\ Reading(s) /\ c \in pending[s]
    /\ LET kept == IF Len(channel[c]) < Capacity THEN channel[c]
                   ELSE Tail(channel[c])
       IN  channel' = [channel EXCEPT ![c] =
                         Append(kept, [from |-> s, version |-> event[s]])]
    /\ missed' = [missed EXCEPT ![c][s] = FALSE]
    /\ pending' = [pending EXCEPT ![s] = @ \ {c}]
    /\ UNCHANGED <<statuses, phase, clients, conn, view>>

MutantUnboundedVisit(s, c) ==
    /\ Reading(s) /\ c \in pending[s]
    /\ channel' = [channel EXCEPT ![c] =
                     Append(@, [from |-> s, version |-> event[s]])]
    /\ missed' = [missed EXCEPT ![c][s] = FALSE]
    /\ pending' = [pending EXCEPT ![s] = @ \ {c}]
    /\ UNCHANGED <<statuses, phase, clients, conn, view>>

\* The select in Broadcast: the message is sent, or dropped when the channel
\* is full.
Visit(s, c) ==
    /\ Reading(s) /\ c \in pending[s]
    /\ \/ /\ Len(channel[c]) < Capacity
          /\ channel' = [channel EXCEPT ![c] =
                           Append(@, [from |-> s, version |-> event[s]])]
          /\ missed' = [missed EXCEPT ![c][s] = FALSE]
       \/ /\ Len(channel[c]) >= Capacity
          /\ missed' = [missed EXCEPT ![c][s] = TRUE]
          /\ UNCHANGED channel
    /\ pending' = [pending EXCEPT ![s] = @ \ {c}]
    /\ UNCHANGED <<statuses, phase, clients, conn, view>>

\* RUnlock: the handler is done with this result.
EndBroadcast(s) ==
    /\ Reading(s) /\ pending[s] = {}
    /\ phase' = [phase EXCEPT ![s] = "idle"]
    /\ UNCHANGED <<statuses, pending, clients, conn, channel, view, missed>>

-----------------------------------------------------------------------------
(* Connections.                                                             *)

\* handleWS sends a snapshot of FSM.AllStates to a new client.
Greet(c) ==
    /\ conn[c] = "off"
    /\ conn' = [conn EXCEPT ![c] = "greeted"]
    /\ view' = [view EXCEPT ![c] = truth]
    /\ UNCHANGED <<statuses, phase, pending, clients, channel, missed>>

\* Hub.Subscribe
Subscribe(c) ==
    /\ conn[c] = "greeted" /\ WriteLockFree
    /\ clients' = clients \union {c}
    /\ conn' = [conn EXCEPT ![c] = "live"]
    /\ UNCHANGED <<statuses, phase, pending, channel, view, missed>>

\* The loop of handleWS forwards a message, which tells the client a status.
Receive(c) ==
    /\ conn[c] = "live" /\ channel[c] # <<>>
    /\ LET m == Head(channel[c])
       IN  view' = [view EXCEPT ![c][m.from] = m.version]
    /\ channel' = [channel EXCEPT ![c] = Tail(@)]
    /\ UNCHANGED <<statuses, phase, pending, clients, conn, missed>>

MutantLeaveUnlocked(c) ==
    /\ conn[c] = "live"
    /\ clients' = clients \ {c}
    /\ conn' = [conn EXCEPT ![c] = "leaving"]
    /\ UNCHANGED <<statuses, phase, pending, channel, view, missed>>

\* The request ended: Hub.Unsubscribe deletes the channel under the lock ...
Leave(c) ==
    /\ conn[c] = "live" /\ WriteLockFree
    /\ clients' = clients \ {c}
    /\ conn' = [conn EXCEPT ![c] = "leaving"]
    /\ UNCHANGED <<statuses, phase, pending, channel, view, missed>>

MutantCloseKeepsChannel(c) ==
    /\ conn[c] = "leaving"
    /\ conn' = [conn EXCEPT ![c] = "off"]
    /\ view' = [view EXCEPT ![c] = Blank]
    /\ missed' = [missed EXCEPT ![c] = [s \in Senders |-> FALSE]]
    /\ UNCHANGED <<statuses, phase, pending, clients, channel>>

\* ... and closes it after the lock is released.
Close(c) ==
    /\ conn[c] = "leaving"
    /\ conn' = [conn EXCEPT ![c] = "off"]
    /\ channel' = [channel EXCEPT ![c] = <<>>]
    /\ view' = [view EXCEPT ![c] = Blank]
    /\ missed' = [missed EXCEPT ![c] = [s \in Senders |-> FALSE]]
    /\ UNCHANGED <<statuses, phase, pending, clients>>

-----------------------------------------------------------------------------
Broadcasting(s) ==
    BeginBroadcast(s) \/ (\E c \in Clients : Visit(s, c)) \/ EndBroadcast(s)

Next ==
    \/ \E s \in Senders : \/ Change(s)
                          \/ Quiet(s)
                          \/ BeginBroadcast(s)
                          \/ \E c \in pending[s] : Visit(s, c)
                          \/ EndBroadcast(s)
    \/ \E c \in Clients : Greet(c) \/ Subscribe(c) \/ Receive(c)
                            \/ Leave(c) \/ Close(c)

\* A goroutine that holds or asks for the read lock runs; sync.RWMutex lets no
\* writer starve, so a client that connects or leaves gets the write lock.  No
\* fairness is assumed of a client's reading, nor of its staying.
Fairness ==
    /\ \A s \in Senders : WF_vars(Broadcasting(s))
    /\ \A c \in Clients : SF_vars(Subscribe(c)) /\ WF_vars(Close(c))

Spec == Init /\ [][Next]_vars /\ Fairness

-----------------------------------------------------------------------------
Message == [from : Senders, version : Nat]

\* Types; a channel never holds more than its capacity.
TypeOK ==
    /\ truth \in [Senders -> Nat]
    /\ event \in [Senders -> Nat]
    /\ quiet \in [Senders -> SUBSET Nat]
    /\ phase \in [Senders -> {"idle", "changed", "sending"}]
    /\ pending \in [Senders -> SUBSET Clients]
    /\ clients \subseteq Clients
    /\ conn \in [Clients -> {"off", "greeted", "live", "leaving"}]
    /\ channel \in [Clients -> Seq(Message)]
    /\ \A c \in Clients : Len(channel[c]) <= Capacity
    /\ view \in [Clients -> [Senders -> Nat]]
    /\ missed \in [Clients -> [Senders -> BOOLEAN]]

\* No sender is about to send on a channel that may be closed under it: as
\* long as a broadcast has a channel to visit, its client is not leaving (a
\* send on a closed channel would bring the process down).
NoSendOnClosedChannel ==
    \A s \in Senders : \A c \in pending[s] : conn[c] = "live" /\ c \in clients

InChannel(c, s) == \E i \in DOMAIN channel[c] : channel[c][i].from = s

\* The client has read all that its channel holds of the target, whose last
\* event is broadcast and was not missed.
UpToDate(c, s) ==
    conn[c] = "live" /\ phase[s] = "idle" /\ ~InChannel(c, s) /\ ~missed[c][s]

\* A connected client that has read its channel and missed nothing knows no
\* status older than the one last announced: that one, or, from its snapshot,
\* one that came later without an event.
ReadersAreCurrent ==
    \A c \in Clients, s \in Senders :
        UpToDate(c, s) => view[c][s] \in event[s] .. truth[s]

\* While a client is connected, what it is told of a target goes back to an
\* older status only from one that came without an event: a snapshot may show
\* the silence of a target whose outage is broadcast after it.
ViewGoesBackOnlyFromQuiet ==
    [][\A c \in Clients, s \in Senders :
         conn[c] \in {"greeted", "live"} /\ view'[c][s] < view[c][s]
             => view[c][s] \in quiet[s]]_vars

\* What architecture.md:615 claims: a change of status is pushed when it
\* happens, and no client needs to poll.
EveryChangeIsPushed ==
    \A c \in Clients, s \in Senders : UpToDate(c, s) => view[c][s] = truth[s]

\* A broadcast ends even if no client ever reads: the probe loop of a target
\* never waits for a browser.
BroadcastCompletes ==
    \A s \in Senders : phase[s] = "changed" ~> phase[s] = "idle"
=============================================================================
