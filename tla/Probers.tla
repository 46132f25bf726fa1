------------------------------ MODULE Probers ------------------------------
(***************************************************************************)
(* internal/probe: one probe after the other, as the registered probers    *)
(* (tcp, http, https, dns) carry it out under the deadline runOnce sets.   *)
(*                                                                         *)
(* What the network does is a free choice at every step, also to do        *)
(* nothing; the deadline is what ends a step that waits.  Of a target's    *)
(* configuration a probe only tells apart                                  *)
(*   valid    the port, the domain or the URL can be probed at all         *)
(*   extra    send_data, body_contains or expected_answer is set           *)
(*   follow   follow_redirects                                             *)
(* and of a response whether its status is one of expected_codes (or it    *)
(* has an answer), and whether what is looked for is in it.                *)
(***************************************************************************)
EXTENDS Naturals

CONSTANTS
    Configs,  \* [protocol, valid, extra, follow]
    Timeout   \* TimeoutMs of a target, in ticks

Protocols == {"tcp", "http", "dns"}

ASSUME ConfigAssumption ==
    /\ Configs \subseteq [protocol : Protocols, valid : BOOLEAN, extra : BOOLEAN,
                          follow : BOOLEAN]
    /\ Timeout \in Nat

VARIABLES
    config,   \* of the target that is probed
    phase,    \* "idle", "dialing", "exchanging", "reading" or "returned"
    elapsed,  \* since the probe started
    conn,     \* the connection in use: "none", "open" or "closed"
    pooled,   \* an idle connection lies in the pool of the probe's transport
    result    \* the Result: [success, error]

(* Auxiliary: what the network has done for this probe.                     *)
VARIABLE seen  \* [dialed, sent, reply, found]

vars == <<config, phase, elapsed, conn, pooled, result, seen>>

-----------------------------------------------------------------------------
NoResult == [success |-> FALSE, error |-> "none"]
Nothing == [dialed |-> FALSE, sent |-> FALSE, reply |-> "none",
            found |-> FALSE]

Is(protocol) == config.protocol = protocol
Waiting == phase \in {"dialing", "exchanging", "reading"}

Succeed == /\ phase' = "returned"
           /\ result' = [success |-> TRUE, error |-> "none"]

MutantFail(code) == /\ phase' = "returned"
                    /\ result' = NoResult

\* failResult, and the failures that are written out.
Fail(code) == /\ phase' = "returned"
              /\ result' = [success |-> FALSE, error |-> code]

Init ==
    /\ config \in Configs
    /\ phase = "idle"
    /\ elapsed = 0
    /\ conn = "none" /\ pooled = FALSE
    /\ result = NoResult
    /\ seen = Nothing

\* runOnce calls the prober, which first looks at the configuration.  An HTTP
\* probe makes a transport of its own; that of an earlier probe, and what lies in
\* its pool, is out of reach.
Begin(c) ==
    /\ phase \in {"idle", "returned"}
    /\ config' = c
    /\ elapsed' = 0
    /\ conn' = "none" /\ pooled' = FALSE
    /\ seen' = Nothing
    /\ IF c.valid THEN phase' = "dialing" /\ result' = NoResult
       ELSE Fail(CASE c.protocol = "tcp" -> "invalid_port"
                   [] c.protocol = "http" -> "http_build_request"
                   [] c.protocol = "dns" -> "dns_config_error")

-----------------------------------------------------------------------------
(* TCPProber.Probe                                                          *)

MutantTcpConnected ==
    /\ phase = "dialing" /\ Is("tcp")
    /\ seen' = [seen EXCEPT !.dialed = TRUE]
    /\ conn' = "closed" /\ Succeed
    /\ UNCHANGED <<config, elapsed, pooled>>

\* The connection is up; without send_data that is all.
TcpConnected ==
    /\ phase = "dialing" /\ Is("tcp")
    /\ seen' = [seen EXCEPT !.dialed = TRUE]
    /\ IF config.extra
         THEN conn' = "open" /\ phase' = "exchanging" /\ UNCHANGED result
         ELSE conn' = "closed" /\ Succeed
    /\ UNCHANGED <<config, elapsed, pooled>>

\* DialContext fails.  It returns a *net.OpError with Op "dial" whatever the
\* cause, so isRefused holds for a timeout too.
TcpDialError ==
    /\ phase = "dialing" /\ Is("tcp")
    /\ Fail("tcp_refused")
    /\ UNCHANGED <<config, elapsed, conn, pooled, seen>>

\* send_data is written; nothing is read, also when a response is expected.
TcpSent ==
    /\ phase = "exchanging" /\ Is("tcp")
    /\ seen' = [seen EXCEPT !.sent = TRUE]
    /\ conn' = "closed"
    /\ Succeed
    /\ UNCHANGED <<config, elapsed, pooled>>

MutantTcpSendErrorLeaks ==
    /\ phase = "exchanging" /\ Is("tcp")
    /\ Fail("tcp_send_error")
    /\ UNCHANGED <<config, elapsed, conn, pooled, seen>>

TcpSendError ==
    /\ phase = "exchanging" /\ Is("tcp")
    /\ conn' = "closed"
    /\ Fail("tcp_send_error")
    /\ UNCHANGED <<config, elapsed, pooled, seen>>

-----------------------------------------------------------------------------
(* doHTTP                                                                   *)

\* The request has a connection: a new one, or an idle one of the pool, where
\* another may remain.
HttpConnected ==
    /\ phase = "dialing" /\ Is("http")
    /\ seen' = [seen EXCEPT !.dialed = TRUE]
    /\ conn' = "open"
    /\ pooled' \in {pooled, FALSE}
    /\ phase' = "exchanging"
    /\ UNCHANGED <<config, elapsed, result>>

\* client.Do returns an error, and closes what it was using.  A dial that it no
\* longer waits for may still end well, and its connection goes to the pool.
HttpError ==
    /\ phase \in {"dialing", "exchanging"} /\ Is("http")
    /\ conn' = IF conn = "open" THEN "closed" ELSE conn
    /\ pooled' \in {pooled, pooled \/ phase = "dialing"}
    /\ Fail("http_timeout")
    /\ UNCHANGED <<config, elapsed, seen>>

\* A redirect is followed; CheckRedirect sets no limit to their number.  A body
\* that the client has drained, of at most 2 KB, leaves the connection in the
\* pool, a longer one closes it.
HttpRedirected ==
    /\ phase = "exchanging" /\ Is("http") /\ config.follow
    /\ phase' = "dialing"
    /\ conn' = "none"
    /\ pooled' \in {pooled, TRUE}
    /\ UNCHANGED <<config, elapsed, result, seen>>

\* client.Do returns a response.
HttpHeaders(reply) ==
    /\ phase = "exchanging" /\ Is("http")
    /\ seen' = [seen EXCEPT !.reply = reply]
    /\ phase' = "reading"
    /\ UNCHANGED <<config, elapsed, conn, pooled, result>>

\* io.ReadAll has read the body, or 64 KB of it, or what came before an error,
\* which is ignored; then the checks are made.  A body that was read to its end
\* leaves the connection in the pool, any other closes it.
HttpBody(found, complete) ==
    /\ phase = "reading" /\ Is("http")
    /\ seen' = [seen EXCEPT !.found = found]
    /\ conn' = IF complete THEN "none" ELSE "closed"
    /\ pooled' = (pooled \/ complete)
    /\ IF seen.reply # "expected" THEN Fail("http_unexpected_status")
       ELSE IF config.extra /\ ~found THEN Fail("body_mismatch")
       ELSE Succeed
    /\ UNCHANGED <<config, elapsed>>

-----------------------------------------------------------------------------
(* DNSProber.Probe: one exchange over UDP, whose socket the client closes.   *)

DnsError ==
    /\ phase = "dialing" /\ Is("dns")
    /\ Fail("dns_resolve_error")
    /\ UNCHANGED <<config, elapsed, conn, pooled, seen>>

\* expected_answer is looked for among the A, AAAA and CNAME records.
DnsAnswer(reply, found) ==
    /\ phase = "dialing" /\ Is("dns")
    /\ found => reply = "expected"
    /\ seen' = [seen EXCEPT !.reply = reply, !.found = found]
    /\ IF reply # "expected" THEN Fail("dns_no_answer")
       ELSE IF config.extra /\ ~found THEN Fail("dns_unexpected_answer")
       ELSE Succeed
    /\ UNCHANGED <<config, elapsed, conn, pooled>>

-----------------------------------------------------------------------------
Tick ==
    /\ Waiting /\ elapsed < Timeout
    /\ elapsed' = elapsed + 1
    /\ UNCHANGED <<config, phase, conn, pooled, result, seen>>

MutantExpireNotSending ==
    /\ elapsed = Timeout
    /\ \/ TcpDialError \/ HttpError \/ DnsError
       \/ HttpBody(FALSE, FALSE)

\* The deadline of the context ends whatever waits: the dial, the exchange and
\* the body through the context, the write through SetDeadline.
Expire ==
    /\ elapsed = Timeout
    /\ \/ TcpDialError \/ TcpSendError \/ HttpError \/ DnsError
       \/ \E found \in BOOLEAN : HttpBody(found, FALSE)

Network ==
    \/ TcpConnected \/ TcpDialError \/ TcpSent \/ TcpSendError
    \/ HttpConnected \/ HttpError \/ HttpRedirected
    \/ \E reply \in {"expected", "other"} : HttpHeaders(reply)
    \/ \E found, complete \in BOOLEAN : HttpBody(found, complete)
    \/ DnsError
    \/ \E reply \in {"expected", "other"}, found \in BOOLEAN : DnsAnswer(reply, found)

Next ==
    \/ \E c \in Configs : Begin(c)
    \/ Network
    \/ Tick
    \/ Expire

\* Time passes and deadlines fire; of the network nothing is assumed.
Fairness == WF_vars(Tick) /\ WF_vars(Expire)

Spec == Init /\ [][Next]_vars /\ Fairness

-----------------------------------------------------------------------------
ErrorCodes ==
    {"none", "invalid_port", "tcp_refused", "tcp_send_error", "http_build_request",
     "http_timeout", "http_unexpected_status", "body_mismatch", "dns_config_error",
     "dns_resolve_error", "dns_no_answer", "dns_unexpected_answer"}

\* Types; a result has an error code exactly when it is a failure.
TypeOK ==
    /\ config \in Configs
    /\ phase \in {"idle", "dialing", "exchanging", "reading", "returned"}
    /\ elapsed \in 0 .. Timeout
    /\ conn \in {"none", "open", "closed"}
    /\ pooled \in BOOLEAN
    /\ result \in [success : BOOLEAN, error : ErrorCodes]
    /\ phase = "returned" => (result.success <=> result.error = "none")
    /\ seen \in [dialed : BOOLEAN, sent : BOOLEAN, found : BOOLEAN,
                 reply : {"none", "expected", "other"}]

\* What the prober of the protocol checks: the connection and the sending of
\* send_data for TCP, the status code or the presence of an answer and what is
\* looked for in it for the others.  It is less than is promised: docs/user-manual.md
\* (line 266) and the comment at tcp.go:52 have the response of a TCP target compared
\* with expect_data, which no code does.
Checked ==
    /\ config.valid
    /\ Is("tcp") => seen.dialed /\ (config.extra => seen.sent)
    /\ ~Is("tcp") => seen.reply = "expected" /\ (config.extra => seen.found)

\* A probe succeeds exactly when all that its prober checks has come true on the
\* network, however late, and whatever failed afterwards.
VerdictIsJustified == phase = "returned" => (result.success <=> Checked)

\* A probe that has returned, on whichever path, has closed the connection it
\* used, and only an HTTP probe leaves idle ones behind, in the pool of its
\* transport.
NothingStaysOpen ==
    phase = "returned" => conn # "open" /\ (pooled => Is("http"))

\* Every probe returns, even if the network never answers or redirects for
\* ever: the timer chain of a target never waits for the target.
ProbeReturns == Waiting ~> phase = "returned"
=============================================================================
