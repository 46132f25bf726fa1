--------------------------- MODULE Probers_proofs ---------------------------
(* Proofs about Probers.tla, for any configurations and any deadline.       *)
EXTENDS Probers, TLAPS

-----------------------------------------------------------------------------
(* The inductive invariant.                                                 *)

\* How far a probe has come tells what the network has done for it and what it
\* holds: only an exchange and the reading of a body have a connection open, and
\* only HTTP has a pool.
Progress ==
    /\ Waiting => config.valid
    /\ phase = "dialing" =>
          /\ conn = "none"
          /\ Is("tcp") => ~seen.dialed
    /\ phase = "exchanging" =>
          /\ conn = "open" /\ seen.dialed /\ ~Is("dns")
          /\ Is("tcp") => config.extra
    /\ phase = "reading" => conn = "open" /\ Is("http")
    /\ phase \in {"dialing", "exchanging"} =>
          ~seen.sent /\ seen.reply = "none" /\ ~seen.found
    /\ pooled => Is("http")

IInv == TypeOK /\ Progress /\ VerdictIsJustified /\ NothingStaysOpen

LEMMA InvInit == Init => IInv
<1> SUFFICES ASSUME Init PROVE IInv
  OBVIOUS
<1>1. pooled \in BOOLEAN /\ ~pooled
  BY DEF Init
<1> QED
  BY <1>1, ConfigAssumption
  DEF Init, ConfigAssumption, IInv, TypeOK, Progress, VerdictIsJustified,
      NothingStaysOpen, NoResult, Nothing, ErrorCodes, Waiting

-----------------------------------------------------------------------------
(* One step per step of a probe.                                            *)

\* What every step may use.
Facts ==
    /\ config.protocol \in Protocols /\ config.valid \in BOOLEAN
    /\ config.extra \in BOOLEAN /\ config.follow \in BOOLEAN
    /\ Timeout \in Nat

LEMMA TypedConfig == TypeOK => Facts
<1> SUFFICES ASSUME TypeOK PROVE Facts
  OBVIOUS
<1>1. config \in [protocol : Protocols, valid : BOOLEAN, extra : BOOLEAN,
                  follow : BOOLEAN]
  BY ConfigAssumption DEF TypeOK, ConfigAssumption
<1> QED
  BY <1>1, ConfigAssumption DEF Facts, ConfigAssumption

LEMMA InvBegin ==
    ASSUME IInv, NEW c \in Configs, Begin(c)
    PROVE  IInv'
<1>1. /\ c.protocol \in Protocols /\ c.valid \in BOOLEAN /\ c.extra \in BOOLEAN
      /\ Timeout \in Nat
  BY ConfigAssumption DEF ConfigAssumption
<1>2. CASE c.valid
  <2>1. /\ phase' = "dialing" /\ config' = c /\ conn' = "none"
        /\ pooled' \in BOOLEAN /\ ~pooled'
        /\ elapsed' = 0 /\ seen' = Nothing /\ result' = NoResult
    BY <1>2 DEF Begin
  <2> QED
    BY <1>1, <1>2, <2>1 DEF IInv, TypeOK, Progress, VerdictIsJustified,
       NothingStaysOpen, NoResult, Nothing, ErrorCodes, Waiting, Is
<1>3. CASE ~c.valid
  <2>1. c.protocol \in {"tcp", "http", "dns"}
    BY <1>1 DEF Protocols
  <2>2. /\ phase' = "returned" /\ config' = c /\ conn' = "none"
        /\ pooled' \in BOOLEAN /\ ~pooled'
        /\ elapsed' = 0 /\ seen' = Nothing
        /\ \E code \in ErrorCodes \ {"none"} :
              result' = [success |-> FALSE, error |-> code]
    BY <1>3, <2>1 DEF Begin, Fail, ErrorCodes
  <2> QED
    BY <1>1, <1>3, <2>2 DEF IInv, TypeOK, Progress, VerdictIsJustified,
       NothingStaysOpen, Checked, Nothing, Waiting
<1> QED
  BY <1>2, <1>3

\* A probe that returns keeps the invariant when its verdict says what the network
\* did and its connection is not left open.
LEMMA InvReturned ==
    ASSUME IInv, phase' = "returned", UNCHANGED <<config, elapsed>>,
           conn' \in {"none", "closed"},
           pooled' \in BOOLEAN, pooled' => Is("http"),
           NEW code \in ErrorCodes,
           result' = [success |-> code = "none", error |-> code],
           seen' \in [dialed : BOOLEAN, sent : BOOLEAN, found : BOOLEAN,
                      reply : {"none", "expected", "other"}],
           code = "none" <=> Checked'
    PROVE  IInv'
<1>1. /\ result' \in [success : BOOLEAN, error : ErrorCodes]
      /\ result'.success <=> result'.error = "none"
      /\ result'.success <=> Checked'
  OBVIOUS
<1>2. TypeOK'
  BY <1>1 DEF IInv, TypeOK
<1> QED
  BY <1>1, <1>2 DEF IInv, Progress, Waiting, VerdictIsJustified, NothingStaysOpen, Is

LEMMA InvTcp ==
    ASSUME IInv, TcpConnected \/ TcpDialError \/ TcpSent \/ TcpSendError
    PROVE  IInv'
<1> USE TypedConfig
    DEF IInv, TypeOK, Facts, Progress, Checked, Waiting, Is, Succeed, Fail, ErrorCodes
<1>1. CASE TcpConnected /\ config.extra
  BY <1>1 DEF TcpConnected, VerdictIsJustified, NothingStaysOpen
<1>2. CASE TcpConnected /\ ~config.extra
  BY <1>2, InvReturned DEF TcpConnected
<1>3. CASE TcpDialError
  BY <1>3, InvReturned DEF TcpDialError
<1>4. CASE TcpSent
  BY <1>4, InvReturned DEF TcpSent
<1>5. CASE TcpSendError
  BY <1>5, InvReturned DEF TcpSendError
<1> QED
  BY <1>1, <1>2, <1>3, <1>4, <1>5

LEMMA InvHttp ==
    ASSUME IInv,
           \/ HttpConnected \/ HttpError \/ HttpRedirected
           \/ \E reply \in {"expected", "other"} : HttpHeaders(reply)
    PROVE  IInv'
<1> USE TypedConfig
    DEF IInv, TypeOK, Facts, Progress, VerdictIsJustified, NothingStaysOpen, Checked,
        Waiting, Is, Fail, ErrorCodes
<1>1. CASE HttpConnected
  BY <1>1 DEF HttpConnected
<1>2. CASE HttpError
  BY <1>2 DEF HttpError
<1>3. CASE HttpRedirected
  BY <1>3 DEF HttpRedirected
<1>4. ASSUME NEW reply \in {"expected", "other"}, HttpHeaders(reply)
      PROVE  IInv'
  BY <1>4 DEF HttpHeaders
<1> QED
  BY <1>1, <1>2, <1>3, <1>4

\* The verdict on a body or an answer: the reply counts first, then what is looked
\* for in it.
Verdict(code, reply, found) ==
    \/ reply # "expected" /\ code \in ErrorCodes \ {"none"}
    \/ reply = "expected" /\ config.extra /\ ~found /\ code \in ErrorCodes \ {"none"}
    \/ reply = "expected" /\ (config.extra => found) /\ code = "none"

LEMMA InvBody ==
    ASSUME IInv, NEW found \in BOOLEAN, NEW complete \in BOOLEAN,
           HttpBody(found, complete)
    PROVE  IInv'
<1> USE DEF Is
<1>1. /\ phase = "reading" /\ config.protocol = "http" /\ config.valid
      /\ phase' = "returned" /\ UNCHANGED <<config, elapsed>>
      /\ conn' = (IF complete THEN "none" ELSE "closed")
      /\ pooled' = (pooled \/ complete)
      /\ seen' = [seen EXCEPT !.found = found]
  BY DEF HttpBody, Succeed, Fail, IInv, Progress, Waiting
<1>2. PICK code : /\ Verdict(code, seen.reply, found)
                  /\ result' = [success |-> code = "none", error |-> code]
  <2>1. CASE seen.reply # "expected"
    BY <2>1 DEF HttpBody, Fail, Verdict, ErrorCodes
  <2>2. CASE seen.reply = "expected" /\ config.extra /\ ~found
    BY <2>2 DEF HttpBody, Fail, Verdict, ErrorCodes
  <2>3. CASE seen.reply = "expected" /\ ~(config.extra /\ ~found)
    BY <2>3 DEF HttpBody, Succeed, Verdict
  <2> QED
    BY <2>1, <2>2, <2>3
<1>3. /\ seen' \in [dialed : BOOLEAN, sent : BOOLEAN, found : BOOLEAN,
                    reply : {"none", "expected", "other"}]
      /\ seen'.reply = seen.reply /\ seen'.found = found
  BY <1>1 DEF IInv, TypeOK
<1>4. code \in ErrorCodes /\ (code = "none" <=> Checked')
  BY <1>1, <1>2, <1>3 DEF Verdict, Checked, ErrorCodes
<1> QED
  BY <1>1, <1>2, <1>3, <1>4, InvReturned

LEMMA InvDns ==
    ASSUME IInv,
           \/ DnsError
           \/ \E reply \in {"expected", "other"}, found \in BOOLEAN :
                 DnsAnswer(reply, found)
    PROVE  IInv'
<1> USE DEF Is
<1>1. CASE DnsError
  BY <1>1, InvReturned
  DEF DnsError, IInv, TypeOK, Progress, Checked, Waiting, Fail, ErrorCodes
<1>2. ASSUME NEW reply \in {"expected", "other"}, NEW found \in BOOLEAN,
             DnsAnswer(reply, found)
      PROVE  IInv'
  <2>1. /\ phase = "dialing" /\ config.protocol = "dns" /\ config.valid
        /\ phase' = "returned" /\ UNCHANGED <<config, elapsed>>
        /\ conn' = "none" /\ pooled' = pooled
        /\ seen' = [seen EXCEPT !.reply = reply, !.found = found]
    BY <1>2 DEF DnsAnswer, Succeed, Fail, IInv, Progress, Waiting
  <2>2. PICK code : /\ Verdict(code, reply, found)
                    /\ result' = [success |-> code = "none", error |-> code]
    <3>1. CASE reply # "expected"
      BY <1>2, <3>1 DEF DnsAnswer, Fail, Verdict, ErrorCodes
    <3>2. CASE reply = "expected" /\ config.extra /\ ~found
      BY <1>2, <3>2 DEF DnsAnswer, Fail, Verdict, ErrorCodes
    <3>3. CASE reply = "expected" /\ ~(config.extra /\ ~found)
      BY <1>2, <3>3 DEF DnsAnswer, Succeed, Verdict
    <3> QED
      BY <3>1, <3>2, <3>3
  <2>3. /\ seen' \in [dialed : BOOLEAN, sent : BOOLEAN, found : BOOLEAN,
                      reply : {"none", "expected", "other"}]
        /\ seen'.reply = reply /\ seen'.found = found
    BY <2>1 DEF IInv, TypeOK
  <2>4. code \in ErrorCodes /\ (code = "none" <=> Checked')
    BY <2>1, <2>2, <2>3 DEF Verdict, Checked, ErrorCodes
  <2>5. pooled' \in BOOLEAN /\ (pooled' => Is("http"))
    BY <2>1 DEF IInv, TypeOK, Progress
  <2> QED
    BY <2>1, <2>2, <2>3, <2>4, <2>5, InvReturned
<1> QED
  BY <1>1, <1>2

LEMMA InvTick ==
    ASSUME IInv, Tick
    PROVE  IInv'
BY TypedConfig
DEF IInv, TypeOK, Facts, Progress, VerdictIsJustified, NothingStaysOpen, Checked,
    Waiting, Is, Tick

LEMMA InvStep == IInv /\ [Next]_vars => IInv'
<1> SUFFICES ASSUME IInv, [Next]_vars PROVE IInv'
  OBVIOUS
<1>1. CASE UNCHANGED vars
  BY <1>1 DEF vars, IInv, TypeOK, Progress, VerdictIsJustified, NothingStaysOpen,
              Checked, Waiting, Is
<1>2. CASE \E c \in Configs : Begin(c)
  BY <1>2, InvBegin
<1>3. CASE Network
  BY <1>3, InvTcp, InvHttp, InvBody, InvDns DEF Network
<1>4. CASE Tick
  BY <1>4, InvTick
<1>5. CASE Expire
  BY <1>5, InvTcp, InvHttp, InvBody, InvDns DEF Expire
<1> QED
  BY <1>1, <1>2, <1>3, <1>4, <1>5 DEF Next

LEMMA InductiveInvariant == Spec => []IInv
BY InvInit, InvStep, PTL DEF Spec

-----------------------------------------------------------------------------
\* The variables keep their types, and the error code of a result that is out is
\* set exactly when the probe failed.
THEOREM TypeCorrect == Spec => []TypeOK
<1>1. IInv => TypeOK
  BY DEF IInv
<1> QED
  BY <1>1, InductiveInvariant, PTL

\* A probe succeeds exactly when all that its prober checks came true, whichever
\* of the probers ran it and wherever the deadline fell.
THEOREM VerdictsAreJustified == Spec => []VerdictIsJustified
<1>1. IInv => VerdictIsJustified
  BY DEF IInv
<1> QED
  BY <1>1, InductiveInvariant, PTL

\* No path out of a prober leaves the connection it used open; what may lie in a
\* pool is an HTTP probe's.
THEOREM ConnectionsAreClosed == Spec => []NothingStaysOpen
<1>1. IInv => NothingStaysOpen
  BY DEF IInv
<1> QED
  BY <1>1, InductiveInvariant, PTL
=============================================================================
