----------------------------- MODULE MqttClient -----------------------------
(***************************************************************************)
(* The MQTT client library of the gateway and of the single device         *)
(* (gatewayLib/PubSubClient.cpp): the connection state, the keep-alive     *)
(* timers, the outstanding ping, and loop(), which handles at most one     *)
(* packet per call.  Around it the environment the code runs in: the TCP   *)
(* socket, a broker that answers within Latency ticks while it lives and   *)
(* falls silent when it dies, and an application that comes back to loop() *)
(* within MaxGap ticks.                                                    *)
(*                                                                         *)
(* millis() is read only in differences, so a timestamp is modelled by its *)
(* age: inAge is millis() - lastInActivity, in ticks.                      *)
(***************************************************************************)
EXTENDS Integers, Sequences

CONSTANTS
    KeepAlive,      \* MQTT_KEEPALIVE, in ticks
    SocketTimeout,  \* MQTT_SOCKET_TIMEOUT, in ticks
    MaxGap,         \* the application calls loop() again within this many ticks
    Latency,        \* a live broker answers within this many ticks
    Backlog,        \* packets that may wait in the socket ahead of an answer
    IdSpace         \* packet identifiers are counted modulo this (2^16)

ASSUME KeepAliveAssumption == KeepAlive \in Nat \ {0}
ASSUME SocketTimeoutAssumption == SocketTimeout \in 1..KeepAlive
ASSUME MaxGapAssumption == MaxGap \in Nat \ {0}
ASSUME LatencyAssumption == Latency \in Nat /\ Latency < SocketTimeout
ASSUME BacklogAssumption == Backlog \in Nat
ASSUME IdSpaceAssumption == IdSpace \in Nat /\ IdSpace > 2

(***************************************************************************)
(* The timing the keep-alive relies on: an answer to a ping is read before *)
(* the next keep-alive interval is over, although every call of loop()     *)
(* reads one packet only; and one late call of loop() still leaves the     *)
(* broker within the one and a half intervals MQTT grants a client.        *)
(***************************************************************************)
ASSUME PromptLoopAssumption ==
    /\ Latency + (Backlog + 1) * MaxGap <= KeepAlive
    /\ 2 * MaxGap <= KeepAlive

VARIABLES
    state,            \* PubSubClient::_state
    sock,             \* the TCP socket as _client->connected() reports it
    phase,            \* where the one thread of the program is
    inAge,            \* age of lastInActivity
    outAge,           \* age of lastOutActivity
    pingOutstanding,
    nextMsgId,
    sinceLoop,        \* age of the t that the last call of loop() captured
    rx,               \* packets waiting in the socket, oldest first
    peer,             \* the broker end: live, dead (silent for good), or none
    owed,             \* the answer the broker still owes
    owedAge,
    heardAge,         \* ticks since the broker last heard from this client
    deadFor           \* ticks since the broker died

clientVars == <<state, sock, phase, inAge, outAge, pingOutstanding, nextMsgId, sinceLoop>>
brokerVars == <<peer, owed, owedAge, heardAge, deadFor>>
vars == <<clientVars, rx, brokerVars>>

States == {"DISCONNECTED", "CONNECTED", "CONNECT_FAILED", "CONNECTION_LOST",
           "CONNECTION_TIMEOUT", "REFUSED"}

\* What a broker may send unasked: a publish of either QoS, one longer than
\* MQTT_MAX_PACKET_SIZE, a ping of its own, and the acknowledgements that
\* loop() reads and ignores.
Unasked == {"PUBLISH", "PUBLISH_QOS1", "OVERSIZE", "PINGREQ", "SUBACK"}
Packets == Unasked \cup {"CONNACK", "CONNACK_REFUSED", "PINGRESP"}

Connected == state = "CONNECTED" /\ sock = "open"

-----------------------------------------------------------------------------
(* Pieces of the handlers. *)

\* Bytes reach a broker that lives; a dead one hears nothing.
BrokerHears == heardAge' = IF peer = "live" THEN 0 ELSE heardAge

\* _client->stop(): nothing more is read from the connection or answered on it.
CloseSocket ==
    /\ sock' = "closed"
    /\ rx' = <<>>
    /\ owed' = "none" /\ owedAge' = 0
    /\ peer' = "none" /\ heardAge' = 0 /\ deadFor' = 0

NoticeLoss_Forgotten == UNCHANGED state

\* connected() of a socket that is down: a session that was up is now lost.
NoticeLoss == state' = IF state = "CONNECTED" THEN "CONNECTION_LOST" ELSE state

Init ==
    /\ state = "DISCONNECTED" /\ sock = "closed" /\ phase = "idle"
    \* not set by the constructor, and not read before connect() sets them
    /\ inAge \in 0..1 /\ outAge \in 0..1
    /\ pingOutstanding \in BOOLEAN
    /\ nextMsgId \in 0..1
    /\ sinceLoop = 0 /\ rx = <<>>
    /\ peer = "none" /\ owed = "none" /\ owedAge = 0 /\ heardAge = 0 /\ deadFor = 0

-----------------------------------------------------------------------------
(* connect() *)

PingAfterConnect_Kept == pingOutstanding

\* A new session owes no answer to the ping of an earlier one.
PingAfterConnect == FALSE

\* TCP fails: nothing was sent.
ConnectFails ==
    /\ phase = "idle" /\ sock = "closed"
    /\ state' = "CONNECT_FAILED"
    /\ UNCHANGED <<sock, phase, inAge, outAge, pingOutstanding, nextMsgId, sinceLoop, rx, brokerVars>>

\* TCP succeeds and CONNECT is written; what answers it, if anything, is the
\* broker's affair.  A session found lost is recorded on the way.
ConnectSends ==
    /\ phase = "idle" /\ sock = "closed"
    /\ NoticeLoss
    /\ sock' = "open" /\ phase' = "await"
    /\ inAge' = 0 /\ outAge' = 0
    /\ nextMsgId' = 1
    /\ peer' \in {"live", "dead"}
    /\ owed' = IF peer' = "live" THEN "CONNACK" ELSE "none"
    /\ owedAge' = 0 /\ heardAge' = 0 /\ deadFor' = 0
    /\ UNCHANGED <<pingOutstanding, sinceLoop, rx>>

\* The first packet has come.  Any but a CONNACK leaves _state as it was.
ConnectAnswered ==
    /\ phase = "await" /\ rx # <<>>
    /\ phase' = "idle"
    /\ IF Head(rx) = "CONNACK"
       THEN /\ state' = "CONNECTED"
            /\ inAge' = 0 /\ pingOutstanding' = PingAfterConnect /\ sinceLoop' = 0
            /\ rx' = Tail(rx)
            /\ UNCHANGED <<sock, brokerVars>>
       ELSE /\ state' = IF Head(rx) = "CONNACK_REFUSED" THEN "REFUSED" ELSE state
            /\ CloseSocket
            /\ UNCHANGED <<inAge, pingOutstanding, sinceLoop>>
    /\ UNCHANGED <<outAge, nextMsgId>>

\* Nothing came for SocketTimeout ticks.  The wait asks only for bytes, so it
\* goes on to the end on a socket that has closed meanwhile.
ConnectTimesOut ==
    /\ phase = "await" /\ rx = <<>> /\ inAge >= SocketTimeout
    /\ phase' = "idle"
    /\ state' = "CONNECTION_TIMEOUT"
    /\ CloseSocket
    /\ UNCHANGED <<inAge, outAge, pingOutstanding, nextMsgId, sinceLoop>>

-----------------------------------------------------------------------------
(* loop() *)

PingDue_InboundOnly == inAge > KeepAlive
PingDue_OutboundOnly == outAge > KeepAlive

PingDue == inAge > KeepAlive \/ outAge > KeepAlive

MustGiveUp_Unasked == PingDue

\* The keep-alive interval is over and the ping before is still unanswered.
\* The answer may be waiting in the socket: it is not looked at first.
MustGiveUp == PingDue /\ pingOutstanding

StillOutstanding_AnyPacket(packet) == (pingOutstanding \/ PingDue) /\ packet = "none"

\* pingOutstanding after a call that reads packet, and pings first if it is due.
StillOutstanding(packet) == (pingOutstanding \/ PingDue) /\ packet # "PINGRESP"

\* The first connected() of a call finds the socket down.
LoopFindsLoss ==
    /\ phase = "idle" /\ sock = "closed" /\ state = "CONNECTED"
    /\ NoticeLoss
    /\ UNCHANGED <<sock, phase, inAge, outAge, pingOutstanding, nextMsgId, sinceLoop, rx, brokerVars>>

LoopGivesUp ==
    /\ phase = "idle" /\ Connected
    /\ MustGiveUp
    /\ state' = "CONNECTION_TIMEOUT"
    /\ CloseSocket
    /\ UNCHANGED <<phase, inAge, outAge, pingOutstanding, nextMsgId, sinceLoop>>

\* loop() with a session: the ping if it is due, then one packet if there is
\* one.  Both timers are set to the t of the call, and so is lastInActivity
\* for every packet that fits the buffer.
LoopRuns ==
    /\ phase = "idle" /\ Connected
    /\ ~MustGiveUp
    /\ sinceLoop' = 0
    /\ LET packet == IF rx = <<>> THEN "none" ELSE Head(rx)
           fits == packet \notin {"none", "OVERSIZE"}
           answers == packet = "PINGREQ"
       IN  /\ rx' = IF rx = <<>> THEN rx ELSE Tail(rx)
           /\ inAge' = IF PingDue \/ fits THEN 0 ELSE inAge
           /\ outAge' = IF PingDue THEN 0 ELSE outAge
           /\ pingOutstanding' = StillOutstanding(packet)
           /\ phase' = CASE packet = "PUBLISH" -> "callback"
                         [] packet = "PUBLISH_QOS1" -> "callback_qos1"
                         [] OTHER -> "idle"
           /\ IF PingDue \/ answers THEN BrokerHears ELSE UNCHANGED heardAge
    /\ IF PingDue /\ peer = "live"
       THEN owed' = "PINGRESP" /\ owedAge' = 0
       ELSE UNCHANGED <<owed, owedAge>>
    /\ UNCHANGED <<state, sock, nextMsgId, peer, deadFor>>

\* The application's callback returns to loop().  After a QoS 1 publish the
\* PUBACK is written and lastOutActivity is set back to the t of the call.
CallbackReturns ==
    /\ phase \in {"callback", "callback_qos1"}
    /\ phase' = "idle"
    /\ IF phase = "callback_qos1"
       THEN outAge' = sinceLoop /\ BrokerHears
       ELSE UNCHANGED <<outAge, heardAge>>
    /\ UNCHANGED <<state, sock, inAge, pingOutstanding, nextMsgId, sinceLoop, rx,
                   peer, owed, owedAge, deadFor>>

-----------------------------------------------------------------------------
(* The calls of the application, from its own loop or from the callback. *)

CallerRuns == phase \in {"idle", "callback", "callback_qos1"}

\* publish(): lastOutActivity is set whether or not the bytes went anywhere.
Publish ==
    /\ CallerRuns
    /\ IF sock = "open"
       THEN outAge' = 0 /\ BrokerHears /\ UNCHANGED state
       ELSE NoticeLoss /\ UNCHANGED <<outAge, heardAge>>
    /\ UNCHANGED <<sock, phase, inAge, pingOutstanding, nextMsgId, sinceLoop, rx,
                   peer, owed, owedAge, deadFor>>

NextId_ZeroTaken(id) == (id + 1) % IdSpace

\* subscribe() and unsubscribe() number their packet; zero is skipped.
NextId(id) == IF (id + 1) % IdSpace = 0 THEN 1 ELSE (id + 1) % IdSpace

Subscribe ==
    /\ CallerRuns
    /\ IF sock = "open"
       THEN /\ nextMsgId' = NextId(nextMsgId)
            /\ outAge' = 0 /\ BrokerHears /\ UNCHANGED state
       ELSE NoticeLoss /\ UNCHANGED <<nextMsgId, outAge, heardAge>>
    /\ UNCHANGED <<sock, phase, inAge, pingOutstanding, sinceLoop, rx,
                   peer, owed, owedAge, deadFor>>

Disconnect ==
    /\ phase = "idle"
    /\ state' = "DISCONNECTED"
    /\ inAge' = 0 /\ outAge' = 0
    /\ CloseSocket
    /\ UNCHANGED <<phase, pingOutstanding, nextMsgId, sinceLoop>>

-----------------------------------------------------------------------------
(* The broker and the network. *)

BrokerAnswers ==
    /\ peer = "live" /\ owed # "none"
    /\ \E answer \in IF owed = "CONNACK" THEN {"CONNACK", "CONNACK_REFUSED"} ELSE {owed} :
          rx' = Append(rx, answer)
    /\ owed' = "none" /\ owedAge' = 0
    /\ UNCHANGED <<clientVars, peer, heardAge, deadFor>>

\* Once it has accepted the connection.
BrokerSends ==
    /\ peer = "live" /\ owed # "CONNACK" /\ \A i \in DOMAIN rx : rx[i] # "CONNACK_REFUSED"
    /\ Len(rx) < Backlog
    /\ \E packet \in Unasked : rx' = Append(rx, packet)
    /\ UNCHANGED <<clientVars, brokerVars>>

\* Power cut, half-open connection: the socket stays up and nothing comes.
BrokerDies ==
    /\ peer = "live"
    /\ peer' = "dead" /\ owed' = "none" /\ owedAge' = 0 /\ deadFor' = 0
    /\ UNCHANGED <<clientVars, rx, heardAge>>

\* The socket is reset under the client.
SocketDrops ==
    /\ sock = "open"
    /\ CloseSocket
    /\ UNCHANGED <<state, phase, inAge, outAge, pingOutstanding, nextMsgId, sinceLoop>>

\* Time, which matters while a session is up or being set up.  connect()
\* spins, so it sees its timeout at once; a live broker answers in time.
Tick ==
    /\ \/ phase = "await" /\ inAge < SocketTimeout /\ rx = <<>>
       \/ phase # "await" /\ Connected /\ sinceLoop < MaxGap
    /\ owed # "none" => owedAge < Latency
    /\ inAge' = inAge + 1 /\ outAge' = outAge + 1
    /\ sinceLoop' = IF phase = "await" THEN sinceLoop ELSE sinceLoop + 1
    /\ heardAge' = heardAge + 1
    /\ owedAge' = IF owed = "none" THEN 0 ELSE owedAge + 1
    /\ deadFor' = IF peer = "dead" THEN deadFor + 1 ELSE 0
    /\ UNCHANGED <<state, sock, phase, pingOutstanding, nextMsgId, rx, peer, owed>>

Loop == LoopFindsLoss \/ LoopGivesUp \/ LoopRuns

Next ==
    \/ ConnectFails \/ ConnectSends \/ ConnectAnswered \/ ConnectTimesOut
    \/ LoopFindsLoss \/ LoopGivesUp \/ LoopRuns \/ CallbackReturns
    \/ Publish \/ Subscribe \/ Disconnect
    \/ BrokerAnswers \/ BrokerSends \/ BrokerDies \/ SocketDrops \/ Tick

Spec == Init /\ [][Next]_vars

\* The application's loop() calls the library again and again, a callback
\* returns, a blocking connect() comes to its end, and time passes.  Nothing
\* is assumed of the broker or of the network.
Fairness ==
    /\ WF_vars(Loop) /\ WF_vars(CallbackReturns)
    /\ WF_vars(ConnectAnswered) /\ WF_vars(ConnectTimesOut)
    /\ WF_vars(Tick)

FairSpec == Spec /\ Fairness

-----------------------------------------------------------------------------
(* What the keep-alive must achieve. *)

\* The ages never pass the bounds that the code and its callers imply, and no
\* packet of a session is numbered zero (loop(), subscribe()).
TypeOK ==
    /\ state \in States
    /\ sock \in {"open", "closed"}
    /\ phase \in {"idle", "await", "callback", "callback_qos1"}
    /\ inAge \in 0..(KeepAlive + MaxGap)
    /\ outAge \in 0..(KeepAlive + MaxGap)
    /\ pingOutstanding \in BOOLEAN
    /\ nextMsgId \in 0..(IdSpace - 1)
    /\ Connected => nextMsgId # 0
    /\ sinceLoop \in 0..MaxGap
    /\ rx \in Seq(Packets) /\ Len(rx) <= Backlog + 1
    /\ peer \in {"none", "live", "dead"}
    /\ owed \in {"none", "CONNACK", "PINGRESP"}
    /\ owedAge \in 0..Latency
    /\ heardAge \in Nat /\ deadFor \in Nat

AnswersWaiting == {i \in DOMAIN rx : rx[i] = "PINGRESP"}

\* pingOutstanding agrees with the connection: an answer that is owed or waits
\* in the socket is the only one, and the flag is up for it; while the broker
\* lives the flag is up for no other reason, whatever loop(), the callbacks and
\* the reconnects of the application do.
PingAccounting ==
    Connected =>
        /\ owed = "PINGRESP" \/ AnswersWaiting # {} => pingOutstanding
        /\ ~(owed = "PINGRESP" /\ AnswersWaiting # {})
        /\ \A i, j \in AnswersWaiting : i = j
        /\ pingOutstanding /\ peer = "live" => owed = "PINGRESP" \/ AnswersWaiting # {}

\* The broker of a session never misses the client for longer than the one
\* and a half keep-alive intervals after which MQTT lets it close the
\* connection, although loop() pings only when the application calls it.
BrokerNotStarved == Connected /\ peer = "live" => 2 * heardAge <= 3 * KeepAlive

\* How long a dead broker can be taken for a live one: the packets that still
\* wait are read one per call, then one interval passes until the ping and
\* another until loop() gives up, each noticed at most MaxGap late.
DetectionBound ==
    Connected /\ peer = "dead" =>
        deadFor <= (Backlog + 1) * MaxGap + 2 * (KeepAlive + MaxGap)

\* loop() gives a session up for silence only if the broker is really dead: a
\* late answer behind a queue of packets is never mistaken for no answer.
NoFalseAlarm ==
    [][(state = "CONNECTED" /\ state' = "CONNECTION_TIMEOUT") => peer = "dead"]_vars

\* A session whose socket is down or whose broker is dead does not stay
\* CONNECTED: loop() finds out, even while the application keeps publishing.
LostSessionNoticed ==
    (state = "CONNECTED" /\ (sock = "closed" \/ peer = "dead")) ~> (state # "CONNECTED")

\* The client is a monitor of the broker that suspects it only after a probe
\* and only when it is gone (PeerMonitor).
Monitor == INSTANCE PeerMonitor WITH
    mon <- IF ~Connected THEN "off" ELSE IF pingOutstanding THEN "probing" ELSE "trusting",
    suspected <- state = "CONNECTION_TIMEOUT"

MonitorSpec == Monitor!Spec
=============================================================================
