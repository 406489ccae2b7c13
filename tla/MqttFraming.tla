----------------------------- MODULE MqttFraming -----------------------------
(***************************************************************************)
(* How the MQTT client cuts the byte stream into packets, and writes its   *)
(* own (PubSubClient.cpp: readByte(), readPacket(), write() and the parts  *)
(* of connect(), loop(), publish() and subscribe() that build and take     *)
(* apart a packet).  One buffer serves both directions.                    *)
(*                                                                         *)
(* A packet is what its lengths make of it: bytes are counted, their       *)
(* contents left out.  MqttClient has the timers and the pings.            *)
(***************************************************************************)
EXTENDS Integers, Sequences

CONSTANTS
    MaxPacket,     \* MQTT_MAX_PACKET_SIZE, the length of the buffer
    WordSpace,     \* a uint16_t counts modulo this (2^16)
    Incoming,      \* the packets a broker may send in a session
    SubTopics,     \* lengths of the topics subscribed
    PubTopics,     \* lengths of the topics published
    PubPayloads,   \* lengths of the payloads published
    Ids, Keys,     \* lengths of a client id, of a device index or API key
    StallPoints,   \* bytes of a packet read when the stream stalls
    Backlog,       \* packets under way
    None

\* id is the packet identifier of a QoS 1 publish, or the code of a CONNACK;
\* payload is all the rest of a packet that is not a publish.
PacketType ==
    [kind : {"publish", "connack", "other"}, qos : 0..1, id : Nat, topic : Nat, payload : Nat]

Connacks == {[kind |-> "connack", qos |-> 0, id |-> code, topic |-> 0, payload |-> 2] : code \in 0..1}

ASSUME SizeAssumption ==
    /\ MaxPacket \in Nat /\ 16 <= MaxPacket /\ MaxPacket < WordSpace
    /\ WordSpace \in Nat /\ WordSpace <= 2097152    \* three digits of a length hold a word
ASSUME IncomingAssumption ==
    /\ Incoming \subseteq PacketType /\ Incoming \cap Connacks = {}
    /\ \A p \in Incoming : p.topic < WordSpace
ASSUME LengthAssumption ==
    /\ SubTopics \subseteq Nat /\ PubTopics \subseteq Nat /\ PubPayloads \subseteq Nat
    /\ Ids \subseteq Nat /\ Keys \subseteq Nat
ASSUME StallAssumption == StallPoints \subseteq Nat /\ Backlog \in Nat
ASSUME NoneAssumption == None \notin PacketType

VARIABLES
    session,   \* down, connecting, up
    queue,     \* the packets not wholly read, oldest first
    read,      \* bytes read of the first of them
    phase,     \* idle, digits, topic, body, callback
    llen,      \* lengthLength: digits of the remaining length read
    length,    \* what they amount to
    len,       \* bytes of the packet counted by readPacket()
    buf,       \* the packet the buffer holds from its start, or None
    handed,    \* what the callback was given
    msgId,     \* loop()'s msgId
    acked,     \* the identifier of a PUBACK just written
    out,       \* a packet just written
    broken     \* none; stall, word: what made the client lose the framing

streamVars == <<queue, read>>
readVars == <<llen, length, len>>
appVars == <<handed, msgId, acked>>
vars == <<session, streamVars, phase, readVars, buf, appVars, out, broken>>

-----------------------------------------------------------------------------
(* The protocol: how long a packet is, and how it says so. *)

Power == <<1, 128, 16384, 2097152, 268435456>>

RemLen(p) ==
    IF p.kind = "publish" THEN 2 + p.topic + 2 * p.qos + p.payload ELSE p.payload

DigitCount(n) ==
    IF n < Power[2] THEN 1 ELSE IF n < Power[3] THEN 2 ELSE IF n < Power[4] THEN 3 ELSE 4

\* The j-th digit of a remaining length, the bit that says more will come apart.
Digit(n, j) == (n \div Power[j]) % 128
More(n, j) == j < DigitCount(n)

Size(p) == 1 + DigitCount(RemLen(p)) + RemLen(p)

-----------------------------------------------------------------------------
(* Pieces of the code. *)

\* length += (digit & 127) * multiplier, in 16 bits
Accumulate_FirstDigitOnly(n, j, digit) == digit
Accumulate_Wider(n, j, digit) == n + digit * Power[j]
Accumulate(n, j, digit) == (n + digit * Power[j]) % WordSpace

IsPublish == buf.kind = "publish"

\* Bytes of the remaining length read before the loop over the rest.
Start == IF IsPublish THEN 2 ELSE 0

BodyBytes == IF length > Start THEN length - Start ELSE 0

\* len once the rest is read.
Total == (len + BodyBytes) % WordSpace

Kept_AnyLength == Total > 0

\* A longer packet is read to its end, but len becomes 0 and loop() ignores it.
Kept == Total > 0 /\ Total <= MaxPacket

TopicAt == llen + 3

IdBytes_Never == 0
IdBytes == 2 * buf.qos

PayloadAt == TopicAt + buf.topic + IdBytes

Callback == [packet |-> buf, topicAt |-> TopicAt, payloadAt |-> PayloadAt, length |-> Total - PayloadAt]

Nothing == [packet |-> None, topicAt |-> 0, payloadAt |-> 0, length |-> 0]

\* What the read leaves of the stream, and whether the counts could hold it.
AfterRead ==
    LET p == Head(queue) IN
    /\ IF read + BodyBytes = Size(p)
       THEN queue' = Tail(queue) /\ read' = 0
       ELSE queue' = queue /\ read' = read + BodyBytes
    /\ broken' = IF Size(p) < WordSpace THEN broken ELSE "word"

Forget == queue' = <<>> /\ read' = 0

\* readPacket() has returned.
LocalsGone == llen' = 0 /\ length' = 0 /\ len' = 0

Init ==
    /\ session = "down" /\ queue = <<>> /\ read = 0 /\ phase = "idle"
    /\ llen = 0 /\ length = 0 /\ len = 0 /\ buf = None
    /\ handed = Nothing /\ msgId = 0 /\ acked = 0
    /\ out = None /\ broken = "none"

-----------------------------------------------------------------------------
(* Writing.  Five bytes are left free for the header and the length. *)

\* The digits write() puts into lenBuf, of a 16-bit length.
LenBuf(n) ==
    IF n < 128 THEN <<n>>
    ELSE IF n < 16384 THEN <<(n % 128) + 128, n \div 128>>
    ELSE <<(n % 128) + 128, ((n \div 128) % 128) + 128, n \div 16384>>

\* write(header, buffer, end - 5): the packet lies in front of end.
Write(kind, end) ==
    LET digits == LenBuf(end - 5)
    IN  /\ out' = [kind |-> kind, first |-> 4 - Len(digits), digits |-> digits, end |-> end]
        /\ buf' = None

AfterString(pos, n) == pos + 2 + n

PublishFits_NoHeader(t, n) == MaxPacket >= 2 + t + n

\* publish() refuses what does not fit.
PublishFits(t, n) == MaxPacket >= 5 + 2 + t + n
PublishEnd(t, n) == AfterString(5, t) + n

\* subscribe() and unsubscribe() ask for one byte less than subscribe() needs.
SubscribeFits(t) == MaxPacket >= 9 + t
SubscribeEnd(t) == AfterString(5 + 2, t) + 1
UnsubscribeEnd(t) == AfterString(5 + 2, t)

\* connect() does not ask: version, flags and keep-alive, three strings.
ConnectEnd(id, user, pass) == AfterString(AfterString(AfterString(5 + 7 + 1 + 2, id), user), pass)

CanSend == session = "up" /\ phase \in {"idle", "callback"}

Publish ==
    /\ CanSend
    /\ \E t \in PubTopics, n \in PubPayloads : PublishFits(t, n) /\ Write("publish", PublishEnd(t, n))
    /\ UNCHANGED <<session, streamVars, phase, readVars, appVars, broken>>

Subscribe ==
    /\ CanSend
    /\ \E t \in SubTopics :
          /\ SubscribeFits(t)
          /\ \/ Write("subscribe", SubscribeEnd(t))
             \/ Write("unsubscribe", UnsubscribeEnd(t))
    /\ UNCHANGED <<session, streamVars, phase, readVars, appVars, broken>>

\* connect() over a new socket.
Connect ==
    /\ session = "down" /\ phase = "idle"
    /\ session' = "connecting" /\ broken' = "none"
    /\ \E id \in Ids, user \in Keys, pass \in Keys : Write("connect", ConnectEnd(id, user, pass))
    /\ UNCHANGED <<streamVars, phase, readVars, appVars>>

-----------------------------------------------------------------------------
(* readPacket(), called by connect() and by loop(). *)

ReadHeader ==
    /\ session # "down" /\ phase = "idle" /\ queue # <<>> /\ read = 0
    /\ phase' = "digits"
    /\ read' = 1 /\ len' = 1 /\ length' = 0 /\ llen' = 0
    /\ buf' = Head(queue)
    /\ acked' = 0 /\ out' = None
    /\ UNCHANGED <<session, queue, handed, msgId, broken>>

\* The loop over the digits ends with the one whose top bit is clear.
LastDigit(n, j) == ~More(n, j)

ReadDigit ==
    /\ phase = "digits"
    /\ read' = read + 1 /\ len' = len + 1 /\ llen' = llen + 1
    /\ LET n == RemLen(Head(queue)) IN
       /\ length' = Accumulate(length, llen', Digit(n, llen'))
       /\ phase' = IF ~LastDigit(n, llen') THEN "digits" ELSE IF IsPublish THEN "topic" ELSE "body"
    /\ UNCHANGED <<session, queue, buf, appVars, out, broken>>

\* The length of the topic.
ReadTopicLength ==
    /\ phase = "topic"
    /\ read' = read + 2 /\ len' = len + 2
    /\ phase' = "body"
    /\ UNCHANGED <<session, queue, llen, length, buf, appVars, out, broken>>

\* A publish that fits goes to the callback; the identifier of a QoS 1 publish
\* is taken from the buffer first.
ReadPublish ==
    /\ phase = "body" /\ session = "up" /\ Kept /\ IsPublish
    /\ AfterRead
    /\ phase' = "callback"
    /\ handed' = Callback
    /\ msgId' = IF buf.qos = 1 THEN buf.id ELSE 0
    /\ LocalsGone
    /\ UNCHANGED <<session, buf, acked, out>>

\* Any other packet, and one that is ignored.
ReadOther ==
    /\ phase = "body" /\ session = "up" /\ ~(Kept /\ IsPublish)
    /\ AfterRead
    /\ phase' = "idle" /\ buf' = None
    /\ LocalsGone
    /\ UNCHANGED <<session, appVars, out>>

\* connect() wants four bytes, the last of them zero.
ReadConnack ==
    /\ phase = "body" /\ session = "connecting"
    /\ phase' = "idle" /\ buf' = None
    /\ IF Total = 4 /\ buf.id = 0
       THEN session' = "up" /\ AfterRead
       ELSE session' = "down" /\ Forget /\ UNCHANGED broken
    /\ LocalsGone
    /\ UNCHANGED <<appVars, out>>

\* readByte() waited SocketTimeout in vain: readPacket() returns 0.  connect()
\* gives up; loop() goes on, and what comes late is still in the stream.
Stall ==
    /\ phase \in {"digits", "topic", "body"}
    /\ phase' = "idle" /\ buf' = None
    /\ IF session = "connecting"
       THEN session' = "down" /\ Forget /\ UNCHANGED broken
       ELSE /\ \E k \in StallPoints :
                  /\ k < CASE phase = "digits" -> 1 [] phase = "topic" -> 2 [] OTHER -> BodyBytes
                  /\ read' = read + k
            /\ broken' = "stall"
            /\ UNCHANGED <<session, queue>>
    /\ LocalsGone
    /\ UNCHANGED <<appVars, out>>

\* readPacket() begins in the middle of a packet: bytes of its contents are
\* taken for a header and a length, so any number of bytes is read, and anything
\* may be made of them.
Misread ==
    /\ session = "up" /\ phase = "idle" /\ read # 0
    /\ \E n \in 0..Len(queue), r \in StallPoints :
          /\ n = 0 => r > read
          /\ r < IF n = Len(queue) THEN 1 ELSE Size(queue[n + 1])
          /\ queue' = SubSeq(queue, n + 1, Len(queue)) /\ read' = r
    /\ phase' \in {"idle", "callback"}
    /\ UNCHANGED <<session, readVars, buf, appVars, out, broken>>

AckId_FromBuffer == IF buf = None THEN 0 ELSE buf.id

\* The identifier the PUBACK carries.
AckId == msgId

\* The callback returns; a QoS 1 publish is acknowledged.
CallbackReturns ==
    /\ phase = "callback"
    /\ phase' = "idle" /\ buf' = None
    /\ acked' = IF handed.packet # None /\ handed.packet.qos = 1 THEN AckId ELSE 0
    /\ handed' = Nothing /\ msgId' = 0 /\ out' = None
    /\ UNCHANGED <<session, streamVars, readVars, broken>>

-----------------------------------------------------------------------------
(* The broker and the network. *)

BrokerAccepts ==
    /\ session = "connecting" /\ queue = <<>>
    /\ \E p \in Connacks : queue' = <<p>>
    /\ UNCHANGED <<session, read, phase, readVars, buf, appVars, out, broken>>

BrokerSends ==
    /\ session = "up" /\ Len(queue) < Backlog
    /\ \E p \in Incoming : queue' = Append(queue, p)
    /\ UNCHANGED <<session, read, phase, readVars, buf, appVars, out, broken>>

\* The connection ends, as the client sees it between two packets.
SessionEnds ==
    /\ session # "down" /\ phase = "idle"
    /\ session' = "down" /\ Forget
    /\ acked' = 0 /\ out' = None
    /\ UNCHANGED <<phase, readVars, buf, handed, msgId, broken>>

Next ==
    \/ Publish \/ Subscribe \/ Connect
    \/ ReadHeader \/ ReadDigit \/ ReadTopicLength \/ ReadPublish \/ ReadOther \/ ReadConnack
    \/ Stall \/ Misread \/ CallbackReturns
    \/ BrokerAccepts \/ BrokerSends \/ SessionEnds

Spec == Init /\ [][Next]_vars

-----------------------------------------------------------------------------
(* What the framing must achieve. *)

\* Every variable is in its range; len and length never leave 16 bits, and a
\* length has at most four digits (readPacket(), write()).
TypeOK ==
    /\ session \in {"down", "connecting", "up"}
    /\ queue \in Seq(Incoming \cup Connacks)
    /\ read \in Nat
    /\ phase \in {"idle", "digits", "topic", "body", "callback"}
    /\ llen \in 0..4 /\ length \in 0..(WordSpace - 1) /\ len \in 0..7
    /\ buf \in Incoming \cup Connacks \cup {None}
    /\ handed \in [packet : Incoming \cup {None}, topicAt : Nat, payloadAt : Nat, length : Int]
    /\ msgId \in Nat /\ acked \in Nat
    /\ out = None \/ out \in [kind : {"publish", "subscribe", "unsubscribe", "connect"},
                              first : Nat, digits : Seq(Nat), end : Nat]
    /\ broken \in {"none", "stall", "word"}

\* Between two packets the client stands at the beginning of one, or at the end
\* of the stream, whatever the lengths of the packets were, ignored ones too:
\* only a stall of the stream or a packet longer than 16 bits can count breaks
\* the framing, and the next connection has it again.
InStep == broken = "none" /\ phase \in {"idle", "callback"} => read = 0

\* What loop() gives the callback is the message: the topic and the payload lie
\* where the broker's packet has them, the payload's length is right to the
\* byte, and all of it is inside of the buffer.
MessageWhole ==
    phase = "callback" /\ broken = "none" =>
        LET p == handed.packet IN
        /\ handed.topicAt + p.topic + 2 * p.qos = handed.payloadAt
        /\ handed.length = p.payload
        /\ handed.payloadAt + handed.length = Size(p)
        /\ Size(p) <= MaxPacket

\* The value of a list of digits, as a broker reads it.
ValueOf(digits) ==
    LET Term(j) == IF j <= Len(digits) THEN (digits[j] % 128) * Power[j] ELSE 0
    IN  Term(1) + Term(2) + Term(3)

\* A packet that is written can be read: it begins and ends in the buffer, the
\* digits are as many as they say, and they count the bytes behind them.
OutgoingFramed ==
    out # None =>
        /\ out.first >= 0 /\ out.end <= MaxPacket
        /\ \A j \in DOMAIN out.digits : out.digits[j] >= 128 <=> j < Len(out.digits)
        /\ ValueOf(out.digits) = out.end - (out.first + 1 + Len(out.digits))

\* A PUBACK names the message whose callback has just returned, although the
\* publishes and subscriptions of that callback overwrote the buffer.
AckNamesMessage ==
    [][CallbackReturns /\ handed.packet # None /\ handed.packet.qos = 1 =>
          acked' = handed.packet.id]_vars

\* Seen from the application, the stream is a channel that hands over every
\* publish that fits, once and in order (MessageChannel).
Channel == INSTANCE MessageChannel WITH
    Sendable <- Incoming \cup Connacks,
    Deliverable <- {p \in Incoming : p.kind = "publish" /\ Size(p) <= MaxPacket},
    pending <- queue, handed <- handed.packet, framed <- broken = "none"

ChannelSpec == Channel!Spec
=============================================================================
