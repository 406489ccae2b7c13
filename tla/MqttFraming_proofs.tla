------------------------- MODULE MqttFraming_proofs -------------------------
(***************************************************************************)
(* Proofs about MqttFraming, for packets, topics and payloads of any       *)
(* lengths: the client keeps in step with the stream, hands over messages  *)
(* whole and writes packets that can be read.                              *)
(***************************************************************************)
EXTENDS MqttFraming, SequenceTheorems, TLAPS

-----------------------------------------------------------------------------
(* Digits. *)

\* A digit more of a number is the number modulo one power more.
LEMMA DigitSum ==
    ASSUME NEW n \in Nat, NEW j \in 1..4
    PROVE  (n % Power[j]) + (Digit(n, j) * Power[j]) = n % Power[j + 1]
<1>1. CASE j = 1
  BY <1>1 DEF Power, Digit
<1>2. CASE j = 2
  BY <1>2 DEF Power, Digit
<1>3. CASE j = 3
  BY <1>3 DEF Power, Digit
<1>4. CASE j = 4
  BY <1>4 DEF Power, Digit
<1> QED  BY <1>1, <1>2, <1>3, <1>4

\* A number has one to four digits, and all of them make it up.
LEMMA DigitCountFacts ==
    ASSUME NEW n \in Nat
    PROVE  /\ DigitCount(n) \in 1..4
           /\ n < 2097152 => n % Power[DigitCount(n) + 1] = n
  BY DEF DigitCount, Power

\* The powers are numbers, and no number has a remainder of the first.
LEMMA PowerFacts ==
    /\ \A j \in 1..5 : Power[j] \in Nat \ {0}
    /\ \A n \in Nat : n % Power[1] = 0
  BY DEF Power

\* A remainder is no greater than the number.
LEMMA ModFacts ==
    ASSUME NEW n \in Nat, NEW m \in Nat \ {0}
    PROVE  n % m \in 0..n /\ n % m < m
  OBVIOUS

\* write() puts at most three bytes in front of a packet.
LEMMA LenBufTypes ==
    ASSUME NEW n \in Nat
    PROVE  LenBuf(n) \in Seq(Nat) /\ Len(LenBuf(n)) \in 1..3
<1>1. CASE n < 128
  BY <1>1 DEF LenBuf
<1>2. CASE 128 <= n /\ n < 16384
  BY <1>2 DEF LenBuf
<1>3. CASE 16384 <= n
  BY <1>3 DEF LenBuf
<1> QED  BY <1>1, <1>2, <1>3

\* What write() puts in front of a packet are the digits of its length.
LEMMA LenBufFacts ==
    ASSUME NEW n \in Nat, n < 2097152
    PROVE  /\ LenBuf(n) \in Seq(Nat) /\ Len(LenBuf(n)) \in 1..3
           /\ \A j \in DOMAIN LenBuf(n) : LenBuf(n)[j] >= 128 <=> j < Len(LenBuf(n))
           /\ ValueOf(LenBuf(n)) = n
<1>1. CASE n < 128
  <2>1. LenBuf(n) = <<n>>
    BY <1>1 DEF LenBuf
  <2> QED  BY <1>1, <2>1 DEF ValueOf, Power
<1>2. CASE 128 <= n /\ n < 16384
  <2> DEFINE a == (n % 128) + 128
             b == n \div 128
  <2>1. LenBuf(n) = <<a, b>>
    BY <1>2 DEF LenBuf
  <2>2. a \in Nat /\ b \in Nat /\ a >= 128 /\ b < 128 /\ a % 128 = n % 128 /\ b % 128 = b
    BY <1>2
  <2>3. (n % 128) + b * 128 = n
    BY <1>2
  <2> HIDE DEF a, b
  <2>4. ValueOf(<<a, b>>) = (a % 128) * 1 + (b % 128) * 128 + 0
    BY DEF ValueOf, Power
  <2> QED  BY <2>1, <2>2, <2>3, <2>4
<1>3. CASE 16384 <= n
  <2> DEFINE a == (n % 128) + 128
             b == ((n \div 128) % 128) + 128
             c == n \div 16384
  <2>1. LenBuf(n) = <<a, b, c>>
    BY <1>3 DEF LenBuf
  <2>2. /\ a \in Nat /\ b \in Nat /\ c \in Nat /\ a >= 128 /\ b >= 128 /\ c < 128
        /\ a % 128 = n % 128 /\ b % 128 = (n \div 128) % 128 /\ c % 128 = c
    BY <1>3
  <2>3. (n % 128) + ((n \div 128) % 128) * 128 + c * 16384 = n
    BY <1>3
  <2> HIDE DEF a, b, c
  <2>4. ValueOf(<<a, b, c>>) = (a % 128) * 1 + (b % 128) * 128 + (c % 128) * 16384
    BY DEF ValueOf, Power
  <2> QED  BY <2>1, <2>2, <2>3, <2>4
<1> QED  BY <1>1, <1>2, <1>3

-----------------------------------------------------------------------------
(* Packets. *)

Sent == Incoming \cup Connacks

\* The lengths of a packet are numbers, and a publish has a topic length.
LEMMA PacketFacts ==
    ASSUME NEW p \in Sent
    PROVE  /\ p \in PacketType /\ RemLen(p) \in Nat /\ Size(p) \in Nat
           /\ DigitCount(RemLen(p)) \in 1..4
           /\ p.kind = "publish" => RemLen(p) >= 2 /\ p \in Incoming
           /\ Size(p) < WordSpace => RemLen(p) < 2097152
           /\ p.qos \in 0..1 /\ p.id \in Nat /\ p.topic \in Nat /\ p.payload \in Nat
<1>1. p \in PacketType
  BY IncomingAssumption DEF Sent, Connacks, PacketType
<1>2. p.qos \in 0..1 /\ p.id \in Nat /\ p.topic \in Nat /\ p.payload \in Nat
  BY <1>1 DEF PacketType
<1>3. RemLen(p) \in Nat
  BY <1>2 DEF RemLen
<1>4. p.kind = "publish" => RemLen(p) >= 2
  BY <1>2 DEF RemLen
<1>5. p.kind = "publish" => p \in Incoming
  BY DEF Sent, Connacks
<1>6. DigitCount(RemLen(p)) \in 1..4
  BY <1>3, DigitCountFacts
<1>7. Size(p) \in Nat /\ (Size(p) < WordSpace => RemLen(p) < 2097152)
  <2> DEFINE n == RemLen(p)
             d == DigitCount(n)
  <2>1. Size(p) = 1 + d + n
    BY DEF Size
  <2> HIDE DEF n, d
  <2> QED  BY <1>3, <1>6, <2>1, SizeAssumption DEF n, d
<1> QED  BY <1>1, <1>2, <1>3, <1>4, <1>5, <1>6, <1>7

-----------------------------------------------------------------------------
(* The invariant: how far a packet is read, in both counts of it, as long as *)
(* 16 bits can hold them; what is between two packets; what the callback has. *)

Small(p) == Size(p) < WordSpace

InPacket == phase \in {"digits", "topic", "body"}

Reading ==
    InPacket =>
        LET p == Head(queue)
            n == RemLen(p)
        IN  /\ queue # <<>> /\ buf = p /\ p \in Sent
            /\ llen \in 0..DigitCount(n)
            /\ read = len
            /\ len = 1 + llen + (IF phase = "body" /\ p.kind = "publish" THEN 2 ELSE 0)
            /\ phase = "digits" => llen < DigitCount(n)
            /\ phase # "digits" => llen = DigitCount(n)
            /\ phase = "topic" => p.kind = "publish"
            /\ Small(p) => length = n % Power[llen + 1]

\* Where the session stands; in what order things may come.
Places ==
    /\ session = "down" => phase = "idle" /\ queue = <<>> /\ read = 0
    /\ session = "connecting" => phase # "callback" /\ (queue # <<>> => Head(queue) \in Connacks)
    /\ phase # "callback" => handed = Nothing

\* The identifier kept for the PUBACK is that of the message.
Kept4Ack ==
    phase = "callback" /\ handed.packet # None =>
        msgId = IF handed.packet.qos = 1 THEN handed.packet.id ELSE 0

FramingInv == TypeOK /\ Reading /\ Places /\ Kept4Ack /\ InStep /\ MessageWhole

-----------------------------------------------------------------------------
(* The end of a packet. *)

\* The counts at the end of a packet: read and length agree with it, if 16 bits
\* can hold them.
LEMMA BodyFacts ==
    ASSUME TypeOK, Reading, phase = "body", Small(Head(queue))
    PROVE  /\ length = RemLen(Head(queue))
           /\ read + BodyBytes = Size(Head(queue))
           /\ Total = Size(Head(queue))
           /\ Size(Head(queue)) \in Nat \ {0}
<1> DEFINE p == Head(queue)
           n == RemLen(p)
           d == DigitCount(n)
           Front == IF p.kind = "publish" THEN 2 ELSE 0
<1>1. /\ buf = p /\ p \in Sent /\ llen = d /\ read = len /\ len = 1 + llen + Front
      /\ length = n % Power[llen + 1]
  BY DEF Reading, InPacket
<1>2. /\ n \in Nat /\ d \in 1..4 /\ n < 2097152 /\ n >= Front /\ Size(p) < WordSpace
  <2>1. n \in Nat /\ d \in 1..4 /\ n < 2097152 /\ (p.kind = "publish" => n >= 2)
    BY <1>1, PacketFacts DEF Small
  <2> QED  BY <2>1 DEF Small
<1>3. length = n
  BY <1>1, <1>2, DigitCountFacts
<1>4. Start = Front
  BY <1>1 DEF Start, IsPublish
<1>5. BodyBytes = n - Front
  BY <1>2, <1>3, <1>4 DEF BodyBytes
<1>6. Size(p) = 1 + d + n
  BY DEF Size
<1>7. read + BodyBytes = Size(p) /\ len + BodyBytes = Size(p)
  <2> HIDE DEF n, d, p
  <2> QED  BY <1>1, <1>2, <1>5, <1>6
<1>8. Size(p) \in Nat \ {0}
  <2> HIDE DEF n, d, p
  <2> QED  BY <1>2, <1>6
<1>9. Total = Size(p) % WordSpace
  BY <1>7 DEF Total
<1>10. Size(p) % WordSpace = Size(p)
  BY <1>2, <1>8, SizeAssumption
<1> QED  BY <1>3, <1>7, <1>8, <1>9, <1>10

\* The types of what the reader computes, whatever it counts.
LEMMA CountTypes ==
    ASSUME TypeOK, Reading, phase = "body"
    PROVE  /\ BodyBytes \in Nat /\ Total \in Nat /\ Start \in {0, 2}
           /\ queue # <<>> /\ buf = Head(queue) /\ Head(queue) \in Sent
           /\ queue \in Seq(Sent) /\ Tail(queue) \in Seq(Sent)
<1>1. queue \in Seq(Sent) /\ queue # <<>> /\ buf = Head(queue) /\ Head(queue) \in Sent
  BY DEF TypeOK, Reading, InPacket, Sent
<1>2. Start \in {0, 2}
  BY DEF Start
<1>3. BodyBytes \in Nat
  BY <1>2 DEF TypeOK, BodyBytes
<1>4. Total \in Nat
  BY <1>3, SizeAssumption DEF TypeOK, Total
<1>5. Tail(queue) \in Seq(Sent)
  BY <1>1, HeadTailProperties
<1> QED  BY <1>1, <1>2, <1>3, <1>4, <1>5

\* After the end of a packet the stream is at the next one, or the packet was
\* longer than 16 bits.
LEMMA AfterReadFacts ==
    ASSUME TypeOK, Reading, phase = "body", AfterRead
    PROVE  /\ queue' \in Seq(Sent) /\ read' \in Nat
           /\ broken' \in {broken, "word"}
           /\ broken' = "none" => broken = "none" /\ Small(Head(queue))
           /\ Small(Head(queue)) => read' = 0 /\ queue' = Tail(queue) /\ broken' = broken
           /\ ~Small(Head(queue)) => broken' = "word"
           /\ queue' \in {queue, Tail(queue)}
<1>1. queue \in Seq(Sent) /\ Tail(queue) \in Seq(Sent) /\ BodyBytes \in Nat /\ read \in Nat
  BY CountTypes DEF TypeOK
<1>2. queue' \in {queue, Tail(queue)} /\ read' \in {0, read + BodyBytes}
  BY DEF AfterRead
<1>3. broken' = IF Small(Head(queue)) THEN broken ELSE "word"
  BY DEF AfterRead, Small
<1>4. Small(Head(queue)) => read' = 0 /\ queue' = Tail(queue)
  BY BodyFacts DEF AfterRead
<1> QED  BY <1>1, <1>2, <1>3, <1>4

-----------------------------------------------------------------------------
(* Steps of the reader. *)

\* Power-up has the invariant.
LEMMA InitFraming == Init => FramingInv
<1> SUFFICES ASSUME Init PROVE FramingInv
  OBVIOUS
<1>1. queue \in Seq(Sent)
  BY EmptySeq DEF Init
<1>2. handed \in [packet : Incoming \cup {None}, topicAt : Nat, payloadAt : Nat, length : Int]
  BY DEF Init, Nothing
<1>3. TypeOK
  BY <1>1, <1>2, SizeAssumption DEF Init, TypeOK, Sent
<1> QED  BY <1>3 DEF Init, FramingInv, Reading, InPacket, Places, Kept4Ack, InStep, MessageWhole

\* A step that leaves the reader alone.
LEMMA ReaderKept ==
    ASSUME FramingInv, UNCHANGED <<session, streamVars, phase, readVars, handed, msgId, broken>>,
           InPacket => buf' = buf
    PROVE  Reading' /\ Places' /\ Kept4Ack' /\ InStep' /\ MessageWhole'
<1>1. Reading'
  BY DEF FramingInv, Reading, InPacket, streamVars, readVars, Small
<1>2. Places' /\ Kept4Ack' /\ InStep'
  BY DEF FramingInv, Places, Kept4Ack, InStep, streamVars
<1>3. MessageWhole'
  BY DEF FramingInv, MessageWhole
<1> QED  BY <1>1, <1>2, <1>3

\* The header of the next packet is read.
LEMMA HeaderStep == FramingInv /\ ReadHeader => FramingInv'
<1> SUFFICES ASSUME FramingInv, ReadHeader PROVE FramingInv'
  OBVIOUS
<1> DEFINE p == Head(queue)
<1>1. /\ queue # <<>> /\ phase = "idle" /\ session # "down" /\ phase' = "digits"
      /\ read' = 1 /\ len' = 1 /\ length' = 0 /\ llen' = 0 /\ buf' = p /\ acked' = 0 /\ out' = None
      /\ UNCHANGED <<session, queue, handed, msgId, broken>>
  BY DEF ReadHeader
<1>2. queue \in Seq(Sent)
  BY DEF FramingInv, TypeOK, Sent
<1>3. p \in Sent
  BY <1>1, <1>2, HeadTailProperties
<1>4. RemLen(p) \in Nat /\ DigitCount(RemLen(p)) \in 1..4
  BY <1>3, PacketFacts
<1>5. TypeOK'
  BY <1>1, <1>3, SizeAssumption DEF FramingInv, TypeOK, Sent
<1>6. Reading'
  <2> HIDE DEF p
  <2>1. 0 \in 0..DigitCount(RemLen(p)) /\ 0 < DigitCount(RemLen(p)) /\ RemLen(p) % Power[0 + 1] = 0
    BY <1>4, PowerFacts
  <2>2. Head(queue') = p
    BY <1>1 DEF p
  <2> QED  BY <1>1, <1>3, <2>1, <2>2 DEF Reading, InPacket
<1>7. Places' /\ Kept4Ack' /\ InStep' /\ MessageWhole'
  BY <1>1 DEF FramingInv, Places, Kept4Ack, InStep, MessageWhole
<1> QED  BY <1>5, <1>6, <1>7 DEF FramingInv

\* A digit of the remaining length is read.
LEMMA DigitStep == FramingInv /\ ReadDigit => FramingInv'
<1> SUFFICES ASSUME FramingInv, ReadDigit PROVE FramingInv'
  OBVIOUS
<1> DEFINE p == Head(queue)
           n == RemLen(p)
           d == DigitCount(n)
<1>1. /\ phase = "digits" /\ read' = read + 1 /\ len' = len + 1 /\ llen' = llen + 1
      /\ length' = Accumulate(length, llen', Digit(n, llen'))
      /\ phase' = IF ~LastDigit(n, llen') THEN "digits" ELSE IF IsPublish THEN "topic" ELSE "body"
      /\ UNCHANGED <<session, queue, buf, handed, msgId, acked, out, broken>>
  BY DEF ReadDigit, appVars
<1>2. /\ queue # <<>> /\ buf = p /\ p \in Sent /\ llen \in 0..d /\ read = len /\ len = 1 + llen
      /\ llen < d /\ (Small(p) => length = n % Power[llen + 1])
  BY <1>1 DEF FramingInv, Reading, InPacket
<1>3. n \in Nat /\ d \in 1..4 /\ Size(p) \in Nat /\ (Small(p) => n < WordSpace)
  <2>1. n \in Nat /\ d \in 1..4 /\ Size(p) \in Nat /\ Size(p) = 1 + d + n
    BY <1>2, PacketFacts DEF Size
  <2> HIDE DEF n, d, p
  <2> QED  BY <2>1, SizeAssumption DEF Small
<1>4. llen' \in 1..4 /\ llen' <= d /\ llen' = llen + 1 /\ len' \in 0..7 /\ read' = len' /\ len' = 1 + llen'
  <2> HIDE DEF n, d, p
  <2> QED  BY <1>1, <1>2, <1>3
<1>5. Digit(n, llen') \in Nat /\ Power[llen'] \in Nat \ {0} /\ Power[llen' + 1] \in Nat \ {0}
  <2>1. llen' \in 1..5 /\ llen' + 1 \in 1..5
    BY <1>4
  <2>2. Power[llen'] \in Nat \ {0} /\ Power[llen' + 1] \in Nat \ {0}
    BY <2>1, PowerFacts
  <2> QED  BY <1>3, <2>2 DEF Digit
<1>6. length' \in 0..(WordSpace - 1)
  <2>1. Digit(n, llen') * Power[llen'] \in Nat
    BY <1>5
  <2>2. length + Digit(n, llen') * Power[llen'] \in Nat
    BY <2>1 DEF FramingInv, TypeOK
  <2> QED  BY <1>1, <2>2, SizeAssumption DEF Accumulate
<1>7. Small(p) => length' = n % Power[llen' + 1]
  <2> SUFFICES ASSUME Small(p) PROVE length' = n % Power[llen' + 1]
    OBVIOUS
  <2>1. (n % Power[llen']) + (Digit(n, llen') * Power[llen']) = n % Power[llen' + 1]
    BY <1>3, <1>4, DigitSum
  <2>2. length = n % Power[llen']
    BY <1>2, <1>4
  <2>3. n % Power[llen' + 1] \in 0..n
    BY <1>3, <1>5, ModFacts
  <2>4. length' = (n % Power[llen' + 1]) % WordSpace
    BY <1>1, <2>1, <2>2 DEF Accumulate
  <2>5. \A m \in 0..n : m % WordSpace = m
    BY <1>3, SizeAssumption
  <2> QED  BY <2>3, <2>4, <2>5
<1>8. /\ phase' = "digits" => llen' < d
      /\ phase' # "digits" => llen' = d /\ phase' = IF p.kind = "publish" THEN "topic" ELSE "body"
      /\ phase' \in {"digits", "topic", "body"}
  <2>1. LastDigit(n, llen') <=> llen' >= d
    BY <1>3, <1>4 DEF LastDigit, More
  <2> QED  BY <1>1, <1>2, <1>3, <1>4, <2>1 DEF IsPublish
<1>9. TypeOK'
  BY <1>1, <1>4, <1>6, <1>8 DEF FramingInv, TypeOK
<1>10. Reading'
  <2>1. Head(queue') = p
    BY <1>1
  <2> HIDE DEF n, d, p
  <2> QED  BY <1>1, <1>2, <1>3, <1>4, <1>7, <1>8, <2>1 DEF Reading, InPacket, n, d
<1>11. Places' /\ Kept4Ack' /\ InStep' /\ MessageWhole'
  BY <1>1, <1>8 DEF FramingInv, Places, Kept4Ack, InStep, MessageWhole
<1> QED  BY <1>9, <1>10, <1>11 DEF FramingInv

\* The length of the topic is read.
LEMMA TopicStep == FramingInv /\ ReadTopicLength => FramingInv'
<1> SUFFICES ASSUME FramingInv, ReadTopicLength PROVE FramingInv'
  OBVIOUS
<1> DEFINE p == Head(queue)
<1>1. /\ phase = "topic" /\ read' = read + 2 /\ len' = len + 2 /\ phase' = "body"
      /\ UNCHANGED <<session, queue, llen, length, buf, handed, msgId, acked, out, broken>>
  BY DEF ReadTopicLength, appVars
<1>2. /\ queue # <<>> /\ buf = p /\ p \in Sent /\ llen \in 0..DigitCount(RemLen(p))
      /\ read = len /\ len = 1 + llen /\ llen = DigitCount(RemLen(p)) /\ p.kind = "publish"
      /\ (Small(p) => length = RemLen(p) % Power[llen + 1])
  BY <1>1 DEF FramingInv, Reading, InPacket
<1>3. llen \in 0..4 /\ len \in 0..7
  BY DEF FramingInv, TypeOK
<1>4. read' = len' /\ len' = 1 + llen' + 2 /\ len' \in 0..7 /\ read' \in Nat
  BY <1>1, <1>2, <1>3
<1>5. TypeOK'
  BY <1>1, <1>4 DEF FramingInv, TypeOK
<1>6. Reading'
  <2>1. Head(queue') = p
    BY <1>1
  <2> HIDE DEF p
  <2> QED  BY <1>1, <1>2, <1>4, <2>1 DEF Reading, InPacket
<1>7. Places' /\ Kept4Ack' /\ InStep' /\ MessageWhole'
  BY <1>1 DEF FramingInv, Places, Kept4Ack, InStep, MessageWhole
<1> QED  BY <1>5, <1>6, <1>7 DEF FramingInv

\* A publish goes to the callback: as much of it as was counted.
LEMMA PublishStep == FramingInv /\ ReadPublish => FramingInv'
<1> SUFFICES ASSUME FramingInv, ReadPublish PROVE FramingInv'
  OBVIOUS
<1> DEFINE p == Head(queue)
<1>1. /\ phase = "body" /\ session = "up" /\ Kept /\ IsPublish /\ AfterRead
      /\ phase' = "callback" /\ handed' = Callback
      /\ msgId' = IF buf.qos = 1 THEN buf.id ELSE 0
      /\ llen' = 0 /\ length' = 0 /\ len' = 0
      /\ UNCHANGED <<session, buf, acked, out>>
  BY DEF ReadPublish, LocalsGone
<1>2. TypeOK /\ Reading
  BY DEF FramingInv
<1>3. /\ BodyBytes \in Nat /\ Total \in Nat /\ buf = p /\ p \in Sent
  BY <1>1, <1>2, CountTypes
<1>4. /\ queue' \in Seq(Sent) /\ read' \in Nat /\ broken' \in {broken, "word"}
      /\ broken' = "none" => Small(p) /\ read' = 0
  BY <1>1, <1>2, AfterReadFacts
<1>5. /\ p \in Incoming /\ p.qos \in 0..1 /\ p.id \in Nat /\ p.topic \in Nat /\ p.payload \in Nat
      /\ RemLen(p) = 2 + p.topic + 2 * p.qos + p.payload
      /\ DigitCount(RemLen(p)) \in 1..4
  BY <1>1, <1>3, PacketFacts DEF IsPublish, RemLen
<1>6. /\ handed'.packet = p /\ handed'.topicAt = llen + 3
      /\ handed'.payloadAt = llen + 3 + p.topic + 2 * p.qos
      /\ handed'.length = Total - handed'.payloadAt
      /\ DOMAIN handed' = {"packet", "topicAt", "payloadAt", "length"}
      /\ handed' = [packet |-> p, topicAt |-> llen + 3, payloadAt |-> llen + 3 + p.topic + 2 * p.qos,
                    length |-> Total - (llen + 3 + p.topic + 2 * p.qos)]
  BY <1>1, <1>3 DEF Callback, TopicAt, PayloadAt, IdBytes
<1>7. handed' \in [packet : Incoming \cup {None}, topicAt : Nat, payloadAt : Nat, length : Int]
  <2>1. llen \in Nat
    BY <1>2 DEF TypeOK
  <2>2. llen + 3 \in Nat /\ llen + 3 + p.topic + 2 * p.qos \in Nat
        /\ Total - (llen + 3 + p.topic + 2 * p.qos) \in Int
    BY <1>3, <1>5, <2>1
  <2> QED  BY <1>5, <1>6, <2>2
<1>8. msgId' \in Nat
  BY <1>1, <1>3, <1>5
<1>9. TypeOK'
  BY <1>1, <1>2, <1>4, <1>7, <1>8, SizeAssumption DEF TypeOK, Sent
<1>10. MessageWhole'
  <2> SUFFICES ASSUME broken' = "none"
               PROVE  /\ handed'.topicAt + p.topic + 2 * p.qos = handed'.payloadAt
                      /\ handed'.length = p.payload
                      /\ handed'.payloadAt + handed'.length = Size(p)
                      /\ Size(p) <= MaxPacket
    BY <1>6 DEF MessageWhole
  <2>1. Total = Size(p) /\ Size(p) \in Nat
    BY <1>1, <1>2, <1>4, BodyFacts
  <2>2. llen = DigitCount(RemLen(p)) /\ llen \in Nat
    BY <1>1, <1>2 DEF Reading, InPacket, TypeOK
  <2>3. Size(p) = 1 + llen + (2 + p.topic + 2 * p.qos + p.payload)
    BY <1>5, <2>2 DEF Size
  <2>4. Size(p) <= MaxPacket
    BY <1>1, <2>1 DEF Kept
  <2> HIDE DEF p
  <2>5. handed'.length = p.payload
    BY <1>5, <1>6, <2>1, <2>2, <2>3
  <2>6. handed'.payloadAt + handed'.length = Size(p)
    BY <1>5, <1>6, <2>2, <2>3, <2>5
  <2> QED  BY <1>5, <1>6, <2>2, <2>4, <2>5, <2>6
<1>11. Reading' /\ Places' /\ InStep'
  BY <1>1, <1>4 DEF Reading, InPacket, Places, InStep
<1>12. Kept4Ack'
  BY <1>1, <1>3, <1>6 DEF Kept4Ack
<1> QED  BY <1>9, <1>10, <1>11, <1>12 DEF FramingInv

\* Between two packets the reader has nothing to say.
LEMMA IdleFacts ==
    ASSUME phase' = "idle", broken' = "none" => read' = 0, handed' = Nothing,
           session' = "down" => queue' = <<>> /\ read' = 0,
           session' = "connecting" => (queue' # <<>> => Head(queue') \in Connacks)
    PROVE  Reading' /\ Places' /\ Kept4Ack' /\ InStep' /\ MessageWhole'
  BY DEF Reading, InPacket, Places, Kept4Ack, InStep, MessageWhole

\* A packet that is no publish for the application is read to its end.
LEMMA OtherStep == FramingInv /\ ReadOther => FramingInv'
<1> SUFFICES ASSUME FramingInv, ReadOther PROVE FramingInv'
  OBVIOUS
<1>1. /\ phase = "body" /\ session = "up" /\ AfterRead /\ phase' = "idle" /\ buf' = None
      /\ llen' = 0 /\ length' = 0 /\ len' = 0
      /\ UNCHANGED <<session, handed, msgId, acked, out>>
  BY DEF ReadOther, LocalsGone, appVars
<1>2. TypeOK /\ Reading /\ Places
  BY DEF FramingInv
<1>3. /\ queue' \in Seq(Sent) /\ read' \in Nat /\ broken' \in {broken, "word"}
      /\ broken' = "none" => read' = 0
  BY <1>1, <1>2, AfterReadFacts
<1>4. TypeOK'
  BY <1>1, <1>2, <1>3, SizeAssumption DEF TypeOK, Sent
<1>5. handed' = Nothing
  BY <1>1, <1>2 DEF Places
<1> QED  BY <1>1, <1>3, <1>4, <1>5, IdleFacts DEF FramingInv

\* The CONNACK opens the session or ends the attempt.
LEMMA ConnackStep == FramingInv /\ ReadConnack => FramingInv'
<1> SUFFICES ASSUME FramingInv, ReadConnack PROVE FramingInv'
  OBVIOUS
<1>1. /\ phase = "body" /\ session = "connecting" /\ phase' = "idle" /\ buf' = None
      /\ llen' = 0 /\ length' = 0 /\ len' = 0
      /\ UNCHANGED <<handed, msgId, acked, out>>
  BY DEF ReadConnack, LocalsGone, appVars
<1>2. TypeOK /\ Reading /\ Places /\ handed' = Nothing
  BY <1>1 DEF FramingInv, Places
<1>3. CASE session' = "up" /\ AfterRead
  <2>1. /\ queue' \in Seq(Sent) /\ read' \in Nat /\ broken' \in {broken, "word"}
        /\ broken' = "none" => read' = 0
    BY <1>1, <1>2, <1>3, AfterReadFacts
  <2>2. TypeOK'
    BY <1>1, <1>2, <1>3, <2>1, SizeAssumption DEF TypeOK, Sent
  <2> QED  BY <1>1, <1>2, <1>3, <2>1, <2>2, IdleFacts DEF FramingInv
<1>4. CASE session' = "down" /\ Forget /\ UNCHANGED broken
  <2>1. queue' = <<>> /\ read' = 0 /\ queue' \in Seq(Sent)
    BY <1>4, EmptySeq DEF Forget
  <2>2. TypeOK'
    BY <1>1, <1>2, <1>4, <2>1, SizeAssumption DEF TypeOK, Sent
  <2> QED  BY <1>1, <1>2, <1>4, <2>1, <2>2, IdleFacts DEF FramingInv
<1> QED  BY <1>3, <1>4 DEF ReadConnack

\* A stall ends the attempt to connect, or loses the framing.
LEMMA StallStep == FramingInv /\ Stall => FramingInv'
<1> SUFFICES ASSUME FramingInv, Stall PROVE FramingInv'
  OBVIOUS
<1>1. /\ InPacket /\ phase' = "idle" /\ buf' = None
      /\ llen' = 0 /\ length' = 0 /\ len' = 0
      /\ UNCHANGED <<handed, msgId, acked, out>>
  BY DEF Stall, LocalsGone, appVars, InPacket
<1>2. TypeOK /\ Places /\ handed' = Nothing
  BY <1>1 DEF FramingInv, Places, InPacket
<1>3. CASE session = "connecting"
  <2>1. session' = "down" /\ queue' = <<>> /\ read' = 0 /\ queue' \in Seq(Sent) /\ UNCHANGED broken
    BY <1>3, EmptySeq DEF Stall, Forget
  <2>2. TypeOK'
    BY <1>1, <1>2, <2>1, SizeAssumption DEF TypeOK, Sent
  <2> QED  BY <1>1, <1>2, <2>1, <2>2, IdleFacts DEF FramingInv
<1>4. CASE session # "connecting"
  <2>1. /\ broken' = "stall" /\ UNCHANGED <<session, queue>>
        /\ \E k \in StallPoints : read' = read + k
    BY <1>4 DEF Stall
  <2>2. read' \in Nat
    BY <1>2, <2>1, StallAssumption DEF TypeOK
  <2>3. TypeOK'
    BY <1>1, <1>2, <2>1, <2>2, SizeAssumption DEF TypeOK
  <2>4. session' # "down"
    BY <1>1, <2>1 DEF FramingInv, Places, InPacket
  <2> QED  BY <1>1, <1>2, <1>4, <2>1, <2>3, <2>4, IdleFacts DEF FramingInv
<1> QED  BY <1>3, <1>4

\* In a session that has lost its framing anything may be read.
LEMMA MisreadStep == FramingInv /\ Misread => FramingInv'
<1> SUFFICES ASSUME FramingInv, Misread PROVE FramingInv'
  OBVIOUS
<1>1. PICK n \in 0..Len(queue), r \in StallPoints :
         queue' = SubSeq(queue, n + 1, Len(queue)) /\ read' = r
  BY DEF Misread
<1>2. /\ session = "up" /\ phase = "idle" /\ read # 0 /\ phase' \in {"idle", "callback"}
      /\ UNCHANGED <<session, llen, length, len, buf, handed, msgId, acked, out, broken>>
  BY DEF Misread, readVars, appVars
<1>3. queue \in Seq(Sent) /\ Len(queue) \in Nat
  BY DEF FramingInv, TypeOK, Sent
<1>4. queue' \in Seq(Sent)
  <2>1. \A i \in (n + 1)..Len(queue) : queue[i] \in Sent
    BY <1>3
  <2> QED  BY <1>1, <1>3, <2>1, SubSeqProperties
<1>5. TypeOK'
  BY <1>1, <1>2, <1>4, StallAssumption DEF FramingInv, TypeOK, Sent
<1>6. broken' # "none" /\ handed' = Nothing
  BY <1>2 DEF FramingInv, InStep, Places
<1>7. Nothing.packet = None
  BY DEF Nothing
<1> QED
  BY <1>2, <1>5, <1>6, <1>7 DEF FramingInv, Reading, InPacket, Places, Kept4Ack, InStep, MessageWhole

\* The callback is over.
LEMMA CallbackStep == FramingInv /\ CallbackReturns => FramingInv'
<1> SUFFICES ASSUME FramingInv, CallbackReturns PROVE FramingInv'
  OBVIOUS
<1>1. /\ phase = "callback" /\ phase' = "idle" /\ buf' = None
      /\ acked' = IF handed.packet # None /\ handed.packet.qos = 1 THEN msgId ELSE 0
      /\ handed' = Nothing /\ msgId' = 0 /\ out' = None
      /\ UNCHANGED <<session, queue, read, llen, length, len, broken>>
  BY DEF CallbackReturns, AckId, streamVars, readVars
<1>2. acked' \in Nat
  BY <1>1 DEF FramingInv, TypeOK
<1>3. Nothing \in [packet : Incoming \cup {None}, topicAt : Nat, payloadAt : Nat, length : Int]
  BY DEF Nothing
<1>4. TypeOK'
  BY <1>1, <1>2, <1>3 DEF FramingInv, TypeOK
<1>5. broken' = "none" => read' = 0
  BY <1>1 DEF FramingInv, InStep
<1>6. session # "down" /\ session # "connecting"
  BY <1>1 DEF FramingInv, Places
<1> QED  BY <1>1, <1>4, <1>5, <1>6, IdleFacts DEF FramingInv

-----------------------------------------------------------------------------
(* Steps of the writer, the broker and the network. *)

\* Where a packet ends is a number, and there is room for its header.
LEMMA EndFacts ==
    /\ \A t \in PubTopics, n \in PubPayloads : PublishEnd(t, n) \in Nat /\ PublishEnd(t, n) >= 5
    /\ \A t \in SubTopics : /\ SubscribeEnd(t) \in Nat /\ SubscribeEnd(t) >= 5
                            /\ UnsubscribeEnd(t) \in Nat /\ UnsubscribeEnd(t) >= 5
    /\ \A id \in Ids, user \in Keys, pass \in Keys :
          ConnectEnd(id, user, pass) \in Nat /\ ConnectEnd(id, user, pass) >= 5
  BY LengthAssumption DEF PublishEnd, SubscribeEnd, UnsubscribeEnd, ConnectEnd, AfterString

Packets == [kind : {"publish", "subscribe", "unsubscribe", "connect"},
            first : Nat, digits : Seq(Nat), end : Nat]

\* Whatever is written overwrites the packet read before.
LEMMA WriteTypes ==
    ASSUME NEW kind \in {"publish", "subscribe", "unsubscribe", "connect"},
           NEW end \in Nat, 5 <= end, Write(kind, end)
    PROVE  buf' = None /\ out' \in Packets
<1> DEFINE digits == LenBuf(end - 5)
<1>1. digits \in Seq(Nat) /\ Len(digits) \in 1..3
  <2>1. end - 5 \in Nat
    OBVIOUS
  <2> QED  BY <2>1, LenBufTypes
<1>2. /\ buf' = None
      /\ out' = [kind |-> kind, first |-> 4 - Len(digits), digits |-> digits, end |-> end]
  BY DEF Write
<1> HIDE DEF digits
<1>3. \A l \in 1..3 : 4 - l \in Nat
  OBVIOUS
<1>4. 4 - Len(digits) \in Nat
  BY <1>1, <1>3
<1> QED  BY <1>1, <1>2, <1>4, Zenon DEF Packets

\* A packet whose end is in the buffer is written so that it can be read.
LEMMA WriteFramed ==
    ASSUME NEW kind \in {"publish", "subscribe", "unsubscribe", "connect"},
           NEW end \in Nat, 5 <= end, end <= MaxPacket, Write(kind, end)
    PROVE  OutgoingFramed'
<1> DEFINE digits == LenBuf(end - 5)
<1>1. end - 5 \in Nat /\ end - 5 < 2097152
  BY SizeAssumption
<1>2. /\ digits \in Seq(Nat) /\ Len(digits) \in 1..3
      /\ \A j \in DOMAIN digits : digits[j] >= 128 <=> j < Len(digits)
      /\ ValueOf(digits) = end - 5
  BY <1>1, LenBufFacts
<1>3. out' = [kind |-> kind, first |-> 4 - Len(digits), digits |-> digits, end |-> end]
  BY DEF Write
<1> HIDE DEF digits
<1>4. /\ out'.first = 4 - Len(digits) /\ out'.digits = digits /\ out'.end = end
      /\ out'.first >= 0
  BY <1>2, <1>3
<1>5. ValueOf(out'.digits) = out'.end - (out'.first + 1 + Len(out'.digits))
  BY <1>2, <1>4
<1> QED  BY <1>2, <1>4, <1>5 DEF OutgoingFramed

\* What the application and the libraries ask to be sent fits the buffer: the
\* topics subscribed leave one byte more than subscribe() asks for, and the
\* strings of connect(), which asks nothing.
RequestsFit ==
    /\ \A t \in SubTopics : SubscribeEnd(t) <= MaxPacket
    /\ \A id \in Ids, user \in Keys, pass \in Keys : ConnectEnd(id, user, pass) <= MaxPacket

\* publish() refuses what does not fit, subscribe() and connect() are not asked for it.
LEMMA FitFacts ==
    ASSUME RequestsFit
    PROVE  /\ \A t \in PubTopics, n \in PubPayloads :
                 PublishFits(t, n) => PublishEnd(t, n) <= MaxPacket
           /\ \A t \in SubTopics : SubscribeEnd(t) <= MaxPacket /\ UnsubscribeEnd(t) <= MaxPacket
<1>1. \A t \in PubTopics, n \in PubPayloads : PublishFits(t, n) => PublishEnd(t, n) <= MaxPacket
  BY LengthAssumption, SizeAssumption DEF PublishFits, PublishEnd, AfterString
<1>2. \A t \in SubTopics : UnsubscribeEnd(t) <= SubscribeEnd(t)
  BY LengthAssumption DEF SubscribeEnd, UnsubscribeEnd, AfterString
<1>3. \A t \in SubTopics : SubscribeEnd(t) \in Nat /\ UnsubscribeEnd(t) \in Nat
  BY EndFacts
<1> QED  BY <1>1, <1>2, <1>3, SizeAssumption DEF RequestsFit

\* A packet is sent out of the packet buffer: the reader is at no packet then.
LEMMA SendStep == FramingInv /\ (Publish \/ Subscribe) => FramingInv'
<1> SUFFICES ASSUME FramingInv, Publish \/ Subscribe PROVE FramingInv'
  OBVIOUS
<1>1. /\ ~InPacket /\ UNCHANGED <<session, streamVars, phase, readVars, handed, msgId, acked, broken>>
  BY DEF Publish, Subscribe, CanSend, InPacket, appVars
<1>2. PICK kind \in {"publish", "subscribe", "unsubscribe", "connect"}, end \in Nat :
         5 <= end /\ Write(kind, end)
  BY EndFacts DEF Publish, Subscribe
<1>3. buf' = None /\ out' \in Packets
  BY <1>2, WriteTypes
<1>4. TypeOK'
  BY <1>1, <1>3 DEF FramingInv, TypeOK, Packets, streamVars, readVars
<1>5. Reading' /\ Places' /\ Kept4Ack' /\ InStep' /\ MessageWhole'
  BY <1>1, ReaderKept
<1> QED  BY <1>4, <1>5 DEF FramingInv

\* A new connection begins in step.
LEMMA ConnectStep == FramingInv /\ Connect => FramingInv'
<1> SUFFICES ASSUME FramingInv, Connect PROVE FramingInv'
  OBVIOUS
<1>1. /\ session = "down" /\ phase = "idle" /\ session' = "connecting" /\ broken' = "none"
      /\ UNCHANGED <<queue, read, phase, llen, length, len, handed, msgId, acked>>
  BY DEF Connect, streamVars, readVars, appVars
<1>2. PICK kind \in {"publish", "subscribe", "unsubscribe", "connect"}, end \in Nat :
         5 <= end /\ Write(kind, end)
  BY EndFacts DEF Connect
<1>3. buf' = None /\ out' \in Packets
  BY <1>2, WriteTypes
<1>4. TypeOK'
  BY <1>1, <1>3 DEF FramingInv, TypeOK, Packets
<1>5. queue' = <<>> /\ read' = 0 /\ handed' = Nothing
  BY <1>1 DEF FramingInv, Places
<1> QED  BY <1>1, <1>4, <1>5, IdleFacts DEF FramingInv

\* The broker appends to the stream what the reader does not see yet.
LEMMA BrokerStep == FramingInv /\ (BrokerAccepts \/ BrokerSends) => FramingInv'
<1> SUFFICES ASSUME FramingInv, BrokerAccepts \/ BrokerSends PROVE FramingInv'
  OBVIOUS
<1>1. UNCHANGED <<session, read, phase, llen, length, len, buf, handed, msgId, acked, out, broken>>
  BY DEF BrokerAccepts, BrokerSends, readVars, appVars
<1>2. queue \in Seq(Sent)
  BY DEF FramingInv, TypeOK, Sent
<1>3. CASE BrokerAccepts
  <2>1. PICK p \in Connacks : queue' = <<p>> /\ queue = <<>> /\ session = "connecting"
    BY <1>3 DEF BrokerAccepts
  <2>2. queue' \in Seq(Sent) /\ Head(queue') = p
    BY <2>1 DEF Sent
  <2>3. ~InPacket /\ phase = "idle"
    BY <2>1 DEF FramingInv, Reading, Places, InPacket, TypeOK
  <2>4. TypeOK'
    BY <1>1, <2>2 DEF FramingInv, TypeOK, Sent
  <2>5. broken' = "none" => read' = 0
    BY <1>1, <2>3 DEF FramingInv, InStep
  <2>6. handed' = Nothing
    BY <1>1, <2>3 DEF FramingInv, Places
  <2> QED  BY <1>1, <2>1, <2>2, <2>3, <2>4, <2>5, <2>6, IdleFacts DEF FramingInv
<1>4. CASE BrokerSends
  <2>1. PICK p \in Incoming : queue' = Append(queue, p) /\ session = "up"
    BY <1>4 DEF BrokerSends
  <2>2. p \in Sent
    BY DEF Sent
  <2>3. queue' \in Seq(Sent) /\ queue' # <<>> /\ (queue # <<>> => Head(queue') = Head(queue))
    BY <1>2, <2>1, <2>2, AppendProperties, HeadTailAppend
  <2>4. TypeOK'
    BY <1>1, <2>3 DEF FramingInv, TypeOK, Sent
  <2>5. Reading'
    BY <1>1, <2>3 DEF FramingInv, Reading, InPacket, Small
  <2>6. Places' /\ Kept4Ack' /\ InStep' /\ MessageWhole'
    BY <1>1, <2>1 DEF FramingInv, Places, Kept4Ack, InStep, MessageWhole
  <2> QED  BY <2>4, <2>5, <2>6 DEF FramingInv
<1> QED  BY <1>3, <1>4

\* The connection is lost with all that was on its way.
LEMMA EndStep == FramingInv /\ SessionEnds => FramingInv'
<1> SUFFICES ASSUME FramingInv, SessionEnds PROVE FramingInv'
  OBVIOUS
<1>1. /\ session' = "down" /\ queue' = <<>> /\ read' = 0 /\ acked' = 0 /\ out' = None
      /\ phase = "idle" /\ UNCHANGED <<phase, llen, length, len, buf, handed, msgId, broken>>
  BY DEF SessionEnds, Forget, readVars
<1>2. TypeOK'
  BY <1>1, EmptySeq DEF FramingInv, TypeOK
<1>3. handed' = Nothing
  BY <1>1 DEF FramingInv, Places
<1> QED  BY <1>1, <1>2, <1>3, IdleFacts DEF FramingInv

\* Every step keeps the invariant.
LEMMA FramingStep == FramingInv /\ [Next]_vars => FramingInv'
<1> SUFFICES ASSUME FramingInv, [Next]_vars PROVE FramingInv'
  OBVIOUS
<1>1. CASE Publish \/ Subscribe \/ Connect
  BY <1>1, SendStep, ConnectStep
<1>2. CASE ReadHeader \/ ReadDigit \/ ReadTopicLength
  BY <1>2, HeaderStep, DigitStep, TopicStep
<1>3. CASE ReadPublish \/ ReadOther \/ ReadConnack \/ Stall \/ Misread \/ CallbackReturns
  BY <1>3, PublishStep, OtherStep, ConnackStep, StallStep, MisreadStep, CallbackStep
<1>4. CASE BrokerAccepts \/ BrokerSends \/ SessionEnds
  BY <1>4, BrokerStep, EndStep
<1>5. CASE UNCHANGED vars
  <2>1. UNCHANGED <<session, streamVars, phase, readVars, buf, handed, msgId, acked, out, broken>>
    BY <1>5 DEF vars, appVars
  <2>2. TypeOK'
    BY <2>1 DEF FramingInv, TypeOK, streamVars, readVars
  <2> QED  BY <2>1, <2>2, ReaderKept DEF FramingInv
<1> QED  BY <1>1, <1>2, <1>3, <1>4, <1>5 DEF Next

\* What is written can be read, and only the three writers write.
LEMMA OutStep ==
    ASSUME RequestsFit, OutgoingFramed, [Next]_vars
    PROVE  OutgoingFramed'
<1>1. CASE Publish \/ Subscribe \/ Connect
  <2>1. PICK kind \in {"publish", "subscribe", "unsubscribe", "connect"}, end \in Nat :
           5 <= end /\ end <= MaxPacket /\ Write(kind, end)
    BY <1>1, EndFacts, FitFacts DEF Publish, Subscribe, Connect, RequestsFit
  <2> QED  BY <2>1, WriteFramed
<1>2. CASE ReadHeader \/ ReadDigit \/ ReadTopicLength \/ ReadPublish \/ ReadOther \/ ReadConnack
  <2>1. out' \in {out, None}
    BY <1>2 DEF ReadHeader, ReadDigit, ReadTopicLength, ReadPublish, ReadOther, ReadConnack
  <2> QED  BY <2>1 DEF OutgoingFramed
<1>3. CASE Stall \/ Misread \/ CallbackReturns \/ BrokerAccepts \/ BrokerSends \/ SessionEnds
  <2>1. out' \in {out, None}
    BY <1>3 DEF Stall, Misread, CallbackReturns, BrokerAccepts, BrokerSends, SessionEnds
  <2> QED  BY <2>1 DEF OutgoingFramed
<1>4. CASE UNCHANGED vars
  BY <1>4 DEF vars, OutgoingFramed
<1> QED  BY <1>1, <1>2, <1>3, <1>4 DEF Next

-----------------------------------------------------------------------------
(* What holds of every run. *)

\* The invariant of the reader holds in every reachable state.
THEOREM FramingInvariance == Spec => []FramingInv
<1> QED  BY InitFraming, FramingStep, PTL DEF Spec

\* No count of the reader leaves its width, for packets of any length.
THEOREM FramingTypeCorrect == Spec => []TypeOK
  BY FramingInvariance, PTL DEF FramingInv

\* Only a stall or a packet beyond 16 bits loses the framing, for packets of
\* any length in any order.
THEOREM InStepHolds == Spec => []InStep
  BY FramingInvariance, PTL DEF FramingInv

\* The callback gets topic and payload of a message as the broker sent them,
\* whatever their lengths.
THEOREM MessageWholeHolds == Spec => []MessageWhole
  BY FramingInvariance, PTL DEF FramingInv

\* A broker can read whatever packet the client writes: publish() needs nothing
\* for it, subscribe() and connect() need RequestsFit.
THEOREM OutgoingFramedHolds == RequestsFit => (Spec => []OutgoingFramed)
<1> SUFFICES ASSUME RequestsFit PROVE Spec => []OutgoingFramed
  OBVIOUS
<1>1. Init => OutgoingFramed
  BY DEF Init, OutgoingFramed
<1>2. OutgoingFramed /\ [Next]_vars => OutgoingFramed'
  BY OutStep
<1> QED  BY <1>1, <1>2, PTL DEF Spec

\* A PUBACK names the message whose callback has returned, whatever the
\* callback published in between.
THEOREM AckNamesMessageHolds == Spec => AckNamesMessage
<1>1. FramingInv /\ [Next]_vars =>
         [CallbackReturns /\ handed.packet # None /\ handed.packet.qos = 1 =>
              acked' = handed.packet.id]_vars
  BY DEF FramingInv, Kept4Ack, CallbackReturns, AckId
<1> QED  BY <1>1, FramingInvariance, PTL DEF Spec, AckNamesMessage

-----------------------------------------------------------------------------
(* The client as a channel. *)

\* The end of a packet, as the channel has it: delivered, passed over, or the
\* framing is lost.
LEMMA ChannelReads ==
    ASSUME FramingInv, ReadPublish \/ ReadOther \/ ReadConnack
    PROVE  [Channel!Next]_(Channel!vars)
<1> DEFINE p == Head(queue)
           Deliverable == {q \in Incoming : q.kind = "publish" /\ Size(q) <= MaxPacket}
<1>1. TypeOK /\ Reading /\ phase = "body"
  BY DEF FramingInv, ReadPublish, ReadOther, ReadConnack
<1>2. buf = p /\ p \in Sent /\ queue # <<>> /\ handed = Nothing
  BY <1>1, CountTypes DEF FramingInv, Places
<1>3. Nothing.packet = None
  BY DEF Nothing
<1>4. CASE AfterRead
  <2>1. /\ broken' \in {broken, "word"}
        /\ Small(p) => read' = 0 /\ queue' = Tail(queue) /\ broken' = broken
        /\ ~Small(p) => broken' = "word"
    BY <1>1, <1>4, AfterReadFacts
  <2>2. CASE broken' # "none"
    BY <2>1, <2>2 DEF Channel!Next, Channel!LoseFraming, Channel!Garble
  <2>3. CASE broken' = "none"
    <3>1. Small(p) /\ broken = "none" /\ queue' = Tail(queue)
      BY <2>1, <2>3
    <3>2. Total = Size(p) /\ Size(p) \in Nat \ {0}
      BY <1>1, <3>1, BodyFacts
    <3>3. CASE ReadPublish
      <4>1. p \in Deliverable
        BY <1>2, <3>2, <3>3, PacketFacts DEF ReadPublish, Kept, IsPublish
      <4>2. handed'.packet = p
        BY <1>2, <3>3 DEF ReadPublish, Callback
      <4> QED
        BY <1>2, <1>3, <2>3, <3>1, <4>1, <4>2 DEF Channel!Next, Channel!Deliver
    <3>4. CASE ~ReadPublish
      <4>1. handed' = handed
        BY <3>4 DEF ReadOther, ReadConnack, appVars
      <4>2. p \notin Deliverable
        <5>1. CASE ReadOther
          BY <1>2, <3>2, <5>1 DEF ReadOther, Kept, IsPublish
        <5>2. CASE ReadConnack
          BY <1>2, <5>2 DEF FramingInv, Places, ReadConnack, Connacks
        <5> QED  BY <3>4, <5>1, <5>2
      <4> QED
        BY <1>2, <2>3, <3>1, <4>1, <4>2 DEF Channel!Next, Channel!PassOver
    <3> QED  BY <3>3, <3>4
  <2> QED  BY <2>2, <2>3
<1>5. CASE ~AfterRead
  <2>1. queue' = <<>> /\ broken' = broken /\ handed' = handed
    BY <1>5 DEF ReadPublish, ReadOther, ReadConnack, Forget, appVars
  <2> QED  BY <2>1 DEF Channel!Next, Channel!Replace, Channel!Garble
<1> QED  BY <1>4, <1>5

\* Every step of the client is one of the channel's or a stutter.
LEMMA ChannelStep == FramingInv /\ [Next]_vars => [Channel!Next]_(Channel!vars)
<1> SUFFICES ASSUME FramingInv, [Next]_vars PROVE [Channel!Next]_(Channel!vars)
  OBVIOUS
<1>1. CASE ReadPublish \/ ReadOther \/ ReadConnack
  BY <1>1, ChannelReads
<1>2. CASE Publish \/ Subscribe \/ ReadHeader \/ ReadDigit \/ ReadTopicLength \/ UNCHANGED vars
  <2>1. UNCHANGED <<queue, handed, broken>>
    BY <1>2 DEF Publish, Subscribe, ReadHeader, ReadDigit, ReadTopicLength, vars, streamVars, appVars
  <2> QED  BY <2>1 DEF Channel!vars
<1>3. CASE Connect
  <2>1. queue' = <<>> /\ broken' = "none" /\ handed' = handed
    BY <1>3 DEF FramingInv, Places, Connect, streamVars, appVars
  <2> QED  BY <2>1 DEF Channel!Next, Channel!Replace
<1>4. CASE Stall
  <2>1. handed' = handed
    BY <1>4 DEF Stall, appVars
  <2>2. CASE broken' = "stall"
    BY <2>2 DEF Channel!Next, Channel!LoseFraming, Channel!Garble
  <2>3. CASE broken' # "stall"
    <3>1. queue' = <<>> /\ broken' = broken
      BY <1>4, <2>3 DEF Stall, Forget
    <3> QED  BY <2>1, <3>1 DEF Channel!Next, Channel!Replace, Channel!Garble
  <2> QED  BY <2>2, <2>3
<1>5. CASE Misread
  <2>1. broken # "none" /\ broken' = broken
    BY <1>5 DEF FramingInv, InStep, Misread
  <2> QED  BY <2>1 DEF Channel!Next, Channel!Garble
<1>6. CASE CallbackReturns
  <2>1. handed'.packet = None /\ UNCHANGED <<queue, broken>>
    BY <1>6 DEF CallbackReturns, Nothing, streamVars
  <2> QED  BY <2>1 DEF Channel!Next, Channel!Handled, Channel!vars
<1>7. CASE BrokerAccepts \/ BrokerSends
  <2>1. PICK p \in Sent : queue' = Append(queue, p)
    <3>1. \A p : Append(<<>>, p) = <<p>>
      OBVIOUS
    <3> QED  BY <1>7, <3>1 DEF BrokerAccepts, BrokerSends, Sent
  <2>2. UNCHANGED <<handed, broken>>
    BY <1>7 DEF BrokerAccepts, BrokerSends, appVars
  <2> QED  BY <2>1, <2>2 DEF Channel!Next, Channel!Send, Channel!Garble, Sent
<1>8. CASE SessionEnds
  <2>1. queue' = <<>> /\ UNCHANGED <<handed, broken>>
    BY <1>8 DEF SessionEnds, Forget
  <2> QED  BY <2>1 DEF Channel!Next, Channel!Replace, Channel!Garble
<1> QED  BY <1>1, <1>2, <1>3, <1>4, <1>5, <1>6, <1>7, <1>8 DEF Next

\* The client implements MessageChannel: publishes that fit are handed over
\* once and in order, for packets of any length, until the framing is lost.
THEOREM ImplementsChannel == Spec => ChannelSpec
<1>1. Init => Channel!Init
  BY DEF Init, Channel!Init, Nothing
<1>2. FramingInv /\ [Next]_vars => [Channel!Next]_(Channel!vars)
  BY ChannelStep
<1> QED  BY <1>1, <1>2, FramingInvariance, PTL DEF Spec, ChannelSpec, Channel!Spec
-----------------------------------------------------------------------------
(* Both directions together. *)

\* write() puts in front of a packet exactly the digits that readPacket() takes
\* for its length: as many, with the same values, the top bit set on all but
\* the last.
THEOREM LengthRoundTrip ==
    ASSUME NEW n \in Nat, n < Power[4]
    PROVE  /\ Len(LenBuf(n)) = DigitCount(n)
           /\ \A j \in 1..DigitCount(n) :
                 LenBuf(n)[j] % 128 = Digit(n, j) /\ (LenBuf(n)[j] >= 128 <=> More(n, j))
<1>1. CASE n < 128
  <2>1. LenBuf(n) = <<n>> /\ DigitCount(n) = 1
    BY <1>1 DEF LenBuf, DigitCount, Power
  <2> QED  BY <1>1, <2>1 DEF Digit, More, Power
<1>2. CASE 128 <= n /\ n < 16384
  <2> DEFINE a == (n % 128) + 128
             b == n \div 128
  <2>1. LenBuf(n) = <<a, b>> /\ DigitCount(n) = 2
    BY <1>2 DEF LenBuf, DigitCount, Power
  <2>2. a >= 128 /\ b < 128 /\ a % 128 = n % 128 /\ b % 128 = b
    BY <1>2
  <2>3. Digit(n, 1) = n % 128 /\ Digit(n, 2) = b % 128
    BY <1>2 DEF Digit, Power
  <2>4. 1..2 = {1, 2}
    OBVIOUS
  <2> HIDE DEF a, b
  <2>5. Len(<<a, b>>) = 2 /\ <<a, b>>[1] = a /\ <<a, b>>[2] = b
    OBVIOUS
  <2>6. More(n, 1) /\ ~More(n, 2)
    BY <2>1 DEF More
  <2>7. a % 128 = Digit(n, 1) /\ b % 128 = Digit(n, 2) /\ ~(b >= 128)
    BY <1>2, <2>2, <2>3 DEF b
  <2> QED  BY <2>1, <2>2, <2>4, <2>5, <2>6, <2>7, Zenon
<1>3. CASE 16384 <= n
  <2> DEFINE a == (n % 128) + 128
             b == ((n \div 128) % 128) + 128
             c == n \div 16384
  <2>1. LenBuf(n) = <<a, b, c>> /\ DigitCount(n) = 3
    BY <1>3 DEF LenBuf, DigitCount, Power
  <2>2. /\ a >= 128 /\ b >= 128 /\ c < 128
        /\ a % 128 = n % 128 /\ b % 128 = (n \div 128) % 128 /\ c % 128 = c
    BY <1>3 DEF Power
  <2>3. Digit(n, 1) = n % 128 /\ Digit(n, 2) = (n \div 128) % 128 /\ Digit(n, 3) = c % 128
    BY <1>3 DEF Digit, Power
  <2>4. 1..3 = {1, 2, 3}
    OBVIOUS
  <2> HIDE DEF a, b, c
  <2>5. Len(<<a, b, c>>) = 3 /\ <<a, b, c>>[1] = a /\ <<a, b, c>>[2] = b /\ <<a, b, c>>[3] = c
    OBVIOUS
  <2>6. More(n, 1) /\ More(n, 2) /\ ~More(n, 3)
    BY <2>1 DEF More
  <2>7. a % 128 = Digit(n, 1) /\ b % 128 = Digit(n, 2) /\ c % 128 = Digit(n, 3) /\ ~(c >= 128)
    BY <1>3, <2>2, <2>3 DEF c
  <2>8. Len(LenBuf(n)) = DigitCount(n) /\ DigitCount(n) = 3
    BY <2>1, <2>5
  <2>9. LenBuf(n)[1] % 128 = Digit(n, 1) /\ (LenBuf(n)[1] >= 128 <=> More(n, 1))
    BY <2>1, <2>2, <2>5, <2>6, <2>7, Zenon
  <2>10. LenBuf(n)[2] % 128 = Digit(n, 2) /\ (LenBuf(n)[2] >= 128 <=> More(n, 2))
    BY <2>1, <2>2, <2>5, <2>6, <2>7, Zenon
  <2>11. LenBuf(n)[3] % 128 = Digit(n, 3) /\ (LenBuf(n)[3] >= 128 <=> More(n, 3))
    BY <2>1, <2>2, <2>5, <2>6, <2>7, Zenon
  <2>12. ASSUME NEW j \in {1, 2, 3}
         PROVE  LenBuf(n)[j] % 128 = Digit(n, j) /\ (LenBuf(n)[j] >= 128 <=> More(n, j))
    <3>1. CASE j = 1
      BY <2>9, <3>1, Zenon
    <3>2. CASE j = 2
      BY <2>10, <3>2, Zenon
    <3>3. CASE j = 3
      BY <2>11, <3>3, Zenon
    <3> QED  BY <3>1, <3>2, <3>3, Zenon
  <2>13. 1..DigitCount(n) = {1, 2, 3}
    BY <2>4, <2>8, Zenon
  <2> QED  BY <2>8, <2>12, <2>13, Zenon
<1> QED  BY <1>1, <1>2, <1>3

\* A packet is headed by its length, and ends where it should.
Headed(packet) ==
    /\ packet.first >= 0
    /\ \A j \in DOMAIN packet.digits : packet.digits[j] >= 128 <=> j < Len(packet.digits)
    /\ ValueOf(packet.digits) = packet.end - (packet.first + 1 + Len(packet.digits))

WithinOneByte ==
    out # None /\ out.kind # "connect" =>
        /\ Headed(out)
        /\ out.end <= MaxPacket + 1
        /\ out.kind # "subscribe" => out.end <= MaxPacket

\* What the tests of publish(), subscribe() and unsubscribe() let pass.
LEMMA TestedEnds ==
    /\ \A t \in PubTopics, n \in PubPayloads : PublishFits(t, n) => PublishEnd(t, n) <= MaxPacket
    /\ \A t \in SubTopics :
          SubscribeFits(t) => SubscribeEnd(t) <= MaxPacket + 1 /\ UnsubscribeEnd(t) <= MaxPacket
  BY LengthAssumption, SizeAssumption
     DEF PublishFits, PublishEnd, SubscribeFits, SubscribeEnd, UnsubscribeEnd, AfterString

\* The header of a packet that ends one byte behind the buffer at most.
LEMMA WriteHeaded ==
    ASSUME NEW kind \in {"publish", "subscribe", "unsubscribe", "connect"},
           NEW end \in Nat, 5 <= end, end <= MaxPacket + 1, Write(kind, end)
    PROVE  Headed(out') /\ out'.kind = kind /\ out'.end = end
<1> DEFINE digits == LenBuf(end - 5)
<1>1. end - 5 \in Nat /\ end - 5 < 2097152
  BY SizeAssumption
<1>2. /\ digits \in Seq(Nat) /\ Len(digits) \in 1..3
      /\ \A j \in DOMAIN digits : digits[j] >= 128 <=> j < Len(digits)
      /\ ValueOf(digits) = end - 5
  BY <1>1, LenBufFacts
<1>3. out' = [kind |-> kind, first |-> 4 - Len(digits), digits |-> digits, end |-> end]
  BY DEF Write
<1> HIDE DEF digits
<1>4. /\ out'.first = 4 - Len(digits) /\ out'.digits = digits /\ out'.end = end /\ out'.kind = kind
      /\ out'.first >= 0
  <2>1. /\ out'.first = 4 - Len(digits) /\ out'.digits = digits /\ out'.end = end
        /\ out'.kind = kind
    BY <1>3
  <2> QED  BY <1>2, <2>1
<1>5. ValueOf(out'.digits) = out'.end - (out'.first + 1 + Len(out'.digits))
  BY <1>2, <1>4
<1> QED  BY <1>2, <1>4, <1>5 DEF Headed

LEMMA WithinStep ==
    ASSUME WithinOneByte, [Next]_vars
    PROVE  WithinOneByte'
<1>1. CASE Publish
  <2>1. PICK end \in Nat : 5 <= end /\ end <= MaxPacket /\ Write("publish", end)
    BY <1>1, EndFacts, TestedEnds DEF Publish
  <2> QED  BY <2>1, WriteHeaded, SizeAssumption DEF WithinOneByte
<1>2. CASE Subscribe
  <2>1. PICK kind \in {"subscribe", "unsubscribe"}, end \in Nat :
           /\ 5 <= end /\ end <= MaxPacket + 1 /\ Write(kind, end)
           /\ kind = "unsubscribe" => end <= MaxPacket
    <3>1. PICK t \in SubTopics : /\ SubscribeFits(t)
                                 /\ \/ Write("subscribe", SubscribeEnd(t))
                                    \/ Write("unsubscribe", UnsubscribeEnd(t))
      BY <1>2 DEF Subscribe
    <3>2. /\ SubscribeEnd(t) \in Nat /\ SubscribeEnd(t) >= 5 /\ SubscribeEnd(t) <= MaxPacket + 1
          /\ UnsubscribeEnd(t) \in Nat /\ UnsubscribeEnd(t) >= 5 /\ UnsubscribeEnd(t) <= MaxPacket
      BY <3>1, EndFacts, TestedEnds
    <3>3. UnsubscribeEnd(t) <= MaxPacket + 1
      BY <3>2, SizeAssumption
    <3>4. CASE Write("subscribe", SubscribeEnd(t))
      BY <3>2, <3>4
    <3>5. CASE Write("unsubscribe", UnsubscribeEnd(t))
      BY <3>2, <3>3, <3>5
    <3> QED  BY <3>1, <3>4, <3>5
  <2>2. Headed(out') /\ out'.kind = kind /\ out'.end = end
    BY <2>1, WriteHeaded
  <2> QED  BY <2>1, <2>2 DEF WithinOneByte
<1>3. CASE Connect
  <2>1. PICK end \in Nat : Write("connect", end)
    BY <1>3, EndFacts DEF Connect
  <2>2. out'.kind = "connect"
    BY <2>1 DEF Write
  <2> QED  BY <2>2 DEF WithinOneByte
<1>4. CASE ReadHeader \/ ReadDigit \/ ReadTopicLength \/ ReadPublish \/ ReadOther \/ ReadConnack
  <2>1. out' \in {out, None}
    BY <1>4 DEF ReadHeader, ReadDigit, ReadTopicLength, ReadPublish, ReadOther, ReadConnack
  <2> QED  BY <2>1 DEF WithinOneByte
<1>5. CASE Stall \/ Misread \/ CallbackReturns \/ BrokerAccepts \/ BrokerSends \/ SessionEnds
  <2>1. out' \in {out, None}
    BY <1>5 DEF Stall, Misread, CallbackReturns, BrokerAccepts, BrokerSends, SessionEnds
  <2> QED  BY <2>1 DEF WithinOneByte
<1>6. CASE UNCHANGED vars
  BY <1>6 DEF vars, WithinOneByte
<1> QED  BY <1>1, <1>2, <1>3, <1>4, <1>5, <1>6 DEF Next

\* Whatever lengths the application asks for, publish() and unsubscribe() stay
\* within the buffer and subscribe() passes it by one byte at most; a packet of
\* either is headed by its length.
THEOREM WithinOneByteHolds == Spec => []WithinOneByte
<1>1. Init => WithinOneByte
  BY DEF Init, WithinOneByte
<1>2. WithinOneByte /\ [Next]_vars => WithinOneByte'
  BY WithinStep
<1> QED  BY <1>1, <1>2, PTL DEF Spec

\* And by that byte it does: the longest topic subscribe() lets pass.
LEMMA SubscribeLimit == SubscribeFits(MaxPacket - 9) /\ SubscribeEnd(MaxPacket - 9) = MaxPacket + 1
  BY SizeAssumption DEF SubscribeFits, SubscribeEnd, AfterString

\* If the packets of the broker can be counted in 16 bits and the stream does
\* not stall, the framing is never lost; with InStep, the client then stands at
\* the beginning of a packet whenever it is between two.
THEOREM FramingNeverLost ==
    ASSUME \A p \in Incoming : Size(p) < WordSpace
    PROVE  Spec => [](broken \in {"none", "stall"})
<1>1. \A p \in Connacks : Size(p) < WordSpace
  <2> SUFFICES ASSUME NEW p \in Connacks PROVE Size(p) < WordSpace
    OBVIOUS
  <2>1. p.kind = "connack" /\ p.payload = 2
    BY DEF Connacks
  <2>2. RemLen(p) = 2
    BY <2>1 DEF RemLen
  <2>3. DigitCount(2) = 1
    BY DEF DigitCount, Power
  <2> QED  BY <2>2, <2>3, SizeAssumption DEF Size
<1>2. \A p \in Sent : Small(p)
  BY <1>1 DEF Sent, Small
<1> DEFINE Inv == broken \in {"none", "stall"}
<1>3. Init => Inv
  BY DEF Init
<1>4. FramingInv /\ Inv /\ [Next]_vars => Inv'
  <2> SUFFICES ASSUME FramingInv, Inv, [Next]_vars PROVE Inv'
    OBVIOUS
  <2>1. CASE Publish \/ Subscribe \/ Connect
    BY <2>1 DEF Publish, Subscribe, Connect
  <2>2. CASE ReadHeader \/ ReadDigit \/ ReadTopicLength
    BY <2>2 DEF ReadHeader, ReadDigit, ReadTopicLength
  <2>3. CASE ReadPublish \/ ReadOther \/ ReadConnack
    <3>1. phase = "body" /\ (AfterRead \/ UNCHANGED broken)
      BY <2>3 DEF ReadPublish, ReadOther, ReadConnack
    <3>2. TypeOK /\ Reading /\ Head(queue) \in Sent
      BY <3>1 DEF FramingInv, Reading, InPacket
    <3>3. AfterRead => broken' = broken
      BY <1>2, <3>1, <3>2, AfterReadFacts
    <3> QED  BY <3>1, <3>3
  <2>4. CASE Stall \/ Misread \/ CallbackReturns
    BY <2>4 DEF Stall, Misread, CallbackReturns
  <2>5. CASE BrokerAccepts \/ BrokerSends \/ SessionEnds \/ UNCHANGED vars
    BY <2>5 DEF BrokerAccepts, BrokerSends, SessionEnds, vars
  <2> QED  BY <2>1, <2>2, <2>3, <2>4, <2>5 DEF Next
<1> QED  BY <1>3, <1>4, FramingInvariance, PTL DEF Spec
=============================================================================
